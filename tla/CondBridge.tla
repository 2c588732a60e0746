----------------------------- MODULE CondBridge -----------------------------
(***************************************************************************)
(* The condition variables of src/reimpl/pthr.c.  A static one is NULL     *)
(* until signal or timedwait makes a native one for it; wait and broadcast *)
(* make none.  The client is the usual one: waiters re-test a count under  *)
(* a mutex, notifiers raise it under the mutex and notify before or after  *)
(* they release it.  Mutex and native condition variables are external.    *)
(***************************************************************************)
EXTENDS Naturals, FiniteSets

CONSTANTS
  Waiter, Notifier,
  Native,          (* what calloc may return                               *)
  Null, Raw,       (* *cond of a static variable, and one not initialised  *)
  NoThread

VARIABLES
  underLock,       (* the notifiers notify before they release the mutex   *)
  static,          (* the variable began as PTHREAD_COND_INITIALIZER       *)
  timed,           (* the waiters use pthread_cond_timedwait               *)
  word,            (* the condition variable of the client, *cond          *)
  memory,          (* the native condition variables allocated             *)
  asleep,          (* who sleeps on each of them                           *)
  lock,            (* who holds the mutex                                  *)
  items,           (* what the waiters wait for                            *)
  at,              (* where each thread is                                 *)
  fresh            (* the condition variable a thread has just allocated   *)

condVars == <<underLock, static, timed, word, memory, asleep, lock, items, at, fresh>>

CondThread == Waiter \cup Notifier

ASSUME CondAssumption ==
  /\ Waiter \cap Notifier = {} /\ NoThread \notin CondThread
  /\ Null \notin Native /\ Raw \notin Native /\ Null # Raw
  /\ IsFiniteSet(Notifier)

CondInit ==
  /\ underLock \in BOOLEAN /\ static \in BOOLEAN /\ timed \in BOOLEAN
  /\ word = IF static THEN Null ELSE Raw
  /\ memory = {}
  /\ asleep = [c \in Native |-> {}]
  /\ lock = NoThread
  /\ items = 0
  /\ at = [t \in CondThread |-> "start"]
  /\ fresh = [t \in CondThread |-> Null]

CondGoes(t, there) == at' = [at EXCEPT ![t] = there]

-----------------------------------------------------------------------------
(* pthread_cond_init and pthread_cond_destroy, when nobody uses it.  Raw   *)
(* also stands for the pointer destroy leaves behind.                      *)
InitCond ==
  /\ word = Raw
  /\ \E c \in Native \ memory : word' = c /\ memory' = memory \cup {c}
  /\ UNCHANGED <<underLock, static, timed, asleep, lock, items, at, fresh>>

CondDestroy ==
  /\ word \in memory /\ \A t \in CondThread : at[t] = "done"
  /\ memory' = memory \ {word} /\ word' = Raw
  /\ UNCHANGED <<underLock, static, timed, asleep, lock, items, at, fresh>>

Lock(t) ==
  /\ at[t] \in {"start", "relock"} /\ lock = NoThread /\ word # Raw
  /\ lock' = t
  /\ CondGoes(t, "locked")
  /\ UNCHANGED <<underLock, static, timed, word, memory, asleep, items, fresh>>

(* The test of init_static_cond.  The mutants make a new one every time,  *)
(* or none.                                                                *)
AlwaysInits(w) == TRUE
NeverInits(w) == FALSE
NeedsInit(w) == w = Null

(* A waiter takes an item or calls wait or timedwait, which differ in the  *)
(* call of init_static_cond.                                               *)
TakeOrWait(t) ==
  /\ t \in Waiter /\ at[t] = "locked"
  /\ IF items > 0
     THEN items' = items - 1 /\ lock' = NoThread /\ CondGoes(t, "done")
     ELSE /\ CondGoes(t, IF timed /\ NeedsInit(word) THEN "make" ELSE "use")
          /\ UNCHANGED <<items, lock>>
  /\ UNCHANGED <<underLock, static, timed, word, memory, asleep, fresh>>

(* A notifier raises the count; signal initialises, broadcast does not.    *)
Put(t) ==
  /\ t \in Notifier /\ at[t] = "locked"
  /\ items' = items + 1
  /\ lock' = IF underLock THEN t ELSE NoThread
  /\ CondGoes(t, "notify")
  /\ UNCHANGED <<underLock, static, timed, word, memory, asleep, fresh>>

BeginSignal(t) ==
  /\ at[t] = "notify"
  /\ CondGoes(t, IF NeedsInit(word) THEN "make" ELSE "use")
  /\ UNCHANGED <<underLock, static, timed, word, memory, asleep, lock, items, fresh>>

(* The rest of init_static_cond, between whose accesses others run.        *)
Make(t) ==
  /\ at[t] = "make"
  /\ \E c \in Native \ memory :
       memory' = memory \cup {c} /\ fresh' = [fresh EXCEPT ![t] = c]
  /\ CondGoes(t, "store")
  /\ UNCHANGED <<underLock, static, timed, word, asleep, lock, items>>

StoreWord(t) ==
  /\ at[t] = "store"
  /\ word' = fresh[t]
  /\ fresh' = [fresh EXCEPT ![t] = Null]
  /\ CondGoes(t, "use")
  /\ UNCHANGED <<underLock, static, timed, memory, asleep, lock, items>>

-----------------------------------------------------------------------------
(* The native calls.  NULL is refused with EINVAL: a waiter is back at its *)
(* test, with the mutex; a broadcast is lost.                              *)
NativeWait(t) ==
  /\ t \in Waiter /\ at[t] = "use"
  /\ IF word = Null
     THEN CondGoes(t, "locked") /\ UNCHANGED <<asleep, lock>>
     ELSE /\ asleep' = [asleep EXCEPT ![word] = @ \cup {t}]
          /\ lock' = NoThread
          /\ CondGoes(t, "asleep")
  /\ UNCHANGED <<underLock, static, timed, word, memory, items, fresh>>

Wakes(t, woken) ==
  /\ asleep' = IF word \in Native THEN [asleep EXCEPT ![word] = @ \ woken]
               ELSE asleep
  /\ at' = [u \in CondThread |-> IF u \in woken THEN "relock"
                             ELSE IF u = t THEN "done" ELSE at[u]]
  /\ lock' = IF lock = t THEN NoThread ELSE lock
  /\ UNCHANGED <<underLock, static, timed, word, memory, items, fresh>>

Sleepers == IF word \in Native THEN asleep[word] ELSE {}

NativeSignal(t) ==
  /\ t \in Notifier /\ at[t] = "use"
  /\ \/ Sleepers = {} /\ Wakes(t, {})
     \/ \E u \in Sleepers : Wakes(t, {u})

NativeBroadcast(t) ==
  /\ at[t] = "notify"
  /\ Wakes(t, Sleepers)

(* A timed sleeper is back after its deadline.                             *)
ExpireSleep(t) ==
  /\ timed /\ at[t] = "asleep"
  /\ \E c \in memory :
       t \in asleep[c] /\ asleep' = [asleep EXCEPT ![c] = @ \ {t}]
  /\ CondGoes(t, "relock")
  /\ UNCHANGED <<underLock, static, timed, word, memory, lock, items, fresh>>

CondStep(t) ==
  \/ TakeOrWait(t) \/ Put(t) \/ Make(t) \/ StoreWord(t)
  \/ NativeWait(t) \/ NativeSignal(t) \/ ExpireSleep(t)
Notify(t) == BeginSignal(t) \/ NativeBroadcast(t)

CondNext ==
  \/ InitCond \/ CondDestroy
  \/ \E t \in CondThread : Lock(t) \/ CondStep(t) \/ Notify(t)

(* The kernel's mutex serves whoever keeps asking, timeouts expire, and a  *)
(* thread that can run runs.                                               *)
CondSpec ==
  /\ CondInit /\ [][CondNext]_condVars
  /\ WF_condVars(InitCond)
  /\ \A t \in CondThread : SF_condVars(Lock(t)) /\ WF_condVars(CondStep(t)) /\ WF_condVars(Notify(t))

-----------------------------------------------------------------------------
(* Types; and notifiers that notify under the mutex make one native        *)
(* condition variable at most.                                             *)
CondTypeOK ==
  /\ underLock => Cardinality(memory) <= 1
  /\ word \in Native \cup {Null, Raw} /\ memory \subseteq Native
  /\ asleep \in [Native -> SUBSET Waiter]
  /\ lock \in CondThread \cup {NoThread} /\ items \in 0..Cardinality(Notifier)
  /\ at \in [CondThread -> {"start", "locked", "notify", "make", "store", "use",
                        "asleep", "relock", "done"}]

(* When the notifiers notify under the mutex, the lazy initialisation runs *)
(* under it as well: whoever sleeps does so where the next signal goes.    *)
SleepersReachable ==
  underLock => \A c \in Native : asleep[c] # {} => word = c

(* Every waiter gets its item: always when the variable was initialised,   *)
(* and for a static one when the waits are timed, even if two threads met  *)
(* in the lazy initialisation and a signal went to the variable nobody     *)
(* sleeps on.  A plain wait on an untouched static variable is the case    *)
(* left out: it returns at once with the mutex held, again and again.      *)
WaitersServed ==
  \A w \in Waiter : timed \/ ~ static => <>(at[w] = "done")

(* The native condition variables and the client's word agree on who       *)
(* sleeps where.                                                           *)
CondInv ==
  /\ CondTypeOK
  /\ SleepersReachable
=============================================================================
