------------------------------ MODULE LogLock ------------------------------
(***************************************************************************)
(* The lock around the two buffers of a log, in utils/logger.c and, with   *)
(* the same macros, in FalsoJNI_Logger.c: the first message creates it.    *)
(* Creating it again in the same work area starts a new native mutex and   *)
(* forgets who held the old one; whoever sleeps on the old one stays there.*)
(***************************************************************************)
EXTENDS Naturals, FiniteSets

CONSTANTS
  Thread, NoOne,
  Level, Compiled    (* levels of a message, and those the build keeps      *)

ASSUME LogAssumption ==
  NoOne \notin Thread /\ IsFiniteSet(Thread) /\ Compiled \subseteq Level

VARIABLES
  inited,          (* _log_mutex_inited                                    *)
  made,            (* how many native mutexes the work area has held       *)
  owner,           (* the thread that holds the present one                *)
  pc,              (* where each thread is in the macros                   *)
  sleeps,          (* the native mutex it sleeps on, 0 if awake            *)
  buffer,          (* whose message is in the buffers                      *)
  met,             (* history: a thread came while another was creating    *)
  late             (* history: calls begun when nobody was creating        *)

logVars == <<inited, made, owner, pc, sleeps, buffer, met, late>>

LogInit ==
  /\ inited = FALSE /\ made = 0 /\ owner = NoOne /\ buffer = NoOne
  /\ pc = [t \in Thread |-> "out"]
  /\ sleeps = [t \in Thread |-> 0]
  /\ met = FALSE /\ late = {}

LogGoes(t, at) == pc' = [pc EXCEPT ![t] = at]
Creating == {t \in Thread : pc[t] \in {"create", "store"}}

(* LOG_LOCK's test.                                                        *)
Creates == ~inited

(* A message: a level that is not compiled in is an empty function.        *)
Message(t, level) ==
  /\ pc[t] = "out"
  /\ level \in Compiled
  /\ LogGoes(t, IF Creates THEN "create" ELSE "lock")
  /\ met' = (met \/ (~inited /\ Creating # {}))
  /\ late' = IF inited /\ Creating = {} THEN late \cup {t} ELSE late
  /\ UNCHANGED <<inited, made, owner, sleeps, buffer>>

Create(t) ==
  /\ pc[t] = "create"
  /\ made' = made + 1 /\ owner' = NoOne
  /\ LogGoes(t, "store")
  /\ UNCHANGED <<inited, sleeps, buffer, late, met>>

(* The kernel has no mutex left: the message is given up.                  *)
CreateFails(t) ==
  /\ pc[t] = "create"
  /\ LogGoes(t, "out")
  /\ UNCHANGED <<inited, made, owner, sleeps, buffer, late, met>>

Store(t) ==
  /\ pc[t] = "store"
  /\ inited' = TRUE
  /\ LogGoes(t, "lock")
  /\ UNCHANGED <<made, owner, sleeps, buffer, late, met>>

(* sceKernelLockLwMutex.  The mutant never wakes a sleeper.                *)
TakeAwake(t) ==
  /\ pc[t] = "lock" /\ owner = NoOne /\ sleeps[t] = 0
  /\ owner' = t
  /\ LogGoes(t, "format")
  /\ UNCHANGED <<inited, made, sleeps, buffer, late, met>>
Take(t) ==
  /\ pc[t] = "lock" /\ owner = NoOne
  /\ sleeps[t] \in {0, made}
  /\ owner' = t
  /\ sleeps' = [sleeps EXCEPT ![t] = 0]
  /\ LogGoes(t, "format")
  /\ UNCHANGED <<inited, made, buffer, late, met>>

Sleep(t) ==
  /\ pc[t] = "lock" /\ owner # NoOne /\ sleeps[t] = 0
  /\ sleeps' = [sleeps EXCEPT ![t] = made]
  /\ UNCHANGED <<inited, made, owner, pc, buffer, late, met>>

Format(t) ==
  /\ pc[t] = "format"
  /\ buffer' = t
  /\ LogGoes(t, "print")
  /\ UNCHANGED <<inited, made, owner, sleeps, late, met>>

Emit(t) ==
  /\ pc[t] = "print"
  /\ LogGoes(t, "unlock")
  /\ UNCHANGED <<inited, made, owner, sleeps, buffer, late, met>>

(* LOG_UNLOCK: the native call refuses a thread that is not the owner. The *)
(* mutant's does not.                                                      *)
ReleasedByAnyone(t) == NoOne
Released(t) == IF inited /\ owner = t THEN NoOne ELSE owner

Unlock(t) ==
  /\ pc[t] = "unlock"
  /\ owner' = Released(t)
  /\ LogGoes(t, "out")
  /\ late' = late \ {t}
  /\ UNCHANGED <<inited, made, sleeps, buffer, met>>

LogStep(t) ==
  Create(t) \/ CreateFails(t) \/ Store(t) \/ Take(t) \/ Sleep(t) \/ Format(t) \/ Emit(t) \/ Unlock(t)

LogNext == \E t \in Thread : (\E level \in Level : Message(t, level)) \/ LogStep(t)

(* Every thread gets on with its message; the native mutex is not starved. *)
LogSpec ==
  LogInit /\ [][LogNext]_logVars /\ \A t \in Thread : WF_logVars(LogStep(t)) /\ SF_logVars(Take(t))

-----------------------------------------------------------------------------
LogTypeOK ==
  /\ inited \in BOOLEAN /\ met \in BOOLEAN /\ made \in 0..Cardinality(Thread)
  /\ owner \in Thread \cup {NoOne} /\ buffer \in Thread \cup {NoOne}
  /\ \A t \in Thread : sleeps[t] \in 0..made
  /\ \A t \in Thread : pc[t] \in {"lock", "format", "print", "unlock"} => inited

(* A thread prints the message it formatted: nobody writes the buffers     *)
(* between its two calls (LOG_LOCK), unless two created the lock at once.  *)
(* They do not when the first message precedes the second thread.          *)
PrintsItsOwn == ~met => \A t \in Thread : pc[t] = "print" => buffer = t

(* And every message comes to its end, or is given up; when two created    *)
(* the lock at once, one of the first messages may sleep for ever, but not *)
(* one begun after that.                                                   *)
MessagesEnd ==
  \A t \in Thread : pc[t] # "out" ~> (pc[t] = "out" \/ (met /\ t \notin late))

(* When two threads create the lock at once both may be between lock and   *)
(* unlock; but messages begun after that exclude each other.               *)
LateMessagesExclude ==
  \A t, u \in late : t # u =>
    ~(pc[t] \in {"format", "print", "unlock"} /\ pc[u] \in {"format", "print", "unlock"})

(* What the lock of a log is for, and what is left of it when two threads  *)
(* have created it at once.                                                *)
LogInv ==
  /\ LogTypeOK
  /\ PrintsItsOwn
  /\ LateMessagesExclude
=============================================================================
