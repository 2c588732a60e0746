----------------------------- MODULE SemBridge ------------------------------
(***************************************************************************)
(* The semaphores of src/reimpl/pthr.c over a kernel semaphore, with time: *)
(* sem_timedwait turns an absolute deadline into a relative timeout with a *)
(* clock that counts milliseconds (utils.c), while the deadline counts     *)
(* nanoseconds and the kernel microseconds.  One step of now is the finest *)
(* unit here; the kernel semaphore itself is external.                     *)
(***************************************************************************)
EXTENDS Integers, FiniteSets

CONSTANTS
  Client,
  Us, Ms,          (* a microsecond and a millisecond, in steps of now     *)
  MaxWait,         (* 0xffffffff microseconds, in microseconds             *)
  Initial,         (* the value sem_init is given                          *)
  Start,           (* the time at which the semaphore is made              *)
  Deadlines,       (* the absolute deadlines the client asks for           *)
  LastCall,        (* bound: no call begins later                          *)
  MaxDelay,        (* bound: how long a thread is kept from its wait       *)
  Horizon,         (* bound: the clock stops here                          *)
  MaxPosts         (* bound: how often the client posts                    *)

VARIABLES
  now,             (* the time                                             *)
  alive,           (* the kernel semaphore exists                          *)
  count,           (* its count                                            *)
  call,            (* each thread's call                                   *)
  posts,           (* history: sem_post calls that succeeded               *)
  taken            (* history: waits that answered 0                       *)

semVars == <<now, alive, count, call, posts, taken>>

Never == -1

ASSUME SemAssumption ==
  /\ Us \in Nat \ {0} /\ Ms \in Nat \ {0} /\ Ms % Us = 0
  /\ MaxWait \in Nat \ {0} /\ Initial \in Nat
  /\ Start \in Nat /\ Deadlines \subseteq Nat
  /\ {LastCall, MaxDelay, Horizon, MaxPosts} \subseteq Nat
  /\ Start <= Horizon /\ IsFiniteSet(Client)

Waiting(t) == call[t].at = "wait"
Out == [at |-> "out", deadline |-> 0, read |-> 0, begun |-> 0, until |-> Never]

SemInit ==
  /\ now = Start
  /\ alive = TRUE /\ count = Initial
  /\ call = [t \in Client |-> Out]
  /\ posts = 0
  /\ taken = 0

-----------------------------------------------------------------------------
(* current_timestamp_ms() * 1000: microseconds, cut to the millisecond.    *)
ClockUs(time) == (time \div Ms) * (Ms \div Us)

(* The deadline in microseconds.                                           *)
DeadlineUs(deadline) == deadline \div Us

Remaining(deadline, read) == DeadlineUs(deadline) - ClockUs(read)

(* remaining <= 0 is the past.                                             *)
Passed(remaining) == remaining <= 0

(* The relative timeout, clamped to 32 bits and then converted to them.    *)
(* The mutant does not clamp.                                              *)
TruncatedTimeout(remaining) == remaining % (MaxWait + 1)
Timeout(remaining) ==
  IF remaining > MaxWait THEN MaxWait ELSE remaining % (MaxWait + 1)

(* sem_timedwait up to the kernel call: the clock is read, a deadline that *)
(* has passed fails at once, and time may go by before the kernel waits.   *)
BeginTimedWait(t, deadline) ==
  /\ call[t].at = "out" /\ now <= LastCall
  /\ call' = [call EXCEPT ![t] =
       [at |-> IF Passed(Remaining(deadline, now)) THEN "timeout" ELSE "armed",
        deadline |-> deadline, read |-> now, begun |-> 0, until |-> Never]]
  /\ UNCHANGED <<now, alive, count, posts, taken>>

EnterTimedWait(t) ==
  /\ call[t].at = "armed"
  /\ call' = [call EXCEPT ![t] =
       [at |-> IF alive THEN "wait" ELSE "error",
        deadline |-> call[t].deadline, read |-> call[t].read, begun |-> now,
        until |-> now + Us * Timeout(Remaining(call[t].deadline,
                                               call[t].read))]]
  /\ UNCHANGED <<now, alive, count, posts, taken>>

(* sem_trywait waits, for a millisecond; sem_wait for ever.                *)
BeginTryWait(t) ==
  /\ call[t].at = "out" /\ now <= LastCall
  /\ call' = [call EXCEPT ![t] =
       [at |-> IF alive THEN "wait" ELSE "error", deadline |-> now + Ms,
        read |-> now, begun |-> now, until |-> now + Ms]]
  /\ UNCHANGED <<now, alive, count, posts, taken>>

BeginWait(t) ==
  /\ call[t].at = "out" /\ now <= LastCall
  /\ call' = [call EXCEPT ![t] =
       [at |-> IF alive THEN "wait" ELSE "error", deadline |-> 0,
        read |-> now, begun |-> now, until |-> Never]]
  /\ UNCHANGED <<now, alive, count, posts, taken>>

-----------------------------------------------------------------------------
(* The kernel.  A wait is granted while there is a count, expires when its *)
(* timeout is over, and fails when the semaphore is deleted under it.      *)
Grantable(n) == n > 0

Answers(t, at) == call' = [call EXCEPT ![t].at = at]

Grant(t) ==
  /\ Waiting(t) /\ alive /\ Grantable(count)
  /\ count' = count - 1
  /\ Answers(t, "granted")
  /\ UNCHANGED <<now, alive, posts, taken>>

Expire(t) ==
  /\ Waiting(t) /\ alive /\ count = 0
  /\ call[t].until # Never /\ now >= call[t].until
  /\ Answers(t, "timeout")
  /\ UNCHANGED <<now, alive, count, posts, taken>>

Deleted(t) ==
  /\ Waiting(t) /\ ~ alive
  /\ Answers(t, "error")
  /\ UNCHANGED <<now, alive, count, posts, taken>>

(* A negative answer of the kernel is -1 for the client, otherwise 0.      *)
Result(at) == IF at = "granted" THEN 0 ELSE -1

ReturnAnswer(t) ==
  /\ call[t].at \in {"granted", "timeout", "error"}
  /\ taken' = IF Result(call[t].at) = 0 THEN taken + 1 ELSE taken
  /\ call' = [call EXCEPT ![t] = Out]
  /\ UNCHANGED <<now, alive, count, posts>>

Post ==
  /\ posts < MaxPosts
  /\ IF alive THEN count' = count + 1 /\ posts' = posts + 1
     ELSE UNCHANGED <<count, posts>>
  /\ UNCHANGED <<now, alive, call, taken>>

Destroy ==
  /\ alive
  /\ alive' = FALSE
  /\ UNCHANGED <<now, count, call, posts, taken>>

(* The kernel wakes a waiter when its timeout is over, not later.          *)
Tick ==
  /\ now < Horizon
  /\ \A t \in Client :
       /\ Waiting(t) /\ call[t].until # Never => now < call[t].until
       /\ call[t].at = "armed" => now < call[t].read + MaxDelay
  /\ now' = now + 1
  /\ UNCHANGED <<alive, count, call, posts, taken>>

Begin(t) ==
  \/ \E d \in Deadlines : BeginTimedWait(t, d)
  \/ BeginTryWait(t)
  \/ BeginWait(t)
Kernel(t) == Grant(t) \/ Expire(t) \/ Deleted(t)
SemNext ==
  \/ \E t \in Client : Begin(t) \/ EnterTimedWait(t) \/ Kernel(t) \/ ReturnAnswer(t)
  \/ Post \/ Destroy \/ Tick

(* Time passes, the kernel answers, and a thread that can run runs.        *)
SemSpec ==
  /\ SemInit /\ [][SemNext]_semVars
  /\ WF_semVars(Tick)
  /\ \A t \in Client : WF_semVars(EnterTimedWait(t) \/ Kernel(t) \/ ReturnAnswer(t))

-----------------------------------------------------------------------------
SemTypeOK ==
  /\ now \in 0..Horizon /\ alive \in BOOLEAN /\ count \in Nat
  /\ posts \in 0..MaxPosts /\ taken \in Nat
  /\ call \in [Client ->
       [at : {"out", "armed", "wait", "granted", "timeout", "error"},
        deadline : Nat, read : Nat, begun : Nat, until : Nat \cup {Never}]]

Granted == Cardinality({t \in Client : call[t].at = "granted"})

(* No token is lost or invented: what was put in is there, about to be     *)
(* answered, or was answered with 0.                                       *)
TokensConserved ==
  Initial + posts = count + Granted + taken

(* A timed wait gives up less than a microsecond before its deadline at    *)
(* the earliest, although the clock it read was up to a millisecond old,   *)
(* or after the 32 bits of microseconds the kernel can wait.               *)
NeverEarly ==
  \A t \in Client : call[t].at = "timeout" =>
    \/ now > call[t].deadline - Us
    \/ now - call[t].begun >= Us * MaxWait

(* And less than a millisecond late, not counting the time that went by    *)
(* between the reading of the clock and the wait.                          *)
LateByAMillisecondAtMost ==
  \A t \in Client : Waiting(t) /\ call[t].until # Never =>
    call[t].until - (call[t].begun - call[t].read) < call[t].deadline + Ms

(* A wait with a deadline returns, whoever posts or deletes meanwhile.     *)
TimedWaitsReturn ==
  \A t \in Client : call[t].at = "armed" \/ (Waiting(t) /\ call[t].until # Never)
                      ~> call[t].at = "out"

(* What a semaphore promises in every state: it keeps its count and its    *)
(* deadlines.                                                              *)
SemInv ==
  /\ SemTypeOK
  /\ TokensConserved
  /\ NeverEarly
  /\ LateByAMillisecondAtMost
=============================================================================
