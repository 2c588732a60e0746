----------------------------- MODULE StaticMutex -----------------------------
(***************************************************************************)
(* The mutex half of src/reimpl/pthr.c: an Android mutex is a word that    *)
(* holds either one of bionic's static initializers or a pointer to a      *)
(* mutex of the Vita, which the bridge makes on first use (36-64) without  *)
(* any synchronisation of its own.  The native mutexes and the client that *)
(* calls the bridge are external.                                          *)
(***************************************************************************)
EXTENDS Integers

CONSTANTS
  Thread, NoThread,
  Main,            (* the thread that creates the others                   *)
  Native,          (* what calloc may return                               *)
  MaxDepth         (* how deep a client nests a recursive mutex            *)

VARIABLES
  firstAlone,      (* the client uses the mutex before it creates threads  *)
  kind,            (* what the client initialised the mutex as             *)
  word,            (* the mutex of the client, *mutex                      *)
  native,          (* the native mutexes, "unused" ones not allocated      *)
  call,            (* where each thread is in the bridge                   *)
  held,            (* how often each thread believes to hold the mutex     *)
  started,         (* the threads that run                                 *)
  late             (* history: came when nobody met the first use any more *)

vars == <<firstAlone, kind, word, native, call, held, started, late>>

Holder == IF word \in Native THEN native[word].owner ELSE NoThread
Depth  == IF word \in Native THEN native[word].depth ELSE 0

(* The promise is to the client whose first use is alone; what another one *)
(* has is mapped to a mutex that nobody holds.                             *)
PromisedHolder == IF firstAlone THEN Holder ELSE NoThread
PromisedDepth  == IF firstAlone THEN Depth ELSE 0
Promise == INSTANCE Mutex WITH holder <- PromisedHolder, depth <- PromisedDepth

(* MUTEX_TYPE_NORMAL, MUTEX_TYPE_RECURSIVE and MUTEX_TYPE_ERRORCHECK, each *)
(* the value of the static initializer and the name of the kind.           *)
Kind == {"normal", "recursive", "errorcheck"}

ASSUME StaticMutexAssumption ==
  /\ Main \in Thread /\ NoThread \notin Thread
  /\ Native \cap (Kind \cup {"raw"}) = {}
  /\ MaxDepth \in Nat \ {0}

Live == word \in Native /\ native[word].kind # "unused"
Idle(t) == call[t].at = "out"
Quiet == \A t \in Thread : Idle(t) /\ held[t] = 0

-----------------------------------------------------------------------------
(* The switch of init_static_mutex: the word is a static initializer.  The *)
(* mutant forgets the default case.                                        *)
KeepsInitialising(w) == TRUE
NeedsInit(w) == w \in Kind

(* What each case copies into the new mutex.  The mutants copy one for all. *)
AlwaysNormal(k) == [kind |-> "normal", owner |-> NoThread, depth |-> 0]
AlwaysRecursive(k) == [kind |-> "recursive", owner |-> NoThread, depth |-> 0]
Fresh(k) == [kind |-> k, owner |-> NoThread, depth |-> 0]

Unused == [kind |-> "unused", owner |-> NoThread, depth |-> 0]

Goes(t, at, op, on) ==
  call' = [call EXCEPT ![t] = [at |-> at, op |-> op, on |-> on]]

Init ==
  /\ firstAlone \in BOOLEAN
  /\ kind \in Kind
  /\ word \in {kind, "raw"}
  /\ native = [m \in Native |-> Unused]
  /\ call = [t \in Thread |-> [at |-> "out", op |-> "none", on |-> "raw"]]
  /\ held = [t \in Thread |-> 0]
  /\ started = {Main}
  /\ late = [t \in Thread |-> FALSE]

-----------------------------------------------------------------------------
(* A mutex that is not static is initialised, and an initialised one is    *)
(* destroyed, by a client that makes sure nobody else is using it.         *)
InitMutex(k) ==
  /\ ~ Live /\ word \notin Kind /\ Quiet
  /\ \E m \in Native :
       /\ native[m].kind = "unused"
       /\ word' = m
       /\ native' = [native EXCEPT ![m] = Fresh(k)]
  /\ kind' = k
  /\ UNCHANGED <<firstAlone, call, held, started, late>>

DestroyMutex ==
  /\ Live /\ Quiet /\ Holder = NoThread
  /\ native' = [native EXCEPT ![word] = Unused]
  /\ UNCHANGED <<firstAlone, kind, word, call, held, started, late>>

Create(t) ==
  /\ t \notin started
  /\ word # "raw" /\ (firstAlone => word \in Native)
  /\ started' = started \cup {t}
  /\ UNCHANGED <<firstAlone, kind, word, native, call, held, late>>

(* The client asks for the mutex, again only if it may be held again or    *)
(* the answer is an error; from here to Store is init_static_mutex.        *)
BeginLock(t, op) ==
  /\ t \in started /\ Idle(t)
  /\ word \in Kind \/ Live
  /\ held[t] > 0 =>
       op = "trylock" \/ kind = "errorcheck"
         \/ (kind = "recursive" /\ held[t] < MaxDepth)
  /\ op = "trylock" => held[t] < MaxDepth
  /\ Goes(t, IF NeedsInit(word) THEN "init" ELSE "use", op, word)
  /\ late' = IF held[t] > 0 THEN late
             ELSE [late EXCEPT ![t] =
                     /\ Live
                     /\ \A u \in Thread : call[u].at \notin {"init", "store"}
                     /\ \A u \in Thread : held[u] > 0 \/ ~ Idle(u) => late[u]]
  /\ UNCHANGED <<firstAlone, kind, word, native, held, started>>

InitStatic(t) ==
  /\ call[t].at = "init"
  /\ \E m \in Native :
       /\ native[m].kind = "unused"
       /\ native' = [native EXCEPT ![m] = Fresh(call[t].on)]
       /\ Goes(t, "store", call[t].op, m)
  /\ UNCHANGED <<firstAlone, kind, word, held, started, late>>

Store(t) ==
  /\ call[t].at = "store"
  /\ word' = call[t].on
  /\ Goes(t, "use", call[t].op, call[t].on)
  /\ UNCHANGED <<firstAlone, kind, native, held, started, late>>

(* The native call is given *mutex, which a compiler may read again or     *)
(* know from the switch or the store: the accesses race.                   *)
Resolve(t) ==
  /\ call[t].at = "use"
  /\ \E m \in {call[t].on, word} : Goes(t, "call", call[t].op, m)
  /\ UNCHANGED <<firstAlone, kind, word, native, held, started, late>>

BeginUnlock(t) ==
  /\ Idle(t) /\ held[t] > 0
  /\ Goes(t, "call", "unlock", word)
  /\ UNCHANGED <<firstAlone, kind, word, native, held, started, late>>

-----------------------------------------------------------------------------
(* The native calls; a blocked lock waits with Grant disabled.             *)
Free(t, m) ==
  \/ native[m].owner = NoThread
  \/ native[m].owner = t /\ native[m].kind = "recursive"

Owned(m, owner, depth) ==
  native' = [native EXCEPT ![m] =
               [kind |-> native[m].kind, owner |-> owner, depth |-> depth]]

Return(t) == Goes(t, "out", "none", "raw")

Grant(t) ==
  LET m == call[t].on
  IN  /\ call[t].at = "call" /\ call[t].op # "unlock" /\ Free(t, m)
      /\ Owned(m, t, native[m].depth + 1)
      /\ held' = [held EXCEPT ![t] = @ + 1]
      /\ Return(t)
      /\ UNCHANGED <<firstAlone, kind, word, started, late>>

(* EBUSY, or EDEADLK from an error-checking mutex.                         *)
Refuse(t) ==
  LET m == call[t].on
  IN  /\ call[t].at = "call" /\ call[t].op # "unlock" /\ ~ Free(t, m)
      /\ \/ call[t].op = "trylock"
         \/ native[m].kind = "errorcheck" /\ native[m].owner = t
      /\ Return(t)
      /\ UNCHANGED <<firstAlone, kind, word, native, held, started, late>>

(* A mutex that keeps track of its owner refuses anyone else (EPERM), the  *)
(* normal one does not; the client believes to have unlocked either way.   *)
Unlock(t) ==
  LET m == call[t].on
      owner == native[m].owner
  IN  /\ call[t].at = "call" /\ call[t].op = "unlock"
      /\ IF owner = t \/ (owner # NoThread /\ native[m].kind = "normal")
         THEN Owned(m, IF native[m].depth = 1 THEN NoThread ELSE owner,
                    native[m].depth - 1)
         ELSE UNCHANGED native
      /\ held' = [held EXCEPT ![t] = @ - 1]
      /\ Return(t)
      /\ UNCHANGED <<firstAlone, kind, word, started, late>>

Bridge(t) ==
  InitStatic(t) \/ Store(t) \/ Resolve(t) \/ Grant(t) \/ Refuse(t) \/ Unlock(t)

Next ==
  \/ \E k \in Kind : InitMutex(k)
  \/ DestroyMutex
  \/ \E t \in Thread :
       \/ Create(t) \/ BeginUnlock(t) \/ Bridge(t)
       \/ \E op \in {"lock", "trylock"} : BeginLock(t, op)

Spec == Init /\ [][Next]_vars

-----------------------------------------------------------------------------
TypeOK ==
  /\ kind \in Kind
  /\ word \in Native \cup Kind \cup {"raw"}
  /\ native \in [Native -> [kind : Kind \cup {"unused"},
                            owner : Thread \cup {NoThread}, depth : Nat]]
  /\ call \in [Thread -> [at : {"out", "init", "store", "use", "call"},
                          op : {"none", "lock", "trylock", "unlock"},
                          on : Native \cup Kind \cup {"raw"}]]
  /\ \A t \in Thread : call[t].at \in {"store", "use", "call"} => call[t].on \in Native
  /\ held \in [Thread -> Nat]
  /\ started \subseteq Thread
  /\ late \in [Thread -> BOOLEAN]

(* What each thread in the bridge is about to use.                         *)
Reached(t) ==
  LET c == call[t]
  IN  /\ c.at = "init" => word \in Kind /\ c.on = word
      /\ c.at = "store" => word \in Kind /\ native[c.on] = Fresh(word)
      /\ c.at \in {"use", "call"} => Live /\ c.on = word
      /\ c.at \in {"init", "store", "use"} => c.op \in {"lock", "trylock"}
      /\ c.at # "out" /\ c.op = "unlock" => held[t] > 0
      /\ c.at # "out" /\ c.op = "lock" /\ held[t] > 0 => kind # "normal"

(* What the client believes is what the mutex in use knows.                *)
Believed ==
  /\ word \in Native =>
       \A t \in Thread :
         held[t] = IF native[word].owner = t THEN native[word].depth ELSE 0
  /\ word \notin Native => \A t \in Thread : held[t] = 0

(***************************************************************************)
(* While the first use is alone, every thread in the bridge is on its way  *)
(* to the one mutex in use, of the kind the client initialised, and what   *)
(* the threads believe to hold is what that mutex counts.                  *)
(***************************************************************************)
Alone ==
  /\ TypeOK
  /\ Main \in started
  /\ \A t \in Thread \ started : Idle(t) /\ held[t] = 0
  /\ word \notin Native => started = {Main} /\ word \in {kind, "raw"}
  /\ \A m \in Native : native[m].owner = NoThread <=> native[m].depth = 0
  /\ \A m \in Native : native[m].kind = "unused" => native[m].owner = NoThread
  /\ Live => native[word].kind = kind
  /\ Believed
  /\ \A t \in Thread : Reached(t)
AloneInv == firstAlone => Alone

(* Where a thread in the bridge may be after a race: its mutex is in use,  *)
(* the one it has yet to store is its own and free, and an unlock under    *)
(* way to another mutex than the word names leaves none of this one.       *)
Placed(t) ==
  LET c == call[t]
  IN  /\ c.at = "init" => c.on \in Kind
      /\ c.at \in {"store", "use", "call"} => native[c.on].kind # "unused"
      /\ c.at \in {"init", "store", "use"} => c.op \in {"lock", "trylock"}
      /\ c.at = "store" => /\ native[c.on].owner = NoThread /\ c.on # word
                           /\ \A u \in Thread \ {t} : call[u].at \in {"store", "use", "call"} => call[u].on # c.on
      /\ c.at \in {"use", "call"} => word \in Native
      /\ c.at = "call" /\ c.op = "unlock" =>
           held[t] > 0 /\ (c.on # word => native[word].owner # t)

(* The owner of the mutex in use believes to hold it as often at least.    *)
Believes(t) ==
  word \in Native /\ native[word].owner = t => held[t] >= native[word].depth

(* Once a thread that came late is there, everybody came late, is on the   *)
(* way to the mutex in use, and believes what that mutex knows.            *)
Here(t) == held[t] > 0 \/ ~ Idle(t)
Joins(t) ==
  /\ call[t].at \notin {"init", "store"}
  /\ Here(t) => late[t]
  /\ call[t].at \in {"use", "call"} => call[t].on = word
  /\ held[t] = IF native[word].owner = t THEN native[word].depth ELSE 0
Settled == Live /\ \A t \in Thread : Joins(t)
Healed == (\E t \in Thread : Here(t) /\ late[t]) => Settled

(***************************************************************************)
(* Whoever uses the mutex first: what a race leaves in disorder, and what  *)
(* it does not.                                                            *)
(***************************************************************************)
Counted == \A m \in Native : native[m].owner = NoThread <=> native[m].depth = 0
UnusedFree == \A m \in Native : native[m].kind = "unused" => native[m].owner = NoThread
NobodyHoldsAWord == word \notin Native => \A t \in Thread : held[t] = 0
DestroyedIsQuiet == word \in Native /\ ~ Live => Quiet
RaceInv ==
  /\ TypeOK
  /\ Counted
  /\ UnusedFree
  /\ \A t \in Thread : Placed(t)
  /\ \A t \in Thread : Believes(t)
  /\ NobodyHoldsAWord
  /\ DestroyedIsQuiet
  /\ Healed

(***************************************************************************)
(* The bridge keeps a mutex's promise to a client whose first use is       *)
(* alone: whatever the kind, never two holders, and nested holding exactly *)
(* for the recursive kind.  This is a refinement: the word that changes    *)
(* from initializer to pointer under the client is not to be noticed.      *)
(***************************************************************************)
KeepsPromise == Promise!MutexSpec

(***************************************************************************)
(* What the client believes agrees with that: two threads never both       *)
(* believe to be inside.                                                   *)
(***************************************************************************)
MutualExclusion ==
  firstAlone => \A t, u \in Thread : held[t] > 0 /\ held[u] > 0 => t = u

(***************************************************************************)
(* When the first use is not alone, two threads may each install a mutex   *)
(* (pthr.c 44, 51, 58 store without synchronisation), and an unlock may    *)
(* reach another mutex than the lock did.  The damage is confined to the   *)
(* threads that met the first use: once they have left, the threads that   *)
(* come later exclude each other.                                          *)
(***************************************************************************)
RaceHeals ==
  \A t, u \in Thread :
    /\ held[t] > 0 /\ late[t]
    /\ held[u] > 0 /\ late[u]
    => t = u

(***************************************************************************)
(* The kind survives the translation: a thread that asks for a mutex it    *)
(* already holds gets the nested lock or an error, and never waits for     *)
(* itself.  The client's own rule, not to lock a normal mutex twice, is    *)
(* enough only if the native mutex is of the kind the client initialised.  *)
(***************************************************************************)
NeverWaitsForItself ==
  firstAlone => \A t \in Thread :
    call[t].at = "call" /\ call[t].op = "lock" /\ native[call[t].on].owner = t
      => native[call[t].on].kind \in {"recursive", "errorcheck"}
=============================================================================
