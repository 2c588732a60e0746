-------------------------- MODULE StaticMutexProofs --------------------------
(***************************************************************************)
(* TLAPS proofs about StaticMutex, for any set of threads, any supply of   *)
(* native mutexes and any depth of nesting: that the bridge is a mutex     *)
(* when the first use is alone, and what is left of it when it is not.     *)
(***************************************************************************)
EXTENDS StaticMutex, TLAPS

LEMMA Distinct ==
  /\ Main \in Thread /\ NoThread \notin Thread
  /\ "normal" \notin Native /\ "recursive" \notin Native
  /\ "errorcheck" \notin Native /\ "raw" \notin Native
BY StaticMutexAssumption DEF Kind

LEMMA InitAlone ==
  Init => Alone
<1>. SUFFICES ASSUME Init PROVE Alone
  OBVIOUS
<1>1. TypeOK
  BY Distinct DEF Init, TypeOK, Unused, Kind
<1>2. word \notin Native
  BY Distinct DEF Init, Kind
<1>. QED
  BY <1>1, <1>2, Distinct
     DEF Init, Alone, Believed, Reached, Live, Idle, Unused, Kind

LEMMA InitMutexAlone ==
  ASSUME NEW k \in Kind, Alone, InitMutex(k)
  PROVE  Alone'
<1>. USE Distinct
<1>1. PICK m \in Native :
        /\ native[m].kind = "unused"
        /\ word' = m
        /\ native' = [native EXCEPT ![m] = Fresh(k)]
  BY DEF InitMutex
<1>2. /\ kind' = k
      /\ call' = call /\ held' = held /\ started' = started /\ late' = late
      /\ \A t \in Thread : call[t].at = "out" /\ held[t] = 0
  BY DEF InitMutex, Quiet, Idle
<1>3. TypeOK'
  BY <1>1, <1>2 DEF Alone, TypeOK, Fresh, Kind
<1>4. native'[m] = Fresh(k) /\ \A n \in Native \ {m} : native'[n] = native[n]
  BY <1>1 DEF Alone, TypeOK
<1>5. /\ \A n \in Native : native'[n].owner = NoThread <=> native'[n].depth = 0
      /\ \A n \in Native :
           native'[n].kind = "unused" => native'[n].owner = NoThread
  BY <1>4 DEF Alone, Fresh
<1>6. Believed' /\ (Live => native[word].kind = kind)'
  BY <1>1, <1>2, <1>4 DEF Believed, Fresh, Live
<1>7. \A t \in Thread : Reached(t)'
  BY <1>2 DEF Reached
<1>. QED
  BY <1>1, <1>2, <1>3, <1>5, <1>6, <1>7 DEF Alone, Idle

LEMMA DestroyMutexAlone ==
  ASSUME Alone, DestroyMutex
  PROVE  Alone'
<1>. USE Distinct
<1>1. /\ word \in Native /\ native[word].owner = NoThread
      /\ native' = [native EXCEPT ![word] = Unused]
      /\ kind' = kind /\ word' = word
      /\ call' = call /\ held' = held /\ started' = started /\ late' = late
      /\ \A t \in Thread : call[t].at = "out" /\ held[t] = 0
  BY DEF DestroyMutex, Quiet, Idle, Live, Holder
<1>2. TypeOK'
  BY <1>1 DEF Alone, TypeOK, Unused, Kind
<1>3. native'[word] = Unused /\ \A n \in Native \ {word} : native'[n] = native[n]
  BY <1>1 DEF Alone, TypeOK
<1>4. /\ \A n \in Native : native'[n].owner = NoThread <=> native'[n].depth = 0
      /\ \A n \in Native :
           native'[n].kind = "unused" => native'[n].owner = NoThread
  BY <1>3 DEF Alone, Unused
<1>5. Believed' /\ ~ Live'
  BY <1>1, <1>3 DEF Believed, Unused, Live
<1>6. \A t \in Thread : Reached(t)'
  BY <1>1 DEF Reached
<1>. QED
  BY <1>1, <1>2, <1>4, <1>5, <1>6 DEF Alone, Idle

LEMMA CreateAlone ==
  ASSUME firstAlone, NEW t \in Thread, Alone, Create(t)
  PROVE  Alone'
<1>1. /\ word \in Native /\ started' = started \cup {t}
      /\ UNCHANGED <<kind, word, native, call, held, late>>
  BY Zenon DEF Create
<1>2. TypeOK'
  BY <1>1 DEF Alone, TypeOK
<1>3. Believed' /\ (Live => native[word].kind = kind)'
  BY <1>1 DEF Alone, Believed, Live
<1>4. \A u \in Thread : Reached(u)'
  BY <1>1 DEF Alone, Reached, Live
<1>. QED
  BY <1>1, <1>2, <1>3, <1>4 DEF Alone, Idle

(* The steps of a thread that leave the mutexes and beliefs as they are,   *)
(* and move the thread itself only.                                        *)
LEMMA MoveAlone ==
  ASSUME Alone, NEW t \in Thread, t \in started,
         UNCHANGED <<kind, word, native, held, started>>,
         TypeOK',
         \A u \in Thread \ {t} : call'[u] = call[u],
         Reached(t)'
  PROVE  Alone'
<1>1. Believed' /\ (Live => native[word].kind = kind)'
  BY DEF Alone, Believed, Live
<1>2. \A u \in Thread : Reached(u)'
  BY DEF Alone, Reached, Live
<1>. QED
  BY <1>1, <1>2 DEF Alone, Idle

LEMMA BeginLockAlone ==
  ASSUME Alone, NEW t \in Thread, NEW op \in {"lock", "trylock"},
         BeginLock(t, op)
  PROVE  Alone'
<1>. USE Distinct
<1>1. /\ t \in started
      /\ word \in Kind \/ Live
      /\ held[t] > 0 => op = "trylock" \/ kind = "errorcheck" \/ kind = "recursive"
      /\ UNCHANGED <<kind, word, native, held, started>>
      /\ call' = [call EXCEPT ![t] =
                    [at |-> IF word \in Kind THEN "init" ELSE "use",
                     op |-> op, on |-> word]]
  BY DEF BeginLock, NeedsInit, Goes
<1>2. late' \in [Thread -> BOOLEAN]
  BY DEF BeginLock, Alone, TypeOK
<1>3. word \in Kind => ~ Live
  BY DEF Live, Kind
<1>4. /\ call'[t] = [at |-> IF word \in Kind THEN "init" ELSE "use",
                     op |-> op, on |-> word]
      /\ \A u \in Thread \ {t} : call'[u] = call[u]
  BY <1>1 DEF Alone, TypeOK
<1>5. TypeOK'
  BY <1>1, <1>2, <1>4 DEF Alone, TypeOK, Live
<1>6. Reached(t)'
  BY <1>1, <1>3, <1>4 DEF Reached, Live
<1>. QED
  BY <1>1, <1>4, <1>5, <1>6, MoveAlone

LEMMA InitStaticAlone ==
  ASSUME Alone, NEW t \in Thread, InitStatic(t)
  PROVE  Alone'
<1>. USE Distinct
<1>1. PICK m \in Native :
        /\ native[m].kind = "unused"
        /\ native' = [native EXCEPT ![m] = Fresh(call[t].on)]
        /\ call' = [call EXCEPT ![t] =
                      [at |-> "store", op |-> call[t].op, on |-> m]]
  BY DEF InitStatic, Goes
<1>2. /\ call[t].at = "init" /\ word \in Kind /\ call[t].on = word
      /\ call[t].op \in {"lock", "trylock"}
      /\ UNCHANGED <<kind, word, held, started, late>>
      /\ word \notin Native
  BY DEF InitStatic, Alone, Reached, Kind
<1>3. /\ native'[m] = Fresh(word)
      /\ \A n \in Native \ {m} : native'[n] = native[n]
      /\ call'[t] = [at |-> "store", op |-> call[t].op, on |-> m]
      /\ \A u \in Thread \ {t} : call'[u] = call[u]
  BY <1>1, <1>2 DEF Alone, TypeOK
<1>4. TypeOK'
  <2>1. call' \in [Thread -> [at : {"out", "init", "store", "use", "call"},
                               op : {"none", "lock", "trylock", "unlock"},
                               on : Native \cup Kind \cup {"raw"}]]
    BY <1>1 DEF Alone, TypeOK
  <2>2. \A u \in Thread :
          call'[u].at \in {"store", "use", "call"} => call'[u].on \in Native
    BY <1>3 DEF Alone, TypeOK
  <2>3. native' \in [Native -> [kind : Kind \cup {"unused"},
                                owner : Thread \cup {NoThread}, depth : Nat]]
    BY <1>1, <1>2 DEF Alone, TypeOK, Fresh
  <2>. QED
    BY <1>2, <2>1, <2>2, <2>3 DEF Alone, TypeOK
<1>5. /\ \A n \in Native : native'[n].owner = NoThread <=> native'[n].depth = 0
      /\ \A n \in Native :
           native'[n].kind = "unused" => native'[n].owner = NoThread
  BY <1>3 DEF Alone, Fresh
<1>6. Believed' /\ ~ Live'
  BY <1>2 DEF Alone, Believed, Live
<1>7. started = {Main} /\ t = Main
  BY <1>2 DEF Alone, Idle
<1>8. \A u \in Thread \ {t} : call'[u].at = "out"
  BY <1>3, <1>7 DEF Alone, Idle
<1>9. Reached(t)'
  BY <1>2, <1>3, <1>7 DEF Alone, TypeOK, Reached, Believed, Live
<1>10. \A u \in Thread \ {t} : Reached(u)'
  BY <1>8 DEF Reached
<1>. QED
  BY <1>2, <1>4, <1>5, <1>6, <1>7, <1>8, <1>9, <1>10 DEF Alone, Idle

LEMMA StoreAlone ==
  ASSUME Alone, NEW t \in Thread, Store(t)
  PROVE  Alone'
<1>. USE Distinct
<1>1. /\ call[t].at = "store" /\ call[t].on \in Native
      /\ word \in Kind /\ word \notin Native /\ word = kind
      /\ native[call[t].on] = Fresh(word)
      /\ call[t].op \in {"lock", "trylock"}
      /\ word' = call[t].on
      /\ call' = [call EXCEPT ![t] =
                    [at |-> "use", op |-> call[t].op, on |-> call[t].on]]
      /\ UNCHANGED <<kind, native, held, started, late>>
      /\ \A u \in Thread : held[u] = 0
  BY DEF Store, Goes, Alone, TypeOK, Reached, Believed, Kind
<1>2. /\ call'[t] = [at |-> "use", op |-> call[t].op, on |-> call[t].on]
      /\ \A u \in Thread \ {t} : call'[u] = call[u]
  BY <1>1 DEF Alone, TypeOK
<1>3. TypeOK'
  BY <1>1, <1>2 DEF Alone, TypeOK
<1>4. Believed' /\ (Live => native[word].kind = kind)'
  BY <1>1 DEF Believed, Live, Fresh
<1>5. started = {Main} /\ t = Main
  BY <1>1 DEF Alone, Idle
<1>6. \A u \in Thread \ {t} : call'[u].at = "out"
  BY <1>2, <1>5 DEF Alone, Idle
<1>7. Live'
  BY <1>1 DEF Live, Fresh, Kind
<1>8. Reached(t)'
  BY <1>1, <1>2, <1>7 DEF Alone, TypeOK, Reached
<1>9. \A u \in Thread \ {t} : Reached(u)'
  BY <1>6 DEF Reached
<1>. QED
  BY <1>1, <1>3, <1>4, <1>5, <1>6, <1>8, <1>9 DEF Alone, Idle

LEMMA ResolveAlone ==
  ASSUME Alone, NEW t \in Thread, Resolve(t)
  PROVE  Alone'
<1>1. /\ call[t].at = "use" /\ call[t].on = word /\ Live
      /\ call[t].op \in {"lock", "trylock"}
      /\ UNCHANGED <<kind, word, native, held, started, late>>
      /\ call' = [call EXCEPT ![t] =
                    [at |-> "call", op |-> call[t].op, on |-> word]]
  BY DEF Resolve, Goes, Alone, Reached
<1>2. /\ call'[t] = [at |-> "call", op |-> call[t].op, on |-> word]
      /\ \A u \in Thread \ {t} : call'[u] = call[u]
  BY <1>1 DEF Alone, TypeOK
<1>3. TypeOK'
  <2>1. call' \in [Thread -> [at : {"out", "init", "store", "use", "call"},
                               op : {"none", "lock", "trylock", "unlock"},
                               on : Native \cup Kind \cup {"raw"}]]
    BY <1>1 DEF Alone, TypeOK, Live
  <2>2. \A u \in Thread :
          call'[u].at \in {"store", "use", "call"} => call'[u].on \in Native
    BY <1>1, <1>2 DEF Alone, TypeOK, Live
  <2>. QED
    BY <1>1, <2>1, <2>2 DEF Alone, TypeOK
<1>4. Reached(t)'
  BY <1>1, <1>2 DEF Alone, TypeOK, Reached, Live
<1>5. t \in started
  BY <1>1 DEF Alone, Idle
<1>. QED
  BY <1>1, <1>2, <1>3, <1>4, <1>5, MoveAlone

LEMMA BeginUnlockAlone ==
  ASSUME Alone, NEW t \in Thread, BeginUnlock(t)
  PROVE  Alone'
<1>. USE Distinct
<1>1. /\ held[t] > 0
      /\ UNCHANGED <<kind, word, native, held, started, late>>
      /\ call' = [call EXCEPT ![t] = [at |-> "call", op |-> "unlock", on |-> word]]
  BY DEF BeginUnlock, Goes
<1>2. word \in Native /\ native[word].owner = t /\ Live
  BY <1>1 DEF Alone, Believed, Live
<1>3. /\ call'[t] = [at |-> "call", op |-> "unlock", on |-> word]
      /\ \A u \in Thread \ {t} : call'[u] = call[u]
  BY <1>1 DEF Alone, TypeOK
<1>4. TypeOK'
  BY <1>1, <1>2, <1>3 DEF Alone, TypeOK
<1>5. Reached(t)'
  BY <1>1, <1>2, <1>3 DEF Reached, Live
<1>6. t \in started
  BY <1>1 DEF Alone
<1>. QED
  BY <1>1, <1>3, <1>4, <1>5, <1>6, MoveAlone

(* The end of a native call: nothing but the one mutex, the belief of the  *)
(* caller and its place change, and they change together.                  *)
LEMMA ReturnAlone ==
  ASSUME Alone, NEW t \in Thread, call[t].at = "call", Return(t),
         UNCHANGED <<kind, word, started, late>>,
         NEW o \in Thread \cup {NoThread}, NEW d \in Nat,
         native' = [native EXCEPT ![word] =
                      [kind |-> native[word].kind, owner |-> o, depth |-> d]],
         o = NoThread <=> d = 0,
         held' = [held EXCEPT ![t] = IF o = t THEN d ELSE 0],
         o \in {t, NoThread},
         native[word].owner \in {t, NoThread}
  PROVE  Alone'
<1>. USE Distinct
<1>1. Live /\ word \in Native /\ call[t].on = word /\ t \in started
  BY DEF Alone, Reached, Live, Idle
<1>2. /\ native'[word] = [kind |-> native[word].kind, owner |-> o, depth |-> d]
      /\ \A n \in Native \ {word} : native'[n] = native[n]
      /\ held'[t] = IF o = t THEN d ELSE 0
      /\ \A u \in Thread \ {t} : held'[u] = held[u]
      /\ call'[t].at = "out"
      /\ \A u \in Thread \ {t} : call'[u] = call[u]
  BY <1>1 DEF Alone, TypeOK, Return, Goes
<1>3. TypeOK'
  <2>1. native' \in [Native -> [kind : Kind \cup {"unused"},
                                owner : Thread \cup {NoThread}, depth : Nat]]
    BY <1>1 DEF Alone, TypeOK
  <2>2. held' \in [Thread -> Nat]
    BY DEF Alone, TypeOK
  <2>3. call' \in [Thread -> [at : {"out", "init", "store", "use", "call"},
                               op : {"none", "lock", "trylock", "unlock"},
                               on : Native \cup Kind \cup {"raw"}]]
    BY DEF Alone, TypeOK, Return, Goes
  <2>4. \A u \in Thread :
          call'[u].at \in {"store", "use", "call"} => call'[u].on \in Native
    BY <1>2 DEF Alone, TypeOK
  <2>. QED
    BY <2>1, <2>2, <2>3, <2>4 DEF Alone, TypeOK
<1>4. /\ \A n \in Native : native'[n].owner = NoThread <=> native'[n].depth = 0
      /\ \A n \in Native :
           native'[n].kind = "unused" => native'[n].owner = NoThread
  BY <1>1, <1>2 DEF Alone, Live
<1>5. Believed'
  BY <1>1, <1>2 DEF Alone, Believed
<1>6. (Live => native[word].kind = kind)' /\ Live'
  BY <1>1, <1>2 DEF Alone, Live
<1>7. \A u \in Thread : Reached(u)'
  <2>1. Reached(t)'
    BY <1>2 DEF Reached
  <2>2. ASSUME NEW u \in Thread \ {t} PROVE Reached(u)'
    <3>1. word \notin Kind
      BY <1>1 DEF Kind
    <3>. QED
      BY <1>1, <1>2, <1>6, <3>1, <2>2 DEF Alone, Reached
  <2>. QED
    BY <2>1, <2>2
<1>. QED
  BY <1>1, <1>2, <1>3, <1>4, <1>5, <1>6, <1>7 DEF Alone, Idle

LEMMA GrantAlone ==
  ASSUME Alone, NEW t \in Thread, Grant(t)
  PROVE  Alone'
<1>. USE Distinct
<1>1. /\ call[t].at = "call" /\ call[t].on = word /\ word \in Native
      /\ native[word].owner \in {t, NoThread}
      /\ Return(t)
      /\ UNCHANGED <<kind, word, started, late>>
      /\ native' = [native EXCEPT ![word] =
                      [kind |-> native[word].kind, owner |-> t,
                       depth |-> native[word].depth + 1]]
      /\ held' = [held EXCEPT ![t] = held[t] + 1]
  BY DEF Grant, Free, Owned, Alone, Reached, Live
<1>2. native[word].depth \in Nat /\ held[t] = native[word].depth
  BY <1>1 DEF Alone, TypeOK, Believed
<1>3. native[word].depth + 1 \in Nat /\ native[word].depth + 1 # 0
  BY <1>2
<1>. DEFINE d == native[word].depth + 1
<1>4. /\ native' = [native EXCEPT ![word] =
                      [kind |-> native[word].kind, owner |-> t, depth |-> d]]
      /\ held' = [held EXCEPT ![t] = IF t = t THEN d ELSE 0]
      /\ d \in Nat /\ d # 0
  BY <1>1, <1>2, <1>3
<1>. HIDE DEF d
<1>. QED
  BY <1>1, <1>4, ReturnAlone

LEMMA RefuseAlone ==
  ASSUME Alone, NEW t \in Thread, Refuse(t)
  PROVE  Alone'
<1>1. /\ call[t].at = "call"
      /\ UNCHANGED <<kind, word, native, held, started, late>>
      /\ call' = [call EXCEPT ![t] = [at |-> "out", op |-> "none", on |-> "raw"]]
  BY DEF Refuse, Return, Goes
<1>2. /\ call'[t] = [at |-> "out", op |-> "none", on |-> "raw"]
      /\ \A u \in Thread \ {t} : call'[u] = call[u]
  BY <1>1 DEF Alone, TypeOK
<1>3. TypeOK'
  BY <1>1, <1>2 DEF Alone, TypeOK
<1>4. Reached(t)'
  BY <1>2 DEF Reached
<1>5. t \in started
  BY <1>1 DEF Alone, Idle
<1>. QED
  BY <1>1, <1>2, <1>3, <1>4, <1>5, MoveAlone

(* Nobody unlocks what it does not hold.                                   *)
LEMMA UnlockByHolder ==
  ASSUME Alone, NEW t \in Thread, Unlock(t)
  PROVE  /\ call[t].at = "call" /\ call[t].on = word /\ word \in Native
         /\ native[word].owner = t /\ native[word].depth \in Nat \ {0}
         /\ held[t] = native[word].depth
<1>1. /\ call[t].at = "call" /\ call[t].on = word /\ word \in Native
      /\ held[t] > 0
  BY DEF Unlock, Alone, Reached, Live
<1>2. /\ native[word].owner = t /\ held[t] = native[word].depth
      /\ native[word].depth \in Nat
  BY <1>1 DEF Alone, Believed, TypeOK
<1>. QED
  BY <1>1, <1>2

LEMMA UnlockAlone ==
  ASSUME Alone, NEW t \in Thread, Unlock(t)
  PROVE  Alone'
<1>. USE Distinct
<1>. DEFINE d == native[word].depth - 1
            o == IF native[word].depth = 1 THEN NoThread ELSE t
<1>1. /\ call[t].at = "call" /\ call[t].on = word
      /\ native[word].owner = t /\ native[word].depth \in Nat \ {0}
      /\ held[t] = native[word].depth
  BY UnlockByHolder
<1>2. /\ Return(t)
      /\ UNCHANGED <<kind, word, started, late>>
      /\ native' = [native EXCEPT ![word] =
                      [kind |-> native[word].kind, owner |-> o, depth |-> d]]
      /\ held' = [held EXCEPT ![t] = held[t] - 1]
  BY <1>1 DEF Unlock, Owned
<1>3. /\ o \in Thread \cup {NoThread} /\ d \in Nat
      /\ o = NoThread <=> d = 0
      /\ o \in {t, NoThread}
      /\ held[t] - 1 = IF o = t THEN d ELSE 0
  BY <1>1
<1>4. held' = [held EXCEPT ![t] = IF o = t THEN d ELSE 0]
  BY <1>2, <1>3
<1>. HIDE DEF d, o
<1>. QED
  BY <1>1, <1>2, <1>3, <1>4, ReturnAlone

(* The client's discipline is what it was.                                 *)
LEMMA DisciplineStays ==
  ASSUME [Next]_vars
  PROVE  firstAlone' = firstAlone
BY DEF Next, Bridge, InitMutex, DestroyMutex, Create, BeginLock, InitStatic, Store, Resolve,
   BeginUnlock, Grant, Refuse, Unlock, vars

LEMMA StepAlone ==
  AloneInv /\ [Next]_vars => AloneInv'
<1>. SUFFICES ASSUME firstAlone, Alone, [Next]_vars PROVE Alone'
  BY DisciplineStays, Zenon DEF AloneInv
<1>1. CASE \E k \in Kind : InitMutex(k)
  BY <1>1, InitMutexAlone
<1>2. CASE DestroyMutex
  BY <1>2, DestroyMutexAlone
<1>3. ASSUME NEW t \in Thread, Create(t) PROVE Alone'
  BY <1>3, CreateAlone
<1>4. ASSUME NEW t \in Thread, BeginUnlock(t) PROVE Alone'
  BY <1>4, BeginUnlockAlone
<1>5. ASSUME NEW t \in Thread, Bridge(t) PROVE Alone'
  BY <1>5, InitStaticAlone, StoreAlone, ResolveAlone, GrantAlone, RefuseAlone,
     UnlockAlone DEF Bridge
<1>6. ASSUME NEW t \in Thread, NEW op \in {"lock", "trylock"}, BeginLock(t, op)
      PROVE  Alone'
  BY <1>6, BeginLockAlone
<1>7. CASE UNCHANGED vars
  <2>1. TypeOK' /\ Believed' /\ \A t \in Thread : Reached(t)'
    BY <1>7 DEF Alone, vars, TypeOK, Believed, Reached, Live
  <2>. QED
    BY <1>7, <2>1 DEF Alone, vars, Live, Idle
<1>. QED
  BY <1>1, <1>2, <1>3, <1>4, <1>5, <1>6, <1>7 DEF Next

(***************************************************************************)
(* The inductive invariant, in every state: with a first use that is       *)
(* alone, the word names the one native mutex everybody locks.             *)
(***************************************************************************)
THEOREM Invariance == Spec => []AloneInv
<1>1. Init => AloneInv
  BY InitAlone DEF AloneInv
<1>. QED
  BY <1>1, StepAlone, PTL DEF Spec

(***************************************************************************)
(* Two threads never both believe to hold a mutex whose first use was      *)
(* alone, be it static or initialised, of any kind.                        *)
(***************************************************************************)
THEOREM HoldersExclude == Spec => []MutualExclusion
<1>1. Alone => \A t, u \in Thread : held[t] > 0 /\ held[u] > 0 => t = u
  BY DEF Alone, Believed
<1>2. AloneInv => MutualExclusion
  BY <1>1, Zenon DEF AloneInv, MutualExclusion
<1>. QED
  BY <1>2, Invariance, PTL

(***************************************************************************)
(* No thread waits for a mutex it holds itself.                            *)
(***************************************************************************)
THEOREM NoSelfWait == Spec => []NeverWaitsForItself
<1>1. ASSUME Alone, NEW t \in Thread,
             call[t].at = "call", call[t].op = "lock", native[call[t].on].owner = t
      PROVE  native[call[t].on].kind \in {"recursive", "errorcheck"}
  <2>1. /\ word \in Native /\ call[t].on = word /\ native[word].kind = kind
        /\ held[t] > 0 => kind # "normal"
    BY <1>1 DEF Alone, Reached, Live
  <2>2. /\ native[word].depth \in Nat /\ native[word].depth # 0
        /\ held[t] = native[word].depth
    BY <1>1, <2>1, Distinct DEF Alone, Believed, TypeOK
  <2>. QED
    BY <1>1, <2>1, <2>2 DEF Alone, TypeOK, Kind
<1>2. AloneInv => NeverWaitsForItself
  BY <1>1, Zenon DEF AloneInv, NeverWaitsForItself
<1>. QED
  BY <1>2, Invariance, PTL

-----------------------------------------------------------------------------
(* The bridge implements the abstract mutex: granting acquires, unlocking  *)
(* releases, initialising renews, and the client sees nothing of the rest. *)
LEMMA InitPromised ==
  Init => Promise!MutexInit
<1>. SUFFICES ASSUME Init PROVE Promise!MutexInit
  OBVIOUS
<1>1. word \notin Native /\ kind \in Promise!Kind
  BY Distinct DEF Init, Kind, Promise!Kind
<1>. QED
  BY <1>1 DEF Promise!MutexInit, PromisedHolder, PromisedDepth, Holder, Depth

LEMMA Renewed ==
  ASSUME firstAlone, firstAlone', Alone, NEW k \in Kind, InitMutex(k)
  PROVE  Promise!Renew
<1>1. PICK m \in Native :
        word' = m /\ native' = [native EXCEPT ![m] = Fresh(k)] /\ kind' = k
  BY DEF InitMutex
<1>2. Holder = NoThread /\ Depth = 0
  BY DEF InitMutex, Alone, Holder, Depth, Live
<1>3. native'[m] = Fresh(k)
  BY <1>1 DEF Alone, TypeOK
<1>4. Holder' = NoThread /\ Depth' = 0
  BY <1>1, <1>3 DEF Holder, Depth, Fresh
<1>. QED
  BY <1>1, <1>2, <1>4 DEF Promise!Renew, Promise!Kind, Kind, PromisedHolder, PromisedDepth

LEMMA Acquired ==
  ASSUME firstAlone, firstAlone', Alone, NEW t \in Thread, Grant(t)
  PROVE  Promise!Acquire(t)
<1>1. /\ word \in Native /\ native[word].kind = kind
      /\ native[word].owner = NoThread
           \/ (native[word].owner = t /\ native[word].kind = "recursive")
      /\ native' = [native EXCEPT ![word] =
                      [kind |-> native[word].kind, owner |-> t,
                       depth |-> native[word].depth + 1]]
      /\ UNCHANGED <<kind, word>>
  BY DEF Grant, Free, Owned, Alone, Reached, Live
<1>2. native'[word].owner = t /\ native'[word].depth = native[word].depth + 1
  BY <1>1 DEF Alone, TypeOK
<1>. QED
  BY <1>1, <1>2 DEF Promise!Acquire, Holder, Depth, PromisedHolder, PromisedDepth

LEMMA Released ==
  ASSUME firstAlone, firstAlone', Alone, NEW t \in Thread, Unlock(t)
  PROVE  Promise!Release(t)
<1>1. /\ call[t].on = word /\ word \in Native
      /\ native[word].owner = t /\ native[word].depth \in Nat \ {0}
  BY UnlockByHolder
<1>. DEFINE o == IF native[word].depth = 1 THEN NoThread ELSE t
<1>2. /\ native' = [native EXCEPT ![word] =
                      [kind |-> native[word].kind, owner |-> o,
                       depth |-> native[word].depth - 1]]
      /\ UNCHANGED <<kind, word>>
  BY <1>1 DEF Unlock, Owned
<1>3. native'[word].owner = o /\ native'[word].depth = native[word].depth - 1
  BY <1>1, <1>2 DEF Alone, TypeOK
<1>. QED
  BY <1>1, <1>2, <1>3 DEF Promise!Release, Holder, Depth, PromisedHolder, PromisedDepth

LEMMA Unnoticed ==
  ASSUME Alone,
         \/ DestroyMutex
         \/ \E t \in Thread :
              \/ Create(t) \/ BeginUnlock(t) \/ InitStatic(t) \/ Store(t)
              \/ Resolve(t) \/ Refuse(t)
              \/ \E op \in {"lock", "trylock"} : BeginLock(t, op)
         \/ UNCHANGED vars
  PROVE  UNCHANGED <<kind, Holder, Depth>>
<1>1. CASE DestroyMutex
  <2>1. /\ word \in Native /\ native[word].owner = NoThread /\ word' = word
        /\ native[word].depth = 0 /\ kind' = kind
        /\ native' = [native EXCEPT ![word] = Unused]
    BY <1>1 DEF DestroyMutex, Live, Holder, Alone
  <2>2. native'[word] = Unused
    BY <2>1 DEF Alone, TypeOK
  <2>. QED
    BY <2>1, <2>2 DEF Holder, Depth, Unused
<1>2. ASSUME NEW t \in Thread, Store(t)
      PROVE  UNCHANGED <<kind, Holder, Depth>>
  <2>1. /\ word \notin Native /\ word' \in Native
        /\ native'[word'] = Fresh(word) /\ kind' = kind
    BY <1>2, Distinct DEF Store, Alone, TypeOK, Reached, Kind
  <2>. QED
    BY <2>1 DEF Holder, Depth, Fresh
<1>3. ASSUME NEW t \in Thread, InitStatic(t)
      PROVE  UNCHANGED <<kind, Holder, Depth>>
  BY <1>3, Distinct DEF InitStatic, Alone, Reached, Holder, Depth, Kind
<1>4. CASE \/ \E t \in Thread :
                \/ Create(t) \/ BeginUnlock(t) \/ Resolve(t) \/ Refuse(t)
                \/ \E op \in {"lock", "trylock"} : BeginLock(t, op)
           \/ UNCHANGED vars
  <2>1. UNCHANGED <<kind, word, native>>
    BY <1>4 DEF Create, BeginUnlock, Resolve, Refuse, BeginLock, vars
  <2>. QED
    BY <2>1 DEF Holder, Depth
<1>. QED
  BY <1>1, <1>2, <1>3, <1>4

(* A client whose first use is not alone was promised nothing: its mutex   *)
(* is mapped to one nobody holds, which initialising renews.               *)
LEMMA Unpromised ==
  ASSUME ~ firstAlone, ~ firstAlone', [Next]_vars
  PROVE  Promise!Renew \/ UNCHANGED <<kind, PromisedHolder, PromisedDepth>>
<1>1. UNCHANGED <<PromisedHolder, PromisedDepth>> /\ PromisedHolder = NoThread
  BY DEF PromisedHolder, PromisedDepth
<1>2. ASSUME NEW k \in Kind, InitMutex(k) PROVE kind' \in Promise!Kind
  BY <1>2 DEF InitMutex, Kind, Promise!Kind
<1>3. kind' = kind \/ \E k \in Kind : InitMutex(k)
  BY DEF Next, Bridge, DestroyMutex, Create, BeginLock, InitStatic, Store, Resolve,
     BeginUnlock, Grant, Refuse, Unlock, vars
<1>. QED
  BY <1>1, <1>2, <1>3 DEF Promise!Renew

(***************************************************************************)
(* For a client whose first use is alone the bridge implements the         *)
(* abstract mutex, static initializers, renewal and all.                   *)
(***************************************************************************)
THEOREM BridgeImplementsMutex == Spec => KeepsPromise
<1>1. AloneInv /\ [Next]_vars => [Promise!MutexNext]_(Promise!mutexVars)
  <2>. SUFFICES ASSUME AloneInv, [Next]_vars
                PROVE  [Promise!MutexNext]_(Promise!mutexVars)
    OBVIOUS
  <2>1. CASE ~ firstAlone
    BY <2>1, DisciplineStays, Unpromised DEF Promise!MutexNext, Promise!mutexVars
  <2>2. CASE firstAlone
    <3>1. firstAlone' /\ Alone
      BY <2>2, DisciplineStays, Zenon DEF AloneInv
    <3>2. CASE \E k \in Kind : InitMutex(k)
      BY <2>2, <3>1, <3>2, Renewed DEF Promise!MutexNext
    <3>3. CASE \E t \in Thread : Grant(t)
      BY <2>2, <3>1, <3>3, Acquired DEF Promise!MutexNext
    <3>4. CASE \E t \in Thread : Unlock(t)
      BY <2>2, <3>1, <3>4, Released DEF Promise!MutexNext
    <3>5. CASE \/ DestroyMutex
               \/ \E t \in Thread :
                    \/ Create(t) \/ BeginUnlock(t) \/ InitStatic(t) \/ Store(t)
                    \/ Resolve(t) \/ Refuse(t)
                    \/ \E op \in {"lock", "trylock"} : BeginLock(t, op)
               \/ UNCHANGED vars
      <4>1. UNCHANGED <<kind, Holder, Depth>>
        BY <3>1, <3>5, Unnoticed
      <4>2. UNCHANGED <<kind, PromisedHolder, PromisedDepth>>
        BY <2>2, <3>1, <4>1, Zenon DEF PromisedHolder, PromisedDepth
      <4>. QED
        BY <4>2 DEF Promise!mutexVars
    <3>. QED
      BY <3>2, <3>3, <3>4, <3>5 DEF Next, Bridge
  <2>. QED
    BY <2>1, <2>2
<1>. QED
  BY <1>1, InitPromised, Invariance, PTL DEF Spec, KeepsPromise, Promise!MutexSpec
-----------------------------------------------------------------------------
(* The race.  Whoever uses the mutex first, RaceInv holds; the invariant   *)
(* says little of the mutexes a race leaves behind, and enough of the one  *)
(* the word names.                                                         *)
LEMMA InitRace ==
  Init => RaceInv
<1>. SUFFICES ASSUME Init PROVE RaceInv
  OBVIOUS
<1>1. TypeOK /\ word \notin Native
  BY Distinct DEF Init, TypeOK, Unused, Kind
<1>2. \A t \in Thread : call[t].at = "out" /\ held[t] = 0
  BY DEF Init
<1>3. Counted /\ UnusedFree
  BY DEF Init, Counted, UnusedFree, Unused
<1>. QED
  BY <1>1, <1>2, <1>3
     DEF RaceInv, Placed, Believes, NobodyHoldsAWord, DestroyedIsQuiet, Healed, Here, Idle

(* Initialising and destroying find everybody out of the bridge.           *)
LEMMA QuietRace ==
  ASSUME Quiet', TypeOK', Counted', UnusedFree',
         (word \in Native)' => native'[word'].owner = NoThread
  PROVE  RaceInv'
<1>1. \A t \in Thread : call'[t].at = "out" /\ held'[t] = 0
  BY DEF Quiet, Idle
<1>. QED
  BY <1>1, Distinct
     DEF RaceInv, Placed, Believes, NobodyHoldsAWord, DestroyedIsQuiet, Healed, Here, Idle

LEMMA InitMutexRace ==
  ASSUME NEW k \in Kind, RaceInv, InitMutex(k)
  PROVE  RaceInv'
<1>. USE Distinct
<1>1. PICK m \in Native :
        word' = m /\ native' = [native EXCEPT ![m] = Fresh(k)]
  BY DEF InitMutex
<1>2. kind' = k /\ Quiet /\ UNCHANGED <<firstAlone, call, held, started, late>>
  BY DEF InitMutex
<1>3. TypeOK'
  BY <1>1, <1>2 DEF RaceInv, TypeOK, Fresh, Kind
<1>4. native'[m] = Fresh(k) /\ \A n \in Native \ {m} : native'[n] = native[n]
  BY <1>1 DEF RaceInv, TypeOK
<1>5. Counted' /\ UnusedFree'
  BY <1>4 DEF RaceInv, Counted, UnusedFree, Fresh
<1>6. Quiet'
  BY <1>2 DEF Quiet, Idle
<1>. QED
  BY <1>1, <1>3, <1>4, <1>5, <1>6, QuietRace DEF Fresh

LEMMA DestroyMutexRace ==
  ASSUME RaceInv, DestroyMutex
  PROVE  RaceInv'
<1>. USE Distinct
<1>1. /\ word \in Native /\ native' = [native EXCEPT ![word] = Unused]
      /\ Quiet /\ UNCHANGED <<firstAlone, kind, word, call, held, started, late>>
  BY DEF DestroyMutex, Live
<1>2. TypeOK'
  BY <1>1 DEF RaceInv, TypeOK, Unused, Kind
<1>3. native'[word] = Unused /\ \A n \in Native \ {word} : native'[n] = native[n]
  BY <1>1 DEF RaceInv, TypeOK
<1>4. Counted' /\ UnusedFree'
  BY <1>3 DEF RaceInv, Counted, UnusedFree, Unused
<1>5. Quiet'
  BY <1>1 DEF Quiet, Idle
<1>. QED
  BY <1>1, <1>2, <1>3, <1>4, <1>5, QuietRace DEF Unused

LEMMA UntouchedRace ==
  ASSUME RaceInv, UNCHANGED <<kind, word, native, call, held, late>>, TypeOK'
  PROVE  RaceInv'
<1>1. Counted' /\ UnusedFree' /\ NobodyHoldsAWord' /\ DestroyedIsQuiet'
  BY DEF RaceInv, Counted, UnusedFree, NobodyHoldsAWord, DestroyedIsQuiet, Live, Quiet, Idle
<1>2. (\A t \in Thread : Placed(t))' /\ (\A t \in Thread : Believes(t))'
  BY DEF RaceInv, Placed, Believes
<1>3. Healed'
  BY DEF RaceInv, Healed, Settled, Joins, Here, Idle, Live
<1>. QED
  BY <1>1, <1>2, <1>3 DEF RaceInv

(* The steps that move one thread and leave the mutexes and beliefs as     *)
(* they are.                                                               *)
LEMMA MoveRace ==
  ASSUME RaceInv, NEW t \in Thread,
         UNCHANGED <<kind, word, native, held, started>>,
         TypeOK',
         \A u \in Thread \ {t} : call'[u] = call[u],
         Placed(t)',
         \A u \in Thread \ {t} : call[u].at = "store" => call'[t].on # call[u].on,
         word \in Native /\ ~ Live => call'[t].at = "out",
         Healed'
  PROVE  RaceInv'
<1>1. Counted' /\ UnusedFree' /\ NobodyHoldsAWord'
  BY DEF RaceInv, Counted, UnusedFree, NobodyHoldsAWord
<1>2. DestroyedIsQuiet'
  BY DEF RaceInv, DestroyedIsQuiet, Live, Quiet, Idle
<1>3. ASSUME NEW u \in Thread \ {t} PROVE Placed(u)'
  BY DEF RaceInv, Placed
<1>4. (\A u \in Thread : Placed(u))'
  BY <1>3
<1>5. (\A u \in Thread : Believes(u))'
  BY DEF RaceInv, Believes
<1>. QED
  BY <1>1, <1>2, <1>4, <1>5 DEF RaceInv

(* A thread that was there moves among those that are on their way.        *)
LEMMA MoveHealed ==
  ASSUME RaceInv, NEW t \in Thread, Here(t),
         UNCHANGED <<word, native, held, late>>,
         \A u \in Thread \ {t} : call'[u] = call[u],
         Settled => /\ call'[t].at \notin {"init", "store"}
                    /\ call'[t].at \in {"use", "call"} => call'[t].on = word
  PROVE  Healed'
<1>. SUFFICES ASSUME NEW v \in Thread, Here(v)', late'[v] PROVE Settled'
  BY DEF Healed
<1>1. Here(v) /\ late[v]
  BY DEF Here, Idle
<1>2. Settled
  BY <1>1 DEF RaceInv, Healed
<1>3. ASSUME NEW u \in Thread \ {t} PROVE Joins(u)'
  BY <1>2 DEF Settled, Joins, Here, Idle
<1>4. Joins(t)'
  BY <1>2 DEF Settled, Joins, Here, Idle
<1>. QED
  BY <1>2, <1>3, <1>4 DEF Settled, Live

LEMMA CreateRace ==
  ASSUME RaceInv, NEW t \in Thread, Create(t)
  PROVE  RaceInv'
<1>1. started' = started \cup {t} /\ UNCHANGED <<kind, word, native, call, held, late>>
  BY DEF Create
<1>2. TypeOK'
  BY <1>1 DEF RaceInv, TypeOK
<1>. QED
  BY <1>1, <1>2, UntouchedRace

(* With nobody there, the mutex in use is held by nobody: its owner would  *)
(* believe to hold it.                                                     *)
LEMMA NobodyHere ==
  ASSUME RaceInv, Live, \A u \in Thread : held[u] = 0
  PROVE  native[word].owner = NoThread
<1>. SUFFICES ASSUME native[word].owner # NoThread PROVE FALSE
  OBVIOUS
<1>1. word \in Native /\ native[word].owner \in Thread /\ native[word].depth \in Nat
  BY DEF Live, RaceInv, TypeOK
<1>2. native[word].depth = 0
  BY <1>1 DEF RaceInv, Believes
<1>. QED
  BY <1>1, <1>2 DEF RaceInv, Counted

(* A thread that comes late finds the others late, or nobody.              *)
LEMMA ComesLate ==
  ASSUME RaceInv, NEW t \in Thread, Idle(t), held[t] = 0, Live,
         UNCHANGED <<word, native, held>>,
         \A u \in Thread \ {t} : call'[u] = call[u] /\ late'[u] = late[u],
         call'[t].at = "use", call'[t].on = word,
         late'[t] = (/\ Live
                     /\ \A u \in Thread : call[u].at \notin {"init", "store"}
                     /\ \A u \in Thread : held[u] > 0 \/ ~ Idle(u) => late[u])
  PROVE  Healed'
<1>. SUFFICES ASSUME NEW v \in Thread, Here(v)', late'[v] PROVE Settled'
  BY DEF Healed
<1>1. CASE \E w \in Thread : Here(w)
  <2>1. PICK w \in Thread : Here(w) /\ late[w]
    <3>1. CASE v # t
      BY <3>1 DEF Here, Idle
    <3>2. CASE v = t
      BY <1>1, <3>2 DEF Here
    <3>. QED
      BY <3>1, <3>2
  <2>2. Settled
    BY <2>1 DEF RaceInv, Healed
  <2>3. late'[t]
    BY <2>2 DEF Settled, Joins, Here
  <2>4. ASSUME NEW u \in Thread PROVE Joins(u)'
    BY <2>2, <2>3 DEF Settled, Joins, Here, Idle
  <2>. QED
    BY <2>4 DEF Settled, Live
<1>2. CASE \A w \in Thread : ~ Here(w)
  <2>1. v = t
    BY <1>2 DEF Here, Idle
  <2>2. \A w \in Thread : held[w] = 0
    BY <1>2 DEF Here, RaceInv, TypeOK
  <2>3. native[word].owner = NoThread
    BY <2>2, NobodyHere
  <2>4. ASSUME NEW u \in Thread PROVE Joins(u)'
    BY <1>2, <2>1, <2>2, <2>3, Distinct DEF Joins, Here, Idle
  <2>. QED
    BY <2>4 DEF Settled, Live
<1>. QED
  BY <1>1, <1>2

LEMMA BeginLockRace ==
  ASSUME RaceInv, NEW t \in Thread, NEW op \in {"lock", "trylock"}, BeginLock(t, op)
  PROVE  RaceInv'
<1>. USE Distinct
<1>1. /\ Idle(t) /\ (word \in Kind \/ Live)
      /\ UNCHANGED <<kind, word, native, held, started>>
      /\ call' = [call EXCEPT ![t] =
                    [at |-> IF word \in Kind THEN "init" ELSE "use",
                     op |-> op, on |-> word]]
  BY DEF BeginLock, NeedsInit, Goes
<1>2. late' \in [Thread -> BOOLEAN]
  BY DEF BeginLock, RaceInv, TypeOK
<1>3. /\ call'[t] = [at |-> IF word \in Kind THEN "init" ELSE "use",
                     op |-> op, on |-> word]
      /\ \A u \in Thread \ {t} : call'[u] = call[u]
  BY <1>1 DEF RaceInv, TypeOK
<1>4. TypeOK'
  BY <1>1, <1>2, <1>3 DEF RaceInv, TypeOK, Live
<1>5. word \in Kind => ~ Live
  BY DEF Live, Kind
<1>6. Placed(t)'
  BY <1>1, <1>3, <1>5 DEF Placed, Live
<1>7. \A u \in Thread \ {t} : call[u].at = "store" => call'[t].on # call[u].on
  BY <1>3 DEF RaceInv, Placed
<1>8. Healed'
  <2>1. CASE held[t] > 0
    <3>1. late' = late
      BY <2>1 DEF BeginLock
    <3>2. Here(t) /\ (Settled => call'[t].at = "use")
      BY <1>3, <1>5, <2>1 DEF Here, Settled
    <3>. QED
      BY <1>1, <1>3, <3>1, <3>2, MoveHealed
  <2>2. CASE ~ (held[t] > 0)
    <3>. DEFINE comes ==
           /\ Live
           /\ \A u \in Thread : call[u].at \notin {"init", "store"}
           /\ \A u \in Thread : held[u] > 0 \/ ~ Idle(u) => late[u]
    <3>1. held[t] = 0
      BY <2>2 DEF RaceInv, TypeOK
    <3>2. late' = [late EXCEPT ![t] = comes]
      BY <2>2, Zenon DEF BeginLock
    <3>3. late \in [Thread -> BOOLEAN]
      BY DEF RaceInv, TypeOK
    <3>4. late'[t] = comes
      BY <3>2, <3>3, Zenon
    <3>5. \A u \in Thread \ {t} : late'[u] = late[u]
      BY <3>2, <3>3, Zenon
    <3>6. CASE Live
      <4>1. call'[t].at = "use" /\ call'[t].on = word
        BY <1>3, <1>5, <3>6
      <4>. QED
        BY <1>1, <1>3, <3>1, <3>4, <3>5, <3>6, <4>1, ComesLate, Zenon
    <3>7. CASE ~ Live
      <4>. SUFFICES ASSUME NEW v \in Thread, Here(v)', late'[v] PROVE FALSE
        BY DEF Healed
      <4>1. ~ late'[t]
        BY <3>4, <3>7, Zenon
      <4>2. v # t /\ Here(v) /\ late[v]
        BY <1>1, <1>3, <3>5, <4>1 DEF Here, Idle
      <4>. QED
        BY <3>7, <4>2 DEF RaceInv, Healed, Settled
    <3>. QED
      BY <3>6, <3>7
  <2>. QED
    BY <2>1, <2>2
<1>9. ~ (word \in Native /\ ~ Live)
  BY <1>1 DEF Live, Kind
<1>. QED
  BY <1>1, <1>3, <1>4, <1>6, <1>7, <1>8, <1>9, MoveRace

(* A thread in init_static_mutex: nobody there came late.                  *)
LEMMA NobodyLate ==
  ASSUME RaceInv, NEW t \in Thread, call[t].at \in {"init", "store"},
         NEW u \in Thread, Here(u)
  PROVE  ~ late[u]
BY DEF RaceInv, Healed, Settled, Joins

LEMMA InitStaticRace ==
  ASSUME RaceInv, NEW t \in Thread, InitStatic(t)
  PROVE  RaceInv'
<1>. USE Distinct
<1>1. PICK m \in Native :
        /\ native[m].kind = "unused"
        /\ native' = [native EXCEPT ![m] = Fresh(call[t].on)]
        /\ call' = [call EXCEPT ![t] =
                      [at |-> "store", op |-> call[t].op, on |-> m]]
  BY DEF InitStatic, Goes
<1>2. /\ call[t].at = "init" /\ call[t].on \in Kind
      /\ call[t].op \in {"lock", "trylock"}
      /\ UNCHANGED <<kind, word, held, started, late>>
  BY DEF InitStatic, RaceInv, Placed
<1>3. /\ native'[m] = Fresh(call[t].on)
      /\ \A n \in Native \ {m} : native'[n] = native[n]
      /\ call'[t] = [at |-> "store", op |-> call[t].op, on |-> m]
      /\ \A u \in Thread \ {t} : call'[u] = call[u]
  BY <1>1, <1>2 DEF RaceInv, TypeOK
<1>4. TypeOK'
  <2>1. call' \in [Thread -> [at : {"out", "init", "store", "use", "call"},
                               op : {"none", "lock", "trylock", "unlock"},
                               on : Native \cup Kind \cup {"raw"}]]
    BY <1>1 DEF RaceInv, TypeOK
  <2>2. \A u \in Thread :
          call'[u].at \in {"store", "use", "call"} => call'[u].on \in Native
    BY <1>3 DEF RaceInv, TypeOK
  <2>3. native' \in [Native -> [kind : Kind \cup {"unused"},
                                owner : Thread \cup {NoThread}, depth : Nat]]
    BY <1>1, <1>2 DEF RaceInv, TypeOK, Fresh
  <2>. QED
    BY <1>2, <2>1, <2>2, <2>3 DEF RaceInv, TypeOK
<1>5. Counted' /\ UnusedFree' /\ NobodyHoldsAWord'
  BY <1>2, <1>3 DEF RaceInv, Counted, UnusedFree, NobodyHoldsAWord, Fresh
<1>6. word \in Native => Live /\ word # m
  BY <1>1, <1>2 DEF RaceInv, DestroyedIsQuiet, Live, Quiet, Idle
<1>7. DestroyedIsQuiet'
  BY <1>2, <1>3, <1>6 DEF DestroyedIsQuiet, Live
<1>8. \A u \in Thread \ {t} :
        call[u].at \in {"store", "use", "call"} => call[u].on \in Native \ {m}
  BY <1>1 DEF RaceInv, Placed, TypeOK
<1>9. Placed(t)'
  BY <1>2, <1>3, <1>6, <1>8 DEF Placed, Fresh, Kind
<1>10. ASSUME NEW u \in Thread \ {t} PROVE Placed(u)'
  <2>1. Placed(u) /\ call'[u] = call[u]
    BY <1>3 DEF RaceInv
  <2>2. call[u].at \in {"store", "use", "call"} => native'[call[u].on] = native[call[u].on]
    BY <1>3, <1>8
  <2>3. word \in Native => native'[word] = native[word]
    BY <1>3, <1>6
  <2>4. call'[u].at \in {"use", "call"} => word' \in Native
    BY <1>2, <2>1 DEF Placed
  <2>. QED
    BY <1>2, <1>3, <1>8, <2>1, <2>2, <2>3, <2>4 DEF Placed
<1>11. (\A u \in Thread : Believes(u))'
  BY <1>2, <1>3, <1>6 DEF RaceInv, Believes
<1>12. Healed'
  <2>1. \A u \in Thread : Here(u)' => Here(u) /\ ~ late[u]
    BY <1>2, <1>3, NobodyLate DEF Here, Idle
  <2>. QED
    BY <1>2, <2>1 DEF Healed
<1>13. (\A u \in Thread : Placed(u))'
  BY <1>9, <1>10
<1>. QED
  BY <1>4, <1>5, <1>7, <1>11, <1>12, <1>13 DEF RaceInv

LEMMA StoreRace ==
  ASSUME RaceInv, NEW t \in Thread, Store(t)
  PROVE  RaceInv'
<1>. USE Distinct
<1>1. /\ call[t].at = "store" /\ call[t].on \in Native /\ call[t].on # word
      /\ native[call[t].on].kind # "unused" /\ native[call[t].on].owner = NoThread
      /\ call[t].op \in {"lock", "trylock"}
      /\ word' = call[t].on
      /\ call' = [call EXCEPT ![t] =
                    [at |-> "use", op |-> call[t].op, on |-> call[t].on]]
      /\ UNCHANGED <<kind, native, held, started, late>>
      /\ \A u \in Thread \ {t} :
           call[u].at \in {"store", "use", "call"} => call[u].on # call[t].on
  BY DEF Store, Goes, RaceInv, TypeOK, Placed
<1>2. /\ call'[t] = [at |-> "use", op |-> call[t].op, on |-> call[t].on]
      /\ \A u \in Thread \ {t} : call'[u] = call[u]
  BY <1>1 DEF RaceInv, TypeOK
<1>3. TypeOK'
  BY <1>1, <1>2 DEF RaceInv, TypeOK
<1>4. Counted' /\ UnusedFree' /\ NobodyHoldsAWord' /\ DestroyedIsQuiet'
  BY <1>1 DEF RaceInv, Counted, UnusedFree, NobodyHoldsAWord, DestroyedIsQuiet, Live
<1>5. Placed(t)'
  BY <1>1, <1>2 DEF Placed
<1>6. ASSUME NEW u \in Thread \ {t} PROVE Placed(u)'
  <2>1. Placed(u) /\ call'[u] = call[u]
    BY <1>2 DEF RaceInv
  <2>2. word' \in Native /\ native'[word'].owner # u
    BY <1>1
  <2>. QED
    BY <1>1, <1>2, <2>1, <2>2 DEF Placed
<1>7. (\A u \in Thread : Placed(u))'
  BY <1>5, <1>6
<1>8. (\A u \in Thread : Believes(u))'
  BY <1>1 DEF Believes
<1>9. Healed'
  <2>1. \A u \in Thread : Here(u)' => Here(u) /\ ~ late[u]
    BY <1>1, <1>2, NobodyLate DEF Here, Idle
  <2>. QED
    BY <1>1, <2>1 DEF Healed
<1>. QED
  BY <1>3, <1>4, <1>7, <1>8, <1>9 DEF RaceInv

LEMMA ResolveRace ==
  ASSUME RaceInv, NEW t \in Thread, Resolve(t)
  PROVE  RaceInv'
<1>1. PICK m \in {call[t].on, word} :
        call' = [call EXCEPT ![t] = [at |-> "call", op |-> call[t].op, on |-> m]]
  BY DEF Resolve, Goes
<1>2. /\ call[t].at = "use" /\ call[t].op \in {"lock", "trylock"}
      /\ word \in Native /\ call[t].on \in Native
      /\ native[call[t].on].kind # "unused"
      /\ UNCHANGED <<kind, word, native, held, started, late>>
  BY DEF Resolve, RaceInv, Placed, TypeOK
<1>3. /\ call'[t] = [at |-> "call", op |-> call[t].op, on |-> m]
      /\ \A u \in Thread \ {t} : call'[u] = call[u]
  BY <1>1 DEF RaceInv, TypeOK
<1>4. Live
  BY <1>2 DEF RaceInv, DestroyedIsQuiet, Quiet, Idle
<1>5. TypeOK'
  BY <1>1, <1>2, <1>3 DEF RaceInv, TypeOK
<1>6. Placed(t)'
  BY <1>2, <1>3, <1>4 DEF Placed, Live
<1>7. \A u \in Thread \ {t} : call[u].at = "store" => call'[t].on # call[u].on
  BY <1>2, <1>3 DEF RaceInv, Placed
<1>8. Here(t) /\ (Settled => call'[t].on = word)
  BY <1>2, <1>3 DEF Here, Idle, Settled, Joins
<1>9. Healed'
  BY <1>2, <1>3, <1>8, MoveHealed
<1>. QED
  BY <1>2, <1>3, <1>4, <1>5, <1>6, <1>7, <1>9, MoveRace

LEMMA BeginUnlockRace ==
  ASSUME RaceInv, NEW t \in Thread, BeginUnlock(t)
  PROVE  RaceInv'
<1>1. /\ held[t] > 0
      /\ UNCHANGED <<kind, word, native, held, started, late>>
      /\ call' = [call EXCEPT ![t] = [at |-> "call", op |-> "unlock", on |-> word]]
  BY DEF BeginUnlock, Goes
<1>2. word \in Native /\ Live
  BY <1>1 DEF RaceInv, NobodyHoldsAWord, DestroyedIsQuiet, Quiet
<1>3. /\ call'[t] = [at |-> "call", op |-> "unlock", on |-> word]
      /\ \A u \in Thread \ {t} : call'[u] = call[u]
  BY <1>1 DEF RaceInv, TypeOK
<1>4. TypeOK'
  BY <1>1, <1>2, <1>3 DEF RaceInv, TypeOK
<1>5. Placed(t)'
  BY <1>1, <1>2, <1>3 DEF Placed, Live
<1>6. \A u \in Thread \ {t} : call[u].at = "store" => call'[t].on # call[u].on
  BY <1>3 DEF RaceInv, Placed
<1>7. Here(t)
  BY <1>1 DEF Here
<1>8. Healed'
  BY <1>1, <1>3, <1>7, MoveHealed
<1>. QED
  BY <1>1, <1>2, <1>3, <1>4, <1>5, <1>6, <1>8, MoveRace

LEMMA RefuseRace ==
  ASSUME RaceInv, NEW t \in Thread, Refuse(t)
  PROVE  RaceInv'
<1>. USE Distinct
<1>1. /\ call[t].at = "call"
      /\ UNCHANGED <<kind, word, native, held, started, late>>
      /\ call' = [call EXCEPT ![t] = [at |-> "out", op |-> "none", on |-> "raw"]]
  BY DEF Refuse, Return, Goes
<1>2. /\ call'[t] = [at |-> "out", op |-> "none", on |-> "raw"]
      /\ \A u \in Thread \ {t} : call'[u] = call[u]
  BY <1>1 DEF RaceInv, TypeOK
<1>3. TypeOK'
  BY <1>1, <1>2 DEF RaceInv, TypeOK
<1>4. Placed(t)' /\ Here(t)
  BY <1>1, <1>2 DEF Placed, Here, Idle
<1>5. \A u \in Thread \ {t} : call[u].at = "store" => call'[t].on # call[u].on
  BY <1>2 DEF RaceInv, TypeOK
<1>6. Healed'
  BY <1>1, <1>2, <1>4, MoveHealed
<1>. QED
  BY <1>1, <1>2, <1>3, <1>4, <1>5, <1>6, MoveRace

(* The end of a native call on whatever mutex the thread had reached: what *)
(* holds of the owner and the depth it leaves there, and of the belief.    *)
Leaves(t, m, o, d, h) ==
  /\ call[t].at = "call" /\ m = call[t].on /\ Return(t)
  /\ UNCHANGED <<kind, word, started, late>>
  /\ native' = [native EXCEPT ![m] = [kind |-> native[m].kind, owner |-> o, depth |-> d]]
  /\ held' = [held EXCEPT ![t] = h]
  /\ o = NoThread <=> d = 0
  /\ o \in {t, native[m].owner, NoThread}
  /\ o \notin {t, NoThread} => d <= native[m].depth
  /\ m = word /\ o = t => h >= d
  /\ m # word /\ native[word].owner = t => h >= held[t]
  /\ m = word => \/ native[m].owner = NoThread /\ o = t /\ h - d = held[t]
                 \/ native[m].owner = t /\ h - d = held[t] - native[m].depth
                 \/ native[m].owner # t /\ held[t] > 0

LEMMA ReturnRace ==
  ASSUME RaceInv, NEW t \in Thread, NEW m \in Native,
         NEW o \in Thread \cup {NoThread}, NEW d \in Nat, NEW h \in Nat,
         Leaves(t, m, o, d, h)
  PROVE  RaceInv'
<1>. USE DEF Leaves
<1>. USE Distinct
<1>1. word \in Native /\ Live /\ native[m].kind # "unused"
  BY DEF RaceInv, Placed, DestroyedIsQuiet, Quiet, Idle
<1>2. /\ native'[m] = [kind |-> native[m].kind, owner |-> o, depth |-> d]
      /\ \A n \in Native \ {m} : native'[n] = native[n]
      /\ held'[t] = h
      /\ \A u \in Thread \ {t} : held'[u] = held[u]
      /\ call'[t].at = "out"
      /\ \A u \in Thread \ {t} : call'[u] = call[u]
  BY DEF RaceInv, TypeOK, Return, Goes
<1>3. TypeOK'
  <2>1. native' \in [Native -> [kind : Kind \cup {"unused"},
                                owner : Thread \cup {NoThread}, depth : Nat]]
    BY DEF RaceInv, TypeOK
  <2>2. held' \in [Thread -> Nat]
    BY DEF RaceInv, TypeOK
  <2>3. call' \in [Thread -> [at : {"out", "init", "store", "use", "call"},
                               op : {"none", "lock", "trylock", "unlock"},
                               on : Native \cup Kind \cup {"raw"}]]
    BY DEF RaceInv, TypeOK, Return, Goes
  <2>4. \A u \in Thread :
          call'[u].at \in {"store", "use", "call"} => call'[u].on \in Native
    BY <1>2 DEF RaceInv, TypeOK
  <2>. QED
    BY <2>1, <2>2, <2>3, <2>4 DEF RaceInv, TypeOK
<1>4. Counted' /\ UnusedFree' /\ NobodyHoldsAWord' /\ DestroyedIsQuiet'
  BY <1>1, <1>2 DEF RaceInv, Counted, UnusedFree, NobodyHoldsAWord, DestroyedIsQuiet, Live
<1>5. ASSUME NEW u \in Thread \ {t} PROVE Placed(u)'
  <2>1. Placed(u) /\ call'[u] = call[u] /\ held'[u] = held[u]
    BY <1>2 DEF RaceInv
  <2>2. call[u].at \in {"store", "use", "call"} =>
          native'[call[u].on].kind = native[call[u].on].kind
    BY <1>2 DEF RaceInv, TypeOK
  <2>3. call[u].at = "store" =>
          /\ native'[call[u].on] = native[call[u].on]
          /\ \A v \in Thread \ {u} :
               call'[v].at \in {"store", "use", "call"} => call'[v].on # call[u].on
    BY <1>2, <2>1 DEF RaceInv, TypeOK, Placed
  <2>4. native'[word'].owner = u => native[word].owner = u
    BY <1>1, <1>2
  <2>. QED
    BY <1>1, <2>1, <2>2, <2>3, <2>4 DEF Placed
<1>6. (\A u \in Thread : Placed(u))'
  <2>1. Placed(t)'
    BY <1>2 DEF Placed
  <2>. QED
    BY <1>5, <2>1
<1>7. (\A u \in Thread : Believes(u))'
  <2>1. ASSUME NEW u \in Thread, native'[word].owner = u PROVE held'[u] >= native'[word].depth
    <3>1. CASE u = t
      BY <1>1, <1>2, <2>1, <3>1 DEF RaceInv, Believes, TypeOK
    <3>2. CASE u # t
      <4>1. native[word].owner = u /\ native'[word].depth <= native[word].depth
        BY <1>1, <1>2, <2>1, <3>2 DEF RaceInv, TypeOK
      <4>2. held[u] >= native[word].depth /\ held'[u] = held[u]
        BY <1>1, <1>2, <3>2, <4>1 DEF RaceInv, Believes
      <4>. QED
        BY <1>1, <1>3, <4>1, <4>2 DEF RaceInv, TypeOK
    <3>. QED
      BY <3>1, <3>2
  <2>. QED
    BY <2>1 DEF Believes
<1>8. Healed'
  <2>. SUFFICES ASSUME NEW v \in Thread, Here(v)', late'[v] PROVE Settled'
    BY DEF Healed
  <2>1. Here(v) /\ late[v] /\ Here(t)
    BY <1>2 DEF Here, Idle
  <2>2. Settled
    BY <2>1 DEF RaceInv, Healed
  <2>3. m = word /\ late[t]
    BY <2>1, <2>2 DEF Settled, Joins
  <2>4. held[t] = IF native[m].owner = t THEN native[m].depth ELSE 0
    BY <2>2, <2>3 DEF Settled, Joins
  <2>5. native[m].owner \in {t, NoThread}
    <3>1. native[m].owner = NoThread \/ native[m].owner = t \/ held[t] > 0
      BY <2>3
    <3>. QED
      BY <2>4, <3>1
  <2>6. h = IF o = t THEN d ELSE 0
    <3>1. held[t] \in Nat /\ native[m].depth \in Nat
      BY DEF RaceInv, TypeOK
    <3>2. CASE native[m].owner = NoThread
      BY <2>3, <2>4, <3>1, <3>2
    <3>3. CASE native[m].owner = t
      <4>1. h - d = 0
        BY <2>3, <2>4, <3>1, <3>3
      <4>2. o \in {t, NoThread} /\ (o = NoThread => d = 0)
        BY <3>3
      <4>. QED
        BY <4>1, <4>2
    <3>. QED
      BY <2>5, <3>2, <3>3
  <2>7. ASSUME NEW u \in Thread \ {t} PROVE Joins(u)'
    BY <1>2, <2>2, <2>3, <2>5 DEF Settled, Joins, Here, Idle
  <2>8. Joins(t)'
    BY <1>2, <2>3, <2>6 DEF Joins
  <2>. QED
    BY <1>1, <1>2, <2>7, <2>8 DEF Settled, Live
<1>. QED
  BY <1>3, <1>4, <1>6, <1>7, <1>8 DEF RaceInv

LEMMA GrantRace ==
  ASSUME RaceInv, NEW t \in Thread, Grant(t)
  PROVE  RaceInv'
<1>. USE Distinct
<1>. DEFINE m == call[t].on
            d == native[m].depth + 1
            h == held[t] + 1
<1>1. /\ call[t].at = "call" /\ m \in Native
      /\ Return(t)
      /\ UNCHANGED <<kind, word, started, late>>
      /\ native[m].owner \in {t, NoThread}
      /\ native' = [native EXCEPT ![m] =
                      [kind |-> native[m].kind, owner |-> t, depth |-> d]]
      /\ held' = [held EXCEPT ![t] = h]
  BY DEF Grant, Free, Owned, RaceInv, TypeOK
<1>2. native[m].depth \in Nat /\ held[t] \in Nat /\ word \in Native
  BY <1>1 DEF RaceInv, TypeOK, Placed
<1>3. d \in Nat /\ h \in Nat /\ d # 0 /\ h >= held[t]
  BY <1>2
<1>4. native[m].owner = NoThread => native[m].depth = 0
  BY <1>1 DEF RaceInv, Counted
<1>5. h - d = held[t] - native[m].depth
  BY <1>2
<1>6. m = word => h >= d
  <2>1. m = word /\ native[m].owner = t => held[t] >= native[m].depth
    BY <1>2 DEF RaceInv, Believes
  <2>. QED
    BY <1>1, <1>2, <1>4, <2>1
<1>8. /\ t = NoThread <=> d = 0
      /\ t \in {t, native[m].owner, NoThread}
      /\ t \notin {t, NoThread} => d <= native[m].depth
      /\ m = word /\ t = t => h >= d
      /\ m # word /\ native[word].owner = t => h >= held[t]
  BY <1>3, <1>6
<1>9. m = word => \/ native[m].owner = NoThread /\ t = t /\ h - d = held[t]
                  \/ native[m].owner = t /\ h - d = held[t] - native[m].depth
                  \/ native[m].owner # t /\ held[t] > 0
  BY <1>1, <1>2, <1>4, <1>5
<1>10. Leaves(t, m, t, d, h)
  BY <1>1, <1>8, <1>9 DEF Leaves
<1>. HIDE DEF m, d, h
<1>. QED
  BY <1>1, <1>3, <1>10, ReturnRace

LEMMA UnlockRace ==
  ASSUME RaceInv, NEW t \in Thread, Unlock(t)
  PROVE  RaceInv'
<1>. USE Distinct
<1>. DEFINE m == call[t].on
            owner == native[m].owner
            reaches == owner = t \/ (owner # NoThread /\ native[m].kind = "normal")
            o == IF reaches /\ native[m].depth = 1 THEN NoThread ELSE owner
            d == IF reaches THEN native[m].depth - 1 ELSE native[m].depth
            h == held[t] - 1
<1>1. /\ call[t].at = "call" /\ m \in Native /\ held[t] > 0
      /\ Return(t)
      /\ UNCHANGED <<kind, word, started, late>>
      /\ held' = [held EXCEPT ![t] = h]
      /\ m # word => native[word].owner # t
  BY DEF Unlock, RaceInv, TypeOK, Placed
<1>2. /\ native[m] \in [kind : Kind \cup {"unused"},
                        owner : Thread \cup {NoThread}, depth : Nat]
      /\ held[t] \in Nat /\ word \in Native
      /\ owner = NoThread <=> native[m].depth = 0
  BY <1>1 DEF RaceInv, TypeOK, Placed, Counted
<1>3. native' = [native EXCEPT ![m] =
                   [kind |-> native[m].kind, owner |-> o, depth |-> d]]
  <2>1. CASE reaches
    BY <2>1 DEF Unlock, Owned
  <2>2. CASE ~ reaches
    <3>1. native' = native /\ o = owner /\ d = native[m].depth
      BY <2>2 DEF Unlock
    <3>2. native[m] = [kind |-> native[m].kind, owner |-> owner, depth |-> native[m].depth]
      BY <1>2
    <3>3. native = [native EXCEPT ![m] = native[m]]
      BY <1>1 DEF RaceInv, TypeOK
    <3>. QED
      BY <3>1, <3>2, <3>3
  <2>. QED
    BY <2>1, <2>2
<1>4. reaches => native[m].depth > 0
  BY <1>2
<1>5. o \in Thread \cup {NoThread} /\ d \in Nat /\ h \in Nat
  BY <1>1, <1>2, <1>4
<1>6. /\ o = NoThread <=> d = 0
      /\ o \in {t, native[m].owner, NoThread}
      /\ o \notin {t, NoThread} => d <= native[m].depth
  BY <1>2, <1>4
<1>7. m = word /\ o = t => h >= d
  <2>. SUFFICES ASSUME m = word, o = t PROVE h >= d
    OBVIOUS
  <2>1. owner = t /\ d = native[m].depth - 1
    OBVIOUS
  <2>2. held[t] >= native[m].depth
    BY <1>2, <2>1 DEF RaceInv, Believes
  <2>. QED
    BY <1>2, <2>1, <2>2
<1>8. m # word /\ native[word].owner = t => h >= held[t]
  BY <1>1
<1>9. m = word => \/ native[m].owner = NoThread /\ o = t /\ h - d = held[t]
                  \/ native[m].owner = t /\ h - d = held[t] - native[m].depth
                  \/ native[m].owner # t /\ held[t] > 0
  BY <1>1, <1>2
<1>10. Leaves(t, m, o, d, h)
  <2>. HIDE DEF o, d, h, reaches
  <2>. QED
    BY <1>1, <1>3, <1>6, <1>7, <1>8, <1>9 DEF Leaves
<1>. HIDE DEF m, owner, reaches, o, d, h
<1>. QED
  BY <1>1, <1>5, <1>10, ReturnRace

LEMMA StepRace ==
  RaceInv /\ [Next]_vars => RaceInv'
<1>. SUFFICES ASSUME RaceInv, [Next]_vars PROVE RaceInv'
  OBVIOUS
<1>1. CASE \E k \in Kind : InitMutex(k)
  BY <1>1, InitMutexRace
<1>2. CASE DestroyMutex
  BY <1>2, DestroyMutexRace
<1>3. ASSUME NEW t \in Thread, Create(t) PROVE RaceInv'
  BY <1>3, CreateRace
<1>4. ASSUME NEW t \in Thread, BeginUnlock(t) PROVE RaceInv'
  BY <1>4, BeginUnlockRace
<1>5. ASSUME NEW t \in Thread, Bridge(t) PROVE RaceInv'
  BY <1>5, InitStaticRace, StoreRace, ResolveRace, GrantRace, RefuseRace, UnlockRace
     DEF Bridge
<1>6. ASSUME NEW t \in Thread, NEW op \in {"lock", "trylock"}, BeginLock(t, op)
      PROVE  RaceInv'
  BY <1>6, BeginLockRace
<1>7. CASE UNCHANGED vars
  <2>1. TypeOK'
    BY <1>7 DEF RaceInv, TypeOK, vars
  <2>. QED
    BY <1>7, <2>1, UntouchedRace DEF vars
<1>. QED
  BY <1>1, <1>2, <1>3, <1>4, <1>5, <1>6, <1>7 DEF Next

(***************************************************************************)
(* The inductive invariant of every client, first use alone or not.        *)
(***************************************************************************)
THEOREM RaceInvariance == Spec => []RaceInv
BY InitRace, StepRace, PTL DEF Spec

(***************************************************************************)
(* A race on the first use heals: whatever it left behind, two threads     *)
(* that both came after those who met it have left never both believe to   *)
(* hold the mutex.                                                         *)
(***************************************************************************)
THEOREM LateHoldersExclude == Spec => []RaceHeals
<1>1. ASSUME RaceInv, NEW t \in Thread, NEW u \in Thread,
             held[t] > 0, late[t], held[u] > 0, late[u]
      PROVE  t = u
  <2>1. Settled
    BY <1>1 DEF RaceInv, Healed, Here
  <2>2. native[word].owner = t /\ native[word].owner = u
    BY <1>1, <2>1 DEF Settled, Joins
  <2>. QED
    BY <2>2
<1>2. RaceInv => RaceHeals
  BY <1>1 DEF RaceHeals
<1>. QED
  BY <1>2, RaceInvariance, PTL
=============================================================================
