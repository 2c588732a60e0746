---------------------------- MODULE BridgeProofs ----------------------------
(***************************************************************************)
(* TLAPS proofs about the once, semaphore and condition variable bridges   *)
(* of src/reimpl/pthr.c: OnceBridge, for any callers, any number of calls  *)
(* and any depth of recursion; SemBridge, for any finite set of clients,   *)
(* any deadline, units and bound on a wait; CondBridge, for any waiters,   *)
(* finite set of notifiers and native condition variables.                 *)
(***************************************************************************)
EXTENDS OnceBridge, SemBridge, CondBridge, LogLock, SequenceTheorems, FiniteSetTheorems, TLAPS

-----------------------------------------------------------------------------
(* pthread_once.                                                           *)
Place == {"claim", "init", "return"}

(* Somebody is inside the initializer, however deep.                       *)
Within == \E u \in Caller : \E i \in 1..Len(frames[u]) : frames[u][i] = "init"

Shape ==
  /\ frames \in [Caller -> Seq(Place)]
  /\ \A t \in Caller : Len(frames[t]) \in 0..MaxNesting
  /\ control \in {0, 1}

(* Nobody is past the exchange before it was won, and once it was the      *)
(* winner is inside the initializer or has left it.                        *)
Started ==
  /\ \A t \in Caller : \A i \in 1..Len(frames[t]) : frames[t][i] # "claim" => control = 1
  /\ control = 1 => complete \/ Within

IInv == Shape /\ runs = control /\ Started

LEMMA Pushed ==
  ASSUME NEW s \in Seq(Place), NEW place \in Place
  PROVE  /\ <<place>> \o s \in Seq(Place)
         /\ Len(<<place>> \o s) = Len(s) + 1
         /\ (<<place>> \o s)[1] = place
         /\ \A i \in 1..Len(s) : (<<place>> \o s)[i + 1] = s[i]
         /\ \A i \in 2..(Len(s) + 1) : (<<place>> \o s)[i] = s[i - 1]
  <1>1. <<place>> \in Seq(Place) /\ Len(<<place>>) = 1 /\ <<place>>[1] = place
    OBVIOUS
  <1>2. <<place>> \o s \in Seq(Place) /\ Len(<<place>> \o s) = Len(s) + 1
    BY <1>1, ConcatProperties
  <1>3. \A i \in 1..(Len(s) + 1) : (<<place>> \o s)[i] = IF i <= 1 THEN <<place>>[i] ELSE s[i - 1]
    BY <1>1, ConcatProperties
  <1>. QED
    BY <1>1, <1>2, <1>3

LEMMA Popped ==
  ASSUME NEW s \in Seq(Place), s # <<>>
  PROVE  /\ Tail(s) \in Seq(Place)
         /\ Len(Tail(s)) = Len(s) - 1
         /\ \A i \in 1..(Len(s) - 1) : Tail(s)[i] = s[i + 1]
         /\ Len(s) >= 1 /\ Head(s) = s[1]
  BY HeadTailProperties, EmptySeq

LEMMA Replaced ==
  ASSUME NEW s \in Seq(Place), s # <<>>, NEW place \in Place
  PROVE  /\ <<place>> \o Tail(s) \in Seq(Place)
         /\ Len(<<place>> \o Tail(s)) = Len(s)
         /\ (<<place>> \o Tail(s))[1] = place
         /\ \A i \in 2..Len(s) : (<<place>> \o Tail(s))[i] = s[i]
  <1>1. Tail(s) \in Seq(Place) /\ Len(Tail(s)) = Len(s) - 1
    BY Popped
  <1>2. \A i \in 2..Len(s) : (<<place>> \o Tail(s))[i] = Tail(s)[i - 1]
    BY <1>1, Pushed, Popped
  <1>3. \A i \in 2..Len(s) : Tail(s)[i - 1] = s[i]
    BY Popped
  <1>. QED
    BY <1>1, <1>2, <1>3, Pushed, Popped

LEMMA InitIInv == OnceInit => IInv
<1>. SUFFICES ASSUME OnceInit PROVE IInv
  OBVIOUS
<1>1. \A t \in Caller : frames[t] = <<>> /\ Len(frames[t]) = 0
  BY DEF OnceInit
<1>2. frames \in [Caller -> Seq(Place)]
  BY DEF OnceInit
<1>. QED
  BY <1>1, <1>2, OnceAssumption DEF OnceInit, IInv, Shape, Started

(* Where a thread is, is its innermost frame.                              *)
LEMMA AtHead ==
  ASSUME Shape, NEW t \in Caller, At(t) # "out"
  PROVE  frames[t] # <<>> /\ Len(frames[t]) >= 1 /\ At(t) = frames[t][1]
<1>1. frames[t] \in Seq(Place)
  BY DEF Shape
<1>. QED
  BY <1>1, Popped DEF At

(* The innermost frame of one thread is replaced, the exchange having been *)
(* won before or by this step.                                             *)
LEMMA NextGoes ==
  ASSUME IInv, NEW t \in Caller, At(t) \in Place, NEW place \in {"init", "return"}, OnceGoes(t, place),
         control' = 1, runs' = 1,
         place = "init" \/ complete' \/ (Within /\ At(t) = "claim")
  PROVE  IInv'
<1>0. frames[t] # <<>> /\ Len(frames[t]) >= 1 /\ At(t) = frames[t][1] /\ frames[t] \in Seq(Place)
  BY AtHead DEF IInv, Shape, Place
<1>1. frames' = [frames EXCEPT ![t] = <<place>> \o Tail(frames[t])] /\ place \in Place
  BY DEF OnceGoes, Place
<1>2. /\ frames'[t] \in Seq(Place) /\ Len(frames'[t]) = Len(frames[t])
      /\ frames'[t][1] = place
      /\ \A i \in 2..Len(frames[t]) : frames'[t][i] = frames[t][i]
  BY <1>0, <1>1, Replaced DEF IInv, Shape
<1>3. \A u \in Caller : u # t => frames'[u] = frames[u]
  BY <1>1
<1>4. Shape'
  BY <1>1, <1>2, <1>3 DEF IInv, Shape
<1>5. complete' \/ Within'
  <2>1. CASE place = "init"
    BY <1>0, <1>2, <2>1 DEF Within
  <2>2. CASE Within /\ At(t) = "claim"
    <3>1. PICK u \in Caller : \E i \in 1..Len(frames[u]) : frames[u][i] = "init"
      BY <2>2 DEF Within
    <3>2. PICK i \in 1..Len(frames[u]) : frames[u][i] = "init"
      BY <3>1
    <3>3. u = t => i # 1
      BY <1>0, <2>2, <3>2
    <3>4. i \in 1..Len(frames'[u]) /\ frames'[u][i] = "init"
      BY <1>2, <1>3, <3>2, <3>3
    <3>. QED
      BY <3>4 DEF Within
  <2>. QED
    BY <2>1, <2>2
<1>. QED
  BY <1>4, <1>5 DEF IInv, Started

LEMMA NextIInv == IInv /\ [OnceNext]_onceVars => IInv'
<1>. SUFFICES ASSUME IInv, [OnceNext]_onceVars PROVE IInv'
  OBVIOUS
<1>. USE OnceAssumption
<1>1. ASSUME NEW t \in Caller, Call(t) PROVE IInv'
  <2>1. frames' = [frames EXCEPT ![t] = <<"claim">> \o frames[t]] /\ frames[t] \in Seq(Place)
    BY <1>1 DEF Call, IInv, Shape
  <2>2. /\ frames'[t] \in Seq(Place) /\ Len(frames'[t]) = Len(frames[t]) + 1
        /\ frames'[t][1] = "claim"
        /\ \A i \in 1..Len(frames[t]) : frames'[t][i + 1] = frames[t][i]
        /\ \A i \in 2..(Len(frames[t]) + 1) : frames'[t][i] = frames[t][i - 1]
    BY <2>1, Pushed DEF IInv, Shape, Place
  <2>3. \A u \in Caller : u # t => frames'[u] = frames[u]
    BY <2>1
  <2>4. Shape'
    BY <1>1, <2>1, <2>2, <2>3 DEF Call, IInv, Shape
  <2>5. ASSUME NEW u \in Caller, NEW i \in 1..Len(frames'[u]), frames'[u][i] # "claim"
        PROVE  control' = 1
    <3>1. CASE u = t
      <4>1. i \in 2..(Len(frames[t]) + 1) /\ i - 1 \in 1..Len(frames[t])
        BY <2>2, <2>5, <3>1 DEF IInv, Shape
      <4>. QED
        BY <1>1, <2>2, <2>5, <3>1, <4>1 DEF Call, IInv, Started
    <3>2. CASE u # t
      BY <1>1, <2>3, <2>5, <3>2 DEF Call, IInv, Started
    <3>. QED
      BY <3>1, <3>2
  <2>6. Within => Within'
    <3>. SUFFICES ASSUME NEW u \in Caller, NEW i \in 1..Len(frames[u]), frames[u][i] = "init"
                  PROVE  Within'
      BY DEF Within
    <3>1. CASE u = t
      <4>1. i + 1 \in 1..Len(frames'[t]) /\ frames'[t][i + 1] = "init"
        BY <2>2, <3>1 DEF IInv, Shape
      <4>. QED
        BY <4>1 DEF Within
    <3>2. CASE u # t
      BY <2>3, <3>2 DEF Within
    <3>. QED
      BY <3>1, <3>2
  <2>. QED
    BY <1>1, <2>4, <2>5, <2>6 DEF Call, IInv, Started
<1>2. ASSUME NEW t \in Caller, Claim(t) PROVE IInv'
  <2>1. CASE control = 0
    <3>1. control' = 1 /\ runs' = 1 /\ OnceGoes(t, "init")
      <4>1. Exchange(control).control = 1
        BY DEF Exchange
      <4>2. Exchange(control).enter = TRUE
        BY <2>1 DEF Exchange
      <4>3. runs' = runs + 1 /\ OnceGoes(t, "init")
        BY <1>2, <4>2, Zenon DEF Claim
      <4>. QED
        BY <1>2, <2>1, <4>1, <4>3 DEF Claim, IInv
    <3>. QED
      BY <1>2, <3>1, NextGoes DEF Claim, Place
  <2>2. CASE control = 1
    <3>1. control' = 1 /\ runs' = 1 /\ OnceGoes(t, "return")
      <4>1. Exchange(control).control = 1
        BY DEF Exchange
      <4>2. ~ Exchange(control).enter
        <5>1. ~ (control = 0)
          BY <2>2
        <5>. QED
          BY <5>1, Zenon DEF Exchange
      <4>3. runs' = runs /\ OnceGoes(t, "return")
        BY <1>2, <4>2, Zenon DEF Claim
      <4>. QED
        BY <1>2, <2>2, <4>1, <4>3 DEF Claim, IInv
    <3>2. complete' \/ (Within /\ At(t) = "claim")
      BY <1>2, <2>2, Zenon DEF Claim, IInv, Started
    <3>. QED
      BY <1>2, <3>1, <3>2, NextGoes DEF Claim, Place
  <2>. QED
    BY <2>1, <2>2 DEF IInv, Shape
<1>3. ASSUME NEW t \in Caller, FinishInit(t) PROVE IInv'
  <2>1. frames[t] # <<>> /\ Len(frames[t]) >= 1 /\ frames[t][1] = "init"
    BY <1>3, AtHead DEF FinishInit, IInv
  <2>2. control = 1
    BY <2>1 DEF IInv, Started, Shape
  <2>3. control' = 1 /\ runs' = 1
    BY <1>3, <2>2 DEF FinishInit, IInv
  <2>4. complete'
    BY <1>3, Zenon DEF FinishInit
  <2>. QED
    BY <1>3, <2>3, <2>4, NextGoes DEF FinishInit, Place
<1>4. ASSUME NEW t \in Caller, Return(t) PROVE IInv'
  <2>1. frames[t] # <<>> /\ Len(frames[t]) >= 1 /\ frames[t][1] = "return" /\ frames[t] \in Seq(Place)
    BY <1>4, AtHead DEF Return, IInv, Shape
  <2>2. frames' = [frames EXCEPT ![t] = Tail(frames[t])]
    BY <1>4 DEF Return
  <2>3. /\ frames'[t] \in Seq(Place) /\ Len(frames'[t]) = Len(frames[t]) - 1
        /\ \A i \in 1..(Len(frames[t]) - 1) : frames'[t][i] = frames[t][i + 1]
    BY <2>1, <2>2, Popped DEF IInv, Shape
  <2>4. \A u \in Caller : u # t => frames'[u] = frames[u]
    BY <2>2
  <2>5. Shape'
    BY <1>4, <2>1, <2>2, <2>3, <2>4 DEF Return, IInv, Shape
  <2>6. control' = control /\ control = 1 /\ runs' = runs
    BY <1>4, <2>1 DEF Return, IInv, Started, Shape
  <2>7. Within => Within'
    <3>. SUFFICES ASSUME NEW u \in Caller, NEW i \in 1..Len(frames[u]), frames[u][i] = "init"
                  PROVE  Within'
      BY DEF Within
    <3>1. CASE u = t
      <4>1. i # 1
        BY <2>1, <3>1
      <4>2. i - 1 \in 1..Len(frames'[t]) /\ frames'[t][i - 1] = "init"
        BY <2>1, <2>3, <3>1, <4>1 DEF IInv, Shape
      <4>. QED
        BY <4>2 DEF Within
    <3>2. CASE u # t
      BY <2>4, <3>2 DEF Within
    <3>. QED
      BY <3>1, <3>2
  <2>8. complete' \/ Within'
    <3>1. complete' = complete
      BY <1>4 DEF Return
    <3>2. complete \/ Within
      BY <2>6, Zenon DEF IInv, Started
    <3>. QED
      BY <2>7, <3>1, <3>2, Zenon
  <2>. QED
    BY <2>5, <2>6, <2>8 DEF IInv, Started
<1>5. CASE UNCHANGED onceVars
  BY <1>5 DEF onceVars, IInv, Shape, Started, Within
<1>. QED
  BY <1>1, <1>2, <1>3, <1>4, <1>5 DEF OnceNext, OnceStep

LEMMA Invariance == OnceSpec => []IInv
  BY InitIInv, NextIInv, PTL DEF OnceSpec

(* The rest of the type invariant.                                         *)
Knows == complete \in BOOLEAN
LEMMA AlwaysKnows == OnceSpec => []Knows
<1>1. OnceInit => Knows
  BY Zenon DEF OnceInit, Knows
<1>2. Knows /\ [OnceNext]_onceVars => Knows'
  BY Zenon DEF Knows, OnceNext, OnceStep, Call, Claim, FinishInit, Return, onceVars
<1>. QED
  BY <1>1, <1>2, PTL DEF OnceSpec

(* The atomic exchange of pthread_once_soloader lets one caller in, once.  *)
THEOREM InitializerRunsOnce == OnceSpec => []RunsOnce
<1>1. IInv => RunsOnce
  BY DEF IInv, Shape, RunsOnce
<1>. QED
  BY <1>1, Invariance, PTL

(* No call of pthread_once_soloader returns before the initializer was     *)
(* entered, though it may return before the initializer has.               *)
THEOREM NobodyReturnsBefore == OnceSpec => []ReturnsStarted
<1>1. IInv => ReturnsStarted
  <2>. SUFFICES ASSUME IInv, NEW t \in Caller, At(t) = "return"
                PROVE  complete \/ \E u \in Caller, i \in 1..MaxNesting :
                                     i \in DOMAIN frames[u] /\ frames[u][i] = "init"
    BY DEF ReturnsStarted
  <2>1. Len(frames[t]) >= 1 /\ frames[t][1] = "return"
    BY AtHead DEF IInv
  <2>2. control = 1
    BY <2>1 DEF IInv, Started, Shape
  <2>3. complete \/ Within
    BY <2>2, Zenon DEF IInv, Started
  <2>4. Within => \E u \in Caller, i \in 1..MaxNesting : i \in DOMAIN frames[u] /\ frames[u][i] = "init"
    <3>. SUFFICES ASSUME NEW u \in Caller, NEW i \in 1..Len(frames[u]), frames[u][i] = "init"
                  PROVE  i \in 1..MaxNesting /\ i \in DOMAIN frames[u]
      BY DEF Within
    <3>1. frames[u] \in Seq(Place) /\ Len(frames[u]) \in 0..MaxNesting /\ MaxNesting \in Nat
      BY OnceAssumption DEF IInv, Shape
    <3>. QED
      BY <3>1
  <2>. QED
    BY <2>3, <2>4, Zenon
<1>. QED
  BY <1>1, Invariance, PTL

(* What pthread_once_soloader promises in every state, for any number of   *)
(* callers, calls and nested calls.                                        *)
THEOREM OncePromise == OnceSpec => []OnceInv
<1>1. IInv /\ Knows => OnceTypeOK
  <2>. SUFFICES ASSUME IInv, Knows,
                       NEW t \in Caller, NEW i \in DOMAIN frames[t]
                PROVE  /\ control \in {0, 1}
                       /\ frames[t][i] \in {"claim", "init", "return"}
    BY Zenon DEF OnceTypeOK, IInv, Shape, Knows
  <2>1. frames[t] \in Seq(Place)
    BY DEF IInv, Shape
  <2>2. frames[t][i] \in Place
    BY <2>1, ElementOfSeq
  <2>. QED
    BY <2>2 DEF IInv, Shape, Place
<1>. QED
  <2>1. OnceTypeOK /\ RunsOnce /\ ReturnsStarted => OnceInv
    BY DEF OnceInv
  <2>. QED
    BY <1>1, <2>1, Invariance, AlwaysKnows, InitializerRunsOnce, NobodyReturnsBefore, PTL
-----------------------------------------------------------------------------
(* The arithmetic of sem_timedwait: what division cuts off.                *)
LEMMA Cut ==
  ASSUME NEW a \in Nat, NEW b \in Nat \ {0}
  PROVE  a \div b \in Nat /\ b * (a \div b) <= a /\ a < b * (a \div b) + b
OBVIOUS

LEMMA Units ==
  /\ Us \in Nat \ {0} /\ Ms \in Nat \ {0} /\ MaxWait \in Nat \ {0}
  /\ Ms \div Us \in Nat /\ Us * (Ms \div Us) = Ms
<1>1. Us \in Nat \ {0} /\ Ms \in Nat \ {0} /\ MaxWait \in Nat \ {0} /\ Ms % Us = 0
  BY SemAssumption
<1>2. Ms = Us * (Ms \div Us) + (Ms % Us) /\ Ms \div Us \in Nat
  BY <1>1
<1>. QED
  BY <1>1, <1>2

(* The clock, in steps, is up to a millisecond behind.                     *)
LEMMA Clock ==
  ASSUME NEW time \in Nat
  PROVE  /\ ClockUs(time) \in Nat
         /\ Us * ClockUs(time) <= time /\ time < Us * ClockUs(time) + Ms
<1> DEFINE q == time \div Ms
           k == Ms \div Us
<1>1. q \in Nat /\ Ms * q <= time /\ time < Ms * q + Ms
  BY Cut, Units
<1>2. k \in Nat /\ Us * k = Ms
  BY Units
<1>3. ClockUs(time) = q * k
  BY DEF ClockUs
<1> HIDE DEF q, k
<1>4. Us * (q * k) = (Us * k) * q
  BY <1>1, <1>2, Units
<1>5. q * k \in Nat
  BY <1>1, <1>2
<1>. QED
  BY <1>1, <1>2, <1>3, <1>4, <1>5

(* The deadline, in steps, is up to a microsecond behind.                  *)
LEMMA Deadline ==
  ASSUME NEW d \in Nat
  PROVE  /\ DeadlineUs(d) \in Nat
         /\ Us * DeadlineUs(d) <= d /\ d < Us * DeadlineUs(d) + Us
BY Cut, Units DEF DeadlineUs

LEMMA Scaled ==
  ASSUME NEW m \in Int, NEW n \in Int, m <= n, NEW k \in Nat
  PROVE  k * m \in Int /\ k * n \in Int /\ k * m <= k * n
OBVIOUS

(* A deadline that is called past is less than a microsecond away.         *)
LEMMA PastDeadline ==
  ASSUME NEW d \in Nat, NEW time \in Nat, Passed(Remaining(d, time))
  PROVE  time > d - Us
<1>1. DeadlineUs(d) <= ClockUs(time)
  BY Clock, Deadline DEF Passed, Remaining
<1>2. Us * DeadlineUs(d) <= Us * ClockUs(time)
  <2>1. DeadlineUs(d) \in Int /\ ClockUs(time) \in Int /\ Us \in Nat
    BY Clock, Deadline, Units
  <2>. QED
    BY <1>1, <2>1, Scaled
<1>3. /\ Us * DeadlineUs(d) \in Nat /\ Us * ClockUs(time) \in Nat
  BY Clock, Deadline, Units
<1>. QED
  BY <1>2, <1>3, Clock, Deadline, Units

(* The timeout is what remains, or all that 32 bits can hold.              *)
LEMMA TimeoutIs ==
  ASSUME NEW r \in Int, ~ Passed(r)
  PROVE  /\ Timeout(r) \in Nat /\ Timeout(r) <= r
         /\ Timeout(r) = r \/ Timeout(r) = MaxWait
<1>1. r \in Nat \ {0}
  BY DEF Passed
<1>2. CASE r > MaxWait
  BY <1>1, <1>2, Units DEF Timeout
<1>3. CASE r <= MaxWait
  <2>1. MaxWait + 1 \in Nat \ {0} /\ r < MaxWait + 1
    BY <1>1, <1>3, Units
  <2>2. r % (MaxWait + 1) = r
    BY <1>1, <2>1
  <2>3. Timeout(r) = r
    BY <1>1, <1>3, <2>2, Units DEF Timeout
  <2>. QED
    BY <1>1, <2>3
<1>. QED
  BY <1>1, <1>2, <1>3, Units

(* Where a wait from b with the clock read at s ends: not early and not    *)
(* late.                                                                   *)
LEMMA Ends ==
  ASSUME NEW d \in Nat, NEW s \in Nat, NEW b \in Nat, s <= b, ~ Passed(Remaining(d, s))
  PROVE  LET until == b + Us * Timeout(Remaining(d, s)) IN
         /\ until \in Nat
         /\ until > d - Us \/ until - b >= Us * MaxWait
         /\ until - (b - s) < d + Ms
<1> DEFINE r == Remaining(d, s)
           w == Timeout(r)
<1>1. r \in Int /\ r = DeadlineUs(d) - ClockUs(s)
  BY Clock, Deadline DEF Remaining
<1>2. w \in Nat /\ w <= r /\ (w = r \/ w = MaxWait)
  BY <1>1, TimeoutIs
<1> HIDE DEF r, w
<1>3. Us * r = Us * DeadlineUs(d) - Us * ClockUs(s)
  BY <1>1, Clock, Deadline, Units
<1>4. /\ Us * w \in Nat /\ Us * r \in Int /\ Us * w <= Us * r
      /\ Us * DeadlineUs(d) \in Nat /\ Us * ClockUs(s) \in Nat /\ Us * MaxWait \in Nat
  <2>1. w \in Int /\ Us \in Nat
    BY <1>2, Units
  <2>2. Us * w \in Int /\ Us * r \in Int /\ Us * w <= Us * r
    BY <1>1, <1>2, <2>1, Scaled
  <2>3. \A n \in Nat : Us * n \in Nat
    BY Units
  <2>. QED
    BY <1>2, <2>2, <2>3, Clock, Deadline, Units
<1>5. Us * w = Us * r \/ Us * w = Us * MaxWait
  BY <1>2
<1>6. /\ b + Us * w \in Nat
      /\ b + Us * w > d - Us \/ (b + Us * w) - b >= Us * MaxWait
      /\ (b + Us * w) - (b - s) < d + Ms
  BY <1>3, <1>4, <1>5, Clock, Deadline, Units
<1>. QED
  BY <1>6 DEF r, w

-----------------------------------------------------------------------------
(* What a call knows of its times.                                         *)
CallState ==
  [at : {"out", "armed", "wait", "granted", "timeout", "error"},
   deadline : Nat, read : Nat, begun : Nat, until : Nat \cup {Never}]

Timed(c, time) ==
  /\ c.read <= time /\ c.begun <= time
  /\ c.at = "armed" => ~ Passed(Remaining(c.deadline, c.read))
  /\ c.at = "wait" /\ c.until # Never =>
       /\ c.until > c.deadline - Us \/ c.until - c.begun >= Us * MaxWait
       /\ c.until - (c.begun - c.read) < c.deadline + Ms
  /\ c.at = "timeout" => time > c.deadline - Us \/ time - c.begun >= Us * MaxWait

TimesInv ==
  /\ now \in 0..Horizon
  /\ call \in [Client -> CallState]
  /\ \A t \in Client : Timed(call[t], now)

GrantedTo == {t \in Client : call[t].at = "granted"}
TokensInv ==
  /\ count \in Nat /\ posts \in 0..MaxPosts /\ taken \in Nat
  /\ IsFiniteSet(GrantedTo) /\ Initial + posts = count + Cardinality(GrantedTo) + taken

AliveInv == alive \in BOOLEAN

LEMMA Bounds == Start \in Nat /\ Horizon \in Nat /\ MaxPosts \in Nat /\ Initial \in Nat
                /\ Start <= Horizon /\ IsFiniteSet(Client) /\ Never = -1
BY SemAssumption DEF Never

LEMMA OutIsTimed ==
  ASSUME NEW time \in Nat
  PROVE  Out \in CallState /\ Timed(Out, time)
<1>1. Out \in CallState
  BY DEF Out, CallState, Never
<1>2. Out.at = "out" /\ Out.read = 0 /\ Out.begun = 0
  BY DEF Out
<1>. QED
  BY <1>1, <1>2 DEF Timed

LEMMA InitTimes == SemInit => TimesInv /\ TokensInv /\ AliveInv
<1>. SUFFICES ASSUME SemInit PROVE TimesInv /\ TokensInv /\ AliveInv
  OBVIOUS
<1>1. TimesInv
  <2>1. now = Start /\ Start \in Nat /\ now \in 0..Horizon
    BY Bounds DEF SemInit
  <2>2. call \in [Client -> CallState] /\ \A t \in Client : call[t] = Out
    BY <2>1, OutIsTimed DEF SemInit
  <2>. QED
    BY <2>1, <2>2, OutIsTimed DEF TimesInv
<1>2. TokensInv
  <2>1. GrantedTo = {}
    BY DEF SemInit, GrantedTo, Out
  <2>. QED
    BY <2>1, FS_EmptySet, Bounds DEF SemInit, TokensInv
<1>3. AliveInv
  BY Zenon DEF SemInit, AliveInv
<1>. QED
  BY <1>1, <1>2, <1>3

(* A step of one thread keeps the times if what it leaves behind does.     *)
LEMMA ThreadTimes ==
  ASSUME TimesInv, NEW t \in Client, NEW c \in CallState, Timed(c, now),
         now' = now, call' = [call EXCEPT ![t] = c]
  PROVE  TimesInv'
<1>1. call' \in [Client -> CallState]
  BY DEF TimesInv
<1>2. ASSUME NEW u \in Client PROVE Timed(call'[u], now)
  BY DEF TimesInv
<1>3. \A u \in Client : Timed(call'[u], now')
  BY <1>2
<1>. QED
  BY <1>1, <1>3 DEF TimesInv

LEMMA NextTimes == TimesInv /\ [SemNext]_semVars => TimesInv'
<1>. SUFFICES ASSUME TimesInv, [SemNext]_semVars PROVE TimesInv'
  OBVIOUS
<1>0. now \in Nat
  BY Bounds DEF TimesInv
<1>1. ASSUME NEW t \in Client, NEW d \in Deadlines, BeginTimedWait(t, d) PROVE TimesInv'
  <2> DEFINE c == [at |-> IF Passed(Remaining(d, now)) THEN "timeout" ELSE "armed",
                   deadline |-> d, read |-> now, begun |-> 0, until |-> Never]
  <2>1. d \in Nat
    BY SemAssumption
  <2>2. c \in CallState
    BY <1>0, <2>1 DEF CallState
  <2>3. Timed(c, now)
    <3>1. CASE Passed(Remaining(d, now))
      <4>1. now > d - Us
        BY <1>0, <2>1, <3>1, PastDeadline
      <4>. QED
        BY <1>0, <3>1, <4>1 DEF Timed
    <3>2. CASE ~ Passed(Remaining(d, now))
      BY <1>0, <3>2 DEF Timed
    <3>. QED
      BY <3>1, <3>2
  <2>4. call' = [call EXCEPT ![t] = c] /\ now' = now
    BY <1>1 DEF BeginTimedWait
  <2> HIDE DEF c
  <2>. QED
    BY <2>2, <2>3, <2>4, ThreadTimes
<1>2. ASSUME NEW t \in Client, EnterTimedWait(t) PROVE TimesInv'
  <2> DEFINE old == call[t]
             until == now + Us * Timeout(Remaining(old.deadline, old.read))
             c == [at |-> IF alive THEN "wait" ELSE "error", deadline |-> old.deadline,
                   read |-> old.read, begun |-> now, until |-> until]
  <2>1. /\ old.deadline \in Nat /\ old.read \in Nat /\ old.read <= now
        /\ ~ Passed(Remaining(old.deadline, old.read))
    BY <1>2 DEF EnterTimedWait, TimesInv, Timed, CallState
  <2>2. /\ until \in Nat
        /\ until > old.deadline - Us \/ until - now >= Us * MaxWait
        /\ until - (now - old.read) < old.deadline + Ms
    BY <1>0, <2>1, Ends
  <2>3. call' = [call EXCEPT ![t] = c] /\ now' = now
    BY <1>2 DEF EnterTimedWait
  <2> HIDE DEF until, old
  <2>4. c \in CallState
    BY <1>0, <2>1, <2>2 DEF CallState
  <2>5. Timed(c, now)
    <3>1. c.at \in {"wait", "error"}
      OBVIOUS
    <3>2. c.read = old.read /\ c.begun = now /\ c.until = until /\ c.deadline = old.deadline
      OBVIOUS
    <3> HIDE DEF c
    <3>. QED
      BY <1>0, <2>1, <2>2, <3>1, <3>2 DEF Timed
  <2> HIDE DEF c
  <2>. QED
    BY <2>3, <2>4, <2>5, ThreadTimes
<1>3. ASSUME NEW t \in Client, BeginTryWait(t) PROVE TimesInv'
  <2> DEFINE c == [at |-> IF alive THEN "wait" ELSE "error", deadline |-> now + Ms,
                   read |-> now, begun |-> now, until |-> now + Ms]
  <2>1. c \in CallState
    BY <1>0, Units DEF CallState
  <2>2. Timed(c, now)
    <3>1. c.at \in {"wait", "error"}
      OBVIOUS
    <3>2. c.read = now /\ c.begun = now /\ c.until = now + Ms /\ c.deadline = now + Ms
      OBVIOUS
    <3> HIDE DEF c
    <3>. QED
      BY <1>0, <3>1, <3>2, Units DEF Timed
  <2>3. call' = [call EXCEPT ![t] = c] /\ now' = now
    BY <1>3 DEF BeginTryWait
  <2> HIDE DEF c
  <2>. QED
    BY <2>1, <2>2, <2>3, ThreadTimes
<1>4. ASSUME NEW t \in Client, BeginWait(t) PROVE TimesInv'
  <2> DEFINE c == [at |-> IF alive THEN "wait" ELSE "error", deadline |-> 0,
                   read |-> now, begun |-> now, until |-> Never]
  <2>1. c \in CallState
    BY <1>0 DEF CallState
  <2>2. Timed(c, now)
    BY <1>0 DEF Timed
  <2>3. call' = [call EXCEPT ![t] = c] /\ now' = now
    BY <1>4 DEF BeginWait
  <2> HIDE DEF c
  <2>. QED
    BY <2>1, <2>2, <2>3, ThreadTimes
<1>5. ASSUME NEW t \in Client, Kernel(t) PROVE TimesInv'
  <2>1. PICK to \in {"granted", "timeout", "error"} :
          /\ call' = [call EXCEPT ![t] = [call[t] EXCEPT !.at = to]] /\ now' = now
          /\ to = "timeout" => call[t].at = "wait" /\ call[t].until # Never /\ now >= call[t].until
    BY <1>5 DEF Kernel, Grant, Expire, Deleted, Answers, Waiting
  <2> DEFINE c == [call[t] EXCEPT !.at = to]
  <2>2. c \in CallState /\ c.at = to /\ c.read = call[t].read /\ c.begun = call[t].begun
        /\ c.deadline = call[t].deadline
    BY DEF TimesInv, CallState
  <2>3. Timed(call[t], now) /\ call[t] \in CallState
    BY DEF TimesInv
  <2> HIDE DEF c
  <2>4. Timed(c, now)
    <3>1. CASE to = "timeout"
      <4>1. /\ call[t].until \in Nat /\ call[t].deadline \in Nat /\ call[t].begun \in Nat
            /\ now >= call[t].until
        BY <2>1, <2>3, <3>1 DEF CallState
      <4>2. call[t].until > call[t].deadline - Us \/ call[t].until - call[t].begun >= Us * MaxWait
        BY <2>1, <2>3, <3>1 DEF Timed
      <4>3. Us * MaxWait \in Nat /\ Us \in Nat
        BY Units
      <4>4. now > c.deadline - Us \/ now - c.begun >= Us * MaxWait
        BY <1>0, <2>2, <4>1, <4>2, <4>3
      <4>. QED
        BY <2>2, <2>3, <3>1, <4>4 DEF Timed
    <3>2. CASE to # "timeout"
      BY <2>2, <2>3, <3>2 DEF Timed
    <3>. QED
      BY <3>1, <3>2
  <2>5. call' = [call EXCEPT ![t] = c]
    BY <2>1 DEF c
  <2>. QED
    BY <2>1, <2>2, <2>4, <2>5, ThreadTimes
<1>6. ASSUME NEW t \in Client, ReturnAnswer(t) PROVE TimesInv'
  BY <1>0, <1>6, OutIsTimed, ThreadTimes DEF ReturnAnswer
<1>7. CASE Tick
  <2>1. now' = now + 1 /\ now' \in 0..Horizon /\ call' = call
    BY <1>7, Bounds DEF Tick, TimesInv
  <2>2. ASSUME NEW t \in Client PROVE Timed(call[t], now + 1)
    <3>1. Timed(call[t], now) /\ call[t] \in CallState
      BY DEF TimesInv
    <3>2. call[t].read \in Nat /\ call[t].begun \in Nat /\ call[t].deadline \in Nat
      BY <3>1 DEF CallState
    <3>3. Us * MaxWait \in Nat /\ Us \in Nat
      BY Units
    <3>. QED
      BY <1>0, <3>1, <3>2, <3>3 DEF Timed
  <2>. QED
    BY <2>1, <2>2 DEF TimesInv
<1>8. CASE UNCHANGED <<now, call>>
  BY <1>8 DEF TimesInv
<1>9. CASE Post \/ Destroy \/ UNCHANGED semVars
  BY <1>8, <1>9 DEF Post, Destroy, semVars
<1>. QED
  BY <1>1, <1>2, <1>3, <1>4, <1>5, <1>6, <1>7, <1>9 DEF SemNext, Begin

(* Tokens move between the count, the calls about to be answered and the   *)
(* answers.                                                                *)
LEMMA NextTokens == TimesInv /\ TokensInv /\ [SemNext]_semVars => TokensInv'
<1>. SUFFICES ASSUME TimesInv, TokensInv, [SemNext]_semVars PROVE TokensInv'
  OBVIOUS
<1>0. /\ count \in Nat /\ posts \in Nat /\ taken \in Nat /\ Initial \in Nat
      /\ IsFiniteSet(GrantedTo) /\ Cardinality(GrantedTo) \in Nat
  BY FS_CardinalityType, Bounds DEF TokensInv
<1>1. ASSUME GrantedTo' = GrantedTo, UNCHANGED <<count, posts, taken>> PROVE TokensInv'
  BY <1>1 DEF TokensInv
<1>2. ASSUME NEW t \in Client, NEW c, c.at # "granted", call[t].at # "granted",
             call' = [call EXCEPT ![t] = c], UNCHANGED <<count, posts, taken>>
      PROVE  TokensInv'
  <2>1. \A u \in Client : call'[u] = IF u = t THEN c ELSE call[u]
    BY <1>2 DEF TimesInv
  <2>2. GrantedTo' = GrantedTo
    BY <1>2, <2>1 DEF GrantedTo
  <2>. QED
    BY <1>1, <1>2, <2>2
<1>3. ASSUME NEW t \in Client, Begin(t) \/ EnterTimedWait(t) PROVE TokensInv'
  <2>1. ASSUME NEW d \in Deadlines, BeginTimedWait(t, d) PROVE TokensInv'
    <3> DEFINE c == [at |-> IF Passed(Remaining(d, now)) THEN "timeout" ELSE "armed",
                     deadline |-> d, read |-> now, begun |-> 0, until |-> Never]
    <3>1. c.at # "granted" /\ call[t].at = "out"
      BY <2>1 DEF BeginTimedWait
    <3>2. call' = [call EXCEPT ![t] = c] /\ UNCHANGED <<count, posts, taken>>
      BY <2>1 DEF BeginTimedWait
    <3> HIDE DEF c
    <3>. QED
      BY <1>2, <3>1, <3>2
  <2>2. ASSUME NEW c, c.at # "granted", call[t].at \in {"out", "armed"},
               call' = [call EXCEPT ![t] = c], UNCHANGED <<count, posts, taken>>
        PROVE  TokensInv'
    BY <1>2, <2>2
  <2>3. CASE BeginTryWait(t)
    <3> DEFINE c == [at |-> IF alive THEN "wait" ELSE "error", deadline |-> now + Ms,
                     read |-> now, begun |-> now, until |-> now + Ms]
    <3>1. c.at # "granted"
      OBVIOUS
    <3>2. call' = [call EXCEPT ![t] = c] /\ UNCHANGED <<count, posts, taken>> /\ call[t].at = "out"
      BY <2>3 DEF BeginTryWait
    <3> HIDE DEF c
    <3>. QED
      BY <2>2, <3>1, <3>2
  <2>4. CASE BeginWait(t)
    <3> DEFINE c == [at |-> IF alive THEN "wait" ELSE "error", deadline |-> 0,
                     read |-> now, begun |-> now, until |-> Never]
    <3>1. c.at # "granted"
      OBVIOUS
    <3>2. call' = [call EXCEPT ![t] = c] /\ UNCHANGED <<count, posts, taken>> /\ call[t].at = "out"
      BY <2>4 DEF BeginWait
    <3> HIDE DEF c
    <3>. QED
      BY <2>2, <3>1, <3>2
  <2>5. CASE EnterTimedWait(t)
    <3> DEFINE c == [at |-> IF alive THEN "wait" ELSE "error",
                     deadline |-> call[t].deadline, read |-> call[t].read, begun |-> now,
                     until |-> now + Us * Timeout(Remaining(call[t].deadline, call[t].read))]
    <3>1. c.at # "granted"
      OBVIOUS
    <3>2. call' = [call EXCEPT ![t] = c] /\ UNCHANGED <<count, posts, taken>> /\ call[t].at = "armed"
      BY <2>5 DEF EnterTimedWait
    <3> HIDE DEF c
    <3>. QED
      BY <2>2, <3>1, <3>2
  <2>. QED
    BY <1>3, <2>1, <2>3, <2>4, <2>5 DEF Begin
<1>4. ASSUME NEW t \in Client, Expire(t) \/ Deleted(t) PROVE TokensInv'
  <2>1. PICK c : /\ call' = [call EXCEPT ![t] = c] /\ c.at # "granted"
                 /\ call[t].at = "wait" /\ UNCHANGED <<count, posts, taken>>
    <3> DEFINE expired == [call[t] EXCEPT !.at = "timeout"]
               gone == [call[t] EXCEPT !.at = "error"]
    <3>1. expired.at = "timeout" /\ gone.at = "error"
      BY DEF TimesInv, CallState
    <3>2. /\ Expire(t) => call' = [call EXCEPT ![t] = expired]
          /\ Deleted(t) => call' = [call EXCEPT ![t] = gone]
      BY DEF Expire, Deleted, Answers
    <3> HIDE DEF expired, gone
    <3>3. call[t].at = "wait" /\ UNCHANGED <<count, posts, taken>>
      BY <1>4 DEF Expire, Deleted, Waiting
    <3>4. CASE Expire(t)
      BY <3>1, <3>2, <3>3, <3>4
    <3>5. CASE Deleted(t)
      BY <3>1, <3>2, <3>3, <3>5
    <3>. QED
      BY <1>4, <3>4, <3>5
  <2>. QED
    BY <1>2, <2>1
<1>5. ASSUME NEW t \in Client, Grant(t) PROVE TokensInv'
  <2>1. /\ call' = [call EXCEPT ![t] = [call[t] EXCEPT !.at = "granted"]] /\ call[t].at = "wait"
        /\ count > 0 /\ count' = count - 1 /\ posts' = posts /\ taken' = taken
    BY <1>5 DEF Grant, Answers, Waiting, Grantable
  <2>2. \A u \in Client : call'[u].at = IF u = t THEN "granted" ELSE call[u].at
    BY <2>1 DEF TimesInv, CallState
  <2>3. GrantedTo' = GrantedTo \cup {t} /\ t \notin GrantedTo
    BY <2>1, <2>2 DEF GrantedTo
  <2>4. IsFiniteSet(GrantedTo') /\ Cardinality(GrantedTo') = Cardinality(GrantedTo) + 1
    BY <1>0, <2>3, FS_AddElement
  <2>. QED
    BY <1>0, <2>1, <2>4 DEF TokensInv
<1>6. ASSUME NEW t \in Client, ReturnAnswer(t) PROVE TokensInv'
  <2>1. /\ call' = [call EXCEPT ![t] = Out] /\ count' = count /\ posts' = posts
        /\ call[t].at \in {"granted", "timeout", "error"}
    BY <1>6 DEF ReturnAnswer
  <2>2. CASE call[t].at = "granted"
    <3>1. taken' = taken + 1
      BY <1>6, <2>2 DEF ReturnAnswer, Result
    <3>2. \A u \in Client : call'[u].at = IF u = t THEN "out" ELSE call[u].at
      BY <2>1 DEF TimesInv, Out
    <3>3. GrantedTo' = GrantedTo \ {t} /\ t \in GrantedTo
      BY <2>2, <3>2 DEF GrantedTo
    <3>4. IsFiniteSet(GrantedTo') /\ Cardinality(GrantedTo') = Cardinality(GrantedTo) - 1
      BY <1>0, <3>3, FS_RemoveElement
    <3>. QED
      BY <1>0, <2>1, <3>1, <3>4 DEF TokensInv
  <2>3. CASE call[t].at # "granted"
    <3>1. taken' = taken
      BY <1>6, <2>1, <2>3 DEF ReturnAnswer, Result
    <3>2. Out.at # "granted"
      BY DEF Out
    <3>. QED
      BY <1>2, <2>1, <2>3, <3>1, <3>2
  <2>. QED
    BY <2>2, <2>3
<1>7. CASE Post
  <2>1. GrantedTo' = GrantedTo /\ taken' = taken
    BY <1>7 DEF Post, GrantedTo
  <2>2. CASE alive
    <3>1. count' = count + 1 /\ posts' = posts + 1 /\ posts < MaxPosts
      BY <1>7, <2>2 DEF Post
    <3>. QED
      BY <1>0, <2>1, <3>1, Bounds DEF TokensInv
  <2>3. CASE ~ alive
    BY <1>1, <1>7, <2>1, <2>3 DEF Post
  <2>. QED
    BY <2>2, <2>3
<1>8. CASE Destroy \/ Tick \/ UNCHANGED semVars
  <2>1. GrantedTo' = GrantedTo /\ UNCHANGED <<count, posts, taken>>
    BY <1>8 DEF Destroy, Tick, semVars, GrantedTo
  <2>. QED
    BY <1>1, <2>1
<1>. QED
  BY <1>3, <1>4, <1>5, <1>6, <1>7, <1>8 DEF SemNext, Kernel

LEMMA NextAlive == AliveInv /\ [SemNext]_semVars => AliveInv'
BY Zenon DEF AliveInv, SemNext, semVars, Begin, Kernel, BeginTimedWait, BeginTryWait, BeginWait,
             EnterTimedWait, Grant, Expire, Deleted, ReturnAnswer, Post, Destroy, Tick

(* The semaphores of pthr.c keep their count, and sem_timedwait its        *)
(* deadline within a microsecond before and a millisecond after, whatever  *)
(* the units, for any deadlines and any number of threads.                 *)
THEOREM SemPromise == SemSpec => []SemInv
<1>1. SemInit => TimesInv /\ TokensInv /\ AliveInv
  BY InitTimes
<1>2. TimesInv /\ TokensInv /\ AliveInv /\ [SemNext]_semVars => TimesInv' /\ TokensInv' /\ AliveInv'
  BY NextTimes, NextTokens, NextAlive
<1>3. TimesInv /\ TokensInv /\ AliveInv => SemInv
  <2>. SUFFICES ASSUME TimesInv, TokensInv, AliveInv PROVE SemInv
    OBVIOUS
  <2>1. SemTypeOK
    BY Zenon DEF TimesInv, TokensInv, AliveInv, SemTypeOK, CallState
  <2>2. TokensConserved
    BY DEF TokensInv, TokensConserved, Granted, GrantedTo
  <2>3. NeverEarly
    BY DEF TimesInv, Timed, NeverEarly
  <2>4. LateByAMillisecondAtMost
    BY DEF TimesInv, Timed, LateByAMillisecondAtMost, Waiting
  <2>. QED
    BY <2>1, <2>2, <2>3, <2>4 DEF SemInv
<1>. QED
  BY <1>1, <1>2, <1>3, PTL DEF SemSpec

-----------------------------------------------------------------------------
(* pthread_cond_t.                                                         *)
Stage == {"start", "locked", "notify", "make", "store", "use", "asleep", "relock", "done"}
Inside == {"locked", "notify", "make", "store", "use"}

CondShape ==
  /\ word \in Native \cup {Null, Raw} /\ memory \subseteq Native
  /\ asleep \in [Native -> SUBSET Waiter]
  /\ lock \in CondThread \cup {NoThread}
  /\ at \in [CondThread -> Stage]
  /\ fresh \in [CondThread -> Native \cup {Null}]

(* A notifier never sleeps, and has put what it puts once it is past that. *)
Past == {t \in Notifier : at[t] \notin {"start", "locked"}}
ItemsPut ==
  /\ items \in Nat /\ items <= Cardinality(Past)
  /\ \A t \in Notifier : at[t] # "relock"

(* Under the mutex from its test to its notification, at most one thread   *)
(* makes the native condition variable, and it makes the only one; a       *)
(* sleeper is on that one.                                                 *)
OneNative ==
  underLock =>
    /\ \A t \in CondThread : at[t] \in Inside => lock = t
    /\ \A t \in CondThread : at[t] \in {"make", "store"} => word = Null
    /\ \A t \in CondThread : at[t] \notin {"start", "done"} => word # Raw
    /\ \/ memory \subseteq {word}
       \/ \E t \in CondThread : at[t] = "store" /\ memory = {fresh[t]}
    /\ \A c \in Native : asleep[c] # {} => word = c
    /\ \A c \in Native : \A t \in asleep[c] : at[t] = "asleep"

CondIInv == CondShape /\ ItemsPut /\ OneNative

LEMMA CondInitIInv == CondInit => CondIInv
<1>. SUFFICES ASSUME CondInit PROVE CondIInv
  OBVIOUS
<1>. USE CondAssumption DEF CondInit
<1>1. CondShape
  BY DEF CondShape, Stage
<1>2. ItemsPut
  <2>1. Past = {}
    BY DEF Past, CondThread
  <2>. QED
    BY <2>1, FS_EmptySet DEF ItemsPut, CondThread
<1>3. OneNative
  BY DEF OneNative, Inside
<1>. QED
  BY <1>1, <1>2, <1>3 DEF CondIInv

LEMMA NextCondShape == CondShape /\ [CondNext]_condVars => CondShape'
<1>. SUFFICES ASSUME CondShape, [CondNext]_condVars PROVE CondShape'
  OBVIOUS
<1>. USE DEF CondShape, Stage
<1>1. CASE InitCond
  BY <1>1 DEF InitCond
<1>2. CASE CondDestroy
  BY <1>2 DEF CondDestroy
<1>3. ASSUME NEW t \in CondThread, Lock(t) PROVE CondShape'
  BY <1>3 DEF Lock, CondGoes
<1>4. ASSUME NEW t \in CondThread, TakeOrWait(t) PROVE CondShape'
  <2>1. at' \in [CondThread -> Stage]
    BY <1>4 DEF TakeOrWait, CondGoes
  <2>. QED
    BY <1>4, <2>1 DEF TakeOrWait
<1>5. ASSUME NEW t \in CondThread, Put(t) PROVE CondShape'
  BY <1>5 DEF Put, CondGoes
<1>6. ASSUME NEW t \in CondThread, BeginSignal(t) PROVE CondShape'
  <2>1. at' \in [CondThread -> Stage]
    BY <1>6 DEF BeginSignal, CondGoes
  <2>. QED
    BY <1>6, <2>1 DEF BeginSignal
<1>7. ASSUME NEW t \in CondThread, Make(t) PROVE CondShape'
  BY <1>7 DEF Make, CondGoes
<1>8. ASSUME NEW t \in CondThread, StoreWord(t) PROVE CondShape'
  BY <1>8 DEF StoreWord, CondGoes
<1>9. ASSUME NEW t \in CondThread, NativeWait(t) PROVE CondShape'
  <2>1. CASE word = Null
    BY <1>9, <2>1 DEF NativeWait, CondGoes
  <2>2. CASE word # Null
    BY <1>9, <2>2 DEF NativeWait, CondGoes
  <2>. QED
    BY <2>1, <2>2
<1>10. ASSUME NEW t \in CondThread, NEW woken, Wakes(t, woken) PROVE CondShape'
  BY <1>10 DEF Wakes
<1>11. ASSUME NEW t \in CondThread, ExpireSleep(t) PROVE CondShape'
  BY <1>11 DEF ExpireSleep, CondGoes
<1>12. CASE UNCHANGED condVars
  BY <1>12 DEF condVars
<1>. QED
  BY <1>1, <1>2, <1>3, <1>4, <1>5, <1>6, <1>7, <1>8, <1>9, <1>10, <1>11, <1>12
  DEF CondNext, CondStep, Notify, NativeSignal, NativeBroadcast

(* Nobody who has put goes back: nothing is taken from Past.               *)
LEMMA NextItemsPut == CondShape /\ ItemsPut /\ [CondNext]_condVars => ItemsPut'
<1>. SUFFICES ASSUME CondShape, ItemsPut, [CondNext]_condVars PROVE ItemsPut'
  OBVIOUS
<1>. USE DEF CondShape, Stage, CondThread
<1>0. IsFiniteSet(Notifier) /\ Waiter \cap Notifier = {}
  BY CondAssumption
<1>1. IsFiniteSet(Past) /\ Cardinality(Past) \in Nat
  <2>1. Past \subseteq Notifier
    BY DEF Past
  <2>. QED
    BY <1>0, <2>1, FS_Subset, FS_CardinalityType
(* A step that puts nothing.                                               *)
<1>2. ASSUME items' \in Nat, items' <= items,
             \A u \in Past : at'[u] \notin {"start", "locked"},
             \A u \in Notifier : at'[u] # "relock"
      PROVE  ItemsPut'
  <2>1. Past \subseteq Past' /\ Past' \subseteq Notifier
    BY <1>2 DEF Past
  <2>2. IsFiniteSet(Past')
    BY <1>0, <2>1, FS_Subset
  <2>3. Cardinality(Past) <= Cardinality(Past') /\ Cardinality(Past') \in Nat
    BY <2>1, <2>2, FS_Subset, FS_CardinalityType
  <2>. QED
    BY <1>1, <1>2, <2>3 DEF ItemsPut
<1>3. CASE InitCond \/ CondDestroy \/ UNCHANGED condVars
  <2>1. UNCHANGED <<items, at>>
    BY <1>3 DEF InitCond, CondDestroy, condVars
  <2>. QED
    BY <1>2, <2>1 DEF ItemsPut, Past
<1>4. ASSUME NEW t \in CondThread, Put(t) PROVE ItemsPut'
  <2>1. /\ t \in Notifier /\ at[t] = "locked" /\ items' = items + 1
        /\ at' = [at EXCEPT ![t] = "notify"]
    BY <1>4 DEF Put, CondGoes
  <2>2. Past' = Past \cup {t} /\ t \notin Past
    BY <2>1 DEF Past
  <2>3. Cardinality(Past') = Cardinality(Past) + 1
    BY <1>1, <2>2, FS_AddElement
  <2>. QED
    BY <1>1, <2>1, <2>3 DEF ItemsPut
<1>5. ASSUME NEW t \in CondThread, Lock(t) PROVE ItemsPut'
  <2>1. at[t] \in {"start", "relock"} /\ at' = [at EXCEPT ![t] = "locked"] /\ items' = items
    BY <1>5 DEF Lock, CondGoes
  <2>. QED
    BY <1>2, <2>1 DEF ItemsPut, Past
<1>6. ASSUME NEW t \in CondThread, TakeOrWait(t) PROVE ItemsPut'
  <2>1. t \in Waiter /\ t \notin Notifier
    BY <1>0, <1>6 DEF TakeOrWait
  <2>2. items' \in Nat /\ items' <= items
    BY <1>6 DEF TakeOrWait, ItemsPut
  <2>3. \A u \in Notifier : at'[u] = at[u]
    BY <1>6, <2>1 DEF TakeOrWait, CondGoes
  <2>. QED
    BY <1>2, <2>2, <2>3 DEF ItemsPut, Past
<1>7. ASSUME NEW t \in CondThread, NEW to \in {"make", "store", "use"},
             at' = [at EXCEPT ![t] = to], items' = items
      PROVE  ItemsPut'
  BY <1>2, <1>7 DEF ItemsPut, Past
<1>8. ASSUME NEW t \in Waiter, NEW to, at' = [at EXCEPT ![t] = to], items' = items
      PROVE  ItemsPut'
  <2>1. \A u \in Notifier : at'[u] = at[u]
    BY <1>0, <1>8
  <2>. QED
    BY <1>2, <1>8, <2>1 DEF ItemsPut, Past
<1>9. ASSUME NEW t \in CondThread, NEW woken \in SUBSET Waiter, Wakes(t, woken)
      PROVE  ItemsPut'
  <2>1. \A u \in Notifier : at'[u] = at[u] \/ at'[u] = "done"
    BY <1>0, <1>9 DEF Wakes
  <2>2. items' = items
    BY <1>9 DEF Wakes
  <2>. QED
    BY <1>2, <2>1, <2>2 DEF ItemsPut, Past
<1>10. ASSUME NEW t \in CondThread, BeginSignal(t) \/ Make(t) \/ StoreWord(t)
       PROVE  ItemsPut'
  <2>1. \E to \in {"make", "store", "use"} : at' = [at EXCEPT ![t] = to]
    BY <1>10 DEF BeginSignal, Make, StoreWord, CondGoes
  <2>. QED
    BY <1>7, <1>10, <2>1 DEF BeginSignal, Make, StoreWord
<1>11. ASSUME NEW t \in CondThread, NativeWait(t) \/ ExpireSleep(t) PROVE ItemsPut'
  <2>1. t \in Waiter /\ items' = items
    BY <1>11 DEF NativeWait, ExpireSleep
  <2>2. \E to : at' = [at EXCEPT ![t] = to]
    BY <1>11 DEF NativeWait, ExpireSleep, CondGoes
  <2>. QED
    BY <1>8, <2>1, <2>2
<1>12. ASSUME NEW t \in CondThread, NativeSignal(t) \/ NativeBroadcast(t) PROVE ItemsPut'
  <2>1. Sleepers \subseteq Waiter
    BY DEF Sleepers
  <2>. QED
    BY <1>9, <1>12, <2>1 DEF NativeSignal, NativeBroadcast
<1>. QED
  BY <1>3, <1>4, <1>5, <1>6, <1>10, <1>11, <1>12 DEF CondNext, CondStep, Notify

LEMMA NextOneNative == CondShape /\ OneNative /\ [CondNext]_condVars => OneNative'
<1>. SUFFICES ASSUME CondShape, OneNative, [CondNext]_condVars PROVE OneNative'
  OBVIOUS
<1>0. underLock' = underLock
  <2>1. ASSUME NEW t \in CondThread, Lock(t) \/ Put(t) \/ Make(t) \/ StoreWord(t)
                                      \/ BeginSignal(t) \/ ExpireSleep(t)
        PROVE  underLock' = underLock
    BY <2>1 DEF Lock, Put, Make, StoreWord, BeginSignal, ExpireSleep
  <2>2. ASSUME NEW t \in CondThread, TakeOrWait(t) \/ NativeWait(t)
        PROVE  underLock' = underLock
    BY <2>2 DEF TakeOrWait, NativeWait
  <2>3. ASSUME NEW t \in CondThread, NativeSignal(t) \/ NativeBroadcast(t)
        PROVE  underLock' = underLock
    BY <2>3 DEF NativeSignal, NativeBroadcast, Wakes
  <2>4. ASSUME InitCond \/ CondDestroy \/ UNCHANGED condVars PROVE underLock' = underLock
    BY <2>4 DEF InitCond, CondDestroy, condVars
  <2>. QED
    BY <2>1, <2>2, <2>3, <2>4 DEF CondNext, CondStep, Notify
<1>. SUFFICES ASSUME underLock PROVE OneNative'
  BY <1>0 DEF OneNative
<1>. USE CondAssumption DEF CondShape, Stage, Inside
<1>1. CASE InitCond
  <2>1. \A t \in CondThread : at[t] \in {"start", "done"}
    BY <1>1 DEF InitCond, OneNative
  <2>2. memory = {} /\ \A c \in Native : asleep[c] = {}
    BY <1>1, <2>1 DEF InitCond, OneNative
  <2>. QED
    BY <1>1, <2>1, <2>2 DEF InitCond, OneNative
<1>2. CASE CondDestroy
  <2>1. memory = {word}
    BY <1>2 DEF CondDestroy, OneNative
  <2>2. \A c \in Native : asleep[c] = {}
    BY <1>2 DEF CondDestroy, OneNative, CondThread
  <2>. QED
    BY <1>2, <2>1, <2>2 DEF CondDestroy, OneNative
<1>3. ASSUME NEW t \in CondThread, Lock(t) PROVE OneNative'
  BY <1>3 DEF Lock, CondGoes, OneNative
<1>4. ASSUME NEW t \in CondThread, TakeOrWait(t) PROVE OneNative'
  <2>0. at[t] = "locked" /\ UNCHANGED <<underLock, word, memory, asleep, fresh>>
    BY <1>4 DEF TakeOrWait
  <2>1. CASE lock' = NoThread /\ at' = [at EXCEPT ![t] = "done"]
    BY <2>0, <2>1 DEF OneNative
  <2>2. CASE lock' = lock /\ at' = [at EXCEPT ![t] = "use"]
    BY <2>0, <2>2 DEF OneNative
  <2>3. CASE lock' = lock /\ word = Null /\ at' = [at EXCEPT ![t] = "make"]
    BY <2>0, <2>3 DEF OneNative
  <2>4. \/ lock' = NoThread /\ at' = [at EXCEPT ![t] = "done"]
        \/ lock' = lock /\ \/ at' = [at EXCEPT ![t] = "use"]
                           \/ word = Null /\ at' = [at EXCEPT ![t] = "make"]
    BY <1>4 DEF TakeOrWait, CondGoes, NeedsInit
  <2>. QED
    BY <2>1, <2>2, <2>3, <2>4
<1>5. ASSUME NEW t \in CondThread, Put(t) PROVE OneNative'
  BY <1>5 DEF Put, CondGoes, OneNative
<1>6. ASSUME NEW t \in CondThread, BeginSignal(t) PROVE OneNative'
  BY <1>6 DEF BeginSignal, CondGoes, OneNative, NeedsInit
<1>7. ASSUME NEW t \in CondThread, Make(t) PROVE OneNative'
  <2>1. memory = {} /\ \A u \in CondThread : at[u] # "store"
    BY <1>7 DEF Make, OneNative
  <2>. QED
    BY <1>7, <2>1 DEF Make, CondGoes, OneNative
<1>8. ASSUME NEW t \in CondThread, StoreWord(t) PROVE OneNative'
  <2>1. \A u \in CondThread : u # t => at[u] \notin Inside
    BY <1>8 DEF StoreWord, OneNative
  <2>2. memory \subseteq {fresh[t]} /\ \A c \in Native : asleep[c] = {}
    BY <1>8, <2>1 DEF StoreWord, OneNative
  <2>. QED
    BY <1>8, <2>1, <2>2 DEF StoreWord, CondGoes, OneNative
<1>9. ASSUME NEW t \in CondThread, NativeWait(t) PROVE OneNative'
  <2>0. t \in Waiter /\ at[t] = "use" /\ UNCHANGED <<underLock, word, memory, fresh>>
    BY <1>9 DEF NativeWait
  <2>1. CASE word = Null
    <3>1. at' = [at EXCEPT ![t] = "locked"] /\ UNCHANGED <<asleep, lock>>
      BY <1>9, <2>1 DEF NativeWait, CondGoes
    <3>. QED
      BY <2>0, <3>1 DEF OneNative
  <2>2. CASE word # Null
    <3>1. /\ at' = [at EXCEPT ![t] = "asleep"] /\ lock' = NoThread
          /\ word \in Native /\ asleep' = [asleep EXCEPT ![word] = @ \cup {t}]
      BY <1>9, <2>0, <2>2 DEF NativeWait, CondGoes, OneNative
    <3>2. \A c \in Native : asleep'[c] = IF c = word THEN asleep[c] \cup {t} ELSE asleep[c]
      BY <3>1
    <3>. QED
      BY <2>0, <3>1, <3>2 DEF OneNative
  <2>. QED
    BY <2>1, <2>2
<1>10. ASSUME NEW t \in CondThread, at[t] \in {"notify", "use"}, NEW woken \in SUBSET Sleepers,
              Wakes(t, woken)
       PROVE  OneNative'
  <2>1. \A u \in woken : u \in CondThread /\ at[u] = "asleep"
    BY DEF Sleepers, OneNative, CondThread
  <2>2. \A u \in CondThread : at'[u] = IF u \in woken THEN "relock"
                                       ELSE IF u = t THEN "done" ELSE at[u]
    BY <1>10 DEF Wakes
  <2>3. \A c \in Native : asleep'[c] \subseteq asleep[c] \ woken
    BY <1>10 DEF Wakes, OneNative, Sleepers
  <2>4. lock = t /\ UNCHANGED <<underLock, word, memory, fresh>>
    BY <1>10 DEF Wakes, OneNative
  <2>. QED
    BY <1>10, <2>1, <2>2, <2>3, <2>4 DEF OneNative, CondThread
<1>11. ASSUME NEW t \in CondThread, ExpireSleep(t) PROVE OneNative'
  <2>1. \A c \in Native : asleep'[c] \subseteq asleep[c] \ {t}
    BY <1>11 DEF ExpireSleep, OneNative
  <2>. QED
    BY <1>11, <2>1 DEF ExpireSleep, CondGoes, OneNative
<1>12. CASE UNCHANGED condVars
  BY <1>12 DEF condVars, OneNative
<1>13. ASSUME NEW t \in CondThread, NativeSignal(t) \/ NativeBroadcast(t) PROVE OneNative'
  BY <1>10, <1>13 DEF NativeSignal, NativeBroadcast
<1>. QED
  BY <1>1, <1>2, <1>3, <1>4, <1>5, <1>6, <1>7, <1>8, <1>9, <1>11, <1>12, <1>13
  DEF CondNext, CondStep, Notify

LEMMA CondIInvImplies == CondIInv => CondInv
<1>. SUFFICES ASSUME CondIInv PROVE CondInv
  OBVIOUS
<1>. USE CondAssumption DEF CondIInv, CondShape
<1>1. underLock => Cardinality(memory) <= 1
  <2>. SUFFICES ASSUME underLock PROVE Cardinality(memory) <= 1
    OBVIOUS
  <2>1. ASSUME NEW c, memory \subseteq {c} PROVE Cardinality(memory) <= 1
    <3>1. memory = {} \/ memory = {c}
      BY <2>1
    <3>2. Cardinality({}) = 0 /\ Cardinality({c}) = 1
      BY FS_EmptySet, FS_Singleton
    <3>3. Cardinality(memory) \in {0, 1}
      BY <3>1, <3>2
    <3>. QED
      BY <3>3
  <2>. QED
    BY <2>1 DEF OneNative
<1>2. items \in 0..Cardinality(Notifier)
  <2>1. Past \subseteq Notifier
    BY DEF Past
  <2>2. Cardinality(Past) <= Cardinality(Notifier) /\ Cardinality(Notifier) \in Nat
        /\ Cardinality(Past) \in Nat
    BY <2>1, FS_Subset, FS_CardinalityType
  <2>. QED
    BY <2>2 DEF ItemsPut
<1>3. CondTypeOK
  BY <1>1, <1>2 DEF CondTypeOK, Stage
<1>4. SleepersReachable
  BY DEF SleepersReachable, OneNative
<1>. QED
  BY <1>3, <1>4 DEF CondInv

(* A notifier that notifies under the mutex reaches whoever sleeps: the    *)
(* lazy initialisation then makes one native condition variable, and the   *)
(* client's word leads to it.                                              *)
THEOREM CondPromise == CondSpec => []CondInv
<1>1. CondIInv /\ [CondNext]_condVars => CondIInv'
  BY NextCondShape, NextItemsPut, NextOneNative DEF CondIInv
<1>. QED
  BY <1>1, CondInitIInv, CondIInvImplies, PTL DEF CondSpec

-----------------------------------------------------------------------------
(* The lock of the logger, src/utils/logger.c.                             *)
InLog == {"format", "print", "unlock"}

LogShape ==
  /\ pc \in [Thread -> {"out", "create", "store", "lock"} \cup InLog]
  /\ sleeps \in [Thread -> Nat] /\ made \in Nat
  /\ inited \in BOOLEAN
  /\ late \subseteq Thread

LEMMA LogInitShape == LogInit => LogShape
<1>. SUFFICES ASSUME LogInit PROVE LogShape
  OBVIOUS
<1>1. pc \in [Thread -> {"out", "create", "store", "lock"} \cup InLog]
  BY DEF LogInit, InLog
<1>2. sleeps \in [Thread -> Nat] /\ made \in Nat
  BY DEF LogInit
<1>3. inited \in BOOLEAN
  BY Zenon DEF LogInit
<1>4. late \subseteq Thread
  BY DEF LogInit
<1>. QED
  BY <1>1, <1>2, <1>3, <1>4, Zenon DEF LogShape

LEMMA LogNextShape == LogShape /\ [LogNext]_logVars => LogShape'
<1>. SUFFICES ASSUME LogShape, [LogNext]_logVars PROVE LogShape'
  OBVIOUS
<1>. USE DEF LogShape, InLog, LogGoes
<1>1. ASSUME NEW t \in Thread, NEW level \in Level, Message(t, level) PROVE LogShape'
  <2>1. late' \subseteq Thread
    BY <1>1 DEF Message
  <2>. QED
    BY <1>1, <2>1 DEF Message
<1>2. ASSUME NEW t \in Thread, Create(t) PROVE LogShape'
  BY <1>2 DEF Create
<1>3. ASSUME NEW t \in Thread, CreateFails(t) PROVE LogShape'
  BY <1>3 DEF CreateFails
<1>4. ASSUME NEW t \in Thread, Store(t) PROVE LogShape'
  BY <1>4 DEF Store
<1>5. ASSUME NEW t \in Thread, Take(t) PROVE LogShape'
  BY <1>5 DEF Take
<1>6. ASSUME NEW t \in Thread, Sleep(t) PROVE LogShape'
  BY <1>6 DEF Sleep
<1>7. ASSUME NEW t \in Thread, Format(t) PROVE LogShape'
  BY <1>7 DEF Format
<1>8. ASSUME NEW t \in Thread, Emit(t) PROVE LogShape'
  BY <1>8 DEF Emit
<1>9. ASSUME NEW t \in Thread, Unlock(t) PROVE LogShape'
  BY <1>9 DEF Unlock
<1>10. CASE UNCHANGED logVars
  BY <1>10 DEF logVars
<1>. QED
  BY <1>1, <1>2, <1>3, <1>4, <1>5, <1>6, <1>7, <1>8, <1>9, <1>10 DEF LogNext, LogStep

(***************************************************************************)
(* Whatever happened while the lock was created, by however many threads:  *)
(* once a message begins when it exists and nobody creates it, nobody ever *)
(* will again, and who is inside with such a message holds the lock.       *)
(***************************************************************************)
LateInv ==
  /\ late # {} => inited /\ Creating = {}
  /\ \A t \in late : pc[t] \in InLog => owner = t

LEMMA InitLate == LogInit => LateInv
BY DEF LogInit, LateInv

LEMMA NextLate == LogShape /\ LateInv /\ [LogNext]_logVars => LateInv'
<1>. SUFFICES ASSUME LogShape, LateInv, [LogNext]_logVars PROVE LateInv'
  OBVIOUS
<1>. USE DEF LateInv
<1>1. ASSUME NEW t \in Thread, NEW level \in Level, Message(t, level) PROVE LateInv'
  <2>1. \A u \in Thread : pc'[u] = IF u = t THEN (IF Creates THEN "create" ELSE "lock") ELSE pc[u]
    BY <1>1 DEF Message, LogGoes, LogShape
  <2>2. late' # {} => inited /\ Creating = {}
    BY <1>1 DEF Message
  <2>3. inited /\ Creating = {} => Creating' = {}
    BY <2>1 DEF Creating, Creates
  <2>4. \A u \in late' : pc'[u] \in InLog => u # t /\ u \in late /\ pc[u] \in InLog
    BY <1>1, <2>1 DEF Message, InLog, LogShape
  <2>. QED
    BY <1>1, <2>2, <2>3, <2>4 DEF Message
<1>2. ASSUME NEW t \in Thread, pc[t] \in {"create", "store"},
             Create(t) \/ CreateFails(t) \/ Store(t)
      PROVE  LateInv'
  <2>1. late = {}
    BY <1>2 DEF Creating
  <2>2. late' = {}
    BY <1>2, <2>1 DEF Create, CreateFails, Store
  <2>. QED
    BY <2>2
(* The rest neither creates nor begins.                                    *)
<1>3. ASSUME NEW t \in Thread, NEW there \in {"lock", "out"} \cup InLog, LogGoes(t, there),
             late' \subseteq late, inited' = inited,
             pc[t] \notin InLog /\ there \in InLog => owner = NoOne /\ owner' = t,
             pc[t] \in InLog /\ there \in InLog => owner' = owner,
             there \notin InLog => (t \notin late' \/ pc[t] \notin InLog)
                                    /\ (owner' = owner \/ owner = t)
      PROVE  LateInv'
  <2>1. \A u \in Thread : pc'[u] = IF u = t THEN there ELSE pc[u]
    BY <1>3 DEF LogGoes, LogShape
  <2>2. Creating = {} => Creating' = {}
    BY <1>3, <2>1 DEF Creating, InLog
  <2>3. ASSUME NEW u \in late', pc'[u] \in InLog PROVE owner' = u
    <3>1. u \in late /\ u \in Thread
      BY <1>3, <2>3 DEF LogShape
    <3>2. CASE u = t
      BY <1>3, <2>1, <2>3, <3>1, <3>2
    <3>3. CASE u # t
      <4>1. owner = u
        BY <2>1, <2>3, <3>1, <3>3
      <4>2. u # NoOne
        BY <3>1, LogAssumption
      <4>. QED
        BY <1>3, <3>3, <4>1, <4>2
    <3>. QED
      BY <3>2, <3>3
  <2>. QED
    BY <1>3, <2>2, <2>3
<1>4. ASSUME NEW t \in Thread, Take(t) PROVE LateInv'
  BY <1>3, <1>4 DEF Take, InLog
<1>5. ASSUME NEW t \in Thread, Sleep(t) PROVE LateInv'
  BY <1>5 DEF Sleep, Creating
<1>6. ASSUME NEW t \in Thread, Format(t) PROVE LateInv'
  BY <1>3, <1>6 DEF Format, InLog
<1>7. ASSUME NEW t \in Thread, Emit(t) PROVE LateInv'
  BY <1>3, <1>7 DEF Emit, InLog
<1>8. ASSUME NEW t \in Thread, Unlock(t) PROVE LateInv'
  <2>1. t \notin late' /\ late' \subseteq late /\ (owner' = owner \/ owner = t)
    BY <1>8 DEF Unlock, Released
  <2>. QED
    BY <1>3, <1>8, <2>1 DEF Unlock, InLog
<1>9. CASE UNCHANGED logVars
  BY <1>9 DEF logVars, Creating
<1>10. ASSUME NEW t \in Thread, Create(t) \/ CreateFails(t) \/ Store(t) PROVE LateInv'
  BY <1>2, <1>10 DEF Create, CreateFails, Store
<1>. QED
  BY <1>1, <1>4, <1>5, <1>6, <1>7, <1>8, <1>9, <1>10 DEF LogNext, LogStep

(* Messages begun when nobody was creating the lock exclude each other     *)
(* (LOG_LOCK), though earlier ones may be inside with them.                *)
THEOREM LateOnesExclude == LogSpec => []LateMessagesExclude
<1>1. LogInit => LogShape /\ LateInv
  BY LogInitShape, InitLate
<1>2. LogShape /\ LateInv /\ [LogNext]_logVars => LogShape' /\ LateInv'
  BY LogNextShape, NextLate
<1>3. LateInv => LateMessagesExclude
  BY DEF LateInv, LateMessagesExclude, InLog
<1>. QED
  BY <1>1, <1>2, <1>3, PTL DEF LogSpec

(***************************************************************************)
(* And as long as nobody came while another was creating, the creator is   *)
(* alone, and every message is like that.                                  *)
(***************************************************************************)
Alone ==
  /\ \A t, u \in Thread : pc[t] \in {"create", "store"} /\ pc[u] # "out" => t = u /\ ~ inited
  /\ ~ inited => \A t \in Thread : pc[t] # "out" => pc[t] \in {"create", "store"}
  /\ \A t \in Thread : pc[t] \in InLog => owner = t
  /\ \A t \in Thread : pc[t] = "print" => buffer = t
AloneInv == ~ met => Alone

LEMMA InitAlone == LogInit => AloneInv
BY DEF LogInit, AloneInv, Alone, InLog

(* Nobody has come while another was creating, up to this step: nobody had *)
(* before it.                                                              *)
LEMMA NextAlone == LogShape /\ AloneInv /\ [LogNext]_logVars => AloneInv'
<1>. SUFFICES ASSUME LogShape, AloneInv, [LogNext]_logVars PROVE AloneInv'
  OBVIOUS
<1>. USE DEF Alone
<1>1. ASSUME NEW t \in Thread, NEW level \in Level, Message(t, level) PROVE AloneInv'
  <2>. SUFFICES ASSUME ~ met' PROVE Alone'
    BY DEF AloneInv
  <2>1. Alone /\ (inited \/ Creating = {})
    BY <1>1, Zenon DEF Message, AloneInv
  <2>2. \A u \in Thread : pc'[u] = IF u = t THEN (IF Creates THEN "create" ELSE "lock") ELSE pc[u]
    BY <1>1 DEF Message, LogGoes, LogShape
  <2>3. \A u \in Thread : ~ inited => pc[u] = "out"
    BY <2>1 DEF Creating
  <2>4. inited => Creating = {}
    BY <2>1 DEF Creating
  <2>. QED
    BY <1>1, <2>1, <2>2, <2>3, <2>4 DEF Message, Creates, Creating, InLog
<1>2. ASSUME NEW t \in Thread, Create(t) PROVE AloneInv'
  <2>. SUFFICES ASSUME ~ met, Alone PROVE Alone'
    BY <1>2, Zenon DEF Create, AloneInv
  <2>1. \A u \in Thread : pc'[u] = IF u = t THEN "store" ELSE pc[u]
    BY <1>2 DEF Create, LogGoes, LogShape
  <2>2. \A u \in Thread : u # t => pc[u] = "out"
    BY <1>2 DEF Create
  <2>3. ~ inited
    BY <1>2 DEF Create
  <2>. QED
    BY <1>2, <2>1, <2>2, <2>3 DEF Create, InLog
<1>3. ASSUME NEW t \in Thread, CreateFails(t) PROVE AloneInv'
  <2>. SUFFICES ASSUME ~ met, Alone PROVE Alone'
    BY <1>3, Zenon DEF CreateFails, AloneInv
  <2>1. \A u \in Thread : pc'[u] = IF u = t THEN "out" ELSE pc[u]
    BY <1>3 DEF CreateFails, LogGoes, LogShape
  <2>. QED
    BY <1>3, <2>1 DEF CreateFails, InLog
<1>4. ASSUME NEW t \in Thread, Store(t) PROVE AloneInv'
  <2>. SUFFICES ASSUME ~ met, Alone PROVE Alone'
    BY <1>4, Zenon DEF Store, AloneInv
  <2>1. \A u \in Thread : pc'[u] = IF u = t THEN "lock" ELSE pc[u]
    BY <1>4 DEF Store, LogGoes, LogShape
  <2>2. \A u \in Thread : u # t => pc[u] = "out"
    BY <1>4 DEF Store
  <2>. QED
    BY <1>4, <2>1, <2>2 DEF Store, InLog
<1>5. ASSUME NEW t \in Thread, Take(t) PROVE AloneInv'
  <2>. SUFFICES ASSUME ~ met, Alone PROVE Alone'
    BY <1>5, Zenon DEF Take, AloneInv
  <2>1. \A u \in Thread : pc'[u] = IF u = t THEN "format" ELSE pc[u]
    BY <1>5 DEF Take, LogGoes, LogShape
  <2>2. \A u \in Thread : pc[u] \notin InLog
    BY <1>5, LogAssumption DEF Take
  <2>3. inited
    BY <1>5 DEF Take
  <2>. QED
    BY <1>5, <2>1, <2>2, <2>3 DEF Take, InLog
<1>6. ASSUME NEW t \in Thread, Sleep(t) PROVE AloneInv'
  BY <1>6 DEF Sleep, AloneInv
<1>7. ASSUME NEW t \in Thread, Format(t) PROVE AloneInv'
  <2>. SUFFICES ASSUME ~ met, Alone PROVE Alone'
    BY <1>7, Zenon DEF Format, AloneInv
  <2>1. \A u \in Thread : pc'[u] = IF u = t THEN "print" ELSE pc[u]
    BY <1>7 DEF Format, LogGoes, LogShape
  <2>2. \A u \in Thread : u # t => pc[u] \notin InLog
    BY <1>7 DEF Format, InLog
  <2>3. inited
    BY <1>7 DEF Format
  <2>. QED
    BY <1>7, <2>1, <2>2, <2>3 DEF Format, InLog
<1>8. ASSUME NEW t \in Thread, Emit(t) PROVE AloneInv'
  <2>. SUFFICES ASSUME ~ met, Alone PROVE Alone'
    BY <1>8, Zenon DEF Emit, AloneInv
  <2>1. \A u \in Thread : pc'[u] = IF u = t THEN "unlock" ELSE pc[u]
    BY <1>8 DEF Emit, LogGoes, LogShape
  <2>2. inited
    BY <1>8 DEF Emit
  <2>. QED
    BY <1>8, <2>1, <2>2 DEF Emit, InLog
<1>9. ASSUME NEW t \in Thread, Unlock(t) PROVE AloneInv'
  <2>. SUFFICES ASSUME ~ met, Alone PROVE Alone'
    BY <1>9, Zenon DEF Unlock, AloneInv
  <2>1. \A u \in Thread : pc'[u] = IF u = t THEN "out" ELSE pc[u]
    BY <1>9 DEF Unlock, LogGoes, LogShape
  <2>2. inited /\ owner = t
    BY <1>9 DEF Unlock, InLog
  <2>. QED
    BY <1>9, <2>1, <2>2 DEF Unlock, InLog
<1>10. CASE UNCHANGED logVars
  BY <1>10 DEF logVars, AloneInv
<1>. QED
  BY <1>1, <1>2, <1>3, <1>4, <1>5, <1>6, <1>7, <1>8, <1>9, <1>10 DEF LogNext, LogStep

(* No message is printed over another's (LOG_LOCK in logger.c), as long as *)
(* no thread logs while another creates the lock.                          *)
THEOREM OwnMessages == LogSpec => []PrintsItsOwn
<1>1. LogInit => LogShape /\ AloneInv
  BY LogInitShape, InitAlone
<1>2. LogShape /\ AloneInv /\ [LogNext]_logVars => LogShape' /\ AloneInv'
  BY LogNextShape, NextAlone
<1>3. AloneInv => PrintsItsOwn
  BY DEF AloneInv, Alone, PrintsItsOwn
<1>. QED
  BY <1>1, <1>2, <1>3, PTL DEF LogSpec

-----------------------------------------------------------------------------
(* Every thread creates at most one lock: those that have are not creating *)
(* any more, and as long as the lock is not there they are about to say    *)
(* so.                                                                     *)
InMacro(where) == {t \in Thread : pc[t] = where}

Counted ==
  /\ made <= Cardinality(Thread \ InMacro("create"))
  /\ ~ inited => made <= Cardinality(InMacro("store"))

Known ==
  /\ owner \in Thread \cup {NoOne} /\ buffer \in Thread \cup {NoOne}
  /\ \A t \in Thread : sleeps[t] \in 0..made
  /\ \A t \in Thread : pc[t] \in {"lock"} \cup InLog => inited

(* Sets of threads are finite, and their sizes are ordered as they are.    *)
LEMMA Sizes ==
  /\ \A S \in SUBSET Thread : IsFiniteSet(S) /\ Cardinality(S) \in Nat
  /\ \A S, T \in SUBSET Thread : S \subseteq T => Cardinality(S) <= Cardinality(T)
  /\ \A S \in SUBSET Thread, t \in Thread : t \notin S => Cardinality(S \cup {t}) = Cardinality(S) + 1
<1>1. \A S \in SUBSET Thread : IsFiniteSet(S)
  BY LogAssumption, FS_Subset
<1>. QED
  BY <1>1, FS_CardinalityType, FS_Subset, FS_AddElement

LEMMA InitKnown == LogInit => Counted /\ Known
<1>. SUFFICES ASSUME LogInit PROVE Counted /\ Known
  OBVIOUS
<1>1. made = 0 /\ \A t \in Thread : pc[t] = "out" /\ sleeps[t] = 0
  BY DEF LogInit
<1>2. Thread \ InMacro("create") \in SUBSET Thread /\ InMacro("store") \in SUBSET Thread
  BY DEF InMacro
<1>3. Cardinality(Thread \ InMacro("create")) \in Nat /\ Cardinality(InMacro("store")) \in Nat
  BY <1>2, Sizes
<1>. QED
  BY <1>1, <1>3 DEF LogInit, Counted, Known, InLog

LEMMA NextKnown == LogShape /\ Known /\ [LogNext]_logVars => Known'
<1>. SUFFICES ASSUME LogShape, Known, [LogNext]_logVars PROVE Known'
  OBVIOUS
<1>. USE DEF Known, LogShape, InLog, LogGoes
<1>1. ASSUME NEW t \in Thread, NEW level \in Level, Message(t, level) PROVE Known'
  BY <1>1 DEF Message, Creates
<1>2. ASSUME NEW t \in Thread, Create(t) PROVE Known'
  BY <1>2 DEF Create
<1>3. ASSUME NEW t \in Thread, CreateFails(t) PROVE Known'
  BY <1>3 DEF CreateFails
<1>4. ASSUME NEW t \in Thread, Store(t) PROVE Known'
  BY <1>4 DEF Store
<1>5. ASSUME NEW t \in Thread, Take(t) PROVE Known'
  BY <1>5 DEF Take
<1>6. ASSUME NEW t \in Thread, Sleep(t) PROVE Known'
  BY <1>6 DEF Sleep
<1>7. ASSUME NEW t \in Thread, Format(t) PROVE Known'
  BY <1>7 DEF Format
<1>8. ASSUME NEW t \in Thread, Emit(t) PROVE Known'
  BY <1>8 DEF Emit
<1>9. ASSUME NEW t \in Thread, Unlock(t) PROVE Known'
  BY <1>9 DEF Unlock, Released
<1>10. CASE UNCHANGED logVars
  BY <1>10 DEF logVars
<1>. QED
  BY <1>1, <1>2, <1>3, <1>4, <1>5, <1>6, <1>7, <1>8, <1>9, <1>10 DEF LogNext, LogStep

LEMMA NextCounted == LogShape /\ Known /\ Counted /\ [LogNext]_logVars => Counted'
<1>. SUFFICES ASSUME LogShape, Known, Counted, [LogNext]_logVars PROVE Counted'
  OBVIOUS
<1>0. /\ InMacro("create") \in SUBSET Thread /\ InMacro("store") \in SUBSET Thread
      /\ InMacro("create")' \in SUBSET Thread /\ InMacro("store")' \in SUBSET Thread
      /\ Thread \ InMacro("create") \in SUBSET Thread /\ (Thread \ InMacro("create"))' \in SUBSET Thread
  BY DEF InMacro
<1>00. /\ made \in Nat
       /\ Cardinality(Thread \ InMacro("create")) \in Nat /\ Cardinality(InMacro("store")) \in Nat
       /\ Cardinality((Thread \ InMacro("create"))') \in Nat /\ Cardinality(InMacro("store")') \in Nat
  BY <1>0, Sizes DEF LogShape
(* No lock is made and no creator gives up: the others' sets only grow.    *)
<1>1. ASSUME made' = made, inited' = inited, InMacro("create")' \subseteq InMacro("create"),
             ~ inited => InMacro("store") \subseteq InMacro("store")'
      PROVE  Counted'
  <2>1. Cardinality(Thread \ InMacro("create")) <= Cardinality((Thread \ InMacro("create"))')
    <3>1. Thread \ InMacro("create") \subseteq (Thread \ InMacro("create"))'
      BY <1>1
    <3>. QED
      BY <1>0, <3>1, Sizes
  <2>2. ~ inited => Cardinality(InMacro("store")) <= Cardinality(InMacro("store")')
    BY <1>0, <1>1, Sizes
  <2>. QED
    BY <1>1, <1>00, <2>1, <2>2 DEF Counted
<1>2. ASSUME NEW t \in Thread, NEW level \in Level, Message(t, level) PROVE Counted'
  <2>1. \A u \in Thread : pc'[u] = IF u = t THEN (IF Creates THEN "create" ELSE "lock") ELSE pc[u]
    BY <1>2 DEF Message, LogGoes, LogShape
  <2>2. pc[t] = "out" /\ made' = made /\ inited' = inited
    BY <1>2 DEF Message
  <2>3. InMacro("store")' = InMacro("store")
    BY <2>1, <2>2 DEF InMacro
  <2>4. CASE inited
    <3>1. InMacro("create")' \subseteq InMacro("create")
      BY <2>1, <2>4 DEF InMacro, Creates
    <3>. QED
      BY <1>1, <2>2, <2>3, <3>1
  <2>5. CASE ~ inited
    <3>1. InMacro("store") \subseteq (Thread \ InMacro("create"))'
      BY <2>1, <2>2 DEF InMacro
    <3>2. Cardinality(InMacro("store")) <= Cardinality((Thread \ InMacro("create"))')
      BY <1>0, <3>1, Sizes
    <3>. QED
      BY <1>00, <2>2, <2>3, <2>5, <3>2 DEF Counted
  <2>. QED
    BY <2>4, <2>5
<1>3. ASSUME NEW t \in Thread, Create(t) PROVE Counted'
  <2>1. \A u \in Thread : pc'[u] = IF u = t THEN "store" ELSE pc[u]
    BY <1>3 DEF Create, LogGoes, LogShape
  <2>2. pc[t] = "create" /\ made' = made + 1 /\ inited' = inited
    BY <1>3 DEF Create
  <2>3. (Thread \ InMacro("create"))' = (Thread \ InMacro("create")) \cup {t} /\ t \notin Thread \ InMacro("create")
    BY <2>1, <2>2 DEF InMacro
  <2>4. InMacro("store")' = InMacro("store") \cup {t} /\ t \notin InMacro("store")
    BY <2>1, <2>2 DEF InMacro
  <2>5. /\ Cardinality((Thread \ InMacro("create"))') = Cardinality(Thread \ InMacro("create")) + 1
        /\ Cardinality(InMacro("store")') = Cardinality(InMacro("store")) + 1
    BY <1>0, <2>3, <2>4, Sizes
  <2>. QED
    BY <1>00, <2>2, <2>5 DEF Counted
<1>4. ASSUME NEW t \in Thread, Store(t) PROVE Counted'
  <2>1. \A u \in Thread : pc'[u] = IF u = t THEN "lock" ELSE pc[u]
    BY <1>4 DEF Store, LogGoes, LogShape
  <2>2. pc[t] = "store" /\ made' = made /\ inited'
    BY <1>4 DEF Store
  <2>3. (Thread \ InMacro("create"))' = Thread \ InMacro("create")
    BY <2>1, <2>2 DEF InMacro
  <2>. QED
    BY <2>2, <2>3 DEF Counted
<1>5. ASSUME NEW t \in Thread, NEW place, LogGoes(t, place), place \notin {"create", "store"},
             pc[t] # "store", made' = made, inited' = inited
      PROVE  Counted'
  <2>1. \A u \in Thread : pc'[u] = IF u = t THEN place ELSE pc[u]
    BY <1>5 DEF LogGoes, LogShape
  <2>2. InMacro("create")' \subseteq InMacro("create") /\ InMacro("store") \subseteq InMacro("store")'
    BY <1>5, <2>1 DEF InMacro
  <2>. QED
    BY <1>1, <1>5, <2>2
<1>6. ASSUME NEW t \in Thread, CreateFails(t) \/ Take(t) \/ Format(t) \/ Emit(t) \/ Unlock(t)
      PROVE  Counted'
  BY <1>5, <1>6 DEF CreateFails, Take, Format, Emit, Unlock
<1>7. ASSUME UNCHANGED <<pc, made, inited>> PROVE Counted'
  BY <1>7, <1>1 DEF InMacro
<1>8. ASSUME NEW t \in Thread, Sleep(t) PROVE Counted'
  BY <1>7, <1>8 DEF Sleep
<1>9. CASE UNCHANGED logVars
  BY <1>7, <1>9 DEF logVars
<1>. QED
  BY <1>2, <1>3, <1>4, <1>6, <1>8, <1>9 DEF LogNext, LogStep

Met == met \in BOOLEAN

(* All that is left of the log's lock when several threads create it at    *)
(* once, and what it is when they do not (LOG_LOCK in logger.c).           *)
THEOREM LogInOrder == LogSpec => []LogInv
<1>1. LogInit => LogShape /\ Known /\ Counted
  BY LogInitShape, InitKnown
<1>2. LogShape /\ Known /\ Counted /\ [LogNext]_logVars => LogShape' /\ Known' /\ Counted'
  BY LogNextShape, NextKnown, NextCounted
<1>3. LogInit => Met
  BY Zenon DEF LogInit, Met
<1>4. Met /\ [LogNext]_logVars => Met'
  <2>. USE DEF Met
  <2>1. ASSUME Met, NEW t \in Thread, NEW level \in Level, Message(t, level) PROVE Met'
    BY <2>1, Zenon DEF Message
  <2>2. ASSUME Met, NEW t \in Thread, LogStep(t) PROVE Met'
    BY <2>2, Zenon DEF LogStep, Create, CreateFails, Store, Take, Sleep, Format, Emit, Unlock
  <2>. QED
    BY <2>1, <2>2, Zenon DEF LogNext, logVars
<1>5. LogShape /\ Known /\ Counted /\ Met => LogTypeOK
  <2>. SUFFICES ASSUME LogShape, Known, Counted, Met PROVE LogTypeOK
    OBVIOUS
  <2>1. Cardinality(Thread \ InMacro("create")) <= Cardinality(Thread) /\ Cardinality(Thread \ InMacro("create")) \in Nat /\ Cardinality(Thread) \in Nat
    BY Sizes
  <2>2. made \in 0..Cardinality(Thread)
    BY <2>1 DEF LogShape, Counted
  <2>. QED
    BY <2>2, Zenon DEF LogTypeOK, LogShape, Known, Met, InLog
<1>6. LogTypeOK /\ PrintsItsOwn /\ LateMessagesExclude => LogInv
  BY DEF LogInv
<1>. QED
  BY <1>1, <1>2, <1>3, <1>4, <1>5, <1>6, LateOnesExclude, OwnMessages, PTL DEF LogSpec
=============================================================================
