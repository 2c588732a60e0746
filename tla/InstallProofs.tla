--------------------------- MODULE InstallProofs ----------------------------
(***************************************************************************)
(* TLAPS proofs about Install, for every set of files and every row of     *)
(* skins: the script is known by its places, not by running through it.    *)
(***************************************************************************)
EXTENDS Install, SequenceTheorems, TLAPS

(* The groups of variables are read as the variables everywhere.           *)
USE DEF storage, launch, choice

(***************************************************************************)
(* The places of the script.                                               *)
(***************************************************************************)
LEMMA FourOf ==
  ASSUME NEW E, NEW a \in E, NEW b \in E, NEW c \in E, NEW d \in E,
         NEW s, s = <<a, b, c, d>>
  PROVE  s \in Seq(E) /\ Len(s) = 4 /\ s[1] = a /\ s[2] = b /\ s[3] = c /\ s[4] = d
OBVIOUS

LEMMA FiveOf ==
  ASSUME NEW E, NEW a \in E, NEW b \in E, NEW c \in E, NEW d \in E, NEW e \in E,
         NEW s, s = <<a, b, c, d, e>>
  PROVE  /\ s \in Seq(E) /\ Len(s) = 5
         /\ s[1] = a /\ s[2] = b /\ s[3] = c /\ s[4] = d /\ s[5] = e
OBVIOUS

(* Three sequences one after the other, of four, of any number and of five *)
(* elements: what is where.                                                *)
InARow(p, q, r) == (p \o q) \o r

LaidOut(E, p, q, r, t) ==
  /\ t \in Seq(E) /\ Len(t) = Len(q) + 9
  /\ \A i \in 1 .. 4 : t[i] = p[i]
  /\ \A i \in 1 .. Len(q) : t[i + 4] = q[i]
  /\ \A i \in 1 .. 5 : t[Len(q) + 4 + i] = r[i]

LEMMA Row ==
  ASSUME NEW E, NEW p \in Seq(E), NEW q \in Seq(E), NEW r \in Seq(E),
         Len(p) = 4, Len(r) = 5
  PROVE  LaidOut(E, p, q, r, InARow(p, q, r))
<1>. DEFINE n == Len(q)
            front == p \o q
            t == InARow(p, q, r)
<1>12. t = front \o r
  BY DEF InARow
<1>. HIDE DEF t
<1>1. n \in Nat
  BY LenProperties
<1>2. /\ front \in Seq(E) /\ Len(front) = Len(p) + Len(q)
      /\ \A i \in 1 .. Len(p) + Len(q) : front[i] = IF i <= Len(p) THEN p[i] ELSE q[i - Len(p)]
  BY ConcatProperties, Zenon
<1>3. front \in Seq(E)
  BY <1>2
<1>. HIDE DEF front
<1>. DEFINE u == front \o r
<1>13. /\ u \in Seq(E) /\ Len(u) = Len(front) + Len(r)
       /\ \A i \in 1 .. Len(front) + Len(r) :
            u[i] = IF i <= Len(front) THEN front[i] ELSE r[i - Len(front)]
  BY <1>3, ConcatProperties, Zenon
<1>14. t = u
  BY <1>12
<1>. HIDE DEF u
<1>4. /\ t \in Seq(E) /\ Len(t) = Len(front) + Len(r)
      /\ \A i \in 1 .. Len(front) + Len(r) :
           t[i] = IF i <= Len(front) THEN front[i] ELSE r[i - Len(front)]
  BY <1>13, <1>14
<1>10. \A i \in 1 .. 4 + n : front[i] = IF i <= 4 THEN p[i] ELSE q[i - 4]
  BY <1>1, <1>2
<1>5. \A i \in 1 .. (4 + n) + 5 : t[i] = IF i <= 4 + n THEN front[i] ELSE r[i - (4 + n)]
  BY <1>1, <1>2, <1>4
<1>11. Len(front) = 4 + n
  BY <1>2
<1>. HIDE DEF n
<1>6. Len(t) = n + 9
  <2>1. Len(t) = (4 + n) + 5
    BY <1>4, <1>11
  <2>. QED
    BY <1>1, <2>1
<1>7. \A i \in 1 .. 4 : t[i] = p[i]
  <2>. TAKE i \in 1 .. 4
  <2>1. i \in 1 .. 4 + n /\ i <= 4 /\ i \in 1 .. (4 + n) + 5 /\ i <= 4 + n
    BY <1>1
  <2>. QED
    BY <1>10, <1>5, <2>1
<1>8. \A i \in 1 .. n : t[i + 4] = q[i]
  <2>. TAKE i \in 1 .. n
  <2>1. i + 4 \in 1 .. 4 + n /\ ~(i + 4 <= 4) /\ (i + 4) - 4 = i /\ i + 4 \in 1 .. (4 + n) + 5 /\ i + 4 <= 4 + n
    BY <1>1
  <2>. QED
    BY <1>10, <1>5, <2>1
<1>9. \A i \in 1 .. 5 : t[n + 4 + i] = r[i]
  <2>. TAKE i \in 1 .. 5
  <2>1. /\ n + 4 + i \in 1 .. (4 + n) + 5 /\ ~(n + 4 + i <= 4 + n)
        /\ (n + 4 + i) - (4 + n) = i
    BY <1>1
  <2>. QED
    BY <1>5, <2>1
<1>. QED
  BY <1>4, <1>6, <1>7, <1>8, <1>9 DEF n, t, LaidOut

N == Len(Skins)

LEMMA SkinCount ==
  N \in Nat /\ Skins \in Seq(STRING) /\ DOMAIN Skins = 1 .. N
  /\ \A k \in 1 .. N : Skins[k] \in Range(Skins)
<1>1. Skins \in Seq(STRING)
  BY InstallAssumption
<1>2. N \in Nat /\ DOMAIN Skins = 1 .. N
  BY <1>1, LenProperties DEF N
<1>. QED
  BY <1>1, <1>2 DEF Range

Steps ==
  {"install", "config", "remove", "startup"} \X
  ({"demo", "presets", "songs", "welcome", "fill", "default", "pending", "Darker",
    "before_newskin"} \cup Range(Skins))

LEMMA SkinPlaces ==
  /\ SkinScript \in Seq(Steps) /\ Len(SkinScript) = 2 * N
  /\ \A i \in 1 .. 2 * N :
       SkinScript[i] = <<IF i % 2 = 1 THEN "install" ELSE "remove", Skins[(i + 1) \div 2]>>
  /\ \A i \in 1 .. 2 * N : (i + 1) \div 2 \in 1 .. N
<1>. DEFINE at(i) == <<IF i % 2 = 1 THEN "install" ELSE "remove", Skins[(i + 1) \div 2]>>
<1>1. \A i \in 1 .. 2 * N : (i + 1) \div 2 \in 1 .. N
  BY SkinCount
<1>2. SkinScript = [i \in 1 .. 2 * N |-> at(i)]
  BY DEF SkinScript, N
<1>3. \A i \in 1 .. 2 * N : at(i) \in Steps
  <2>. TAKE i \in 1 .. 2 * N
  <2>1. Skins[(i + 1) \div 2] \in Range(Skins)
    BY <1>1, SkinCount
  <2>. DEFINE w == IF i % 2 = 1 THEN "install" ELSE "remove"
  <2>2. w \in {"install", "config", "remove", "startup"}
    OBVIOUS
  <2>. HIDE DEF w
  <2>3. <<w, Skins[(i + 1) \div 2]>> \in Steps
    BY <2>1, <2>2 DEF Steps
  <2>. QED
    BY <2>3, Zenon DEF w
<1>. HIDE DEF at
<1>4. 2 * N \in Nat
  BY SkinCount
<1>5. SkinScript \in [1 .. 2 * N -> Steps]
  BY <1>2, <1>3
<1>6. SkinScript \in Seq(Steps)
  BY <1>4, <1>5
<1>7. DOMAIN SkinScript = 1 .. 2 * N
  BY <1>2
<1>8. Len(SkinScript) = 2 * N
  BY <1>4, <1>6, <1>7, LenProperties
<1>9. \A i \in 1 .. 2 * N : SkinScript[i] = at(i)
  BY <1>2
<1>. QED
  BY <1>1, <1>6, <1>8, <1>9 DEF at

(* The script at each place: four steps, two for every skin, five more.    *)
LEMMA Places ==
  /\ Script \in Seq(Steps) /\ Len(Script) = 2 * N + 9
  /\ Script[1] = <<"install", "demo">> /\ Script[2] = <<"config", "fill">>
  /\ Script[3] = <<"remove", "Darker">> /\ Script[4] = <<"remove", "before_newskin">>
  /\ \A i \in 1 .. 2 * N : Script[i + 4] = SkinScript[i]
  /\ Script[2 * N + 5] = <<"install", "presets">> /\ Script[2 * N + 6] = <<"install", "songs">>
  /\ Script[2 * N + 7] = <<"startup", "pending">> /\ Script[2 * N + 8] = <<"config", "default">>
  /\ Script[2 * N + 9] = <<"install", "welcome">>
<1>. DEFINE a1 == <<"install", "demo">>
            a2 == <<"config", "fill">>
            a3 == <<"remove", "Darker">>
            a4 == <<"remove", "before_newskin">>
            z1 == <<"install", "presets">>
            z2 == <<"install", "songs">>
            z3 == <<"startup", "pending">>
            z4 == <<"config", "default">>
            z5 == <<"install", "welcome">>
<1>1. a1 \in Steps /\ a2 \in Steps /\ a3 \in Steps /\ a4 \in Steps
  BY DEF Steps
<1>2. z1 \in Steps /\ z2 \in Steps /\ z3 \in Steps /\ z4 \in Steps /\ z5 \in Steps
  BY DEF Steps
<1>3. Script = (<<a1, a2, a3, a4>> \o SkinScript) \o <<z1, z2, z3, z4, z5>>
  BY DEF Script
<1>. HIDE DEF a1, a2, a3, a4, z1, z2, z3, z4, z5
<1>. DEFINE p == <<a1, a2, a3, a4>>
            r == <<z1, z2, z3, z4, z5>>
<1>6. Script = (p \o SkinScript) \o r
  BY <1>3
<1>11. p = <<a1, a2, a3, a4>> /\ r = <<z1, z2, z3, z4, z5>>
  OBVIOUS
<1>. HIDE DEF p, r
<1>4. p \in Seq(Steps) /\ Len(p) = 4 /\ p[1] = a1 /\ p[2] = a2 /\ p[3] = a3 /\ p[4] = a4
  BY <1>1, <1>11, FourOf
<1>5. /\ r \in Seq(Steps) /\ Len(r) = 5
      /\ r[1] = z1 /\ r[2] = z2 /\ r[3] = z3 /\ r[4] = z4 /\ r[5] = z5
  BY <1>2, <1>11, FiveOf
<1>7. /\ Script \in Seq(Steps) /\ Len(Script) = 2 * N + 9
      /\ \A i \in 1 .. 4 : Script[i] = p[i]
      /\ \A i \in 1 .. 2 * N : Script[i + 4] = SkinScript[i]
      /\ \A i \in 1 .. 5 : Script[2 * N + 4 + i] = r[i]
  <2>1. /\ p \in Seq(Steps) /\ SkinScript \in Seq(Steps) /\ r \in Seq(Steps)
        /\ Len(p) = 4 /\ Len(r) = 5
    BY <1>4, <1>5, SkinPlaces
  <2>2. /\ Script \in Seq(Steps) /\ Len(Script) = Len(SkinScript) + 9
        /\ \A i \in 1 .. 4 : Script[i] = p[i]
        /\ \A i \in 1 .. Len(SkinScript) : Script[i + 4] = SkinScript[i]
        /\ \A i \in 1 .. 5 : Script[Len(SkinScript) + 4 + i] = r[i]
    <3>1. Script = InARow(p, SkinScript, r)
      BY <1>6 DEF InARow
    <3>2. LaidOut(Steps, p, SkinScript, r, InARow(p, SkinScript, r))
      BY <2>1, Row, Zenon
    <3>. QED
      BY <3>1, <3>2, Zenon DEF LaidOut
  <2>3. Len(SkinScript) = 2 * N
    BY SkinPlaces
  <2>. QED
    BY <2>2, <2>3, Zenon
<1>8. /\ Script[1] = a1 /\ Script[2] = a2 /\ Script[3] = a3 /\ Script[4] = a4
  BY <1>4, <1>7
<1>9. /\ 2 * N + 4 + 1 = 2 * N + 5 /\ 2 * N + 4 + 2 = 2 * N + 6 /\ 2 * N + 4 + 3 = 2 * N + 7
      /\ 2 * N + 4 + 4 = 2 * N + 8 /\ 2 * N + 4 + 5 = 2 * N + 9
  BY SkinCount
<1>10. /\ Script[2 * N + 5] = z1 /\ Script[2 * N + 6] = z2 /\ Script[2 * N + 7] = z3
       /\ Script[2 * N + 8] = z4 /\ Script[2 * N + 9] = z5
  BY <1>5, <1>7, <1>9
<1>. QED
  BY <1>7, <1>8, <1>10, Zenon DEF a1, a2, a3, a4, z1, z2, z3, z4, z5

(* What the step at each place does, and on what.                          *)
Place(i, do, on) == Script[i][1] = do /\ Script[i][2] = on

LEMMA SkinStep ==
  ASSUME NEW j \in 1 .. 2 * N
  PROVE  \E k \in 1 .. N :
           \/ j = 2 * k - 1 /\ Place(j + 4, "install", Skins[k])
           \/ j = 2 * k /\ Place(j + 4, "remove", Skins[k])
<1>. DEFINE k == (j + 1) \div 2
<1>1. k \in 1 .. N /\ (j % 2 = 1 \/ j % 2 = 0)
  BY SkinCount
<1>2. Script[j + 4] = <<IF j % 2 = 1 THEN "install" ELSE "remove", Skins[k]>>
  BY Places, SkinPlaces
<1>3. CASE j % 2 = 1
  <2>1. j = 2 * k - 1
    BY <1>3, SkinCount
  <2>2. Script[j + 4] = <<"install", Skins[k]>>
    BY <1>2, <1>3
  <2>. HIDE DEF k
  <2>3. Place(j + 4, "install", Skins[k])
    BY <2>2 DEF Place
  <2>. QED
    BY <1>1, <2>1, <2>3
<1>4. CASE j % 2 = 0
  <2>1. j = 2 * k
    BY <1>4, SkinCount
  <2>2. Script[j + 4] = <<"remove", Skins[k]>>
    BY <1>2, <1>4
  <2>. HIDE DEF k
  <2>3. Place(j + 4, "remove", Skins[k])
    BY <2>2 DEF Place
  <2>. QED
    BY <1>1, <2>1, <2>3
<1>. QED
  BY <1>1, <1>3, <1>4

LEMMA FixedPlaces ==
  /\ Place(1, "install", "demo") /\ Place(2, "config", "fill")
  /\ Place(3, "remove", "Darker") /\ Place(4, "remove", "before_newskin")
  /\ Place(2 * N + 5, "install", "presets") /\ Place(2 * N + 6, "install", "songs")
  /\ Place(2 * N + 7, "startup", "pending") /\ Place(2 * N + 8, "config", "default")
  /\ Place(2 * N + 9, "install", "welcome")
BY Places DEF Place

LEMMA EveryPlace ==
  ASSUME NEW i \in 1 .. Len(Script)
  PROVE  \/ i = 1 \/ i = 2 \/ i = 3 \/ i = 4
         \/ \E k \in 1 .. N : \/ i = 2 * k + 3 /\ Place(i, "install", Skins[k])
                              \/ i = 2 * k + 4 /\ Place(i, "remove", Skins[k])
         \/ i = 2 * N + 5 \/ i = 2 * N + 6 \/ i = 2 * N + 7 \/ i = 2 * N + 8
         \/ i = 2 * N + 9
<1>1. i \in 1 .. 2 * N + 9 /\ N \in Nat
  BY Places, SkinCount
<1>2. CASE i \in 5 .. 2 * N + 4
  <2>. DEFINE j == i - 4
  <2>1. j \in 1 .. 2 * N /\ j + 4 = i
    BY <1>1, <1>2
  <2>. HIDE DEF j
  <2>2. PICK k \in 1 .. N : \/ j = 2 * k - 1 /\ Place(j + 4, "install", Skins[k])
                            \/ j = 2 * k /\ Place(j + 4, "remove", Skins[k])
    BY <2>1, SkinStep
  <2>3. (j = 2 * k - 1 => i = 2 * k + 3) /\ (j = 2 * k => i = 2 * k + 4)
    BY <1>1, <2>1
  <2>. QED
    BY <2>1, <2>2, <2>3
<1>3. CASE i \notin 5 .. 2 * N + 4
  BY <1>1, <1>3
<1>. QED
  BY <1>2, <1>3

LEMMA SkinHasPlaces ==
  ASSUME NEW k \in 1 .. N
  PROVE  /\ 2 * k + 3 \in 1 .. Len(Script) /\ Place(2 * k + 3, "install", Skins[k])
         /\ 2 * k + 4 \in 1 .. Len(Script) /\ Place(2 * k + 4, "remove", Skins[k])
<1>1. N \in Nat /\ Len(Script) = 2 * N + 9
  BY Places, SkinCount
<1>2. 2 * k - 1 \in 1 .. 2 * N /\ 2 * k \in 1 .. 2 * N
  BY <1>1
<1>3. (2 * k - 1) % 2 = 1 /\ (2 * k) % 2 = 0 /\ ((2 * k - 1) + 1) \div 2 = k /\ (2 * k + 1) \div 2 = k
  BY <1>1
<1>4. /\ SkinScript[2 * k - 1] = <<"install", Skins[k]>>
      /\ SkinScript[2 * k] = <<"remove", Skins[k]>>
  <2>. DEFINE i == 2 * k - 1
              j == 2 * k
  <2>1. i % 2 = 1 /\ j % 2 = 0 /\ (i + 1) \div 2 = k /\ (j + 1) \div 2 = k
    BY <1>3
  <2>2. i \in 1 .. 2 * N /\ j \in 1 .. 2 * N
    BY <1>2
  <2>. HIDE DEF i, j
  <2>3. SkinScript[i] = <<"install", Skins[k]>> /\ SkinScript[j] = <<"remove", Skins[k]>>
    BY <2>1, <2>2, SkinPlaces
  <2>. QED
    BY <2>3 DEF i, j
<1>5. (2 * k - 1) + 4 = 2 * k + 3
  OBVIOUS
<1>6. /\ Script[2 * k + 3] = <<"install", Skins[k]>>
      /\ Script[2 * k + 4] = <<"remove", Skins[k]>>
  BY <1>2, <1>4, <1>5, Places
<1>7. Place(2 * k + 3, "install", Skins[k]) /\ Place(2 * k + 4, "remove", Skins[k])
  BY <1>6 DEF Place
<1>. QED
  BY <1>1, <1>7

LEMMA Installs ==
  ASSUME NEW i \in 1 .. Len(Script), Script[i][1] = "install"
  PROVE  \/ i = 1 /\ Script[i][2] = "demo"
         \/ \E k \in 1 .. N : i = 2 * k + 3 /\ Script[i][2] = Skins[k]
         \/ i = 2 * N + 5 /\ Script[i][2] = "presets"
         \/ i = 2 * N + 6 /\ Script[i][2] = "songs"
         \/ i = 2 * N + 9 /\ Script[i][2] = "welcome"
BY EveryPlace, FixedPlaces DEF Place

LEMMA Configs ==
  ASSUME NEW i \in 1 .. Len(Script), Script[i][1] = "config"
  PROVE  \/ i = 2 /\ Script[i][2] = "fill"
         \/ i = 2 * N + 8 /\ Script[i][2] = "default"
BY EveryPlace, FixedPlaces DEF Place

LEMMA Removes ==
  ASSUME NEW i \in 1 .. Len(Script), Script[i][1] = "remove"
  PROVE  \/ i = 3 /\ Script[i][2] = "Darker"
         \/ i = 4 /\ Script[i][2] = "before_newskin"
         \/ \E k \in 1 .. N : i = 2 * k + 4 /\ Script[i][2] = Skins[k]
BY EveryPlace, FixedPlaces DEF Place

LEMMA Startups ==
  ASSUME NEW i \in 1 .. Len(Script), Script[i][1] = "startup"
  PROVE  i = 2 * N + 7
BY EveryPlace, FixedPlaces DEF Place

(***************************************************************************)
(* What a step has in hand: a file open for writing is of the package      *)
(* being installed, the files it has dealt with are of that package or are *)
(* those it is to remove; the configuration is open only in a step that    *)
(* rewrites it.                                                            *)
(***************************************************************************)
InHand ==
  /\ writing = CONFIG => At("config") /\ ~ Skipped
  /\ writing \in File => Installing /\ writing \in Pack[Subject]
  /\ visited # {} => \/ Installing /\ visited \subseteq Pack[Subject]
                     \/ At("remove") /\ visited \subseteq Stripped[Subject]

WorkInv == TypeOK /\ InHand

LEMMA ScriptLength == Len(Script) \in Nat /\ Len(Script) = 2 * N + 9 /\ N \in Nat
BY Places, SkinCount

LEMMA InScript == ASSUME TypeOK, ~ Running PROVE step \in 1 .. Len(Script)
BY ScriptLength DEF TypeOK, Running

LEMMA SubjectKind ==
  ASSUME TypeOK
  PROVE  /\ At("install") => Subject \in Package
         /\ At("config") => Subject \in {"fill", "default"}
         /\ At("remove") => Subject \in Removal
<1>1. ASSUME At("install") PROVE Subject \in Package
  <2>1. step \in 1 .. Len(Script) /\ Script[step][1] = "install"
    BY <1>1, InScript DEF At
  <2>. QED
    BY <2>1, Installs, SkinCount DEF Subject, Package
<1>2. ASSUME At("config") PROVE Subject \in {"fill", "default"}
  <2>1. step \in 1 .. Len(Script) /\ Script[step][1] = "config"
    BY <1>2, InScript DEF At
  <2>. QED
    BY <2>1, Configs DEF Subject
<1>3. ASSUME At("remove") PROVE Subject \in Removal
  <2>1. step \in 1 .. Len(Script) /\ Script[step][1] = "remove"
    BY <1>3, InScript DEF At
  <2>. QED
    BY <2>1, Removes, SkinCount DEF Subject, Removal
<1>. QED
  BY <1>1, <1>2, <1>3

LEMMA NothingOpen == Nothing \notin File /\ CONFIG \notin File /\ Nothing # CONFIG
BY InstallAssumption DEF Nothing, CONFIG

LEMMA LineAdded ==
  ASSUME NEW lines \in SUBSET Line, NEW line \in Line
  PROVE  WithLine(lines, line) \in SUBSET Line
BY DEF WithLine

LEMMA InitWork == Init => WorkInv
<1>. SUFFICES ASSUME Init PROVE WorkInv
  OBVIOUS
<1>1. TypeOK
  <2>1. disk \in [File -> Content]
    BY DEF Init, Content
  <2>2. step \in 1 .. Len(Script) + 1
    BY ScriptLength DEF Init
  <2>. QED
    BY <2>1, <2>2 DEF Init, TypeOK
<1>2. InHand
  BY NothingOpen DEF Init, InHand
<1>. QED
  BY <1>1, <1>2 DEF WorkInv

(* Moving on leaves nothing in hand.                                       *)
LEMMA MovedOn ==
  ASSUME TypeOK, ~ Running, NextStep
  PROVE  step' \in 1 .. Len(Script) + 1 /\ InHand' /\ visited' \in SUBSET File
         /\ writing' \in File \cup {Nothing, CONFIG} /\ output' \in SUBSET Line
<1>1. step' \in 1 .. Len(Script) + 1
  BY InScript, ScriptLength DEF NextStep
<1>. QED
  BY <1>1, NothingOpen DEF NextStep, InHand

LEMMA NextWork == WorkInv /\ [Next]_vars => WorkInv'
<1>. SUFFICES ASSUME WorkInv, [Next]_vars PROVE WorkInv'
  OBVIOUS
<1>. USE DEF WorkInv
<1>1. CASE SkipStep
  <2>1. ~ Running
    BY <1>1 DEF SkipStep, At
  <2>. QED
    BY <1>1, <2>1, MovedOn DEF SkipStep, TypeOK
<1>2. CASE KeepFile
  <2>1. PICK f \in Pack[Subject] \ visited : visited' = visited \cup {f}
    BY <1>2 DEF KeepFile
  <2>2. Subject \in Package
    BY <1>2, SubjectKind DEF KeepFile, Installing
  <2>3. visited' \subseteq Pack[Subject] /\ visited' \in SUBSET File
    BY <1>2, <2>1, <2>2, InstallAssumption DEF KeepFile, Installing, At, InHand, TypeOK
  <2>4. TypeOK'
    BY <1>2, <2>3 DEF KeepFile, TypeOK
  <2>5. InHand'
    BY <1>2, <2>3, NothingOpen DEF KeepFile, InHand, Installing, At, Running, Subject, Skipped, Welcoming
  <2>. QED
    BY <2>4, <2>5
<1>3. CASE OpenFile
  <2>1. PICK f \in Pack[Subject] \ visited :
          disk' = [disk EXCEPT ![f] = "part"] /\ writing' = f
    BY <1>3 DEF OpenFile
  <2>2. Subject \in Package
    BY <1>3, SubjectKind DEF OpenFile, Installing
  <2>3. f \in File
    BY <2>1, <2>2, InstallAssumption
  <2>4. disk' \in [File -> Content]
    BY <2>1, <2>3 DEF TypeOK, Content
  <2>5. TypeOK'
    BY <1>3, <2>1, <2>3, <2>4 DEF OpenFile, TypeOK
  <2>6. InHand'
    BY <1>3, <2>1, <2>3, NothingOpen DEF OpenFile, InHand, Installing, At, Running, Subject, Skipped, Welcoming
  <2>. QED
    BY <2>5, <2>6
<1>4. CASE FinishFile
  <2>1. disk' \in [File -> Content]
    BY <1>4 DEF FinishFile, TypeOK, Content
  <2>2. TypeOK'
    BY <1>4, <2>1 DEF FinishFile, TypeOK
  <2>3. InHand'
    BY <1>4, NothingOpen DEF FinishFile, InHand, Installing, At, Running, Subject, Skipped, Welcoming
  <2>. QED
    BY <2>2, <2>3
<1>5. CASE InstallFails
  <2>1. ~ Running
    BY <1>5 DEF InstallFails, Installing, At
  <2>. QED
    BY <1>5, <2>1, MovedOn DEF InstallFails, Fails, TypeOK
<1>6. CASE WriteMarker
  <2>1. ~ Running /\ Subject \in Package
    BY <1>6, SubjectKind DEF WriteMarker, Installing, At
  <2>2. failed' \in BOOLEAN
    BY <1>6 DEF WriteMarker, Fails, TypeOK
  <2>3. UNCHANGED <<startup_demo_pending, stuck, newskin_pending>>
    BY <1>6 DEF WriteMarker, Fails
  <2>. QED
    BY <1>6, <2>1, <2>2, <2>3, MovedOn DEF WriteMarker, TypeOK
<1>7. ASSUME RemoveFile \/ RemoveFails PROVE WorkInv'
  <2>1. At("remove") /\ UNCHANGED <<step, writing, startup_demo_pending, markers>>
    BY <1>7 DEF RemoveFile, RemoveFails
  <2>2. PICK f \in Stripped[Subject] \ visited : visited' = visited \cup {f}
    BY <1>7 DEF RemoveFile, RemoveFails
  <2>3. Stripped[Subject] \subseteq File
    BY <2>1, SubjectKind, InstallAssumption
  <2>4. disk' \in [File -> Content]
    BY <1>7 DEF RemoveFile, RemoveFails, TypeOK, Content
  <2>5. stuck' \in SUBSET File
    BY <1>7, <2>3 DEF RemoveFile, RemoveFails, TypeOK
  <2>6. TypeOK'
    BY <1>7, <2>2, <2>3, <2>4, <2>5 DEF RemoveFile, RemoveFails, TypeOK
  <2>7. visited' \subseteq Stripped[Subject]
    BY <2>1, <2>2 DEF InHand, Installing, At
  <2>8. InHand'
    BY <2>1, <2>7, NothingOpen DEF InHand, Installing, At, Running, Subject, Skipped, Welcoming
  <2>. QED
    BY <2>6, <2>8
<1>16. CASE EndRemoval
  <2>1. ~ Running
    BY <1>16 DEF EndRemoval, At
  <2>. QED
    BY <1>16, <2>1, MovedOn DEF EndRemoval, TypeOK
<1>8. CASE OpenConfig
  <2>4. Subject \in {"fill", "default"}
    BY <1>8, SubjectKind DEF OpenConfig
  <2>5. WithLine(config, Subject) \in SUBSET Line /\ {Subject} \in SUBSET Line
    BY <2>4, LineAdded DEF TypeOK, Line, Skin
  <2>6. output' \in SUBSET Line /\ damaged' \in BOOLEAN
    BY <1>8, <2>5 DEF OpenConfig, TypeOK
  <2>1. TypeOK'
    BY <1>8, <2>6 DEF OpenConfig, TypeOK
  <2>2. ~ Installing /\ visited = {}
    BY <1>8 DEF OpenConfig, InHand, Installing, At
  <2>3. InHand'
    BY <1>8, <2>2, NothingOpen DEF OpenConfig, InHand, At, Running, Subject, Skipped, Welcoming
  <2>. QED
    BY <2>1, <2>3
<1>9. CASE FinishConfig
  <2>1. ~ Running
    BY <1>9 DEF FinishConfig, At
  <2>2. config' \in SUBSET Line
    BY <1>9 DEF FinishConfig, TypeOK
  <2>. QED
    BY <1>9, <2>1, <2>2, MovedOn DEF FinishConfig, TypeOK
<1>10. CASE ConfigFails
  <2>1. ~ Running
    BY <1>10 DEF ConfigFails, At
  <2>3. config' \in SUBSET Line /\ damaged' \in BOOLEAN
    BY <1>10 DEF ConfigFails, TornConfig, TypeOK
  <2>. QED
    BY <1>10, <2>1, <2>3, MovedOn DEF ConfigFails, Fails, TypeOK
<1>11. CASE CheckStartup
  <2>1. ~ Running
    BY <1>11 DEF CheckStartup, At
  <2>2. startup_demo_pending' \in BOOLEAN
    BY <1>11, Zenon DEF CheckStartup, Welcomed
  <2>. QED
    BY <1>11, <2>1, <2>2, MovedOn DEF CheckStartup, TypeOK
<1>12. ASSUME SaveFile \/ DeleteFile PROVE WorkInv'
  <2>1. PICK f \in File, v \in Content : disk' = [disk EXCEPT ![f] = v]
    BY <1>12, InstallAssumption DEF SaveFile, DeleteFile, Content
  <2>2. disk' \in [File -> Content]
    BY <2>1 DEF TypeOK
  <2>3. UNCHANGED <<markers, config, step, visited, writing, output, launch, choice>>
    BY <1>12 DEF SaveFile, DeleteFile
  <2>4. TypeOK'
    BY <2>2, <2>3 DEF TypeOK
  <2>5. InHand'
    BY <2>3 DEF InHand, Installing, At, Running, Subject, Skipped, Welcoming
  <2>. QED
    BY <2>4, <2>5
<1>13. CASE ChooseSkin
  <2>1. WithLine(config, chosen') \in SUBSET Line
    BY <1>13, LineAdded DEF ChooseSkin, TypeOK, Line, Skin
  <2>2. config' \in SUBSET Line
    BY <1>13, <2>1 DEF ChooseSkin, Line
  <2>7. settled' = ("welcome" \in markers)
    BY <1>13 DEF ChooseSkin
  <2>5. settled' \in BOOLEAN
    BY <2>7
  <2>6. /\ damaged' \in BOOLEAN /\ chosen' \in Choices \cup {Nothing}
        /\ UNCHANGED <<disk, markers, step, visited, writing, output, launch>>
    BY <1>13 DEF ChooseSkin
  <2>3. TypeOK'
    BY <2>2, <2>5, <2>6 DEF TypeOK
  <2>4. InHand'
    BY <1>13 DEF ChooseSkin, InHand, Installing, At, Running, Subject, Skipped, Welcoming
  <2>. QED
    BY <2>3, <2>4
<1>14. CASE Relaunch
  <2>2. config' \in SUBSET Line /\ damaged' \in BOOLEAN
    <3>1. CASE writing = CONFIG
      <4>1. TornConfig
        BY <1>14, <3>1, Zenon DEF Relaunch
      <4>. QED
        BY <4>1 DEF TornConfig, TypeOK
    <3>2. CASE writing # CONFIG
      <4>1. UNCHANGED <<config, damaged>>
        BY <1>14, <3>2, Zenon DEF Relaunch
      <4>. QED
        BY <4>1, Zenon DEF TypeOK
    <3>. QED
      BY <3>1, <3>2
  <2>5. step' \in 1 .. Len(Script) + 1
    BY <1>14, ScriptLength DEF Relaunch
  <2>6. /\ UNCHANGED <<disk, markers, chosen, settled>>
        /\ visited' = {} /\ writing' = Nothing /\ output' = {} /\ stuck' = {}
        /\ startup_demo_pending' = FALSE /\ failed' = FALSE
    BY <1>14, Zenon DEF Relaunch
  <2>7. visited' \in SUBSET File /\ output' \in SUBSET Line /\ stuck' \in SUBSET File
    BY <2>6
  <2>8. newskin_pending' \in BOOLEAN
    BY <1>14, Zenon DEF Relaunch
  <2>3. TypeOK'
    BY <2>2, <2>5, <2>6, <2>7, <2>8, Zenon DEF TypeOK
  <2>4. InHand'
    BY <1>14, NothingOpen DEF Relaunch, InHand
  <2>. QED
    BY <2>3, <2>4
<1>15. CASE UNCHANGED vars
  BY <1>15 DEF vars, TypeOK, InHand, Installing, At, Running, Subject, Skipped, Welcoming
<1>. QED
  BY <1>1, <1>2, <1>3, <1>4, <1>5, <1>6, <1>7, <1>8, <1>9, <1>10, <1>11, <1>12, <1>13, <1>14, <1>15,
     <1>16 DEF Next

THEOREM Working == Spec => []WorkInv
<1>1. Init => WorkInv
  BY InitWork
<1>2. WorkInv /\ [Next]_vars => WorkInv'
  BY NextWork
<1>. QED
  BY <1>1, <1>2, PTL DEF Spec

(* The type invariant, for every set of files and any skins.               *)
THEOREM WellTyped == Spec => []TypeOK
<1>1. WorkInv => TypeOK
  BY DEF WorkInv
<1>. QED
  BY <1>1, Working, PTL

(***************************************************************************)
(* Markers vouch for their packages.  The strengthening says the same of   *)
(* what the present step has dealt with so far.                            *)
(***************************************************************************)
Guarded == {"demo"} \cup Range(Skins)
Whole(f) == disk[f] \notin {"absent", "part"}

VisitedWhole ==
  Installing /\ Subject \in Guarded => \A f \in visited : Whole(f)

VouchInv == MarkerMeansComplete /\ VisitedWhole

LEMMA GuardedPackage == Guarded \subseteq Package
BY DEF Guarded, Package

LEMMA InitVouch == Init => VouchInv
BY DEF Init, VouchInv, MarkerMeansComplete, VisitedWhole

(* A step that only makes files whole, or leaves them whole, keeps both.   *)
LEMMA StillVouched ==
  ASSUME MarkerMeansComplete, markers' = markers, WorkInv,
         \A f \in File : Whole(f) => Whole(f)'
  PROVE  MarkerMeansComplete'
<1>. SUFFICES ASSUME NEW p \in markers \cap ({"demo"} \cup Range(Skins)), NEW f \in Pack[p]
              PROVE  Whole(f)'
  BY DEF MarkerMeansComplete, Whole
<1>1. f \in File
  BY InstallAssumption, GuardedPackage DEF Guarded
<1>2. Whole(f)
  BY DEF MarkerMeansComplete, Whole
<1>. QED
  BY <1>1, <1>2

LEMMA NextVouch ==
  ASSUME PacksApart
  PROVE  WorkInv /\ VouchInv /\ [Next]_vars => VouchInv'
<1>. SUFFICES ASSUME WorkInv, VouchInv, [Next]_vars PROVE VouchInv'
  OBVIOUS
<1>. USE DEF VouchInv
<1>. DEFINE quiet == markers' = markers /\ disk' = disk
<1>0. ASSUME quiet PROVE MarkerMeansComplete'
  BY <1>0 DEF MarkerMeansComplete
<1>00. ASSUME visited' = {} PROVE VisitedWhole'
  BY <1>00 DEF VisitedWhole
<1>1. ASSUME SkipStep \/ InstallFails \/ EndRemoval \/ FinishConfig \/ ConfigFails
             \/ CheckStartup \/ Relaunch
      PROVE  VouchInv'
  BY <1>0, <1>00, <1>1 DEF SkipStep, InstallFails, EndRemoval, FinishConfig, ConfigFails,
     CheckStartup, Relaunch, NextStep
<1>2. CASE KeepFile
  <2>1. PICK f \in Pack[Subject] \ visited : Keeps(Subject, f) /\ visited' = visited \cup {f}
    BY <1>2 DEF KeepFile
  <2>2. ASSUME Subject \in Guarded PROVE Whole(f)
    <3>1. CASE Subject = "demo"
      BY <2>1, <3>1 DEF Keeps, Whole
    <3>2. CASE Subject # "demo"
      <4>1. Subject \notin {"demo", "presets", "welcome"}
        BY <2>2, <3>2, InstallAssumption DEF Guarded
      <4>. QED
        BY <2>1, <4>1 DEF Keeps
    <3>. QED
      BY <3>1, <3>2
  <2>3. VisitedWhole'
    BY <1>2, <2>1, <2>2 DEF KeepFile, VisitedWhole, Whole, Installing, At, Running, Subject,
       Skipped, Welcoming
  <2>. QED
    BY <1>0, <1>2, <2>3 DEF KeepFile
<1>3. CASE OpenFile
  <2>1. PICK f \in Pack[Subject] \ visited :
          disk' = [disk EXCEPT ![f] = "part"] /\ writing' = f
    BY <1>3 DEF OpenFile
  <2>2. Subject \in Package /\ Subject \notin markers
    BY <1>3, SubjectKind DEF OpenFile, Installing, WorkInv
  <2>3. MarkerMeansComplete'
    <3>. SUFFICES ASSUME NEW p \in markers \cap Guarded, NEW g \in Pack[p]
                  PROVE  disk'[g] \notin {"absent", "part"}
      BY <1>3 DEF OpenFile, MarkerMeansComplete, Guarded
    <3>1. g # f
      BY <2>1, <2>2, GuardedPackage DEF PacksApart, Guarded
    <3>2. disk'[g] = disk[g]
      BY <2>1, <3>1, InstallAssumption, GuardedPackage DEF WorkInv, TypeOK
    <3>. QED
      BY <3>2 DEF MarkerMeansComplete, Guarded
  <2>4. VisitedWhole'
    <3>1. \A g \in visited : disk'[g] = disk[g]
      BY <2>1 DEF WorkInv, TypeOK
    <3>. QED
      BY <1>3, <3>1 DEF OpenFile, VisitedWhole, Whole, Installing, At, Running, Subject,
         Skipped, Welcoming
  <2>. QED
    BY <2>3, <2>4
<1>4. CASE FinishFile
  <2>0. \A f \in File : disk'[f] = IF f = writing THEN "package" ELSE disk[f]
    BY <1>4 DEF FinishFile, WorkInv, TypeOK
  <2>1. \A f \in File : Whole(f) => Whole(f)'
    BY <2>0 DEF Whole
  <2>. QED
    <3>1. MarkerMeansComplete'
      BY <1>4, <2>1, StillVouched DEF FinishFile
    <3>2. \A f \in visited' : Installing /\ Subject \in Guarded => disk'[f] \notin {"absent", "part"}
      <4>. TAKE f \in visited'
      <4>1. f \in visited \/ f = writing
        BY <1>4 DEF FinishFile
      <4>2. ASSUME f \in visited, Installing, Subject \in Guarded PROVE Whole(f)'
        BY <2>1, <4>2 DEF VisitedWhole, WorkInv, TypeOK
      <4>3. ASSUME f = writing PROVE disk'[f] \notin {"absent", "part"}
        BY <1>4, <4>3 DEF FinishFile, WorkInv, TypeOK
      <4>. QED
        BY <4>1, <4>2, <4>3 DEF Whole
    <3>3. Installing' = Installing /\ Subject' = Subject
      BY <1>4 DEF FinishFile, Installing, At, Running, Subject, Skipped, Welcoming
    <3>4. VisitedWhole'
      BY <3>2, <3>3 DEF VisitedWhole, Whole
    <3>. QED
      BY <3>1, <3>4
<1>5. CASE WriteMarker
  <2>1. MarkerMeansComplete'
    <3>. SUFFICES ASSUME NEW p \in markers' \cap Guarded, NEW f \in Pack[p]
                  PROVE  disk'[f] \notin {"absent", "part"}
      BY DEF MarkerMeansComplete, Guarded
    <3>1. CASE p = Subject
      BY <1>5, <3>1 DEF WriteMarker, VisitedWhole, Whole
    <3>2. CASE p # Subject
      BY <1>5, <3>2 DEF WriteMarker, MarkerMeansComplete, Guarded
    <3>. QED
      BY <3>1, <3>2
  <2>. QED
    BY <1>00, <1>5, <2>1 DEF WriteMarker, NextStep
<1>6. ASSUME RemoveFile \/ RemoveFails PROVE VouchInv'
  <2>1. \A f \in File : Whole(f) => Whole(f)'
    BY <1>6 DEF RemoveFile, RemoveFails, Whole, WorkInv, TypeOK
  <2>2. MarkerMeansComplete'
    BY <1>6, <2>1, StillVouched DEF RemoveFile, RemoveFails
  <2>3. ~ Installing'
    BY <1>6 DEF RemoveFile, RemoveFails, Installing, At, Running
  <2>. QED
    BY <2>2, <2>3 DEF VisitedWhole
<1>7. ASSUME SaveFile \/ DeleteFile PROVE VouchInv'
  <2>4. PICK f \in File, v \in {"user", "removed"} : disk' = [disk EXCEPT ![f] = v]
    BY <1>7, InstallAssumption DEF SaveFile, DeleteFile
  <2>1. \A g \in File : Whole(g) => Whole(g)'
    BY <2>4 DEF Whole, WorkInv, TypeOK
  <2>2. MarkerMeansComplete'
    BY <1>7, <2>1, StillVouched DEF SaveFile, DeleteFile
  <2>3. ~ Installing'
    BY <1>7 DEF SaveFile, DeleteFile, Installing, At, Running
  <2>. QED
    BY <2>2, <2>3 DEF VisitedWhole
<1>8. ASSUME OpenConfig \/ ChooseSkin \/ UNCHANGED vars PROVE VouchInv'
  <2>1. quiet /\ UNCHANGED <<step, visited, startup_demo_pending>>
    BY <1>8 DEF OpenConfig, ChooseSkin, vars
  <2>2. VisitedWhole'
    BY <2>1 DEF VisitedWhole, Whole, Installing, At, Running, Subject, Skipped, Welcoming
  <2>. QED
    BY <1>0, <2>1, <2>2
<1>. QED
  BY <1>1, <1>2, <1>3, <1>4, <1>5, <1>6, <1>7, <1>8 DEF Next

(***************************************************************************)
(* Whatever fails and whenever the power goes, a marker is only there when *)
(* every file of its package was written to the end (apk_extract.c).       *)
(***************************************************************************)
THEOREM MarkersVouch == PacksApart => (Spec => []MarkerMeansComplete)
<1>. SUFFICES ASSUME PacksApart PROVE Spec => []MarkerMeansComplete
  OBVIOUS
<1>1. Init => VouchInv
  BY InitVouch
<1>2. WorkInv /\ VouchInv /\ [Next]_vars => VouchInv'
  BY NextVouch
<1>3. VouchInv => MarkerMeansComplete
  BY DEF VouchInv
<1>. QED
  BY <1>1, <1>2, <1>3, Working, PTL DEF Spec

(***************************************************************************)
(* What the launch has installed so far, and what it has stripped.         *)
(***************************************************************************)
InstalledSoFar ==
  ~ failed => \A i \in 1 .. Len(Script) :
                i < step /\ Script[i][1] = "install" => Script[i][2] \in markers

WelcomeKnown ==
  step > 2 * N + 7 /\ ~ startup_demo_pending => "welcome" \in markers

LaunchInv == InstalledSoFar /\ WelcomeKnown

LEMMA EveryPackageHasAPlace ==
  ASSUME NEW p \in Package
  PROVE  \E i \in 1 .. Len(Script) : Place(i, "install", p)
<1>1. CASE p \in Range(Skins)
  <2>1. PICK k \in 1 .. N : p = Skins[k]
    BY <1>1, SkinCount DEF Range
  <2>. QED
    BY <2>1, SkinHasPlaces
<1>2. CASE p \in {"demo", "presets", "songs", "welcome"}
  <2>1. {1, 2 * N + 5, 2 * N + 6, 2 * N + 9} \subseteq 1 .. Len(Script)
    BY ScriptLength
  <2>. QED
    BY <1>2, <2>1, FixedPlaces
<1>. QED
  BY <1>1, <1>2 DEF Package

(* A step of the script that is passed over was the welcome's, or had its  *)
(* marker.                                                                 *)
LEMMA PassedOver ==
  ASSUME WorkInv, SkipStep, At("install"), WelcomeKnown
  PROVE  Subject \in markers
<1>1. step \in 1 .. Len(Script) /\ Script[step][1] = "install"
  BY InScript DEF WorkInv, At
<1>2. CASE Subject \in markers /\ visited = {}
  BY <1>2
<1>3. CASE Skipped
  <2>1. Subject = "welcome"
    BY <1>1, <1>3, Installs, SkinCount, InstallAssumption DEF Skipped, Welcoming, Subject
  <2>2. step = 2 * N + 9
    BY <1>1, <2>1, Installs, SkinCount, InstallAssumption DEF Subject
  <2>3. step > 2 * N + 7
    BY <2>2, SkinCount
  <2>. QED
    BY <1>3, <2>1, <2>3 DEF Skipped, WelcomeKnown
<1>. QED
  BY <1>2, <1>3 DEF SkipStep, At

LEMMA InitLaunch == Init => LaunchInv
<1>1. Init => ~ (step > 2 * N + 7) /\ \A i \in 1 .. Len(Script) : ~ (i < step)
  BY ScriptLength DEF Init
<1>. QED
  BY <1>1 DEF Init, LaunchInv, InstalledSoFar, WelcomeKnown

LEMMA NextLaunch == WorkInv /\ LaunchInv /\ [Next]_vars => LaunchInv'
<1>. SUFFICES ASSUME WorkInv, LaunchInv, [Next]_vars PROVE LaunchInv'
  OBVIOUS
<1>. USE DEF LaunchInv
<1>0. step \in Nat
  BY ScriptLength DEF WorkInv, TypeOK
(* Going on with the next step, with the marker of the one done if it has  *)
(* one, keeps the first half.                                              *)
<1>1. ASSUME NextStep, ~ Running, markers \subseteq markers',
             ~ failed' => ~ failed /\ (At("install") => Subject \in markers')
      PROVE  InstalledSoFar'
  <2>. SUFFICES ASSUME ~ failed', NEW i \in 1 .. Len(Script), i < step',
                       Script[i][1] = "install"
                PROVE  Script[i][2] \in markers'
    BY DEF InstalledSoFar
  <2>1. i < step \/ i = step
    BY <1>0, <1>1 DEF NextStep
  <2>2. CASE i < step
    BY <1>1, <2>2 DEF InstalledSoFar
  <2>3. CASE i = step
    BY <1>1, <2>3 DEF At, Subject
  <2>. QED
    BY <2>1, <2>2, <2>3
(* And the second, unless the step is the one that asks for the marker.    *)
<1>2. ASSUME NextStep, ~ Running, ~ At("startup"), markers \subseteq markers',
             startup_demo_pending' = startup_demo_pending
      PROVE  WelcomeKnown'
  <2>1. step # 2 * N + 7
    <3>1. Script[2 * N + 7][1] = "startup"
      BY FixedPlaces DEF Place
    <3>. QED
      BY <1>2, <3>1 DEF At
  <2>2. step' > 2 * N + 7 => step > 2 * N + 7
    BY <1>0, <1>2, <2>1, ScriptLength DEF NextStep
  <2>. QED
    BY <1>2, <2>2 DEF WelcomeKnown
<1>3. CASE SkipStep
  <2>1. ~ Running /\ ~ At("startup") /\ NextStep
    BY <1>3 DEF SkipStep, At
  <2>2. At("install") => Subject \in markers
    BY <1>3, PassedOver
  <2>. QED
    BY <1>1, <1>2, <1>3, <2>1, <2>2 DEF SkipStep
<1>4. CASE InstallFails
  <2>1. ~ Running /\ ~ At("startup") /\ NextStep
    BY <1>4 DEF InstallFails, Installing, At
  <2>. QED
    BY <1>1, <1>2, <1>4, <2>1 DEF InstallFails, Fails
<1>5. CASE WriteMarker
  <2>1. ~ Running /\ ~ At("startup") /\ NextStep
    BY <1>5 DEF WriteMarker, Installing, At
  <2>4. failed' = failed \/ failed' = TRUE
    BY <1>5 DEF WriteMarker, Fails
  <2>5. ~ failed' => ~ failed
    BY <2>4, Zenon
  <2>2. markers' = markers \cup {Subject} /\ (~ failed' => ~ failed)
    BY <1>5, <2>5 DEF WriteMarker
  <2>3. startup_demo_pending' = startup_demo_pending
    BY <1>5 DEF WriteMarker, Fails
  <2>. QED
    BY <1>1, <1>2, <2>1, <2>2, <2>3
<1>6. ASSUME EndRemoval \/ FinishConfig PROVE LaunchInv'
  <2>1. ~ Running /\ ~ At("startup") /\ ~ At("install") /\ NextStep
    BY <1>6 DEF EndRemoval, FinishConfig, At
  <2>2. UNCHANGED <<markers, failed, startup_demo_pending>>
    BY <1>6 DEF EndRemoval, FinishConfig
  <2>. QED
    BY <1>1, <1>2, <2>1, <2>2
<1>7. CASE ConfigFails
  <2>1. ~ Running /\ ~ At("startup") /\ NextStep
    BY <1>7 DEF ConfigFails, At
  <2>2. failed' /\ UNCHANGED <<markers, startup_demo_pending>>
    BY <1>7 DEF ConfigFails, Fails
  <2>. QED
    BY <1>1, <1>2, <2>1, <2>2
<1>8. CASE CheckStartup
  <2>1. ~ Running /\ ~ At("install") /\ NextStep
    BY <1>8 DEF CheckStartup, At
  <2>2. UNCHANGED <<markers, failed>> /\ startup_demo_pending' = ~ ("welcome" \in markers)
    BY <1>8, Zenon DEF CheckStartup, Welcomed
  <2>3. WelcomeKnown'
    BY <2>2 DEF WelcomeKnown
  <2>. QED
    BY <1>1, <2>1, <2>2, <2>3
<1>9. CASE Relaunch
  <2>1. step' = 1
    BY <1>9 DEF Relaunch
  <2>2. ~ (step' > 2 * N + 7) /\ \A i \in 1 .. Len(Script) : ~ (i < step')
    BY <2>1, ScriptLength
  <2>. QED
    BY <2>2 DEF InstalledSoFar, WelcomeKnown
<1>10. ASSUME KeepFile \/ OpenFile \/ FinishFile \/ RemoveFile \/ RemoveFails \/ OpenConfig
              \/ SaveFile \/ DeleteFile \/ ChooseSkin \/ UNCHANGED vars
       PROVE  LaunchInv'
  <2>1. UNCHANGED <<markers, step, startup_demo_pending, failed>>
    BY <1>10 DEF KeepFile, OpenFile, FinishFile, RemoveFile, RemoveFails, OpenConfig, SaveFile,
       DeleteFile, ChooseSkin, vars
  <2>. QED
    BY <2>1 DEF InstalledSoFar, WelcomeKnown
<1>. QED
  BY <1>3, <1>4, <1>5, <1>6, <1>7, <1>8, <1>9, <1>10 DEF Next

(***************************************************************************)
(* A launch in which no step fails leaves every marker in place, whatever  *)
(* earlier launches left behind.                                           *)
(***************************************************************************)
THEOREM LaunchConverges == Spec => []CleanLaunchInstalls
<1>1. Init => LaunchInv
  BY InitLaunch
<1>2. WorkInv /\ LaunchInv /\ [Next]_vars => LaunchInv'
  BY NextLaunch
<1>3. WorkInv /\ LaunchInv => CleanLaunchInstalls
  <2>. SUFFICES ASSUME WorkInv, LaunchInv, Running, ~ failed PROVE markers = Package
    BY DEF CleanLaunchInstalls
  <2>1. ASSUME NEW p \in Package PROVE p \in markers
    <3>1. PICK i \in 1 .. Len(Script) : Place(i, "install", p)
      BY <2>1, EveryPackageHasAPlace
    <3>2. i < step
      BY <3>1, ScriptLength DEF Running
    <3>. QED
      BY <3>1, <3>2 DEF LaunchInv, InstalledSoFar, Place
  <2>2. markers \subseteq Package
    BY DEF WorkInv, TypeOK
  <2>. QED
    BY <2>1, <2>2
<1>. QED
  BY <1>1, <1>2, <1>3, Working, PTL DEF Spec

(***************************************************************************)
(* What the launch has stripped stays stripped: the files of the removals  *)
(* behind it, and of the present one those it has come to.  An installation *)
(* further on brings back nothing but newskin's, in a launch that has it   *)
(* to install.                                                             *)
(***************************************************************************)
Dealt(r, f) ==
  \/ disk[f] \in {"absent", "removed"}
  \/ f \in stuck
  \/ r = "before_newskin" /\ newskin_pending

StrippedBehind ==
  \A i \in 1 .. Len(Script) :
    i < step /\ Script[i][1] = "remove" =>
      \A f \in Stripped[Script[i][2]] : Dealt(Script[i][2], f)

StrippedSoFar ==
  /\ StrippedBehind
  /\ At("remove") => \A f \in visited : Dealt(Subject, f)

NewskinKnown == ~ newskin_pending => "newskin" \in markers

StrippedInv == NewskinKnown /\ (~ Running => StrippedSoFar)

LEMMA EveryRemovalHasAPlace ==
  ASSUME NEW r \in Removal
  PROVE  \E i \in 1 .. Len(Script) : Place(i, "remove", r)
<1>1. CASE r \in Range(Skins)
  <2>1. PICK k \in 1 .. N : r = Skins[k]
    BY <1>1, SkinCount DEF Range
  <2>. QED
    BY <2>1, SkinHasPlaces
<1>2. CASE r \in {"Darker", "before_newskin"}
  <2>1. {3, 4} \subseteq 1 .. Len(Script)
    BY ScriptLength
  <2>. QED
    BY <1>2, <2>1, FixedPlaces
<1>. QED
  BY <1>1, <1>2 DEF Removal

LEMMA DistinctSkins ==
  ASSUME NEW k \in 1 .. N, NEW l \in 1 .. N, Skins[k] = Skins[l]
  PROVE  k = l
BY InstallAssumption, SkinCount DEF IsInjective

(* A removal that is done with takes nothing of the package being          *)
(* installed, for the skins differ from step to step; or it is the one     *)
(* before newskin.                                                         *)
LEMMA StrippedElsewhere ==
  ASSUME StripsApart, WorkInv, Installing,
         NEW i \in 1 .. Len(Script), i < step, Script[i][1] = "remove"
  PROVE  \/ Stripped[Script[i][2]] \cap Pack[Subject] = {}
         \/ Script[i][2] = "before_newskin" /\ Subject = "newskin"
<1>1. step \in 1 .. Len(Script) /\ Script[step][1] = "install" /\ Subject = Script[step][2]
  BY InScript DEF WorkInv, Installing, At, Subject
<1>. DEFINE r == Script[i][2]
            p == Script[step][2]
<1>2. \/ i = 3 /\ r = "Darker"
      \/ i = 4 /\ r = "before_newskin"
      \/ \E k \in 1 .. N : i = 2 * k + 4 /\ r = Skins[k]
  BY Removes
<1>3. \/ step = 1 /\ p = "demo"
      \/ \E k \in 1 .. N : step = 2 * k + 3 /\ p = Skins[k]
      \/ p \in {"presets", "songs", "welcome"}
  BY <1>1, Installs
<1>. HIDE DEF r, p
<1>4. Skins \in Seq(STRING) /\ \A k \in 1 .. N : Skins[k] \in Range(Skins)
  BY SkinCount
<1>5. r \in Removal /\ p \in Package
  BY <1>2, <1>3, <1>4 DEF Removal, Package
<1>6. ~ (r = "Darker" /\ p = "demo")
  <2>. SUFFICES ASSUME r = "Darker", p = "demo" PROVE FALSE
    OBVIOUS
  <2>1. step = 1
    BY <1>3, <1>4, InstallAssumption
  <2>. QED
    BY <2>1
<1>7. ~ (r \in Range(Skins) /\ p = r)
  <2>. SUFFICES ASSUME r \in Range(Skins), p = r PROVE FALSE
    OBVIOUS
  <2>1. PICK k \in 1 .. N : i = 2 * k + 4 /\ r = Skins[k]
    BY <1>2, <1>4, InstallAssumption
  <2>2. PICK l \in 1 .. N : step = 2 * l + 3 /\ p = Skins[l]
    BY <1>3, <1>4, InstallAssumption
  <2>3. k = l
    BY <2>1, <2>2, DistinctSkins
  <2>. QED
    BY <2>1, <2>2, <2>3, SkinCount
<1>8. Stripped[r] \cap Pack[p] = {} \/ (r = "before_newskin" /\ p = "newskin")
  BY <1>5, <1>6, <1>7 DEF StripsApart
<1>. QED
  BY <1>1, <1>8 DEF r, p

LEMMA InitStripped == Init => StrippedInv
<1>. SUFFICES ASSUME Init PROVE NewskinKnown /\ StrippedSoFar
  BY DEF StrippedInv
<1>1. \A i \in 1 .. Len(Script) : ~ (i < step)
  BY ScriptLength DEF Init
<1>. QED
  BY <1>1 DEF Init, NewskinKnown, StrippedSoFar, StrippedBehind

LEMMA RemovalKind ==
  ASSUME NEW i \in 1 .. Len(Script), Script[i][1] = "remove"
  PROVE  Script[i][2] \in Removal /\ Stripped[Script[i][2]] \subseteq File
<1>1. Script[i][2] \in Removal
  BY Removes, SkinCount DEF Removal
<1>. QED
  BY <1>1, InstallAssumption

(* Going on with the next step keeps what has been stripped, ...           *)
LEMMA StrippedAndOn ==
  ASSUME WorkInv, ~ Running, StrippedSoFar, NextStep,
         UNCHANGED <<disk, stuck, newskin_pending>>,
         At("remove") => visited = Stripped[Subject]
  PROVE  StrippedSoFar'
<1>1. step \in Nat
  BY ScriptLength DEF WorkInv, TypeOK
<1>2. StrippedBehind'
  <2>. SUFFICES ASSUME NEW i \in 1 .. Len(Script), i < step', Script[i][1] = "remove",
                       NEW f \in Stripped[Script[i][2]]
                PROVE  Dealt(Script[i][2], f)'
    BY DEF StrippedBehind
  <2>1. i < step \/ i = step
    BY <1>1 DEF NextStep
  <2>2. Dealt(Script[i][2], f)
    <3>1. CASE i < step
      BY <3>1 DEF StrippedSoFar, StrippedBehind
    <3>2. CASE i = step
      BY <3>2 DEF StrippedSoFar, At, Subject
    <3>. QED
      BY <2>1, <3>1, <3>2
  <2>. QED
    BY <2>2 DEF Dealt
<1>. QED
  BY <1>2 DEF StrippedSoFar, NextStep

(* ... and so does a step that goes on with this one and undoes nothing.   *)
LEMMA StrippedAndHere ==
  ASSUME StrippedSoFar, step' = step,
         \A i \in 1 .. Len(Script) : i < step /\ Script[i][1] = "remove" =>
           \A f \in Stripped[Script[i][2]] :
             Dealt(Script[i][2], f) => Dealt(Script[i][2], f)',
         At("remove") => \A f \in visited' : Dealt(Subject, f)'
  PROVE  StrippedSoFar'
<1>1. StrippedBehind'
  BY DEF StrippedSoFar, StrippedBehind
<1>2. At("remove")' = At("remove") /\ Subject' = Subject
  BY DEF At, Running, Subject
<1>. QED
  BY <1>1, <1>2 DEF StrippedSoFar

LEMMA NextStripped ==
  ASSUME StripsApart, WorkInv, NewskinKnown, ~ Running, StrippedSoFar, [Next]_vars
  PROVE  StrippedSoFar'
<1>1. ASSUME SkipStep \/ InstallFails \/ WriteMarker \/ EndRemoval \/ FinishConfig
             \/ ConfigFails \/ CheckStartup
      PROVE  StrippedSoFar'
  <2>1. NextStep /\ UNCHANGED <<disk, stuck, newskin_pending>>
    BY <1>1 DEF SkipStep, InstallFails, WriteMarker, EndRemoval, FinishConfig, ConfigFails,
       CheckStartup, Fails
  <2>2. At("remove") => visited = Stripped[Subject]
    BY <1>1 DEF SkipStep, InstallFails, WriteMarker, EndRemoval, FinishConfig, ConfigFails,
       CheckStartup, Installing, At
  <2>. QED
    BY <2>1, <2>2, StrippedAndOn
<1>2. ASSUME KeepFile \/ OpenConfig \/ UNCHANGED vars PROVE StrippedSoFar'
  <2>1. UNCHANGED <<step, disk, stuck, newskin_pending>>
    BY <1>2 DEF KeepFile, OpenConfig, vars
  <2>2. At("remove") => visited' = visited
    BY <1>2 DEF KeepFile, OpenConfig, vars, Installing, At
  <2>3. \A r, f : Dealt(r, f)' = Dealt(r, f)
    BY <2>1 DEF Dealt
  <2>5. Subject' = Subject
    BY <2>1 DEF Subject
  <2>4. At("remove") => \A f \in visited' : Dealt(Subject, f)'
    BY <2>2, <2>3, <2>5 DEF StrippedSoFar
  <2>. QED
    BY <2>1, <2>3, <2>4, StrippedAndHere
<1>3. ASSUME OpenFile \/ FinishFile PROVE StrippedSoFar'
  <2>1. PICK g \in Pack[Subject], v \in Content : disk' = [disk EXCEPT ![g] = v]
    BY <1>3 DEF OpenFile, FinishFile, WorkInv, InHand, Content
  <2>2. UNCHANGED <<step, stuck, newskin_pending>> /\ Installing /\ ~ At("remove")
    BY <1>3 DEF OpenFile, FinishFile, Installing, At
  <2>3. ASSUME NEW i \in 1 .. Len(Script), i < step, Script[i][1] = "remove",
               NEW f \in Stripped[Script[i][2]], Dealt(Script[i][2], f)
        PROVE  Dealt(Script[i][2], f)'
    <3>1. CASE f # g
      <4>1. disk'[f] = disk[f]
        BY <2>1, <2>3, <3>1, RemovalKind DEF WorkInv, TypeOK
      <4>. QED
        BY <2>2, <2>3, <4>1 DEF Dealt
    <3>2. CASE f = g
      <4>1. Script[i][2] = "before_newskin" /\ Subject = "newskin"
        BY <2>1, <2>2, <2>3, <3>2, StrippedElsewhere
      <4>2. newskin_pending'
        BY <2>2, <4>1 DEF NewskinKnown, Installing
      <4>. QED
        BY <4>1, <4>2 DEF Dealt
    <3>. QED
      BY <3>1, <3>2
  <2>. QED
    BY <2>2, <2>3, StrippedAndHere
<1>4. ASSUME RemoveFile \/ RemoveFails PROVE StrippedSoFar'
  <2>1. UNCHANGED <<step, newskin_pending>> /\ stuck \subseteq stuck' /\ At("remove")
    BY <1>4 DEF RemoveFile, RemoveFails
  <2>2. \A f \in File : disk[f] \in {"absent", "removed"} => disk'[f] \in {"absent", "removed"}
    BY <1>4 DEF RemoveFile, RemoveFails, WorkInv, TypeOK
  <2>3. \A r, f : f \in File /\ Dealt(r, f) => Dealt(r, f)'
    BY <2>1, <2>2 DEF Dealt
  <2>4. Subject \in Removal /\ Stripped[Subject] \subseteq File
    BY <2>1, SubjectKind, InstallAssumption DEF WorkInv
  <2>5. PICK g \in Stripped[Subject] :
          /\ visited' = visited \cup {g}
          /\ disk'[g] \in {"absent", "removed"} \/ g \in stuck'
    BY <1>4, <2>4 DEF RemoveFile, RemoveFails, WorkInv, TypeOK
  <2>8. Subject' = Subject
    BY <2>1 DEF Subject
  <2>6. \A f \in visited' : Dealt(Subject, f)'
    <3>. TAKE f \in visited'
    <3>1. CASE f = g
      BY <2>5, <3>1 DEF Dealt
    <3>2. CASE f \in visited
      BY <2>1, <2>3, <2>8, <3>2 DEF StrippedSoFar, WorkInv, TypeOK
    <3>. QED
      BY <2>5, <3>1, <3>2
  <2>7. \A i \in 1 .. Len(Script) : i < step /\ Script[i][1] = "remove" =>
          \A f \in Stripped[Script[i][2]] :
            Dealt(Script[i][2], f) => Dealt(Script[i][2], f)'
    BY <2>3, RemovalKind
  <2>. QED
    BY <2>1, <2>6, <2>7, StrippedAndHere
<1>5. CASE Relaunch
  <2>1. step' = 1 /\ visited' = {}
    BY <1>5 DEF Relaunch
  <2>2. \A i \in 1 .. Len(Script) : ~ (i < step')
    BY <2>1, ScriptLength
  <2>. QED
    BY <2>1, <2>2 DEF StrippedSoFar, StrippedBehind
<1>6. ~ (SaveFile \/ DeleteFile \/ ChooseSkin)
  BY DEF SaveFile, DeleteFile, ChooseSkin
<1>. QED
  BY <1>1, <1>2, <1>3, <1>4, <1>5, <1>6 DEF Next

LEMMA NextStrippedInv ==
  ASSUME StripsApart
  PROVE  WorkInv /\ StrippedInv /\ [Next]_vars => StrippedInv'
<1>. SUFFICES ASSUME WorkInv, StrippedInv, [Next]_vars PROVE StrippedInv'
  OBVIOUS
<1>1. NewskinKnown'
  <2>1. CASE Relaunch
    BY <2>1, Zenon DEF Relaunch, NewskinKnown
  <2>2. CASE ~ Relaunch
    <3>1. newskin_pending' = newskin_pending /\ markers \subseteq markers'
      BY <2>2 DEF Next, vars, SkipStep, KeepFile, OpenFile, FinishFile, InstallFails, WriteMarker,
         RemoveFile, RemoveFails, EndRemoval, OpenConfig, FinishConfig, ConfigFails, CheckStartup,
         SaveFile, DeleteFile, ChooseSkin, Fails
    <3>. QED
      BY <3>1 DEF StrippedInv, NewskinKnown
  <2>. QED
    BY <2>1, <2>2
<1>2. ASSUME ~ Running' PROVE StrippedSoFar'
  <2>1. CASE ~ Running
    BY <2>1, NextStripped DEF StrippedInv
  <2>2. CASE Running
    <3>1. Relaunch
      BY <1>2, <2>2 DEF Next, vars, SkipStep, KeepFile, OpenFile, FinishFile, InstallFails,
         WriteMarker, RemoveFile, RemoveFails, EndRemoval, OpenConfig, FinishConfig, ConfigFails,
         CheckStartup, SaveFile, DeleteFile, ChooseSkin, Installing, At, Running
    <3>2. step' = 1 /\ visited' = {}
      BY <3>1 DEF Relaunch
    <3>3. \A i \in 1 .. Len(Script) : ~ (i < step')
      BY <3>2, ScriptLength
    <3>. QED
      BY <3>2, <3>3 DEF StrippedSoFar, StrippedBehind
  <2>. QED
    BY <2>1, <2>2
<1>. QED
  BY <1>1, <1>2 DEF StrippedInv

(***************************************************************************)
(* When the renderer starts, the overrides are gone, even those a launch   *)
(* that was cut short had half installed (main.c 611-654): one is left     *)
(* only if its own removal failed, or if it is newskin's in a launch that  *)
(* had newskin to install.                                                 *)
(***************************************************************************)
THEOREM OverridesStayGone == StripsApart => (Spec => OverridesGone)
<1>. SUFFICES ASSUME StripsApart PROVE Spec => OverridesGone
  OBVIOUS
<1>1. Init => StrippedInv
  BY InitStripped
<1>2. WorkInv /\ StrippedInv /\ [Next]_vars => StrippedInv'
  BY NextStrippedInv
<1>. DEFINE Start == ~ Running /\ Running' =>
                       \A r \in Removal : \A f \in Stripped[r] : Dealt(r, f)'
<1>3. WorkInv /\ StrippedInv /\ [Next]_vars => Start
  <2>. SUFFICES ASSUME WorkInv, StrippedInv, [Next]_vars, ~ Running, Running',
                       NEW r \in Removal, NEW f \in Stripped[r]
                PROVE  Dealt(r, f)'
    OBVIOUS
  <2>1. StrippedSoFar'
    BY NextStripped DEF StrippedInv
  <2>2. PICK i \in 1 .. Len(Script) : Place(i, "remove", r)
    BY EveryRemovalHasAPlace
  <2>3. i < step'
    BY ScriptLength DEF Running
  <2>. QED
    BY <2>1, <2>2, <2>3 DEF StrippedSoFar, StrippedBehind, Place
<1>4. Start => (~ Running /\ Running' =>
                  \A r \in Removal : \A f \in Stripped[r] :
                    \/ disk'[f] \in {"absent", "removed"}
                    \/ f \in stuck'
                    \/ r = "before_newskin" /\ newskin_pending')
  BY DEF Dealt
<1>. HIDE DEF Start
<1>. QED
  BY <1>1, <1>2, <1>3, <1>4, Working, PTL DEF Spec, OverridesGone

(***************************************************************************)
(* The skin the user settled on.  The line for the welcome's own skin is   *)
(* only written in a launch that still has the welcome to give, and none   *)
(* has after the user has settled.                                         *)
(***************************************************************************)
Holds(lines) ==
  /\ lines \cap Skin \subseteq {chosen}
  /\ ~ damaged => {chosen, "other"} \subseteq lines

Kept ==
  /\ chosen \in Choices /\ "welcome" \in markers
  /\ Holds(config)
  /\ writing = CONFIG => Holds(output)

SettledInv ==
  /\ settled => Kept
  /\ settled /\ ~ Running => ~ startup_demo_pending

LEMMA InitSettled == Init => SettledInv
BY DEF Init, SettledInv

LEMMA OtherLines == "other" \notin Skin /\ "fill" \notin Skin
BY InstallAssumption DEF Skin

(* What a rewrite that was cut short leaves still holds: lines are lost,   *)
(* and the configuration counts as damaged, but none is added.             *)
LEMMA TornHolds ==
  ASSUME TornConfig, chosen' = chosen, Holds(output)
  PROVE  Holds(config)'
BY DEF TornConfig, Holds

LEMMA NextSettled == WorkInv /\ SettledInv /\ [Next]_vars => SettledInv'
<1>. SUFFICES ASSUME WorkInv, SettledInv, [Next]_vars PROVE SettledInv'
  OBVIOUS
<1>. USE DEF SettledInv
<1>1. ASSUME markers \subseteq markers', UNCHANGED <<config, chosen, settled, damaged>>,
             writing' # CONFIG \/ UNCHANGED <<writing, output>>
      PROVE  settled' => Kept'
  BY <1>1 DEF Kept, Holds
<1>2. ASSUME ~ Running, UNCHANGED <<startup_demo_pending, settled>>
      PROVE  settled' /\ ~ Running' => ~ startup_demo_pending'
  BY <1>2
<1>3. ASSUME SkipStep \/ KeepFile \/ OpenFile \/ FinishFile \/ InstallFails \/ WriteMarker
             \/ RemoveFile \/ RemoveFails \/ EndRemoval
      PROVE  SettledInv'
  <2>1. markers \subseteq markers' /\ UNCHANGED <<config, choice, startup_demo_pending>>
    BY <1>3 DEF SkipStep, KeepFile, OpenFile, FinishFile, InstallFails, WriteMarker, RemoveFile,
       RemoveFails, EndRemoval, Fails
  <2>2. ~ Running
    BY <1>3 DEF SkipStep, KeepFile, OpenFile, FinishFile, InstallFails, WriteMarker, RemoveFile,
       RemoveFails, EndRemoval, Installing, At
  <2>3. writing' # CONFIG \/ UNCHANGED <<writing, output>>
    <3>1. CASE OpenFile
      <4>1. Subject \in Package
        BY <3>1, SubjectKind DEF OpenFile, Installing, WorkInv
      <4>2. writing' \in File
        BY <3>1, <4>1, InstallAssumption DEF OpenFile
      <4>. QED
        BY <4>2, NothingOpen
    <3>. QED
      BY <1>3, <3>1, NothingOpen DEF SkipStep, KeepFile, FinishFile, InstallFails, WriteMarker,
         RemoveFile, RemoveFails, EndRemoval, NextStep
  <2>. QED
    BY <1>1, <1>2, <2>1, <2>2, <2>3
<1>11. CASE OpenConfig
  <2>1. /\ ~ Running /\ ~ Skipped /\ Subject \in {"fill", "default"}
        /\ UNCHANGED <<config, markers, chosen, settled, startup_demo_pending>>
    BY <1>11, SubjectKind DEF OpenConfig, At, WorkInv
  <2>2. ASSUME settled PROVE Kept'
    <3>1. Subject = "fill"
      BY <2>1, <2>2 DEF Skipped, Welcoming
    <3>2. Holds(config)'
      BY <1>11, <2>1, <2>2 DEF OpenConfig, Kept, Holds
    <3>3. Holds(output)'
      <4>1. CASE output' = WithLine(config, Subject) /\ UNCHANGED damaged
        <5>1. output' = config \cup {"fill"}
          BY <3>1, <4>1, OtherLines DEF WithLine
        <5>. QED
          BY <2>1, <2>2, <4>1, <5>1, OtherLines DEF Kept, Holds
      <4>2. CASE output' = {Subject} /\ damaged' = TRUE
        BY <3>1, <4>2, OtherLines DEF Holds
      <4>. QED
        BY <1>11, <4>1, <4>2 DEF OpenConfig
    <3>. QED
      BY <2>1, <2>2, <3>2, <3>3 DEF Kept
  <2>. QED
    BY <1>2, <2>1, <2>2
<1>4. CASE FinishConfig
  <2>1. ~ Running /\ writing = CONFIG /\ writing' # CONFIG /\ config' = output
        /\ UNCHANGED <<markers, choice, startup_demo_pending>>
    BY <1>4, NothingOpen DEF FinishConfig, NextStep, At
  <2>2. ASSUME settled PROVE Kept'
    BY <2>1, <2>2 DEF Kept, Holds
  <2>. QED
    BY <1>2, <2>1, <2>2
<1>5. ASSUME TornConfig, writing = CONFIG, writing' # CONFIG, UNCHANGED <<markers, chosen, settled>>
      PROVE  settled' => Kept'
  BY <1>5, TornHolds DEF Kept
<1>6. CASE ConfigFails
  <2>1. /\ ~ Running /\ writing' # CONFIG
        /\ UNCHANGED <<markers, chosen, settled, startup_demo_pending>>
    BY <1>6, NothingOpen DEF ConfigFails, Fails, NextStep, At
  <2>2. CASE writing = CONFIG
    BY <1>2, <1>5, <1>6, <2>1, <2>2 DEF ConfigFails
  <2>3. CASE writing # CONFIG
    <3>1. UNCHANGED <<config, damaged>>
      BY <1>6, <2>3, Zenon DEF ConfigFails
    <3>. QED
      BY <1>1, <1>2, <2>1, <3>1
  <2>. QED
    BY <2>2, <2>3
<1>7. CASE CheckStartup
  <2>1. ~ Running /\ writing' # CONFIG /\ UNCHANGED <<markers, config, choice>>
    BY <1>7, NothingOpen DEF CheckStartup, NextStep, At
  <2>2. "welcome" \in markers => ~ startup_demo_pending'
    BY <1>7, Zenon DEF CheckStartup, Welcomed
  <2>3. settled' => "welcome" \in markers
    BY <2>1 DEF Kept
  <2>4. settled' => Kept'
    BY <1>1, <2>1
  <2>. QED
    BY <2>2, <2>3, <2>4, Zenon
<1>8. ASSUME SaveFile \/ DeleteFile \/ UNCHANGED vars PROVE SettledInv'
  <2>1. UNCHANGED <<markers, config, step, writing, output, choice, startup_demo_pending>>
    BY <1>8 DEF SaveFile, DeleteFile, vars
  <2>. QED
    BY <2>1 DEF Kept, Holds, Running
<1>9. CASE ChooseSkin
  <2>1. /\ Running /\ Running' /\ markers' = markers /\ chosen' \in Choices
        /\ config' = WithLine(config, chosen') \cup {"other"}
        /\ writing' = writing
    BY <1>9 DEF ChooseSkin, Running
  <2>2. config' = ((config \ Skin) \cup {chosen'}) \cup {"other"} /\ chosen' \in Skin
    BY <2>1 DEF WithLine, Skin
  <2>3. Holds(config)'
    BY <2>2, OtherLines DEF Holds
  <2>4. settled' => "welcome" \in markers
    BY <1>9 DEF ChooseSkin
  <2>5. writing' # CONFIG
    BY <2>1 DEF WorkInv, InHand, At
  <2>. QED
    BY <2>1, <2>3, <2>4, <2>5 DEF Kept
<1>10. CASE Relaunch
  <2>1. ~ startup_demo_pending' /\ writing' # CONFIG /\ UNCHANGED <<markers, chosen, settled>>
    BY <1>10, NothingOpen DEF Relaunch
  <2>2. CASE writing = CONFIG
    BY <1>5, <1>10, <2>1, <2>2 DEF Relaunch
  <2>3. CASE writing # CONFIG
    <3>1. UNCHANGED <<config, damaged>>
      BY <1>10, <2>3, Zenon DEF Relaunch
    <3>. QED
      BY <1>1, <2>1, <3>1
  <2>. QED
    BY <2>2, <2>3
<1>. QED
  BY <1>3, <1>4, <1>6, <1>7, <1>8, <1>9, <1>10, <1>11 DEF Next

(***************************************************************************)
(* "This is one-shot; later user skin choices persist" (main.c 670), of a  *)
(* skin chosen once the welcome is done with: no other takes its place,    *)
(* and it stays unless a rewrite is cut short or cannot read the file.     *)
(***************************************************************************)
THEOREM SettledSkinStays == Spec => []SettledSkinPersists
<1>1. Init => SettledInv
  BY InitSettled
<1>2. WorkInv /\ SettledInv /\ [Next]_vars => SettledInv'
  BY NextSettled
<1>3. SettledInv => SettledSkinPersists
  BY DEF SettledInv, Kept, Holds, SettledSkinPersists
<1>. QED
  BY <1>1, <1>2, <1>3, Working, PTL DEF Spec
=============================================================================
