---------------------------- MODULE SoUtilProofs ----------------------------
(***************************************************************************)
(* TLAPS proofs about src/lib/so_util/so_util.c and the debug hooks of     *)
(* src/main.c: the loader, for any modules with one segment of code each   *)
(* and any limit of data segments; the hooks, for any functions that do    *)
(* not overlap, any destinations, any archives and any depth of calls; the *)
(* LDMIA fix, for any program, any functions and arenas of any size; the   *)
(* linking, for any modules a linker may have written.                     *)
(***************************************************************************)
EXTENDS SoLoader, DebugHooks, CodeArena, SoLink, Recursion, FiniteSetTheorems, SequenceTheorems, TLAPS

-----------------------------------------------------------------------------
(* so_load.                                                                *)

Use == {"file", "patch", "text", "data"}
Outcomes ==
  {"none", "open", "file block", "magic", "patch", "text", "segments", "data", "sections", "loaded"}

(* What the block of a segment is for.                                     *)
Fits(m, u, n) ==
  /\ n \in 1..Len(Segments[m])
  /\ \/ Segments[m][n] = "exec" /\ u \in {"patch", "text"}
     \/ Segments[m][n] = "data" /\ u = "data"

LoaderShape ==
  /\ stage \in {"idle", "open", "header", "segments"}
  /\ loading \in Module \cup {"none"}
  /\ (stage = "idle") = (loading = "none")
  /\ segment \in Nat
  /\ stage = "segments" => segment \in 1..(Len(Segments[loading]) + 1)
  /\ blocks \subseteq Module \X Use \X Nat
  /\ files \subseteq Module
  /\ modules \in Seq(Module)
  /\ data \in Seq(Module \X {"data"} \X Nat)
  /\ Len(data) <= MaxDataSeg
  /\ res \in Int
  /\ answers \in [Module -> [res : Int, at : Outcomes]]
  /\ loading # "none" => answers[loading].at = "none"

(* Whose blocks there are, block by block.                                 *)
Held(m, u, n) ==
  /\ m = loading =>
       (<<m, u, n>> \in blocks <=>
          \/ u = "file" /\ n = 0 /\ stage \in {"header", "segments"}
          \/ stage = "segments" /\ n < segment /\ Fits(m, u, n))
  /\ m # loading /\ answers[m].at = "loaded" => (<<m, u, n>> \in blocks <=> Fits(m, u, n))
  /\ m # loading /\ answers[m].at # "loaded" /\ <<m, u, n>> \in blocks =>
       answers[m].at = "patch" /\ u = "data"
Holdings == \A m \in Module, u \in Use, n \in Nat : Held(m, u, n)

(* What the module being loaded knows of its blocks.                       *)
Own(id, u) == \E n \in Nat : id = <<loading, u, n>>
Identifiers ==
  /\ stage \in {"open", "header"} => patch = None /\ text = None /\ data = <<>>
  /\ stage # "idle" =>
       /\ patch = None \/ Own(patch, "patch")
       /\ text = None \/ Own(text, "text")
       /\ \A i \in 1..Len(data) : Own(data[i], "data")
  /\ stage = "segments" =>
       \A n \in 1..Len(Segments[loading]) : n < segment =>
         /\ Segments[loading][n] = "exec" =>
              patch = <<loading, "patch", n>> /\ text = <<loading, "text", n>>
         /\ Segments[loading][n] = "data" =>
              \E i \in 1..Len(data) : data[i] = <<loading, "data", n>>

Answers ==
  /\ \A m \in files : (m = loading /\ stage = "open") \/ answers[m].at = "file block"
  /\ \A m \in Module : answers[m].at \notin {"none", "loaded", "segments"} => answers[m].res < 0

Listed == {m \in Module : answers[m].at = "loaded"}
InList ==
  /\ {modules[i] : i \in 1..Len(modules)} = Listed
  /\ IsFiniteSet(Listed) /\ Cardinality(Listed) = Len(modules)

LoaderIInv == LoaderShape /\ Holdings /\ Identifiers /\ Answers /\ InList


LEMMA Triple == ASSUME NEW a, NEW b, NEW c PROVE <<a, b, c>> # <<>>
  <1>1. Len(<<a, b, c>>) = 3 /\ Len(<<>>) = 0
    OBVIOUS
  <1>. QED
    BY <1>1

(* The list is untouched by a step that keeps the modules and the answers. *)
LEMMA ListKeeps == ASSUME InList, UNCHANGED <<modules, answers>> PROVE InList'
<1>1. Listed' = Listed
  BY DEF Listed
<1>. QED
  BY <1>1 DEF InList

LEMMA LoadInitIInv == LoadInit => LoaderIInv
<1>. SUFFICES ASSUME LoadInit PROVE LoaderIInv
  OBVIOUS
<1>. USE LoaderAssumption DEF LoadInit
<1>1. LoaderShape
  BY DEF LoaderShape, Outcomes
<1>2. Holdings /\ Identifiers
  BY DEF Holdings, Held, Identifiers
<1>3. Answers
  BY DEF Answers
<1>4. InList
  <2>1. Listed = {} /\ {modules[i] : i \in 1..Len(modules)} = {}
    BY DEF Listed
  <2>. QED
    BY <2>1, FS_EmptySet DEF InList
<1>. QED
  BY <1>1, <1>2, <1>3, <1>4 DEF LoaderIInv

-----------------------------------------------------------------------------
(* A failure that frees all its module held, or all but its data when the  *)
(* arena could not be had, and nothing of others.                          *)
LEMMA FailKeeps ==
  ASSUME LoaderIInv, stage # "idle", NEW freed \in SUBSET blocks,
         NEW r \in Int, NEW site \in Outcomes \ {"none", "loaded"},
         blocks' = freed, res' \in Int, Answered(r, site),
         UNCHANGED <<files, modules, patch, text, data, segment>>, site # "segments" => r < 0,
         \A m \in Module \ {loading} : \A u \in Use, n \in Nat :
           <<m, u, n>> \in blocks => <<m, u, n>> \in freed,
         \A u \in Use, n \in Nat : <<loading, u, n>> \in freed => site = "patch" /\ u = "data",
         loading \in files => site = "file block"
  PROVE  LoaderIInv'
<1>. USE LoaderAssumption DEF LoaderIInv
<1>1. /\ loading \in Module /\ blocks' = freed /\ stage' = "idle" /\ loading' = "none"
      /\ answers' = [answers EXCEPT ![loading] = [res |-> r, at |-> site]]
      /\ UNCHANGED <<files, modules, patch, text, data, segment>>
  BY DEF LoaderShape, Answered, segmentVars
<1>2. /\ answers'[loading] = [res |-> r, at |-> site]
      /\ answers'[loading].at = site
      /\ \A m \in Module : m # loading => answers'[m] = answers[m]
  BY <1>1 DEF LoaderShape
<1>3. LoaderShape'
  BY <1>1 DEF LoaderShape
<1>4. Holdings'
  <2>. SUFFICES ASSUME NEW m \in Module, NEW u \in Use, NEW n \in Nat PROVE Held(m, u, n)'
    BY DEF Holdings
  <2>a. SUFFICES /\ answers'[m].at = "loaded" => (<<m, u, n>> \in freed <=> Fits(m, u, n))
                 /\ answers'[m].at # "loaded" /\ <<m, u, n>> \in freed =>
                      answers'[m].at = "patch" /\ u = "data"
    BY <1>1 DEF Held
  <2>1. CASE m = loading
    <3>1. answers'[m].at = site
      BY <1>2, <2>1
    <3>2. <<m, u, n>> \in freed => site = "patch" /\ u = "data"
      BY <2>1
    <3>. QED
      BY <3>1, <3>2
  <2>2. CASE m # loading
    <3>1. answers'[m] = answers[m] /\ (<<m, u, n>> \in freed <=> <<m, u, n>> \in blocks)
      BY <1>2, <2>2
    <3>. QED
      BY <2>2, <3>1 DEF Holdings, Held
  <2>. QED
    BY <2>1, <2>2
<1>5. Identifiers'
  BY <1>1 DEF Identifiers
<1>6. Answers'
  BY <1>1, <1>2 DEF Answers, LoaderShape
<1>7. InList'
  <2>1. Listed' = Listed
    BY <1>1, <1>2 DEF Listed, LoaderShape
  <2>. QED
    BY <1>1, <2>1 DEF InList
<1>. QED
  BY <1>3, <1>4, <1>5, <1>6, <1>7

(* What the error paths free.                                              *)
LEMMA FreeSo ==
  ASSUME LoaderIInv, OneText, stage \in {"header", "segments"},
         stage = "segments" => AtSegment("exec")
  PROVE  /\ ErrFreeSo \subseteq blocks
         /\ \A m \in Module \ {loading} : \A u \in Use, n \in Nat :
              <<m, u, n>> \in blocks => <<m, u, n>> \in ErrFreeSo
         /\ \A u \in Use, n \in Nat : <<loading, u, n>> \in ErrFreeSo => stage = "segments" /\ u = "data"
<1>. USE LoaderAssumption DEF LoaderIInv
<1>0. loading \in Module
  BY DEF LoaderShape
<1>1. ErrFreeSo = blocks \ {<<loading, "file", 0>>}
  BY DEF ErrFreeSo, Block
<1>2. ASSUME NEW m \in Module, m # loading, NEW u \in Use, NEW n \in Nat, <<m, u, n>> \in blocks
      PROVE  <<m, u, n>> \in ErrFreeSo
  BY <1>1, <1>2
<1>3. ASSUME NEW u \in Use, NEW n \in Nat, <<loading, u, n>> \in ErrFreeSo
      PROVE  stage = "segments" /\ u = "data"
  <2>1. /\ <<loading, u, n>> \in blocks /\ ~(u = "file" /\ n = 0)
    BY <1>1, <1>3
  <2>2. stage = "segments" /\ n < segment /\ Fits(loading, u, n)
    BY <1>0, <2>1 DEF Holdings, Held
  <2>3. /\ segment \in DOMAIN Segments[loading] /\ Segments[loading][segment] = "exec"
        /\ n \in DOMAIN Segments[loading] /\ n # segment
    BY <1>0, <2>2 DEF AtSegment, Fits, LoaderShape
  <2>4. Segments[loading][n] # "exec"
    BY <1>0, <2>3 DEF OneText
  <2>. QED
    BY <2>2, <2>4 DEF Fits
<1>. QED
  BY <1>1, <1>2, <1>3

LEMMA FreeData ==
  ASSUME LoaderIInv, stage = "segments"
  PROVE  /\ ErrFreeData \subseteq blocks
         /\ \A m \in Module \ {loading} : \A u \in Use, n \in Nat :
              <<m, u, n>> \in blocks => <<m, u, n>> \in ErrFreeData
         /\ \A u \in Use, n \in Nat : <<loading, u, n>> \notin ErrFreeData
<1>. USE LoaderAssumption DEF LoaderIInv
<1>0. loading \in Module
  BY DEF LoaderShape
<1>1. \A b : b \in ErrFreeData <=>
        /\ b \in blocks /\ b # <<loading, "file", 0>> /\ b # text /\ b # patch
        /\ \A i \in 1..Len(data) : b # data[i]
  <2>1. DOMAIN data = 1..Len(data)
    BY DEF LoaderShape
  <2>. QED
    BY <2>1 DEF ErrFreeData, ErrFreeText, ErrFreeSo, Block
<1>2. ASSUME NEW m \in Module, m # loading, NEW u \in Use, NEW n \in Nat, <<m, u, n>> \in blocks
      PROVE  <<m, u, n>> \in ErrFreeData
  <2>1. <<m, u, n>> # text /\ <<m, u, n>> # patch
    <3>1. <<m, u, n>> # None
      BY Triple DEF None
    <3>2. ASSUME NEW id, NEW v, Own(id, v) PROVE <<m, u, n>> # id
      BY <1>2, <3>2 DEF Own
    <3>. QED
      BY <3>1, <3>2 DEF Identifiers
  <2>2. \A i \in 1..Len(data) : <<m, u, n>> # data[i]
    BY <1>2 DEF Identifiers, Own
  <2>. QED
    BY <1>1, <1>2, <2>1, <2>2
<1>3. ASSUME NEW u \in Use, NEW n \in Nat, <<loading, u, n>> \in ErrFreeData
      PROVE  FALSE
  <2>1. <<loading, u, n>> \in blocks /\ ~(u = "file" /\ n = 0)
    BY <1>1, <1>3
  <2>2. n < segment /\ Fits(loading, u, n)
    BY <1>0, <2>1 DEF Holdings, Held
  <2>3. CASE Segments[loading][n] = "exec" /\ u = "patch"
    BY <1>1, <1>3, <2>2, <2>3 DEF Identifiers, Fits
  <2>4. CASE Segments[loading][n] = "exec" /\ u = "text"
    BY <1>1, <1>3, <2>2, <2>4 DEF Identifiers, Fits
  <2>5. CASE Segments[loading][n] = "data" /\ u = "data"
    <3>1. PICK i \in 1..Len(data) : data[i] = <<loading, "data", n>>
      BY <2>2, <2>5 DEF Identifiers, Fits
    <3>. QED
      BY <1>1, <1>3, <2>5, <3>1
  <2>. QED
    BY <2>2, <2>3, <2>4, <2>5 DEF Fits
<1>. QED
  BY <1>1, <1>2, <1>3

(* A segment that is mapped, with the blocks for it.                       *)
LEMMA MapKeeps ==
  ASSUME LoaderIInv, stage = "segments", segment \in 1..Len(Segments[loading]),
         stage' = stage, segment' = segment + 1, res' \in Int,
         UNCHANGED <<files, modules, loading, answers>>,
         blocks' \subseteq Module \X Use \X Nat,
         \A m \in Module, u \in Use, n \in Nat :
           <<m, u, n>> \in blocks' <=>
             <<m, u, n>> \in blocks \/ (m = loading /\ n = segment /\ Fits(m, u, n)),
         data' \in Seq(Module \X {"data"} \X Nat), Len(data') <= MaxDataSeg,
         Identifiers'
  PROVE  LoaderIInv'
<1>. USE LoaderAssumption DEF LoaderIInv
<1>1. LoaderShape'
  BY DEF LoaderShape
<1>2. Holdings'
  <2>. SUFFICES ASSUME NEW m \in Module, NEW u \in Use, NEW n \in Nat
                PROVE  Held(m, u, n)'
    BY DEF Holdings
  <2>0. Held(m, u, n)
    BY DEF Holdings
  <2>1. n < segment + 1 <=> n < segment \/ n = segment
    BY DEF LoaderShape
  <2>2. CASE m = loading
    <3>1. <<m, u, n>> \in blocks <=> (u = "file" /\ n = 0) \/ (n < segment /\ Fits(m, u, n))
      BY <2>0, <2>2 DEF Held
    <3>2. <<m, u, n>> \in blocks' <=> <<m, u, n>> \in blocks \/ (n = segment /\ Fits(m, u, n))
      BY <2>2
    <3>. QED
      BY <2>1, <2>2, <3>1, <3>2 DEF Held
  <2>3. CASE m # loading
    <3>1. <<m, u, n>> \in blocks' <=> <<m, u, n>> \in blocks
      BY <2>3
    <3>. QED
      BY <2>0, <2>3, <3>1 DEF Held
  <2>. QED
    BY <2>2, <2>3
<1>3. Answers'
  BY DEF Answers
<1>4. InList'
  BY ListKeeps
<1>. QED
  BY <1>1, <1>2, <1>3, <1>4

LEMMA LoadNextIInv == OneText /\ LoaderIInv /\ [LoadNext]_loadVars => LoaderIInv'
<1>. SUFFICES ASSUME OneText, LoaderIInv, [LoadNext]_loadVars PROVE LoaderIInv'
  OBVIOUS
<1>a. LoaderShape /\ Holdings /\ Identifiers /\ Answers /\ InList
  BY DEF LoaderIInv
<1>. USE <1>a, LoaderAssumption
<1>0. stage # "idle" => loading \in Module
  BY DEF LoaderShape
<1>1. ASSUME NEW m \in Module, BeginLoad(m) PROVE LoaderIInv'
  <2>1. /\ stage = "idle" /\ loading = "none" /\ answers[m].at = "none" /\ m # loading
        /\ loading' = m /\ stage' = "open" /\ segment' = 0 /\ res' = 0
        /\ patch' = None /\ text' = None /\ data' = <<>>
        /\ UNCHANGED <<blocks, files, modules, answers>>
    BY <1>1 DEF BeginLoad, LoaderShape
  <2>2. LoaderShape'
    BY <2>1 DEF LoaderShape
  <2>3. Holdings'
    <3>. SUFFICES ASSUME NEW o \in Module, NEW u \in Use, NEW n \in Nat PROVE Held(o, u, n)'
      BY DEF Holdings
    <3>0. Held(o, u, n)
      BY DEF Holdings
    <3>. QED
      BY <1>0, <2>1, <3>0 DEF Held
  <2>4. Identifiers'
    BY <2>1 DEF Identifiers
  <2>5. Answers' /\ InList'
    <3>1. Answers'
      BY <2>1 DEF Answers
    <3>. QED
      BY <2>1, <3>1, ListKeeps
  <2>. QED
    BY <2>2, <2>3, <2>4, <2>5 DEF LoaderIInv
<1>2. CASE OpenFails
  <2>1. \A u \in Use, n \in Nat : <<loading, u, n>> \notin blocks
    BY <1>0, <1>2 DEF OpenFails, Holdings, Held
  <2>. QED
    <3>1. /\ blocks' = blocks /\ res' = res /\ Answered(-3, "open") /\ loading \notin files
          /\ stage # "idle" /\ UNCHANGED <<files, modules, patch, text, data, segment>>
      BY <1>2 DEF OpenFails, ErrorCode, segmentVars
    <3>2. "open" \in Outcomes \ {"none", "loaded"} /\ -3 \in Int /\ -3 < 0
      BY DEF Outcomes
    <3>3. res' \in Int
      BY <3>1 DEF LoaderShape
    <3>. QED
      BY <2>1, <3>1, <3>2, <3>3, FailKeeps
<1>3. CASE OpenFile
  <2>1. /\ stage = "open" /\ files' = files \cup {loading}
        /\ UNCHANGED <<blocks, modules, loading, stage, res, answers, patch, text, data, segment>>
    BY <1>3 DEF OpenFile, segmentVars
  <2>2. LoaderShape'
    BY <1>0, <2>1 DEF LoaderShape
  <2>3. Holdings'
    <3>. SUFFICES ASSUME NEW o \in Module, NEW u \in Use, NEW n \in Nat PROVE Held(o, u, n)'
      BY DEF Holdings
    <3>0. Held(o, u, n)
      BY DEF Holdings
    <3>. QED
      BY <1>0, <2>1, <3>0 DEF Held
  <2>5. Identifiers'
    BY <2>1 DEF Identifiers, Own
  <2>4. Answers' /\ InList'
    <3>1. Answers'
      BY <2>1 DEF Answers
    <3>. QED
      BY <2>1, <3>1, ListKeeps
  <2>. QED
    BY <2>2, <2>3, <2>4, <2>5 DEF LoaderIInv
<1>4. CASE FileBlockFails
  <2>1. \A u \in Use, n \in Nat : <<loading, u, n>> \notin blocks
    BY <1>0, <1>4 DEF FileBlockFails, Holdings, Held
  <2>. QED
    <3>1. /\ blocks' = blocks /\ res' = res /\ Answered(-3, "file block")
          /\ stage # "idle" /\ UNCHANGED <<files, modules, patch, text, data, segment>>
      BY <1>4 DEF FileBlockFails, ErrorCode, segmentVars
    <3>2. "file block" \in Outcomes \ {"none", "loaded"} /\ -3 \in Int /\ -3 < 0
      BY DEF Outcomes
    <3>3. res' \in Int
      BY <3>1 DEF LoaderShape
    <3>. QED
      BY <2>1, <3>1, <3>2, <3>3, FailKeeps
<1>5. CASE ReadFile
  <2>1. /\ stage = "open" /\ stage' = "header" /\ blocks' = blocks \cup {<<loading, "file", 0>>}
        /\ files' = files \ {loading}
        /\ UNCHANGED <<modules, loading, res, answers, patch, text, data, segment>>
    BY <1>5 DEF ReadFile, segmentVars, Block
  <2>2. LoaderShape'
    BY <1>0, <2>1 DEF LoaderShape, Use
  <2>3. Holdings'
    <3>. SUFFICES ASSUME NEW o \in Module, NEW u \in Use, NEW n \in Nat PROVE Held(o, u, n)'
      BY DEF Holdings
    <3>0. Held(o, u, n)
      BY DEF Holdings
    <3>. QED
      BY <1>0, <2>1, <3>0 DEF Held
  <2>4. Identifiers'
    BY <2>1 DEF Identifiers, Own
  <2>5. Answers' /\ InList'
    <3>1. Answers'
      BY <2>1 DEF Answers
    <3>. QED
      BY <2>1, <3>1, ListKeeps
  <2>. QED
    BY <2>2, <2>3, <2>4, <2>5 DEF LoaderIInv
<1>6. CASE BadMagic
  <2>1. stage = "header" /\ Fail(ErrFreeSo, -1, "magic") /\ loading \notin files
    BY <1>0, <1>6 DEF BadMagic, Answers, LoaderShape
  <2>. QED
    <3>1. /\ blocks' = ErrFreeSo /\ res' = -1 /\ Answered(-1, "magic") /\ stage # "idle"
          /\ UNCHANGED <<files, modules, patch, text, data, segment>>
      BY <2>1 DEF Fail, segmentVars
    <3>2. -1 \in Int /\ -1 < 0 /\ "magic" \in Outcomes \ {"none", "loaded"}
      BY DEF Outcomes
    <3>3. /\ ErrFreeSo \in SUBSET blocks
          /\ \A m \in Module \ {loading} : \A u \in Use, n \in Nat :
               <<m, u, n>> \in blocks => <<m, u, n>> \in ErrFreeSo
          /\ \A u \in Use, n \in Nat : <<loading, u, n>> \notin ErrFreeSo
      BY <2>1, FreeSo
    <3>. QED
      BY <2>1, <3>1, <3>2, <3>3, FailKeeps
<1>7. CASE GoodMagic
  <2>1. /\ stage = "header" /\ stage' = "segments" /\ segment' = 1
        /\ UNCHANGED <<blocks, files, modules, loading, patch, text, data, res, answers>>
    BY <1>7 DEF GoodMagic
  <2>2. LoaderShape'
    <3>1. Len(Segments[loading]) \in Nat
      BY <1>0, <2>1
    <3>. QED
      BY <1>0, <2>1, <3>1 DEF LoaderShape
  <2>3. Holdings'
    <3>1. ASSUME NEW n \in Nat, NEW u PROVE ~(n < 1 /\ Fits(loading, u, n))
      BY DEF Fits
    <3>. SUFFICES ASSUME NEW o \in Module, NEW u \in Use, NEW n \in Nat PROVE Held(o, u, n)'
      BY DEF Holdings
    <3>2. Held(o, u, n)
      BY DEF Holdings
    <3>. QED
      BY <1>0, <2>1, <3>1, <3>2 DEF Held
  <2>4. Identifiers'
    BY <1>0, <2>1 DEF Identifiers, Own
  <2>5. Answers' /\ InList'
    <3>1. Answers'
      BY <2>1 DEF Answers
    <3>. QED
      BY <2>1, <3>1, ListKeeps
  <2>. QED
    BY <2>2, <2>3, <2>4, <2>5 DEF LoaderIInv
<1>. DEFINE kind == Segments[loading][segment]
<1>8. ASSUME stage = "segments" PROVE loading \notin files /\ loading \in Module
  BY <1>0, <1>8 DEF Answers, LoaderShape
<1>9. ASSUME NEW k, AtSegment(k)
      PROVE  stage = "segments" /\ segment \in 1..Len(Segments[loading]) /\ kind = k
  BY <1>0, <1>9 DEF AtSegment, LoaderShape
<1>10. CASE SkipSegment
  <2>1. /\ stage' = stage /\ segment' = segment + 1
        /\ UNCHANGED <<blocks, files, modules, loading, patch, text, data, res, answers>>
    BY <1>10 DEF SkipSegment
  <2>2. stage = "segments" /\ segment \in 1..Len(Segments[loading]) /\ kind = "skip"
    BY <1>9, <1>10 DEF SkipSegment
  <2>3. \A u \in Use : ~Fits(loading, u, segment)
    BY <2>2 DEF Fits
  <2>4. Identifiers'
    <3>1. \A n \in 1..Len(Segments[loading]) : n < segment + 1 => n < segment \/ n = segment
      BY <2>2
    <3>. QED
      BY <2>1, <2>2, <3>1 DEF Identifiers, Own
  <2>. QED
    BY <2>1, <2>2, <2>3, <2>4, MapKeeps DEF LoaderShape
<1>11. CASE PatchFails
  <2>1. stage = "segments" /\ AtSegment("exec") /\ Fail(ErrFreeSo, ErrorCode, "patch")
    BY <1>9, <1>11 DEF PatchFails
  <2>. QED
    <3>1. /\ blocks' = ErrFreeSo /\ res' = -3 /\ Answered(-3, "patch") /\ stage # "idle"
          /\ UNCHANGED <<files, modules, patch, text, data, segment>>
      BY <2>1 DEF Fail, ErrorCode, segmentVars
    <3>2. -3 \in Int /\ -3 < 0 /\ "patch" \in Outcomes \ {"none", "loaded"}
      BY DEF Outcomes
    <3>3. /\ ErrFreeSo \in SUBSET blocks
          /\ \A m \in Module \ {loading} : \A u \in Use, n \in Nat :
               <<m, u, n>> \in blocks => <<m, u, n>> \in ErrFreeSo
          /\ \A u \in Use, n \in Nat : <<loading, u, n>> \in ErrFreeSo => u = "data"
      BY <2>1, FreeSo
    <3>4. loading \notin files
      BY <1>8, <2>1
    <3>. DEFINE r == -3 site == "patch" freed == ErrFreeSo
    <3>5. /\ blocks' = freed /\ res' = r /\ Answered(r, site) /\ r \in Int /\ r < 0
          /\ site \in Outcomes \ {"none", "loaded"} /\ freed \in SUBSET blocks
      BY <3>1, <3>2, <3>3
    <3>6. /\ \A m \in Module \ {loading} : \A u \in Use, n \in Nat :
               <<m, u, n>> \in blocks => <<m, u, n>> \in freed
          /\ \A u \in Use, n \in Nat : <<loading, u, n>> \in freed => site = "patch" /\ u = "data"
      BY <3>3
    <3>. HIDE DEF r, site, freed
    <3>. QED
      BY <3>1, <3>4, <3>5, <3>6, FailKeeps, ZenonT(30)
<1>12. ASSUME NEW r \in Int, NEW site \in {"text", "segments", "data", "sections"},
              stage = "segments", Fail(ErrFreeData, r, site), site # "segments" => r < 0
       PROVE  LoaderIInv'
  BY <1>8, <1>12, FreeData, FailKeeps DEF Fail, Outcomes, segmentVars
<1>13. CASE TextFails \/ DataFails
  BY <1>9, <1>12, <1>13 DEF TextFails, DataFails, ErrorCode
<1>14. CASE TooManySegments
  BY <1>9, <1>12, <1>14 DEF TooManySegments, LoaderShape
<1>15. CASE SectionsMissing
  BY <1>12, <1>15 DEF SectionsMissing
<1>16. CASE MapExec
  <2>1. /\ patch' = <<loading, "patch", segment>> /\ text' = <<loading, "text", segment>>
        /\ blocks' = blocks \cup {<<loading, "patch", segment>>, <<loading, "text", segment>>}
        /\ res' = 1 /\ segment' = segment + 1
        /\ UNCHANGED <<files, modules, loading, stage, data, answers>>
    BY <1>16 DEF MapExec, Block, SomeId
  <2>2. stage = "segments" /\ segment \in 1..Len(Segments[loading]) /\ kind = "exec"
        /\ loading \in Module
    BY <1>8, <1>9, <1>16 DEF MapExec
  <2>3. \A u \in Use : Fits(loading, u, segment) <=> u \in {"patch", "text"}
    BY <2>2 DEF Fits
  <2>4. blocks' \subseteq Module \X Use \X Nat
    BY <2>1, <2>2 DEF LoaderShape, Use
  <2>5. Identifiers'
    <3>1. \A n \in 1..Len(Segments[loading]) :
            n < segment + 1 /\ Segments[loading][n] = "exec" => n = segment
      BY <2>2 DEF OneText
    <3>2. \A n \in 1..Len(Segments[loading]) :
            n < segment + 1 /\ Segments[loading][n] = "data" => n < segment
      BY <2>2
    <3>3. \A n \in 1..Len(Segments[loading]) : n < segment + 1 =>
            /\ Segments[loading][n] = "exec" =>
                 patch' = <<loading, "patch", n>> /\ text' = <<loading, "text", n>>
            /\ Segments[loading][n] = "data" =>
                 \E i \in 1..Len(data) : data[i] = <<loading, "data", n>>
      BY <2>1, <2>2, <3>1, <3>2 DEF Identifiers
    <3>4. /\ \E n \in Nat : patch' = <<loading, "patch", n>>
          /\ \E n \in Nat : text' = <<loading, "text", n>>
          /\ \A i \in 1..Len(data) : \E n \in Nat : data[i] = <<loading, "data", n>>
      BY <2>1, <2>2 DEF Identifiers, Own
    <3>. QED
      BY <2>1, <2>2, <3>3, <3>4 DEF Identifiers, Own
  <2>. QED
    BY <2>1, <2>2, <2>3, <2>4, <2>5, MapKeeps DEF LoaderShape
<1>17. CASE MapData
  <2>1. /\ data' = Append(data, <<loading, "data", segment>>)
        /\ blocks' = blocks \cup {<<loading, "data", segment>>}
        /\ res' = 1 /\ segment' = segment + 1 /\ ~TooMany
        /\ UNCHANGED <<files, modules, loading, stage, patch, text, answers>>
    BY <1>17 DEF MapData, Block, SomeId
  <2>2. stage = "segments" /\ segment \in 1..Len(Segments[loading]) /\ kind = "data"
        /\ loading \in Module
    BY <1>8, <1>9, <1>17 DEF MapData
  <2>3. \A u \in Use : Fits(loading, u, segment) <=> u = "data"
    BY <2>2 DEF Fits
  <2>4. blocks' \subseteq Module \X Use \X Nat
    BY <2>1, <2>2 DEF LoaderShape, Use
  <2>5. /\ data' \in Seq(Module \X {"data"} \X Nat) /\ Len(data') = Len(data) + 1
        /\ data'[Len(data) + 1] = <<loading, "data", segment>>
        /\ \A i \in 1..Len(data) : data'[i] = data[i]
    BY <2>1, <2>2 DEF LoaderShape
  <2>6. Len(data') <= MaxDataSeg
    BY <2>1, <2>5 DEF TooMany, LoaderShape
  <2>7. Identifiers'
    <3>1. \A n \in 1..Len(Segments[loading]) :
            n < segment + 1 /\ Segments[loading][n] = "exec" => n < segment
      BY <2>2
    <3>2. \A n \in 1..Len(Segments[loading]) : n < segment + 1 => n < segment \/ n = segment
      BY <2>2
    <3>3. Len(data) \in Nat
      BY DEF LoaderShape
    <3>a. /\ Len(data) + 1 \in 1..Len(data') /\ \A i \in 1..Len(data) : i \in 1..Len(data')
          /\ \A i \in 1..Len(data') : i \in 1..Len(data) \/ i = Len(data) + 1
      <4>. DEFINE k == Len(data) l == Len(data')
      <4>1. k \in Nat /\ l = k + 1
        BY <2>5, <3>3
      <4>. HIDE DEF k, l
      <4>2. k + 1 \in 1..l /\ (\A i \in 1..k : i \in 1..l) /\ \A i \in 1..l : i \in 1..k \/ i = k + 1
        BY ONLY <4>1
      <4>. QED
        BY <4>2 DEF k, l
    <3>4. \A i \in 1..Len(data') : \E n \in Nat : data'[i] = <<loading, "data", n>>
      <4>1. ASSUME NEW i \in 1..Len(data) PROVE \E n \in Nat : data'[i] = <<loading, "data", n>>
        <5>1. Own(data[i], "data")
          BY <2>2, <4>1 DEF Identifiers
        <5>2. data'[i] = data[i]
          BY <2>5, <4>1
        <5>. QED
          BY <5>1, <5>2 DEF Own
      <4>2. \E n \in Nat : data'[Len(data) + 1] = <<loading, "data", n>>
        BY <2>2, <2>5
      <4>. QED
        BY <3>a, <4>1, <4>2
    <3>5. ASSUME NEW n \in 1..Len(Segments[loading]), n < segment + 1,
                 Segments[loading][n] = "data"
          PROVE  \E i \in 1..Len(data') : data'[i] = <<loading, "data", n>>
      <4>1. CASE n < segment
        <5>1. PICK i \in 1..Len(data) : data[i] = <<loading, "data", n>>
          BY <2>2, <3>5, <4>1 DEF Identifiers
        <5>2. i \in 1..Len(data') /\ data'[i] = data[i]
          BY <2>5, <3>a, <5>1
        <5>. QED
          BY <5>1, <5>2
      <4>2. CASE n = segment
        BY <2>5, <3>a, <4>2
      <4>. QED
        BY <3>2, <3>5, <4>1, <4>2
    <3>. QED
      BY <2>1, <2>2, <3>1, <3>4, <3>5 DEF Identifiers, Own
  <2>. QED
    BY <2>1, <2>2, <2>3, <2>4, <2>5, <2>6, <2>7, MapKeeps DEF LoaderShape
<1>18. CASE Loaded
  <2>1. /\ stage = "segments" /\ segment > Len(Segments[loading]) /\ loading \in Module
        /\ loading \notin files
    BY <1>8, <1>18 DEF Loaded
  <2>2. /\ blocks' = blocks \ {<<loading, "file", 0>>} /\ modules' = Append(modules, loading)
        /\ stage' = "idle" /\ loading' = "none"
        /\ answers' = [answers EXCEPT ![loading] = [res |-> 0, at |-> "loaded"]]
        /\ UNCHANGED <<files, res, patch, text, data, segment>>
    BY <1>18 DEF Loaded, Link, Block, Answered, segmentVars
  <2>3. /\ answers'[loading] = [res |-> 0, at |-> "loaded"]
        /\ \A m \in Module : m # loading => answers'[m] = answers[m]
        /\ answers[loading].at = "none"
    BY <2>1, <2>2 DEF LoaderShape
  <2>4. LoaderShape'
    <3>1. modules' \in Seq(Module)
      BY <2>1, <2>2 DEF LoaderShape
    <3>2. answers' \in [Module -> [res : Int, at : Outcomes]]
      <4>1. [res |-> 0, at |-> "loaded"] \in [res : Int, at : Outcomes]
        BY DEF Outcomes
      <4>2. answers \in [Module -> [res : Int, at : Outcomes]]
        BY DEF LoaderShape
      <4>. QED
        BY <2>1, <2>2, <4>1, <4>2
    <3>3. blocks' \subseteq Module \X Use \X Nat
      BY <2>2 DEF LoaderShape
    <3>. QED
      BY <2>1, <2>2, <3>1, <3>2, <3>3 DEF LoaderShape
  <2>5. Holdings'
    <3>. SUFFICES ASSUME NEW m \in Module, NEW u \in Use, NEW n \in Nat
                  PROVE  Held(m, u, n)'
      BY DEF Holdings
    <3>a. SUFFICES /\ answers'[m].at = "loaded" => (<<m, u, n>> \in blocks' <=> Fits(m, u, n))
                   /\ answers'[m].at # "loaded" /\ <<m, u, n>> \in blocks' =>
                        answers'[m].at = "patch" /\ u = "data"
      BY <2>2 DEF Held
    <3>b. Held(m, u, n)
      BY DEF Holdings
    <3>1. CASE m # loading
      <4>1. <<m, u, n>> \in blocks' <=> <<m, u, n>> \in blocks
        BY <2>2, <3>1
      <4>. QED
        BY <2>3, <3>1, <3>b, <4>1 DEF Held
    <3>2. CASE m = loading
      <4>1. <<m, u, n>> \in blocks <=> (u = "file" /\ n = 0) \/ (n < segment /\ Fits(m, u, n))
        BY <2>1, <3>2, <3>b DEF Held
      <4>2. Fits(m, u, n) => n < segment /\ u # "file"
        <5>1. Len(Segments[m]) \in Nat
          OBVIOUS
        <5>. QED
          BY <2>1, <3>2, <5>1 DEF Fits, LoaderShape
      <4>3. <<m, u, n>> \in blocks' <=> <<m, u, n>> \in blocks /\ ~(u = "file" /\ n = 0)
        BY <2>2, <3>2
      <4>. QED
        BY <2>3, <3>2, <4>1, <4>2, <4>3
    <3>. QED
      BY <3>1, <3>2
  <2>6. Identifiers'
    BY <2>2 DEF Identifiers
  <2>7. Answers'
    BY <2>1, <2>2, <2>3 DEF Answers, LoaderShape
  <2>8. InList'
    <3>1. Listed' = Listed \cup {loading} /\ loading \notin Listed
      BY <2>1, <2>3 DEF Listed
    <3>2. IsFiniteSet(Listed') /\ Cardinality(Listed') = Cardinality(Listed) + 1
      BY <3>1, FS_AddElement DEF InList
    <3>3. /\ Len(modules') = Len(modules) + 1 /\ Len(modules) \in Nat
          /\ modules'[Len(modules) + 1] = loading
          /\ \A i \in 1..Len(modules) : modules'[i] = modules[i]
      BY <2>1, <2>2 DEF LoaderShape
    <3>4. {modules'[i] : i \in 1..Len(modules')} = {modules[i] : i \in 1..Len(modules)} \cup {loading}
      <4>1. 1..Len(modules') = 1..Len(modules) \cup {Len(modules) + 1}
        BY <3>3
      <4>. QED
        BY <3>3, <4>1
    <3>. QED
      BY <3>1, <3>2, <3>3, <3>4 DEF InList
  <2>. QED
    BY <2>4, <2>5, <2>6, <2>7, <2>8 DEF LoaderIInv
<1>19. CASE UNCHANGED loadVars
  <2>1. UNCHANGED <<blocks, files, modules, loading, stage, segment, patch, text, data, res, answers>>
    BY <1>19 DEF loadVars
  <2>2. LoaderShape' /\ Holdings'
    BY <2>1 DEF LoaderShape, Holdings, Held
  <2>3. Identifiers'
    BY <2>1 DEF Identifiers, Own
  <2>4. Answers' /\ InList'
    <3>1. Answers'
      BY <2>1 DEF Answers
    <3>. QED
      BY <2>1, <3>1, ListKeeps
  <2>. QED
    BY <2>2, <2>3, <2>4 DEF LoaderIInv
<1>. QED
  BY <1>1, <1>2, <1>3, <1>4, <1>5, <1>6, <1>7, <1>10, <1>11, <1>13, <1>14, <1>15, <1>16, <1>17,
     <1>18, <1>19
  DEF LoadNext, LoadStep

LEMMA LoaderIInvImplies == LoaderIInv => LoaderInv
<1>. SUFFICES ASSUME LoaderIInv PROVE LoaderInv
  OBVIOUS
<1>. USE LoaderAssumption DEF LoaderIInv
<1>1. LoadTypeOK
  BY DEF LoadTypeOK, LoaderShape
<1>2. \A m \in Module : DOMAIN Segments[m] = 1..Len(Segments[m])
  OBVIOUS
<1>3. ListedAreMapped
  <2>. SUFFICES ASSUME NEW i \in DOMAIN modules, NEW m, m = modules[i]
                PROVE  BlocksOf(m) =
                         UNION {IF Segments[m][n] = "exec" THEN {<<m, "patch", n>>, <<m, "text", n>>}
                                                           ELSE {<<m, "data", n>>} : n \in MappedSegments(m)}
    BY DEF ListedAreMapped
  <2>1. m \in Listed /\ m \in Module /\ m # loading
    <3>1. i \in 1..Len(modules)
      BY DEF LoaderShape
    <3>2. m \in Listed
      BY <3>1 DEF InList
    <3>. QED
      BY <3>2 DEF Listed, LoaderShape
  <2> DEFINE its(n) == IF Segments[m][n] = "exec" THEN {<<m, "patch", n>>, <<m, "text", n>>}
                                                  ELSE {<<m, "data", n>>}
  <2>2. \A u \in Use, n \in Nat : <<m, u, n>> \in blocks <=> Fits(m, u, n)
    BY <2>1 DEF Holdings, Held, Listed
  <2>3. ASSUME NEW b \in BlocksOf(m) PROVE \E n \in MappedSegments(m) : b \in its(n)
    <3>1. PICK u \in Use, n \in Nat : b = <<m, u, n>> /\ b \in blocks
      BY <2>3 DEF BlocksOf, LoaderShape
    <3>2. Fits(m, u, n)
      BY <2>2, <3>1
    <3>3. n \in MappedSegments(m)
      BY <1>2, <2>1, <3>2 DEF MappedSegments, Fits
    <3>. QED
      BY <3>1, <3>2, <3>3 DEF Fits
  <2>4. ASSUME NEW n \in MappedSegments(m), NEW b \in its(n) PROVE b \in BlocksOf(m)
    <3>1. n \in 1..Len(Segments[m]) /\ n \in Nat /\ Segments[m][n] \in {"exec", "data"}
      BY <1>2, <2>1, <2>4 DEF MappedSegments
    <3>2. PICK u \in Use : b = <<m, u, n>> /\ Fits(m, u, n)
      BY <2>4, <3>1 DEF Fits, Use
    <3>. QED
      BY <2>2, <3>1, <3>2 DEF BlocksOf
  <2>. HIDE DEF its
  <2>5. BlocksOf(m) = UNION {its(n) : n \in MappedSegments(m)}
    BY <2>3, <2>4
  <2>. QED
    BY <2>5 DEF its
<1>4. ListIsOfLoaded
  <2>1. DOMAIN modules = 1..Len(modules)
    BY DEF LoaderShape
  <2>. QED
    BY <2>1 DEF ListIsOfLoaded, InList, Listed
<1>5. FailureGivesBack
  <2>. SUFFICES ASSUME NEW m \in Module, answers[m].at # "none", answers[m].at # "loaded",
                       NEW b \in BlocksOf(m)
                PROVE  answers[m].at = "patch" /\ b[2] = "data"
    BY DEF FailureGivesBack, Ended, BlocksOf
  <2>1. m # loading
    BY DEF LoaderShape
  <2>2. PICK u \in Use, n \in Nat : b = <<m, u, n>> /\ b \in blocks
    BY DEF BlocksOf, LoaderShape
  <2>. QED
    BY <2>1, <2>2 DEF Holdings, Held
<1>6. FilesClosed /\ FailuresAnswerNegative
  BY DEF FilesClosed, FailuresAnswerNegative, Ended, Answers, LoaderShape
<1>. QED
  BY <1>1, <1>3, <1>4, <1>5, <1>6 DEF LoaderInv

(* Whatever segments the modules have, as long as each has one of code, a  *)
(* load either maps all of them or leaves nothing behind but what the      *)
(* property names, and its answer tells which.                             *)
THEOREM LoadsGiveBack == OneText /\ LoadSpec => []LoaderInv
<1>1. OneText /\ LoadInit => LoaderIInv
  BY LoadInitIInv
<1>2. OneText /\ LoaderIInv /\ [LoadNext]_loadVars => LoaderIInv'
  BY LoadNextIInv
<1>3. LoaderIInv => LoaderInv
  BY LoaderIInvImplies
<1>. SUFFICES ASSUME OneText PROVE LoadSpec => []LoaderInv
  OBVIOUS
<1>. QED
  BY <1>1, <1>2, <1>3, PTL DEF LoadSpec

-----------------------------------------------------------------------------
(* hook_addr, so_unhook, SO_CONTINUE and the hooks over libzip.            *)

Index == 0..(Halfwords - 1)
Original(e) == [k \in 1..4 |-> OwnHalf(Start(e) + k - 1)]
Holds(e, row) == \A k \in 1..4 : code[Start(e) + k - 1] = row[k]

LEMMA Places ==
  ASSUME NEW e \in Entries
  PROVE  /\ e.at \in Int /\ Start(e) \in Int /\ e.thumb \in BOOLEAN
         /\ Start(e) \in {e.at, e.at + 1}
         /\ Unaligned(e) <=> Start(e) = e.at + 1
         /\ Window(e) \subseteq Index
         /\ \A k \in 1..4 : Start(e) + k - 1 \in Window(e)
         /\ e.at \in Window(e)
         /\ Start(e) % 2 = 0
         /\ ~e.thumb => Start(e) = e.at
<1>1. e \in [at : 0..(Halfwords - 5), thumb : BOOLEAN] /\ Halfwords \in Nat
      /\ (~e.thumb => e.at % 2 = 0)
  BY HookAssumption
<1>2. e.at \in 0..(Halfwords - 5) /\ e.thumb \in BOOLEAN /\ e.at \in Int
  BY <1>1
<1>3. Start(e) = IF Unaligned(e) THEN e.at + 1 ELSE e.at
  BY DEF Start
<1>4. Start(e) \in {e.at, e.at + 1} /\ (Unaligned(e) <=> Start(e) = e.at + 1)
  BY <1>2, <1>3
<1>5. Window(e) \subseteq Index /\ e.at \in Window(e)
      /\ \A k \in 1..4 : Start(e) + k - 1 \in Window(e)
  BY <1>1, <1>2, <1>4 DEF Window, Index
<1>6. e.at % 2 \in {0, 1} /\ ((e.at + 1) % 2 = 0 <=> e.at % 2 = 1)
  BY <1>2
<1>7. Start(e) % 2 = 0
  <2>1. CASE Unaligned(e)
    BY <1>3, <1>6, <2>1 DEF Unaligned
  <2>2. CASE ~Unaligned(e)
    <3>1. e.at % 2 = 0
      BY <1>1, <1>2, <1>6, <2>2 DEF Unaligned
    <3>. QED
      BY <1>3, <2>2, <3>1
  <2>. QED
    BY <2>1, <2>2
<1>8. ~e.thumb => Start(e) = e.at
  BY <1>3 DEF Unaligned
<1>. QED
  BY <1>2, <1>4, <1>5, <1>7, <1>8

LEMMA FourOf ==
  ASSUME NEW a, NEW b, NEW c, NEW d
  PROVE  /\ (<<a, b>> \o <<c, d>>)[1] = a /\ (<<a, b>> \o <<c, d>>)[2] = b
         /\ (<<a, b>> \o <<c, d>>)[3] = c /\ (<<a, b>> \o <<c, d>>)[4] = d
  OBVIOUS

(* The four halfwords of a jump.                                           *)
LEMMA PatchIs ==
  ASSUME NEW e, e.thumb \in BOOLEAN, NEW dst
  PROVE  /\ PatchOf(e, dst)[1] = Jump(e.thumb)[1] /\ PatchOf(e, dst)[2] = Jump(e.thumb)[2]
         /\ PatchOf(e, dst)[3] = <<dst, 1>> /\ PatchOf(e, dst)[4] = <<dst, 2>>
<1>1. PICK a, b : Jump(e.thumb) = <<a, b>>
  BY DEF Jump
<1>2. PatchOf(e, dst) = <<a, b>> \o <<<<dst, 1>>, <<dst, 2>>>>
  BY <1>1 DEF PatchOf
<1>. QED
  BY <1>1, <1>2, FourOf

(* Writing four halfwords over a function touches no other.                *)
WritesOne(w, c, e, row) ==
  /\ DOMAIN w = Index
  /\ \A k \in 1..4 : w[Start(e) + k - 1] = row[k]
  /\ \A f \in Entries : f # e => \A n \in Window(f) : w[n] = c[n]
  /\ Unaligned(e) => w[e.at] = c[e.at]

LEMMA Writes ==
  ASSUME Apart, NEW e \in Entries, NEW c, DOMAIN c = Index, NEW row
  PROVE  WritesOne(Written(c, Start(e), row), c, e, row)
<1>. DEFINE w == Written(c, Start(e), row)
<1>1. w = [n \in Index |-> IF n \in Start(e)..(Start(e) + 3) THEN row[n - Start(e) + 1] ELSE c[n]]
  BY DEF Written
<1>2. /\ e.at \in Int /\ Start(e) \in Int /\ Window(e) \subseteq Index
      /\ Start(e) \in {e.at, e.at + 1} /\ (Unaligned(e) <=> Start(e) = e.at + 1)
      /\ e.at \in Window(e)
  BY Places
<1>3. ASSUME NEW k \in 1..4 PROVE w[Start(e) + k - 1] = row[k]
  <2> DEFINE n == Start(e) + k - 1
  <2>2. n \in Index /\ n \in Start(e)..(Start(e) + 3) /\ n - Start(e) + 1 = k
    <3>1. n \in Window(e)
      BY Places
    <3>. QED
      BY <1>2, <3>1
  <2> HIDE DEF n
  <2>3. w[n] = row[n - Start(e) + 1]
    BY <1>1, <2>2
  <2>4. w[n] = row[k]
    BY <2>2, <2>3
  <2>. QED
    BY <2>4 DEF n
<1>4. ASSUME NEW f \in Entries, f # e, NEW n \in Window(f) PROVE w[n] = c[n]
  <2>1. n \in Index /\ n \notin Window(e) /\ n \in Int
    BY <1>4, Places DEF Apart, Index
  <2>2. n \notin Start(e)..(Start(e) + 3)
    BY <1>2, <2>1 DEF Window
  <2>. QED
    BY <1>1, <2>1, <2>2
<1>5. ASSUME Unaligned(e) PROVE w[e.at] = c[e.at]
  BY <1>1, <1>2, <1>5
<1>6. DOMAIN w = Index
  BY <1>1
<1>. QED
  BY <1>3, <1>4, <1>5, <1>6 DEF WritesOne

-----------------------------------------------------------------------------
HookShape ==
  /\ DOMAIN code = Index
  /\ DOMAIN hook = Entries
  /\ armed \in [Entries -> {"no", "yes", "call"}]

(* What a function's words and its hook hold, as far as it is hooked.      *)
Kempt(e) ==
  /\ armed[e] = "yes" => Holds(e, PatchOf(e, hook[e].dst))
  /\ armed[e] # "yes" => Holds(e, Original(e))
  /\ armed[e] # "no" =>
       /\ hook[e].orig = Original(e) /\ hook[e].patch = PatchOf(e, hook[e].dst)
       /\ Unaligned(e) => code[e.at] = Nop
  /\ Unaligned(e) => code[e.at] \in {OwnHalf(e.at), Nop}

HookIInv == HookShape /\ \A e \in Entries : Kempt(e)

LEMMA HookInitIInv == HookInit => HookIInv
<1>. SUFFICES ASSUME HookInit PROVE HookIInv
  OBVIOUS
<1>1. /\ code = [n \in Index |-> OwnHalf(n)] /\ DOMAIN hook = Entries
      /\ armed = [e \in Entries |-> "no"]
  BY DEF HookInit, Index
<1>2. HookShape
  BY <1>1 DEF HookShape
<1>3. ASSUME NEW e \in Entries PROVE Kempt(e)
  <2>1. \A n \in Window(e) : code[n] = OwnHalf(n)
    BY <1>1, Places
  <2>2. Holds(e, Original(e)) /\ code[e.at] = OwnHalf(e.at)
    BY <2>1, Places DEF Holds, Original
  <2>. QED
    BY <1>1, <2>2 DEF Kempt
<1>. QED
  BY <1>2, <1>3 DEF HookIInv

Elsewhere(c, e) == \A f \in Entries : f # e => \A n \in Window(f) : c[n] = code[n]
Unmoved(h, e) == DOMAIN h = Entries /\ \A f \in Entries : f # e => h[f] = hook[f]
KemptBut(e) == HookShape /\ \A f \in Entries : f # e => Kempt(f)

(* One function is written; the others are as they were.                   *)
LEMMA OthersKept ==
  ASSUME Apart, HookIInv, NEW e \in Entries, NEW c, DOMAIN c = Index, NEW row, NEW a,
         Elsewhere(c, e), code' = Written(c, Start(e), row),
         Unmoved(hook', e),
         a \in {"no", "yes", "call"}, armed' = [armed EXCEPT ![e] = a]
  PROVE  KemptBut(e)' /\ armed'[e] = a
<1>0. WritesOne(code', c, e, row)
  BY Writes
<1>1. HookShape' /\ armed'[e] = a /\ \A f \in Entries : f # e => armed'[f] = armed[f]
  BY <1>0 DEF HookShape, HookIInv, WritesOne, Unmoved
<1>2. ASSUME NEW f \in Entries, f # e PROVE Kempt(f)'
  <2>1. \A n \in Window(f) : code'[n] = code[n]
    <3>1. \A n \in Window(f) : code'[n] = c[n] /\ c[n] = code[n]
      BY <1>0, <1>2 DEF WritesOne, Elsewhere
    <3>. QED
      BY <3>1
  <2>2. /\ \A k \in 1..4 : code'[Start(f) + k - 1] = code[Start(f) + k - 1]
        /\ code'[f.at] = code[f.at]
    BY <2>1, Places
  <2>3. hook'[f] = hook[f] /\ armed'[f] = armed[f]
    BY <1>1, <1>2 DEF Unmoved
  <2>4. Kempt(f)
    BY DEF HookIInv
  <2>. QED
    BY <2>2, <2>3, <2>4 DEF Kempt, Holds
<1>. QED
  BY <1>1, <1>2 DEF KemptBut

LEMMA HookAddrKeeps ==
  ASSUME Apart, HookIInv, NEW e \in Entries, armed[e] = "no", NEW dst, HookAddr(e, dst)
  PROVE  /\ HookIInv'
         /\ armed' = [armed EXCEPT ![e] = "yes"]
         /\ hook'[e].dst = dst /\ hook'[e].orig = Original(e)
         /\ \A f \in Entries : f # e => hook'[f] = hook[f]
<1>. DEFINE c == Padded(e)
            h == [orig |-> Kept(c, Start(e)), patch |-> PatchOf(e, dst), dst |-> dst]
<1>1. /\ hook' = [hook EXCEPT ![e] = h] /\ code' = Written(c, Start(e), PatchOf(e, dst))
      /\ armed' = [armed EXCEPT ![e] = "yes"]
  BY DEF HookAddr
<1>2. /\ DOMAIN c = Index
      /\ \A n \in Index : c[n] = IF Unaligned(e) /\ n = e.at THEN Nop ELSE code[n]
  BY Places DEF Padded, HookIInv, HookShape
<1>3. Elsewhere(c, e)
  BY <1>2, Places DEF Apart, Elsewhere
<1>4. Kept(c, Start(e)) = Original(e)
  <2>1. Holds(e, Original(e))
    BY DEF HookIInv, Kempt
  <2>2. ASSUME NEW k \in 1..4 PROVE c[Start(e) + k - 1] = OwnHalf(Start(e) + k - 1)
    <3>1. Start(e) + k - 1 \in Index /\ (Unaligned(e) => Start(e) + k - 1 # e.at)
      BY Places
    <3>2. c[Start(e) + k - 1] = code[Start(e) + k - 1]
      BY <1>2, <3>1
    <3>. QED
      BY <2>1, <3>2 DEF Holds, Original
  <2>. QED
    BY <2>2 DEF Kept, Original
<1>5. hook'[e] = h /\ DOMAIN hook' = Entries /\ \A f \in Entries : f # e => hook'[f] = hook[f]
  BY <1>1 DEF HookIInv, HookShape
<1>6. h.orig = Original(e) /\ h.patch = PatchOf(e, dst) /\ h.dst = dst
  BY <1>4
<1>. DEFINE row == PatchOf(e, dst)
<1>. HIDE DEF c, h, row
<1>a. code' = Written(c, Start(e), row)
  BY <1>1 DEF row
<1>b. "yes" \in {"no", "yes", "call"}
  OBVIOUS
<1>c. WritesOne(code', c, e, row)
  BY <1>2, <1>a, Writes
<1>7. KemptBut(e)' /\ armed'[e] = "yes"
  <2>1. armed' = [armed EXCEPT ![e] = "yes"] /\ Unmoved(hook', e) /\ DOMAIN c = Index
    BY <1>1, <1>2, <1>5 DEF Unmoved
  <2>. QED
    BY <2>1, <1>3, <1>a, <1>b, OthersKept
<1>8. Kempt(e)'
  <2>1. Holds(e, row)'
    BY <1>c DEF Holds, WritesOne, row
  <2>2. Unaligned(e) => code'[e.at] = Nop
    <3>1. Unaligned(e) => code'[e.at] = c[e.at]
      BY <1>c DEF WritesOne
    <3>. QED
      BY <1>2, <3>1, Places
  <2>. QED
    BY <1>5, <1>6, <1>7, <2>1, <2>2 DEF Kempt, KemptBut, Holds, row
<1>. QED
  BY <1>1, <1>5, <1>6, <1>7, <1>8 DEF HookIInv, KemptBut

(* so_unhook and the restoring half of SO_CONTINUE.                        *)
LEMMA RestoreKeeps ==
  ASSUME Apart, HookIInv, NEW e \in Entries, armed[e] = "yes", NEW a \in {"no", "call"},
         code' = Written(code, Start(e), hook[e].orig),
         armed' = [armed EXCEPT ![e] = a], hook' = hook
  PROVE  HookIInv'
<1>1. hook[e].orig = Original(e) /\ hook[e].patch = PatchOf(e, hook[e].dst)
      /\ (Unaligned(e) => code[e.at] = Nop) /\ DOMAIN code = Index /\ DOMAIN hook = Entries
  BY DEF HookIInv, Kempt, HookShape
<1>. DEFINE row == hook[e].orig
<1>. HIDE DEF row
<1>a. code' = Written(code, Start(e), row)
  BY DEF row
<1>b. DOMAIN hook' = Entries /\ a \in {"no", "yes", "call"}
  BY <1>1
<1>c. WritesOne(code', code, e, row)
  BY <1>1, <1>a, Writes
<1>2. KemptBut(e)' /\ armed'[e] = a
  BY <1>1, <1>a, <1>b, OthersKept DEF Elsewhere, Unmoved
<1>3. Kempt(e)'
  <2>0. Holds(e, row)'
    BY <1>c DEF Holds, WritesOne, row
  <2>1. Holds(e, Original(e))'
    BY <1>1, <2>0 DEF Holds, row, Original
  <2>2. Unaligned(e) => code'[e.at] = Nop
    BY <1>1, <1>c DEF WritesOne
  <2>. QED
    BY <1>1, <1>2, <2>1, <2>2 DEF Kempt, Holds
<1>. QED
  BY <1>2, <1>3 DEF HookIInv, KemptBut

LEMMA ContinueKeeps ==
  ASSUME Apart, HookIInv, NEW e \in Entries, armed[e] = "call", ContinueReturns(e)
  PROVE  HookIInv'
<1>1. hook[e].orig = Original(e) /\ hook[e].patch = PatchOf(e, hook[e].dst)
      /\ (Unaligned(e) => code[e.at] = Nop) /\ DOMAIN code = Index /\ DOMAIN hook = Entries
  BY DEF HookIInv, Kempt, HookShape
<1>2. /\ code' = Written(code, Start(e), hook[e].patch)
      /\ armed' = [armed EXCEPT ![e] = "yes"] /\ hook' = hook
  BY DEF ContinueReturns
<1>. DEFINE row == PatchOf(e, hook[e].dst)
<1>. HIDE DEF row
<1>a. code' = Written(code, Start(e), row)
  BY <1>1, <1>2 DEF row
<1>b. DOMAIN hook' = Entries /\ "yes" \in {"no", "yes", "call"}
  BY <1>1, <1>2
<1>c. WritesOne(code', code, e, row)
  BY <1>1, <1>a, Writes
<1>3. KemptBut(e)' /\ armed'[e] = "yes"
  BY <1>1, <1>2, <1>a, <1>b, OthersKept DEF Elsewhere, Unmoved
<1>4. Kempt(e)'
  <2>1. \A k \in 1..4 : code'[Start(e) + k - 1] = row[k]
    BY <1>c DEF WritesOne
  <2>2. Unaligned(e) => code'[e.at] = Nop
    BY <1>1, <1>c DEF WritesOne
  <2>. QED
    BY <1>1, <1>2, <1>3, <2>1, <2>2 DEF Kempt, Holds, row
<1>. QED
  BY <1>3, <1>4 DEF HookIInv, KemptBut

LEMMA HookNextKeeps == Apart /\ HookIInv /\ HookNext => HookIInv'
<1>. SUFFICES ASSUME Apart, HookIInv, HookNext PROVE HookIInv'
  OBVIOUS
<1>1. PICK e \in Entries :
        \/ armed[e] = "no" /\ \E dst \in Destinations : HookAddr(e, dst)
        \/ armed[e] = "yes" /\ (Unhook(e) \/ ContinueCalls(e))
        \/ armed[e] = "call" /\ ContinueReturns(e)
  BY DEF HookNext
<1>2. CASE armed[e] = "no" /\ \E dst \in Destinations : HookAddr(e, dst)
  BY <1>2, HookAddrKeeps
<1>3. CASE armed[e] = "yes" /\ (Unhook(e) \/ ContinueCalls(e))
  BY <1>3, RestoreKeeps DEF Unhook, ContinueCalls
<1>4. CASE armed[e] = "call" /\ ContinueReturns(e)
  BY <1>4, ContinueKeeps
<1>. QED
  BY <1>1, <1>2, <1>3, <1>4

(* From a hooked function's entry the processor comes to the hook, and     *)
(* from an ARM function that is not hooked it does not.                    *)
LEMMA Arrives ==
  ASSUME HookIInv, NEW e \in Entries
  PROVE  /\ armed[e] = "yes" => Reaches(e, hook[e].dst)
         /\ armed[e] # "yes" /\ ~e.thumb => \A dst : ~Reaches(e, dst)
<1>0. /\ e.at \in Int /\ Start(e) \in Int /\ e.thumb \in BOOLEAN /\ Start(e) % 2 = 0
      /\ Start(e) \in {e.at, e.at + 1} /\ (Unaligned(e) <=> Start(e) = e.at + 1)
      /\ (~e.thumb => Start(e) = e.at)
  BY Places
<1>1. Literal(Start(e), e.thumb) = Start(e) + 2
  <2>1. ((Start(e) + 2) \div 2) * 2 = Start(e) + 2
    BY <1>0
  <2>. QED
    BY <1>0, <2>1 DEF Literal
<1>2. ASSUME armed[e] = "yes" PROVE Reaches(e, hook[e].dst)
  <2>. DEFINE dst == hook[e].dst
  <2>1. Holds(e, PatchOf(e, dst)) /\ (Unaligned(e) => code[e.at] = Nop)
    BY <1>2 DEF HookIInv, Kempt
  <2>2. /\ code[Start(e)] = PatchOf(e, dst)[1] /\ code[Start(e) + 1] = PatchOf(e, dst)[2]
        /\ code[Start(e) + 2] = PatchOf(e, dst)[3] /\ code[Start(e) + 3] = PatchOf(e, dst)[4]
    <3>1. /\ Start(e) + 1 - 1 = Start(e) /\ Start(e) + 2 - 1 = Start(e) + 1
          /\ Start(e) + 3 - 1 = Start(e) + 2 /\ Start(e) + 4 - 1 = Start(e) + 3
      BY <1>0
    <3>2. /\ code[Start(e) + 1 - 1] = PatchOf(e, dst)[1] /\ code[Start(e) + 2 - 1] = PatchOf(e, dst)[2]
          /\ code[Start(e) + 3 - 1] = PatchOf(e, dst)[3] /\ code[Start(e) + 4 - 1] = PatchOf(e, dst)[4]
      BY <2>1 DEF Holds
    <3>. QED
      BY <3>1, <3>2
  <2>3. (Start(e) + 2) + 1 = Start(e) + 3
    BY <1>0
  <2>4. JumpsTo(Start(e), e.thumb, dst)
    BY <1>0, <1>1, <2>2, <2>3, PatchIs DEF JumpsTo
  <2>. QED
    BY <1>0, <2>1, <2>4 DEF Reaches
<1>3. ASSUME armed[e] # "yes", ~e.thumb, NEW dst PROVE ~Reaches(e, dst)
  <2>1. code[Start(e) + 1 - 1] = OwnHalf(Start(e) + 1 - 1)
    <3>1. Holds(e, Original(e))
      BY <1>3 DEF HookIInv, Kempt
    <3>2. code[Start(e) + 1 - 1] = Original(e)[1]
      BY <3>1 DEF Holds
    <3>. QED
      BY <3>2 DEF Original
  <2>2. code[e.at] = OwnHalf(e.at)
    BY <1>0, <1>3, <2>1
  <2>3. code[e.at] # Nop /\ code[e.at] # Jump(e.thumb)[1]
    BY <1>3, <2>2 DEF OwnHalf, Nop, Jump
  <2>. QED
    BY <2>3 DEF Reaches, JumpsTo
<1>. QED
  BY <1>2, <1>3

-----------------------------------------------------------------------------
(* The four hooks over libzip.                                             *)
Frame == [fn : Libzip, hooked : BOOLEAN, path : Paths, tried : Paths]
Running(e, s) == \E k \in 1..Len(s) : s[k].fn = e /\ s[k].hooked

(* zip_open is the outermost call, and then its hook runs; no function's   *)
(* hook runs twice.                                                        *)
StackOf(s) ==
  /\ s \in Seq(Frame)
  /\ \A k \in 1..Len(s) : s[k].fn = Open => k = 1 /\ s[k].hooked
  /\ \A j, k \in 1..Len(s) : s[j].fn = s[k].fn /\ s[j].hooked /\ s[k].hooked => j = k

StackInv ==
  /\ StackOf(stack)
  /\ installed \in BOOLEAN
  /\ ~installed => stack = <<>>

(* A function of libzip is unhooked while its hook runs.                   *)
Placed(e, s) ==
  /\ hook[e].dst = Debug /\ hook[e].orig = Original(e)
  /\ Running(e, s) => armed[e] = "no"
  /\ ~Running(e, s) => armed[e] = "yes"
PlacedInv == installed => \A e \in Libzip : Placed(e, stack)

(* While only the package was asked for, what is open is the package, on   *)
(* the archive that is kept if one is.                                     *)
ArchiveInv ==
  /\ opened \subseteq [id : Archives, path : Paths]
  /\ \A x, y \in opened : x.path = "apk" /\ y.path = "apk" => x = y
  /\ pending \in Archives \cup {NoArchive} /\ answer \in Archives \cup {NoArchive}
  /\ ~strayed =>
       /\ \A k \in 1..Len(stack) : stack[k].path = "apk" /\ stack[k].tried = "apk"
       /\ \A x \in opened : x.path = "apk" /\ pending \in {x.id, NoArchive}
  /\ AnswersAreOpen

DebugIInv == HookIInv /\ StackInv /\ PlacedInv /\ ArchiveInv

LEMMA DebugInitIInv == DebugInit => DebugIInv
<1>. SUFFICES ASSUME DebugInit PROVE DebugIInv
  OBVIOUS
<1>1. HookIInv
  BY HookInitIInv DEF DebugInit
<1>2. StackInv
  <2>1. installed \in BOOLEAN /\ stack = <<>>
    BY Zenon DEF DebugInit
  <2>2. StackOf(<<>>)
    BY EmptySeq DEF StackOf
  <2>. QED
    BY <2>1, <2>2 DEF StackInv
<1>3. PlacedInv
  BY DEF DebugInit, PlacedInv
<1>4. ArchiveInv
  BY DEF DebugInit, ArchiveInv, AnswersAreOpen
<1>. QED
  BY <1>1, <1>2, <1>3, <1>4 DEF DebugIInv

(* main() hooks the four functions at once: each is found from any of its  *)
(* halfwords.                                                              *)
LEMMA InstallKeeps ==
  ASSUME Apart, DebugIInv, Install
  PROVE  HookIInv' /\ PlacedInv'
<1>. DEFINE In(x, n) == n \in x.at..(x.at + 3)
<1>1. ASSUME NEW e \in Libzip
      PROVE  /\ e \in Entries /\ Start(e) = e.at /\ ~Unaligned(e)
             /\ \A n \in Index : In(e, n) <=> n \in Window(e)
  <2>1. e \in Entries /\ ~e.thumb
    BY DebugAssumption
  <2>2. Start(e) = e.at /\ ~Unaligned(e)
    BY <2>1, Places DEF Unaligned
  <2>. QED
    BY <2>1, <2>2 DEF Window
<1>2. DOMAIN code = Index /\ DOMAIN hook = Entries /\ armed \in [Entries -> {"no", "yes", "call"}]
  BY DEF DebugIInv, HookIInv, HookShape
<1>3. ASSUME NEW e \in Libzip, NEW n \in Window(e)
      PROVE  code'[n] = PatchOf(e, Debug)[n - e.at + 1]
  <2>1. n \in Index /\ In(e, n)
    BY <1>1, Places
  <2>2. \A x \in Libzip : In(x, n) => x = e
    <3>1. ASSUME NEW x \in Libzip, In(x, n), x # e PROVE FALSE
      <4>1. n \in Window(x) /\ x \in Entries /\ e \in Entries
        BY <1>1, <2>1, <3>1
      <4>. QED
        BY <3>1, <4>1 DEF Apart
    <3>. QED
      BY <3>1
  <2>3. (CHOOSE x \in Libzip : In(x, n)) = e
    BY <2>1, <2>2
  <2>4. code'[n] = PatchOf((CHOOSE x \in Libzip : In(x, n)), Debug)[n - (CHOOSE x \in Libzip : In(x, n)).at + 1]
    BY <1>2, <2>1 DEF Install
  <2>. QED
    BY <2>3, <2>4
<1>4. ASSUME NEW f \in Entries \ Libzip, NEW n \in Window(f) PROVE code'[n] = code[n]
  <2>1. n \in Index
    BY Places
  <2>2. ~\E x \in Libzip : In(x, n)
    <3>1. ASSUME NEW x \in Libzip, In(x, n) PROVE FALSE
      <4>1. n \in Window(x) /\ x \in Entries /\ x # f
        BY <1>1, <2>1, <3>1
      <4>. QED
        BY <4>1 DEF Apart
    <3>. QED
      BY <3>1
  <2>. QED
    BY <1>2, <2>1, <2>2 DEF Install
<1>5. ASSUME NEW e \in Libzip
      PROVE  Kempt(e)' /\ Placed(e, stack)'
  <2>1. /\ e \in Entries /\ armed[e] = "no" /\ armed'[e] = "yes"
        /\ hook'[e] = [orig |-> Kept(code, e.at), patch |-> PatchOf(e, Debug), dst |-> Debug]
    BY <1>1 DEF Install
  <2>2. Holds(e, Original(e))
    BY <2>1 DEF DebugIInv, HookIInv, Kempt
  <2>3. Kept(code, e.at) = Original(e)
    BY <1>1, <2>2 DEF Kept, Original, Holds
  <2>4. ASSUME NEW k \in 1..4 PROVE code'[Start(e) + k - 1] = PatchOf(e, Debug)[k]
    <3>1. Start(e) + k - 1 \in Window(e) /\ (Start(e) + k - 1) - e.at + 1 = k
      BY <1>1, <2>1, Places
    <3>. QED
      BY <1>3, <3>1
  <2>5. Kempt(e)'
    BY <1>1, <2>1, <2>3, <2>4 DEF Kempt, Holds
  <2>6. stack' = <<>> /\ ~Running(e, stack)'
    <3>1. stack = <<>> /\ stack' = stack
      BY DEF Install, DebugIInv, StackInv
    <3>. QED
      BY <3>1 DEF Running
  <2>. QED
    BY <2>1, <2>3, <2>5, <2>6 DEF Placed
<1>6. ASSUME NEW f \in Entries \ Libzip PROVE Kempt(f)'
  <2>1. hook'[f] = hook[f] /\ armed'[f] = armed[f]
    BY DEF Install
  <2>2. (\A k \in 1..4 : code'[Start(f) + k - 1] = code[Start(f) + k - 1]) /\ code'[f.at] = code[f.at]
    BY <1>4, Places
  <2>3. Kempt(f)
    BY DEF DebugIInv, HookIInv
  <2>. QED
    BY <2>1, <2>2, <2>3 DEF Kempt, Holds
<1>7. HookShape'
  BY <1>2 DEF Install, HookShape
<1>. QED
  BY <1>5, <1>6, <1>7 DEF HookIInv, PlacedInv

-----------------------------------------------------------------------------
LEMMA Pushed ==
  ASSUME StackOf(stack), NEW f \in Libzip, NEW h \in BOOLEAN, NEW path \in Paths,
         h => ~Running(f, stack), f = Open => h /\ stack = <<>>,
         stack' = Append(stack, [fn |-> f, hooked |-> h, path |-> path, tried |-> path])
  PROVE  /\ StackOf(stack')
         /\ \A e : Running(e, stack') <=> Running(e, stack) \/ (h /\ e = f)
         /\ \A k \in 1..Len(stack') : (k \in 1..Len(stack) /\ stack'[k] = stack[k])
                                      \/ (stack'[k].path = path /\ stack'[k].tried = path)
<1>. DEFINE frame == [fn |-> f, hooked |-> h, path |-> path, tried |-> path]
<1>1. frame \in Frame /\ frame.fn = f /\ frame.hooked = h /\ frame.path = path /\ frame.tried = path
  BY Zenon DEF Frame
<1>. HIDE DEF frame
<1>2. stack' = Append(stack, frame) /\ stack \in Seq(Frame)
  BY DEF frame, StackOf
<1>3. /\ stack' \in Seq(Frame) /\ Len(stack') = Len(stack) + 1 /\ Len(stack) \in Nat
      /\ \A k \in 1..Len(stack) : stack'[k] = stack[k]
      /\ stack'[Len(stack) + 1] = frame
  BY <1>1, <1>2, AppendProperties, LenProperties
<1>4. \A e : Running(e, stack') <=> Running(e, stack) \/ (h /\ e = f)
  <2>1. ASSUME NEW e, Running(e, stack') PROVE Running(e, stack) \/ (h /\ e = f)
    <3>1. PICK k \in 1..Len(stack') : stack'[k].fn = e /\ stack'[k].hooked
      BY <2>1 DEF Running
    <3>2. k \in 1..Len(stack) \/ k = Len(stack) + 1
      BY <1>3
    <3>3. CASE k \in 1..Len(stack)
      BY <1>3, <3>1, <3>3 DEF Running
    <3>4. CASE k = Len(stack) + 1
      BY <1>1, <1>3, <3>1, <3>4
    <3>. QED
      BY <3>2, <3>3, <3>4
  <2>2. ASSUME NEW e, Running(e, stack) PROVE Running(e, stack')
    <3>1. PICK k \in 1..Len(stack) : stack[k].fn = e /\ stack[k].hooked
      BY <2>2 DEF Running
    <3>2. k \in 1..Len(stack') /\ stack'[k] = stack[k]
      BY <1>3
    <3>. QED
      BY <3>1, <3>2 DEF Running
  <2>3. h => Running(f, stack')
    <3>1. Len(stack) + 1 \in 1..Len(stack')
      BY <1>3
    <3>. QED
      BY <1>1, <1>3, <3>1 DEF Running
  <2>. QED
    BY <2>1, <2>2, <2>3
<1>5. \A k \in 1..Len(stack') : k \in 1..Len(stack) \/ k = Len(stack) + 1
  BY <1>3
<1>6. StackOf(stack')
  <2>1. ASSUME NEW k \in 1..Len(stack'), stack'[k].fn = Open PROVE k = 1 /\ stack'[k].hooked
    <3>1. CASE k \in 1..Len(stack)
      BY <1>3, <2>1, <3>1 DEF StackOf
    <3>2. CASE k = Len(stack) + 1
      <4>1. f = Open
        BY <1>1, <1>3, <2>1, <3>2
      <4>. QED
        BY <1>1, <1>3, <3>2, <4>1, EmptySeq
    <3>. QED
      BY <1>5, <3>1, <3>2
  <2>2. ASSUME NEW j \in 1..Len(stack'), NEW k \in 1..Len(stack'),
               stack'[j].fn = stack'[k].fn, stack'[j].hooked, stack'[k].hooked
        PROVE  j = k
    <3>1. CASE j \in 1..Len(stack) /\ k \in 1..Len(stack)
      BY <1>3, <2>2, <3>1 DEF StackOf
    <3>2. CASE j \in 1..Len(stack) /\ k = Len(stack) + 1
      BY <1>1, <1>3, <2>2, <3>2 DEF Running
    <3>3. CASE j = Len(stack) + 1 /\ k \in 1..Len(stack)
      BY <1>1, <1>3, <2>2, <3>3 DEF Running
    <3>. QED
      BY <1>5, <3>1, <3>2, <3>3
  <2>. QED
    BY <1>3, <2>1, <2>2 DEF StackOf
<1>7. \A k \in 1..Len(stack') : (k \in 1..Len(stack) /\ stack'[k] = stack[k])
                                \/ (stack'[k].path = path /\ stack'[k].tried = path)
  BY <1>1, <1>3, <1>5
<1>. QED
  BY <1>4, <1>6, <1>7, Zenon

LEMMA Gone ==
  ASSUME StackOf(stack), stack # <<>>, stack' = Popped
  PROVE  /\ StackOf(stack') /\ Top \in Frame /\ Len(stack) \in 1..Len(stack)
         /\ Top.hooked => ~Running(Top.fn, stack') /\ Running(Top.fn, stack)
         /\ \A e : Running(e, stack) <=> Running(e, stack') \/ (Top.hooked /\ e = Top.fn)
         /\ \A k \in 1..Len(stack') : k \in 1..Len(stack) /\ stack'[k] = stack[k]
<1>1. stack \in Seq(Frame) /\ Len(stack) \in Nat \ {0}
  BY EmptySeq, LenProperties DEF StackOf
<1>2. /\ stack' \in Seq(Frame) /\ Len(stack') = Len(stack) - 1
      /\ \A k \in 1..(Len(stack) - 1) : stack'[k] = stack[k]
  <2>. DEFINE n == Len(stack) - 1
  <2>1. 1 \in Int /\ n \in Nat /\ n - 1 + 1 = n /\ \A i \in 1..n : stack[i] \in Frame
    BY <1>1, ElementOfSeq
  <2>2. stack' = SubSeq(stack, 1, n)
    BY DEF Popped
  <2>. HIDE DEF n
  <2>3. /\ stack' \in Seq(Frame) /\ Len(stack') = IF 1 <= n THEN n - 1 + 1 ELSE 0
        /\ \A i \in 1..(n - 1 + 1) : stack'[i] = stack[1 + i - 1]
    BY <2>1, <2>2, SubSeqProperties
  <2>4. \A i \in 1..n : 1 + i - 1 = i
    BY <2>1
  <2>5. Len(stack') = n
    BY <2>1, <2>3
  <2>6. \A i \in 1..n : stack'[i] = stack[i]
    BY <2>1, <2>3, <2>4
  <2>. QED
    BY <2>3, <2>5, <2>6 DEF n
<1>3. Len(stack) \in 1..Len(stack) /\ Top = stack[Len(stack)] /\ Top \in Frame
  BY <1>1, ElementOfSeq DEF Top
<1>4. \A k \in 1..Len(stack) : k \in 1..Len(stack') \/ k = Len(stack)
  BY <1>1, <1>2
<1>5. \A k \in 1..Len(stack') : k \in 1..Len(stack) /\ k # Len(stack) /\ stack'[k] = stack[k]
  BY <1>1, <1>2
<1>6. StackOf(stack')
  <2>1. \A k \in 1..Len(stack') : stack'[k].fn = Open => k = 1 /\ stack'[k].hooked
    BY <1>5 DEF StackOf
  <2>2. ASSUME NEW j \in 1..Len(stack'), NEW k \in 1..Len(stack'),
               stack'[j].fn = stack'[k].fn, stack'[j].hooked, stack'[k].hooked
        PROVE  j = k
    <3>1. /\ j \in 1..Len(stack) /\ stack'[j] = stack[j]
          /\ k \in 1..Len(stack) /\ stack'[k] = stack[k]
      BY <1>5
    <3>. QED
      BY <2>2, <3>1 DEF StackOf
  <2>. QED
    BY <1>2, <2>1, <2>2 DEF StackOf
<1>7. ASSUME NEW e PROVE Running(e, stack) <=> Running(e, stack') \/ (Top.hooked /\ e = Top.fn)
  <2>1. ASSUME Running(e, stack) PROVE Running(e, stack') \/ (Top.hooked /\ e = Top.fn)
    <3>1. PICK k \in 1..Len(stack) : stack[k].fn = e /\ stack[k].hooked
      BY <2>1 DEF Running
    <3>. QED
      BY <1>3, <1>4, <1>5, <3>1 DEF Running
  <2>2. Running(e, stack') => Running(e, stack)
    <3>. SUFFICES ASSUME Running(e, stack') PROVE Running(e, stack)
      OBVIOUS
    <3>1. PICK k \in 1..Len(stack') : stack'[k].fn = e /\ stack'[k].hooked
      BY DEF Running
    <3>. QED
      BY <1>5, <3>1 DEF Running
  <2>3. Top.hooked => Running(Top.fn, stack)
    BY <1>3 DEF Running
  <2>. QED
    BY <2>1, <2>2, <2>3
<1>8. ASSUME Top.hooked, Running(Top.fn, stack') PROVE FALSE
  <2>1. PICK k \in 1..Len(stack') : stack'[k].fn = Top.fn /\ stack'[k].hooked
    BY <1>8 DEF Running
  <2>. QED
    BY <1>3, <1>5, <1>8, <2>1 DEF StackOf
<1>. QED
  BY <1>3, <1>5, <1>6, <1>7, <1>8

LEMMA HooksStay ==
  ASSUME HookIInv, code' = code, hook' = hook, armed' = armed
  PROVE  HookIInv'
BY DEF HookIInv, HookShape, Kempt, Holds

LEMMA ArmedReaches ==
  ASSUME DebugIInv, installed, NEW e \in Libzip
  PROVE  /\ e \in Entries /\ Placed(e, stack)
         /\ Reaches(e, Debug) <=> armed[e] = "yes"
         /\ Reaches(e, Debug) <=> ~Running(e, stack)
<1>1. e \in Entries /\ ~e.thumb
  BY DebugAssumption
<1>2. Placed(e, stack) /\ HookIInv
  BY DEF DebugIInv, PlacedInv
<1>3. Reaches(e, Debug) <=> armed[e] = "yes"
  BY <1>1, <1>2, Arrives DEF Placed
<1>. QED
  BY <1>1, <1>2, <1>3 DEF Placed

LEMMA CallKeeps ==
  ASSUME Apart, DebugIInv, NEW f \in Libzip, NEW path \in Paths, Call(f, path)
  PROVE  DebugIInv'
<1>. DEFINE h == Reaches(f, Debug)
<1>1. installed /\ installed' = installed /\ installed \in BOOLEAN
  BY Zenon DEF Call, DebugIInv, StackInv
<1>2. f \in Entries /\ Placed(f, stack) /\ (h <=> armed[f] = "yes") /\ (h <=> ~Running(f, stack))
  BY <1>1, ArmedReaches
<1>3. h \in BOOLEAN
  BY DEF Reaches
<1>4. f = Open => h /\ stack = <<>>
  <2>1. f = Open => stack = <<>>
    BY DEF Call
  <2>2. stack = <<>> => ~Running(f, stack)
    BY EmptySeq DEF Running
  <2>. QED
    BY <1>2, <2>1, <2>2
<1>5. StackOf(stack) /\ HookIInv /\ PlacedInv /\ ArchiveInv
  BY DEF DebugIInv, StackInv
<1>6. stack' = Append(stack, [fn |-> f, hooked |-> h, path |-> path, tried |-> path])
  BY DEF Call
<1>7. /\ h => Unhook(f)
      /\ ~h => code' = code /\ hook' = hook /\ armed' = armed
  BY DEF Call, hookVars
<1>. HIDE DEF h
<1>8. /\ StackOf(stack')
      /\ \A e : Running(e, stack') <=> Running(e, stack) \/ (h /\ e = f)
      /\ \A k \in 1..Len(stack') : (k \in 1..Len(stack) /\ stack'[k] = stack[k])
                                   \/ (stack'[k].path = path /\ stack'[k].tried = path)
  BY <1>2, <1>3, <1>4, <1>5, <1>6, Pushed
<1>9. HookIInv'
  <2>1. CASE h
    <3>1. Unhook(f) /\ armed[f] = "yes" /\ "no" \in {"no", "call"}
      BY <1>2, <1>7, <2>1
    <3>. QED
      BY <1>2, <1>5, <3>1, RestoreKeeps DEF Unhook
  <2>2. CASE ~h
    BY <1>5, <1>7, <2>2, HooksStay
  <2>. QED
    BY <1>3, <2>1, <2>2
<1>10. PlacedInv'
  <2>1. ASSUME NEW e \in Libzip PROVE Placed(e, stack)'
    <3>1. Placed(e, stack) /\ hook' = hook
      BY <1>1, <1>5, <1>7 DEF PlacedInv, Unhook
    <3>2. CASE h /\ e = f
      <4>1. armed'[e] = "no"
        BY <1>2, <1>5, <1>7, <3>2 DEF Unhook, HookIInv, HookShape
      <4>. QED
        BY <1>8, <3>1, <3>2, <4>1 DEF Placed
    <3>3. CASE ~(h /\ e = f)
      <4>1. armed'[e] = armed[e]
        BY <1>3, <1>5, <1>7, <3>3, DebugAssumption DEF Unhook, HookIInv, HookShape
      <4>2. Running(e, stack') <=> Running(e, stack)
        BY <1>8, <3>3
      <4>. QED
        BY <3>1, <4>1, <4>2 DEF Placed
    <3>. QED
      BY <3>2, <3>3
  <2>. QED
    BY <2>1 DEF PlacedInv
<1>11. ArchiveInv'
  <2>1. opened' = opened /\ pending' = pending /\ answer' = NoArchive
    BY DEF Call, zipVars
  <2>2. strayed' <=> strayed \/ path # "apk"
    BY Zenon DEF Call
  <2>3. ASSUME ~strayed', NEW k \in 1..Len(stack')
        PROVE  stack'[k].path = "apk" /\ stack'[k].tried = "apk"
    <3>1. ~strayed /\ path = "apk"
      BY <2>2, <2>3
    <3>2. \A j \in 1..Len(stack) : stack[j].path = "apk" /\ stack[j].tried = "apk"
      BY <1>5, <3>1 DEF ArchiveInv
    <3>. QED
      BY <1>8, <3>1, <3>2
  <2>4. ~strayed' => ~strayed
    BY <2>2
  <2>. QED
    BY <1>5, <2>1, <2>3, <2>4 DEF ArchiveInv, AnswersAreOpen
<1>. QED
  BY <1>1, <1>8, <1>9, <1>10, <1>11 DEF DebugIInv, StackInv

LEMMA RearmKeeps ==
  ASSUME Apart, DebugIInv, stack # <<>>, Rearm, stack' = Popped, installed' = installed
  PROVE  /\ HookIInv' /\ StackInv' /\ PlacedInv'
         /\ Len(stack) \in 1..Len(stack)
         /\ \A k \in 1..Len(stack') : k \in 1..Len(stack) /\ stack'[k] = stack[k]
<1>1. installed /\ StackOf(stack) /\ HookIInv /\ PlacedInv
  BY DEF DebugIInv, StackInv
<1>2. /\ StackOf(stack') /\ Top \in Frame /\ Len(stack) \in 1..Len(stack)
      /\ Top.hooked => ~Running(Top.fn, stack') /\ Running(Top.fn, stack)
      /\ \A e : Running(e, stack) <=> Running(e, stack') \/ (Top.hooked /\ e = Top.fn)
      /\ \A k \in 1..Len(stack') : k \in 1..Len(stack) /\ stack'[k] = stack[k]
  BY <1>1, Gone
<1>3. Top.fn \in Libzip /\ Top.hooked \in BOOLEAN
  BY <1>2 DEF Frame
<1>4. CASE Top.hooked
  <2>1. Top.fn \in Entries /\ armed[Top.fn] = "no" /\ HookAddr(Top.fn, Debug)
    <3>1. Placed(Top.fn, stack)
      BY <1>1, <1>3 DEF PlacedInv
    <3>. QED
      BY <1>2, <1>3, <1>4, <3>1, DebugAssumption DEF Placed, Rearm
  <2>2. /\ HookIInv' /\ armed' = [armed EXCEPT ![Top.fn] = "yes"]
        /\ hook'[Top.fn].dst = Debug /\ hook'[Top.fn].orig = Original(Top.fn)
        /\ \A f \in Entries : f # Top.fn => hook'[f] = hook[f]
    BY <1>1, <2>1, HookAddrKeeps
  <2>3. ASSUME NEW e \in Libzip PROVE Placed(e, stack)'
    <3>1. Placed(e, stack) /\ e \in Entries
      BY <1>1, DebugAssumption DEF PlacedInv
    <3>2. CASE e = Top.fn
      <4>1. armed'[e] = "yes"
        BY <1>1, <2>1, <2>2, <3>2 DEF HookIInv, HookShape
      <4>. QED
        BY <1>2, <1>4, <2>2, <3>2, <4>1 DEF Placed
    <3>3. CASE e # Top.fn
      <4>1. armed'[e] = armed[e] /\ hook'[e] = hook[e]
        BY <1>1, <2>2, <3>1, <3>3 DEF HookIInv, HookShape
      <4>2. Running(e, stack') <=> Running(e, stack)
        BY <1>2, <3>3
      <4>. QED
        BY <3>1, <4>1, <4>2 DEF Placed
    <3>. QED
      BY <3>2, <3>3
  <2>. QED
    BY <1>1, <1>2, <2>2, <2>3 DEF StackInv, PlacedInv
<1>5. CASE ~Top.hooked
  <2>1. code' = code /\ hook' = hook /\ armed' = armed
    BY <1>5 DEF Rearm, hookVars
  <2>2. ASSUME NEW e \in Libzip PROVE Placed(e, stack)'
    <3>1. Placed(e, stack)
      BY <1>1 DEF PlacedInv
    <3>2. Running(e, stack') <=> Running(e, stack)
      BY <1>2, <1>5
    <3>. QED
      BY <2>1, <3>1, <3>2 DEF Placed
  <2>3. HookIInv'
    BY <1>1, <2>1, HooksStay
  <2>. QED
    BY <1>1, <1>2, <2>2, <2>3 DEF StackInv, PlacedInv
<1>. QED
  BY <1>3, <1>4, <1>5

LEMMA ReturnKeeps ==
  ASSUME Apart, DebugIInv, Return
  PROVE  DebugIInv'
<1>1. /\ HookIInv' /\ StackInv' /\ PlacedInv'
      /\ \A k \in 1..Len(stack') : k \in 1..Len(stack) /\ stack'[k] = stack[k]
  BY RearmKeeps DEF Return
<1>2. opened' = opened /\ pending' = pending /\ answer' = NoArchive /\ strayed' = strayed
  BY DEF Return, zipVars
<1>3. ArchiveInv'
  BY <1>1, <1>2 DEF DebugIInv, ArchiveInv, AnswersAreOpen
<1>. QED
  BY <1>1, <1>3 DEF DebugIInv

(* The three ways zip_open ends: it restores and pops as any hook does.    *)
LEMMA OpenReturnsKeeps ==
  ASSUME Apart, DebugIInv, stack # <<>>, NEW got, NEW kept, OpenReturns(got, kept)
  PROVE  /\ HookIInv' /\ StackInv' /\ PlacedInv'
         /\ Len(stack) \in 1..Len(stack)
         /\ \A k \in 1..Len(stack') : k \in 1..Len(stack) /\ stack'[k] = stack[k]
         /\ answer' = got /\ pending' = kept /\ strayed' = strayed
BY RearmKeeps DEF OpenReturns

(* The open call is hooked, and unless something else was asked for it     *)
(* asks for the package.                                                   *)
LEMMA OpenTop ==
  ASSUME DebugIInv, stack # <<>>, Top.fn = Open
  PROVE  /\ Top \in Frame /\ Top.hooked
         /\ ~strayed => Top.path = "apk" /\ Top.tried = "apk"
<1>1. stack \in Seq(Frame) /\ Len(stack) \in 1..Len(stack) /\ Top = stack[Len(stack)] /\ Top \in Frame
  <2>1. stack \in Seq(Frame) /\ Len(stack) \in Nat \ {0}
    BY EmptySeq DEF DebugIInv, StackInv, StackOf
  <2>2. Len(stack) \in 1..Len(stack)
    BY <2>1
  <2>. QED
    BY <2>1, <2>2, ElementOfSeq DEF Top
<1>. QED
  BY <1>1 DEF DebugIInv, StackInv, StackOf, ArchiveInv

LEMMA OpenSucceedsKeeps ==
  ASSUME Apart, DebugIInv, NEW a \in Archives, OpenSucceeds(a)
  PROVE  DebugIInv'
<1>. DEFINE kept == IF Keeps THEN a ELSE pending
            new == [id |-> a, path |-> Top.tried]
<1>1. /\ stack # <<>> /\ Top.fn = Open /\ MayOpen(Top.tried)
      /\ opened' = opened \cup {new} /\ OpenReturns(a, kept)
  BY DEF OpenSucceeds
<1>2. /\ Top \in Frame /\ Top.hooked
      /\ ~strayed => Top.path = "apk" /\ Top.tried = "apk"
  BY <1>1, OpenTop
<1>3. new \in [id : Archives, path : Paths] /\ new.path = Top.tried /\ new.id = a
  BY <1>2 DEF Frame
<1>4. kept \in Archives \cup {NoArchive} /\ (~strayed => kept = a)
  BY <1>2 DEF Keeps, DebugIInv, ArchiveInv
<1>. HIDE DEF kept, new
<1>5. /\ HookIInv' /\ StackInv' /\ PlacedInv'
      /\ \A k \in 1..Len(stack') : k \in 1..Len(stack) /\ stack'[k] = stack[k]
      /\ answer' = a /\ pending' = kept /\ strayed' = strayed
  BY <1>1, OpenReturnsKeeps
<1>6. ArchiveInv
  BY DEF DebugIInv
<1>7. opened' \subseteq [id : Archives, path : Paths]
  BY <1>1, <1>3, <1>6 DEF ArchiveInv
<1>8. ASSUME NEW x \in opened', NEW y \in opened', x.path = "apk", y.path = "apk" PROVE x = y
  <2>1. CASE x \in opened /\ y \in opened
    BY <1>6, <1>8, <2>1 DEF ArchiveInv
  <2>2. CASE x = new /\ y = new
    BY <2>2
  <2>3. CASE new \in {x, y} /\ {x, y} \cap opened # {}
    <3>1. Top.tried = "apk" /\ IsOpen("apk")
      BY <1>3, <1>8, <2>3 DEF IsOpen
    <3>. QED
      BY <1>1, <3>1 DEF MayOpen
  <2>. QED
    BY <1>1, <2>1, <2>2, <2>3
<1>9. ASSUME ~strayed, NEW x \in opened' PROVE x = new
  <2>1. Top.tried = "apk" /\ ~IsOpen("apk")
    BY <1>1, <1>2, <1>9 DEF MayOpen
  <2>2. opened = {}
    BY <1>6, <1>9, <2>1 DEF ArchiveInv, IsOpen
  <2>. QED
    BY <1>1, <2>2
<1>10. ~strayed' =>
         /\ \A k \in 1..Len(stack') : stack'[k].path = "apk" /\ stack'[k].tried = "apk"
         /\ \A x \in opened' : x.path = "apk" /\ pending' \in {x.id, NoArchive}
  <2>. SUFFICES ASSUME ~strayed
                PROVE  /\ \A k \in 1..Len(stack') : stack'[k].path = "apk" /\ stack'[k].tried = "apk"
                       /\ \A x \in opened' : x.path = "apk" /\ pending' \in {x.id, NoArchive}
    BY <1>5
  <2>1. \A k \in 1..Len(stack) : stack[k].path = "apk" /\ stack[k].tried = "apk"
    BY <1>6 DEF ArchiveInv
  <2>. QED
    BY <1>2, <1>3, <1>4, <1>5, <1>9, <2>1
<1>11. AnswersAreOpen'
  <2>1. new \in opened' /\ new.id = answer'
    BY <1>1, <1>3, <1>5
  <2>. QED
    BY <2>1 DEF AnswersAreOpen
<1>12. ArchiveInv'
  BY <1>4, <1>5, <1>7, <1>8, <1>10, <1>11 DEF ArchiveInv
<1>. QED
  BY <1>5, <1>12 DEF DebugIInv

LEMMA RetryKeeps ==
  ASSUME DebugIInv, Retry
  PROVE  DebugIInv'
<1>. DEFINE n == Len(stack)
<1>1. /\ stack # <<>> /\ Top.fn = Open /\ Top.tried # "apk"
      /\ stack' = [stack EXCEPT ![n].tried = "apk"]
  BY DEF Retry, ZipOpenFails, Retries
<1>2. strayed
  BY <1>1, OpenTop
<1>3. StackOf(stack) /\ stack \in Seq(Frame) /\ n \in Nat \ {0} /\ Top = stack[n]
  BY <1>1, EmptySeq DEF DebugIInv, StackInv, StackOf, Top
<1>4. n \in 1..n /\ Top \in Frame /\ DOMAIN stack = 1..n /\ stack \in [1..n -> Frame]
  BY <1>3, ElementOfSeq, LenProperties
<1>5. stack' = [stack EXCEPT ![n] = [stack[n] EXCEPT !.tried = "apk"]]
  BY <1>1
<1>. DEFINE frame == [stack[n] EXCEPT !.tried = "apk"]
<1>6. frame \in Frame /\ frame.fn = stack[n].fn /\ frame.hooked = stack[n].hooked
  BY <1>3, <1>4, DebugAssumption DEF Frame
<1>. HIDE DEF frame
<1>7. stack' = [stack EXCEPT ![n] = frame]
  BY <1>5 DEF frame
<1>8. /\ stack' \in Seq(Frame) /\ Len(stack') = n
      /\ \A k \in 1..n : stack'[k] = IF k = n THEN frame ELSE stack[k]
  BY <1>3, <1>4, <1>6, <1>7, ExceptSeq
<1>. HIDE DEF n
<1>9. \A k \in 1..n : stack'[k].fn = stack[k].fn /\ stack'[k].hooked = stack[k].hooked
  BY <1>6, <1>8
<1>10. StackOf(stack')
  BY <1>3, <1>8, <1>9 DEF StackOf, n
<1>11. \A e : Running(e, stack') <=> Running(e, stack)
  BY <1>8, <1>9 DEF Running, n
<1>12. /\ code' = code /\ hook' = hook /\ armed' = armed /\ installed' = installed
       /\ opened' = opened /\ pending' = pending /\ answer' = NoArchive /\ strayed' = strayed
  BY DEF Retry, hookVars, zipVars
<1>13. HookIInv'
  BY <1>12, HooksStay DEF DebugIInv
<1>14. StackInv'
  BY <1>1, <1>10, <1>12 DEF DebugIInv, StackInv
<1>15. PlacedInv'
  <2>1. ASSUME installed, NEW e \in Libzip PROVE Placed(e, stack)'
    <3>1. Placed(e, stack)
      BY <2>1 DEF DebugIInv, PlacedInv
    <3>. QED
      BY <1>11, <1>12, <3>1 DEF Placed
  <2>. QED
    BY <1>12, <2>1 DEF PlacedInv
<1>16. ArchiveInv'
  BY <1>2, <1>12 DEF DebugIInv, ArchiveInv, AnswersAreOpen
<1>. QED
  BY <1>13, <1>14, <1>15, <1>16 DEF DebugIInv

LEMMA ReuseKeeps ==
  ASSUME Apart, DebugIInv, Reuse
  PROVE  DebugIInv'
<1>1. /\ stack # <<>> /\ Top.fn = Open /\ MayFail(Top.tried) /\ pending # NoArchive
      /\ OpenReturns(pending, NoArchive) /\ opened' = opened
  BY DEF Reuse, ZipOpenFails, Reuses
<1>2. ~strayed => Top.tried = "apk"
  BY <1>1, OpenTop
<1>3. /\ HookIInv' /\ StackInv' /\ PlacedInv'
      /\ \A k \in 1..Len(stack') : k \in 1..Len(stack) /\ stack'[k] = stack[k]
      /\ answer' = pending /\ pending' = NoArchive /\ strayed' = strayed
  BY <1>1, OpenReturnsKeeps
<1>4. ArchiveInv
  BY DEF DebugIInv
<1>5. AnswersAreOpen'
  <2>1. ASSUME ~strayed PROVE \E x \in opened : x.id = pending
    <3>1. PICK x \in opened : x.path = "apk"
      BY <1>1, <1>2, <2>1 DEF MayFail, IsOpen
    <3>. QED
      BY <1>1, <1>4, <2>1, <3>1 DEF ArchiveInv
  <2>. QED
    BY <1>1, <1>3, <2>1 DEF AnswersAreOpen
<1>6. ArchiveInv'
  BY <1>1, <1>3, <1>4, <1>5 DEF ArchiveInv
<1>. QED
  BY <1>3, <1>6 DEF DebugIInv

LEMMA ZipFailsKeeps ==
  ASSUME Apart, DebugIInv, ZipFails
  PROVE  DebugIInv'
<1>1. stack # <<>> /\ OpenReturns(NoArchive, pending) /\ opened' = opened
  BY DEF ZipFails, ZipOpenFails
<1>2. /\ HookIInv' /\ StackInv' /\ PlacedInv'
      /\ \A k \in 1..Len(stack') : k \in 1..Len(stack) /\ stack'[k] = stack[k]
      /\ answer' = NoArchive /\ pending' = pending /\ strayed' = strayed
  BY <1>1, OpenReturnsKeeps
<1>3. ArchiveInv'
  BY <1>1, <1>2 DEF DebugIInv, ArchiveInv, AnswersAreOpen
<1>. QED
  BY <1>2, <1>3 DEF DebugIInv

(* A step that leaves the hooks, the stack and the moment of installation. *)
LEMMA CloseKeeps ==
  ASSUME DebugIInv, NEW x \in opened, Close(x)
  PROVE  DebugIInv'
<1>1. /\ code' = code /\ hook' = hook /\ armed' = armed /\ installed' = installed /\ stack' = stack
      /\ opened' = opened \ {x} /\ pending' = pending /\ answer' = NoArchive /\ strayed' = strayed
  BY DEF Close, hookVars
<1>2. HookIInv'
  BY <1>1, HooksStay DEF DebugIInv
<1>3. StackInv' /\ PlacedInv'
  BY <1>1 DEF DebugIInv, StackInv, PlacedInv, Placed
<1>4. ArchiveInv'
  BY <1>1 DEF DebugIInv, ArchiveInv, AnswersAreOpen
<1>. QED
  BY <1>2, <1>3, <1>4 DEF DebugIInv

LEMMA DebugNextIInv == Apart /\ DebugIInv /\ [DebugNext]_debugVars => DebugIInv'
<1>. SUFFICES ASSUME Apart, DebugIInv, [DebugNext]_debugVars PROVE DebugIInv'
  OBVIOUS
<1>1. CASE ~installed /\ HookNext /\ UNCHANGED <<installed, stack, zipVars, answer, strayed>>
  <2>1. /\ installed' = installed /\ stack' = stack /\ opened' = opened /\ pending' = pending
        /\ answer' = answer /\ strayed' = strayed
    BY <1>1 DEF zipVars
  <2>2. HookIInv'
    BY <1>1, HookNextKeeps DEF DebugIInv
  <2>3. StackInv' /\ PlacedInv' /\ ArchiveInv'
    BY <1>1, <2>1 DEF DebugIInv, StackInv, PlacedInv, ArchiveInv, AnswersAreOpen
  <2>. QED
    BY <2>2, <2>3 DEF DebugIInv
<1>2. CASE Install
  <2>1. /\ installed' = TRUE /\ stack' = stack /\ opened' = opened /\ pending' = pending
        /\ answer' = answer /\ strayed' = strayed
    BY <1>2, Zenon DEF Install
  <2>2. HookIInv' /\ PlacedInv'
    BY <1>2, InstallKeeps
  <2>3. StackInv' /\ ArchiveInv'
    BY <2>1 DEF DebugIInv, StackInv, ArchiveInv, AnswersAreOpen
  <2>. QED
    BY <2>2, <2>3 DEF DebugIInv
<1>3. ASSUME NEW f \in Libzip, Call(f, "apk") PROVE DebugIInv'
  BY <1>3, CallKeeps, DebugAssumption
<1>4. ASSUME NEW path \in Paths \ {"apk"}, Call(Open, path) PROVE DebugIInv'
  BY <1>4, CallKeeps, DebugAssumption
<1>5. CASE Return
  BY <1>5, ReturnKeeps
<1>6. ASSUME NEW a \in Archives, OpenSucceeds(a) PROVE DebugIInv'
  BY <1>6, OpenSucceedsKeeps
<1>7. CASE Retry
  BY <1>7, RetryKeeps
<1>8. CASE Reuse
  BY <1>8, ReuseKeeps
<1>9. CASE ZipFails
  BY <1>9, ZipFailsKeeps
<1>10. ASSUME NEW x \in opened, Close(x) PROVE DebugIInv'
  BY <1>10, CloseKeeps
<1>11. CASE UNCHANGED debugVars
  <2>1. /\ code' = code /\ hook' = hook /\ armed' = armed /\ installed' = installed /\ stack' = stack
        /\ opened' = opened /\ pending' = pending /\ answer' = answer /\ strayed' = strayed
    BY <1>11 DEF debugVars
  <2>2. HookIInv'
    BY <2>1, HooksStay DEF DebugIInv
  <2>. QED
    BY <2>1, <2>2 DEF DebugIInv, StackInv, PlacedInv, Placed, ArchiveInv, AnswersAreOpen
<1>. QED
  BY <1>1, <1>2, <1>3, <1>4, <1>5, <1>6, <1>7, <1>8, <1>9, <1>10, <1>11 DEF DebugNext

LEMMA DebugIInvImplies == DebugIInv => HooksInv
<1>. SUFFICES ASSUME DebugIInv PROVE HooksInv
  OBVIOUS
<1>1. HookIInv /\ StackInv /\ PlacedInv /\ ArchiveInv
  BY DEF DebugIInv
<1>2. stack \in Seq(Frame) /\ Len(stack) \in Nat /\ DOMAIN stack = 1..Len(stack)
  BY <1>1, LenProperties DEF StackInv, StackOf
<1>3. DebugTypeOK
  <2>1. \A k \in DOMAIN stack :
          /\ stack[k].fn \in Libzip /\ {stack[k].path, stack[k].tried} \subseteq Paths
          /\ stack[k].fn = Open => k = 1
    <3>1. \A k \in 1..Len(stack) : stack[k] \in Frame
      BY <1>2, ElementOfSeq
    <3>. QED
      BY <1>1, <1>2, <3>1 DEF Frame, StackInv, StackOf
  <2>2. {x.id : x \in opened} \subseteq Archives
    BY <1>1 DEF ArchiveInv
  <2>3. Cardinality({x \in opened : x.path = "apk"}) <= 1
    <3>. DEFINE S == {x \in opened : x.path = "apk"}
    <3>1. CASE S = {}
      BY <3>1, FS_EmptySet
    <3>2. CASE S # {}
      <4>1. PICK x \in opened : x.path = "apk"
        BY <3>2
      <4>2. \A y \in opened : y.path = "apk" => y = x
        BY <1>1, <4>1 DEF ArchiveInv
      <4>3. S = {x}
        BY <4>1, <4>2
      <4>. QED
        BY <4>3, FS_Singleton
    <3>. QED
      BY <3>1, <3>2
  <2>. QED
    BY <1>1, <2>1, <2>2, <2>3 DEF DebugTypeOK, ArchiveInv
<1>4. HookedGoOver
  BY <1>1, Arrives DEF HookedGoOver
<1>5. UnhookedRunsItsOwn
  <2>1. ASSUME NEW e \in Entries, armed[e] # "yes"
        PROVE  /\ Kept(code, Start(e)) = Kept([n \in DOMAIN code |-> OwnHalf(n)], Start(e))
               /\ Unaligned(e) => code[e.at] \in {OwnHalf(e.at), Nop}
    <3>1. Kempt(e) /\ DOMAIN code = Index
      BY <1>1 DEF HookIInv, HookShape
    <3>2. Holds(e, Original(e))
      BY <2>1, <3>1 DEF Kempt
    <3>3. ASSUME NEW k \in 1..4
          PROVE  code[Start(e) + k - 1] = [n \in DOMAIN code |-> OwnHalf(n)][Start(e) + k - 1]
      <4>1. Start(e) + k - 1 \in Index
        BY Places
      <4>2. code[Start(e) + k - 1] = OwnHalf(Start(e) + k - 1)
        BY <3>2 DEF Holds, Original
      <4>. QED
        BY <3>1, <4>1, <4>2
    <3>. QED
      BY <3>1, <3>3 DEF Kept, Kempt
  <2>. QED
    BY <2>1 DEF UnhookedRunsItsOwn
<1>6. SavedIsTheProgram
  <2>1. ASSUME installed, NEW e \in Libzip PROVE hook[e].orig = [k \in 1..4 |-> OwnHalf(e.at + k - 1)]
    <3>1. hook[e].orig = Original(e)
      BY <1>1, <2>1 DEF PlacedInv, Placed
    <3>2. Start(e) = e.at
      BY DebugAssumption, Places
    <3>. QED
      BY <3>1, <3>2 DEF Original
  <2>. QED
    BY <2>1 DEF SavedIsTheProgram
<1>7. HookedUnlessRunning
  <2>1. ASSUME installed, NEW e \in Libzip
        PROVE  Reaches(e, Debug) = ~\E k \in DOMAIN stack : stack[k].fn = e /\ stack[k].hooked
    <3>1. Reaches(e, Debug) <=> ~Running(e, stack)
      BY <2>1, ArmedReaches
    <3>2. Reaches(e, Debug) \in BOOLEAN
      BY DEF Reaches
    <3>3. Reaches(e, Debug) = ~Running(e, stack)
      BY <3>1, <3>2
    <3>. QED
      BY <1>2, <3>3 DEF Running
  <2>. QED
    BY <2>1 DEF HookedUnlessRunning
<1>. QED
  BY <1>1, <1>3, <1>4, <1>5, <1>6, <1>7 DEF HooksInv, ArchiveInv

(* Wherever the functions lie and whichever of them call each other, as    *)
(* long as no two overlap: hooks and originals replace each other exactly, *)
(* and zip_open answers archives that are open.                            *)
THEOREM HooksKeepTheProgram == Apart /\ DebugSpec => []HooksInv
<1>1. Apart /\ DebugInit => DebugIInv
  BY DebugInitIInv
<1>2. Apart /\ DebugIInv /\ [DebugNext]_debugVars => DebugIInv'
  BY DebugNextIInv
<1>3. DebugIInv => HooksInv
  BY DebugIInvImplies
<1>. SUFFICES ASSUME Apart PROVE DebugSpec => []HooksInv
  OBVIOUS
<1>. QED
  BY <1>1, <1>2, <1>3, PTL DEF DebugSpec

-----------------------------------------------------------------------------
(* The LDMIA fix.  What a trampoline loads: each register of the list once,*)
(* from its place in the list, the base last.                              *)

Ldmia == [base : Registers \ {PC}, regs : SUBSET Registers]
LoadRow == [reg : Nat, offset : Nat]
Below(l, n) == {s \in l.regs : s < n}
LoadOf(l, r) == [reg |-> r, offset |-> 4 * Cardinality(Below(l, r))]
LoopState == [written : Seq(LoadRow), stored : Seq(LoadRow), cur : Nat]
LoopBegins == [written |-> <<>>, stored |-> <<>>, cur |-> 0]
IsLoop(l, w) ==
  w = [n \in 0 .. (PC + 1) |-> IF n = 0 THEN LoopBegins ELSE LoadRegister(l, w[n - 1], n - 1)]

LEMMA CountIs ==
  ASSUME NEW l \in Ldmia, NEW n \in 0 .. PC
  PROVE  /\ Cardinality(Below(l, n)) \in Nat /\ Cardinality(Below(l, 0)) = 0
         /\ n \notin l.regs => Below(l, n + 1) = Below(l, n)
         /\ n \in l.regs => Cardinality(Below(l, n + 1)) = Cardinality(Below(l, n)) + 1
<1>1. PC \in Nat /\ l.regs \subseteq 0 .. PC
  BY ArenaAssumption DEF Ldmia, Registers
<1>2. IsFiniteSet(0 .. PC)
  BY <1>1, FS_Interval
<1>3. Below(l, n) \subseteq 0 .. PC
  BY <1>1 DEF Below
<1>4. IsFiniteSet(Below(l, n)) /\ Cardinality(Below(l, n)) \in Nat
  BY <1>2, <1>3, FS_Subset, FS_CardinalityType
<1>5. Below(l, 0) = {} /\ Cardinality({}) = 0
  BY <1>1, FS_EmptySet DEF Below
<1>6. n \notin l.regs => Below(l, n + 1) = Below(l, n)
  BY <1>1 DEF Below
<1>7. n \in l.regs => Below(l, n + 1) = Below(l, n) \cup {n}
  BY <1>1 DEF Below
<1>8. n \notin Below(l, n)
  BY DEF Below
<1>9. n \in l.regs => Cardinality(Below(l, n + 1)) = Cardinality(Below(l, n)) + 1
  BY <1>4, <1>7, <1>8, FS_AddElement
<1>. QED
  BY <1>4, <1>5, <1>6, <1>9

LEMMA RegisterKeeps ==
  ASSUME NEW l \in Ldmia, NEW so \in LoopState, NEW i \in 0 .. PC
  PROVE  LoadRegister(l, so, i) \in LoopState
<1>1. i \in Nat /\ so.written \in Seq(LoadRow) /\ so.stored \in Seq(LoadRow) /\ so.cur \in Nat
  BY ArenaAssumption DEF LoopState
<1>. DEFINE x == [reg |-> i, offset |-> so.cur]
<1>2. x \in LoadRow /\ <<x>> \in Seq(LoadRow)
  BY <1>1 DEF LoadRow
<1>. HIDE DEF x
<1>3. Append(so.written, x) \in Seq(LoadRow)
  BY <1>1, <1>2, AppendProperties
<1>. QED
  BY <1>1, <1>2, <1>3 DEF LoadRegister, Emit, LoopState, x

LEMMA LoopIs ==
  ASSUME NEW l \in Ldmia
  PROVE  /\ Loop(l)[0] = LoopBegins
         /\ \A n \in 0 .. PC + 1 : Loop(l)[n] \in LoopState
         /\ \A n \in 1 .. PC + 1 : Loop(l)[n] = LoadRegister(l, Loop(l)[n - 1], n - 1)
<1>. DEFINE w == Loop(l)
            h == [n \in 1 .. PC + 1 |-> [so \in LoopState |-> LoadRegister(l, so, n - 1)]]
<1>1. w = CHOOSE v : IsLoop(l, v)
  BY Zenon DEF Loop, IsLoop, LoopBegins
<1>2. PC + 1 \in Nat /\ \A n \in 1 .. PC + 1 : n - 1 \in 0 .. PC
  BY ArenaAssumption
<1>3. h \in [1 .. PC + 1 -> [LoopState -> LoopState]]
  BY <1>2, RegisterKeeps
<1>4. \A n \in 1 .. PC + 1 : \A so \in LoopState : h[n][so] = LoadRegister(l, so, n - 1)
  OBVIOUS
<1>5. LoopBegins \in LoopState
  BY DEF LoopBegins, LoopState
<1>. HIDE DEF w, h
<1>6. PICK v \in [0 .. PC + 1 -> LoopState] : Follows(v, PC + 1, LoopBegins, h)
  BY <1>2, <1>3, <1>5, RecursionExists
<1>7. ASSUME NEW n \in 0 .. PC + 1
      PROVE  v[n] = IF n = 0 THEN LoopBegins ELSE LoadRegister(l, v[n - 1], n - 1)
  <2>1. v[n] = IF n = 0 THEN LoopBegins ELSE h[n][v[n - 1]]
    BY <1>6 DEF Follows
  <2>2. n # 0 => n \in 1 .. PC + 1 /\ v[n - 1] \in LoopState
    BY <1>2, <1>6
  <2>. QED
    BY <1>4, <2>1, <2>2
<1>8. IsLoop(l, v)
  BY <1>6, <1>7 DEF IsLoop
<1>9. IsLoop(l, w)
  BY <1>1, <1>8, Zenon
<1>10. \A n \in 0 .. PC + 1 : w[n] = IF n = 0 THEN LoopBegins ELSE LoadRegister(l, w[n - 1], n - 1)
  BY <1>9 DEF IsLoop
<1>11. w[0] = LoopBegins /\ \A n \in 1 .. PC + 1 : w[n] = LoadRegister(l, w[n - 1], n - 1)
  <2>1. w[0] = LoopBegins
    BY <1>2, <1>10
  <2>2. \A n \in 1 .. PC + 1 : n \in 0 .. PC + 1 /\ n # 0
    BY <1>2
  <2>. QED
    BY <1>10, <2>1, <2>2, Zenon
<1>12. ASSUME NEW n \in 1 .. PC + 1, w[n - 1] \in LoopState PROVE w[n] \in LoopState
  <2>1. n - 1 \in 0 .. PC
    BY <1>2
  <2>2. LoadRegister(l, w[n - 1], n - 1) \in LoopState
    BY <1>12, <2>1, RegisterKeeps
  <2>. QED
    BY <1>11, <2>2
<1>13. w[0] \in LoopState
  BY <1>5, <1>11
<1>14. \A n \in 0 .. PC + 1 : w[n] \in LoopState
  BY <1>2, <1>12, <1>13, StaysIn
<1>. QED
  BY <1>11, <1>14 DEF w

(* What the loop has written before it looks at register n.                *)
LoadsUpTo(l, n, loads) ==
  /\ loads \in Seq(LoadRow)
  /\ \A k \in 1 .. Len(loads) :
       /\ loads[k].reg \in l.regs \ {l.base} /\ loads[k].reg < n
       /\ loads[k] = LoadOf(l, loads[k].reg)
  /\ \A r \in l.regs \ {l.base} : r < n => \E k \in 1 .. Len(loads) : loads[k].reg = r
  /\ \A j, k \in 1 .. Len(loads) : j < k => loads[j].reg < loads[k].reg
LoopAt(l, n, so) ==
  /\ so.cur = 4 * Cardinality(Below(l, n))
  /\ so.stored = IF l.base \in l.regs /\ l.base < n THEN <<LoadOf(l, l.base)>> ELSE <<>>
  /\ LoadsUpTo(l, n, so.written)

LEMMA LoadAppended ==
  ASSUME NEW l \in Ldmia, NEW i \in 0 .. PC, i \in l.regs, i # l.base,
         NEW loads, LoadsUpTo(l, i, loads), NEW x, x = LoadOf(l, i), x \in LoadRow
  PROVE  LoadsUpTo(l, i + 1, Append(loads, x))
<1>. DEFINE new == Append(loads, x)
            n == Len(loads)
<1>1. loads \in Seq(LoadRow) /\ n \in Nat /\ i \in Nat /\ x.reg = i
  BY ArenaAssumption DEF LoadsUpTo, LoadOf
<1>2. /\ new \in Seq(LoadRow) /\ Len(new) = n + 1 /\ new[n + 1] = x
      /\ \A k \in 1 .. n : new[k] = loads[k]
  BY <1>1, AppendProperties
<1>. HIDE DEF new
<1>3. \A k \in 1 .. n + 1 : k = n + 1 \/ k \in 1 .. n
  BY <1>1
<1>4. ASSUME NEW k \in 1 .. n PROVE loads[k].reg \in Nat /\ loads[k].reg < i
  <2>1. loads[k] \in LoadRow
    BY <1>1
  <2>. QED
    BY <2>1 DEF LoadsUpTo, LoadRow
<1>5. ASSUME NEW k \in 1 .. n + 1
      PROVE  /\ new[k].reg \in l.regs \ {l.base} /\ new[k].reg < i + 1
             /\ new[k] = LoadOf(l, new[k].reg)
  <2>1. CASE k = n + 1
    BY <1>1, <1>2, <2>1
  <2>2. CASE k \in 1 .. n
    BY <1>1, <1>2, <1>4, <2>2 DEF LoadsUpTo
  <2>. QED
    BY <1>3, <2>1, <2>2
<1>6. ASSUME NEW r \in l.regs \ {l.base}, r < i + 1 PROVE \E k \in 1 .. n + 1 : new[k].reg = r
  <2>1. r \in Nat
    BY ArenaAssumption DEF Ldmia, Registers
  <2>2. CASE r = i
    BY <1>1, <1>2, <2>2
  <2>3. CASE r # i
    <3>1. r < i
      BY <1>1, <1>6, <2>1, <2>3
    <3>2. PICK k \in 1 .. n : loads[k].reg = r
      BY <3>1 DEF LoadsUpTo
    <3>3. k \in 1 .. n + 1
      BY <1>1
    <3>. QED
      BY <1>2, <3>2, <3>3
  <2>. QED
    BY <2>2, <2>3
<1>7. ASSUME NEW j \in 1 .. n + 1, NEW k \in 1 .. n + 1, j < k PROVE new[j].reg < new[k].reg
  <2>1. j \in 1 .. n /\ new[j].reg = loads[j].reg
    BY <1>1, <1>2, <1>7
  <2>2. CASE k = n + 1
    BY <1>1, <1>2, <1>4, <2>1, <2>2
  <2>3. CASE k \in 1 .. n
    BY <1>2, <1>7, <2>1, <2>3 DEF LoadsUpTo
  <2>. QED
    BY <1>3, <2>2, <2>3
<1>. QED
  BY <1>2, <1>5, <1>6, <1>7 DEF LoadsUpTo, new

LEMMA RegisterAt ==
  ASSUME NEW l \in Ldmia, NEW i \in 0 .. PC, NEW so \in LoopState, LoopAt(l, i, so)
  PROVE  LoopAt(l, i + 1, LoadRegister(l, so, i))
<1>1. i \in Nat /\ l.base \in Nat /\ l.regs \subseteq Nat
  BY ArenaAssumption DEF Ldmia, Registers
<1>2. /\ Cardinality(Below(l, i)) \in Nat
      /\ i \notin l.regs => Below(l, i + 1) = Below(l, i)
      /\ i \in l.regs => Cardinality(Below(l, i + 1)) = Cardinality(Below(l, i)) + 1
  BY CountIs
<1>3. \A r \in l.regs : r # i => (r < i <=> r < i + 1)
  BY <1>1
<1>4. ASSUME i \notin l.regs \/ i = l.base PROVE LoadsUpTo(l, i + 1, so.written)
  <2>1. LoadsUpTo(l, i, so.written)
    BY DEF LoopAt
  <2>2. \A r \in l.regs \ {l.base} : r < i <=> r < i + 1
    BY <1>3, <1>4
  <2>. QED
    BY <2>1, <2>2 DEF LoadsUpTo
<1>5. CASE i \notin l.regs
  <2>1. LoadRegister(l, so, i) = so
    BY <1>5 DEF LoadRegister
  <2>2. (l.base \in l.regs /\ l.base < i) <=> (l.base \in l.regs /\ l.base < i + 1)
    BY <1>3, <1>5
  <2>. QED
    BY <1>2, <1>4, <1>5, <2>1, <2>2 DEF LoopAt
<1>6. CASE i \in l.regs /\ i = l.base
  <2>1. LoadRegister(l, so, i) =
          [written |-> so.written, stored |-> <<[reg |-> i, offset |-> so.cur]>>, cur |-> so.cur + 4]
    BY <1>6 DEF LoadRegister
  <2>2. [reg |-> i, offset |-> so.cur] = LoadOf(l, l.base)
    BY <1>6 DEF LoopAt, LoadOf
  <2>3. so.cur + 4 = 4 * Cardinality(Below(l, i + 1))
    BY <1>2, <1>6 DEF LoopAt
  <2>. QED
    BY <1>1, <1>4, <1>6, <2>1, <2>2, <2>3 DEF LoopAt
<1>7. CASE i \in l.regs /\ i # l.base
  <2>. DEFINE x == [reg |-> i, offset |-> so.cur]
  <2>1. LoadRegister(l, so, i) = [written |-> Append(so.written, x), stored |-> so.stored, cur |-> so.cur + 4]
    BY <1>7 DEF LoadRegister, Emit
  <2>2. x = LoadOf(l, i) /\ x \in LoadRow
    BY <1>1 DEF LoopAt, LoadOf, LoopState, LoadRow
  <2>3. so.cur + 4 = 4 * Cardinality(Below(l, i + 1))
    BY <1>2, <1>7 DEF LoopAt
  <2>4. (l.base \in l.regs /\ l.base < i) <=> (l.base \in l.regs /\ l.base < i + 1)
    BY <1>3, <1>7
  <2>. HIDE DEF x
  <2>5. LoadsUpTo(l, i + 1, Append(so.written, x))
    BY <1>7, <2>2, LoadAppended DEF LoopAt
  <2>. QED
    BY <2>1, <2>3, <2>4, <2>5 DEF LoopAt
<1>. QED
  BY <1>5, <1>6, <1>7

LEMMA LoopEnds ==
  ASSUME NEW l \in Ldmia
  PROVE  LoopAt(l, PC + 1, Loop(l)[PC + 1]) /\ Loop(l)[PC + 1] \in LoopState
<1>. DEFINE G == {n \in 0 .. PC + 1 : LoopAt(l, n, Loop(l)[n])}
<1>1. PC \in Nat /\ PC + 1 \in Nat /\ l.regs \subseteq Nat /\ l.base \in Nat
  BY ArenaAssumption DEF Ldmia, Registers
<1>2. 0 \in G
  <2>1. Loop(l)[0] = LoopBegins /\ Cardinality(Below(l, 0)) = 0
    BY <1>1, LoopIs, CountIs
  <2>2. LoadsUpTo(l, 0, <<>>)
    BY <1>1 DEF LoadsUpTo
  <2>. QED
    BY <1>1, <2>1, <2>2 DEF LoopAt, LoopBegins
<1>3. ASSUME NEW n \in 1 .. PC + 1, n - 1 \in G PROVE n \in G
  <2>1. n - 1 \in 0 .. PC /\ (n - 1) + 1 = n /\ n \in 0 .. PC + 1
    BY <1>1
  <2>2. Loop(l)[n - 1] \in LoopState /\ LoopAt(l, n - 1, Loop(l)[n - 1])
    BY <1>3, LoopIs
  <2>3. LoopAt(l, (n - 1) + 1, LoadRegister(l, Loop(l)[n - 1], n - 1))
    BY <2>1, <2>2, RegisterAt
  <2>4. Loop(l)[n] = LoadRegister(l, Loop(l)[n - 1], n - 1)
    BY LoopIs
  <2>. QED
    BY <2>1, <2>3, <2>4
<1>. HIDE DEF G
<1>4. \A n \in 0 .. PC + 1 : n \in G
  BY <1>1, <1>2, <1>3, EveryPlace
<1>5. PC + 1 \in 0 .. PC + 1
  BY <1>1
<1>. QED
  BY <1>4, <1>5, LoopIs DEF G

(* The order of a trampoline: every register once; the base, and the       *)
(* program counter unless the base is behind it, are the last.             *)
LEMMA TrampolineIs ==
  ASSUME NEW l \in Ldmia, ~ ({l.base, PC} \subseteq l.regs)
  PROVE  LET t == Trampoline(l) IN
         /\ t \in Seq(LoadRow)
         /\ \A k \in 1 .. Len(t) : t[k].reg \in l.regs /\ t[k] = LoadOf(l, t[k].reg)
         /\ \A r \in l.regs : \E k \in 1 .. Len(t) : t[k].reg = r
         /\ \A j, k \in 1 .. Len(t) : j < k => t[j].reg # l.base /\ t[j].reg # PC /\ t[j].reg # t[k].reg
<1>. DEFINE t == Trampoline(l)
            a == Loop(l)[PC + 1].written
            b == Loop(l)[PC + 1].stored
            n == Len(a)
<1>1. PC \in Nat /\ l.regs \subseteq 0 .. PC /\ l.base \in 0 .. PC /\ l.base # PC
  BY ArenaAssumption DEF Ldmia, Registers
<1>2. /\ LoadsUpTo(l, PC + 1, a) /\ a \in Seq(LoadRow) /\ b \in Seq(LoadRow) /\ n \in Nat
      /\ b = IF l.base \in l.regs /\ l.base < PC + 1 THEN <<LoadOf(l, l.base)>> ELSE <<>>
  BY LoopEnds DEF LoopAt, LoopState
<1>3. t = a \o b
  BY DEF Trampoline
<1>4. ASSUME NEW k \in 1 .. n
      PROVE  /\ a[k].reg \in l.regs \ {l.base} /\ a[k] = LoadOf(l, a[k].reg) /\ a[k].reg \in 0 .. PC
             /\ \A j \in 1 .. n : j < k => a[j].reg < a[k].reg
  <2>1. a[k].reg \in l.regs \ {l.base} /\ a[k] = LoadOf(l, a[k].reg)
    BY <1>2 DEF LoadsUpTo
  <2>2. \A j \in 1 .. n : j < k => a[j].reg < a[k].reg
    BY <1>2 DEF LoadsUpTo
  <2>. QED
    BY <1>1, <2>1, <2>2
<1>5. ASSUME NEW r \in l.regs \ {l.base} PROVE \E k \in 1 .. n : a[k].reg = r
  <2>1. r < PC + 1
    BY <1>1
  <2>. QED
    BY <1>2, <2>1 DEF LoadsUpTo
<1>. HIDE DEF a, b, t
<1>6. CASE l.base \notin l.regs
  <2>1. t = a
    BY <1>2, <1>3, <1>6
  <2>2. ASSUME NEW j \in 1 .. n, NEW k \in 1 .. n, j < k
        PROVE  a[j].reg # l.base /\ a[j].reg # PC /\ a[j].reg # a[k].reg
    <3>1. a[j].reg \in 0 .. PC /\ a[k].reg \in 0 .. PC /\ a[j].reg < a[k].reg /\ a[j].reg # l.base
      BY <1>4, <2>2
    <3>. QED
      BY <1>1, <3>1
  <2>3. \A r \in l.regs : \E k \in 1 .. n : a[k].reg = r
    BY <1>5, <1>6
  <2>. QED
    BY <1>2, <1>4, <2>1, <2>2, <2>3 DEF t
<1>7. CASE l.base \in l.regs
  <2>. DEFINE x == LoadOf(l, l.base)
  <2>1. x.reg = l.base /\ PC \notin l.regs
    BY <1>7 DEF LoadOf
  <2>2. b = <<x>> /\ x \in LoadRow
    <3>1. b = <<x>>
      BY <1>1, <1>2, <1>7
    <3>2. l.base \in Nat /\ Cardinality(Below(l, l.base)) \in Nat
      BY <1>1, CountIs
    <3>3. x \in LoadRow
      BY <3>2 DEF x, LoadOf, LoadRow
    <3>. QED
      BY <3>1, <3>3
  <2>. HIDE DEF x
  <2>3. /\ t \in Seq(LoadRow) /\ Len(t) = n + 1 /\ t[n + 1] = x
        /\ \A k \in 1 .. n : t[k] = a[k]
    <3>1. t = Append(a, x)
      BY <1>2, <1>3, <2>2, AppendIsConcat
    <3>. QED
      BY <1>2, <2>2, <3>1, AppendProperties
  <2>4. \A k \in 1 .. n + 1 : k = n + 1 \/ k \in 1 .. n
    BY <1>2
  <2>5. \A k \in 1 .. n + 1 : t[k].reg \in l.regs /\ t[k] = LoadOf(l, t[k].reg)
    BY <1>4, <1>7, <2>1, <2>3, <2>4 DEF x
  <2>6. ASSUME NEW r \in l.regs PROVE \E k \in 1 .. n + 1 : t[k].reg = r
    <3>1. CASE r = l.base
      BY <1>2, <2>1, <2>3, <3>1
    <3>2. CASE r # l.base
      <4>1. PICK k \in 1 .. n : a[k].reg = r
        BY <1>5, <3>2
      <4>2. k \in 1 .. n + 1
        BY <1>2
      <4>. QED
        BY <2>3, <4>1, <4>2
    <3>. QED
      BY <3>1, <3>2
  <2>7. ASSUME NEW j \in 1 .. n + 1, NEW k \in 1 .. n + 1, j < k
        PROVE  t[j].reg # l.base /\ t[j].reg # PC /\ t[j].reg # t[k].reg
    <3>1. j \in 1 .. n
      BY <1>2, <2>7
    <3>2. t[j] = a[j] /\ a[j].reg \in l.regs \ {l.base} /\ a[j].reg \in 0 .. PC
      BY <1>4, <2>3, <3>1
    <3>3. t[j].reg # t[k].reg
      <4>1. CASE k = n + 1
        BY <2>1, <2>3, <3>2, <4>1
      <4>2. CASE k \in 1 .. n
        <5>1. a[j].reg < a[k].reg /\ a[k].reg \in 0 .. PC
          BY <1>4, <2>7, <3>1, <4>2
        <5>. QED
          BY <1>1, <2>3, <3>2, <4>2, <5>1
      <4>. QED
        BY <2>4, <4>1, <4>2
    <3>. QED
      BY <2>1, <3>2, <3>3
  <2>. QED
    BY <2>3, <2>5, <2>6, <2>7 DEF t
<1>. QED
  BY <1>6, <1>7

(* Running loads: what the registers hold after the first n.               *)
RegisterFile == [Registers -> Seq(Nat)]
IsRun(base, loads, w) ==
  w = [n \in 0 .. Len(loads) |-> IF n = 0 THEN Old ELSE Load(base, w[n - 1], loads[n])]

LEMMA LoadKeeps ==
  ASSUME NEW base \in Registers, NEW regs \in RegisterFile, NEW x \in LoadRow
  PROVE  Load(base, regs, x) \in RegisterFile
<1>. DEFINE new == Append(regs[base], x.offset)
<1>1. regs[base] \in Seq(Nat) /\ x.offset \in Nat
  BY DEF RegisterFile, LoadRow
<1>2. new \in Seq(Nat)
  BY <1>1, AppendProperties
<1>. HIDE DEF new
<1>3. [regs EXCEPT ![x.reg] = new] \in RegisterFile
  BY <1>2 DEF RegisterFile
<1>. QED
  BY <1>3 DEF Load, new

LEMMA RunsAre ==
  ASSUME NEW base \in Registers, NEW loads \in Seq(LoadRow)
  PROVE  /\ Runs(base, loads)[0] = Old
         /\ \A n \in 1 .. Len(loads) : Runs(base, loads)[n] = Load(base, Runs(base, loads)[n - 1], loads[n])
<1>. DEFINE w == Runs(base, loads)
            h == [n \in 1 .. Len(loads) |-> [regs \in RegisterFile |-> Load(base, regs, loads[n])]]
<1>1. w = CHOOSE v : IsRun(base, loads, v)
  BY Zenon DEF Runs, IsRun
<1>2. Len(loads) \in Nat
  OBVIOUS
<1>3. h \in [1 .. Len(loads) -> [RegisterFile -> RegisterFile]]
  <2>1. \A n \in 1 .. Len(loads) : loads[n] \in LoadRow
    OBVIOUS
  <2>. QED
    BY <2>1, LoadKeeps
<1>4. \A n \in 1 .. Len(loads) : \A regs \in RegisterFile : h[n][regs] = Load(base, regs, loads[n])
  OBVIOUS
<1>5. Old \in RegisterFile
  <2>1. \A r \in Registers : <<r>> \in Seq(Nat)
    BY ArenaAssumption DEF Registers
  <2>. QED
    BY <2>1 DEF Old, RegisterFile
<1>. HIDE DEF w, h
<1>6. PICK v \in [0 .. Len(loads) -> RegisterFile] : Follows(v, Len(loads), Old, h)
  BY <1>2, <1>3, <1>5, RecursionExists
<1>7. ASSUME NEW n \in 0 .. Len(loads)
      PROVE  v[n] = IF n = 0 THEN Old ELSE Load(base, v[n - 1], loads[n])
  <2>1. v[n] = IF n = 0 THEN Old ELSE h[n][v[n - 1]]
    BY <1>6 DEF Follows
  <2>2. n # 0 => n \in 1 .. Len(loads) /\ v[n - 1] \in RegisterFile
    BY <1>2, <1>6
  <2>. QED
    BY <1>4, <2>1, <2>2
<1>8. IsRun(base, loads, v)
  BY <1>6, <1>7 DEF IsRun
<1>9. IsRun(base, loads, w)
  BY <1>1, <1>8, Zenon
<1>10. \A n \in 0 .. Len(loads) : w[n] = IF n = 0 THEN Old ELSE Load(base, w[n - 1], loads[n])
  BY <1>9 DEF IsRun
<1>11. w[0] = Old
  BY <1>2, <1>10
<1>12. \A n \in 1 .. Len(loads) : n \in 0 .. Len(loads) /\ n # 0
  BY <1>2
<1>13. \A n \in 1 .. Len(loads) : w[n] = Load(base, w[n - 1], loads[n])
  BY <1>10, <1>12, Zenon
<1>. QED
  BY <1>11, <1>13 DEF w

(* A trampoline does to the registers what its LDMIA does.                 *)
LEMMA LoadsAlike ==
  ASSUME NEW l \in Ldmia, ~ ({l.base, PC} \subseteq l.regs)
  PROVE  Execute(l.base, Trampoline(l)) = LdmiaDoes(l)
<1>. DEFINE t == Trampoline(l)
            w == Runs(l.base, t)
            n == Len(t)
            HasRun(r, k) == \E j \in 1 .. k : t[j].reg = r
            New(r) == <<l.base, 4 * Cardinality(Below(l, r))>>
            G == {k \in 0 .. n : w[k] = [r \in Registers |-> IF HasRun(r, k) THEN New(r) ELSE <<r>>]}
<1>1. /\ t \in Seq(LoadRow)
      /\ \A k \in 1 .. n : t[k].reg \in l.regs /\ t[k] = LoadOf(l, t[k].reg)
      /\ \A r \in l.regs : \E k \in 1 .. n : t[k].reg = r
      /\ \A j, k \in 1 .. n : j < k => t[j].reg # l.base /\ t[j].reg # PC /\ t[j].reg # t[k].reg
  BY TrampolineIs
<1>2. /\ PC \in Nat /\ PC \in Registers /\ l.base \in Registers /\ l.base # PC
      /\ l.regs \subseteq Registers /\ Registers \subseteq Nat
  BY ArenaAssumption DEF Ldmia, Registers
<1>3. w[0] = Old /\ \A k \in 1 .. n : w[k] = Load(l.base, w[k - 1], t[k])
  BY <1>1, <1>2, RunsAre
<1>4. n \in Nat
  BY <1>1
<1>. HIDE DEF t, w
<1>5. 0 \in G
  <2>1. \A r \in Registers : ~ HasRun(r, 0)
    OBVIOUS
  <2>. QED
    BY <1>3, <1>4, <2>1 DEF Old
<1>6. ASSUME NEW k \in 1 .. n, k - 1 \in G PROVE k \in G
  <2>. DEFINE x == t[k]
              before == w[k - 1]
  <2>1. before = [r \in Registers |-> IF HasRun(r, k - 1) THEN New(r) ELSE <<r>>]
    BY <1>6
  <2>2. \A j \in 1 .. k - 1 : j \in 1 .. n /\ j < k
    BY <1>4
  <2>3. ~ HasRun(PC, k - 1) /\ ~ HasRun(l.base, k - 1)
    BY <1>1, <2>2
  <2>4. before[PC] = <<PC>> /\ before[l.base] = <<l.base>>
    BY <1>2, <2>1, <2>3
  <2>5. x.reg \in l.regs /\ x.offset = 4 * Cardinality(Below(l, x.reg))
    <3>1. x.reg \in l.regs /\ x = LoadOf(l, x.reg)
      BY <1>1
    <3>2. \A r : LoadOf(l, r).offset = 4 * Cardinality(Below(l, r))
      BY DEF LoadOf
    <3>. HIDE DEF x
    <3>. QED
      BY <3>1, <3>2, Zenon
  <2>6. w[k] = [before EXCEPT ![x.reg] = Append(before[l.base], x.offset)]
    BY <1>2, <1>3, <2>4 DEF Load, Old
  <2>7. Append(before[l.base], x.offset) = New(x.reg)
    <3>1. x.offset \in Nat /\ l.base \in Nat
      <4>1. x \in LoadRow
        BY <1>1
      <4>. QED
        BY <1>2, <4>1 DEF LoadRow
    <3>2. ASSUME NEW a \in Nat, NEW b \in Nat PROVE Append(<<a>>, b) = <<a, b>>
      <4>1. <<a>> \in Seq(Nat) /\ Len(<<a>>) = 1 /\ <<a>>[1] = a
        OBVIOUS
      <4>2. <<a, b>> \in Seq(Nat) /\ Len(<<a, b>>) = 2 /\ <<a, b>>[1] = a /\ <<a, b>>[2] = b
        OBVIOUS
      <4>. DEFINE s == Append(<<a>>, b)
                  u == <<a, b>>
      <4>3. s \in Seq(Nat) /\ Len(s) = 2 /\ s[1] = a /\ s[2] = b
        BY <4>1, AppendProperties
      <4>. HIDE DEF s, u
      <4>4. Len(s) = Len(u) /\ \A i \in 1 .. Len(s) : s[i] = u[i]
        BY <4>2, <4>3 DEF u
      <4>5. s = u
        BY <4>2, <4>3, <4>4, SeqEqual DEF u
      <4>. QED
        BY <4>5 DEF s, u
    <3>3. Append(before[l.base], x.offset) = <<l.base, x.offset>>
      BY <2>4, <3>1, <3>2
    <3>. QED
      BY <2>5, <3>3
  <2>8. \A r \in Registers : HasRun(r, k) <=> (HasRun(r, k - 1) \/ r = x.reg)
    <3>1. k \in 1 .. k /\ \A j \in 1 .. k : j = k \/ j \in 1 .. k - 1
      BY <1>4
    <3>2. \A j \in 1 .. k - 1 : j \in 1 .. k
      BY <1>4
    <3>. QED
      BY <3>1, <3>2
  <2>. HIDE DEF x, before, HasRun, New
  <2>9. w[k] = [r \in Registers |-> IF HasRun(r, k) THEN New(r) ELSE <<r>>]
    BY <2>1, <2>6, <2>7, <2>8
  <2>. QED
    BY <1>4, <2>9 DEF G
<1>. HIDE DEF G
<1>7. \A k \in 0 .. n : k \in G
  BY <1>4, <1>5, <1>6, EveryPlace
<1>8. w[n] = [r \in Registers |-> IF HasRun(r, n) THEN New(r) ELSE <<r>>]
  BY <1>4, <1>7 DEF G
<1>9. \A r \in Registers : HasRun(r, n) <=> r \in l.regs
  BY <1>1
<1>10. w[n] = LdmiaDoes(l)
  BY <1>8, <1>9 DEF LdmiaDoes, Below, Old
<1>. QED
  BY <1>10 DEF Execute, w, t

(* The size of a trampoline is one of at least two words.                  *)
LEMMA SizeIs ==
  ASSUME NEW l \in Ldmia
  PROVE  SizeOf(Trampoline(l)) \in Nat /\ SizeOf(Trampoline(l)) % 4 = 0 /\ SizeOf(Trampoline(l)) >= 8
<1>. DEFINE n == Len(Trampoline(l))
<1>1. Trampoline(l) \in Seq(LoadRow)
  BY LoopEnds, ConcatProperties DEF Trampoline, LoopState
<1>2. n \in Nat
  BY <1>1
<1>. HIDE DEF n
<1>3. 4 * (n + 2) \in Nat /\ (4 * (n + 2)) % 4 = 0 /\ 4 * (n + 2) >= 8
  BY <1>2
<1>. QED
  BY <1>3 DEF SizeOf, n

(* The remainder of a number that is less than the modulus away from zero. *)
LEMMA RemainderIs ==
  ASSUME NEW m \in Nat \ {0}, NEW x \in Int
  PROVE  /\ 0 <= x /\ x < m => x % m = x
         /\ - m <= x /\ x < 0 => x % m = x + m
         /\ x % m \in Nat
OBVIOUS

(* A branch whose word offset has its 24 bits arrives.                     *)
LEMMA BranchReaches ==
  ASSUME NEW a \in Nat, NEW dest \in Nat, a % 4 = 0, dest % 4 = 0,
         - (2 * OffsetLimit) <= dest - a - 8, dest - a - 8 < 2 * OffsetLimit
  PROVE  Encoded(a, dest) \in Nat /\ Target(a, Encoded(a, dest)) = dest
<1>. DEFINE q == (dest - a) \div 4
            w == q - 2
            half == OffsetLimit \div 2
            e == Encoded(a, dest)
<1>1. OffsetLimit \in Nat \ {0} /\ OffsetLimit = 2 * half /\ half \in Nat
  <2>1. OffsetLimit \in Nat /\ OffsetLimit % 2 = 0 /\ OffsetLimit # 0
    BY ArenaAssumption
  <2>2. \A m \in Nat : m % 2 = 0 => m = 2 * (m \div 2) /\ m \div 2 \in Nat
    OBVIOUS
  <2>. QED
    BY <2>1, <2>2
<1>2. dest - a = 4 * q /\ q \in Int
  OBVIOUS
<1>3. w \in Int /\ - half <= w /\ w < half
  BY <1>1, <1>2
<1>4. e = w % OffsetLimit
  BY DEF Encoded
<1>. HIDE DEF q, e, half
<1>5. (0 <= w => e = w) /\ (w < 0 => e = w + OffsetLimit) /\ e \in Nat
  <2>1. - OffsetLimit <= w /\ w < OffsetLimit /\ w \in Int
    BY <1>1, <1>3
  <2>. HIDE DEF w
  <2>2. /\ 0 <= w /\ w < OffsetLimit => w % OffsetLimit = w
        /\ - OffsetLimit <= w /\ w < 0 => w % OffsetLimit = w + OffsetLimit
        /\ w % OffsetLimit \in Nat
    BY <1>1, <2>1, RemainderIs
  <2>. QED
    BY <1>4, <2>1, <2>2
<1>6. Target(a, e) = a + 8 + 4 * (IF e >= half THEN e - OffsetLimit ELSE e)
  BY DEF Target, half
<1>7. (IF e >= half THEN e - OffsetLimit ELSE e) = w
  BY <1>1, <1>3, <1>5
<1>8. Target(a, e) = a + 8 + 4 * w
  BY <1>6, <1>7
<1>9. a + 8 + 4 * w = dest
  BY <1>2, <1>3
<1>. QED
  BY <1>5, <1>8, <1>9 DEF e

-----------------------------------------------------------------------------
(* The inductive invariant: a stub is the trampoline of its own address and*)
(* lies below the head of its arena.                                       *)
ArenaShape ==
  /\ ldm \in Programs
  /\ branches \in [Address -> Int \cup {Absent}]
  /\ ArenaTypeOK
InPatch(s) == PatchBase <= s.at /\ s.at + SizeOf(s.loads) <= patchHead
InCave(s) == CaveBase <= s.at /\ s.at + SizeOf(s.loads) <= caveHead
IsStub(s) ==
  /\ s.for \in Address /\ s.at \in Nat
  /\ ldm[s.for] \in Ldmia /\ s.loads = Trampoline(ldm[s.for])
  /\ branches[s.for] # Absent
  /\ InPatch(s) \/ InCave(s)
LieApart(s, t) == s.for # t.for /\ (s.at + SizeOf(s.loads) <= t.at \/ t.at + SizeOf(t.loads) <= s.at)
ArenaIInv ==
  /\ ArenaShape
  /\ \A s \in stubs : IsStub(s)
  /\ \A s, t \in stubs : s # t => LieApart(s, t)
  /\ BranchesArrive

LEMMA ArenaStarts == ArenaInit => ArenaIInv
<1>. SUFFICES ASSUME ArenaInit PROVE ArenaIInv
  OBVIOUS
<1>. USE ArenaAssumption DEF ArenaInit
<1>1. ArenaShape
  <2>1. /\ PatchBase \in PatchBase .. (PatchBase + PatchSize) /\ CaveBase \in CaveBase .. (CaveBase + CaveSize)
        /\ (PatchBase - PatchBase) % 4 = 0 /\ (CaveBase - CaveBase) % 4 = 0
    BY ArenaAssumption
  <2>2. branches \in [Address -> Int \cup {Absent}]
    OBVIOUS
  <2>. QED
    BY <2>1, <2>2 DEF ArenaShape, ArenaTypeOK
<1>2. BranchesArrive
  BY DEF BranchesArrive
<1>. QED
  BY <1>1, <1>2 DEF ArenaIInv

(* A step that leaves the program, the branches and the stubs alone.       *)
LEMMA ProgramKept ==
  ASSUME ArenaIInv, UNCHANGED <<ldm, branches, patchHead, caveHead, stubs>>,
         todo' \subseteq Address, fatal' \in BOOLEAN
  PROVE  ArenaIInv'
<1>1. ArenaShape'
  BY DEF ArenaIInv, ArenaShape, ArenaTypeOK
<1>2. (\A s \in stubs : IsStub(s))' /\ (\A s, t \in stubs : s # t => LieApart(s, t))'
  BY DEF ArenaIInv, IsStub, InPatch, InCave, LieApart
<1>3. BranchesArrive'
  BY DEF ArenaIInv, BranchesArrive
<1>. QED
  BY <1>1, <1>2, <1>3 DEF ArenaIInv

(* A stub that is put at the head of an arena, where its branch reaches.   *)
LEMMA PatchKeeps ==
  ASSUME ArenaIInv, NEW a \in Address, NEW head \in Nat, IsLdmia(a), Patch(a, head),
         NEW size, size = SizeOf(Trampoline(ldm[a])),
         Target(a, Encoded(a, head)) = head, Encoded(a, head) \in Nat,
         ArenaTypeOK',
         \/ head = patchHead /\ patchHead' = patchHead + size /\ caveHead' = caveHead
         \/ head = caveHead /\ caveHead' = caveHead + size /\ patchHead' = patchHead
  PROVE  ArenaIInv'
<1>. DEFINE new == [at |-> head, for |-> a, loads |-> Trampoline(ldm[a])]
<1>1. /\ stubs' = stubs \cup {new} /\ branches' = [branches EXCEPT ![a] = Encoded(a, head)]
      /\ ldm' = ldm
  BY DEF Patch
<1>2. /\ ldm \in Programs /\ branches \in [Address -> Int \cup {Absent}] /\ Absent \notin Int
      /\ branches[a] = Absent /\ ldm[a] \in Ldmia
  BY ArenaAssumption DEF ArenaIInv, ArenaShape, IsLdmia, Ldmia
<1>3. ArenaShape'
  BY <1>1, <1>2 DEF ArenaShape
<1>4. size \in Nat /\ size >= 8
  BY <1>2, SizeIs
<1>5. /\ PatchBase \in Nat /\ CaveBase \in Nat /\ patchHead \in Nat /\ caveHead \in Nat
      /\ PatchBase <= patchHead /\ patchHead <= CaveBase /\ CaveBase <= caveHead
      /\ patchHead' \in Nat /\ caveHead' \in Nat /\ patchHead' <= CaveBase
  BY ArenaAssumption DEF ArenaIInv, ArenaShape, ArenaTypeOK
<1>6. \A s \in stubs : s.for # a
  BY <1>2 DEF ArenaIInv, IsStub
<1>7. \A s \in stubs : SizeOf(s.loads) \in Nat /\ SizeOf(s.loads) >= 8 /\ s.at \in Nat
  BY SizeIs DEF ArenaIInv, IsStub
<1>8. ASSUME NEW s, s = new PROVE IsStub(s)'
  <2>1. branches'[a] # Absent
    BY <1>1, <1>2
  <2>2. s.for = a /\ s.at = head /\ s.loads = Trampoline(ldm[a]) /\ SizeOf(s.loads) = size
    BY <1>8
  <2>. HIDE DEF new
  <2>3. InPatch(s)' \/ InCave(s)'
    BY <1>4, <1>5, <2>2 DEF InPatch, InCave
  <2>4. ldm'[a] \in Ldmia /\ s.loads = Trampoline(ldm'[a])
    BY <1>1, <1>2, <2>2
  <2>. QED
    BY <1>1, <1>2, <2>1, <2>2, <2>3, <2>4 DEF IsStub
<1>9. ASSUME NEW s \in stubs PROVE IsStub(s)' /\ LieApart(s, new) /\ LieApart(new, s)
  <2>1. IsStub(s) /\ s.for # a
    BY <1>6 DEF ArenaIInv
  <2>2. branches'[s.for] = branches[s.for]
    BY <1>1, <1>2, <2>1 DEF IsStub
  <2>3. InPatch(s)' \/ InCave(s)'
    BY <1>4, <1>5, <1>7, <2>1 DEF IsStub, InPatch, InCave
  <2>4. IsStub(s)'
    BY <1>1, <2>1, <2>2, <2>3 DEF IsStub
  <2>5. new.for = a /\ new.at = head /\ SizeOf(new.loads) = size
    OBVIOUS
  <2>. HIDE DEF new
  <2>6. s.at + SizeOf(s.loads) <= head \/ head + size <= s.at
    BY <1>4, <1>5, <1>7, <2>1 DEF IsStub, InPatch, InCave
  <2>. QED
    BY <2>1, <2>4, <2>5, <2>6 DEF LieApart
<1>10. (\A s \in stubs : IsStub(s))' /\ (\A s, t \in stubs : s # t => LieApart(s, t))'
  BY <1>1, <1>8, <1>9 DEF ArenaIInv, LieApart
<1>11. BranchesArrive'
  <2>. SUFFICES ASSUME NEW b \in Address, branches'[b] # Absent
                PROVE  \E s \in stubs' : s.for = b /\ Target(b, branches'[b]) = s.at
    BY DEF BranchesArrive
  <2>1. CASE b = a
    <3>1. new \in stubs' /\ new.for = a /\ new.at = head /\ branches'[a] = Encoded(a, head)
      BY <1>1, <1>2
    <3>. QED
      BY <2>1, <3>1
  <2>2. CASE b # a
    BY <1>1, <1>2, <2>2 DEF ArenaIInv, BranchesArrive
  <2>. QED
    BY <2>1, <2>2
<1>. QED
  BY <1>3, <1>10, <1>11 DEF ArenaIInv

(* Where an arena has room and is in range, the branch reaches its head.   *)
LEMMA HeadReached ==
  ASSUME ArenaIInv, NEW a \in Address, NEW size \in Nat, size % 4 = 0, size >= 8
  PROVE  /\ a \in Nat /\ patchHead \in Nat /\ caveHead \in Nat
         /\ FitsPatch(BOffset(a), size) =>
              /\ Encoded(a, patchHead) \in Nat /\ Target(a, Encoded(a, patchHead)) = patchHead
              /\ patchHead + size \in PatchBase .. (PatchBase + PatchSize)
              /\ (patchHead + size - PatchBase) % 4 = 0
         /\ FitsCave(BOffset(a), size) =>
              /\ Encoded(a, caveHead) \in Nat /\ Target(a, Encoded(a, caveHead)) = caveHead
              /\ caveHead + size \in CaveBase .. (CaveBase + CaveSize)
              /\ (caveHead + size - CaveBase) % 4 = 0
<1>1. /\ {PatchBase, PatchSize, CaveBase, CaveSize, OffsetLimit, AddressLimit} \subseteq Nat
      /\ CaveSize + 16 <= OffsetLimit /\ PatchBase % 4 = 0 /\ CaveBase % 4 = 0
      /\ PatchBase + PatchSize <= CaveBase /\ CaveBase + 32 <= AddressLimit
      /\ a \in Nat /\ PatchBase + PatchSize <= a /\ a < CaveBase /\ a % 4 = 0
  BY ArenaAssumption
<1>2. /\ patchHead \in PatchBase..(PatchBase + PatchSize) /\ (patchHead - PatchBase) % 4 = 0
      /\ caveHead \in CaveBase..(CaveBase + CaveSize) /\ (caveHead - CaveBase) % 4 = 0
  BY DEF ArenaIInv, ArenaShape, ArenaTypeOK
<1>3. patchHead \in Nat /\ patchHead % 4 = 0 /\ caveHead \in Nat /\ caveHead % 4 = 0
  BY <1>1, <1>2
<1>4. ASSUME FitsPatch(BOffset(a), size)
      PROVE  /\ Encoded(a, patchHead) \in Nat /\ Target(a, Encoded(a, patchHead)) = patchHead
             /\ patchHead + size \in PatchBase .. (PatchBase + PatchSize)
             /\ (patchHead + size - PatchBase) % 4 = 0
  <2>1. size <= PatchSize - (patchHead - PatchBase) /\ OffsetLimit - 1 >= (a + 32 - PatchBase) % AddressLimit
    BY <1>1, <1>4 DEF FitsPatch, Available, InRange, BRange, BOffset
  <2>2. (a + 32 - PatchBase) % AddressLimit = a + 32 - PatchBase
    <3>. DEFINE x == a + 32 - PatchBase
    <3>1. x \in Int /\ 0 <= x /\ x < AddressLimit /\ AddressLimit \in Nat \ {0}
      BY <1>1
    <3>. HIDE DEF x
    <3>2. x % AddressLimit = x
      BY <3>1, RemainderIs
    <3>. QED
      BY <3>2 DEF x
  <2>3. - (2 * OffsetLimit) <= patchHead - a - 8 /\ patchHead - a - 8 < 2 * OffsetLimit
    BY <1>1, <1>2, <2>1, <2>2
  <2>4. Encoded(a, patchHead) \in Nat /\ Target(a, Encoded(a, patchHead)) = patchHead
    BY <1>1, <1>3, <2>3, BranchReaches
  <2>5. patchHead + size \in PatchBase .. (PatchBase + PatchSize)
    BY <1>1, <1>2, <2>1
  <2>6. (patchHead + size - PatchBase) % 4 = 0
    BY <1>1, <1>2, <1>3
  <2>. QED
    BY <2>4, <2>5, <2>6
<1>5. ASSUME FitsCave(BOffset(a), size)
      PROVE  /\ Encoded(a, caveHead) \in Nat /\ Target(a, Encoded(a, caveHead)) = caveHead
             /\ caveHead + size \in CaveBase .. (CaveBase + CaveSize)
             /\ (caveHead + size - CaveBase) % 4 = 0
  <2>1. /\ size <= CaveSize - (caveHead - CaveBase)
        /\ OffsetLimit - 1 >= (CaveBase - (a + 32)) % AddressLimit
    BY <1>1, <1>5 DEF FitsCave, Available, InRange, BRange, BOffset
  <2>2. CaveBase - (a + 32) <= OffsetLimit - 1
    <3>. DEFINE x == CaveBase - (a + 32)
    <3>1. x \in Int /\ x < AddressLimit /\ AddressLimit \in Nat \ {0}
      BY <1>1
    <3>2. OffsetLimit - 1 >= x % AddressLimit
      BY <2>1
    <3>. HIDE DEF x
    <3>3. x >= 0 => x % AddressLimit = x
      BY <3>1, RemainderIs
    <3>4. x <= OffsetLimit - 1
      BY <1>1, <3>1, <3>2, <3>3
    <3>. QED
      BY <3>4 DEF x
  <2>3. - (2 * OffsetLimit) <= caveHead - a - 8 /\ caveHead - a - 8 < 2 * OffsetLimit
    BY <1>1, <1>2, <2>1, <2>2
  <2>4. Encoded(a, caveHead) \in Nat /\ Target(a, Encoded(a, caveHead)) = caveHead
    BY <1>1, <1>3, <2>3, BranchReaches
  <2>5. caveHead + size \in CaveBase .. (CaveBase + CaveSize)
    BY <1>1, <1>2, <2>1
  <2>6. (caveHead + size - CaveBase) % 4 = 0
    BY <1>1, <1>2, <1>3
  <2>. QED
    BY <2>4, <2>5, <2>6
<1>. QED
  BY <1>1, <1>3, <1>4, <1>5

LEMMA ArenaStepKeeps ==
  ASSUME ArenaIInv, NEW a \in Address, Pass(a) \/ IntoPatch(a) \/ IntoCave(a) \/ NoSpace(a)
  PROVE  ArenaIInv'
<1>. DEFINE size == SizeOf(Trampoline(ldm[a]))
<1>1. todo \subseteq Address /\ fatal \in BOOLEAN
  BY DEF ArenaIInv, ArenaShape, ArenaTypeOK
<1>2. IsLdmia(a) => ldm[a] \in Ldmia
  BY ArenaAssumption DEF ArenaIInv, ArenaShape, IsLdmia, Ldmia
<1>3. IsLdmia(a) => size \in Nat /\ size % 4 = 0 /\ size >= 8
  BY <1>2, SizeIs
<1>. HIDE DEF size
<1>4. CASE Pass(a)
  BY <1>1, <1>4, ProgramKept DEF Pass
<1>5. CASE IntoPatch(a)
  <2>1. /\ IsLdmia(a) /\ FitsPatch(BOffset(a), size) /\ patchHead' = patchHead + size
        /\ Patch(a, patchHead) /\ caveHead' = caveHead
    BY <1>5 DEF IntoPatch, size
  <2>2. /\ patchHead \in Nat
        /\ Encoded(a, patchHead) \in Nat /\ Target(a, Encoded(a, patchHead)) = patchHead
        /\ patchHead + size \in PatchBase .. (PatchBase + PatchSize)
        /\ (patchHead + size - PatchBase) % 4 = 0
    BY <1>3, <2>1, HeadReached
  <2>3. ArenaTypeOK'
    <3>1. todo' \subseteq Address /\ fatal' \in BOOLEAN
      BY <1>1, <2>1 DEF Patch
    <3>2. patchHead' \in PatchBase .. (PatchBase + PatchSize) /\ (patchHead' - PatchBase) % 4 = 0
      <4>1. patchHead' = patchHead + size
        BY <2>1
      <4>2. patchHead + size \in PatchBase .. (PatchBase + PatchSize) /\ (patchHead + size - PatchBase) % 4 = 0
        BY <2>2
      <4>3. patchHead \in Nat /\ size \in Nat /\ PatchBase \in Nat
        BY <1>3, <2>1, <2>2, ArenaAssumption
      <4>. QED
        BY ONLY <4>1, <4>2, <4>3
    <3>3. ArenaTypeOK
      BY DEF ArenaIInv, ArenaShape
    <3>. QED
      BY <2>1, <3>1, <3>2, <3>3, Zenon DEF ArenaTypeOK
  <2>. QED
    BY <2>1, <2>2, <2>3, PatchKeeps DEF size
<1>6. CASE IntoCave(a)
  <2>1. /\ IsLdmia(a) /\ FitsCave(BOffset(a), size) /\ caveHead' = caveHead + size
        /\ Patch(a, caveHead) /\ patchHead' = patchHead
    BY <1>6 DEF IntoCave, size
  <2>2. /\ caveHead \in Nat
        /\ Encoded(a, caveHead) \in Nat /\ Target(a, Encoded(a, caveHead)) = caveHead
        /\ caveHead + size \in CaveBase .. (CaveBase + CaveSize)
        /\ (caveHead + size - CaveBase) % 4 = 0
    BY <1>3, <2>1, HeadReached
  <2>3. ArenaTypeOK'
    <3>1. todo' \subseteq Address /\ fatal' \in BOOLEAN
      BY <1>1, <2>1 DEF Patch
    <3>2. caveHead' \in CaveBase .. (CaveBase + CaveSize) /\ (caveHead' - CaveBase) % 4 = 0
      <4>1. caveHead' = caveHead + size
        BY <2>1
      <4>2. caveHead + size \in CaveBase .. (CaveBase + CaveSize) /\ (caveHead + size - CaveBase) % 4 = 0
        BY <2>2
      <4>3. caveHead \in Nat /\ size \in Nat /\ CaveBase \in Nat
        BY <1>3, <2>1, <2>2, ArenaAssumption
      <4>. QED
        BY ONLY <4>1, <4>2, <4>3
    <3>3. ArenaTypeOK
      BY DEF ArenaIInv, ArenaShape
    <3>. QED
      BY <2>1, <3>1, <3>2, <3>3, Zenon DEF ArenaTypeOK
  <2>. QED
    BY <2>1, <2>2, <2>3, PatchKeeps DEF size
<1>7. CASE NoSpace(a)
  BY <1>1, <1>7, ProgramKept DEF NoSpace
<1>. QED
  BY <1>4, <1>5, <1>6, <1>7

LEMMA ArenaNextKeeps == ArenaIInv /\ [ArenaNext]_arenaVars => ArenaIInv'
<1>. SUFFICES ASSUME ArenaIInv, [ArenaNext]_arenaVars PROVE ArenaIInv'
  OBVIOUS
<1>1. todo \subseteq Address /\ fatal \in BOOLEAN
  BY DEF ArenaIInv, ArenaShape, ArenaTypeOK
<1>2. ASSUME NEW f \in Functions, Begin(f) PROVE ArenaIInv'
  <2>1. todo' \subseteq Address /\ fatal' \in BOOLEAN /\ UNCHANGED <<ldm, branches, patchHead, caveHead, stubs>>
    BY <1>1, <1>2 DEF Begin, Address
  <2>. QED
    BY <2>1, ProgramKept
<1>3. CASE UNCHANGED arenaVars
  <2>1. todo' \subseteq Address /\ fatal' \in BOOLEAN /\ UNCHANGED <<ldm, branches, patchHead, caveHead, stubs>>
    BY <1>1, <1>3 DEF arenaVars
  <2>. QED
    BY <2>1, ProgramKept
<1>. QED
  BY <1>2, <1>3, ArenaStepKeeps DEF ArenaNext

LEMMA ArenaSuffices == ArenaIInv => ArenaInv
<1>. SUFFICES ASSUME ArenaIInv PROVE ArenaInv
  OBVIOUS
<1>1. ArenaTypeOK /\ BranchesArrive
  BY DEF ArenaIInv, ArenaShape
<1>2. \A s \in stubs : SizeOf(s.loads) \in Nat /\ SizeOf(s.loads) >= 8 /\ s.at \in Nat
  BY SizeIs DEF ArenaIInv, IsStub
<1>3. /\ PatchBase \in Nat /\ CaveBase \in Nat /\ patchHead \in Nat /\ caveHead \in Nat
      /\ PatchSize \in Nat /\ CaveSize \in Nat
      /\ patchHead <= PatchBase + PatchSize /\ caveHead <= CaveBase + CaveSize
  BY ArenaAssumption DEF ArenaIInv, ArenaShape, ArenaTypeOK
<1>4. StubsApart
  <2>1. ASSUME NEW s \in stubs, NEW t \in stubs, s # t
        PROVE  Extent(s) \cap Extent(t) = {} /\ s.for # t.for
    <3>1. LieApart(s, t)
      BY <2>1 DEF ArenaIInv
    <3>. QED
      BY <1>2, <3>1 DEF LieApart, Extent
  <2>2. ASSUME NEW s \in stubs
        PROVE  \/ Extent(s) \subseteq PatchBase..(PatchBase + PatchSize - 1)
               \/ Extent(s) \subseteq CaveBase..(CaveBase + CaveSize - 1)
    <3>1. InPatch(s) \/ InCave(s)
      BY DEF ArenaIInv, IsStub
    <3>. QED
      BY <1>2, <1>3, <3>1 DEF InPatch, InCave, Extent
  <2>. QED
    BY <2>1, <2>2 DEF StubsApart
<1>5. StubsLoadAlike
  BY LoadsAlike DEF ArenaIInv, IsStub, StubsLoadAlike
<1>. QED
  BY <1>1, <1>4, <1>5 DEF ArenaInv

(* Whatever functions are fixed and however often, a replaced LDMIA is a   *)
(* branch that arrives at a stub of its own, which lies in an arena apart  *)
(* from the others and loads as the LDMIA did (trampoline_ldm with         *)
(* so_alloc_arena).                                                        *)
THEOREM StubsStandIn == ArenaSpec => []ArenaInv
<1>. QED
  BY ArenaStarts, ArenaNextKeeps, ArenaSuffices, PTL DEF ArenaSpec

-----------------------------------------------------------------------------
(* Linking.                                                                *)
(* The loops, one after the other: what an odd entry is relative to is the *)
(* word behind those before, and only an image whose first entry is odd is *)
(* refused.                                                                *)
LoopsFollow ==
  /\ image \in Images
  /\ result \in {0, -1}
  /\ pc \in {"relocate", "packed"} => result = 0
  /\ pc = "relocate" => where = NULL
  /\ pc = "packed" /\ index = 1 => where = NULL
  /\ pc = "packed" /\ index > 1 => where = Behind(image.relr, index) /\ AddressFirst(image.relr)
  /\ pc \in {"resolve", "init", "running"} /\ result = 0 => AddressFirst(image.relr)

(* A relocated word has its meaning once its loop has passed it: the first *)
(* one over the relocations, or the second for an import.                  *)
RelDone(n) ==
  IF IsImport(image.rels[n]) THEN pc \in {"init", "running"} \/ (pc = "resolve" /\ n < index)
  ELSE pc # "relocate" \/ n < index
RelWords ==
  \A n \in DOMAIN image.rels :
    mem[image.rels[n].at] = IF RelDone(n) THEN Meaning(image.rels[n]) ELSE image.words[image.rels[n].at]

(* Any other word is moved once an entry that packs it is passed.          *)
Moved(w) ==
  /\ pc # "relocate" /\ result = 0
  /\ \E k \in DOMAIN image.relr : (pc = "packed" => k < index) /\ w \in Packs(image.relr, k)
OtherWords ==
  \A w \in Word : RelsAt(w) = {} =>
    mem[w] = IF Moved(w) THEN Sum(image.words[w], Base) ELSE image.words[w]

(* The constructors before the m-th place were called, each at its rank.   *)
Before(C, m) == {k \in C : k < m}
UpTo(C, n) == {k \in C : k <= n}
CalledBefore(m) ==
  /\ Len(ran) = Cardinality(Before(Constructors, m))
  /\ \A n \in Before(Constructors, m) : ran[Rank(n)] = Wanted(image.init[n])
ConstructorsCalled ==
  /\ ran \in Seq(Value)
  /\ pc \in {"relocate", "packed", "resolve"} => ran = <<>>
  /\ pc = "init" /\ result = 0 => CalledBefore(index)
  /\ pc = "running" /\ result = 0 => CalledBefore(Len(image.init) + 1)
  /\ pc = "fatal" /\ result = 0 => ran = <<>> \/ CalledBefore(Len(image.init) + 1)

LinkIInv ==
  /\ LinkTypeOK /\ LoopsFollow
  /\ pc # "fatal" => RelWords /\ OtherWords
  /\ ConstructorsCalled
  /\ MissingImportNamed

-----------------------------------------------------------------------------
LEMMA MultiplesMoveNothing ==
  ASSUME NEW x \in Int, NEW q \in Int, NEW m \in Nat \ {0}
  PROVE  (x + m * q) % m = x % m
<1>. DEFINE a == x \div m   b == (x + m * q) \div m   r == x % m   s == (x + m * q) % m
<1>1. m * q \in Int /\ x + m * q \in Int
  OBVIOUS
<1>2. /\ a \in Int /\ b \in Int /\ r \in 0..(m - 1) /\ s \in 0..(m - 1)
      /\ x = m * a + r /\ x + m * q = m * b + s
  BY <1>1
<1>. DEFINE d == b - a - q
<1>3. d \in Int /\ m * d = r - s
  BY <1>2
<1>4. \A k \in Int : (k >= 1 => m * k >= m) /\ (k <= -1 => m * k <= -m)
  OBVIOUS
<1>5. d = 0
  BY <1>2, <1>3, <1>4
<1>. QED
  BY <1>2, <1>3, <1>5

(* Sums are those of the processor, however they are nested.               *)
LEMMA SumsAre ==
  /\ \A a \in Int : a % Limit \in Value /\ (a \in Value => a % Limit = a)
  /\ \A a, b \in Int : (a + (b % Limit)) % Limit = (a + b) % Limit
<1>1. Limit \in Nat \ {0}
  BY LinkAssumption
<1>2. \A a \in Int : a % Limit \in Value /\ (a \in Value => a % Limit = a)
  BY <1>1 DEF Value
<1>3. ASSUME NEW a \in Int, NEW b \in Int PROVE (a + (b % Limit)) % Limit = (a + b) % Limit
  <2>. DEFINE q == b \div Limit   r == b % Limit
  <2>1. q \in Int /\ r \in Int /\ b = Limit * q + r
    BY <1>1
  <2>2. a + r \in Int /\ a + b = (a + r) + Limit * q
    BY <1>1, <2>1
  <2>. HIDE DEF q, r
  <2>3. ((a + r) + Limit * q) % Limit = (a + r) % Limit
    BY <1>1, <2>1, <2>2, MultiplesMoveNothing
  <2>. QED
    BY <2>2, <2>3 DEF r
<1>. QED
  BY <1>2, <1>3

LEMMA FirstIn ==
  ASSUME NEW S \in SUBSET Nat, S # {}
  PROVE  First(S) \in S /\ \A k \in S : First(S) <= k
BY FirstExists DEF First

(* What the port's table or a needed module answers is an address, and not *)
(* plt0_stub's.                                                            *)
LEMMA AnswersAreFunctions ==
  ASSUME NEW name
  PROVE  /\ FromTable(name) # {} => Table[First(FromTable(name))][2] \in Value \ {Stub}
         /\ Links(name) # {} => ResolveLink(name) \in Value \ {Stub}
<1>1. ASSUME FromTable(name) # {} PROVE Table[First(FromTable(name))][2] \in Value \ {Stub}
  <2>1. FromTable(name) \in SUBSET Nat /\ FromTable(name) \subseteq DOMAIN Table
    BY LinkAssumption DEF FromTable, Row
  <2>2. First(FromTable(name)) \in DOMAIN Table
    BY <1>1, <2>1, FirstIn
  <2>. QED
    BY <2>2, LinkAssumption
<1>2. ASSUME Links(name) # {} PROVE ResolveLink(name) \in Value \ {Stub}
  <2>. DEFINE l == First(Links(name))   s == SymbolIndex(Needed[l], name)
  <2>1. Links(name) \in SUBSET Nat /\ Links(name) \subseteq DOMAIN Needed
    BY LinkAssumption DEF Links, Row
  <2>2. l \in Links(name)
    BY <1>2, <2>1, FirstIn
  <2>3. l \in DOMAIN Needed /\ s # {}
    BY <2>2 DEF Links
  <2>. HIDE DEF l
  <2>4. s \in SUBSET Nat /\ s \subseteq DOMAIN Needed[l] /\ \A k \in s : Needed[l][k].defined
    BY <2>3, LinkAssumption DEF SymbolIndex, Row
  <2>. HIDE DEF s
  <2>5. First(s) \in DOMAIN Needed[l] /\ Needed[l][First(s)].defined
    BY <2>3, <2>4, FirstIn
  <2>6. Needed[l][First(s)].value \in Value \ {Stub}
    BY <2>3, <2>5, LinkAssumption
  <2>. QED
    BY <2>6 DEF ResolveLink, l, s
<1>. QED
  BY <1>1, <1>2

(* What an image holds, by ImageAssumption.                                *)
LEMMA ImageIs ==
  ASSUME image \in Images
  PROVE  /\ image.words \in [Word -> Value] /\ image.packed \subseteq Word
         /\ \A n \in DOMAIN image.rels :
              /\ n \in Nat /\ image.rels[n].at \in Word /\ image.rels[n].at \notin image.packed
              /\ \A k \in DOMAIN image.rels : image.rels[k].at = image.rels[n].at => k = n
         /\ \A n \in DOMAIN image.init : n \in Nat /\ image.init[n] \in Word
         /\ Row(image.rels) /\ Row(image.relr) /\ Row(image.init)
BY ImageAssumption DEF Row

(* The meaning of a relocation is a word, and the stub's address for none  *)
(* but a missing import.                                                   *)
LEMMA MeaningIs ==
  ASSUME image \in Images, NEW n \in DOMAIN image.rels
  PROVE  /\ Meaning(image.rels[n]) \in Value
         /\ image.rels[n].type = "JUMP_SLOT" /\ Meaning(image.rels[n]) = Stub => ~Found(image.rels[n])
<1>. DEFINE rel == image.rels[n]
            A == image.words[rel.at]
            S == IF Defines(rel.symbol) THEN Base + image.own[rel.symbol]
                 ELSE IF FromTable(rel.symbol) # {}
                   THEN Table[First(FromTable(rel.symbol))][2] ELSE ResolveLink(rel.symbol)
<1>1. A \in Value /\ A \in Int /\ Base \in Int /\ Stub \in Value
  BY ImageIs, LinkAssumption DEF Value
<1>2. Found(rel) => S \in Int /\ S % Limit # Stub
  <2>1. CASE Defines(rel.symbol)
    <3>1. image.own[rel.symbol] \in Nat /\ (Base + image.own[rel.symbol]) % Limit # Stub
      BY <2>1, ImageAssumption DEF Defines
    <3>. QED
      BY <1>1, <2>1, <3>1
  <2>2. CASE ~Defines(rel.symbol) /\ Found(rel)
    <3>1. S \in Value \ {Stub}
      BY <2>2, AnswersAreFunctions DEF Found, Has, Linked
    <3>2. S \in Int
      BY <3>1 DEF Value
    <3>. QED
      BY <3>1, <3>2, SumsAre
  <2>. QED
    BY <2>1, <2>2
<1>3. Meaning(rel) =
        CASE rel.type = "RELATIVE" -> (A + Base) % Limit
          [] rel.type = "ABS32" /\ Found(rel) -> (S + A) % Limit
          [] rel.type \in {"GLOB_DAT", "JUMP_SLOT"} /\ Found(rel) -> S % Limit
          [] rel.type = "JUMP_SLOT" /\ ~Found(rel) -> Stub
          [] OTHER -> A
  BY DEF Meaning
<1>. HIDE DEF rel, A, S
<1>4. \/ Meaning(rel) \in {(A + Base) % Limit, Stub, A}
      \/ Found(rel) /\ Meaning(rel) \in {(S + A) % Limit, S % Limit}
  BY <1>3
<1>5. (A + Base) % Limit \in Value /\ (Found(rel) => (S + A) % Limit \in Value /\ S % Limit \in Value)
  <2>1. A + Base \in Int /\ (Found(rel) => S + A \in Int /\ S \in Int)
    BY <1>1, <1>2
  <2>. QED
    BY <2>1, SumsAre
<1>6. rel.type = "JUMP_SLOT" /\ Found(rel) => Meaning(rel) = S % Limit
  BY <1>3
<1>7. Meaning(rel) \in Value
  BY <1>1, <1>4, <1>5
<1>. QED
  BY <1>2, <1>6, <1>7 DEF rel

(* The first loop gives a word its meaning, if this needs no import.       *)
LEMMA RelocatedIs ==
  ASSUME image \in Images, mem \in [Word -> Value],
         NEW n \in DOMAIN image.rels, image.rels[n].type \in KnownType,
         mem[image.rels[n].at] = image.words[image.rels[n].at]
  PROVE  /\ Relocated(image.rels[n]) \in [Word -> Value]
         /\ \A w \in Word :
              Relocated(image.rels[n])[w] =
                IF w = image.rels[n].at /\ ~IsImport(image.rels[n]) THEN Meaning(image.rels[n]) ELSE mem[w]
<1>. DEFINE rel == image.rels[n]
            A == image.words[rel.at]
            B == Base + image.own[rel.symbol]
<1>1. A \in Value /\ A \in Int /\ Base \in Int /\ rel.at \in Word
  BY ImageIs, LinkAssumption DEF Value
<1>2. Defines(rel.symbol) => B \in Int
  BY <1>1, ImageAssumption DEF Defines
<1>3. /\ rel.type = "RELATIVE" => Meaning(rel) = (A + Base) % Limit
      /\ rel.type = "ABS32" /\ Defines(rel.symbol) => Meaning(rel) = (B + A) % Limit
      /\ rel.type \in {"GLOB_DAT", "JUMP_SLOT"} /\ Defines(rel.symbol) => Meaning(rel) = B % Limit
      /\ rel.type = "NONE" => Meaning(rel) = A
  BY DEF Meaning, Found
<1>4. /\ rel.type = "RELATIVE" => Relocated(rel) = Put(rel.at, (A + Base) % Limit)
      /\ rel.type = "ABS32" /\ Defines(rel.symbol) => Relocated(rel) = Put(rel.at, (A + (B % Limit)) % Limit)
      /\ rel.type \in {"GLOB_DAT", "JUMP_SLOT"} /\ Defines(rel.symbol) => Relocated(rel) = Put(rel.at, B % Limit)
      /\ rel.type = "NONE" \/ IsImport(rel) => Relocated(rel) = mem
  BY DEF Relocated, Sum, IsImport
<1>. HIDE DEF rel, A
<1>5. \/ rel.type \in {"RELATIVE", "NONE"} \/ IsImport(rel)
      \/ rel.type \in {"ABS32", "GLOB_DAT", "JUMP_SLOT"} /\ Defines(rel.symbol)
  BY DEF KnownType, IsImport, rel
<1>6. Meaning(rel) \in Value
  BY MeaningIs DEF rel
<1>7. ~IsImport(rel) => \/ Relocated(rel) = Put(rel.at, Meaning(rel))
                        \/ Relocated(rel) = mem /\ Meaning(rel) = mem[rel.at]
  <2>1. Defines(rel.symbol) => (A + (B % Limit)) % Limit = (B + A) % Limit
    <3>. HIDE DEF B
    <3>1. Defines(rel.symbol) => B + A = A + B
      BY <1>1, <1>2
    <3>. QED
      BY <1>1, <1>2, <3>1, SumsAre
  <2>2. mem[rel.at] = A
    BY DEF rel, A
  <2>. HIDE DEF B
  <2>. QED
    BY <1>3, <1>4, <1>5, <2>1, <2>2
<1>. QED
  <2>1. Put(rel.at, Meaning(rel)) = [mem EXCEPT ![rel.at] = Meaning(rel)]
    BY DEF Put
  <2>2. /\ Put(rel.at, Meaning(rel)) \in [Word -> Value]
        /\ \A w \in Word : Put(rel.at, Meaning(rel))[w] = IF w = rel.at THEN Meaning(rel) ELSE mem[w]
    BY <1>1, <1>6, <2>1
  <2>3. IsImport(rel) => Relocated(rel) = mem
    BY <1>4
  <2>4. /\ Relocated(rel) \in [Word -> Value]
        /\ \A w \in Word : Relocated(rel)[w] = IF w = rel.at /\ ~IsImport(rel) THEN Meaning(rel) ELSE mem[w]
    BY <1>7, <2>2, <2>3
  <2>. QED
    BY <2>4 DEF rel

(* The second does for the imports.                                        *)
LEMMA ResolvedIs ==
  ASSUME image \in Images, mem \in [Word -> Value],
         NEW n \in DOMAIN image.rels, IsImport(image.rels[n]),
         mem[image.rels[n].at] = image.words[image.rels[n].at]
  PROVE  ImportValue(image.rels[n]) = Meaning(image.rels[n])
<1>. DEFINE rel == image.rels[n]
            A == image.words[rel.at]
            T == Table[First(FromTable(rel.symbol))][2]
            R == ResolveLink(rel.symbol)
<1>1. A \in Value /\ A \in Int /\ mem[rel.at] = A
  BY ImageIs DEF Value
<1>2. FromTable(rel.symbol) # {} => T \in Value /\ T \in Int
  BY AnswersAreFunctions DEF Value
<1>3. Linked(rel) => R \in Value /\ R \in Int
  BY AnswersAreFunctions DEF Value, Linked
<1>4. rel.type \in {"ABS32", "GLOB_DAT", "JUMP_SLOT"} /\ ~Defines(rel.symbol)
  BY DEF IsImport
<1>5. rel.type = "ABS32" /\ FromTable(rel.symbol) # {} => A = 0
  BY <1>4, ImageAssumption DEF Defines
<1>6. /\ FromTable(rel.symbol) # {} => ImportValue(rel) = T
      /\ FromTable(rel.symbol) = {} /\ Linked(rel) =>
           ImportValue(rel) = IF rel.type = "ABS32" THEN (A + R) % Limit ELSE R
      /\ FromTable(rel.symbol) = {} /\ ~Linked(rel) =>
           ImportValue(rel) = IF rel.type = "JUMP_SLOT" THEN Stub ELSE A
  BY <1>1 DEF ImportValue, Has, Sum
<1>7. /\ FromTable(rel.symbol) # {} =>
           Meaning(rel) = IF rel.type = "ABS32" THEN (T + A) % Limit ELSE T % Limit
      /\ FromTable(rel.symbol) = {} /\ Linked(rel) =>
           Meaning(rel) = IF rel.type = "ABS32" THEN (R + A) % Limit ELSE R % Limit
      /\ FromTable(rel.symbol) = {} /\ ~Linked(rel) =>
           Meaning(rel) = IF rel.type = "JUMP_SLOT" THEN Stub ELSE A
  BY <1>4 DEF Meaning, Found, Has
<1>. HIDE DEF rel, A, T, R
<1>8. CASE FromTable(rel.symbol) # {}
  <2>1. T % Limit = T /\ (rel.type = "ABS32" => T + A = T)
    BY <1>2, <1>5, <1>8, SumsAre, SMTT(30)
  <2>. QED
    BY <1>6, <1>7, <1>8, <2>1 DEF rel
<1>9. CASE FromTable(rel.symbol) = {} /\ Linked(rel)
  <2>1. R % Limit = R /\ A + R = R + A
    BY <1>1, <1>3, <1>9, SumsAre
  <2>. QED
    BY <1>6, <1>7, <1>9, <2>1 DEF rel
<1>. QED
  BY <1>6, <1>7, <1>8, <1>9 DEF rel

-----------------------------------------------------------------------------
(* What an odd entry is relative to moves on as the loop does.             *)
LEMMA LastAddressIs ==
  ASSUME NEW relr, Row(relr), NEW k \in Nat,
         NEW a \in Addresses(relr), a < k, \A b \in Addresses(relr) : b < k => b <= a
  PROVE  LastAddress(relr, k) = a
<1>. DEFINE P(x) == x < k /\ \A b \in Addresses(relr) : b < k => b <= x
<1>1. Addresses(relr) \in SUBSET Nat
  BY DEF Addresses, Row
<1>2. LastAddress(relr, k) = CHOOSE x \in Addresses(relr) : P(x)
  BY DEF LastAddress
<1>3. P(a)
  OBVIOUS
<1>4. LastAddress(relr, k) \in Addresses(relr) /\ P(LastAddress(relr, k))
  <2>. HIDE DEF P
  <2>. QED
    BY <1>2, <1>3
<1>. QED
  BY <1>1, <1>4

LEMMA BehindAddress ==
  ASSUME NEW relr, Row(relr), \A n \in DOMAIN relr : relr[n] \in Nat, NEW k \in Addresses(relr)
  PROVE  Behind(relr, k + 1) = relr[k] \div WordSize + 1
<1>1. k \in Nat /\ Addresses(relr) \in SUBSET Nat
  BY DEF Addresses, Row
<1>2. LastAddress(relr, k + 1) = k
  BY <1>1, LastAddressIs
<1>3. ((k + 1) - 1 - k) * (Bits - 1) = 0
  BY <1>1, LinkAssumption
<1>. DEFINE w == relr[k] \div WordSize
<1>4. w \in Int => (w + 1) + 0 = w + 1
  OBVIOUS
<1>5. relr[k] \in Nat /\ WordSize \in Nat \ {0}
  BY LinkAssumption DEF Addresses
<1>6. w \in Int
  BY <1>5
<1>. DEFINE a == LastAddress(relr, k + 1)
<1>7. Behind(relr, k + 1) = relr[a] \div WordSize + 1 + ((k + 1) - 1 - a) * (Bits - 1)
  BY DEF Behind
<1>8. a = k
  BY <1>2
<1>. HIDE DEF a
<1>9. Behind(relr, k + 1) = w + 1 + 0
  BY <1>3, <1>7, <1>8
<1>. QED
  BY <1>4, <1>6, <1>9

LEMMA BehindMap ==
  ASSUME NEW relr, Row(relr), \A n \in DOMAIN relr : relr[n] \in Nat, AddressFirst(relr),
         NEW k \in DOMAIN relr, k \notin Addresses(relr)
  PROVE  Behind(relr, k) \in Nat /\ Behind(relr, k + 1) = Behind(relr, k) + (Bits - 1)
<1>. DEFINE S == {b \in Addresses(relr) : b < k}
<1>1. k \in Nat /\ Addresses(relr) \in SUBSET Nat /\ 1 \in DOMAIN relr /\ k # 1
  BY DEF Addresses, Row, AddressFirst
<1>2. 1 \in Addresses(relr) /\ 1 < k
  BY <1>1 DEF Addresses, AddressFirst, Row
<1>3. S \in SUBSET (1..k) /\ S # {}
  BY <1>1, <1>2 DEF Addresses, Row
<1>. HIDE DEF S
<1>4. PICK a \in S : \A b \in S : b <= a
  BY <1>1, <1>3, LastExists
<1>5. a \in Addresses(relr) /\ a < k /\ \A b \in Addresses(relr) : b < k => b <= a
  BY <1>4 DEF S
<1>6. LastAddress(relr, k) = a
  BY <1>1, <1>5, LastAddressIs
<1>7. \A b \in Addresses(relr) : b < k + 1 => b <= a
  BY <1>1, <1>5
<1>8. LastAddress(relr, k + 1) = a
  BY <1>1, <1>5, <1>7, LastAddressIs
<1>. DEFINE w == relr[a] \div WordSize
<1>9. a \in Nat /\ k - 1 - a \in Nat /\ Bits - 1 \in Nat /\ WordSize \in Nat \ {0} /\ relr[a] \in Nat
  BY <1>1, <1>5, LinkAssumption DEF Addresses
<1>10. w \in Nat
  BY <1>9
<1>. DEFINE d == k - 1 - a   e == Bits - 1
<1>11. d * e \in Nat /\ (d + 1) * e = d * e + e
  BY <1>9
<1>12. Behind(relr, k) = w + 1 + d * e /\ Behind(relr, k + 1) = w + 1 + ((k + 1) - 1 - a) * e
  <2>. DEFINE b == LastAddress(relr, k)   c == LastAddress(relr, k + 1)
  <2>1. /\ Behind(relr, k) = relr[b] \div WordSize + 1 + (k - 1 - b) * (Bits - 1)
        /\ Behind(relr, k + 1) = relr[c] \div WordSize + 1 + ((k + 1) - 1 - c) * (Bits - 1)
    BY DEF Behind
  <2>2. b = a /\ c = a
    BY <1>6, <1>8
  <2>. HIDE DEF b, c
  <2>. QED
    BY <2>1, <2>2
<1>13. (k + 1) - 1 - a = d + 1
  BY <1>1, <1>9
<1>. HIDE DEF w, d, e
<1>14. e \in Nat
  BY <1>9 DEF e
<1>. QED
  BY <1>10, <1>11, <1>12, <1>13, <1>14 DEF e

(* What depends on the image alone stays.                                  *)
LEMMA ImageKept ==
  ASSUME image' = image
  PROVE  /\ \A rel : IsImport(rel)' = IsImport(rel)
         /\ \A rel : Meaning(rel)' = Meaning(rel)
         /\ \A rel : Found(rel)' = Found(rel)
         /\ \A w : RelsAt(w)' = RelsAt(w)
         /\ \A w : Wanted(w)' = Wanted(w)
<1>1. \A rel : Linked(rel)' = Linked(rel) /\ Defines(rel.symbol)' = Defines(rel.symbol)
  BY DEF Linked, Defines
<1>2. \A rel : Has(rel)' = Has(rel) /\ Found(rel)' = Found(rel) /\ IsImport(rel)' = IsImport(rel)
  BY <1>1 DEF Has, Found, IsImport
<1>3. \A rel : Meaning(rel)' = Meaning(rel)
  BY <1>1, <1>2 DEF Meaning
<1>4. \A w : RelsAt(w)' = RelsAt(w)
  BY DEF RelsAt
<1>5. \A w : Wanted(w)' = Wanted(w)
  BY <1>3, <1>4 DEF Wanted
<1>. QED
  BY <1>2, <1>3, <1>4, <1>5

LEMMA MissingKept == MissingImportNamed /\ image' = image /\ died' = died => MissingImportNamed'
<1>. SUFFICES ASSUME MissingImportNamed, image' = image, died' = died, died # NULL
              PROVE  MissingImportNamed'
  BY DEF MissingImportNamed
<1>1. PICK n \in DOMAIN image.rels :
        /\ image.rels[n].at = died.slot /\ image.rels[n].symbol = died.name
        /\ ~Found(image.rels[n])
  BY DEF MissingImportNamed
<1>2. Found(image.rels[n])' = Found(image.rels[n])
  BY ImageKept
<1>. QED
  BY <1>1, <1>2 DEF MissingImportNamed

LEMMA LengthsAre ==
  ASSUME image \in Images
  PROVE  /\ Len(image.rels) \in Nat /\ Len(image.relr) \in Nat /\ Len(image.init) \in Nat
         /\ DOMAIN image.rels = 1..Len(image.rels) /\ DOMAIN image.relr = 1..Len(image.relr)
         /\ DOMAIN image.init = 1..Len(image.init)
BY ImageIs DEF Row

LEMMA IndexFits ==
  ASSUME image \in Images, NEW i \in Nat \ {0},
         i <= Len(image.rels) + 1 \/ i <= Len(image.relr) + 1 \/ i <= Len(image.init) + 1
  PROVE  i \in 1..(1 + Len(image.rels) + Len(image.relr) + Len(image.init))
<1>. DEFINE a == Len(image.rels)   b == Len(image.relr)   c == Len(image.init)
<1>1. a \in Nat /\ b \in Nat /\ c \in Nat
  BY LengthsAre
<1>2. i <= a + 1 \/ i <= b + 1 \/ i <= c + 1
  OBVIOUS
<1>. HIDE DEF a, b, c
<1>3. i \in 1..(1 + a + b + c)
  BY <1>1, <1>2
<1>. QED
  BY <1>3 DEF a, b, c

LEMMA LinkStarts == LinkInit => LinkIInv
<1>. SUFFICES ASSUME LinkInit PROVE LinkIInv
  OBVIOUS
<1>. USE DEF LinkInit
<1>1. image \in Images /\ mem \in [Word -> Value]
  BY ImageIs
<1>2. LinkTypeOK
  <2>1. Len(image.rels) \in Nat
    BY <1>1, LengthsAre
  <2>2. index \in Nat \ {0} /\ index <= Len(image.rels) + 1
    BY <2>1
  <2>3. index \in 1..(1 + Len(image.rels) + Len(image.relr) + Len(image.init))
    BY <1>1, <2>2, IndexFits
  <2>. QED
    BY <1>1, <2>3 DEF LinkTypeOK
<1>3. LoopsFollow
  BY DEF LoopsFollow
<1>4. RelWords
  <2>1. ASSUME NEW n \in DOMAIN image.rels PROVE ~RelDone(n)
    BY <1>1, <2>1, LengthsAre DEF RelDone
  <2>. QED
    BY <2>1 DEF RelWords
<1>5. OtherWords
  BY DEF OtherWords, Moved
<1>6. ConstructorsCalled
  BY DEF ConstructorsCalled
<1>7. MissingImportNamed
  BY DEF MissingImportNamed
<1>. QED
  BY <1>2, <1>3, <1>4, <1>5, <1>6, <1>7 DEF LinkIInv

LEMMA RelocateKeeps == LinkIInv /\ Relocate => LinkIInv'
<1>. SUFFICES ASSUME LinkIInv, Relocate PROVE LinkIInv'
  OBVIOUS
<1>1. /\ image \in Images /\ image' = image /\ pc = "relocate" /\ pc' = pc /\ where' = where
      /\ result' = result /\ ran' = ran /\ died' = died /\ index' = index + 1
      /\ index \in Nat /\ index >= 1 /\ index <= Len(image.rels)
      /\ image.rels[index].type \in KnownType /\ mem' = Relocated(image.rels[index])
  BY LengthsAre DEF LinkIInv, LinkTypeOK, LoopsFollow, Relocate, More
<1>2. index \in DOMAIN image.rels /\ mem \in [Word -> Value] /\ RelWords /\ OtherWords
  BY <1>1, LengthsAre DEF LinkIInv, LinkTypeOK
<1>3. ~RelDone(index) /\ mem[image.rels[index].at] = image.words[image.rels[index].at]
  BY <1>1, <1>2 DEF RelDone, RelWords
<1>4. /\ mem' \in [Word -> Value]
      /\ \A w \in Word :
           mem'[w] = IF w = image.rels[index].at /\ ~IsImport(image.rels[index])
                       THEN Meaning(image.rels[index]) ELSE mem[w]
  BY <1>1, <1>2, <1>3, RelocatedIs
<1>5. LinkTypeOK'
  <2>1. index' \in Nat \ {0} /\ index' <= Len(image.rels) + 1
    BY <1>1, LengthsAre
  <2>2. index' \in 1..(1 + Len(image.rels) + Len(image.relr) + Len(image.init))
    BY <1>1, <2>1, IndexFits
  <2>. QED
    BY <1>1, <1>4, <2>2 DEF LinkTypeOK, LinkIInv
<1>6. LoopsFollow'
  BY <1>1 DEF LoopsFollow, LinkIInv
<1>7. RelWords'
  <2>1. SUFFICES ASSUME NEW n \in DOMAIN image.rels
                 PROVE  mem'[image.rels[n].at] =
                          IF RelDone(n)' THEN Meaning(image.rels[n]) ELSE image.words[image.rels[n].at]
    <3>1. \A rel : Meaning(rel)' = Meaning(rel)
      BY <1>1, ImageKept
    <3>. QED
      BY <1>1, <2>1, <3>1 DEF RelWords
  <2>2. IsImport(image.rels[n])' = IsImport(image.rels[n])
    BY <1>1, ImageKept
  <2>3. n \in Nat /\ (RelDone(n)' <=> ~IsImport(image.rels[n]) /\ n < index + 1)
    BY <1>1, <2>2, LengthsAre DEF RelDone
  <2>4. RelDone(n) <=> ~IsImport(image.rels[n]) /\ n < index
    BY <1>1 DEF RelDone
  <2>5. image.rels[n].at \in Word /\ (image.rels[n].at = image.rels[index].at => n = index)
    BY <1>1, <1>2, ImageIs
  <2>6. mem[image.rels[n].at] = IF RelDone(n) THEN Meaning(image.rels[n]) ELSE image.words[image.rels[n].at]
    BY <1>2 DEF RelWords
  <2>7. CASE n = index
    BY <1>1, <1>3, <1>4, <2>3, <2>5, <2>7
  <2>8. CASE n # index
    <3>1. n < index + 1 <=> n < index
      BY <1>1, <2>3, <2>8
    <3>2. mem'[image.rels[n].at] = mem[image.rels[n].at]
      BY <1>4, <2>5, <2>8
    <3>. QED
      BY <2>3, <2>4, <2>6, <3>1, <3>2
  <2>. QED
    BY <2>7, <2>8
<1>8. OtherWords'
  <2>1. ASSUME NEW w \in Word, RelsAt(w) = {} PROVE mem'[w] = image.words[w]
    <3>1. w # image.rels[index].at
      BY <1>2, <2>1 DEF RelsAt
    <3>2. mem[w] = image.words[w]
      BY <1>1, <1>2, <2>1 DEF OtherWords, Moved
    <3>. QED
      BY <1>4, <3>1, <3>2
  <2>2. \A w : RelsAt(w)' = RelsAt(w)
    BY <1>1, ImageKept
  <2>. QED
    BY <1>1, <2>1, <2>2 DEF OtherWords, Moved
<1>9. ConstructorsCalled'
  BY <1>1 DEF ConstructorsCalled, LinkIInv
<1>10. MissingImportNamed'
  BY <1>1, MissingKept DEF LinkIInv
<1>. QED
  BY <1>5, <1>6, <1>7, <1>8, <1>9, <1>10 DEF LinkIInv

LEMMA UnknownTypeKeeps == LinkIInv /\ UnknownType => LinkIInv'
<1>. SUFFICES ASSUME LinkIInv, UnknownType PROVE LinkIInv'
  OBVIOUS
<1>1. /\ image' = image /\ pc = "relocate" /\ pc' = "fatal" /\ where' = where /\ mem' = mem
      /\ result' = result /\ ran' = ran /\ died' = died /\ index' = index
  BY DEF UnknownType, More
<1>2. LinkTypeOK'
  BY <1>1 DEF LinkTypeOK, LinkIInv
<1>3. LoopsFollow'
  BY <1>1 DEF LoopsFollow, LinkIInv
<1>4. ConstructorsCalled'
  BY <1>1 DEF ConstructorsCalled, LinkIInv
<1>5. MissingImportNamed'
  BY <1>1, MissingKept DEF LinkIInv
<1>. QED
  BY <1>1, <1>2, <1>3, <1>4, <1>5 DEF LinkIInv

-----------------------------------------------------------------------------
(* A step that writes no word and passes none.                             *)
LEMMA WordsStay ==
  ASSUME image \in Images, RelWords, OtherWords, image' = image, mem' = mem,
         \A n \in DOMAIN image.rels : RelDone(n)' <=> RelDone(n),
         \A w \in Word : Moved(w)' <=> Moved(w)
  PROVE  RelWords' /\ OtherWords'
<1>1. \A rel : Meaning(rel)' = Meaning(rel)
  BY ImageKept
<1>2. \A w : RelsAt(w)' = RelsAt(w)
  BY ImageKept
<1>3. RelWords'
  <2>. SUFFICES ASSUME NEW n \in DOMAIN image.rels
                PROVE  mem'[image.rels[n].at] =
                         IF RelDone(n)' THEN Meaning(image.rels[n]) ELSE image.words[image.rels[n].at]
    BY <1>1 DEF RelWords
  <2>. QED
    BY DEF RelWords
<1>4. OtherWords'
  <2>. SUFFICES ASSUME NEW w \in Word, RelsAt(w) = {}
                PROVE  mem'[w] = IF Moved(w)' THEN Sum(image.words[w], Base) ELSE image.words[w]
    BY <1>2 DEF OtherWords, Sum
  <2>. QED
    BY DEF OtherWords
<1>. QED
  BY <1>3, <1>4

LEMMA ToPackedKeeps == LinkIInv /\ ToPacked => LinkIInv'
<1>. SUFFICES ASSUME LinkIInv, ToPacked PROVE LinkIInv'
  OBVIOUS
<1>1. /\ image \in Images /\ image' = image /\ pc = "relocate" /\ pc' = "packed" /\ where' = where
      /\ mem' = mem /\ result' = result /\ ran' = ran /\ died' = died /\ index' = 1
      /\ index \in Nat /\ index > Len(image.rels) /\ RelWords /\ OtherWords
  BY LengthsAre DEF LinkIInv, LinkTypeOK, LoopsFollow, ToPacked, Past, Entering
<1>2. LinkTypeOK'
  <2>1. index' \in Nat \ {0} /\ index' <= Len(image.rels) + 1
    BY <1>1, LengthsAre
  <2>2. index' \in 1..(1 + Len(image.rels) + Len(image.relr) + Len(image.init))
    BY <1>1, <2>1, IndexFits
  <2>3. index' \in 1..(1 + Len(image.rels) + Len(image.relr) + Len(image.init))'
    BY <1>1, <2>2
  <2>4. mem' \in [Word -> Value] /\ (where' # NULL => where' \in Nat)
    BY <1>1 DEF LinkTypeOK, LinkIInv
  <2>. QED
    BY <1>1, <2>3, <2>4 DEF LinkTypeOK
<1>3. LoopsFollow'
  BY <1>1 DEF LoopsFollow, LinkIInv
<1>4. RelWords' /\ OtherWords'
  <2>1. ASSUME NEW n \in DOMAIN image.rels PROVE RelDone(n)' <=> RelDone(n)
    <3>1. IsImport(image.rels[n])' = IsImport(image.rels[n])
      BY <1>1, ImageKept
    <3>2. n < index
      BY <1>1, LengthsAre
    <3>. QED
      BY <1>1, <3>1, <3>2 DEF RelDone
  <2>2. ASSUME NEW w \in Word PROVE Moved(w)' <=> Moved(w)
    <3>1. ~Moved(w)
      BY <1>1 DEF Moved
    <3>2. \A k \in DOMAIN image.relr : ~(k < 1)
      BY <1>1, LengthsAre
    <3>3. ~Moved(w)'
      BY <1>1, <3>2 DEF Moved
    <3>. QED
      BY <3>1, <3>3
  <2>. QED
    BY <1>1, <2>1, <2>2, WordsStay
<1>5. ConstructorsCalled'
  BY <1>1 DEF ConstructorsCalled, LinkIInv
<1>6. MissingImportNamed'
  BY <1>1, MissingKept DEF LinkIInv
<1>. QED
  BY <1>2, <1>3, <1>4, <1>5, <1>6 DEF LinkIInv

(* The entry is the only one that packs its words, and these are no        *)
(* others' relocations: each is moved now and had not been before.         *)
LEMMA PackedKeeps ==
  ASSUME image \in Images, mem \in [Word -> Value], RelWords, OtherWords,
         pc = "packed", result = 0, index \in DOMAIN image.relr, AddressFirst(image.relr),
         image' = image, pc' = pc, result' = result, index' = index + 1,
         mem' = Rebased(Packs(image.relr, index))
  PROVE  mem' \in [Word -> Value] /\ RelWords' /\ OtherWords'
<1>. DEFINE here == Packs(image.relr, index)
<1>1. /\ here \subseteq image.packed
      /\ \A k \in DOMAIN image.relr : Packs(image.relr, k) \cap here # {} => k = index
  <2>1. /\ image.packed = UNION {Packs(image.relr, k) : k \in DOMAIN image.relr}
        /\ \A j, k \in DOMAIN image.relr : Packs(image.relr, j) \cap Packs(image.relr, k) # {} => j = k
    BY ImageAssumption
  <2>2. here \subseteq image.packed
    BY <2>1
  <2>. QED
    BY <2>1, <2>2
<1>2. index \in Nat /\ \A k \in DOMAIN image.relr : k \in Nat
  BY LengthsAre
<1>3. Base \in Int /\ \A w \in Word : mem[w] \in Value /\ mem[w] \in Int
  BY LinkAssumption DEF Value
<1>4. \A w \in Word : Sum(mem[w], Base) \in Value
  BY <1>3, SumsAre DEF Sum
<1>5. mem' = [w \in Word |-> IF w \in here THEN Sum(mem[w], Base) ELSE mem[w]]
  BY DEF Rebased
<1>. HIDE DEF here
<1>6. mem' \in [Word -> Value]
  BY <1>3, <1>4, <1>5
<1>7. RelWords'
  <2>1. SUFFICES ASSUME NEW n \in DOMAIN image.rels
                 PROVE  mem'[image.rels[n].at] =
                          IF RelDone(n)' THEN Meaning(image.rels[n]) ELSE image.words[image.rels[n].at]
    <3>1. \A rel : Meaning(rel)' = Meaning(rel)
      BY ImageKept
    <3>. QED
      BY <2>1, <3>1 DEF RelWords
  <2>2. IsImport(image.rels[n])' = IsImport(image.rels[n])
    BY ImageKept
  <2>3. RelDone(n)' <=> RelDone(n)
    BY <2>2 DEF RelDone
  <2>4. image.rels[n].at \in Word /\ image.rels[n].at \notin here
    BY <1>1, ImageIs
  <2>5. mem'[image.rels[n].at] = mem[image.rels[n].at]
    BY <1>5, <2>4
  <2>. QED
    BY <2>3, <2>5 DEF RelWords
<1>8. OtherWords'
  <2>1. SUFFICES ASSUME NEW w \in Word, RelsAt(w) = {}
                 PROVE  mem'[w] = IF Moved(w)' THEN Sum(image.words[w], Base) ELSE image.words[w]
    <3>1. \A v : RelsAt(v)' = RelsAt(v)
      BY ImageKept
    <3>. QED
      BY <2>1, <3>1 DEF OtherWords, Sum
  <2>2. Moved(w) <=> \E k \in DOMAIN image.relr : k < index /\ w \in Packs(image.relr, k)
    BY DEF Moved
  <2>3. Moved(w)' <=> \E k \in DOMAIN image.relr : k < index + 1 /\ w \in Packs(image.relr, k)
    BY DEF Moved
  <2>4. mem[w] = IF Moved(w) THEN Sum(image.words[w], Base) ELSE image.words[w]
    BY <2>1 DEF OtherWords
  <2>5. CASE w \in here
    <3>1. ~Moved(w)
      BY <1>1, <1>2, <2>2, <2>5
    <3>2. Moved(w)'
      BY <1>2, <2>3, <2>5 DEF here
    <3>. QED
      BY <1>5, <2>4, <2>5, <3>1, <3>2
  <2>6. CASE w \notin here
    <3>1. ASSUME NEW k \in DOMAIN image.relr, w \in Packs(image.relr, k)
          PROVE  k < index + 1 <=> k < index
      <4>1. k # index
        BY <2>6, <3>1 DEF here
      <4>. QED
        BY <1>2, <4>1
    <3>2. Moved(w)' <=> Moved(w)
      BY <2>2, <2>3, <3>1
    <3>. QED
      BY <1>5, <2>4, <2>6, <3>2
  <2>. QED
    BY <2>5, <2>6
<1>. QED
  BY <1>6, <1>7, <1>8

(* What the loop over the entries finds.                                   *)
LEMMA EntryIs ==
  ASSUME LinkIInv, More("packed", image.relr)
  PROVE  /\ image \in Images /\ pc = "packed" /\ result = 0 /\ mem \in [Word -> Value]
         /\ RelWords /\ OtherWords /\ ran = <<>>
         /\ index \in Nat /\ index >= 1 /\ index \in DOMAIN image.relr /\ Entry \in Nat
         /\ index = 1 => where = NULL
         /\ index > 1 => where = Behind(image.relr, index) /\ AddressFirst(image.relr)
         /\ Entry % 2 # 0 /\ index > 1 =>
              where \in Nat /\ Behind(image.relr, index + 1) = where + (Bits - 1)
<1>1. /\ image \in Images /\ pc = "packed" /\ index \in Nat /\ index >= 1 /\ index <= Len(image.relr)
      /\ result = 0 /\ mem \in [Word -> Value] /\ RelWords /\ OtherWords /\ ran = <<>>
      /\ index = 1 => where = NULL
      /\ index > 1 => where = Behind(image.relr, index) /\ AddressFirst(image.relr)
  BY LengthsAre DEF LinkIInv, LinkTypeOK, LoopsFollow, ConstructorsCalled, More
<1>2. index \in DOMAIN image.relr /\ Row(image.relr) /\ \A k \in DOMAIN image.relr : image.relr[k] \in Nat
  BY <1>1, LengthsAre, ImageAssumption
<1>3. Entry \in Nat
  BY <1>2 DEF Entry
<1>4. ASSUME Entry % 2 # 0, index > 1
      PROVE  where \in Nat /\ Behind(image.relr, index + 1) = where + (Bits - 1)
  <2>1. index \notin Addresses(image.relr)
    BY <1>4 DEF Addresses, Entry
  <2>. QED
    BY <1>1, <1>2, <1>4, <2>1, BehindMap
<1>. QED
  BY <1>1, <1>2, <1>3, <1>4

LEMMA PackedNext ==
  ASSUME LinkIInv, More("packed", image.relr), AddressFirst(image.relr),
         image' = image, pc' = pc, result' = result, index' = index + 1, ran' = ran, died' = died,
         mem' = Rebased(Packs(image.relr, index)),
         where' \in Nat, where' = Behind(image.relr, index + 1)
  PROVE  LinkIInv'
<1>1. mem' \in [Word -> Value] /\ RelWords' /\ OtherWords'
  BY EntryIs, PackedKeeps
<1>2. /\ image \in Images /\ pc = "packed" /\ result = 0 /\ ran = <<>>
      /\ index \in Nat /\ index >= 1 /\ index <= Len(image.relr)
  BY EntryIs DEF More
<1>3. index' \in 1..(1 + Len(image.rels) + Len(image.relr) + Len(image.init))
  <2>1. index' \in Nat \ {0} /\ index' <= Len(image.relr) + 1
    BY <1>2, LengthsAre
  <2>. QED
    BY <1>2, <2>1, IndexFits
<1>4. LinkTypeOK'
  BY <1>1, <1>2, <1>3 DEF LinkTypeOK
<1>5. LoopsFollow'
  <2>1. index' # 1 /\ AddressFirst(image.relr)'
    BY <1>2 DEF AddressFirst
  <2>. QED
    BY <1>2, <2>1 DEF LoopsFollow, LinkIInv
<1>6. ConstructorsCalled'
  BY <1>2 DEF ConstructorsCalled, LinkIInv
<1>7. MissingImportNamed'
  BY MissingKept DEF LinkIInv
<1>. QED
  BY <1>1, <1>4, <1>5, <1>6, <1>7 DEF LinkIInv

LEMMA PackedAddressKeeps == LinkIInv /\ PackedAddress => LinkIInv'
<1>. SUFFICES ASSUME LinkIInv, PackedAddress PROVE LinkIInv'
  OBVIOUS
<1>1. /\ More("packed", image.relr) /\ Entry % 2 = 0
      /\ image' = image /\ pc' = pc /\ result' = result /\ ran' = ran /\ died' = died /\ index' = index + 1
      /\ mem' = Rebased({Entry \div WordSize}) /\ where' = (Entry \div WordSize) + 1
  BY DEF PackedAddress
<1>2. /\ image \in Images /\ index \in Nat /\ index >= 1 /\ index \in DOMAIN image.relr /\ Entry \in Nat
      /\ index > 1 => AddressFirst(image.relr)
  BY <1>1, EntryIs
<1>3. AddressFirst(image.relr)
  BY <1>1, <1>2 DEF AddressFirst, Entry
<1>4. Packs(image.relr, index) = {Entry \div WordSize}
  BY <1>1 DEF Packs, Entry
<1>5. Behind(image.relr, index + 1) = (Entry \div WordSize) + 1
  <2>1. index \in Addresses(image.relr) /\ Row(image.relr) /\ \A n \in DOMAIN image.relr : image.relr[n] \in Nat
    BY <1>1, <1>2, ImageAssumption DEF Addresses, Entry
  <2>. QED
    BY <2>1, BehindAddress DEF Entry
<1>6. where' \in Nat
  BY <1>1, <1>2, LinkAssumption
<1>. QED
  BY <1>1, <1>3, <1>4, <1>5, <1>6, PackedNext

LEMMA PackedMapKeeps == LinkIInv /\ PackedMap => LinkIInv'
<1>. SUFFICES ASSUME LinkIInv, PackedMap PROVE LinkIInv'
  OBVIOUS
<1>1. /\ More("packed", image.relr) /\ Entry % 2 = 1 /\ where # NULL
      /\ image' = image /\ pc' = pc /\ result' = result /\ ran' = ran /\ died' = died /\ index' = index + 1
      /\ mem' = Rebased(Mapped) /\ where' = where + (Bits - 1)
  BY DEF PackedMap, Span
<1>2. index > 1 /\ where = Behind(image.relr, index) /\ AddressFirst(image.relr)
  BY <1>1, EntryIs
<1>3. where \in Nat /\ Behind(image.relr, index + 1) = where + (Bits - 1)
  BY <1>1, <1>2, EntryIs
<1>4. Packs(image.relr, index) = Mapped
  BY <1>1, <1>2 DEF Packs, Entry, Mapped
<1>5. where' \in Nat
  BY <1>1, <1>3, LinkAssumption
<1>. QED
  BY <1>1, <1>2, <1>3, <1>4, <1>5, PackedNext

(* Only an image that begins with a map is refused, and none of its words  *)
(* was moved.                                                              *)
LEMMA PackedRefusedKeeps == LinkIInv /\ PackedRefused => LinkIInv'
<1>. SUFFICES ASSUME LinkIInv, PackedRefused PROVE LinkIInv'
  OBVIOUS
<1>1. /\ More("packed", image.relr) /\ Entry % 2 = 1 /\ where = NULL
      /\ image' = image /\ pc' = "resolve" /\ result' = -1 /\ ran' = ran /\ died' = died /\ index' = 1
      /\ mem' = mem /\ where' = where
  BY DEF PackedRefused, Entering
<1>2. index = 1
  BY <1>1, EntryIs, LinkAssumption
<1>3. image \in Images /\ pc = "packed" /\ RelWords /\ OtherWords /\ ran = <<>>
  BY <1>1, EntryIs
<1>4. LinkTypeOK'
  BY <1>1, <1>2 DEF LinkTypeOK, LinkIInv
<1>5. LoopsFollow'
  BY <1>1, <1>3 DEF LoopsFollow
<1>6. RelWords' /\ OtherWords'
  <2>1. ASSUME NEW n \in DOMAIN image.rels PROVE RelDone(n)' <=> RelDone(n)
    <3>1. IsImport(image.rels[n])' = IsImport(image.rels[n])
      BY <1>1, ImageKept
    <3>2. ~(n < 1)
      BY <1>3, LengthsAre
    <3>. QED
      BY <1>1, <1>3, <3>1, <3>2 DEF RelDone
  <2>2. ASSUME NEW w \in Word PROVE Moved(w)' <=> Moved(w)
    <3>1. \A k \in DOMAIN image.relr : ~(k < index)
      BY <1>2, <1>3, LengthsAre
    <3>. QED
      BY <1>1, <1>3, <3>1 DEF Moved
  <2>. QED
    BY <1>1, <1>3, <2>1, <2>2, WordsStay
<1>7. ConstructorsCalled'
  BY <1>1, <1>3 DEF ConstructorsCalled, LinkIInv
<1>8. MissingImportNamed'
  BY <1>1, MissingKept DEF LinkIInv
<1>. QED
  BY <1>4, <1>5, <1>6, <1>7, <1>8 DEF LinkIInv

LEMMA ToImportsKeeps == LinkIInv /\ ToImports => LinkIInv'
<1>. SUFFICES ASSUME LinkIInv, ToImports PROVE LinkIInv'
  OBVIOUS
<1>1. /\ image \in Images /\ image' = image /\ pc = "packed" /\ pc' = "resolve" /\ where' = where
      /\ mem' = mem /\ result' = result /\ ran' = ran /\ died' = died /\ index' = 1 /\ ran = <<>>
      /\ result = 0 /\ index \in Nat /\ index >= 1 /\ index > Len(image.relr) /\ RelWords /\ OtherWords
  BY LengthsAre DEF LinkIInv, LinkTypeOK, LoopsFollow, ToImports, Past, Entering, ConstructorsCalled
<1>2. AddressFirst(image.relr)
  <2>1. CASE index > 1
    BY <1>1, <2>1 DEF LinkIInv, LoopsFollow
  <2>2. CASE index = 1
    BY <1>1, <2>2, LengthsAre DEF AddressFirst
  <2>. QED
    BY <1>1, <2>1, <2>2
<1>3. LinkTypeOK'
  <2>1. index' \in Nat \ {0} /\ index' <= Len(image.rels) + 1
    BY <1>1, LengthsAre
  <2>2. index' \in 1..(1 + Len(image.rels) + Len(image.relr) + Len(image.init))
    BY <1>1, <2>1, IndexFits
  <2>3. index' \in 1..(1 + Len(image.rels) + Len(image.relr) + Len(image.init))'
    BY <1>1, <2>2
  <2>4. mem' \in [Word -> Value] /\ (where' # NULL => where' \in Nat)
    BY <1>1 DEF LinkTypeOK, LinkIInv
  <2>. QED
    BY <1>1, <2>3, <2>4 DEF LinkTypeOK
<1>4. LoopsFollow'
  BY <1>1, <1>2 DEF LoopsFollow, AddressFirst
<1>5. RelWords' /\ OtherWords'
  <2>1. ASSUME NEW n \in DOMAIN image.rels PROVE RelDone(n)' <=> RelDone(n)
    <3>1. IsImport(image.rels[n])' = IsImport(image.rels[n])
      BY <1>1, ImageKept
    <3>2. ~(n < 1)
      BY <1>1, LengthsAre
    <3>. QED
      BY <1>1, <3>1, <3>2 DEF RelDone
  <2>2. ASSUME NEW w \in Word PROVE Moved(w)' <=> Moved(w)
    <3>1. \A k \in DOMAIN image.relr : k < index
      BY <1>1, LengthsAre
    <3>. QED
      BY <1>1, <3>1 DEF Moved
  <2>. QED
    BY <1>1, <2>1, <2>2, WordsStay
<1>6. ConstructorsCalled'
  BY <1>1 DEF ConstructorsCalled, LinkIInv
<1>7. MissingImportNamed'
  BY <1>1, MissingKept DEF LinkIInv
<1>. QED
  BY <1>3, <1>4, <1>5, <1>6, <1>7 DEF LinkIInv

-----------------------------------------------------------------------------
LEMMA ResolveKeeps == LinkIInv /\ Resolve => LinkIInv'
<1>. SUFFICES ASSUME LinkIInv, Resolve PROVE LinkIInv'
  OBVIOUS
<1>. DEFINE rel == image.rels[index]
<1>1. /\ image \in Images /\ image' = image /\ pc = "resolve" /\ pc' = pc /\ where' = where
      /\ result' = result /\ ran' = ran /\ died' = died /\ index' = index + 1
      /\ index \in Nat /\ index >= 1 /\ index <= Len(image.rels)
      /\ mem' = IF IsImport(rel) THEN Put(rel.at, ImportValue(rel)) ELSE mem
  BY LengthsAre DEF LinkIInv, LinkTypeOK, LoopsFollow, Resolve, More
<1>2. index \in DOMAIN image.rels /\ mem \in [Word -> Value] /\ RelWords /\ OtherWords
  BY <1>1, LengthsAre DEF LinkIInv, LinkTypeOK
<1>3. IsImport(rel) => mem[rel.at] = image.words[rel.at]
  BY <1>1, <1>2 DEF RelDone, RelWords
<1>4. rel.at \in Word /\ Meaning(rel) \in Value /\ (IsImport(rel) => ImportValue(rel) = Meaning(rel))
  BY <1>1, <1>2, <1>3, ImageIs, MeaningIs, ResolvedIs
<1>. HIDE DEF rel
<1>5. /\ mem' \in [Word -> Value]
      /\ \A w \in Word : mem'[w] = IF w = rel.at /\ IsImport(rel) THEN Meaning(rel) ELSE mem[w]
  BY <1>1, <1>2, <1>4 DEF Put
<1>6. LinkTypeOK'
  <2>1. index' \in Nat \ {0} /\ index' <= Len(image.rels) + 1
    BY <1>1, LengthsAre
  <2>2. index' \in 1..(1 + Len(image.rels) + Len(image.relr) + Len(image.init))
    BY <1>1, <2>1, IndexFits
  <2>. QED
    BY <1>1, <1>5, <2>2 DEF LinkTypeOK, LinkIInv
<1>7. LoopsFollow'
  BY <1>1 DEF LoopsFollow, LinkIInv, AddressFirst
<1>8. RelWords'
  <2>1. SUFFICES ASSUME NEW n \in DOMAIN image.rels
                 PROVE  mem'[image.rels[n].at] =
                          IF RelDone(n)' THEN Meaning(image.rels[n]) ELSE image.words[image.rels[n].at]
    <3>1. \A r : Meaning(r)' = Meaning(r)
      BY <1>1, ImageKept
    <3>. QED
      BY <1>1, <2>1, <3>1 DEF RelWords
  <2>2. IsImport(image.rels[n])' = IsImport(image.rels[n])
    BY <1>1, ImageKept
  <2>3. n \in Nat /\ (RelDone(n)' <=> ~IsImport(image.rels[n]) \/ n < index + 1)
    BY <1>1, <2>2, LengthsAre DEF RelDone
  <2>4. RelDone(n) <=> ~IsImport(image.rels[n]) \/ n < index
    BY <1>1 DEF RelDone
  <2>5. image.rels[n].at \in Word /\ (image.rels[n].at = rel.at => n = index)
    BY <1>1, <1>2, ImageIs DEF rel
  <2>6. mem[image.rels[n].at] = IF RelDone(n) THEN Meaning(image.rels[n]) ELSE image.words[image.rels[n].at]
    BY <1>2 DEF RelWords
  <2>7. CASE n = index
    <3>1. RelDone(n)' /\ (~IsImport(rel) => RelDone(n))
      BY <1>1, <2>3, <2>4, <2>7 DEF rel
    <3>. QED
      BY <1>5, <2>5, <2>6, <2>7, <3>1 DEF rel
  <2>8. CASE n # index
    <3>1. n < index + 1 <=> n < index
      BY <1>1, <2>3, <2>8
    <3>2. mem'[image.rels[n].at] = mem[image.rels[n].at]
      BY <1>5, <2>5, <2>8
    <3>. QED
      BY <2>3, <2>4, <2>6, <3>1, <3>2
  <2>. QED
    BY <2>7, <2>8
<1>9. OtherWords'
  <2>1. ASSUME NEW w \in Word, RelsAt(w) = {} PROVE mem'[w] = mem[w]
    <3>1. w # rel.at
      BY <1>2, <2>1 DEF RelsAt, rel
    <3>. QED
      BY <1>5, <3>1
  <2>2. \A w : RelsAt(w)' = RelsAt(w)
    BY <1>1, ImageKept
  <2>3. \A w \in Word : Moved(w)' <=> Moved(w)
    BY <1>1 DEF Moved
  <2>4. SUFFICES ASSUME NEW w \in Word, RelsAt(w) = {}
                 PROVE  mem'[w] = IF Moved(w)' THEN Sum(image.words[w], Base) ELSE image.words[w]
    BY <1>1, <2>2, <2>4 DEF OtherWords, Sum
  <2>. QED
    BY <1>2, <2>1, <2>3, <2>4 DEF OtherWords
<1>10. ConstructorsCalled'
  BY <1>1 DEF ConstructorsCalled, LinkIInv
<1>11. MissingImportNamed'
  BY <1>1, MissingKept DEF LinkIInv
<1>. QED
  BY <1>6, <1>7, <1>8, <1>9, <1>10, <1>11 DEF LinkIInv

(* After both loops every word is what it should be.                       *)
LEMMA AllLinked ==
  ASSUME image \in Images, RelWords, OtherWords, pc \in {"init", "running"},
         result = 0, AddressFirst(image.relr), NEW w \in Word
  PROVE  mem[w] = Wanted(w)
<1>1. CASE RelsAt(w) # {}
  <2>. DEFINE n == First(RelsAt(w))
  <2>1. RelsAt(w) \in SUBSET Nat
    BY LengthsAre DEF RelsAt
  <2>2. n \in RelsAt(w)
    BY <1>1, <2>1, FirstIn
  <2>. HIDE DEF n
  <2>3. n \in DOMAIN image.rels /\ image.rels[n].at = w
    BY <2>2 DEF RelsAt
  <2>4. RelDone(n)
    BY DEF RelDone
  <2>5. mem[w] = Meaning(image.rels[n])
    BY <2>3, <2>4 DEF RelWords
  <2>. QED
    BY <1>1, <2>5 DEF Wanted, n
<1>2. CASE RelsAt(w) = {}
  <2>1. image.packed = UNION {Packs(image.relr, k) : k \in DOMAIN image.relr}
    BY ImageAssumption
  <2>2. Moved(w) <=> w \in image.packed
    <3>1. Moved(w) <=> \E k \in DOMAIN image.relr : w \in Packs(image.relr, k)
      BY DEF Moved
    <3>. QED
      BY <2>1, <3>1
  <2>. QED
    BY <1>2, <2>2 DEF OtherWords, Wanted, Sum
<1>. QED
  BY <1>1, <1>2

LEMMA ConstructorsKept ==
  ASSUME image' = image
  PROVE  /\ Constructors' = Constructors
         /\ \A n : Rank(n)' = Rank(n)
<1>1. \A w : Wanted(w)' = Wanted(w)
  BY ImageKept
<1>2. Constructors' = Constructors
  BY <1>1 DEF Constructors
<1>. QED
  BY <1>2 DEF Rank

(* Of a finite set of places, those below one of its members.              *)
LEMMA PlacesBelow ==
  ASSUME NEW C, IsFiniteSet(C), \A k \in C : k \in Nat, NEW m \in Nat
  PROVE  /\ Cardinality(Before(C, m)) \in Nat
         /\ Cardinality(Before(C, m)) <= Cardinality(C)
         /\ \A n \in C :
              /\ Cardinality(UpTo(C, n)) \in Nat \ {0}
              /\ n < m <=> Cardinality(UpTo(C, n)) <= Cardinality(Before(C, m))
         /\ m \in C =>
              /\ Cardinality(UpTo(C, m)) = Cardinality(Before(C, m)) + 1
              /\ Cardinality(Before(C, m + 1)) = Cardinality(Before(C, m)) + 1
         /\ m \notin C => Before(C, m + 1) = Before(C, m)
<1>. DEFINE before == Before(C, m)
<1>1. IsFiniteSet(before) /\ Cardinality(before) \in Nat /\ Cardinality(before) <= Cardinality(C)
  <2>1. before \subseteq C
    BY DEF Before
  <2>. QED
    BY <2>1, FS_Subset, FS_CardinalityType
<1>2. ASSUME NEW n \in C
      PROVE  /\ Cardinality(UpTo(C, n)) \in Nat \ {0}
             /\ n < m => Cardinality(UpTo(C, n)) <= Cardinality(before)
             /\ ~(n < m) => Cardinality(UpTo(C, n)) > Cardinality(before)
  <2>. DEFINE S == UpTo(C, n)
  <2>1. S \subseteq C /\ n \in S /\ n \in Nat
    BY DEF UpTo
  <2>2. \A k \in C : (n < m /\ k <= n => k < m) /\ (~(n < m) /\ k < m => k <= n)
    BY <2>1
  <2>3. (n < m => S \subseteq before) /\ (~(n < m) => before \cup {n} \subseteq S /\ n \notin before)
    BY <2>1, <2>2 DEF Before, UpTo
  <2>. HIDE DEF S, before
  <2>4. IsFiniteSet(S) /\ Cardinality(S) \in Nat
    BY <2>1, FS_Subset, FS_CardinalityType
  <2>5. Cardinality(S) # 0
    BY <2>1, <2>4, FS_EmptySet
  <2>6. n < m => Cardinality(S) <= Cardinality(before)
    BY <1>1, <2>3, FS_Subset
  <2>7. ASSUME ~(n < m) PROVE Cardinality(S) > Cardinality(before)
    <3>1. Cardinality(before \cup {n}) = Cardinality(before) + 1
      BY <1>1, <2>3, <2>7, FS_AddElement
    <3>2. Cardinality(before \cup {n}) <= Cardinality(S)
      BY <2>3, <2>4, <2>7, FS_Subset
    <3>. QED
      BY <1>1, <2>4, <3>1, <3>2
  <2>. QED
    BY <2>4, <2>5, <2>6, <2>7 DEF S
<1>3. ASSUME m \in C
      PROVE  /\ Cardinality(UpTo(C, m)) = Cardinality(before) + 1
             /\ Cardinality(Before(C, m + 1)) = Cardinality(before) + 1
  <2>1. \A k \in C : (k < m + 1 <=> k < m \/ k = m) /\ (k <= m <=> k < m \/ k = m)
    OBVIOUS
  <2>2. UpTo(C, m) = before \cup {m} /\ m \notin before
    <3>1. m \notin before
      BY DEF Before
    <3>2. \A k : k \in UpTo(C, m) <=> k \in before \cup {m}
      BY <1>3, <2>1 DEF Before, UpTo
    <3>. HIDE DEF before
    <3>. QED
      BY <3>1, <3>2
  <2>3. Before(C, m + 1) = before \cup {m}
    BY <1>3, <2>1 DEF Before
  <2>. HIDE DEF before
  <2>4. Cardinality(before \cup {m}) = Cardinality(before) + 1
    BY <1>1, <2>2, FS_AddElement
  <2>. QED
    BY <2>2, <2>3, <2>4
<1>4. ASSUME m \notin C PROVE Before(C, m + 1) = before
  <2>1. \A k \in C : k < m + 1 <=> k < m
    BY <1>4
  <2>. QED
    BY <2>1 DEF Before
<1>5. \A n \in C : n \in Nat
  OBVIOUS
<1>. DEFINE size == Cardinality(before)
<1>6. \A n \in C :
        /\ Cardinality(UpTo(C, n)) \in Nat \ {0}
        /\ n < m <=> Cardinality(UpTo(C, n)) <= size
  <2>. SUFFICES ASSUME NEW n \in C
                PROVE  /\ Cardinality(UpTo(C, n)) \in Nat \ {0}
                       /\ n < m <=> Cardinality(UpTo(C, n)) <= size
    OBVIOUS
  <2>. DEFINE c == Cardinality(UpTo(C, n))
  <2>1. c \in Nat \ {0} /\ (n < m => c <= size) /\ (~(n < m) => c > size) /\ size \in Nat
    BY <1>1, <1>2
  <2>. HIDE DEF c, size
  <2>2. n < m <=> c <= size
    BY <2>1
  <2>. QED
    BY <2>1, <2>2 DEF c
<1>. QED
  BY <1>1, <1>3, <1>4, <1>6

(* How many constructors precede a place, and where one of them stands.    *)
LEMMA RanksAre ==
  ASSUME image \in Images, NEW m \in Nat
  PROVE  /\ Cardinality(Constructors) \in Nat
         /\ \A n \in Constructors : n \in DOMAIN image.init /\ n \in Nat
         /\ Cardinality(Before(Constructors, m)) \in Nat
         /\ Cardinality(Before(Constructors, m)) <= Cardinality(Constructors)
         /\ \A n \in Constructors :
              /\ Rank(n) \in Nat \ {0}
              /\ n < m <=> Rank(n) <= Cardinality(Before(Constructors, m))
         /\ m \in Constructors =>
              /\ Rank(m) = Cardinality(Before(Constructors, m)) + 1
              /\ Cardinality(Before(Constructors, m + 1)) = Cardinality(Before(Constructors, m)) + 1
         /\ m \notin Constructors => Before(Constructors, m + 1) = Before(Constructors, m)
<1>. DEFINE C == Constructors
<1>1. C \subseteq 1..Len(image.init) /\ Len(image.init) \in Nat /\ DOMAIN image.init = 1..Len(image.init)
  BY LengthsAre DEF Constructors
<1>2. \A n : Rank(n) = Cardinality(UpTo(C, n))
  BY DEF Rank, UpTo
<1>. HIDE DEF C
<1>3. IsFiniteSet(1..Len(image.init))
  BY <1>1, FS_Interval
<1>4. IsFiniteSet(C) /\ Cardinality(C) \in Nat /\ \A n \in C : n \in DOMAIN image.init /\ n \in Nat
  <2>1. IsFiniteSet(C)
    BY <1>1, <1>3, FS_Subset
  <2>2. Cardinality(C) \in Nat
    BY <2>1, FS_CardinalityType
  <2>. QED
    BY <1>1, <2>1, <2>2
<1>5. /\ Cardinality(Before(C, m)) \in Nat
      /\ Cardinality(Before(C, m)) <= Cardinality(C)
      /\ \A n \in C : /\ Cardinality(UpTo(C, n)) \in Nat \ {0}
                      /\ n < m <=> Cardinality(UpTo(C, n)) <= Cardinality(Before(C, m))
  BY <1>4, PlacesBelow
<1>6. /\ m \in C => /\ Rank(m) = Cardinality(Before(C, m)) + 1
                    /\ Cardinality(Before(C, m + 1)) = Cardinality(Before(C, m)) + 1
      /\ m \notin C => Before(C, m + 1) = Before(C, m)
  BY <1>2, <1>4, PlacesBelow
<1>7. \A n \in C : Rank(n) \in Nat \ {0} /\ (n < m <=> Rank(n) <= Cardinality(Before(C, m)))
  BY <1>2, <1>5
<1>. QED
  BY <1>4, <1>5, <1>6, <1>7 DEF C

LEMMA ToConstructorsKeeps == LinkIInv /\ ToConstructors => LinkIInv'
<1>. SUFFICES ASSUME LinkIInv, ToConstructors PROVE LinkIInv'
  OBVIOUS
<1>1. /\ image \in Images /\ image' = image /\ pc = "resolve" /\ pc' = "init" /\ where' = where
      /\ mem' = mem /\ result' = result /\ ran' = ran /\ died' = died /\ index' = 1 /\ ran = <<>>
      /\ index \in Nat /\ index > Len(image.rels) /\ RelWords /\ OtherWords
  BY LengthsAre DEF LinkIInv, LinkTypeOK, LoopsFollow, ToConstructors, Past, Entering, ConstructorsCalled
<1>2. LinkTypeOK'
  <2>1. index' \in Nat \ {0} /\ index' <= Len(image.rels) + 1
    BY <1>1, LengthsAre
  <2>2. index' \in 1..(1 + Len(image.rels) + Len(image.relr) + Len(image.init))
    BY <1>1, <2>1, IndexFits
  <2>3. index' \in 1..(1 + Len(image.rels) + Len(image.relr) + Len(image.init))'
    BY <1>1, <2>2
  <2>4. mem' \in [Word -> Value] /\ (where' # NULL => where' \in Nat)
    BY <1>1 DEF LinkTypeOK, LinkIInv
  <2>. QED
    BY <1>1, <2>3, <2>4 DEF LinkTypeOK
<1>3. LoopsFollow'
  BY <1>1 DEF LoopsFollow, LinkIInv, AddressFirst
<1>4. RelWords' /\ OtherWords'
  <2>1. ASSUME NEW n \in DOMAIN image.rels PROVE RelDone(n)' <=> RelDone(n)
    <3>1. IsImport(image.rels[n])' = IsImport(image.rels[n])
      BY <1>1, ImageKept
    <3>2. n < index
      BY <1>1, LengthsAre
    <3>. QED
      BY <1>1, <3>1, <3>2 DEF RelDone
  <2>2. \A w \in Word : Moved(w)' <=> Moved(w)
    BY <1>1 DEF Moved
  <2>. QED
    BY <1>1, <2>1, <2>2, WordsStay
<1>5. ConstructorsCalled'
  <2>1. Before(Constructors, 1) = {}
    <3>1. \A k \in Constructors : ~(k < 1)
      BY <1>1, LengthsAre DEF Constructors
    <3>. QED
      BY <3>1 DEF Before
  <2>2. Len(<<>>) = 0 /\ Cardinality({}) = 0
    BY FS_EmptySet
  <2>3. CalledBefore(1)
    BY <1>1, <2>1, <2>2 DEF CalledBefore
  <2>4. CalledBefore(index)'
    BY <1>1, <2>3, ConstructorsKept, ImageKept DEF CalledBefore, Before
  <2>. QED
    BY <1>1, <2>4 DEF ConstructorsCalled, LinkIInv
<1>6. MissingImportNamed'
  BY <1>1, MissingKept DEF LinkIInv
<1>. QED
  BY <1>2, <1>3, <1>4, <1>5, <1>6 DEF LinkIInv

(* The calls made stay what they were while the image does.                *)
LEMMA CallsStay ==
  ASSUME image' = image, ran' = ran, NEW m, CalledBefore(m)
  PROVE  CalledBefore(m)'
<1>1. Before(Constructors, m)' = Before(Constructors, m)
  BY ConstructorsKept DEF Before
<1>2. \A n : Rank(n)' = Rank(n) /\ Wanted(image.init[n])' = Wanted(image.init[n])
  BY ConstructorsKept, ImageKept
<1>. QED
  BY <1>1, <1>2 DEF CalledBefore

(* A constructor is called at its rank.                                    *)
LEMMA OneMoreCalled ==
  ASSUME image \in Images, image' = image, ran \in Seq(Value), NEW m \in DOMAIN image.init, CalledBefore(m),
         ran' = IF Skipped(Wanted(image.init[m])) THEN ran ELSE Append(ran, Wanted(image.init[m])),
         Wanted(image.init[m]) \in Value
  PROVE  CalledBefore(m + 1)'
<1>. DEFINE f == Wanted(image.init[m])
<1>1. m \in Nat
  BY LengthsAre
<1>2. /\ Constructors' = Constructors
      /\ \A n : Rank(n)' = Rank(n) /\ Wanted(image.init[n])' = Wanted(image.init[n])
  BY ConstructorsKept, ImageKept
<1>3. CASE Skipped(f)
  <2>1. m \notin Constructors
    BY <1>3 DEF Constructors
  <2>2. Before(Constructors, m + 1) = Before(Constructors, m)
    BY <1>1, <2>1, RanksAre
  <2>3. CalledBefore(m + 1)
    BY <2>2 DEF CalledBefore
  <2>4. ran' = ran
    BY <1>3
  <2>. QED
    BY <2>3, <2>4, CallsStay
<1>4. CASE ~Skipped(f)
  <2>1. m \in Constructors
    BY <1>4 DEF Constructors
  <2>2. /\ Rank(m) = Cardinality(Before(Constructors, m)) + 1
        /\ Cardinality(Before(Constructors, m + 1)) = Cardinality(Before(Constructors, m)) + 1
        /\ Cardinality(Before(Constructors, m)) \in Nat
        /\ \A n \in Constructors :
             n \in Nat /\ Rank(n) \in Nat \ {0} /\ (n < m <=> Rank(n) <= Cardinality(Before(Constructors, m)))
    BY <1>1, <2>1, RanksAre
  <2>3. Len(ran) = Cardinality(Before(Constructors, m))
    BY DEF CalledBefore
  <2>4. ran' = Append(ran, f)
    BY <1>4
  <2>. HIDE DEF f
  <2>5. /\ Len(ran') = Len(ran) + 1 /\ ran'[Len(ran) + 1] = f
        /\ \A i \in 1..Len(ran) : ran'[i] = ran[i]
    BY <2>4, AppendProperties DEF f
  <2>6. Len(ran') = Cardinality(Before(Constructors, m + 1))
    BY <2>2, <2>3, <2>5
  <2>7. ASSUME NEW n \in Before(Constructors, m + 1) PROVE ran'[Rank(n)] = Wanted(image.init[n])
    <3>1. n \in Constructors /\ n < m + 1 /\ n \in Nat
      BY <2>2 DEF Before
    <3>2. CASE n = m
      BY <2>2, <2>3, <2>5, <3>2 DEF f
    <3>3. CASE n # m
      <4>1. n < m
        BY <1>1, <3>1, <3>3
      <4>2. n \in Before(Constructors, m)
        BY <3>1, <4>1 DEF Before
      <4>3. Rank(n) \in 1..Len(ran)
        BY <2>2, <2>3, <3>1, <4>1
      <4>. QED
        BY <2>5, <4>2, <4>3 DEF CalledBefore
    <3>. QED
      BY <3>2, <3>3
  <2>8. Before(Constructors, m + 1)' = Before(Constructors, m + 1)
    BY <1>2 DEF Before
  <2>. QED
    BY <1>2, <2>6, <2>7, <2>8 DEF CalledBefore
<1>. QED
  BY <1>3, <1>4

LEMMA InitializeKeeps == LinkIInv /\ Initialize => LinkIInv'
<1>. SUFFICES ASSUME LinkIInv, Initialize PROVE LinkIInv'
  OBVIOUS
<1>. DEFINE f == mem[image.init[index]]
<1>1. /\ image \in Images /\ image' = image /\ pc = "init" /\ pc' = "init" /\ where' = where
      /\ mem' = mem /\ result' = result /\ died' = died /\ index' = index + 1
      /\ index \in Nat /\ index >= 1 /\ index <= Len(image.init) /\ RelWords /\ OtherWords
      /\ ran' = IF Skipped(f) THEN ran ELSE Append(ran, f)
  BY LengthsAre DEF LinkIInv, LinkTypeOK, LoopsFollow, Initialize, More
<1>2. index \in DOMAIN image.init /\ mem \in [Word -> Value] /\ ran \in Seq(Value)
  BY <1>1, LengthsAre DEF LinkIInv, LinkTypeOK, ConstructorsCalled
<1>3. image.init[index] \in Word /\ f \in Value
  BY <1>1, <1>2, ImageIs
<1>. HIDE DEF f
<1>4. LinkTypeOK'
  <2>1. index' \in Nat \ {0} /\ index' <= Len(image.init) + 1
    BY <1>1, LengthsAre
  <2>2. index' \in 1..(1 + Len(image.rels) + Len(image.relr) + Len(image.init))
    BY <1>1, <2>1, IndexFits
  <2>. QED
    BY <1>1, <2>2 DEF LinkTypeOK, LinkIInv
<1>5. LoopsFollow'
  BY <1>1 DEF LoopsFollow, LinkIInv, AddressFirst
<1>6. RelWords' /\ OtherWords'
  <2>1. \A n \in DOMAIN image.rels : RelDone(n)' <=> RelDone(n)
    BY <1>1 DEF RelDone
  <2>2. \A w \in Word : Moved(w)' <=> Moved(w)
    BY <1>1 DEF Moved
  <2>. QED
    BY <1>1, <2>1, <2>2, WordsStay
<1>7. ConstructorsCalled'
  <2>1. ran' \in Seq(Value)
    BY <1>1, <1>2, <1>3, AppendProperties
  <2>2. PICK m \in DOMAIN image.init : m = index
    BY <1>2
  <2>3. m + 1 = index'
    BY <1>1, <2>2
  <2>4. ASSUME result = 0 PROVE CalledBefore(m + 1)'
    <3>1. f = Wanted(image.init[m])
      <4>1. AddressFirst(image.relr)
        BY <1>1, <2>4 DEF LinkIInv, LoopsFollow
      <4>2. pc \in {"init", "running"}
        BY <1>1
      <4>. QED
        BY <1>1, <1>3, <2>2, <2>4, <4>1, <4>2, AllLinked DEF f
    <3>2. CalledBefore(m)
      BY <1>1, <2>2, <2>4 DEF LinkIInv, ConstructorsCalled
    <3>3. Wanted(image.init[m]) \in Value
      BY <1>3, <3>1
    <3>4. ran' = IF Skipped(Wanted(image.init[m])) THEN ran ELSE Append(ran, Wanted(image.init[m]))
      BY <1>1, <3>1
    <3>. QED
      BY <1>1, <1>2, <2>2, <3>2, <3>3, <3>4, OneMoreCalled
  <2>5. result = 0 => CalledBefore(index)'
    BY <2>3, <2>4 DEF CalledBefore
  <2>. QED
    BY <1>1, <2>1, <2>5 DEF ConstructorsCalled
<1>8. MissingImportNamed'
  BY <1>1, MissingKept DEF LinkIInv
<1>. QED
  BY <1>4, <1>5, <1>6, <1>7, <1>8 DEF LinkIInv

LEMMA InitializedKeeps == LinkIInv /\ Initialized => LinkIInv'
<1>. SUFFICES ASSUME LinkIInv, Initialized PROVE LinkIInv'
  OBVIOUS
<1>1. /\ image \in Images /\ image' = image /\ pc = "init" /\ pc' = "running" /\ where' = where
      /\ mem' = mem /\ result' = result /\ died' = died /\ index' = index /\ ran' = ran
      /\ index \in Nat /\ index > Len(image.init) /\ RelWords /\ OtherWords
  BY LengthsAre DEF LinkIInv, LinkTypeOK, LoopsFollow, Initialized, Past
<1>2. LinkTypeOK'
  BY <1>1 DEF LinkTypeOK, LinkIInv
<1>3. LoopsFollow'
  BY <1>1 DEF LoopsFollow, LinkIInv, AddressFirst
<1>4. RelWords' /\ OtherWords'
  <2>1. \A n \in DOMAIN image.rels : RelDone(n)' <=> RelDone(n)
    BY <1>1 DEF RelDone
  <2>2. \A w \in Word : Moved(w)' <=> Moved(w)
    BY <1>1 DEF Moved
  <2>. QED
    BY <1>1, <2>1, <2>2, WordsStay
<1>5. ConstructorsCalled'
  <2>1. Before(Constructors, Len(image.init) + 1) = Before(Constructors, index)
    <3>1. \A k \in Constructors : k < Len(image.init) + 1 /\ k < index
      BY <1>1, LengthsAre DEF Constructors
    <3>. QED
      BY <3>1 DEF Before
  <2>2. result = 0 => CalledBefore(Len(image.init) + 1)
    BY <1>1, <2>1 DEF LinkIInv, ConstructorsCalled, CalledBefore
  <2>3. result = 0 => CalledBefore(Len(image.init) + 1)'
    BY <1>1, <2>2, CallsStay
  <2>4. ran' \in Seq(Value)
    BY <1>1 DEF LinkIInv, ConstructorsCalled
  <2>5. result' = 0 => CalledBefore(Len(image.init) + 1)'
    BY <1>1, <2>3
  <2>. QED
    BY <1>1, <2>4, <2>5 DEF ConstructorsCalled, CalledBefore
<1>6. MissingImportNamed'
  BY <1>1, MissingKept DEF LinkIInv
<1>. QED
  BY <1>2, <1>3, <1>4, <1>5, <1>6 DEF LinkIInv

(* A slot is one relocation's, so reloc_err finds the one that was called. *)
LEMMA CallImportKeeps ==
  ASSUME LinkIInv, NEW n \in Slots, CallImport(image.rels[n].at)
  PROVE  LinkIInv'
<1>. DEFINE rel == image.rels[n]
<1>1. /\ image \in Images /\ image' = image /\ pc = "running" /\ pc' = "fatal" /\ where' = where
      /\ mem' = mem /\ result' = result /\ index' = index /\ ran' = ran
      /\ mem[rel.at] = Stub /\ RelWords
      /\ died' = [slot |-> rel.at, name |-> image.rels[Blamed(rel.at)].symbol]
  BY DEF LinkIInv, LoopsFollow, CallImport
<1>2. n \in DOMAIN image.rels /\ n \in Nat /\ rel.type = "JUMP_SLOT"
  BY <1>1, ImageIs DEF Slots
<1>3. Blamed(rel.at) = n
  <2>1. {k \in Slots : image.rels[k].at = rel.at} = {n}
    BY <1>1, <1>2, ImageIs DEF Slots
  <2>2. First({n}) = n
    BY <1>2, FirstIn
  <2>. QED
    BY <2>1, <2>2 DEF Blamed
<1>4. ~Found(rel)
  <2>1. RelDone(n)
    BY <1>1 DEF RelDone
  <2>2. Meaning(rel) = Stub
    BY <1>1, <1>2, <2>1 DEF RelWords
  <2>. QED
    BY <1>1, <1>2, <2>2, MeaningIs
<1>5. LinkTypeOK'
  BY <1>1 DEF LinkTypeOK, LinkIInv
<1>6. LoopsFollow'
  BY <1>1 DEF LoopsFollow, LinkIInv
<1>7. ConstructorsCalled'
  <2>1. ran' \in Seq(Value)
    BY <1>1 DEF LinkIInv, ConstructorsCalled
  <2>2. result' = 0 => CalledBefore(Len(image.init) + 1)
    BY <1>1 DEF LinkIInv, ConstructorsCalled
  <2>3. result' = 0 => CalledBefore(Len(image.init) + 1)'
    BY <1>1, <2>2, CallsStay
  <2>. QED
    BY <1>1, <2>1, <2>3 DEF ConstructorsCalled, CalledBefore
<1>8. MissingImportNamed'
  <2>1. ~Found(rel)'
    BY <1>1, <1>4, ImageKept
  <2>2. rel.at = died'.slot /\ rel.symbol = died'.name
    BY <1>1, <1>3
  <2>. QED
    BY <1>1, <1>2, <2>1, <2>2 DEF MissingImportNamed
<1>. QED
  BY <1>1, <1>5, <1>6, <1>7, <1>8 DEF LinkIInv

LEMMA LinkStutters == LinkIInv /\ UNCHANGED linkVars => LinkIInv'
<1>. SUFFICES ASSUME LinkIInv, UNCHANGED linkVars PROVE LinkIInv'
  OBVIOUS
<1>1. /\ image' = image /\ pc' = pc /\ where' = where /\ mem' = mem /\ result' = result
      /\ index' = index /\ ran' = ran /\ died' = died /\ image \in Images
  BY DEF linkVars, LinkIInv, LoopsFollow
<1>2. LinkTypeOK' /\ LoopsFollow'
  BY <1>1 DEF LinkTypeOK, LinkIInv, LoopsFollow, AddressFirst
<1>3. pc # "fatal" => RelWords' /\ OtherWords'
  <2>1. \A n \in DOMAIN image.rels : RelDone(n)' <=> RelDone(n)
    BY <1>1, ImageKept DEF RelDone
  <2>2. \A w \in Word : Moved(w)' <=> Moved(w)
    BY <1>1 DEF Moved
  <2>. QED
    BY <1>1, <2>1, <2>2, WordsStay DEF LinkIInv
<1>4. ConstructorsCalled'
  <2>1. \A m : CalledBefore(m) => CalledBefore(m)'
    BY <1>1, CallsStay
  <2>2. /\ CalledBefore(index) => CalledBefore(index)'
        /\ CalledBefore(Len(image.init) + 1) => CalledBefore(Len(image.init) + 1)'
    BY <1>1, <2>1 DEF CalledBefore
  <2>. QED
    BY <1>1, <2>2 DEF LinkIInv, ConstructorsCalled
<1>5. MissingImportNamed'
  BY <1>1, MissingKept DEF LinkIInv
<1>. QED
  BY <1>1, <1>2, <1>3, <1>4, <1>5 DEF LinkIInv

LEMMA LinkNextKeeps == LinkIInv /\ [LinkNext]_linkVars => LinkIInv'
BY LinkStutters, RelocateKeeps, UnknownTypeKeeps, ToPackedKeeps, PackedAddressKeeps, PackedMapKeeps,
   PackedRefusedKeeps, ToImportsKeeps, ResolveKeeps, ToConstructorsKeeps, InitializeKeeps,
   InitializedKeeps, CallImportKeeps
   DEF LinkNext, LinkStep

LEMMA CalledInOrder ==
  ASSUME image \in Images, ran \in Seq(Value), NEW m \in Nat, CalledBefore(m)
  PROVE  /\ Len(ran) <= Cardinality(Constructors)
         /\ \A n \in Constructors : Rank(n) <= Len(ran) => ran[Rank(n)] = Wanted(image.init[n])
         /\ m > Len(image.init) => Len(ran) = Cardinality(Constructors)
<1>1. /\ Len(ran) = Cardinality(Before(Constructors, m))
      /\ \A n \in Before(Constructors, m) : ran[Rank(n)] = Wanted(image.init[n])
  BY DEF CalledBefore
<1>2. /\ Cardinality(Before(Constructors, m)) <= Cardinality(Constructors)
      /\ \A n \in Constructors : n < m <=> Rank(n) <= Cardinality(Before(Constructors, m))
      /\ \A n \in Constructors : n \in DOMAIN image.init
  BY RanksAre
<1>3. ASSUME NEW n \in Constructors, Rank(n) <= Len(ran) PROVE ran[Rank(n)] = Wanted(image.init[n])
  <2>1. n < m
    BY <1>1, <1>2, <1>3
  <2>2. n \in Before(Constructors, m)
    BY <2>1 DEF Before
  <2>. QED
    BY <1>1, <2>2
<1>4. ASSUME m > Len(image.init) PROVE Before(Constructors, m) = Constructors
  <2>1. \A n \in Constructors : n < m
    BY <1>2, <1>4, LengthsAre
  <2>. QED
    BY <2>1 DEF Before
<1>. QED
  BY <1>1, <1>2, <1>3, <1>4

LEMMA LinkSuffices == LinkIInv => LinkInv
<1>. SUFFICES ASSUME LinkIInv PROVE LinkInv
  OBVIOUS
<1>1. image \in Images /\ LinkTypeOK /\ MissingImportNamed /\ ran \in Seq(Value)
  BY DEF LinkIInv, LoopsFollow, ConstructorsCalled
<1>2. LinkedLikeTheABI
  <2>. SUFFICES ASSUME pc \in {"init", "running"}, result = 0, NEW w \in Word PROVE mem[w] = Wanted(w)
    BY DEF LinkedLikeTheABI
  <2>1. RelWords /\ OtherWords /\ AddressFirst(image.relr)
    BY DEF LinkIInv, LoopsFollow
  <2>. QED
    BY <1>1, <2>1, AllLinked
<1>3. ConstructorsInOrder
  <2>. SUFFICES ASSUME result = 0 PROVE ConstructorsInOrder
    BY DEF ConstructorsInOrder
  <2>1. Len(image.init) + 1 \in Nat /\ Len(image.init) + 1 > Len(image.init) /\ index \in Nat
    BY <1>1, LengthsAre DEF LinkTypeOK
  <2>2. CASE ran = <<>> /\ pc # "running"
    <3>1. Len(ran) = 0
      BY <2>2
    <3>2. Cardinality(Constructors) \in Nat /\ \A n \in Constructors : Rank(n) \in Nat \ {0}
      BY <1>1, <2>1, RanksAre
    <3>. QED
      BY <2>2, <3>1, <3>2 DEF ConstructorsInOrder
  <2>3. CASE pc = "init"
    <3>1. CalledBefore(index)
      BY <2>3 DEF LinkIInv, ConstructorsCalled
    <3>. QED
      BY <1>1, <2>1, <2>3, <3>1, CalledInOrder DEF ConstructorsInOrder
  <2>4. CASE pc = "running" \/ (pc = "fatal" /\ ran # <<>>)
    <3>1. CalledBefore(Len(image.init) + 1)
      BY <2>4 DEF LinkIInv, ConstructorsCalled
    <3>. QED
      BY <1>1, <2>1, <3>1, CalledInOrder DEF ConstructorsInOrder
  <2>. QED
    BY <1>1, <2>2, <2>3, <2>4 DEF LinkIInv, ConstructorsCalled, LinkTypeOK
<1>. QED
  BY <1>1, <1>2, <1>3 DEF LinkInv

(* Every module a linker may have written is, once linked, what the ELF    *)
(* ABI says, word for word; its constructors run in their order and each   *)
(* once; and a missing import that is called is the one that is named.     *)
THEOREM LinksLikeTheABI == LinkSpec => []LinkInv
<1>1. LinkInit => LinkIInv
  BY LinkStarts
<1>2. LinkIInv /\ [LinkNext]_linkVars => LinkIInv'
  BY LinkNextKeeps
<1>3. LinkIInv => LinkInv
  BY LinkSuffices
<1>. QED
  BY <1>1, <1>2, <1>3, PTL DEF LinkSpec
=============================================================================
