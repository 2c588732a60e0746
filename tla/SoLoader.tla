------------------------------ MODULE SoLoader ------------------------------
(***************************************************************************)
(* Mapping a shared object: the file is read into a block, every loadable  *)
(* segment gets blocks of its own, and a failure on the way gives back     *)
(* what its label of the error path frees.  Modules are loaded one after   *)
(* the other, each at most once; the contents of segments are left out.    *)
(***************************************************************************)
EXTENDS Integers, Sequences, FiniteSets

CONSTANTS
  Module,
  Segments,        (* what each module's segments are, in program order:   *)
                   (* "exec", "data", or "skip" for those not loaded       *)
  MaxDataSeg       (* MAX_DATA_SEG                                         *)

ASSUME LoaderAssumption ==
  /\ Segments \in [Module -> Seq({"exec", "data", "skip"})]
  /\ "none" \notin Module
  /\ MaxDataSeg \in Nat

(* A shared object has one segment of code, as mod->text_blockid expects:  *)
(* a second one would take the identifiers of the first.                   *)
OneText ==
  \A m \in Module : \A i, j \in DOMAIN Segments[m] :
    Segments[m][i] = "exec" /\ Segments[m][j] = "exec" => i = j

VARIABLES
  blocks,          (* the kernel's memory blocks in use                    *)
  files,           (* the modules whose file is open                       *)
  modules,         (* the list from head to tail                           *)
  loading,         (* the module being loaded, or "none"                   *)
  stage, segment,  (* where the load is                                    *)
  patch, text, data, (* mod->patch_blockid, text_blockid, data_blockid     *)
  res,             (* its result so far                                    *)
  answers          (* history: what each load has answered, and where it   *)
                   (* failed                                               *)

loadVars == <<blocks, files, modules, loading, stage, segment, patch, text, data, res, answers>>
segmentVars == <<patch, text, data, segment>>

None == <<>>

LoadInit ==
  /\ blocks = {} /\ files = {}
  /\ modules = <<>>
  /\ loading = "none" /\ stage = "idle" /\ segment = 0
  /\ patch = None /\ text = None /\ data = <<>>
  /\ res = 0
  /\ answers = [m \in Module |-> [res |-> 0, at |-> "none"]]

(* A block is known by its module, its use and the segment it is for; an   *)
(* id is positive.                                                         *)
Block(use, n) == <<loading, use, n>>
ErrorCode == -3
SomeId == 1

-----------------------------------------------------------------------------
(* so_file_load: the module is zeroed, the file opened and read.           *)
BeginLoad(m) ==
  /\ stage = "idle" /\ answers[m].at = "none"
  /\ loading' = m
  /\ patch' = None /\ text' = None /\ data' = <<>> /\ segment' = 0
  /\ res' = 0
  /\ stage' = "open"
  /\ UNCHANGED <<blocks, files, modules, answers>>

Answered(r, at) ==
  /\ answers' = [answers EXCEPT ![loading] = [res |-> r, at |-> at]]
  /\ stage' = "idle"
  /\ loading' = "none"

OpenFails ==
  /\ stage = "open" /\ loading \notin files
  /\ Answered(ErrorCode, "open")
  /\ UNCHANGED <<blocks, files, modules, res, segmentVars>>

OpenFile ==
  /\ stage = "open" /\ loading \notin files
  /\ files' = files \cup {loading}
  /\ UNCHANGED <<blocks, modules, loading, stage, res, answers, segmentVars>>

(* Without a block for the file the call returns at once, the file open.   *)
FileBlockFails ==
  /\ stage = "open" /\ loading \in files
  /\ Answered(ErrorCode, "file block")
  /\ UNCHANGED <<blocks, files, modules, res, segmentVars>>

ReadFile ==
  /\ stage = "open" /\ loading \in files
  /\ blocks' = blocks \cup {Block("file", 0)}
  /\ files' = files \ {loading}
  /\ stage' = "header"
  /\ UNCHANGED <<modules, loading, res, answers, segmentVars>>

(* The error paths: what the label and those below it free.  The mutant    *)
(* jumps past the data blocks.                                             *)
ErrFreeSo == blocks \ {Block("file", 0)}
ErrFreeText == ErrFreeSo \ {text, patch}
ErrFreeDataText == ErrFreeText
ErrFreeData == ErrFreeText \ {data[i] : i \in DOMAIN data}

Fail(freed, r, at) ==
  /\ blocks' = freed
  /\ res' = r
  /\ Answered(r, at)
  /\ UNCHANGED <<files, modules, segmentVars>>

BadMagic == stage = "header" /\ Fail(ErrFreeSo, -1, "magic")
GoodMagic ==
  /\ stage = "header"
  /\ stage' = "segments" /\ segment' = 1
  /\ UNCHANGED <<blocks, files, modules, loading, patch, text, data, res, answers>>

AtSegment(kind) ==
  /\ stage = "segments" /\ segment <= Len(Segments[loading])
  /\ Segments[loading][segment] = kind

SkipSegment ==
  /\ AtSegment("skip")
  /\ segment' = segment + 1
  /\ UNCHANGED <<blocks, files, modules, loading, stage, patch, text, data, res, answers>>

(* The code segment: the arena below it, then the text.                    *)
PatchFails == AtSegment("exec") /\ Fail(ErrFreeSo, ErrorCode, "patch")
TextFails ==
  /\ AtSegment("exec")
  /\ Fail(ErrFreeData, ErrorCode, "text")
MapExec ==
  /\ AtSegment("exec")
  /\ patch' = Block("patch", segment) /\ text' = Block("text", segment)
  /\ blocks' = blocks \cup {patch', text'}
  /\ res' = SomeId
  /\ segment' = segment + 1
  /\ UNCHANGED <<files, modules, loading, stage, data, answers>>

(* A data segment.  One too many leaves with the result of the allocation  *)
(* before it.                                                              *)
TooMany == Len(data) >= MaxDataSeg
TooManySegments == AtSegment("data") /\ TooMany /\ Fail(ErrFreeData, res, "segments")
DataFails == AtSegment("data") /\ ~TooMany /\ Fail(ErrFreeData, ErrorCode, "data")
MapData ==
  /\ AtSegment("data") /\ ~TooMany
  /\ data' = Append(data, Block("data", segment))
  /\ blocks' = blocks \cup {Block("data", segment)}
  /\ res' = SomeId
  /\ segment' = segment + 1
  /\ UNCHANGED <<files, modules, loading, stage, patch, text, answers>>

(* The tables must be there; then the file's block goes and the module is  *)
(* the list's last.                                                        *)
SectionsMissing ==
  /\ stage = "segments" /\ segment > Len(Segments[loading])
  /\ Fail(ErrFreeData, -2, "sections")
Link == Append(modules, loading)
Loaded ==
  /\ stage = "segments" /\ segment > Len(Segments[loading])
  /\ blocks' = blocks \ {Block("file", 0)}
  /\ modules' = Link
  /\ Answered(0, "loaded")
  /\ UNCHANGED <<files, res, segmentVars>>

LoadStep ==
  \/ OpenFails \/ OpenFile \/ FileBlockFails \/ ReadFile \/ BadMagic \/ GoodMagic
  \/ SkipSegment \/ PatchFails \/ TextFails \/ MapExec
  \/ TooManySegments \/ DataFails \/ MapData
  \/ SectionsMissing \/ Loaded
LoadNext == LoadStep \/ \E m \in Module : BeginLoad(m)

LoadSpec == LoadInit /\ [][LoadNext]_loadVars

-----------------------------------------------------------------------------
Ended(m) == answers[m].at # "none"
BlocksOf(m) == {b \in blocks : b[1] = m}
MappedSegments(m) == {n \in DOMAIN Segments[m] : Segments[m][n] # "skip"}

(* A load knows its segment and its blocks, and no module answers twice.   *)
LoadTypeOK ==
  /\ stage \in {"idle", "open", "header", "segments"}
  /\ loading \in Module \cup {"none"}
  /\ (stage = "idle") = (loading = "none")
  /\ stage = "segments" => segment \in 1..(Len(Segments[loading]) + 1)
  /\ Len(data) <= MaxDataSeg

(* A module in the list has all its segments, and nothing else, mapped.    *)
ListedAreMapped ==
  \A i \in DOMAIN modules :
    LET m == modules[i] IN
    BlocksOf(m) =
      UNION {IF Segments[m][n] = "exec" THEN {<<m, "patch", n>>, <<m, "text", n>>}
                                        ELSE {<<m, "data", n>>} : n \in MappedSegments(m)}

(* The list has every module that was loaded, once, in the order of the    *)
(* loads, whatever failed between them.                                    *)
ListIsOfLoaded ==
  /\ {modules[i] : i \in DOMAIN modules} = {m \in Module : answers[m].at = "loaded"}
  /\ Len(modules) = Cardinality({m \in Module : answers[m].at = "loaded"})

(* A load that fails leaves no block behind, save in one place: when the   *)
(* arena fails, the data segments mapped before the code stay.             *)
FailureGivesBack ==
  \A m \in Module : Ended(m) /\ answers[m].at # "loaded" =>
    BlocksOf(m) \subseteq {b \in blocks : answers[m].at = "patch" /\ b[2] = "data"}

(* A file stays open only when its block failed.                           *)
FilesClosed == \A m \in files : Ended(m) => answers[m].at = "file block"

(* The answer is negative if the load failed: main() goes on otherwise.    *)
(* The exception is one data segment too many, which answers with the      *)
(* identifier of the block that was allocated, and freed, before it.       *)
FailuresAnswerNegative ==
  \A m \in Module : Ended(m) /\ answers[m].at \notin {"loaded", "segments"} => answers[m].res < 0

(* A load has all it mapped in the list or has given it back, with the     *)
(* file closed and an answer that tells.                                   *)
LoaderInv ==
  /\ LoadTypeOK
  /\ ListedAreMapped
  /\ ListIsOfLoaded
  /\ FailureGivesBack
  /\ FilesClosed
  /\ FailuresAnswerNegative
=============================================================================
