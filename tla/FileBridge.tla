----------------------------- MODULE FileBridge -----------------------------
(***************************************************************************)
(* The file calls of src/reimpl/io.c: each maps its path, asks the kernel  *)
(* and keeps two globals, the count of streams and the flag that a preset  *)
(* is being read.  The kernel is external: any request may fail.           *)
(***************************************************************************)
EXTENDS PathPolicy, FiniteSets

CONSTANTS
  Input,           (* the paths Caustic passes                             *)
  Handle           (* bound: streams and descriptors open at a time        *)

ASSUME BridgeAssumption == Input \subseteq Path

VARIABLES
  open,            (* what each handle has open                            *)
  fopenc,          (* fopenc                                               *)
  preset,          (* caustic_preset_io_active                             *)
  request          (* the paths of the last request, and if it may write   *)

fileVars == <<open, fopenc, preset, request>>

Free == [kind |-> "free", path |-> <<>>, write |-> FALSE]
Opened(kind, p, write) == [kind |-> kind, path |-> p, write |-> write]
Streams == {h \in Handle : open[h].kind = "stream"}

FileInit ==
  /\ open = [h \in Handle |-> Free]
  /\ fopenc = 0
  /\ preset = FALSE
  /\ request = {}

-----------------------------------------------------------------------------
(* A mode is the set of its letters.  The mutant forgets "r+".             *)
Mode == {{"r"}, {"r", "b"}, {"r", "+"}, {"w"}, {"a", "b"}}
ModeWritesAnew(mode) == mode \cap {"w", "a"} # {}
FopenModeWrites(mode) == mode \cap {"w", "a", "+"} # {}

(* Flags by name: the two libraries number them differently.               *)
Flags == {{}, {"WRONLY"}, {"RDWR"}, {"WRONLY", "CREAT", "TRUNC"}, {"RDWR", "CREAT", "EXCL"}, {"CREAT"}, {"SYNC"}}
Translate(flags) ==
  (IF "RDWR" \in flags THEN {"RDWR"} ELSE IF "WRONLY" \in flags THEN {"WRONLY"} ELSE {"RDONLY"})
  \cup (flags \cap {"NONBLOCK", "APPEND", "CREAT", "TRUNC", "EXCL"})
FlagsWrite(flags) == flags \cap {"WRONLY", "RDWR", "CREAT", "TRUNC", "APPEND"} # {}

(* strstr(path, "/presets/").                                              *)
InPresets(p) == \E i \in 2..Len(p) - 1 : p[i] = "presets"

(* A rejected path reaches nobody.                                         *)
Ask(p, write) ==
  /\ MapPath(p, write).errno = "OK"
  /\ request' = {[path |-> MapPath(p, write).path, write |-> write]}
Rejected(p, write) == MapPath(p, write).errno # "OK" /\ UNCHANGED fileVars

Fopen(h, p, mode) ==
  LET write == FopenModeWrites(mode) IN
  /\ open[h] = Free
  /\ Ask(p, write)
  /\ open' = [open EXCEPT ![h] = Opened("stream", MapPath(p, write).path, mode \cap {"w", "a", "+"} # {})]
  /\ fopenc' = fopenc + 1
  /\ preset' = (preset \/ InPresets(MapPath(p, write).path))

FopenFails(p, mode) ==
  /\ Ask(p, FopenModeWrites(mode))
  /\ UNCHANGED <<open, fopenc, preset>>

(* Closing any stream ends the trace of a preset.                          *)
Fclose(h) ==
  /\ open[h].kind = "stream"
  /\ open' = [open EXCEPT ![h] = Free]
  /\ fopenc' = fopenc - 1
  /\ preset' = FALSE
  /\ UNCHANGED request

Open(h, p, flags) ==
  LET native == Translate(flags)
      write == FlagsWrite(native) IN
  /\ open[h] = Free
  /\ Ask(p, write)
  /\ open' = [open EXCEPT ![h] = Opened("fd", MapPath(p, write).path, native \cap {"WRONLY", "RDWR"} # {})]
  /\ UNCHANGED <<fopenc, preset>>

OpenFails(p, flags) ==
  /\ Ask(p, FlagsWrite(Translate(flags)))
  /\ UNCHANGED <<open, fopenc, preset>>

Close(h) ==
  /\ open[h].kind = "fd"
  /\ open' = [open EXCEPT ![h] = Free]
  /\ UNCHANGED <<fopenc, preset, request>>

(* opendir and stat read; mkdir, remove, unlink, rmdir and chmod write.    *)
Lookup(p) == Ask(p, FALSE) /\ UNCHANGED <<open, fopenc, preset>>
Change(p) == Ask(p, TRUE) /\ UNCHANGED <<open, fopenc, preset>>

(* Both names are mapped before the kernel sees either.                    *)
Rename(p, q) ==
  /\ MapPath(p, TRUE).errno = "OK" /\ MapPath(q, TRUE).errno = "OK"
  /\ request' = {[path |-> MapPath(x, TRUE).path, write |-> TRUE] : x \in {p, q}}
  /\ UNCHANGED <<open, fopenc, preset>>

FileNext ==
  \/ \E h \in Handle : Fclose(h) \/ Close(h)
  \/ \E h \in Handle, p \in Input, mode \in Mode : Fopen(h, p, mode)
  \/ \E h \in Handle, p \in Input, flags \in Flags : Open(h, p, flags)
  \/ \E p \in Input, mode \in Mode : FopenFails(p, mode)
  \/ \E p \in Input, flags \in Flags : OpenFails(p, flags)
  \/ \E p \in Input : Lookup(p) \/ Change(p)
  \/ \E p, q \in Input : Rename(p, q)
  \/ \E p \in Input, write \in BOOLEAN : Rejected(p, write)

FileSpec == FileInit /\ [][FileNext]_fileVars

-----------------------------------------------------------------------------
FileTypeOK ==
  /\ open \in [Handle -> [kind : {"free", "stream", "fd"}, path : Seq(Segment), write : BOOLEAN]]
  /\ fopenc = Cardinality(Streams) /\ preset \in BOOLEAN
  /\ request \subseteq [path : Path, write : BOOLEAN]

(* Whatever Caustic passes, the kernel is asked for nothing outside the    *)
(* data root, the package and the program's own relative names, and never  *)
(* to write the package (every *_soloader with a path).                    *)
RequestsConfined == \A r \in request : Confined(r.path, r.write)

(* What is open can be written only where writing is allowed: the test on  *)
(* modes and flags misses no way of writing (fopen_mode_writes, open).     *)
WritersConfined == \A h \in Handle : open[h].kind # "free" => Confined(open[h].path, open[h].write)

(* While the preset trace is on, a preset is open (fread, fseek and ftell  *)
(* report to it), and no stream has been closed since.                     *)
TraceMeansPreset == preset => \E h \in Streams : InPresets(open[h].path)

(* What ARCHITECTURE.md:66 says of the policy.                             *)
WritableUnderDataRoot == \A r \in request : r.write => IsDataPath(r.path)

(* The files of Caustic stay where the policy wants them, in what is asked *)
(* for, in what is open and in what is traced.                             *)
FileInv ==
  /\ FileTypeOK
  /\ RequestsConfined
  /\ WritersConfined
  /\ TraceMeansPreset
=============================================================================
