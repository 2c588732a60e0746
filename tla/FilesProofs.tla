---------------------------- MODULE FilesProofs -----------------------------
(***************************************************************************)
(* The path policy confines every path, of any length and spelling, and    *)
(* the file bridge asks the kernel for nothing else; the extraction makes  *)
(* the files of its entries, and no others; formatting writes the text of  *)
(* any format inside the object, from the arguments that were passed.      *)
(***************************************************************************)
EXTENDS FileBridge, Formatting, ZipReader, Recursion, FiniteSetTheorems, SequenceTheorems, TLAPS

(* A joined path begins with the root and ends with the rest of p.         *)
LEMMA Joined ==
  ASSUME NEW root \in Seq(Segment), NEW p \in Seq(Segment), NEW n \in Nat, Len(p) > n,
         ~HasParentSegment(root), ~HasParentSegment(p)
  PROVE  /\ root \o SubSeq(p, n + 1, Len(p)) \in Path
         /\ StartsWith(root \o SubSeq(p, n + 1, Len(p)), root)
         /\ ~HasParentSegment(root \o SubSeq(p, n + 1, Len(p)))
<1> DEFINE s == SubSeq(p, n + 1, Len(p))
           q == root \o s
<1>1. Len(p) \in Nat /\ Len(root) \in Nat
  OBVIOUS
<1>2. \A i \in (n + 1)..Len(p) : p[i] \in Segment
  BY <1>1, ElementOfSeq
<1>3. /\ s \in Seq(Segment)
      /\ Len(s) = Len(p) - n
      /\ \A i \in 1..Len(s) : s[i] = p[n + i]
  BY <1>1, <1>2, SubSeqProperties
<1> HIDE DEF s
<1>4. /\ q \in Seq(Segment)
      /\ Len(q) = Len(root) + Len(s)
      /\ \A i \in 1..Len(q) : q[i] = IF i <= Len(root) THEN root[i] ELSE s[i - Len(root)]
  <2>1. /\ root \o s \in Seq(Segment)
        /\ Len(root \o s) = Len(root) + Len(s)
        /\ \A i \in 1..Len(root) + Len(s) :
             (root \o s)[i] = IF i <= Len(root) THEN root[i] ELSE s[i - Len(root)]
    BY <1>3, ConcatProperties
  <2> QED BY <2>1
<1> HIDE DEF q
<1>5. q # <<>>
  BY <1>1, <1>3, <1>4
<1>6. StartsWith(q, root)
  <2>1. Len(q) > Len(root)
    BY <1>1, <1>3, <1>4
  <2>2. \A i \in 1..Len(root) : q[i] = root[i]
    <3>1. \A i \in 1..Len(root) : i \in 1..Len(q) /\ i <= Len(root)
      BY ONLY <1>1, <1>3, <1>4, <2>1
    <3> QED BY ONLY <1>4, <3>1
  <2> QED BY <2>1, <2>2 DEF StartsWith
<1>7. ~HasParentSegment(q)
  <2> SUFFICES ASSUME NEW i \in 1..Len(q) PROVE q[i] # Parent
    BY DEF HasParentSegment
  <2>1. CASE i <= Len(root)
    BY <2>1, <1>1, <1>4 DEF HasParentSegment
  <2>2. CASE i > Len(root)
    <3>1. i - Len(root) \in 1..Len(s) /\ n + (i - Len(root)) \in 1..Len(p)
      BY <2>2, <1>1, <1>3, <1>4
    <3>2. q[i] = s[i - Len(root)]
      <4>1. Len(q) \in Nat /\ Len(root) \in Nat /\ ~(i <= Len(root))
        BY <2>2, <1>1, <1>3, <1>4
      <4> QED BY <4>1, <1>4
    <3>3. s[i - Len(root)] = p[n + (i - Len(root))]
      BY <3>1, <1>3
    <3> QED BY <3>1, <3>2, <3>3 DEF HasParentSegment
  <2> QED BY <2>1, <2>2, <1>1
<1> QED BY <1>4, <1>5, <1>6, <1>7 DEF q, s, Path

LEMMA RootSegments ==
  /\ DataRoot \in Seq(Segment)
  /\ ~HasParentSegment(DataRoot)
  /\ Len(Storage) = 4 /\ Len(Card) = 2
<1>1. DataRoot \in Seq(Segment)
  <2>1. "ux0:" \in Segment /\ "data" \in Segment /\ "CAUSTIC3" \in Segment
    BY PathAssumption
  <2> QED BY <2>1 DEF DataRoot
<1>2. DataRoot[1] # ".." /\ DataRoot[2] # ".." /\ DataRoot[3] # ".." /\ Len(DataRoot) = 3
  BY DEF DataRoot
<1>3. ~HasParentSegment(DataRoot)
  BY <1>2 DEF HasParentSegment, Parent
<1>4. Len(Storage) = 4 /\ Len(Card) = 2
  BY DEF Storage, Card
<1> QED BY <1>1, <1>3, <1>4

(* Every accepted path is confined, whatever caustic_map_path is given.    *)
THEOREM MapConfines ==
  ASSUME NEW p \in Path, NEW write \in BOOLEAN, MapPath(p, write).errno = "OK"
  PROVE  MapPath(p, write).path \in Path /\ Confined(MapPath(p, write).path, write)
<1>1. ~HasParentSegment(p) /\ p # <<"">> /\ p \in Seq(Segment) /\ Len(p) \in Nat \ {0} /\ p[1] \in Segment
  <2>1. p \in Seq(Segment) /\ p # <<>>
    BY DEF Path
  <2>2. Len(p) \in Nat \ {0} /\ p[1] \in Segment
    BY <2>1, EmptySeq, ElementOfSeq
  <2>3. p # <<"">> /\ ~HasParentSegment(p)
    BY DEF MapPath, Reject
  <2> QED BY <2>1, <2>2, <2>3
<1>0. Reject("EROFS").errno # "OK" /\ Reject("EACCES").errno # "OK"
  BY DEF Reject
<1>2. \A x : CopyChecked(x).errno = "OK" => CopyChecked(x).path = x
  BY DEF CopyChecked, Accept, Reject
<1>3. \A prefix \in {Storage, Card} : StartsWith(p, prefix) =>
        LET q == DataRoot \o SubSeq(p, Len(prefix) + 1, Len(p)) IN
        q \in Path /\ Confined(q, write)
  <2> SUFFICES ASSUME NEW prefix \in {Storage, Card}, StartsWith(p, prefix)
               PROVE  LET q == DataRoot \o SubSeq(p, Len(prefix) + 1, Len(p)) IN
                      q \in Path /\ Confined(q, write)
    OBVIOUS
  <2>1. Len(prefix) \in Nat /\ Len(p) > Len(prefix)
    BY RootSegments DEF StartsWith
  <2> QED BY <2>1, <1>1, RootSegments, Joined DEF Confined, IsDataPath, Climbs, HasParentSegment
<1>4. CASE StartsWith(p, Storage)
  <2>1. MapPath(p, write) = JoinDataRoot(p, Storage)
    BY <1>1, <1>4 DEF MapPath
  <2>2. MapPath(p, write).path = DataRoot \o SubSeq(p, Len(Storage) + 1, Len(p))
    BY <1>2, <2>1 DEF JoinDataRoot
  <2> QED BY <2>2, <1>3, <1>4
<1>5. CASE ~StartsWith(p, Storage) /\ StartsWith(p, Card)
  <2>1. MapPath(p, write) = JoinDataRoot(p, Card)
    BY <1>1, <1>5 DEF MapPath
  <2>2. MapPath(p, write).path = DataRoot \o SubSeq(p, Len(Card) + 1, Len(p))
    BY <1>2, <2>1 DEF JoinDataRoot
  <2> QED BY <2>2, <1>3, <1>5
<1>6. CASE ~StartsWith(p, Storage) /\ ~StartsWith(p, Card)
  <2>1. MapPath(p, write) = MapVolume(p, write)
    BY <1>1, <1>6 DEF MapPath
  <2>2. CASE p[1] \in AppVolume
    <3>1. ~write /\ MapVolume(p, write) = CopyChecked(p)
      <4>1. MapVolume(p, write) = IF write THEN Reject("EROFS") ELSE CopyChecked(p)
        BY <2>2, PathAssumption DEF MapVolume
      <4> QED BY <4>1, <1>0, <2>1
    <3> QED BY <3>1, <2>1, <2>2, <1>1, <1>2 DEF Confined, Climbs, HasParentSegment
  <2>3. CASE p[1] \in UxVolume
    <3>1. IsDataPath(p) /\ MapVolume(p, write) = CopyChecked(p)
      BY <1>0, <2>1, <2>3, PathAssumption DEF MapVolume
    <3> QED BY <3>1, <2>1, <1>1, <1>2 DEF Confined, Climbs, HasParentSegment
  <2>4. CASE p[1] \notin AppVolume \cup UxVolume
    <3>1. Relative(p) /\ MapVolume(p, write) = CopyChecked(p)
      BY <1>0, <2>1, <2>4 DEF MapVolume, Relative
    <3> QED BY <3>1, <2>1, <1>1, <1>2 DEF Confined, Climbs, HasParentSegment
  <2> QED BY <2>2, <2>3, <2>4
<1> QED BY <1>4, <1>5, <1>6

-----------------------------------------------------------------------------
(* What the requests and the open handles hold, and that the trace of a    *)
(* preset is on only while a preset is open.                               *)
SafeInv ==
  /\ open \in [Handle -> [kind : {"free", "stream", "fd"}, path : Seq(Segment), write : BOOLEAN]]
  /\ preset \in BOOLEAN
  /\ request \subseteq [path : Path, write : BOOLEAN]
  /\ RequestsConfined
  /\ WritersConfined
  /\ TraceMeansPreset

LEMMA InputsArePaths == \A p \in Input : p \in Path
BY BridgeAssumption

LEMMA PathsAreSequences == Path \subseteq Seq(Segment)
BY DEF Path

(* A request for a mapped path is confined.                                *)
LEMMA AsksConfined ==
  ASSUME NEW p \in Input, NEW write \in BOOLEAN, Ask(p, write)
  PROVE  /\ request' \subseteq [path : Path, write : BOOLEAN]
         /\ RequestsConfined'
         /\ MapPath(p, write).path \in Path
         /\ Confined(MapPath(p, write).path, write)
<1>1. MapPath(p, write).path \in Path /\ Confined(MapPath(p, write).path, write)
  BY InputsArePaths, MapConfines DEF Ask
<1>2. request' = {[path |-> MapPath(p, write).path, write |-> write]}
  BY DEF Ask
<1> QED BY <1>1, <1>2 DEF RequestsConfined

(* Opening a confined path keeps the handles confined and the trace true.  *)
LEMMA OpensConfined ==
  ASSUME SafeInv, NEW h \in Handle, open[h] = Free, NEW q \in Path, NEW kind \in {"stream", "fd"},
         NEW write \in BOOLEAN, NEW may \in BOOLEAN, Confined(q, may), write => may,
         open' = [open EXCEPT ![h] = Opened(kind, q, write)],
         preset' = (preset \/ (kind = "stream" /\ InPresets(q)))
  PROVE  /\ open' \in [Handle -> [kind : {"free", "stream", "fd"}, path : Seq(Segment), write : BOOLEAN]]
         /\ preset' \in BOOLEAN
         /\ WritersConfined' /\ TraceMeansPreset'
<1>1. Opened(kind, q, write) \in [kind : {"free", "stream", "fd"}, path : Seq(Segment), write : BOOLEAN]
  BY PathsAreSequences DEF Opened
<1>2. open' \in [Handle -> [kind : {"free", "stream", "fd"}, path : Seq(Segment), write : BOOLEAN]]
  BY <1>1 DEF SafeInv
<1>3. preset' \in BOOLEAN
  BY DEF SafeInv
<1>4. open'[h].path = q /\ open'[h].write = write /\ open'[h].kind = kind
  BY DEF Opened, SafeInv
<1>5. \A k \in Handle \ {h} : open'[k] = open[k]
  BY DEF SafeInv
<1>6. Confined(q, write)
  BY DEF Confined
<1>7. WritersConfined'
  BY <1>4, <1>5, <1>6 DEF SafeInv, WritersConfined
<1>8. TraceMeansPreset'
  <2> SUFFICES ASSUME preset' PROVE \E k \in Handle : open'[k].kind = "stream" /\ InPresets(open'[k].path)
    BY DEF TraceMeansPreset, Streams
  <2>1. CASE preset
    <3>1. PICK k \in Handle : open[k].kind = "stream" /\ InPresets(open[k].path)
      BY <2>1 DEF SafeInv, TraceMeansPreset, Streams
    <3>2. k # h
      BY <3>1 DEF Free
    <3> QED BY <3>1, <3>2, <1>5
  <2>2. CASE kind = "stream" /\ InPresets(q)
    BY <2>2, <1>4
  <2> QED BY <2>1, <2>2
<1> QED BY <1>2, <1>3, <1>7, <1>8

LEMMA FileStep == SafeInv /\ [FileNext]_fileVars => SafeInv'
<1> SUFFICES ASSUME SafeInv, [FileNext]_fileVars PROVE SafeInv'
  OBVIOUS
<1>1. ASSUME NEW h \in Handle, Fclose(h) PROVE SafeInv'
  <2>1. Free \in [kind : {"free", "stream", "fd"}, path : Seq(Segment), write : BOOLEAN] /\ Free.kind = "free"
    BY DEF Free
  <2>2. open' \in [Handle -> [kind : {"free", "stream", "fd"}, path : Seq(Segment), write : BOOLEAN]]
    BY <1>1, <2>1 DEF SafeInv, Fclose
  <2>3. preset' = FALSE /\ request' = request
    BY <1>1 DEF Fclose
  <2>4. WritersConfined'
    BY <1>1, <2>1 DEF SafeInv, Fclose, WritersConfined
  <2> QED BY <2>2, <2>3, <2>4 DEF SafeInv, RequestsConfined, TraceMeansPreset
<1>2. ASSUME NEW h \in Handle, Close(h) PROVE SafeInv'
  <2>1. \A k \in Streams : open'[k] = open[k] /\ open'[k].kind = "stream"
    BY <1>2 DEF SafeInv, Close, Streams
  <2>2. TraceMeansPreset'
    BY <1>2, <2>1 DEF SafeInv, Close, TraceMeansPreset, Streams
  <2>3. Free \in [kind : {"free", "stream", "fd"}, path : Seq(Segment), write : BOOLEAN] /\ Free.kind = "free"
    BY DEF Free
  <2>4. open' \in [Handle -> [kind : {"free", "stream", "fd"}, path : Seq(Segment), write : BOOLEAN]]
    BY <1>2, <2>3 DEF SafeInv, Close
  <2>5. preset' = preset /\ request' = request
    BY <1>2 DEF Close
  <2>6. WritersConfined'
    BY <1>2, <2>3 DEF SafeInv, Close, WritersConfined
  <2> QED BY <2>2, <2>4, <2>5, <2>6 DEF SafeInv, RequestsConfined
<1>3. ASSUME NEW h \in Handle, NEW p \in Input, NEW mode \in Mode, Fopen(h, p, mode) PROVE SafeInv'
  <2>1. FopenModeWrites(mode) \in BOOLEAN
    BY DEF FopenModeWrites
  <2>2. Ask(p, FopenModeWrites(mode))
    BY <1>3 DEF Fopen
  <2>3. open[h] = Free
    BY <1>3 DEF Fopen
  <2>4. open' = [open EXCEPT ![h] = Opened("stream", MapPath(p, FopenModeWrites(mode)).path, FopenModeWrites(mode))]
    BY <1>3 DEF Fopen, FopenModeWrites
  <2>5. preset' = (preset \/ ("stream" = "stream" /\ InPresets(MapPath(p, FopenModeWrites(mode)).path)))
    BY <1>3 DEF Fopen
  <2> HIDE DEF FopenModeWrites
  <2>6. /\ request' \subseteq [path : Path, write : BOOLEAN] /\ RequestsConfined'
        /\ MapPath(p, FopenModeWrites(mode)).path \in Path
        /\ Confined(MapPath(p, FopenModeWrites(mode)).path, FopenModeWrites(mode))
    BY <2>1, <2>2, AsksConfined
  <2>7. /\ open' \in [Handle -> [kind : {"free", "stream", "fd"}, path : Seq(Segment), write : BOOLEAN]]
        /\ preset' \in BOOLEAN /\ WritersConfined' /\ TraceMeansPreset'
    BY <2>1, <2>3, <2>4, <2>5, <2>6, OpensConfined
  <2> QED BY <2>6, <2>7 DEF SafeInv
<1>4. ASSUME NEW h \in Handle, NEW p \in Input, NEW flags \in Flags, Open(h, p, flags) PROVE SafeInv'
  <2> DEFINE native == Translate(flags)
             may == FlagsWrite(native)
             write == native \cap {"WRONLY", "RDWR"} # {}
  <2>1. may \in BOOLEAN /\ write \in BOOLEAN /\ (write => may)
    BY DEF FlagsWrite
  <2>2. Ask(p, may) /\ open[h] = Free /\ open' = [open EXCEPT ![h] = Opened("fd", MapPath(p, may).path, write)]
    BY <1>4 DEF Open
  <2>3. preset' = (preset \/ ("fd" = "stream" /\ InPresets(MapPath(p, may).path)))
    BY <1>4 DEF Open, SafeInv
  <2> HIDE DEF native, may, write
  <2>4. /\ request' \subseteq [path : Path, write : BOOLEAN] /\ RequestsConfined'
        /\ MapPath(p, may).path \in Path /\ Confined(MapPath(p, may).path, may)
    BY <2>1, <2>2, AsksConfined
  <2>5. /\ open' \in [Handle -> [kind : {"free", "stream", "fd"}, path : Seq(Segment), write : BOOLEAN]]
        /\ preset' \in BOOLEAN /\ WritersConfined' /\ TraceMeansPreset'
    BY <2>1, <2>2, <2>3, <2>4, OpensConfined
  <2> QED BY <2>4, <2>5 DEF SafeInv
<1>5. ASSUME NEW p \in Input, NEW write \in BOOLEAN, Ask(p, write), UNCHANGED <<open, fopenc, preset>>
      PROVE  SafeInv'
  BY <1>5, AsksConfined DEF SafeInv, WritersConfined, TraceMeansPreset, Streams
<1>6. ASSUME NEW p \in Input, NEW q \in Input, Rename(p, q) PROVE SafeInv'
  <2>1. \A x \in {p, q} : MapPath(x, TRUE).path \in Path /\ Confined(MapPath(x, TRUE).path, TRUE)
    BY <1>6, InputsArePaths, MapConfines DEF Rename
  <2>2. request' \subseteq [path : Path, write : BOOLEAN] /\ RequestsConfined'
    <3>1. request' = {[path |-> MapPath(x, TRUE).path, write |-> TRUE] : x \in {p, q}}
      BY <1>6 DEF Rename
    <3>2. \A r \in request' : /\ r \in [path : Path, write : BOOLEAN]
                               /\ Confined(r.path, r.write)
      <4> SUFFICES ASSUME NEW x \in {p, q}, NEW r, r = [path |-> MapPath(x, TRUE).path, write |-> TRUE]
                   PROVE  r \in [path : Path, write : BOOLEAN] /\ Confined(r.path, r.write)
        BY <3>1
      <4>1. r.path = MapPath(x, TRUE).path /\ r.write = TRUE
        OBVIOUS
      <4>2. MapPath(x, TRUE).path \in Path /\ Confined(MapPath(x, TRUE).path, TRUE)
        BY <2>1
      <4>3. r \in [path : Path, write : BOOLEAN]
        BY <4>2
      <4>4. Confined(r.path, r.write)
        BY <4>1, <4>2
      <4> QED BY <4>3, <4>4
    <3> QED BY <3>2 DEF RequestsConfined
  <2>3. open' = open /\ preset' = preset
    BY <1>6 DEF Rename
  <2> QED BY <2>2, <2>3 DEF SafeInv, WritersConfined, TraceMeansPreset, Streams
<1>7. CASE UNCHANGED fileVars
  BY <1>7 DEF fileVars, SafeInv, RequestsConfined, WritersConfined, TraceMeansPreset, Streams
<1>8. ASSUME NEW p \in Input, NEW mode \in Mode, FopenFails(p, mode) PROVE SafeInv'
  BY <1>8, <1>5 DEF FopenFails, FopenModeWrites
<1>9. ASSUME NEW p \in Input, NEW flags \in Flags, OpenFails(p, flags) PROVE SafeInv'
  BY <1>9, <1>5 DEF OpenFails, FlagsWrite
<1>10. ASSUME NEW p \in Input, Lookup(p) \/ Change(p) PROVE SafeInv'
  BY <1>10, <1>5 DEF Lookup, Change
<1>11. ASSUME NEW p \in Input, NEW write \in BOOLEAN, Rejected(p, write) PROVE SafeInv'
  BY <1>11, <1>7 DEF Rejected
<1> QED BY <1>1, <1>2, <1>3, <1>4, <1>6, <1>7, <1>8, <1>9, <1>10, <1>11 DEF FileNext

(* The invariant holds at the start and in every step.                     *)
LEMMA SafeInvariance == FileSpec => []SafeInv
<1>1. FileInit => SafeInv
  <2> SUFFICES ASSUME FileInit PROVE SafeInv
    OBVIOUS
  <2>1. Free \in [kind : {"free", "stream", "fd"}, path : Seq(Segment), write : BOOLEAN]
    BY DEF Free
  <2> QED BY <2>1 DEF FileInit, SafeInv, Free, RequestsConfined, WritersConfined, TraceMeansPreset
<1> QED BY <1>1, FileStep, PTL DEF FileSpec

(* No request of any *_soloader leaves the data root, the package or the   *)
(* relative names, for any input paths and any number of handles.          *)
THEOREM RequestsAreConfined == FileSpec => []RequestsConfined
<1>1. SafeInv => RequestsConfined
  BY DEF SafeInv
<1> QED BY <1>1, SafeInvariance, PTL

(* No handle can write where writing is not allowed.                       *)
THEOREM WritersAreConfined == FileSpec => []WritersConfined
<1>1. SafeInv => WritersConfined
  BY DEF SafeInv
<1> QED BY <1>1, SafeInvariance, PTL

(* The trace of fread, fseek and ftell is on only while a preset is open.  *)
THEOREM TraceIsOfPreset == FileSpec => []TraceMeansPreset
<1>1. SafeInv => TraceMeansPreset
  BY DEF SafeInv
<1> QED BY <1>1, SafeInvariance, PTL

-----------------------------------------------------------------------------
(* fopenc counts the open streams, of which there are finitely many.       *)
Counted == IsFiniteSet(Streams) /\ fopenc = Cardinality(Streams)

LEMMA CountStep == Counted /\ SafeInv /\ [FileNext]_fileVars => Counted'
<1> SUFFICES ASSUME Counted, SafeInv, [FileNext]_fileVars PROVE Counted'
  OBVIOUS
<1> USE DEF Counted
<1>1. ASSUME NEW h \in Handle, NEW p \in Input, NEW mode \in Mode, Fopen(h, p, mode) PROVE Counted'
  <2>1. h \notin Streams
    BY <1>1 DEF Fopen, Free, Streams
  <2>2. Streams' = Streams \cup {h}
    BY <1>1 DEF Fopen, Opened, Streams, SafeInv
  <2> QED BY <1>1, <2>1, <2>2, FS_AddElement DEF Fopen
<1>2. ASSUME NEW h \in Handle, Fclose(h) PROVE Counted'
  <2>1. h \in Streams
    BY <1>2 DEF Fclose, Streams
  <2>2. Streams' = Streams \ {h}
    BY <1>2 DEF Fclose, Free, Streams, SafeInv
  <2> QED BY <1>2, <2>1, <2>2, FS_RemoveElement DEF Fclose
<1>3. ASSUME Streams' = Streams, fopenc' = fopenc PROVE Counted'
  BY <1>3
<1>4. ASSUME NEW h \in Handle, NEW p \in Input, NEW flags \in Flags, Open(h, p, flags) PROVE Counted'
  <2>1. open[h].kind # "stream"
    BY <1>4 DEF Open, Free
  <2>2. \A q, w : Opened("fd", q, w).kind # "stream"
    BY DEF Opened
  <2>3. open'[h].kind # "stream" /\ \A k \in Handle \ {h} : open'[k] = open[k]
    BY <1>4, <2>2 DEF Open, SafeInv
  <2>4. Streams' = Streams
    BY <2>1, <2>3 DEF Streams
  <2> QED BY <1>4, <2>4, <1>3 DEF Open
<1>5. ASSUME NEW h \in Handle, Close(h) PROVE Counted'
  <2>1. Streams' = Streams
    BY <1>5 DEF Close, Free, Streams, SafeInv
  <2> QED BY <1>5, <2>1, <1>3 DEF Close
<1>6. ASSUME UNCHANGED <<open, fopenc>> PROVE Counted'
  BY <1>3, <1>6 DEF Streams
<1>7. ASSUME NEW p \in Input, NEW mode \in Mode, FopenFails(p, mode) PROVE Counted'
  BY <1>6, <1>7 DEF FopenFails
<1>8. ASSUME NEW p \in Input, NEW flags \in Flags, OpenFails(p, flags) PROVE Counted'
  BY <1>6, <1>8 DEF OpenFails
<1>9. ASSUME NEW p \in Input, Lookup(p) \/ Change(p) PROVE Counted'
  BY <1>6, <1>9 DEF Lookup, Change
<1>10. ASSUME NEW p \in Input, NEW q \in Input, Rename(p, q) PROVE Counted'
  BY <1>6, <1>10 DEF Rename
<1>11. ASSUME NEW p \in Input, NEW write \in BOOLEAN, Rejected(p, write) PROVE Counted'
  BY <1>6, <1>11 DEF Rejected, fileVars
<1>12. CASE UNCHANGED fileVars
  BY <1>6, <1>12 DEF fileVars
<1> QED BY <1>1, <1>2, <1>4, <1>5, <1>7, <1>8, <1>9, <1>10, <1>11, <1>12 DEF FileNext

(* Everything the file bridge keeps in order, for any input paths and any  *)
(* number of handles: requests, handles, the trace and the count.          *)
THEOREM FilesInOrder == FileSpec => []FileInv
<1>1. FileInit => Counted
  <2> SUFFICES ASSUME FileInit PROVE Counted
    OBVIOUS
  <2>1. Streams = {} /\ fopenc = 0
    BY DEF FileInit, Free, Streams
  <2> QED BY <2>1, FS_EmptySet DEF Counted
<1>2. FileSpec => []Counted
  BY <1>1, CountStep, SafeInvariance, PTL DEF FileSpec
<1>3. SafeInv /\ Counted => FileInv
  BY DEF SafeInv, Counted, FileInv, FileTypeOK
<1> QED BY <1>2, <1>3, SafeInvariance, PTL

-----------------------------------------------------------------------------
(* The ZIP reader.  What is known of an entry whose name has been let      *)
(* through, of a file on the disk, and of an entry the loop has passed.    *)
Chosen(e) == e.asset /\ ~e.directory /\ ~Unsafe(e.path)
FileIsRight(path) ==
  /\ disk[path].what \in {"absent", "user", "part", "entry"}
  /\ disk[path].what \in {"part", "entry"} =>
       /\ disk[path].entry \in DOMAIN package.entries
       /\ package.entries[disk[path].entry].path = path
       /\ Chosen(package.entries[disk[path].entry])
  /\ disk[path].what = "part" => disk[path].size \in 0 .. package.entries[disk[path].entry].size - 1
  /\ disk[path].what = "entry" =>
       /\ disk[path].size = package.entries[disk[path].entry].size
       /\ package.entries[disk[path].entry].good
OfItsSize(path) ==
  \E j \in DOMAIN package.entries :
    package.entries[j].path = path /\ package.entries[j].size = disk[path].size
DealtWith(e) ==
  e.asset /\ ~e.directory =>
    /\ disk[e.path].what # "absent"
    /\ disk[e.path].what # "part" => OfItsSize(e.path)

Looping == pc \in {"central", "filter", "decode"}
Placed ==
  package.end = "found" =>
    /\ pc = "central" => where = <<"central", index>>
    /\ pc = "filter" => where = <<"central", index + 1>>

(* The inductive invariant: a part of an entry lies only where the loop    *)
(* has not been since it was left.                                         *)
InPackage ==
  /\ package \in Packages
  /\ \A k \in DOMAIN package.entries : package.entries[k].path \in DOMAIN disk
  /\ index \in 1 .. Len(package.entries) + 1
  /\ pc \in {"filter", "decode"} => index <= Len(package.entries)
DecodesChosen == pc = "decode" => Chosen(Entry)
FilesRight == \A path \in DOMAIN disk : FileIsRight(path)
NoPartBehind == Looping => \A path \in DOMAIN disk : disk[path].what = "part" => disk[path].entry >= index
AllDealtWith == Looping => \A k \in DOMAIN package.entries : k < index => DealtWith(package.entries[k])
There(e) == e.asset /\ ~e.directory => disk[e.path].what \in {"user", "entry"} /\ OfItsSize(e.path)
AllThere == \A k \in DOMAIN package.entries : There(package.entries[k])
Vouched == marker \in BOOLEAN /\ (marker => ~Looping /\ AllThere)
ZipIInv ==
  /\ ZipTypeOK /\ InPackage /\ DecodesChosen /\ Placed
  /\ FilesRight /\ NoPartBehind /\ AllDealtWith /\ Vouched

LEMMA PackagesAre ==
  ASSUME NEW p \in Packages
  PROVE  p.entries \in Seq(Record) /\ Len(p.entries) \in Nat /\ DOMAIN p.entries = 1 .. Len(p.entries)
BY ZipAssumption

(* What the handle and the memory are at each place of the loop.           *)
Typed(c, o, h) ==
  /\ c \in {"begin", "central", "filter", "decode", "done"}
  /\ o = (c \in {"central", "filter", "decode"})
  /\ h = CASE c = "filter" -> {"name"}
           [] c = "decode" -> {"name", "compressed", "output"}
           [] OTHER -> {}
LEMMA TypedAt ==
  /\ Typed("begin", FALSE, {}) /\ Typed("done", FALSE, {}) /\ Typed("central", TRUE, {})
  /\ Typed("filter", TRUE, {"name"})
  /\ Typed("decode", TRUE, {"name", "compressed", "output"})
BY DEF Typed

LEMMA ZipIsTyped ==
  /\ Typed(pc, zipOpen, held) => ZipTypeOK
  /\ Typed(pc', zipOpen', held') => ZipTypeOK'
BY Zenon DEF Typed, ZipTypeOK

LEMMA ZipStarts == ZipInit => ZipIInv
<1>. SUFFICES ASSUME ZipInit PROVE ZipIInv
  OBVIOUS
<1>1. /\ package \in Packages /\ disk \in Disks /\ pc = "begin" /\ index = 1 /\ marker = FALSE
      /\ zipOpen = FALSE /\ held = {}
  BY DEF ZipInit
<1>2. Len(package.entries) \in Nat
  BY <1>1, PackagesAre
<1>3. \A path \in DOMAIN disk : disk[path].what \in {"absent", "user"}
  BY <1>1, ZipAssumption
<1>4. \A k \in DOMAIN package.entries : package.entries[k].path \in DOMAIN disk
  BY <1>1, ZipAssumption
<1>5. ZipTypeOK
  BY <1>1, TypedAt, ZipIsTyped, Zenon
<1>6. FilesRight
  BY <1>3 DEF FileIsRight, FilesRight
<1>7. ~Looping
  BY <1>1 DEF Looping
<1>8. InPackage /\ DecodesChosen /\ Placed
  BY <1>1, <1>2, <1>4 DEF InPackage, DecodesChosen, Placed
<1>9. NoPartBehind /\ AllDealtWith
  BY <1>7 DEF NoPartBehind, AllDealtWith
<1>10. Vouched
  BY <1>1, Zenon DEF Vouched
<1>. QED
  BY <1>5, <1>6, <1>8, <1>9, <1>10 DEF ZipIInv

(* A step that leaves the disk and is out of the loop.                     *)
LEMMA NothingWritten ==
  ASSUME ZipIInv, UNCHANGED <<package, disk, index>>, ZipTypeOK', marker' \in BOOLEAN,
         ~Looping', marker' => AllThere
  PROVE  ZipIInv'
<1>1. pc' \notin {"central", "filter", "decode"}
  BY DEF Looping
<1>2. FilesRight'
  BY DEF ZipIInv, FilesRight, FileIsRight
<1>3. InPackage' /\ DecodesChosen' /\ Placed'
  BY <1>1 DEF Placed, DecodesChosen, InPackage, ZipIInv
<1>4. NoPartBehind' /\ AllDealtWith'
  BY DEF NoPartBehind, AllDealtWith
<1>5. AllThere' = AllThere
  BY DEF AllThere, There, OfItsSize
<1>6. Vouched'
  BY <1>5, Zenon DEF Vouched
<1>. QED
  BY <1>2, <1>3, <1>4, <1>6 DEF ZipIInv

LEMMA EntriesAre ==
  ASSUME ZipIInv
  PROVE  /\ Len(package.entries) \in Nat /\ DOMAIN package.entries = 1 .. Len(package.entries)
         /\ index \in Nat
         /\ \A k \in DOMAIN package.entries : package.entries[k] \in Record
<1>1. package \in Packages /\ index \in 1 .. Len(package.entries) + 1
  BY DEF ZipIInv, InPackage
<1>2. package.entries \in Seq(Record)
  BY <1>1, PackagesAre
<1>. QED
  BY <1>1, <1>2

LEMMA AllAreThere ==
  ASSUME ZipIInv, Finished
  PROVE  AllThere
<1>1. Looping /\ index > Len(package.entries)
  BY DEF Finished, Looping
<1>. SUFFICES ASSUME NEW k \in DOMAIN package.entries PROVE There(package.entries[k])
  BY DEF AllThere
<1>. DEFINE e == package.entries[k]
<1>2. k < index /\ e.path \in DOMAIN disk
  BY <1>1, EntriesAre DEF ZipIInv, InPackage
<1>3. DealtWith(e) /\ FileIsRight(e.path)
  BY <1>1, <1>2 DEF ZipIInv, AllDealtWith, FilesRight
<1>4. disk[e.path].what # "part"
  <2>1. SUFFICES ASSUME disk[e.path].what = "part" PROVE FALSE
    OBVIOUS
  <2>2. disk[e.path].entry \in DOMAIN package.entries
    BY <1>3, <2>1 DEF FileIsRight
  <2>3. disk[e.path].entry >= index
    BY <1>1, <1>2, <2>1 DEF ZipIInv, NoPartBehind
  <2>. QED
    BY <1>1, <2>2, <2>3, EntriesAre
<1>. QED
  BY <1>3, <1>4 DEF DealtWith, FileIsRight, There

(* The ways out.                                                           *)
LEMMA WaysOut ==
  ASSUME ZipIInv, \/ AlreadyDone \/ LocateFails \/ CentralFails \/ RefuseName \/ LocalFails
                  \/ DecodeFails \/ MarkerFails \/ Mark
  PROVE  ZipIInv'
<1>1. pc' = "done" /\ UNCHANGED <<package, disk, index>>
  BY DEF AlreadyDone, LocateFails, CentralFails, RefuseName, LocalFails, DecodeFails, MarkerFails,
         Mark, Fail, Returns, Stays
<1>2. ~Looping'
  BY <1>1 DEF Looping
<1>3. zipOpen' = FALSE /\ held' = {}
  <2>1. CASE AlreadyDone
    <3>1. pc = "begin" /\ UNCHANGED <<zipOpen, held>>
      BY <2>1 DEF AlreadyDone
    <3>2. zipOpen = FALSE
      <4>1. zipOpen = (pc \in {"central", "filter", "decode"})
        BY Zenon DEF ZipIInv, ZipTypeOK
      <4>2. pc = "begin"
        BY <3>1
      <4>3. pc \notin {"central", "filter", "decode"}
        BY ONLY <4>2
      <4>4. (pc \in {"central", "filter", "decode"}) = FALSE
        BY <4>3
      <4>. QED
        BY <4>1, <4>4, Zenon
    <3>3. held = {}
      BY <3>1 DEF ZipIInv, ZipTypeOK
    <3>. QED
      BY <3>1, <3>2, <3>3, Zenon
  <2>2. CASE MarkerFails \/ Mark
    <3>1. pc = "central" /\ UNCHANGED held /\ zipOpen' = FALSE
      BY <2>2, Zenon DEF MarkerFails, Mark, Finished
    <3>2. held = {}
      BY <3>1 DEF ZipIInv, ZipTypeOK
    <3>. QED
      BY <3>1, <3>2, Zenon
  <2>3. CASE LocateFails \/ CentralFails \/ RefuseName \/ LocalFails \/ DecodeFails
    BY <2>3, Zenon DEF LocateFails, CentralFails, RefuseName, LocalFails, DecodeFails, Fail
  <2>. QED
    BY <2>1, <2>2, <2>3
<1>4. ZipTypeOK'
  BY <1>1, <1>3, TypedAt, ZipIsTyped, Zenon
<1>5. marker' \in BOOLEAN /\ (marker' => AllThere)
  <2>1. CASE MarkerFails \/ Mark
    <3>1. Finished /\ marker' \in BOOLEAN
      BY <2>1, Zenon DEF MarkerFails, Mark
    <3>. QED
      BY <3>1, AllAreThere, Zenon
  <2>2. CASE AlreadyDone \/ LocateFails \/ CentralFails \/ RefuseName \/ LocalFails \/ DecodeFails
    <3>1. UNCHANGED marker
      BY <2>2, Zenon DEF AlreadyDone, LocateFails, CentralFails, RefuseName, LocalFails, DecodeFails,
                         Fail, Stays
    <3>. QED
      BY <3>1, Zenon DEF ZipIInv, Vouched
  <2>. QED
    BY <2>1, <2>2
<1>. QED
  BY <1>1, <1>2, <1>4, <1>5, NothingWritten, Zenon

LEMMA RelaunchKeeps ==
  ASSUME ZipIInv, Relaunch
  PROVE  ZipIInv'
<1>1. /\ pc' = "begin" /\ zipOpen' = FALSE /\ held' = {} /\ index' = 1
      /\ UNCHANGED <<package, disk, marker>>
  BY DEF Relaunch, Launch
<1>2. ~Looping'
  BY <1>1 DEF Looping
<1>3. ZipTypeOK'
  BY <1>1, TypedAt, ZipIsTyped, Zenon
<1>4. FilesRight'
  BY <1>1 DEF ZipIInv, FilesRight, FileIsRight
<1>5. InPackage' /\ DecodesChosen' /\ Placed'
  BY <1>1, EntriesAre DEF Placed, DecodesChosen, InPackage, ZipIInv
<1>6. NoPartBehind' /\ AllDealtWith'
  BY <1>2 DEF NoPartBehind, AllDealtWith
<1>7. AllThere' = AllThere
  BY <1>1 DEF AllThere, There, OfItsSize
<1>8. marker' = marker
  BY <1>1
<1>9. Vouched'
  BY <1>2, <1>7, <1>8, Zenon DEF ZipIInv, Vouched
<1>. QED
  BY <1>3, <1>4, <1>5, <1>6, <1>9 DEF ZipIInv

(* On within the loop, or into it, with the disk as it is.                 *)
LEMMA LocateKeeps ==
  ASSUME ZipIInv, Locate
  PROVE  ZipIInv'
<1>1. /\ pc' = "central" /\ index' = 1 /\ pc = "begin"
      /\ UNCHANGED <<package, disk, held>>
      /\ where' = IF package.end = "found" THEN <<"central", 1>> ELSE Nowhere
  BY DEF Locate, Stays
<1>2. ~marker /\ marker' = marker /\ zipOpen' = TRUE
  BY Zenon DEF Locate, Stays
<1>3. held' = {}
  BY <1>1 DEF ZipIInv, ZipTypeOK
<1>4. ZipTypeOK'
  BY <1>1, <1>2, <1>3, TypedAt, ZipIsTyped, Zenon
<1>5. FilesRight'
  BY <1>1 DEF ZipIInv, FilesRight, FileIsRight
<1>6. InPackage' /\ DecodesChosen' /\ Placed'
  BY <1>1, EntriesAre DEF Placed, DecodesChosen, InPackage, ZipIInv
<1>7. NoPartBehind'
  BY <1>1, EntriesAre DEF NoPartBehind, ZipIInv, FilesRight, FileIsRight
<1>8. AllDealtWith'
  BY <1>1, EntriesAre DEF AllDealtWith
<1>9. Vouched'
  BY <1>2, Zenon DEF ZipIInv, Vouched
<1>. QED
  BY <1>4, <1>5, <1>6, <1>7, <1>8, <1>9 DEF ZipIInv

LEMMA ReadKeeps ==
  ASSUME ZipIInv, ReadCentral \/ ReadData
  PROVE  ZipIInv'
<1>1. /\ UNCHANGED <<package, disk, marker, index, zipOpen>> /\ Looping /\ Looping'
      /\ index <= Len(package.entries)
  BY EntriesAre DEF ReadCentral, ReadData, Stays, Looping, AtEntry, ToData, ZipIInv, InPackage
<1>2. zipOpen' = TRUE
  <2>1. pc \in {"central", "filter", "decode"} /\ UNCHANGED zipOpen
    BY <1>1 DEF Looping
  <2>. QED
    BY <2>1 DEF ZipIInv, ZipTypeOK
<1>3. ZipTypeOK'
  <2>1. CASE ReadCentral
    <3>1. pc' = "filter" /\ held' = {"name"}
      BY <2>1 DEF ReadCentral
    <3>. QED
      BY <1>2, <3>1, TypedAt, ZipIsTyped, Zenon
  <2>2. CASE ReadData
    <3>1. pc' = "decode" /\ held' = {"name", "compressed", "output"}
      BY <2>2 DEF ReadData
    <3>. QED
      BY <1>2, <3>1, TypedAt, ZipIsTyped, Zenon
  <2>. QED
    BY <2>1, <2>2
<1>4. FilesRight'
  BY <1>1 DEF ZipIInv, FilesRight, FileIsRight
<1>5. InPackage'
  BY <1>1 DEF InPackage, ZipIInv
<1>6. Placed'
  BY DEF Placed, ZipIInv, ReadCentral, ReadData, Stays
<1>7. DecodesChosen'
  <2>1. CASE ReadCentral
    BY <2>1 DEF DecodesChosen, ReadCentral
  <2>2. CASE ReadData
    <3>1. Chosen(Entry)
      BY <2>2 DEF ReadData, ToData, Wanted, Chosen
    <3>. QED
      BY <1>1, <3>1 DEF DecodesChosen, Entry, Chosen, Unsafe
  <2>. QED
    BY <2>1, <2>2
<1>8. NoPartBehind'
  BY <1>1 DEF NoPartBehind, ZipIInv
<1>9. AllDealtWith'
  BY <1>1 DEF AllDealtWith, DealtWith, OfItsSize, ZipIInv
<1>10. Vouched'
  BY <1>1, Zenon DEF ZipIInv, Vouched
<1>. QED
  BY <1>3, <1>4, <1>5, <1>6, <1>7, <1>8, <1>9, <1>10 DEF ZipIInv

(* Past an entry: it is there in its size, or was not wanted, and what     *)
(* another left as a part is not it.                                       *)
LEMMA OnTo ==
  ASSUME ZipIInv, Looping, index <= Len(package.entries), NEW e, e = Entry,
         Continue, UNCHANGED <<package, marker>>, FilesRight', DOMAIN disk' = DOMAIN disk,
         where' = <<"central", index + 1>> \/ package.end # "found",
         \A k \in DOMAIN package.entries : k < index => DealtWith(package.entries[k])',
         DealtWith(e)',
         \A path \in DOMAIN disk : disk'[path].what = "part" => disk'[path].entry > index
  PROVE  ZipIInv'
<1>1. /\ pc' = "central" /\ index' = index + 1 /\ held' = {} /\ UNCHANGED zipOpen
      /\ UNCHANGED <<package, marker>>
  BY DEF Continue
<1>2. /\ index \in Nat /\ Len(package.entries) \in Nat
      /\ DOMAIN package.entries = 1 .. Len(package.entries)
  BY EntriesAre
<1>3. zipOpen' = TRUE
  <2>1. pc \in {"central", "filter", "decode"} /\ UNCHANGED zipOpen
    BY <1>1 DEF Looping
  <2>. QED
    BY <2>1 DEF ZipIInv, ZipTypeOK
<1>4. ZipTypeOK'
  BY <1>1, <1>3, TypedAt, ZipIsTyped, Zenon
<1>5. InPackage' /\ DecodesChosen' /\ Placed'
  BY <1>1, <1>2 DEF Placed, DecodesChosen, InPackage, ZipIInv
<1>6. NoPartBehind'
  <2>1. SUFFICES ASSUME NEW path \in DOMAIN disk, disk'[path].what = "part"
                 PROVE  disk'[path].entry >= index + 1
    BY <1>1 DEF NoPartBehind
  <2>2. disk'[path].entry > index
    BY <2>1
  <2>3. disk'[path].entry \in DOMAIN package.entries
    BY <1>1, <2>1 DEF FilesRight, FileIsRight
  <2>. QED
    BY <1>2, <2>2, <2>3
<1>7. AllDealtWith'
  <2>1. SUFFICES ASSUME NEW k \in DOMAIN package.entries, k < index + 1
                 PROVE  DealtWith(package.entries[k])'
    BY <1>1 DEF AllDealtWith, DealtWith, OfItsSize
  <2>2. CASE k < index
    BY <2>2
  <2>3. CASE ~ (k < index)
    <3>1. k = index
      BY <1>2, <2>1, <2>3
    <3>2. e = package'.entries[k]
      BY <1>1, <3>1 DEF Entry
    <3>. QED
      BY <3>2
  <2>. QED
    BY <2>2, <2>3
<1>8. ~marker /\ marker \in BOOLEAN
  BY Zenon DEF ZipIInv, Vouched
<1>9. marker = FALSE
  BY <1>8, Zenon
<1>10. marker' = FALSE
  BY <1>1, <1>9, Zenon
<1>11. Vouched'
  BY <1>10, Zenon DEF ZipIInv, Vouched
<1>. QED
  BY <1>4, <1>5, <1>6, <1>7, <1>11 DEF ZipIInv

LEMMA PassOverKeeps ==
  ASSUME ZipIInv, PassOver
  PROVE  ZipIInv'
<1>. DEFINE e == Entry
<1>1. /\ pc = "filter" /\ Continue /\ UNCHANGED <<package, disk, marker, where>>
      /\ ~Wanted \/ Matches
  BY DEF PassOver, Stays
<1>2. Looping /\ index <= Len(package.entries) /\ index \in DOMAIN package.entries
  BY <1>1, EntriesAre DEF Looping, ZipIInv, InPackage
<1>3. FilesRight'
  BY <1>1 DEF ZipIInv, FilesRight, FileIsRight
<1>4. where' = <<"central", index + 1>> \/ package.end # "found"
  BY <1>1 DEF ZipIInv, Placed
<1>5. \A k \in DOMAIN package.entries : k < index => DealtWith(package.entries[k])'
  BY <1>1, <1>2 DEF ZipIInv, AllDealtWith, DealtWith, OfItsSize
<1>6. e.path \in DOMAIN disk /\ FileIsRight(e.path)
  BY <1>2 DEF Entry, ZipIInv, InPackage, FilesRight
<1>7. DealtWith(e)
  BY <1>1, <1>2 DEF DealtWith, OfItsSize, Wanted, Matches, Entry
<1>8. ASSUME NEW path \in DOMAIN disk, disk[path].what = "part"
      PROVE  disk[path].entry > index
  <2>1. FileIsRight(path) /\ disk[path].entry >= index
    BY <1>2, <1>8 DEF ZipIInv, FilesRight, NoPartBehind
  <2>2. ASSUME disk[path].entry = index PROVE FALSE
    <3>1. e.path = path /\ Chosen(e) /\ disk[path].size # e.size
      <4>1. /\ package.entries[disk[path].entry].path = path
            /\ Chosen(package.entries[disk[path].entry])
            /\ disk[path].size \in 0 .. package.entries[disk[path].entry].size - 1
        BY <1>8, <2>1 DEF FileIsRight
      <4>2. package.entries[disk[path].entry] = e
        BY <2>2 DEF Entry
      <4>3. e.size \in Nat
        BY <1>2, EntriesAre DEF Entry, Record
      <4>. QED
        BY <4>1, <4>2, <4>3
    <3>. QED
      BY <1>1, <3>1 DEF Chosen, Wanted, Matches
  <2>3. disk[path].entry \in DOMAIN package.entries
    BY <1>8, <2>1 DEF FileIsRight
  <2>. QED
    BY <2>1, <2>2, <2>3, EntriesAre
<1>. HIDE DEF e
<1>9. PICK f : f = e
  OBVIOUS
<1>10. DealtWith(f)'
  BY <1>1, <1>7, <1>9 DEF DealtWith, OfItsSize
<1>11. f = Entry
  BY <1>9 DEF e
<1>. QED
  BY <1>1, <1>2, <1>3, <1>4, <1>5, <1>8, <1>10, <1>11, OnTo

(* What a write leaves, whole or cut short, is right for its entry.        *)
LEMMA EntryWritten ==
  ASSUME ZipIInv, pc = "decode", Decodes, NEW f, UNCHANGED package,
         disk' = [disk EXCEPT ![Entry.path] = f],
         f = Whole \/ \E n \in 0 .. Entry.size - 1 : f = Part(n)
  PROVE  /\ DOMAIN disk' = DOMAIN disk /\ Entry.path \in DOMAIN disk
         /\ disk'[Entry.path] = f /\ \A path \in DOMAIN disk : path # Entry.path => disk'[path] = disk[path]
         /\ FilesRight'
         /\ f.what # "absent" /\ f.entry = index
         /\ f.what # "part" => f.size = Entry.size
<1>. DEFINE e == Entry
<1>1. /\ index \in DOMAIN package.entries /\ e.path \in DOMAIN disk
      /\ e = package.entries[index] /\ Chosen(e) /\ e.good /\ e.size \in Nat
  <2>1. index \in DOMAIN package.entries
    BY EntriesAre DEF ZipIInv, InPackage
  <2>2. e = package.entries[index] /\ e \in Record
    BY <2>1, EntriesAre DEF Entry
  <2>3. e.path \in DOMAIN disk
    BY <2>1, <2>2 DEF ZipIInv, InPackage
  <2>4. Chosen(e) /\ e.good
    BY DEF ZipIInv, DecodesChosen, Decodes
  <2>. QED
    BY <2>1, <2>2, <2>3, <2>4 DEF Record
<1>. HIDE DEF e
<1>2. /\ (f.what = "entry" /\ f.size = e.size) \/ (f.what = "part" /\ f.size \in 0 .. e.size - 1)
      /\ f.entry = index
  <2>1. CASE f = Whole
    BY <2>1 DEF Whole, e
  <2>2. ASSUME NEW n \in 0 .. Entry.size - 1, f = Part(n)
        PROVE  f.what = "part" /\ f.size \in 0 .. e.size - 1 /\ f.entry = index
    BY <2>2 DEF Part, e
  <2>. QED
    BY <2>1, <2>2
<1>3. /\ DOMAIN disk' = DOMAIN disk /\ disk'[e.path] = f
      /\ \A path \in DOMAIN disk : path # e.path => disk'[path] = disk[path]
  BY <1>1 DEF e
<1>4. ASSUME NEW path \in DOMAIN disk' PROVE FileIsRight(path)'
  <2>1. CASE path = e.path
    <3>1. /\ disk'[path] = f /\ f.entry = index /\ package' = package
          /\ package.entries[index] = e
      BY <1>1, <1>2, <1>3, <2>1
    <3>. QED
      BY <1>1, <1>2, <2>1, <3>1 DEF FileIsRight
  <2>2. CASE path # e.path
    <3>1. FileIsRight(path) /\ disk'[path] = disk[path]
      BY <1>3, <2>2 DEF ZipIInv, FilesRight
    <3>. QED
      BY <3>1 DEF FileIsRight
  <2>. QED
    BY <2>1, <2>2
<1>. QED
  BY <1>1, <1>2, <1>3, <1>4 DEF FilesRight, e

LEMMA ExtractKeeps ==
  ASSUME ZipIInv, Extract
  PROVE  ZipIInv'
<1>. DEFINE e == Entry
<1>1. /\ pc = "decode" /\ Decodes /\ Continue /\ UNCHANGED <<package, marker>>
      /\ disk' = [disk EXCEPT ![Entry.path] = Whole]
      /\ where' = <<"central", index + 1>>
  BY DEF Extract
<1>2. PICK f : f = Whole
  OBVIOUS
<1>3. /\ DOMAIN disk' = DOMAIN disk /\ e.path \in DOMAIN disk
      /\ disk'[e.path] = f /\ \A path \in DOMAIN disk : path # e.path => disk'[path] = disk[path]
      /\ FilesRight'
  BY <1>1, <1>2, EntryWritten
<1>4. f.what = "entry" /\ f.size = e.size
  BY <1>2 DEF Whole
<1>5. Looping /\ index <= Len(package.entries) /\ index \in DOMAIN package.entries
  BY <1>1, EntriesAre DEF Looping, ZipIInv, InPackage
<1>. HIDE DEF e
<1>6. PICK g : g = e
  OBVIOUS
<1>7. g = package.entries[index] /\ g = Entry
  BY <1>6 DEF e, Entry
<1>8. OfItsSize(g.path)'
  <2>1. disk'[g.path].size = g.size
    BY <1>3, <1>4, <1>6
  <2>2. package'.entries[index] = g /\ index \in DOMAIN package'.entries
    BY <1>1, <1>5, <1>7
  <2>3. \E j \in DOMAIN package'.entries :
          package'.entries[j].path = g.path /\ package'.entries[j].size = disk'[g.path].size
    BY <2>1, <2>2
  <2>. QED
    BY <2>3 DEF OfItsSize
<1>9. DealtWith(g)'
  BY <1>3, <1>4, <1>6, <1>8 DEF DealtWith
<1>10. ASSUME NEW k \in DOMAIN package.entries, k < index PROVE DealtWith(package.entries[k])'
  <2>. DEFINE h == package.entries[k]
  <2>1. DealtWith(h)
    BY <1>5, <1>10 DEF ZipIInv, AllDealtWith
  <2>2. h.path \in DOMAIN disk
    BY DEF ZipIInv, InPackage
  <2>3. CASE h.path = e.path
    <3>1. OfItsSize(h.path)'
      BY <1>1, <1>6, <1>8, <2>3
    <3>. QED
      BY <1>1, <1>3, <1>4, <2>3, <3>1 DEF DealtWith
  <2>4. CASE h.path # e.path
    <3>1. disk'[h.path] = disk[h.path]
      BY <1>3, <2>2, <2>4
    <3>. QED
      BY <1>1, <2>1, <3>1 DEF DealtWith, OfItsSize
  <2>. QED
    BY <2>3, <2>4
<1>11. ASSUME NEW path \in DOMAIN disk, disk'[path].what = "part" PROVE disk'[path].entry > index
  <2>1. path # e.path /\ disk'[path] = disk[path]
    BY <1>3, <1>4, <1>11
  <2>2. FileIsRight(path) /\ disk[path].entry >= index
    BY <1>5, <1>11, <2>1 DEF ZipIInv, FilesRight, NoPartBehind
  <2>3. /\ disk[path].entry \in DOMAIN package.entries
        /\ package.entries[disk[path].entry].path = path
    BY <1>11, <2>1, <2>2 DEF FileIsRight
  <2>4. disk[path].entry # index
    BY <1>6, <1>7, <2>1, <2>3
  <2>. QED
    BY <2>1, <2>2, <2>3, <2>4, EntriesAre
<1>. QED
  BY <1>1, <1>3, <1>5, <1>7, <1>9, <1>10, <1>11, OnTo, Zenon

(* A write or a launch that is cut short.                                  *)
LEMMA CutShortKeeps ==
  ASSUME ZipIInv, WriteFails \/ Crash
  PROVE  ZipIInv'
<1>1. /\ pc = "decode" /\ Decodes /\ UNCHANGED package
      /\ disk' \in CutShort
      /\ pc' \in {"begin", "done"} /\ zipOpen' = FALSE /\ held' = {} /\ index' \in {1, index}
  BY DEF WriteFails, Crash, Launch, Fail, Returns
<1>2. marker' = marker
  BY DEF WriteFails, Crash, Launch, Fail
<1>3. PICK n \in 0 .. Entry.size - 1 : disk' = [disk EXCEPT ![Entry.path] = Part(n)]
  BY <1>1 DEF CutShort
<1>4. PICK f : f = Part(n)
  OBVIOUS
<1>5. DOMAIN disk' = DOMAIN disk /\ FilesRight'
  BY <1>1, <1>3, <1>4, EntryWritten
<1>6. Looping /\ ~Looping'
  BY <1>1 DEF Looping
<1>7. ZipTypeOK'
  BY <1>1, TypedAt, ZipIsTyped, Zenon
<1>8. InPackage' /\ DecodesChosen' /\ Placed'
  BY <1>1, <1>5, EntriesAre DEF Placed, DecodesChosen, InPackage, ZipIInv
<1>9. NoPartBehind' /\ AllDealtWith'
  BY <1>6 DEF NoPartBehind, AllDealtWith
<1>10. ~marker /\ marker \in BOOLEAN
  BY <1>6, Zenon DEF ZipIInv, Vouched
<1>11. marker = FALSE
  BY <1>10, Zenon
<1>12. marker' = FALSE
  BY <1>2, <1>11, Zenon
<1>13. Vouched'
  BY <1>12, Zenon DEF Vouched
<1>. QED
  BY <1>5, <1>7, <1>8, <1>9, <1>13 DEF ZipIInv

LEMMA ZipKeeps ==
  ASSUME ZipIInv, [ZipNext]_zipVars
  PROVE  ZipIInv'
<1>1. CASE ZipStep
  BY <1>1, WaysOut, LocateKeeps, ReadKeeps, PassOverKeeps, CutShortKeeps, ExtractKeeps DEF ZipStep
<1>2. CASE Relaunch \/ Crash
  BY <1>2, RelaunchKeeps, CutShortKeeps
<1>3. CASE UNCHANGED zipVars
  <2>1. UNCHANGED <<package, disk, marker, pc, index, where, zipOpen, held>>
    BY <1>3 DEF zipVars
  <2>2. ZipTypeOK'
    BY <2>1 DEF ZipIInv, ZipTypeOK
  <2>3. InPackage' /\ DecodesChosen' /\ Placed'
    BY <2>1 DEF ZipIInv, InPackage, DecodesChosen, Entry, Placed
  <2>4. FilesRight'
    BY <2>1 DEF ZipIInv, FilesRight, FileIsRight
  <2>5. Looping' = Looping /\ AllThere' = AllThere
    BY <2>1 DEF Looping, AllThere, There, OfItsSize
  <2>6. NoPartBehind'
    BY <2>1 DEF ZipIInv, NoPartBehind, Looping
  <2>7. AllDealtWith'
    BY <2>1 DEF ZipIInv, AllDealtWith, DealtWith, Looping, OfItsSize
  <2>8. Vouched'
    BY <2>1, <2>5 DEF ZipIInv, Vouched
  <2>. QED
    BY <2>2, <2>3, <2>4, <2>6, <2>7, <2>8 DEF ZipIInv
<1>. QED
  BY <1>1, <1>2, <1>3 DEF ZipNext

(* A path without empty segments, "." or ".." never climbs over where it   *)
(* began: every one of its segments goes one down.                         *)
LEMMA SafeGoesDown ==
  ASSUME NEW path \in Seq(STRING), ~Unsafe(path)
  PROVE  /\ path # <<>> /\ path[1] # ""
         /\ \A k \in 1 .. Len(path) : Depth(SubSeq(path, 1, k)) > 0
<1>1. path # <<>> /\ \A k \in DOMAIN path : path[k] \notin {"", ".", ".."}
  BY Zenon DEF Unsafe
<1>2. 1 \in DOMAIN path /\ DOMAIN path = 1 .. Len(path) /\ Len(path) \in Nat
  <2>1. path # <<>>
    BY <1>1, Zenon
  <2>. QED
    BY ONLY <2>1, path \in Seq(STRING)
<1>3. ASSUME NEW k \in 1 .. Len(path) PROVE Depth(SubSeq(path, 1, k)) > 0
  <2>. DEFINE p == SubSeq(path, 1, k)
  <2>1. k \in Nat \ {0}
    BY <1>2
  <2>2. p \in Seq(STRING) /\ DOMAIN p = 1 .. k /\ \A i \in 1 .. k : p[i] = path[i]
    BY ONLY path \in Seq(STRING), k \in 1 .. Len(path)
  <2>. HIDE DEF p
  <2>3. \A i \in DOMAIN p : p[i] \notin {"", ".", ".."}
    <3>1. \A i \in DOMAIN p : i \in DOMAIN path /\ p[i] = path[i]
      BY ONLY <1>2, <2>2, k \in 1 .. Len(path)
    <3>. QED
      BY <1>1, <3>1, Zenon
  <2>4. {i \in DOMAIN p : p[i] \notin {"", ".", ".."}} = 1 .. k
    BY <2>2, <2>3, Zenon
  <2>5. {i \in DOMAIN p : p[i] = ".."} = {}
    BY <2>3, Zenon
  <2>6. Cardinality(1 .. k) = k
    <3>1. k \in Int /\ 1 \in Int
      BY ONLY <2>1
    <3>2. Cardinality(1 .. k) = IF 1 > k THEN 0 ELSE k - 1 + 1
      BY ONLY <3>1, FS_Interval
    <3>. QED
      BY ONLY <2>1, <3>2
  <2>7. Cardinality({}) = 0
    BY FS_EmptySet
  <2>8. Depth(p) = k - 0
    BY ONLY <2>4, <2>5, <2>6, <2>7, Zenon DEF Depth
  <2>. QED
    BY ONLY <2>1, <2>8 DEF p
<1>. QED
  BY <1>1, <1>2, <1>3, Zenon

(* However often the extraction is begun, fails or is cut short: the       *)
(* handle is where the loop is, no file lies outside the destination or is *)
(* not what its entry holds, and the marker vouches for whole files only.  *)
THEOREM ZipInOrder == ZipSpec => []ZipInv
<1>1. ZipSpec => []ZipIInv
  BY ZipStarts, ZipKeeps, PTL DEF ZipSpec
<1>2. ZipIInv => ZipInv
  <2>. SUFFICES ASSUME ZipIInv PROVE ZipInv
    OBVIOUS
  <2>1. ZipTypeOK
    BY DEF ZipIInv
  <2>2. OnTrack
    BY DEF ZipIInv, Placed, OnTrack, AtEntry
  <2>3. FilesAreTheirEntries
    <3>. SUFFICES ASSUME NEW path \in DOMAIN disk, disk[path].what = "entry", NEW e,
                         e = package.entries[disk[path].entry]
                  PROVE  /\ e.path = path /\ e.asset /\ ~e.directory /\ e.good
                         /\ path # <<>> /\ path[1] # ""
                         /\ \A k \in 1..Len(path) : Depth(SubSeq(path, 1, k)) > 0
      BY Zenon DEF FilesAreTheirEntries
    <3>1. /\ disk[path].entry \in DOMAIN package.entries
          /\ e.path = path /\ Chosen(e) /\ e.good
      BY DEF ZipIInv, FilesRight, FileIsRight
    <3>2. e \in Record
      BY <3>1, EntriesAre
    <3>3. path \in Seq(STRING) /\ ~Unsafe(path) /\ e.asset /\ ~e.directory
      BY <3>1, <3>2 DEF Record, Chosen
    <3>. QED
      BY <3>1, <3>3, SafeGoesDown, Zenon
  <2>4. MarkerVouches
    <3>. SUFFICES ASSUME marker, NEW k \in DOMAIN package.entries PROVE There(package.entries[k])
      BY Zenon DEF MarkerVouches, There, OfItsSize
    <3>. QED
      BY Zenon DEF ZipIInv, Vouched, AllThere
  <2>. QED
    BY <2>1, <2>2, <2>3, <2>4 DEF ZipInv
<1>. QED
  BY <1>1, <1>2, PTL
-----------------------------------------------------------------------------
(* Formatting.  The text up to an item, and the words up to it, are        *)
(* defined from those up to the item before.                               *)
Piece(f, i) == [c \in 1 .. f[i].count |-> <<i, c - 1>>]
IsWritten(f, w) == w = [i \in 0 .. Len(f) |-> IF i = 0 THEN <<>> ELSE w[i - 1] \o Piece(f, i)]
Words(f, i, first, before) ==
  CASE f[i].conv = "word" -> before + 1
    [] f[i].conv = "double" -> before + (IF ((before + first) % 2) = 0 THEN 2 ELSE 3)
    [] OTHER -> before
IsPassed(f, first, w) ==
  w = [i \in 0 .. Len(f) |-> IF i = 0 THEN 0 ELSE Words(f, i, first, w[i - 1])]

LEMMA WrittenExists ==
  ASSUME NEW f \in Seq(Item)
  PROVE  \E w \in [0 .. Len(f) -> Seq(Nat \X Nat)] : IsWritten(f, w)
<1>. DEFINE S == Seq(Nat \X Nat)
            h == [i \in 1 .. Len(f) |-> [s \in S |-> s \o Piece(f, i)]]
<1>1. Len(f) \in Nat /\ <<>> \in S
  OBVIOUS
<1>2. \A i \in 1 .. Len(f) : Piece(f, i) \in S
  <2>. SUFFICES ASSUME NEW i \in 1 .. Len(f) PROVE Piece(f, i) \in S
    OBVIOUS
  <2>1. f[i] \in Item
    OBVIOUS
  <2>2. f[i].count \in Nat
    BY <2>1, FormattingAssumption
  <2>. QED
    BY <2>2 DEF Piece
<1>3. ASSUME NEW i \in 1 .. Len(f), NEW s \in S PROVE s \o Piece(f, i) \in S
  <2>1. Piece(f, i) \in S
    BY <1>2
  <2>. QED
    BY <2>1, ConcatProperties
<1>4. h \in [1 .. Len(f) -> [S -> S]]
  BY <1>3
<1>5. \A i \in 1 .. Len(f) : \A s \in S : h[i][s] = s \o Piece(f, i)
  OBVIOUS
<1>. HIDE DEF S, h
<1>6. PICK w \in [0 .. Len(f) -> S] : Follows(w, Len(f), <<>>, h)
  BY <1>1, <1>4, RecursionExists
<1>7. ASSUME NEW i \in 0 .. Len(f) PROVE w[i] = IF i = 0 THEN <<>> ELSE w[i - 1] \o Piece(f, i)
  <2>1. w[i] = IF i = 0 THEN <<>> ELSE h[i][w[i - 1]]
    BY <1>6 DEF Follows
  <2>2. i # 0 => i \in 1 .. Len(f) /\ w[i - 1] \in S
    BY <1>1, <1>6
  <2>. QED
    BY <1>5, <2>1, <2>2
<1>8. IsWritten(f, w)
  BY <1>6, <1>7 DEF IsWritten
<1>. QED
  BY <1>6, <1>8 DEF S

LEMMA PieceIs ==
  ASSUME NEW f \in Seq(Item), NEW i \in 1 .. Len(f)
  PROVE  /\ f[i].count \in Nat
         /\ Piece(f, i) \in Seq(Nat \X Nat) /\ Len(Piece(f, i)) = f[i].count
         /\ \A c \in 1 .. f[i].count : Piece(f, i)[c] = <<i, c - 1>>
<1>1. f[i] \in Item
  OBVIOUS
<1>2. f[i].count \in Nat
  BY <1>1, FormattingAssumption
<1>. DEFINE n == f[i].count
            p == Piece(f, i)
<1>. HIDE DEF n
<1>3. p = [c \in 1 .. n |-> <<i, c - 1>>]
  BY DEF Piece, n
<1>. HIDE DEF p
<1>4. \A c \in 1 .. n : <<i, c - 1>> \in Nat \X Nat
  OBVIOUS
<1>5. n \in Nat
  BY <1>2 DEF n
<1>6. p \in [1 .. n -> Nat \X Nat]
  BY <1>3, <1>4
<1>7. p \in Seq(Nat \X Nat) /\ Len(p) = n
  BY <1>5, <1>6
<1>8. \A c \in 1 .. n : p[c] = <<i, c - 1>>
  BY <1>3
<1>. QED
  BY <1>2, <1>7, <1>8 DEF n, p

LEMMA WrittenIs ==
  ASSUME NEW f \in Seq(Item)
  PROVE  /\ Written(f)[0] = <<>>
         /\ \A i \in 0 .. Len(f) : Written(f)[i] \in Seq(Nat \X Nat)
         /\ \A i \in 1 .. Len(f) : Written(f)[i] = Written(f)[i - 1] \o Piece(f, i)
<1>. DEFINE w == Written(f)
            S == Seq(Nat \X Nat)
<1>1. w = CHOOSE v : IsWritten(f, v)
  BY Zenon DEF Written, IsWritten, Piece
<1>2. \E v : IsWritten(f, v)
  BY WrittenExists
<1>. HIDE DEF w
<1>3. IsWritten(f, w)
  BY <1>1, <1>2, Zenon
<1>4. \A i \in 0 .. Len(f) : w[i] = IF i = 0 THEN <<>> ELSE w[i - 1] \o Piece(f, i)
  BY <1>3 DEF IsWritten
<1>5. Len(f) \in Nat
  OBVIOUS
<1>6. w[0] = <<>> /\ \A i \in 1 .. Len(f) : w[i] = w[i - 1] \o Piece(f, i)
  <2>1. w[0] = <<>>
    BY <1>4, <1>5
  <2>2. ASSUME NEW i \in 1 .. Len(f) PROVE w[i] = w[i - 1] \o Piece(f, i)
    <3>1. i \in 0 .. Len(f) /\ i # 0
      BY <1>5
    <3>. QED
      BY <1>4, <3>1, Zenon
  <2>. QED
    BY <2>1, <2>2
<1>7. ASSUME NEW i \in 1 .. Len(f), w[i - 1] \in S PROVE w[i] \in S
  <2>1. Piece(f, i) \in S
    BY PieceIs
  <2>. QED
    BY <1>6, <1>7, <2>1, ConcatProperties
<1>8. w[0] \in S
  BY <1>6
<1>. HIDE DEF S
<1>9. \A i \in 0 .. Len(f) : w[i] \in S
  BY <1>5, <1>7, <1>8, StaysIn
<1>. QED
  BY <1>6, <1>9 DEF S, w

LEMMA WordsIs ==
  ASSUME NEW f, NEW i, NEW first \in {0, 1}, NEW before \in Nat
  PROVE  Words(f, i, first, before) \in Nat
BY DEF Words

LEMMA PassedIs ==
  ASSUME NEW f \in Seq(Item), NEW first \in {0, 1}
  PROVE  /\ Passed(f, first)[0] = 0
         /\ \A i \in 0 .. Len(f) : Passed(f, first)[i] \in Nat
         /\ \A i \in 1 .. Len(f) : Passed(f, first)[i] = Words(f, i, first, Passed(f, first)[i - 1])
<1>. DEFINE w == Passed(f, first)
            h == [i \in 1 .. Len(f) |-> [b \in Nat |-> Words(f, i, first, b)]]
<1>1. w = CHOOSE v : IsPassed(f, first, v)
  BY Zenon DEF Passed, IsPassed, Words
<1>2. Len(f) \in Nat
  OBVIOUS
<1>3. h \in [1 .. Len(f) -> [Nat -> Nat]]
  BY WordsIs
<1>4. \A i \in 1 .. Len(f) : \A b \in Nat : h[i][b] = Words(f, i, first, b)
  OBVIOUS
<1>. HIDE DEF w, h
<1>5. PICK v \in [0 .. Len(f) -> Nat] : Follows(v, Len(f), 0, h)
  BY <1>2, <1>3, RecursionExists
<1>6. ASSUME NEW i \in 0 .. Len(f) PROVE v[i] = IF i = 0 THEN 0 ELSE Words(f, i, first, v[i - 1])
  <2>1. v[i] = IF i = 0 THEN 0 ELSE h[i][v[i - 1]]
    BY <1>5 DEF Follows
  <2>2. i # 0 => i \in 1 .. Len(f) /\ v[i - 1] \in Nat
    BY <1>2, <1>5
  <2>. QED
    BY <1>4, <2>1, <2>2
<1>7. IsPassed(f, first, v)
  BY <1>5, <1>6 DEF IsPassed
<1>8. IsPassed(f, first, w)
  BY <1>1, <1>7, Zenon
<1>9. \A i \in 0 .. Len(f) : w[i] = IF i = 0 THEN 0 ELSE Words(f, i, first, w[i - 1])
  BY <1>8 DEF IsPassed
<1>10. w[0] = 0 /\ \A i \in 1 .. Len(f) : w[i] = Words(f, i, first, w[i - 1])
  BY <1>2, <1>9
<1>11. ASSUME NEW i \in 1 .. Len(f), w[i - 1] \in Nat PROVE w[i] \in Nat
  <2>1. Words(f, i, first, w[i - 1]) \in Nat
    BY <1>11, WordsIs, Zenon
  <2>. QED
    BY <1>10, <2>1
<1>12. w[0] \in Nat
  BY <1>10
<1>13. \A i \in 0 .. Len(f) : w[i] \in Nat
  BY <1>2, <1>11, <1>12, StaysIn
<1>. QED
  BY <1>10, <1>13 DEF w

LEMMA FormatsAre ==
  /\ <<>> \in Formats
  /\ \A f \in Formats : f \in Seq(Item) /\ Len(f) \in 0 .. MaxItems
<1>1. MaxItems \in Nat
  BY FormattingAssumption
<1>2. <<>> \in [1 .. 0 -> Item] /\ Len(<<>>) = 0
  OBVIOUS
<1>3. <<>> \in BoundedSeq(Item, MaxItems)
  BY <1>1, <1>2 DEF BoundedSeq, SeqOf
<1>4. <<>> \in Formats
  BY <1>2, <1>3 DEF Formats
<1>5. ASSUME NEW f \in Formats PROVE f \in Seq(Item) /\ Len(f) \in 0 .. MaxItems
  <2>1. PICK m \in 0 .. MaxItems : f \in [1 .. m -> Item]
    BY DEF Formats, BoundedSeq, SeqOf
  <2>. QED
    BY <1>1, <2>1
<1>. QED
  BY <1>4, <1>5

(* The inductive invariant: what is written so far is the text so far, as  *)
(* much of it as fits, and the words so far are those the caller passed.   *)
InCall ==
  /\ fmt \in Formats /\ base \in {0, 1} /\ object \in Objects /\ size \in {object, Unknown}
  /\ capacity \in Nat /\ (size # Unknown => capacity <= object)
  /\ state \in {"idle", "formatting", "returned", "failed", "aborted"}
  /\ state \in {"formatting", "returned"} => capacity > 0
  /\ state = "idle" => at = 0 /\ capacity = 0
InStep ==
  /\ at \in 0 .. Len(fmt)
  /\ taken \in Seq(Nat) /\ Len(taken) = at
  /\ arg \in 0 .. 3 * at
  /\ used \in 0 .. at * (TempSize - 1)
InPlace ==
  /\ state # "returned" => DOMAIN d = {q \in 0 .. used - 1 : Fits(q)}
  /\ \A p \in DOMAIN d : d[p] \in Chars /\ p \in Nat /\ p <= used /\ p < capacity
TextSoFar ==
  (\A i \in 1 .. at : fmt[i].count < TempSize) =>
    /\ used = Len(Written(fmt)[at])
    /\ state # "returned" => \A p \in DOMAIN d : d[p] = Written(fmt)[at][p + 1]
WordsSoFar ==
  (\A i \in 1 .. at : Plain(fmt[i])) => arg = Passed(fmt, base)[at]
FormatIInv ==
  /\ InCall /\ InStep /\ InPlace /\ TextSoFar /\ WordsSoFar
  /\ LikeSnprintf /\ RightArguments

(* Nothing is written or taken yet.                                        *)
Untouched ==
  InCall /\ at = 0 /\ arg = 0 /\ used = 0 /\ DOMAIN d = {} /\ taken = <<>> /\ state # "returned"

LEMMA NothingYet == Untouched => FormatIInv
<1>. SUFFICES ASSUME Untouched PROVE FormatIInv
  OBVIOUS
<1>. USE DEF Untouched
<1>1. fmt \in Seq(Item) /\ Len(fmt) \in Nat /\ base \in {0, 1} /\ TempSize \in Nat \ {0}
  BY FormatsAre, FormattingAssumption DEF InCall
<1>2. InStep
  BY <1>1 DEF InStep
<1>3. InPlace
  BY DEF InPlace
<1>4. TextSoFar
  BY <1>1, WrittenIs DEF TextSoFar
<1>5. WordsSoFar
  BY <1>1, PassedIs DEF WordsSoFar
<1>6. LikeSnprintf
  BY DEF LikeSnprintf
<1>7. RightArguments
  BY DEF RightArguments
<1>. QED
  BY <1>2, <1>3, <1>4, <1>5, <1>6, <1>7 DEF FormatIInv

LEMMA FormatStarts == FormatInit => FormatIInv
<1>. SUFFICES ASSUME FormatInit PROVE FormatIInv
  OBVIOUS
<1>1. InCall
  BY FormatsAre, FormattingAssumption DEF FormatInit, InCall
<1>2. at = 0 /\ arg = 0 /\ used = 0 /\ DOMAIN d = {} /\ taken = <<>> /\ state # "returned"
  BY DEF FormatInit
<1>. QED
  BY <1>1, <1>2, NothingYet DEF Untouched

LEMMA CallsBegin ==
  ASSUME FormatIInv, Vsnprintf \/ Vsprintf
  PROVE  FormatIInv'
<1>. USE FormattingAssumption
<1>1. Untouched' => FormatIInv'
  BY NothingYet, PTL
<1>2. state = "idle" /\ at = 0 /\ capacity = 0 /\ object' \in Objects
  BY DEF Vsnprintf, Vsprintf, FormatIInv, InCall
<1>3. ASSUME NEW n \in Nat, Begin(n), size' \in {object', Unknown}, size' # Unknown => n <= object'
      PROVE  Untouched'
  <2>1. /\ fmt' \in Formats /\ base' \in {0, 1} /\ capacity' = n /\ at' = 0 /\ arg' = 0 /\ used' = 0
        /\ d' = <<>> /\ taken' = <<>> /\ state' = IF n = 0 THEN "failed" ELSE "formatting"
    BY <1>3 DEF Begin
  <2>. QED
    BY <1>2, <1>3, <2>1 DEF Untouched, InCall
<1>4. CASE Vsnprintf
  <2>1. PICK n \in 0 .. MaxRequest : IF Exceeds(n, size') THEN Abort ELSE Begin(n)
    BY <1>4 DEF Vsnprintf
  <2>2. size' = object' /\ object' \in Nat /\ n \in Nat
    BY <1>2, <1>4 DEF Vsnprintf
  <2>3. CASE Exceeds(n, size')
    <3>1. /\ state' = "aborted" /\ d' = <<>>
          /\ UNCHANGED <<fmt, base, capacity, at, arg, used, taken>>
      BY <2>1, <2>3 DEF Abort
    <3>2. arg = 0 /\ used = 0 /\ taken = <<>> /\ fmt \in Formats /\ base \in {0, 1}
      BY <1>2 DEF FormatIInv, InStep, InCall
    <3>3. Untouched'
      BY <1>2, <2>2, <3>1, <3>2 DEF Untouched, InCall
    <3>. QED
      BY <1>1, <3>3
  <2>4. CASE ~ Exceeds(n, size')
    BY <1>1, <1>3, <2>1, <2>2, <2>4 DEF Exceeds
  <2>. QED
    BY <2>3, <2>4
<1>5. CASE Vsprintf
  <2>. DEFINE n == IF size' = Unknown THEN Assumed ELSE size'
  <2>1. Begin(n) /\ size' \in {object', Unknown}
    BY <1>5 DEF Vsprintf
  <2>2. n \in Nat /\ (size' # Unknown => n <= object')
    BY <1>2, <2>1
  <2>. HIDE DEF n
  <2>. QED
    BY <1>1, <1>3, <2>1, <2>2
<1>. QED
  BY <1>4, <1>5

LEMMA FailKeeps ==
  ASSUME FormatIInv, ConversionFails
  PROVE  FormatIInv'
<1>1. state = "formatting" /\ state' = "failed" /\ UNCHANGED <<call, at, arg, used, d, taken>>
  BY DEF ConversionFails, Formatting
<1>2. UNCHANGED <<fmt, base, object, size, capacity>>
  BY <1>1 DEF call
<1>3. InCall' /\ InStep' /\ InPlace'
  BY <1>1, <1>2 DEF FormatIInv, InCall, InStep, InPlace, Fits
<1>4. TextSoFar' /\ WordsSoFar'
  BY <1>1, <1>2 DEF FormatIInv, TextSoFar, WordsSoFar, Plain
<1>5. LikeSnprintf'
  BY <1>1 DEF LikeSnprintf
<1>6. RightArguments'
  BY <1>1, <1>2 DEF FormatIInv, RightArguments, Plain
<1>. QED
  BY <1>3, <1>4, <1>5, <1>6 DEF FormatIInv

(* The word a double begins at.                                            *)
LEMMA AlignIs ==
  ASSUME NEW w \in Nat, base \in {0, 1}
  PROVE  /\ Align(w) \in {w, w + 1}
         /\ Align(w) + 2 = w + (IF ((w + base) % 2) = 0 THEN 2 ELSE 3)
<1>. DEFINE r == (w + base) % 2
<1>1. r \in {0, 1}
  OBVIOUS
<1>2. Align(w) = w + r
  BY DEF Align
<1>. HIDE DEF r
<1>3. (r = 0 /\ Align(w) = w) \/ (r = 1 /\ Align(w) = w + 1)
  BY <1>1, <1>2
<1>. QED
  BY <1>3 DEF r

LEMMA ItemIs ==
  ASSUME FormatIInv, Convert
  PROVE  /\ fmt \in Seq(Item) /\ Len(fmt) \in 0 .. MaxItems
         /\ at \in Nat /\ at + 1 \in 1 .. Len(fmt) /\ at' = at + 1
         /\ Now.conv \in {"char", "word", "double", "other", "end"} /\ Now.count \in Nat
         /\ Available \in 0 .. TempSize - 1 /\ (Now.count < TempSize => Available = Now.count)
         /\ arg \in Nat /\ used \in Nat /\ capacity \in Nat /\ base \in {0, 1} /\ taken \in Seq(Nat)
         /\ UNCHANGED <<fmt, base, object, size, capacity, state>> /\ state = "formatting"
<1>1. InCall /\ InStep /\ TempSize \in Nat \ {0} /\ MaxItems \in Nat
  BY FormattingAssumption DEF FormatIInv
<1>2. fmt \in Seq(Item) /\ Len(fmt) \in 0 .. MaxItems
  BY <1>1, FormatsAre DEF InCall
<1>3. at \in Nat /\ at + 1 \in 1 .. Len(fmt) /\ at' = at + 1 /\ state = "formatting"
  BY <1>1, <1>2 DEF Convert, Formatting, InStep
<1>4. Now \in Item
  BY <1>2, <1>3 DEF Now
<1>5. Now.conv \in {"char", "word", "double", "other", "end"} /\ Now.count \in Nat
  BY <1>4, FormattingAssumption
<1>6. Available \in 0 .. TempSize - 1 /\ (Now.count < TempSize => Available = Now.count)
  BY <1>1, <1>5 DEF Available
<1>7. arg \in Nat /\ used \in Nat /\ capacity \in Nat /\ base \in {0, 1} /\ taken \in Seq(Nat)
  <2>1. arg \in 0 .. 3 * at /\ used \in 0 .. at * (TempSize - 1)
    BY <1>1 DEF InStep
  <2>. QED
    BY <1>1, <2>1 DEF InCall, InStep
<1>8. UNCHANGED <<fmt, base, object, size, capacity, state>>
  BY DEF Convert, call
<1>. QED
  BY <1>2, <1>3, <1>5, <1>6, <1>7, <1>8

LEMMA ConvertTakes ==
  ASSUME FormatIInv, Convert
  PROVE  InStep' /\ WordsSoFar' /\ RightArguments'
<1>. DEFINE x == IF TakesDouble THEN Align(arg) ELSE arg
<1>1. fmt' = fmt /\ base' = base /\ at' = at + 1 /\ at \in Nat /\ at + 1 \in 1 .. Len(fmt)
  BY ItemIs
<1>2. /\ Align(arg) \in {arg, arg + 1}
      /\ Align(arg) + 2 = arg + (IF ((arg + base) % 2) = 0 THEN 2 ELSE 3)
  BY ItemIs, AlignIs
<1>3. Takes /\ Appends(Available)
  BY DEF Convert
<1>4. taken' = Append(taken, x) /\ x \in Nat /\ arg \in Nat
  BY <1>2, <1>3, ItemIs DEF Takes
<1>5. arg' = CASE Now.conv = "word" -> arg + 1
               [] TakesDouble -> Align(arg) + 2
               [] OTHER -> arg
  BY <1>3 DEF Takes
<1>6. /\ taken' \in Seq(Nat) /\ Len(taken') = at + 1 /\ taken'[at + 1] = x
      /\ \A i \in 1 .. at : taken'[i] = taken[i]
  <2>1. taken \in Seq(Nat) /\ Len(taken) = at
    BY DEF FormatIInv, InStep
  <2>. HIDE DEF x
  <2>2. taken' \in Seq(Nat) /\ Len(taken') = Len(taken) + 1
    BY <1>4, <2>1, AppendProperties
  <2>3. taken'[Len(taken) + 1] = x /\ \A i \in 1 .. Len(taken) : taken'[i] = taken[i]
    BY <1>4, <2>1, AppendProperties
  <2>. QED
    BY <2>1, <2>2, <2>3
<1>7. InStep'
  <2>1. arg \in 0 .. 3 * at /\ used \in 0 .. at * (TempSize - 1)
    BY DEF FormatIInv, InStep
  <2>2. arg' \in Nat /\ arg' <= arg + 3
    <3>1. Align(arg) + 2 \in Nat /\ Align(arg) + 2 <= arg + 3
      BY <1>2, <1>4
    <3>. QED
      BY <1>4, <1>5, <3>1
  <2>3. arg' \in 0 .. 3 * (at + 1)
    BY <1>1, <1>4, <2>1, <2>2
  <2>4. used' \in 0 .. (at + 1) * (TempSize - 1)
    <3>. DEFINE K == TempSize - 1
    <3>1. K \in Nat /\ used' = used + Available /\ Available \in 0 .. K /\ used \in Nat
      BY <1>3, ItemIs, FormattingAssumption DEF Appends
    <3>2. used <= at * K
      BY <2>1
    <3>. HIDE DEF K
    <3>3. (at + 1) * K = at * K + K /\ at * K \in Nat
      BY <1>1, <3>1
    <3>4. used' \in 0 .. (at + 1) * K
      BY <3>1, <3>2, <3>3
    <3>. QED
      BY <3>4 DEF K
  <2>5. at' \in 0 .. Len(fmt')
    BY <1>1
  <2>. QED
    BY <1>1, <1>6, <2>3, <2>4, <2>5 DEF InStep
<1>8. /\ Passed(fmt, base)[at] \in Nat
      /\ Passed(fmt, base)[at + 1] = Words(fmt, at + 1, base, Passed(fmt, base)[at])
  <2>. DEFINE w == Passed(fmt, base)
  <2>1. fmt \in Seq(Item) /\ base \in {0, 1} /\ Len(fmt) \in Nat
    BY ItemIs
  <2>2. /\ \A i \in 0 .. Len(fmt) : w[i] \in Nat
        /\ \A i \in 1 .. Len(fmt) : w[i] = Words(fmt, i, base, w[i - 1])
    BY <2>1, PassedIs
  <2>. HIDE DEF w
  <2>3. at \in 0 .. Len(fmt) /\ (at + 1) - 1 = at
    BY <1>1, <2>1
  <2>4. w[at] \in Nat /\ w[at + 1] = Words(fmt, at + 1, base, w[(at + 1) - 1])
    BY <1>1, <2>2, <2>3
  <2>. QED
    BY <2>3, <2>4 DEF w
<1>9. ASSUME \A i \in 1 .. at + 1 : Plain(fmt[i])
      PROVE  /\ arg = Passed(fmt, base)[at] /\ arg' = Passed(fmt, base)[at + 1]
             /\ Now.conv = "word" => x = Passed(fmt, base)[at + 1] - 1
             /\ Now.conv = "double" => x = Passed(fmt, base)[at + 1] - 2
  <2>1. arg = Passed(fmt, base)[at]
    BY <1>1, <1>9 DEF FormatIInv, WordsSoFar
  <2>2. Now.conv \in {"char", "word", "double"}
    BY <1>1, <1>9 DEF Plain, Now
  <2>3. Passed(fmt, base)[at + 1] =
          CASE Now.conv = "word" -> arg + 1
            [] Now.conv = "double" -> arg + (IF ((arg + base) % 2) = 0 THEN 2 ELSE 3)
            [] OTHER -> arg
    BY <1>8, <2>1 DEF Words, Now
  <2>4. CASE Now.conv = "char"
    BY <1>5, <2>1, <2>3, <2>4 DEF TakesDouble
  <2>5. CASE Now.conv = "word"
    BY <1>4, <1>5, <2>1, <2>3, <2>5 DEF TakesDouble
  <2>6. CASE Now.conv = "double"
    <3>1. Passed(fmt, base)[at + 1] = Align(arg) + 2 /\ arg' = Align(arg) + 2 /\ x = Align(arg)
      BY <1>2, <1>5, <2>3, <2>6 DEF TakesDouble
    <3>2. Align(arg) = (Align(arg) + 2) - 2
      BY <1>2, <1>4
    <3>. QED
      BY <2>1, <2>6, <3>1, <3>2
  <2>. QED
    BY <2>2, <2>4, <2>5, <2>6
<1>. HIDE DEF x
<1>10. WordsSoFar'
  BY <1>1, <1>9 DEF WordsSoFar, Plain
<1>11. RightArguments'
  <2>1. ASSUME NEW i \in 1 .. at + 1, \A j \in 1 .. i : Plain(fmt[j])
        PROVE  CASE fmt[i].conv = "word" -> taken'[i] = Passed(fmt, base)[i] - 1
                 [] fmt[i].conv = "double" -> taken'[i] = Passed(fmt, base)[i] - 2
                 [] OTHER -> TRUE
    <3>1. CASE i = at + 1
      <4>1. Now.conv = "word" => x = Passed(fmt, base)[at + 1] - 1
        BY <1>9, <2>1, <3>1
      <4>2. Now.conv = "double" => x = Passed(fmt, base)[at + 1] - 2
        BY <1>9, <2>1, <3>1
      <4>. QED
        BY <1>6, <3>1, <4>1, <4>2 DEF Now
    <3>2. CASE i # at + 1
      <4>1. i \in 1 .. at
        BY <1>1, <3>2
      <4>2. taken'[i] = taken[i]
        BY <1>6, <4>1
      <4>. QED
        BY <2>1, <4>1, <4>2 DEF FormatIInv, RightArguments
    <3>. QED
      BY <3>1, <3>2
  <2>. QED
    BY <1>1, <2>1 DEF RightArguments, Plain
<1>. QED
  BY <1>7, <1>10, <1>11

LEMMA ConvertWrites ==
  ASSUME FormatIInv, Convert
  PROVE  InPlace' /\ TextSoFar'
<1>. DEFINE n == Available
            places == {q \in used .. used + n - 1 : Fits(q)}
<1>1. /\ n \in Nat /\ used \in Nat /\ capacity \in Nat /\ capacity' = capacity /\ state = "formatting"
      /\ at \in Nat /\ at' = at + 1 /\ at + 1 \in 1 .. Len(fmt) /\ fmt' = fmt /\ state' = state
  BY ItemIs, FormattingAssumption
<1>2. /\ used' = used + n
      /\ d' = [p \in DOMAIN d \cup places |-> IF p \in places THEN <<at + 1, p - used>> ELSE d[p]]
  BY DEF Convert, Appends
<1>3. /\ DOMAIN d = {q \in 0 .. used - 1 : Fits(q)}
      /\ \A p \in DOMAIN d : d[p] \in Chars /\ p \in Nat /\ p <= used /\ p < capacity
  BY <1>1 DEF FormatIInv, InPlace
<1>. HIDE DEF n
<1>4. DOMAIN d' = {q \in 0 .. used' - 1 : Fits(q)}
  <2>1. DOMAIN d' = DOMAIN d \cup places
    BY <1>2
  <2>. QED
    BY <1>1, <1>2, <1>3, <2>1
<1>5. \A q \in 0 .. used' - 1 : Fits(q) <=> q + 1 < capacity
  BY DEF Fits
<1>6. ASSUME NEW p \in DOMAIN d' PROVE d'[p] \in Chars /\ p \in Nat /\ p <= used' /\ p < capacity
  <2>1. p \in Nat /\ p <= used' /\ p < capacity
    BY <1>1, <1>2, <1>4, <1>5
  <2>2. CASE p \in places
    <3>1. at + 1 \in 0 .. MaxItems
      BY <1>1, ItemIs, FormattingAssumption
    <3>2. p - used \in Nat
      BY <1>1, <2>2
    <3>3. d'[p] = <<at + 1, p - used>>
      BY <1>2, <2>2
    <3>. QED
      BY <2>1, <3>1, <3>2, <3>3 DEF Chars
  <2>3. CASE p \notin places
    <3>1. p \in DOMAIN d /\ d'[p] = d[p]
      BY <1>2, <2>3
    <3>. QED
      BY <1>3, <2>1, <3>1
  <2>. QED
    BY <2>2, <2>3
<1>7. InPlace'
  <2>1. DOMAIN d' = {q \in 0 .. used' - 1 : Fits(q)'}
    BY <1>1, <1>4 DEF Fits
  <2>2. \A p \in DOMAIN d' : d'[p] \in Chars /\ p \in Nat /\ p <= used' /\ p < capacity'
    BY <1>1, <1>6
  <2>. QED
    BY <2>1, <2>2 DEF InPlace
<1>8. ASSUME \A i \in 1 .. at + 1 : fmt[i].count < TempSize
      PROVE  /\ used' = Len(Written(fmt)[at + 1])
             /\ \A p \in DOMAIN d' : d'[p] = Written(fmt)[at + 1][p + 1]
  <2>. DEFINE before == Written(fmt)[at]
              piece == Piece(fmt, at + 1)
  <2>1. used = Len(before) /\ \A p \in DOMAIN d : d[p] = before[p + 1]
    BY <1>1, <1>8 DEF FormatIInv, TextSoFar
  <2>2. n = fmt[at + 1].count
    BY <1>1, <1>8, ItemIs DEF Now, n
  <2>3. fmt \in Seq(Item) /\ at \in 0 .. Len(fmt) /\ (at + 1) - 1 = at
    BY <1>1, ItemIs
  <2>4. before \in Seq(Nat \X Nat)
    BY <2>3, WrittenIs
  <2>5. Written(fmt)[at + 1] = before \o piece
    <3>1. \A i \in 1 .. Len(fmt) : Written(fmt)[i] = Written(fmt)[i - 1] \o Piece(fmt, i)
      BY <2>3, WrittenIs
    <3>2. Written(fmt)[at + 1] = Written(fmt)[(at + 1) - 1] \o Piece(fmt, at + 1)
      BY ONLY <1>1, <3>1
    <3>. QED
      BY <2>3, <3>2, Zenon
  <2>6. /\ piece \in Seq(Nat \X Nat) /\ Len(piece) = n
        /\ \A c \in 1 .. n : piece[c] = <<at + 1, c - 1>>
    BY <1>1, <2>2, <2>3, PieceIs
  <2>. HIDE DEF before, piece
  <2>7. /\ Len(before \o piece) = used + n
        /\ \A i \in 1 .. used : (before \o piece)[i] = before[i]
        /\ \A i \in used + 1 .. used + n : (before \o piece)[i] = piece[i - used]
    <3>1. /\ Len(before \o piece) = Len(before) + Len(piece)
          /\ \A i \in 1 .. Len(before) + Len(piece) :
               (before \o piece)[i] = IF i <= Len(before) THEN before[i] ELSE piece[i - Len(before)]
      BY <2>4, <2>6, ConcatProperties
    <3>. QED
      BY <1>1, <2>1, <2>6, <3>1
  <2>8. ASSUME NEW p \in DOMAIN d' PROVE d'[p] = (before \o piece)[p + 1]
    <3>1. CASE p \in places
      <4>1. p \in Nat /\ p + 1 \in used + 1 .. used + n /\ (p + 1) - used \in 1 .. n
        BY <1>1, <3>1
      <4>2. (before \o piece)[p + 1] = piece[(p + 1) - used]
        BY <2>7, <4>1
      <4>3. piece[(p + 1) - used] = <<at + 1, ((p + 1) - used) - 1>>
        BY <2>6, <4>1
      <4>4. ((p + 1) - used) - 1 = p - used
        BY <1>1, <4>1
      <4>5. d'[p] = <<at + 1, p - used>>
        BY <1>2, <3>1
      <4>. QED
        BY <4>2, <4>3, <4>4, <4>5
    <3>2. CASE p \notin places
      <4>1. p \in DOMAIN d /\ d'[p] = d[p]
        BY <1>2, <3>2
      <4>2. p + 1 \in 1 .. used
        BY <1>1, <1>3, <4>1
      <4>. QED
        BY <2>1, <2>7, <4>1, <4>2
    <3>. QED
      BY <3>1, <3>2
  <2>. QED
    BY <1>2, <2>5, <2>7, <2>8
<1>9. TextSoFar'
  BY <1>1, <1>8 DEF TextSoFar
<1>. QED
  BY <1>7, <1>9

LEMMA ConvertKeeps ==
  ASSUME FormatIInv, Convert
  PROVE  FormatIInv'
<1>1. UNCHANGED <<fmt, base, object, size, capacity, state>> /\ state = "formatting"
  BY ItemIs
<1>2. InCall'
  BY <1>1 DEF FormatIInv, InCall
<1>3. LikeSnprintf'
  BY <1>1 DEF LikeSnprintf
<1>. QED
  BY <1>2, <1>3, ConvertTakes, ConvertWrites DEF FormatIInv

LEMMA ReturnKeeps ==
  ASSUME FormatIInv, Return
  PROVE  FormatIInv'
<1>1. /\ state = "formatting" /\ at = Len(fmt) /\ state' = "returned"
      /\ d' = [p \in DOMAIN d \cup {End} |-> IF p = End THEN NUL ELSE d[p]]
      /\ UNCHANGED <<fmt, base, object, size, capacity, at, arg, used, taken>>
  BY DEF Return, call
<1>2. InCall /\ InStep /\ InPlace /\ capacity \in Nat \ {0} /\ used \in Nat /\ MaxItems \in Nat
  <2>1. used \in 0 .. at * (TempSize - 1)
    BY DEF FormatIInv, InStep
  <2>. QED
    BY <1>1, <2>1, FormattingAssumption DEF FormatIInv, InCall
<1>3. InCall'
  BY <1>1, <1>2 DEF InCall
<1>4. InStep'
  BY <1>1, <1>2 DEF InStep
<1>5. End \in Nat /\ End <= used /\ End < capacity /\ DOMAIN d = 0 .. End - 1
  <2>1. DOMAIN d = {q \in 0 .. used - 1 : q + 1 < capacity}
    BY <1>1, <1>2 DEF InPlace, Fits
  <2>2. CASE used < capacity
    BY <1>2, <2>1, <2>2 DEF End
  <2>3. CASE ~ (used < capacity)
    BY <1>2, <2>1, <2>3 DEF End
  <2>. QED
    BY <2>2, <2>3
<1>6. DOMAIN d' = 0 .. End
  <2>1. DOMAIN d' = DOMAIN d \cup {End}
    BY <1>1
  <2>. QED
    BY <1>5, <2>1
<1>7. InPlace'
  <2>1. NUL \in Chars
    BY <1>2 DEF NUL, Chars
  <2>2. ASSUME NEW p \in DOMAIN d' PROVE d'[p] \in Chars /\ p \in Nat /\ p <= used /\ p < capacity
    <3>1. p \in Nat /\ p <= used /\ p < capacity
      BY <1>2, <1>5, <1>6
    <3>2. d'[p] = NUL \/ (p \in DOMAIN d /\ d'[p] = d[p])
      BY <1>1
    <3>. QED
      BY <1>2, <2>1, <3>1, <3>2 DEF InPlace
  <2>. QED
    BY <1>1, <2>2 DEF InPlace
<1>8. TextSoFar' /\ WordsSoFar'
  BY <1>1 DEF FormatIInv, TextSoFar, WordsSoFar, Plain
<1>9. LikeSnprintf'
  <2>1. ASSUME \A i \in 1 .. Len(fmt) : fmt[i].count < TempSize
        PROVE  /\ used = Len(Text)
               /\ d' = [p \in 0 .. End |-> IF p = End THEN NUL ELSE Text[p + 1]]
    <3>1. used = Len(Text) /\ \A p \in DOMAIN d : d[p] = Text[p + 1]
      BY <1>1, <2>1 DEF FormatIInv, TextSoFar, Text
    <3>2. d' = [p \in 0 .. End |-> IF p = End THEN NUL ELSE d[p]]
      BY <1>1, <1>6
    <3>3. \A p \in 0 .. End : p # End => d[p] = Text[p + 1]
      BY <1>5, <3>1
    <3>. QED
      BY <3>1, <3>2, <3>3
  <2>2. Text' = Text
    BY <1>1 DEF Text
  <2>. QED
    BY <1>1, <2>1, <2>2 DEF LikeSnprintf, End
<1>10. RightArguments'
  BY <1>1 DEF FormatIInv, RightArguments, Plain
<1>. QED
  BY <1>3, <1>4, <1>7, <1>8, <1>9, <1>10 DEF FormatIInv

LEMMA FormatStutters ==
  ASSUME FormatIInv, UNCHANGED formatVars
  PROVE  FormatIInv'
<1>1. UNCHANGED <<fmt, base, object, size, capacity, at, arg, used, d, taken, state>>
  BY DEF formatVars, call
<1>2. InCall' /\ InStep' /\ InPlace'
  BY <1>1 DEF FormatIInv, InCall, InStep, InPlace, Fits
<1>3. TextSoFar' /\ WordsSoFar'
  BY <1>1 DEF FormatIInv, TextSoFar, WordsSoFar, Plain
<1>4. LikeSnprintf'
  BY <1>1 DEF FormatIInv, LikeSnprintf, Text
<1>5. RightArguments'
  BY <1>1 DEF FormatIInv, RightArguments, Plain
<1>. QED
  BY <1>2, <1>3, <1>4, <1>5 DEF FormatIInv

LEMMA FormatSuffices == FormatIInv => FormatInv
<1>. SUFFICES ASSUME FormatIInv PROVE FormatInv
  OBVIOUS
<1>1. FormatTypeOK
  BY DEF FormatIInv, InCall, InStep, InPlace, FormatTypeOK
<1>2. InsideObject
  <2>1. object \in Nat /\ capacity \in Nat
    BY FormattingAssumption DEF FormatIInv, InCall
  <2>2. ASSUME size # Unknown, NEW p \in DOMAIN d PROVE p < object
    <3>1. p \in Nat /\ p < capacity /\ capacity <= object
      BY <2>2 DEF FormatIInv, InCall, InPlace
    <3>. QED
      BY <2>1, <3>1
  <2>. QED
    BY <2>2 DEF InsideObject
<1>. QED
  BY <1>1, <1>2 DEF FormatIInv, FormatInv

(* The formatting writes inside the object, and the text C99 asks for,     *)
(* from the arguments the caller passed, for every format and every size   *)
(* (android_vformat with bounds_or_abort).                                 *)
THEOREM FormatInOrder == FormatSpec => []FormatInv
<1>1. FormatIInv /\ [FormatNext]_formatVars => FormatIInv'
  BY CallsBegin, ConvertKeeps, FailKeeps, ReturnKeeps, FormatStutters DEF FormatNext, FormatStep
<1>. QED
  BY <1>1, FormatStarts, FormatSuffices, PTL DEF FormatSpec
=============================================================================
