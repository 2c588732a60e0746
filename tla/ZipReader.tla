----------------------------- MODULE ZipReader ------------------------------
(***************************************************************************)
(* Extracting the demo assets: the package's directory is walked record by *)
(* record through one file handle, which is sent off to each entry's data  *)
(* and back; any read, allocation or write may fail, and the extraction    *)
(* is tried again at the next launch.  A name is a row of segments.        *)
(***************************************************************************)
EXTENDS Integers, Sequences, FiniteSets

CONSTANTS
  Packages,        (* what the APK may hold: records [entries, end], the   *)
                   (* entries in the order of the directory; "fits" is for *)
                   (* the length and the characters of a name              *)
  Disks            (* what may lie at the entries' paths                   *)

Record ==
  [asset : BOOLEAN, directory : BOOLEAN, inLimits : BOOLEAN, fits : BOOLEAN, local : BOOLEAN,
   method : Nat, good : BOOLEAN, path : Seq(STRING), size : Nat]
ASSUME ZipAssumption ==
  /\ Packages \subseteq [entries : Seq(Record), end : {"found", "misled", "missing"}]
  /\ \A d \in Disks :
       /\ \A path \in DOMAIN d : d[path].what \in {"absent", "user"}
       /\ \A p \in Packages : \A k \in DOMAIN p.entries : p.entries[k].path \in DOMAIN d

VARIABLES
  package,
  disk,            (* path -> [what, entry, size]: "absent", "user" for a  *)
                   (* file that was there, "part" or "entry" for one that  *)
                   (* was written from an entry                            *)
  marker,
  pc, index,
  where,           (* where the handle stands: <<area, entry>>             *)
  zipOpen, held,   (* the handle is open; the memory that is allocated     *)
  result,
  crashed          (* bound: one launch is cut short                       *)

zipVars == <<package, disk, marker, pc, index, where, zipOpen, held, result, crashed>>

Nowhere == <<"nowhere", 0>>
ZipInit ==
  /\ package \in Packages /\ disk \in Disks
  /\ marker = FALSE
  /\ pc = "begin" /\ index = 1 /\ where = Nowhere
  /\ zipOpen = FALSE /\ held = {} /\ result = 0 /\ crashed = FALSE

Entry == package.entries[index]
Returns(r) == pc' = "done" /\ result' = r
Stays == UNCHANGED <<package, disk, marker>>

(* The ways out: what is freed there, and the handle closed.               *)
Fail ==
  /\ Returns(-1) /\ zipOpen' = FALSE /\ held' = {}
  /\ UNCHANGED <<package, marker, index, where>>

-----------------------------------------------------------------------------
AlreadyDone ==
  /\ pc = "begin" /\ marker
  /\ Returns(0)
  /\ Stays /\ UNCHANGED <<index, where, zipOpen, held>>

(* The end record is looked for from the back; what looks like one in the  *)
(* package's comment may lead anywhere.                                    *)
Locate ==
  /\ pc = "begin" /\ ~marker
  /\ package.end # "missing"
  /\ zipOpen' = TRUE /\ index' = 1 /\ pc' = "central"
  /\ where' = IF package.end = "found" THEN <<"central", 1>> ELSE Nowhere
  /\ Stays /\ UNCHANGED <<held, result>>
LocateFails == pc = "begin" /\ ~marker /\ Fail /\ UNCHANGED disk

AtEntry == pc = "central" /\ index <= Len(package.entries)

(* A record of the directory, its name, and over the rest of it to the     *)
(* next.  Only some of the checks stand here; those of the name follow.    *)
CentralFails == AtEntry /\ Fail /\ UNCHANGED disk
ReadCentral ==
  /\ AtEntry /\ where = <<"central", index>>
  /\ Entry.inLimits
  /\ held' = {"name"}
  /\ where' = <<"central", index + 1>>
  /\ pc' = "filter"
  /\ Stays /\ UNCHANGED <<index, zipOpen, result>>

(* unsafe_relative_path: no segment is empty, ".", or "..".                *)
Unsafe(path) == path = <<>> \/ \E k \in DOMAIN path : path[k] \in {"", ".", ".."}

Wanted == Entry.asset /\ ~Entry.directory
(* existing_size_matches; the mutant asks only whether the file exists.    *)
MatchesAny == disk[Entry.path].what # "absent"
Matches == disk[Entry.path].what # "absent" /\ disk[Entry.path].size = Entry.size

Continue ==
  /\ pc' = "central" /\ index' = index + 1 /\ held' = {}
  /\ UNCHANGED <<zipOpen, result>>

(* Neither an entry that is not wanted nor one that is there in its size   *)
(* moves the handle.                                                       *)
PassOver ==
  /\ pc = "filter"
  /\ \/ ~Wanted
     \/ Wanted /\ ~Unsafe(Entry.path) /\ Entry.fits /\ Matches
  /\ Continue
  /\ Stays /\ UNCHANGED where

RefuseName ==
  /\ pc = "filter" /\ Wanted /\ (Unsafe(Entry.path) \/ ~Entry.fits)
  /\ Fail /\ UNCHANGED disk

(* The local record and the data behind it.                                *)
ToData == pc = "filter" /\ Wanted /\ ~Unsafe(Entry.path) /\ Entry.fits /\ ~Matches
LocalFails == ToData /\ Fail /\ UNCHANGED disk
ReadData ==
  /\ ToData /\ Entry.local
  /\ where' = <<"local", index>>
  /\ held' = {"name", "compressed", "output"}
  /\ pc' = "decode"
  /\ Stays /\ UNCHANGED <<index, zipOpen, result>>

(* Stored or deflated; its length and its checksum must be right.          *)
Decodes == Entry.method \in {0, 8} /\ Entry.good
DecodeFails == pc = "decode" /\ Fail /\ UNCHANGED disk

(* What a write leaves that is cut short: fewer bytes than there were.     *)
Part(n) == [what |-> "part", entry |-> index, size |-> n]
CutShort == {[disk EXCEPT ![Entry.path] = Part(n)] : n \in 0 .. Entry.size - 1}

(* A write that fails leaves a part; one that could not open the file      *)
(* leaves what DecodeFails does.                                           *)
WriteFails ==
  /\ pc = "decode" /\ Decodes
  /\ disk' \in CutShort
  /\ Fail

(* The handle goes back to the directory.                                  *)
Whole == [what |-> "entry", entry |-> index, size |-> Entry.size]
Extract ==
  /\ pc = "decode" /\ Decodes
  /\ disk' = [disk EXCEPT ![Entry.path] = Whole]
  /\ where' = <<"central", index + 1>>
  /\ Continue
  /\ UNCHANGED <<package, marker>>

Finished == pc = "central" /\ index > Len(package.entries)
(* The marker may be there although its text could not be written.         *)
MarkerFails ==
  /\ Finished
  /\ zipOpen' = FALSE /\ Returns(-1) /\ marker' \in BOOLEAN
  /\ UNCHANGED <<package, disk, index, where, held>>
Mark ==
  /\ Finished
  /\ zipOpen' = FALSE /\ Returns(0) /\ marker' = TRUE
  /\ UNCHANGED <<package, disk, index, where, held>>

(* The next launch, after this one has returned or was cut short.          *)
Launch(d) ==
  /\ disk' = d
  /\ pc' = "begin" /\ zipOpen' = FALSE /\ held' = {} /\ index' = 1 /\ where' = Nowhere /\ result' = 0
  /\ UNCHANGED <<package, marker>>
Relaunch == pc = "done" /\ Launch(disk) /\ UNCHANGED crashed
Crash ==
  /\ pc = "decode" /\ Decodes /\ ~crashed
  /\ \E d \in CutShort : Launch(d)
  /\ crashed' = TRUE

ZipStep ==
  /\ \/ AlreadyDone \/ Locate \/ LocateFails \/ CentralFails \/ ReadCentral
     \/ PassOver \/ RefuseName \/ LocalFails \/ ReadData
     \/ DecodeFails \/ WriteFails \/ Extract \/ MarkerFails \/ Mark
  /\ UNCHANGED crashed
ZipNext == ZipStep \/ Relaunch \/ Crash

ZipSpec == ZipInit /\ [][ZipNext]_zipVars

-----------------------------------------------------------------------------
(* Memory is held between a record's name and its end only, and the handle *)
(* is open between.                                                        *)
ZipTypeOK ==
  /\ pc \in {"begin", "central", "filter", "decode", "done"}
  /\ zipOpen = (pc \in {"central", "filter", "decode"})
  /\ held = CASE pc = "filter" -> {"name"}
              [] pc = "decode" -> {"name", "compressed", "output"}
              [] OTHER -> {}

(* Whenever a record is read, the handle stands at the record the loop is  *)
(* at, unless it never found the directory.                                *)
OnTrack == AtEntry /\ package.end = "found" => where = <<"central", index>>

(* A file on the disk was put there by a whole entry of that name that was *)
(* wanted and good, or was there before; and no file lies outside the      *)
(* destination: no prefix of its path climbs over it.                      *)
Depth(path) ==
  Cardinality({k \in DOMAIN path : path[k] \notin {"", ".", ".."}})
    - Cardinality({k \in DOMAIN path : path[k] = ".."})
FilesAreTheirEntries ==
  \A path \in DOMAIN disk : disk[path].what = "entry" =>
    LET e == package.entries[disk[path].entry] IN
    /\ e.path = path /\ e.asset /\ ~e.directory /\ e.good
    /\ path # <<>> /\ path[1] # "" /\ \A k \in 1..Len(path) : Depth(SubSeq(path, 1, k)) > 0

(* Once the marker is there, so is every asset, in its whole size: a part  *)
(* that an earlier launch left is never taken for the file.                *)
MarkerVouches ==
  marker => \A k \in DOMAIN package.entries :
    LET e == package.entries[k] IN
    e.asset /\ ~e.directory =>
      /\ disk[e.path].what \in {"user", "entry"}
      /\ \E j \in DOMAIN package.entries :
           package.entries[j].path = e.path /\ package.entries[j].size = disk[e.path].size

(* The extraction keeps its place in the package, makes no file that is    *)
(* not an entry under the root, and vouches for whole files only.          *)
ZipInv ==
  /\ ZipTypeOK
  /\ OnTrack
  /\ FilesAreTheirEntries
  /\ MarkerVouches
=============================================================================
