----------------------------- MODULE PathPolicy -----------------------------
(***************************************************************************)
(* caustic_map_path (src/reimpl/path_policy.c).  A path is the sequence of *)
(* its segments: what stands between the slashes, so that "/a" is          *)
(* <<"", "a">>, "a/" is <<"a", "">> and the empty string is <<"">>.        *)
(* Lengths are counted in segments.                                        *)
(***************************************************************************)
EXTENDS Naturals, Sequences

CONSTANTS
  Segment,         (* the strings without a slash                          *)
  WithColon,       (* those with a colon, which name a volume              *)
  AppVolume,       (* those that begin with "app0:"                        *)
  UxVolume,        (* those that begin with "ux0:"                         *)
  OutputSize       (* the size of the output buffer                        *)

Parent == ".."
DataRoot == <<"ux0:", "data", "CAUSTIC3">>
Storage == <<"", "storage", "emulated", "0">>
Card == <<"", "sdcard">>

ASSUME PathAssumption ==
  /\ {"", Parent, "ux0:", "data", "CAUSTIC3", "storage", "emulated", "0", "sdcard"} \subseteq Segment
  /\ AppVolume \cup UxVolume \subseteq WithColon /\ WithColon \subseteq Segment
  /\ AppVolume \cap UxVolume = {}
  /\ "ux0:" \in UxVolume
  /\ {"", Parent, "data", "CAUSTIC3", "storage", "emulated", "0", "sdcard"} \cap WithColon = {}
  /\ OutputSize \in Nat

Path == {p \in Seq(Segment) : p # <<>>}

-----------------------------------------------------------------------------
(* starts_with, for a prefix that ends in a slash: something follows it,   *)
(* be it the empty segment.                                                *)
StartsWith(p, prefix) ==
  /\ Len(p) > Len(prefix)
  /\ \A i \in 1..Len(prefix) : p[i] = prefix[i]

(* A parent segment anywhere in the path.                                  *)
HasParentSegment(p) == \E i \in 1..Len(p) : p[i] = Parent

(* The data root itself, without its slash, counts; "CAUSTIC3evil" does    *)
(* not.                                                                    *)
IsDataPath(p) == StartsWith(p, DataRoot) \/ p = DataRoot

Accept(p) == [errno |-> "OK", path |-> p]
Reject(errno) == [errno |-> errno, path |-> <<>>]

(* snprintf into the buffer: what does not fit is rejected, not cut.       *)
CopyChecked(p) == IF Len(p) < OutputSize THEN Accept(p) ELSE Reject("ENAMETOOLONG")

(* input + 20 and input + 8: what follows the prefix, under the root.      *)
JoinDataRoot(p, prefix) == CopyChecked(DataRoot \o SubSeq(p, Len(prefix) + 1, Len(p)))

(* The volumes, in the order of the code.                                  *)
MapVolume(p, write) ==
  CASE p[1] \in AppVolume -> IF write THEN Reject("EROFS") ELSE CopyChecked(p)
    [] p[1] \in UxVolume -> IF IsDataPath(p) THEN CopyChecked(p) ELSE Reject("EACCES")
    [] OTHER -> IF p[1] = "" \/ \E i \in 1..Len(p) : p[i] \in WithColon
                THEN Reject("EACCES")
                ELSE CopyChecked(p)

MapPath(p, write) ==
  IF p = <<"">> THEN Reject("EINVAL")
  ELSE IF HasParentSegment(p) THEN Reject("EACCES")
  ELSE IF StartsWith(p, Storage) THEN JoinDataRoot(p, Storage)
  ELSE IF StartsWith(p, Card) THEN JoinDataRoot(p, Card)
  ELSE MapVolume(p, write)

-----------------------------------------------------------------------------
(* What the policy promises.  No accepted path climbs, and each lies under *)
(* the data root, in the package if it is only read, or is relative.       *)
Relative(p) == p[1] # "" /\ \A i \in 1..Len(p) : p[i] \notin WithColon
Climbs(p) == \E i \in 1..Len(p) : p[i] = Parent
Confined(p, write) ==
  /\ ~Climbs(p)
  /\ IsDataPath(p) \/ Relative(p) \/ (~write /\ p[1] \in AppVolume)
=============================================================================
