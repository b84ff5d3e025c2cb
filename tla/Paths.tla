------------------------------- MODULE Paths -------------------------------
(***************************************************************************)
(* Path mappings (src/internal/pathmap), the placement of the recycle bin  *)
(* as the settings check it (src/internal/api/recyclebin.go) and as the    *)
(* executor checks it (src/internal/executor/fsops.go), and the proof that *)
(* two files differ (src/internal/fileid).                                 *)
(*                                                                         *)
(* An absolute path is the sequence of its elements after normalisation; a *)
(* filesystem is a set of real folders and one symbolic link between       *)
(* folders, whose target may be missing.                                   *)
(***************************************************************************)
EXTENDS Integers, Sequences, FiniteSets, FiniteSetsExt, SequencesExt

CONSTANTS
  Places,           \* [dirs, link, mappings, libraries, dataDir, hidden] at first
  BinChoices,       \* the recycle bins a person may ask for
  LinkTargets,      \* where the link may lead later
  FileCases         \* pairs of files and the mount table they are seen through

VARIABLES
  place,            \* the filesystem and the settings
  binPath,          \* the recycle bin that is set (<<>>: none)
  pair              \* the files that are compared
pathVars == <<place, binPath, pair>>

Path == Seq(STRING)

\* The mount table names that type, and no other, for the device.
mountedAs(x, type) == {m.type : m \in {e \in x.mounts : e.dev = x.a.dev}} = {type}
\* A local filesystem: the kernel's magic number says so, or, for ZFS, which has
\* none that is known, the mount table.
keepsInodes(x) == x.magic \in {"ext4", "xfs", "btrfs", "zfs"} \/ (x.magic = "none" /\ mountedAs(x, "zfs"))

\* Absolute paths, of which the root is a folder and no link; and what is true of files: one that is compared with itself has
\* one size and, on a local filesystem, one inode number (which may be unknown, 0).
ASSUME PathAssumption ==
  /\ \A p \in Places :
       /\ p \in [dirs : SUBSET Path, link : [from : Path, to : Path], mappings : Seq([source : Int, remote : Path, local : Path]),
                libraries : SUBSET [server : Int, location : Path], dataDir : Path, hidden : SUBSET STRING]
       /\ <<>> \in p.dirs /\ p.link.from # <<>>
  /\ BinChoices \subseteq Path /\ LinkTargets \subseteq Path
  /\ \A x \in FileCases :
       /\ IsFiniteSet(x.mounts)
       /\ x.a.physical = x.b.physical => /\ x.a.size = x.b.size
                                         /\ keepsInodes(x) => x.a.ino = x.b.ino \/ 0 \in {x.a.ino, x.b.ino}

-----------------------------------------------------------------------------
(* pathmap.go                                                              *)

\* trimPrefix: whole elements only, "/data" does not cover "/database".
within(p, root) == IsPrefix(root, p)
below(p, root) == IsStrictPrefix(root, p)
rest(p, root) == SubSeq(p, Len(root) + 1, Len(p))

\* New and ToLocal: the longest remote path of the source that covers p wins,
\* the first one of equal length.
coveringMaps(ms, src, p) == {i \in DOMAIN ms : ms[i].source = src /\ within(p, ms[i].remote)}
longest(ms, is) ==
  CHOOSE i \in is : \A j \in is :
    Len(ms[i].remote) > Len(ms[j].remote) \/ (Len(ms[i].remote) = Len(ms[j].remote) /\ i <= j)
Unmapped == <<"?">>
ToLocal(ms, src, p) ==
  LET is == coveringMaps(ms, src, p)
      m == ms[longest(ms, is)]
  IN  IF is = {} THEN Unmapped ELSE m.local \o rest(p, m.remote)

-----------------------------------------------------------------------------
(* What the filesystem answers.                                            *)
real(p) == IF within(p, place.link.from) THEN place.link.to \o rest(p, place.link.from) ELSE p
exists(p) == real(p) \in place.dirs
dangling(p) == p = place.link.from /\ ~exists(p)
\* The longest prefix of p that exists.
existingPrefix(p) == SubSeq(p, 1, Max({n \in 0..Len(p) : exists(SubSeq(p, 1, n))}))

\* resolveExisting and resolveExistingPrefix: the prefix that exists is
\* resolved.  The executor refuses a link to a missing folder on the way.
resolved(p) == real(existingPrefix(p)) \o rest(p, existingPrefix(p))
resolvable(p) == \A n \in 0..Len(p) : ~dangling(SubSeq(p, 1, n))
isFSRoot(p) == p = <<>>

\* resolvedRoots and libraryFolders.
mapLocals == {place.mappings[i].local : i \in DOMAIN place.mappings}
resolvedRoots == {real(l) : l \in {m \in mapLocals : exists(m)}} \ {<<>>}
locals == {ToLocal(place.mappings, l.server, l.location) : l \in place.libraries} \ {Unmapped}
libraryFolders == locals \cup {real(d) : d \in {e \in locals : exists(e)}}

\* Mutated form: only the path as it is written.
validateRecycleBinClean(b) ==
  /\ b # <<>> /\ resolvable(b)
  /\ \A l \in mapLocals \cup locals : ~within(l, b)
  /\ ~within(place.dataDir, b) /\ ~within(b, place.dataDir)

\* validateRecycleBin of the executor.
validateRecycleBin(b) ==
  /\ b # <<>> /\ resolvable(b) /\ ~isFSRoot(resolved(b))
  /\ \A r \in resolvedRoots : ~within(r, resolved(b))
  /\ \A d \in mapLocals \cup libraryFolders : ~within(d, b) /\ ~within(d, resolved(b))
  /\ LET forms == {place.dataDir} \cup (IF exists(place.dataDir) THEN {real(place.dataDir)} ELSE {})
     IN  \A d \in forms, f \in {b, resolved(b)} : ~within(d, f) /\ ~within(f, d)

\* The settings' own check: pathForms, anyWithin, anyWithinVisible.  A bin
\* inside a library must be hidden from it by a dot folder.
pathForms(p) == {p, resolved(p)}
anyWithin(ps, roots) == \E p \in ps, r \in roots : within(p, r)
hidden(seg) == seg \in place.hidden
anyWithinVisible(ps, roots) ==
  \E p \in ps, r \in roots : below(p, r) /\ \A i \in (Len(r) + 1)..Len(p) : ~hidden(p[i])
libraryRoot(l) ==
  LET d == ToLocal(place.mappings, l.server, l.location) IN IF d = Unmapped THEN l.location ELSE d
recycleBinPlacementProblems(b) ==
  \/ \E m \in mapLocals : anyWithin(pathForms(m), pathForms(b))
  \/ \E l \in place.libraries : \/ anyWithin(pathForms(libraryRoot(l)), pathForms(b))
                                \/ anyWithinVisible(pathForms(b), pathForms(libraryRoot(l)))
  \/ anyWithin(pathForms(place.dataDir), pathForms(b))
  \/ anyWithin(pathForms(b), pathForms(place.dataDir))

-----------------------------------------------------------------------------
(* fileid.go                                                               *)
allowlisted == {"ext4", "xfs", "btrfs", "zfs"}

\* agrees: the type the kernel's magic number stands for against the type the
\* mount table names ("none": a number of no known type).
agrees(magic, type) ==
  CASE magic = "ext4" -> type \in {"ext2", "ext3", "ext4"}
    [] magic = "nfs" -> type \in {"nfs", "nfs4"}
    [] magic = "cifs" -> type \in {"cifs", "smb3"}
    [] magic = "fuse" -> type \in {"fuse", "fuseblk", "virtiofs", "fuse.shfs"}
    [] OTHER -> magic = type

\* determine: one type in the mount table for the device, and a magic number
\* that confirms it; ZFS has no number of its own to confirm.
determine(dev) ==
  LET types == {m.type : m \in {e \in pair.mounts : e.dev = dev}}
  IN  /\ pair.mountsRead /\ Cardinality(types) = 1 /\ pair.magic # "error"
      /\ \A t \in types :
           /\ pair.magic # "none" => agrees(pair.magic, t)
           /\ t = "zfs" \/ (t \in allowlisted /\ pair.magic = t)

\* Compare: "same", "distinct" or "unknown".
Compare(a, b) ==
  IF ~a.regular \/ ~b.regular THEN "unknown"
  ELSE IF a.dev = b.dev /\ a.ino # 0 /\ a.ino = b.ino THEN "same"
  ELSE IF a.dev # b.dev \/ ~determine(a.dev) THEN "unknown"
  ELSE IF (a.ino # 0 /\ b.ino # 0) \/ a.size # b.size THEN "distinct"
  ELSE "unknown"

-----------------------------------------------------------------------------
uncompared(c) ==
  [a |-> c.a, b |-> c.b, mounts |-> c.mounts, mountsRead |-> c.mountsRead, magic |-> c.magic, verdict |-> "none"]
PathInit == place \in Places /\ binPath = <<>> /\ pair \in {uncompared(c) : c \in FileCases}

\* The settings are saved with a bin that passes their check.
SaveBin(b) ==
  /\ ~recycleBinPlacementProblems(b) /\ b # binPath /\ binPath' = b
  /\ UNCHANGED <<place, pair>>

\* Later a mapping is edited, or a link leads somewhere else; the bin stays.
EditMapping(i, d) ==
  /\ place.mappings[i].local # d /\ place' = [place EXCEPT !.mappings[i].local = d]
  /\ UNCHANGED <<binPath, pair>>
Relink(t) ==
  /\ place.link.to # t /\ place' = [place EXCEPT !.link.to = t]
  /\ UNCHANGED <<binPath, pair>>

\* The files are compared (a keeper against a file to remove).
CompareFiles ==
  /\ pair.verdict = "none" /\ pair' = [pair EXCEPT !.verdict = Compare(pair.a, pair.b)]
  /\ UNCHANGED <<place, binPath>>

\* The bin that the executor uses is clear: nothing that exists of a mapped
\* folder, a library or the data folder lies in the real folder it stands for
\* whatever links lead there, so that emptying it deletes nothing else; and
\* one that the settings accept is accepted by the executor unless its path
\* is a broken link (validateRecycleBin, recycleBinPlacementProblems).
AcceptedBinIsClear ==
  /\ validateRecycleBin(binPath) =>
       \A d \in mapLocals \cup locals \cup {place.dataDir} : exists(d) => ~within(real(d), resolved(binPath))
  /\ ~recycleBinPlacementProblems(binPath) /\ binPath # <<>> /\ resolvable(binPath)
       /\ resolved(binPath) # <<>> => validateRecycleBin(binPath)

\* Two paths are called different files only if they are: inode numbers count
\* only on a filesystem that is known to keep them (Compare, determine).
DistinctIsProven ==
  pair.verdict = "distinct" => pair.a.physical # pair.b.physical

\* What paths say of folders and files can be relied on.
PathsHold == AcceptedBinIsClear /\ DistinctIsProven
=============================================================================
