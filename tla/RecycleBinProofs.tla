-------------------------- MODULE RecycleBinProofs --------------------------
(***************************************************************************)
(* Proofs about the recycle bin, for any library, removals, number of      *)
(* files, days, failing calls and crashes: moving, rolling back, restoring *)
(* and cleaning implement the promise about files (Custody), and a removal *)
(* that fails reports every part it could not put back.  The specification *)
(* is the one of the whole library: its other parts leave the bin alone.   *)
(***************************************************************************)
EXTENDS Library, FiniteSetTheorems, WellFoundedInduction, TLAPS

-----------------------------------------------------------------------------
(* The inductive invariant.                                                *)

Pair == Locations \X Locations
Moving == {"next", "copying", "copied"}

Statuses == {"queued", "running", "refused", "skipped", "succeeded", "failed", "interrupted"}
ActType == [status : Statuses, ids : Seq(Int), recycle : Seq(Locations), ignored : BOOLEAN]
JobType == [op : {"remove", "restore"}, a : Removal, step : {"planned", "pinned", "deleting"} \cup Moving, day : 1..MaxDay,
            done : Seq(Pair), lost : Seq(Pair), dir : {"forward", "back"}, dst : {<<>>} \cup Pair]

RecycleTypes ==
  /\ disk \in [Locations -> Int] /\ born \in Nat /\ erased \subseteq Int /\ today \in 1..MaxDay
  /\ bin = [set |-> bin.set, problems |-> bin.problems, content |-> bin.content, device |-> bin.device]
  /\ bin.set \in BOOLEAN
  /\ act \in [Removal -> ActType]
  /\ job = NoJob \/ job \in JobType

\* No location holds a file that has not arrived.
Numbered ==
  /\ \A l \in Locations : disk[l] <= born /\ -disk[l] <= born
  /\ \A f \in erased : f <= born

\* A file, and a copy of it, keeps the name of the one path it came from, so
\* it is in the library once at most.
OneHome ==
  \A l, m \in Locations : disk[l] # 0 /\ (disk[l] = disk[m] \/ disk[l] = -disk[m]) => l[2] = m[2]

\* What is in the bin went there on a day that has come.
Dated == \A l \in BinPaths : disk[l] # 0 => l[1] <= today /\ bin.set

\* A move out of the library, and one back.
OutPair(p) == \E s \in Slots : p[1] = Lib(s) /\ p[2] \in BinPaths /\ p[2][2] = s /\ p[2][1] <= today
InPair(p) == OutPair(<<p[2], p[1]>>)
PairOK(op, p) == IF op = "remove" THEN OutPair(p) ELSE InPair(p)

\* The move that comes next, or is under way: the next part, or the last one
\* back.
NextPair(p) ==
  IF job.dir = "back"
  THEN job.done # <<>> /\ p = <<job.done[Len(job.done)][2], job.done[Len(job.done)][1]>>
  ELSE /\ PairOK(job.op, p)
       /\ job.op = "remove" => Len(job.done) < Total /\ p[1] = Lib(PartSlots[job.a][Len(job.done) + 1])

\* The moves of the job at hand: those done, in the order of the parts, and the
\* one under way.
MovesOK ==
  /\ \A k \in DOMAIN job.done : PairOK(job.op, job.done[k])
  /\ job.op = "remove" =>
       \A k \in DOMAIN job.done : k <= Total /\ job.done[k][1] = Lib(PartSlots[job.a][k])
  /\ job.step # "next" => NextPair(job.dst)

\* A copy under way is a copy of what is at its source, or of what the owner
\* removed from there.
CopyOK ==
  /\ job.step = "copying" => /\ disk[job.dst[2]] < 0
                             /\ disk[job.dst[1]] = -disk[job.dst[2]] \/ -disk[job.dst[2]] \in erased
  /\ job.step = "copied" => /\ disk[job.dst[2]] > 0
                            /\ disk[job.dst[1]] = disk[job.dst[2]] \/ disk[job.dst[2]] \in erased

JobOK ==
  /\ job.day <= today
  /\ job.op = "restore" => job.step \in Moving
  /\ (job.dst = <<>>) = (job.step \notin {"copying", "copied"})
  /\ job.step \in {"planned", "pinned"} => job.done = <<>> /\ job.lost = <<>> /\ job.dir = "forward"
  /\ job.step = "deleting" => ~bin.set /\ Len(job.done) < Total
  /\ job.step \in {"pinned"} \cup Moving => bin.set
  /\ job.step \in Moving => MovesOK
  /\ CopyOK
  /\ act[job.a].status = IF job.op = "remove" THEN "running" ELSE "succeeded"
  /\ job.op = "restore" => act[job.a].recycle # <<>>

\* Where the parts of a removal that succeeded are, by its record; one that is
\* not over has recorded nothing.
RecordOK(a) ==
  /\ act[a].status \in {"queued", "running"} => act[a].recycle = <<>>
  /\ act[a].status = "succeeded" /\ act[a].recycle # <<>> =>
       /\ Len(act[a].recycle) = Len(PartSlots[a])
       /\ \A k \in DOMAIN act[a].recycle : OutPair(<<Lib(PartSlots[a][k]), act[a].recycle[k]>>)

\* The bin has what the removal at hand moved there, each part on a name of its
\* own.
PartsHeld ==
  /\ \A j \in DOMAIN job.done : disk[job.done[j][2]] # 0
  /\ \A i, j \in DOMAIN job.done : job.done[i][2] = job.done[j][2] => i = j
  /\ job.step # "next" /\ job.dir = "forward" => \A j \in DOMAIN job.done : job.done[j][2] # job.dst[2]

\* Every part that was planned is in the library or where it was moved, unless
\* its owner took it or it is reported.
PartThere(f) ==
  \/ f \in erased \/ job.lost # <<>>
  \/ \E s \in Slots : disk[Lib(s)] = f
  \/ \E j \in DOMAIN job.done : disk[job.done[j][2]] = f
PartsThere == \A k \in DOMAIN act[job.a].ids : act[job.a].ids[k] > 0 /\ PartThere(act[job.a].ids[k])

RemovalOK ==
  /\ job.step \in Moving => PartsHeld
  /\ bin.set => PartsThere

RecycleInv ==
  /\ RecycleTypes /\ Numbered /\ OneHome /\ Dated
  /\ \A a \in Removal : RecordOK(a)
  /\ job # NoJob => JobOK /\ (job.op = "remove" => RemovalOK)

-----------------------------------------------------------------------------
(* Locations and days.                                                     *)

\* A location is a library path or one in the bin, not both, and says which
\* name it is for.
LEMMA Shapes ==
  /\ \A s \in Slots : Lib(s) \in LibPaths /\ Lib(s) \in Locations /\ Lib(s)[2] = s /\ Lib(s) \notin BinPaths
  /\ \A l \in LibPaths : l[2] \in Slots /\ l = Lib(l[2]) /\ l \in Locations
  /\ \A l \in BinPaths : l[1] \in 1..MaxDay /\ l[2] \in Slots /\ l \in Locations /\ l \notin LibPaths
  /\ \A l \in Locations : l \in LibPaths \/ l \in BinPaths
  <1>1. \A s \in Slots : Lib(s) \in LibPaths /\ Lib(s) \in Locations /\ Lib(s)[2] = s
    BY DEF LibPaths, Locations, Lib
  <1>2. MaxDay \in Nat BY RecycleAssumption
  <1>3. \A s \in Slots : Lib(s) \notin BinPaths
    BY <1>2 DEF Lib, BinPaths
  <1>4. \A l \in LibPaths : l[2] \in Slots /\ l = Lib(l[2])
    BY DEF LibPaths, Lib
  <1>5. \A l \in BinPaths : l[1] \in 1..MaxDay /\ l[2] \in Slots
    BY DEF BinPaths
  <1> QED BY <1>1, <1>3, <1>4, <1>5 DEF Locations

\* The two ends of a move have one name.
LEMMA PairEnds ==
  ASSUME NEW p, OutPair(p) \/ InPair(p)
  PROVE  /\ p[1] \in Locations /\ p[2] \in Locations /\ p[1][2] = p[2][2] /\ p[1] # p[2]
         /\ p[2] \in BinPaths => p[2][1] <= today
         /\ OutPair(p) => p[1] \in LibPaths /\ p[2] \in BinPaths
         /\ InPair(p) => p[1] \in BinPaths /\ p[2] \in LibPaths
  <1>1. ASSUME OutPair(p)
        PROVE  /\ p[1] \in Locations /\ p[2] \in Locations /\ p[1][2] = p[2][2] /\ p[1] # p[2]
               /\ p[2][1] <= today /\ p[1] \in LibPaths /\ p[2] \in BinPaths
    BY <1>1, Shapes DEF OutPair
  <1>2. ASSUME InPair(p)
        PROVE  /\ p[1] \in Locations /\ p[2] \in Locations /\ p[1][2] = p[2][2] /\ p[1] # p[2]
               /\ p[1] \in BinPaths /\ p[2] \in LibPaths /\ p[2] \notin BinPaths
    BY <1>2, Shapes DEF InPair, OutPair
  <1>3. p[1] \in LibPaths => p[1] \notin BinPaths BY Shapes
  <1> QED BY <1>1, <1>2, <1>3

\* A set of days has a last one.
LEMMA LastDay ==
  ASSUME NEW n \in Nat, NEW D, D \subseteq 1..n, D # {}
  PROVE  Max(D) \in D /\ \A d \in D : Max(D) >= d
  <1> DEFINE B == {n - d : d \in D}
  <1>1. B \subseteq Nat /\ B # {} OBVIOUS
  <1>2. PICK b \in B : \A c \in B : ~(<<c, b>> \in OpToRel(<, Nat))
    BY <1>1, NatLessThanWellFounded, WFMin
  <1>3. \A c \in B : ~(c < b) BY <1>1, <1>2 DEF OpToRel
  <1>4. PICK m \in D : b = n - m OBVIOUS
  <1>5. \A d \in D : m >= d
    <2> TAKE d \in D
    <2>1. ~(n - d < n - m) BY <1>3, <1>4
    <2> QED BY <2>1
  <1>6. \E x \in D : \A y \in D : x >= y BY <1>5
  <1> HIDE DEF B
  <1> QED BY <1>6, Zenon DEF Max

-----------------------------------------------------------------------------
(* What is on the disk.                                                    *)

\* A location that changes is emptied, or gets a file (or an unfinished copy)
\* of the same name; one in the bin, in a removal or a restore only.
Follows(l, c) ==
  \/ c = 0
  \/ \E m \in Locations : /\ c = disk[m] \/ c = -disk[m]
                          /\ m[2] = l[2]
                          /\ m = l \/ (l \in BinPaths => l[1] <= today /\ bin.set)

\* Every step but an arrival keeps what is known of the disk.
LEMMA DiskKeeps ==
  ASSUME RecycleTypes, Numbered, OneHome, Dated,
         disk' \in [Locations -> Int],
         \A l \in Locations : disk'[l] = disk[l] \/ Follows(l, disk'[l]),
         \A f \in erased' : f <= born,
         born' = born, bin'.set = bin.set, today' \in 1..MaxDay, today <= today'
  PROVE  Numbered' /\ OneHome' /\ Dated'
  <1>1. disk \in [Locations -> Int] /\ born \in Nat /\ today \in 1..MaxDay /\ MaxDay \in Nat
    BY RecycleAssumption DEF RecycleTypes
  <1>2. \A l \in Locations : Follows(l, disk'[l])
    BY DEF Follows
  <1>3. Numbered' BY <1>1, <1>2 DEF Numbered, Follows
  <1>4. OneHome'
    <2> SUFFICES ASSUME NEW l \in Locations, NEW m \in Locations,
                        disk'[l] # 0, disk'[l] = disk'[m] \/ disk'[l] = -disk'[m]
                 PROVE  l[2] = m[2]
      BY DEF OneHome
    <2>1. PICK x \in Locations : (disk'[l] = disk[x] \/ disk'[l] = -disk[x]) /\ x[2] = l[2]
      BY <1>2 DEF Follows
    <2>2. PICK y \in Locations : (disk'[m] = disk[y] \/ disk'[m] = -disk[y]) /\ y[2] = m[2]
      BY <1>1, <1>2 DEF Follows
    <2>3. disk[x] \in Int /\ disk[y] \in Int /\ disk'[l] \in Int /\ disk'[m] \in Int BY <1>1
    <2>4. disk[x] # 0 /\ (disk[x] = disk[y] \/ disk[x] = -disk[y]) BY <2>1, <2>2, <2>3
    <2>5. x[2] = y[2] BY <2>4 DEF OneHome
    <2> QED BY <2>1, <2>2, <2>5
  <1>5. Dated'
    <2> SUFFICES ASSUME NEW l \in BinPaths, disk'[l] # 0 PROVE l[1] <= today' /\ bin'.set
      BY DEF Dated
    <2>1. l \in Locations /\ l[1] \in 1..MaxDay BY Shapes
    <2>2. l[1] <= today /\ bin.set
      <3>1. PICK m \in Locations : /\ disk'[l] = disk[m] \/ disk'[l] = -disk[m]
                                   /\ m = l \/ (l \in BinPaths => l[1] <= today /\ bin.set)
        BY <1>2, <2>1 DEF Follows
      <3>2. CASE m = l
        <4>1. disk[l] # 0 BY <3>1, <3>2, <1>1, <2>1
        <4> QED BY <4>1 DEF Dated
      <3>3. CASE m # l BY <3>1, <3>3
      <3> QED BY <3>2, <3>3
    <2> QED BY <2>1, <2>2, <1>1
  <1> QED BY <1>3, <1>4, <1>5

\* Moving a file to a free location of its name.
LEMMA MovedFollows ==
  ASSUME RecycleTypes, NEW src \in Locations, NEW dst \in Locations, src[2] = dst[2], src # dst,
         dst \in BinPaths => dst[1] <= today /\ bin.set,
         disk' = Moved(disk, src, dst)
  PROVE  /\ disk' \in [Locations -> Int]
         /\ disk'[src] = 0 /\ disk'[dst] = disk[src]
         /\ \A l \in Locations : l # src /\ l # dst => disk'[l] = disk[l]
         /\ \A l \in Locations : disk'[l] = disk[l] \/ Follows(l, disk'[l])
  <1>1. disk \in [Locations -> Int] BY DEF RecycleTypes
  <1>2. /\ disk' \in [Locations -> Int]
        /\ disk'[src] = 0 /\ disk'[dst] = disk[src]
        /\ \A l \in Locations : l # src /\ l # dst => disk'[l] = disk[l]
    BY <1>1 DEF Moved
  <1> QED BY <1>2 DEF Follows

\* Writing one location.
LEMMA PutFollows ==
  ASSUME RecycleTypes, NEW l \in Locations, NEW c \in Int, disk' = Put(disk, l, c), Follows(l, c)
  PROVE  /\ disk' \in [Locations -> Int]
         /\ disk'[l] = c
         /\ \A m \in Locations : m # l => disk'[m] = disk[m]
         /\ \A m \in Locations : disk'[m] = disk[m] \/ Follows(m, disk'[m])
  <1>1. disk \in [Locations -> Int] BY DEF RecycleTypes
  <1>2. /\ disk' \in [Locations -> Int]
        /\ disk'[l] = c
        /\ \A m \in Locations : m # l => disk'[m] = disk[m]
    BY <1>1 DEF Put
  <1> QED BY <1>2

-----------------------------------------------------------------------------
(* The promise: where a file is.                                           *)

Whereabouts == [f \in 1..MaxFiles |-> placeOf(f)]
KeepsPromise == Promise!CustodyNext \/ UNCHANGED <<Whereabouts, today>>

\* A file's place is one of four.
LEMMA Placed ==
  ASSUME NEW f
  PROVE  /\ f > born => placeOf(f) = <<"unborn", 0>>
         /\ ~(f > born) /\ f \in erased => placeOf(f) = <<"gone", 0>>
         /\ ~(f > born) /\ f \notin erased /\ (\E l \in wholeAt(f) : l \in LibPaths) => placeOf(f) = <<"library", 0>>
         /\ ~(f > born) /\ f \notin erased /\ wholeAt(f) \cap LibPaths = {} /\ wholeAt(f) # {}
              => placeOf(f) = <<"bin", Max({l[1] : l \in wholeAt(f)})>>
         /\ ~(f > born) /\ f \notin erased /\ wholeAt(f) = {} => placeOf(f) = <<"gone", 0>>
  BY DEF placeOf

\* The day under which a recycled file is kept is one that has come.
LEMMA BinDay ==
  ASSUME NEW W, W \subseteq BinPaths, W # {}, NEW t \in Nat, \A l \in W : l[1] <= t
  PROVE  LET D == {l[1] : l \in W}
         IN  D \subseteq 1..t /\ Max(D) \in D /\ \A d \in D : Max(D) >= d
  <1> DEFINE D == {l[1] : l \in W}
  <1>1. \A l \in W : l[1] \in 1..MaxDay BY Shapes
  <1>2. MaxDay \in Nat BY RecycleAssumption
  <1>3. D \subseteq 1..t BY <1>1, <1>2
  <1>4. D # {} OBVIOUS
  <1> HIDE DEF D
  <1>5. Max(D) \in D /\ \A d \in D : Max(D) >= d BY <1>3, <1>4, LastDay
  <1> QED BY <1>3, <1>5 DEF D

\* A step that moves no file stutters.
LEMMA NothingMoves ==
  ASSUME born' = born, today' = today,
         \A f \in 1..MaxFiles : (f \in erased') = (f \in erased),
         \A f \in 1..MaxFiles : f \notin erased => wholeAt(f)' = wholeAt(f)
  PROVE  UNCHANGED <<Whereabouts, today>>
  <1>1. \A f \in 1..MaxFiles : placeOf(f)' = placeOf(f)
    BY DEF placeOf
  <1> QED BY <1>1 DEF Whereabouts

\* A step that changes the place of one file changes no other.
LEMMA OneMoves ==
  ASSUME NEW f, today' = today,
         \A g \in 1..MaxFiles : g # f => placeOf(g)' = placeOf(g)
  PROVE  Whereabouts' = [Whereabouts EXCEPT ![f] = placeOf(f)'] /\ (f \notin 1..MaxFiles => Whereabouts' = Whereabouts)
  BY DEF Whereabouts

\* A file that is moved out of the library or back into it is recycled or put
\* back; one that was copied back when the process died is put back too.
LEMMA Relocated ==
  ASSUME RecycleTypes, OneHome, Dated, Dated', today' = today, born' = born, erased' = erased,
         NEW f \in Nat \ {0}, f <= born, f \notin erased,
         NEW p, OutPair(p) \/ InPair(p), p[1] \in wholeAt(f), disk'[p[2]] = f,
         \/ wholeAt(f)' = (wholeAt(f) \ {p[1]}) \cup {p[2]}
         \/ InPair(p) /\ wholeAt(f)' = wholeAt(f) \cup {p[2]},
         \A g \in 1..MaxFiles : g # f => wholeAt(g)' = wholeAt(g)
  PROVE  KeepsPromise
  <1>1. \A g \in 1..MaxFiles : g # f => placeOf(g)' = placeOf(g)
    BY DEF placeOf
  <1>2. Whereabouts' = [Whereabouts EXCEPT ![f] = placeOf(f)'] /\ (f \notin 1..MaxFiles => Whereabouts' = Whereabouts)
    BY <1>1, OneMoves
  <1>3. CASE f \notin 1..MaxFiles BY <1>2, <1>3 DEF KeepsPromise
  <1>4. born \in Nat /\ ~(f > born) /\ today \in Nat BY RecycleAssumption DEF RecycleTypes
  <1>5. \A l \in wholeAt(f) : l \in Locations /\ disk[l] = f BY DEF wholeAt
  <1>6. \A l \in wholeAt(f)' : l \in Locations /\ disk'[l] = f BY DEF wholeAt
  <1>7. CASE f \in 1..MaxFiles /\ OutPair(p)
    <2>1. p[1] \in LibPaths /\ p[2] \in BinPaths /\ p[2][1] <= today BY <1>7, PairEnds
    <2>2. placeOf(f) = <<"library", 0>> BY <2>1, <1>4, Placed
    <2>3. ~InPair(p) BY <2>1, PairEnds, Shapes
    <2>4. wholeAt(f)' \cap LibPaths = {}
      <3> SUFFICES ASSUME NEW l \in wholeAt(f), l # p[1], l \in LibPaths PROVE FALSE
        BY <2>1, <2>3, Shapes
      <3>1. l[2] = p[1][2] BY <1>5 DEF OneHome
      <3> QED BY <3>1, <2>1, Shapes
    <2>5. wholeAt(f)' \subseteq BinPaths /\ wholeAt(f)' # {} BY <2>3, <2>4, <1>6, Shapes
    <2>6. \A l \in wholeAt(f)' : l[1] <= today
      BY <2>5, <1>6 DEF Dated
    <2> DEFINE W == wholeAt(f)'
               d == Max({l[1] : l \in W})
    <2>7. d \in 1..today
      <3> HIDE DEF W
      <3>1. W \subseteq BinPaths /\ W # {} /\ \A l \in W : l[1] <= today BY <2>5, <2>6 DEF W
      <3> QED BY <3>1, <1>4, BinDay
    <2>8. placeOf(f)' = <<"bin", d>> BY <2>4, <2>5, <1>4 DEF placeOf
    <2> HIDE DEF d
    <2>9. \E e \in 1..today : Whereabouts[f] = Promise!InLibrary /\ Whereabouts' = [Whereabouts EXCEPT ![f] = Promise!Recycled(e)]
      BY <2>2, <2>7, <2>8, <1>2, <1>7 DEF Whereabouts, Promise!InLibrary, Promise!Recycled
    <2> QED BY <2>9, <1>7 DEF KeepsPromise, Promise!CustodyNext, Promise!Recycle, Whereabouts
  <1>8. CASE f \in 1..MaxFiles /\ InPair(p)
    <2>1. p[1] \in BinPaths /\ p[2] \in LibPaths BY <1>8, PairEnds
    <2>2. placeOf(f)' = <<"library", 0>> BY <2>1, <1>4 DEF placeOf
    <2>3. CASE \E l \in wholeAt(f) : l \in LibPaths
      <3>1. placeOf(f) = <<"library", 0>> BY <2>3, <1>4, Placed
      <3>2. Whereabouts' = Whereabouts BY <3>1, <2>2, <1>2, <1>8 DEF Whereabouts
      <3> QED BY <3>2 DEF KeepsPromise
    <2>4. CASE wholeAt(f) \cap LibPaths = {}
      <3> DEFINE d == Max({l[1] : l \in wholeAt(f)})
      <3>0. placeOf(f) = <<"bin", d>> BY <2>4, <1>4, Placed
      <3> HIDE DEF d
      <3>1. placeOf(f)[1] = "bin" BY <3>0
      <3>2. Whereabouts[f][1] = "bin" /\ Whereabouts' = [Whereabouts EXCEPT ![f] = Promise!InLibrary]
        BY <3>1, <2>2, <1>2, <1>8 DEF Whereabouts, Promise!InLibrary
      <3> QED BY <3>2, <1>8 DEF KeepsPromise, Promise!CustodyNext, Promise!PutBack, Whereabouts
    <2> QED BY <2>3, <2>4
  <1> QED BY <1>3, <1>7, <1>8

\* A file that its owner, or a removal without a bin, takes from the library.
LEMMA Leaves ==
  ASSUME today' = today, NEW f \in 1..MaxFiles,
         placeOf(f) = <<"library", 0>>, placeOf(f)' = <<"gone", 0>>,
         \A g \in 1..MaxFiles : g # f => placeOf(g)' = placeOf(g)
  PROVE  KeepsPromise
  <1>1. Whereabouts' = [Whereabouts EXCEPT ![f] = placeOf(f)'] BY OneMoves
  <1>2. Whereabouts[f] = Promise!InLibrary /\ Whereabouts' = [Whereabouts EXCEPT ![f] = Promise!Gone]
    BY <1>1 DEF Whereabouts, Promise!InLibrary, Promise!Gone
  <1> QED BY <1>2 DEF KeepsPromise, Promise!CustodyNext, Promise!Leave, Whereabouts

-----------------------------------------------------------------------------
(* Steps that touch no file.                                               *)

\* Nothing is being written but by a copy under way.
LEMMA NotWriting ==
  ASSUME RecycleInv, job = NoJob \/ job.step \notin {"copying", "copied"}, NEW l
  PROVE  ~beingWritten(l)
  BY DEF RecycleInv, JobOK, beingWritten, NoJob

\* A step that touches neither a file nor a copy stutters.
LEMMA SameDisk ==
  ASSUME RecycleInv, UNCHANGED <<disk, born, erased, today>>, bin'.set = bin.set,
         \A l : beingWritten(l)' = beingWritten(l)
  PROVE  KeepsPromise /\ Numbered' /\ OneHome' /\ Dated'
  <1>1. \A f : wholeAt(f)' = wholeAt(f) BY DEF wholeAt
  <1>2. UNCHANGED <<Whereabouts, today>> BY <1>1, NothingMoves
  <1>3. Numbered' /\ OneHome' /\ Dated'
    BY DiskKeeps DEF RecycleInv, RecycleTypes, Numbered
  <1> QED BY <1>2, <1>3 DEF KeepsPromise

\* A record that is only marked otherwise, not as a success, or loses its paths,
\* is as sound as before.
LEMMA RecordsKeep ==
  ASSUME RecycleInv, today <= today', today' \in 1..MaxDay, NEW a \in Removal, act' \in [Removal -> ActType],
         \A b \in Removal : b # a => act'[b] = act[b],
         act'[a] = act[a] \/ act'[a].status \notin {"queued", "running", "succeeded"} \/ act'[a].recycle = <<>>
  PROVE  \A b \in Removal : RecordOK(b)'
  <1>1. today \in 1..MaxDay /\ MaxDay \in Nat BY RecycleAssumption DEF RecycleInv, RecycleTypes
  <1>2. \A p : OutPair(p) => OutPair(p)'
    <2> SUFFICES ASSUME NEW p, OutPair(p) PROVE OutPair(p)' OBVIOUS
    <2>1. p[2] \in BinPaths /\ p[2][1] <= today /\ p[2][1] \in 1..MaxDay BY Shapes DEF OutPair
    <2>2. p[2][1] <= today' BY <2>1, <1>1
    <2> QED BY <2>2 DEF OutPair
  <1> TAKE b \in Removal
  <1>3. RecordOK(b) BY DEF RecycleInv
  <1>4. CASE act'[b] = act[b] BY <1>2, <1>3, <1>4 DEF RecordOK
  <1>5. CASE act'[b] # act[b] BY <1>5 DEF RecordOK
  <1> QED BY <1>4, <1>5

\* Marking a removal changes its record alone.
LEMMA Marked ==
  ASSUME act \in [Removal -> ActType], NEW a \in Removal, NEW st \in Statuses, act' = [act EXCEPT ![a].status = st]
  PROVE  /\ act' \in [Removal -> ActType] /\ act'[a].status = st
         /\ act'[a].ids = act[a].ids /\ act'[a].recycle = act[a].recycle
         /\ \A b \in Removal : b # a => act'[b] = act[b]
  <1> DEFINE x == [act[a] EXCEPT !.status = st]
  <1>1. x \in ActType /\ x.status = st /\ x.ids = act[a].ids /\ x.recycle = act[a].recycle BY DEF ActType, Statuses
  <1>2. act' = [act EXCEPT ![a] = x] OBVIOUS
  <1> HIDE DEF x
  <1> QED BY <1>1, <1>2

\* The plan of a removal: every part is where the plan says.
LEMMA PlanKeeps ==
  ASSUME RecycleInv, NEW a \in Removal, PlanRemoval(a)
  PROVE  RecycleInv' /\ KeepsPromise
  <1> DEFINE ids == [k \in DOMAIN PartSlots[a] |-> disk[Lib(PartSlots[a][k])]]
             r == [op |-> "remove", a |-> a, step |-> "planned", day |-> today, done |-> <<>>, lost |-> <<>>,
                   dir |-> "forward", dst |-> <<>>]
  <1>1. RecycleTypes /\ job = NoJob BY DEF RecycleInv, PlanRemoval
  <1>2. PartSlots[a] \in Seq(Slots) BY RecycleAssumption
  <1>3. \A k \in DOMAIN PartSlots[a] : PartSlots[a][k] \in Slots BY <1>2
  <1>4. ids \in Seq(Int) /\ \A k \in DOMAIN ids : ids[k] > 0 /\ \E s \in Slots : disk[Lib(s)] = ids[k]
    <2>1. \A k \in DOMAIN PartSlots[a] : disk[Lib(PartSlots[a][k])] \in Int
      BY <1>1, <1>3, Shapes DEF RecycleTypes
    <2>2. \A k \in DOMAIN PartSlots[a] : disk[Lib(PartSlots[a][k])] > 0
      BY DEF PlanRemoval, fsChoice, partUsable, entryUsable
    <2>3. ids \in Seq(Int) BY <1>2, <2>1
    <2> QED BY <2>2, <2>3, <1>3
  <1>5. act' = [act EXCEPT ![a].status = "running", ![a].ids = ids] /\ job' = r
        /\ UNCHANGED <<disk, born, erased, today, bin>>
    BY DEF PlanRemoval
  <1> HIDE DEF ids
  <1>6. act' \in [Removal -> ActType] /\ act'[a].status = "running" /\ act'[a].ids = ids /\ act'[a].recycle = <<>>
        /\ \A b \in Removal : b # a => act'[b] = act[b]
    <2> DEFINE y == [act[a] EXCEPT !.status = "running"]
               x == [y EXCEPT !.ids = ids]
    <2>1. act[a] \in ActType /\ act \in [Removal -> ActType] BY <1>1 DEF RecycleTypes
    <2>0. act[a].recycle = <<>> BY DEF RecycleInv, RecordOK, PlanRemoval
    <2>2. y \in ActType /\ y.status = "running" /\ y.recycle = <<>> BY <2>0, <2>1 DEF ActType, Statuses
    <2>3. act' = [act EXCEPT ![a] = x] BY <1>5
    <2> HIDE DEF y
    <2>4. x \in ActType /\ x.status = "running" /\ x.ids = ids /\ x.recycle = <<>> BY <2>2, <1>4 DEF ActType
    <2> HIDE DEF x
    <2> QED BY <2>1, <2>3, <2>4
  <1>7. job' \in JobType /\ job' # NoJob
    BY <1>1, <1>5 DEF JobType, NoJob, RecycleTypes
  <1>8. \A l : beingWritten(l)' = beingWritten(l)
    BY <1>1, <1>5, NotWriting DEF beingWritten
  <1>9. KeepsPromise /\ Numbered' /\ OneHome' /\ Dated' BY <1>5, <1>8, SameDisk
  <1>10. \A b \in Removal : RecordOK(b)'
    <2>1. today' \in 1..MaxDay /\ today <= today' BY <1>1, <1>5, RecycleAssumption DEF RecycleTypes
    <2>2. act'[a].recycle = <<>> BY <1>6
    <2> QED BY <2>1, <2>2, <1>6, RecordsKeep
  <1>11. JobOK'
    <2>1. today \in Nat BY <1>1, RecycleAssumption DEF RecycleTypes
    <2> QED BY <2>1, <1>5, <1>6 DEF JobOK, CopyOK, Moving
  <1>12. RemovalOK' BY <1>4, <1>5, <1>6 DEF RemovalOK, PartsThere, PartThere, Moving
  <1>13. RecycleTypes' BY <1>1, <1>5, <1>6, <1>7 DEF RecycleTypes
  <1> QED BY <1>9, <1>10, <1>11, <1>12, <1>13 DEF RecycleInv

\* A removal no method fits is refused.
LEMMA RefuseKeeps ==
  ASSUME RecycleInv, NEW a \in Removal, RefuseRemoval(a)
  PROVE  RecycleInv' /\ KeepsPromise
  <1>1. RecycleTypes /\ job = NoJob BY DEF RecycleInv, RefuseRemoval
  <1>2. act' = [act EXCEPT ![a].status = "refused"] /\ UNCHANGED <<disk, born, erased, today, bin, job>>
    BY DEF RefuseRemoval
  <1>3. act' \in [Removal -> ActType] /\ act'[a].status = "refused" /\ \A b \in Removal : b # a => act'[b] = act[b]
    <2>1. act \in [Removal -> ActType] /\ "refused" \in Statuses BY <1>1 DEF RecycleTypes, Statuses
    <2> QED BY <2>1, <1>2, Marked
  <1>4. KeepsPromise /\ Numbered' /\ OneHome' /\ Dated' BY <1>2, SameDisk DEF beingWritten
  <1>5. \A b \in Removal : RecordOK(b)'
    <2>1. today' \in 1..MaxDay /\ today <= today' BY <1>1, <1>2, RecycleAssumption DEF RecycleTypes
    <2>2. act'[a].status \notin {"queued", "running", "succeeded"} BY <1>3
    <2> QED BY <2>1, <2>2, <1>3, RecordsKeep
  <1>6. RecycleTypes' BY <1>1, <1>2, <1>3 DEF RecycleTypes
  <1> QED BY <1>1, <1>2, <1>4, <1>5, <1>6 DEF RecycleInv

\* A removal that is over keeps what is known, whatever becomes of its record,
\* unless it succeeded with recorded paths.
LEMMA OverKeeps ==
  ASSUME RecycleInv, job # NoJob, job.step \notin {"copying", "copied"}, job' = NoJob,
         UNCHANGED <<disk, born, erased, today>>, bin' = [bin EXCEPT !.content = bin'.content],
         act' \in [Removal -> ActType],
         \A b \in Removal : b # job.a => act'[b] = act[b],
         act'[job.a] = act[job.a] \/ act'[job.a].status \notin {"queued", "running", "succeeded"} \/ act'[job.a].recycle = <<>>
  PROVE  RecycleInv' /\ KeepsPromise
  <1>1. RecycleTypes /\ job \in JobType BY DEF RecycleInv, RecycleTypes
  <1>2. bin'.set = bin.set /\ bin' = [set |-> bin'.set, problems |-> bin'.problems, content |-> bin'.content, device |-> bin'.device]
    BY <1>1 DEF RecycleTypes
  <1>3. \A l : beingWritten(l)' = beingWritten(l) BY NotWriting DEF beingWritten, NoJob
  <1>4. KeepsPromise /\ Numbered' /\ OneHome' /\ Dated' BY <1>2, <1>3, SameDisk
  <1>5. \A b \in Removal : RecordOK(b)'
    <2>1. today' \in 1..MaxDay /\ today <= today' BY <1>1, RecycleAssumption DEF RecycleTypes
    <2>2. job.a \in Removal BY <1>1 DEF JobType
    <2> QED BY <2>1, <2>2, RecordsKeep
  <1>6. RecycleTypes' BY <1>1, <1>2 DEF RecycleTypes
  <1> QED BY <1>4, <1>5, <1>6 DEF RecycleInv

-----------------------------------------------------------------------------
(* The job at hand.                                                        *)

\* What a running job is.
LEMMA JobShape ==
  ASSUME RecycleInv, job # NoJob
  PROVE  /\ job \in JobType /\ job.op \in {"remove", "restore"} /\ job.a \in Removal /\ act[job.a] \in ActType
         /\ job.step \in {"planned", "pinned", "deleting"} \cup Moving
         /\ job.done \in Seq(Pair) /\ job.lost \in Seq(Pair) /\ job.dir \in {"forward", "back"} /\ job.day \in 1..MaxDay
         /\ PartSlots[job.a] \in Seq(Slots) /\ PartSlots[job.a] # <<>>
         /\ JobOK /\ (job.op = "remove" => RemovalOK)
  <1>1. job \in JobType /\ act \in [Removal -> ActType] BY DEF RecycleInv, RecycleTypes
  <1>2. job.a \in Removal BY <1>1 DEF JobType
  <1>3. PartSlots[job.a] \in Seq(Slots) /\ PartSlots[job.a] # <<>> BY <1>2, RecycleAssumption
  <1> QED BY <1>1, <1>2, <1>3 DEF RecycleInv, JobType

\* A sequence without its last element.
LEMMA FrontOf ==
  ASSUME NEW S, NEW q \in Seq(S), q # <<>>
  PROVE  /\ Front(q) \in Seq(S) /\ Len(Front(q)) = Len(q) - 1 /\ q[Len(q)] \in S
         /\ \A k \in DOMAIN Front(q) : k \in DOMAIN q /\ k # Len(q) /\ Front(q)[k] = q[k]
         /\ \A k \in DOMAIN q : k = Len(q) \/ (k \in DOMAIN Front(q) /\ Front(q)[k] = q[k])
  <1> DEFINE n == Len(q)
  <1>1. n \in Nat \ {0} /\ DOMAIN q = 1..n /\ \A k \in 1..n : q[k] \in S OBVIOUS
  <1>2. Front(q) \in Seq(S) /\ Len(Front(q)) = n - 1 /\ \A k \in 1..(n - 1) : Front(q)[k] = q[k]
    BY <1>1 DEF Front
  <1>3. DOMAIN Front(q) = 1..(n - 1) BY <1>2
  <1> HIDE DEF n
  <1>4. /\ \A k \in 1..(n - 1) : k \in 1..n /\ k # n
        /\ \A k \in 1..n : k = n \/ k \in 1..(n - 1)
        /\ n \in 1..n
    BY <1>1
  <1>5. q[n] \in S BY <1>1, <1>4
  <1> QED BY <1>1, <1>2, <1>3, <1>4, <1>5 DEF n

\* A failed move turns the job around; on the way back it is reported.
LEMMA FailingShape ==
  ASSUME job \in JobType, job.dir = "back" => job.done # <<>>, job' = Failing
  PROVE  /\ job' \in JobType /\ job' # NoJob
         /\ job'.op = job.op /\ job'.a = job.a /\ job'.day = job.day /\ job'.step = "next" /\ job'.dir = "back"
         /\ job'.dst = <<>>
         /\ job.dir = "forward" => job'.done = job.done /\ job'.lost = job.lost
         /\ job.dir = "back" => job'.done = Front(job.done) /\ job'.lost # <<>>
  <1>1. job.dir \in {"forward", "back"} /\ job.done \in Seq(Pair) /\ job.lost \in Seq(Pair) BY DEF JobType
  <1>2. CASE job.dir = "forward"
    <2> DEFINE x == [job EXCEPT !.dir = "back"]
               y == [x EXCEPT !.step = "next"]
               z == [y EXCEPT !.dst = <<>>]
    <2>1. job' = z BY <1>2 DEF Failing
    <2>2. x \in JobType /\ x.op = job.op /\ x.a = job.a /\ x.day = job.day /\ x.dir = "back" /\ x.done = job.done /\ x.lost = job.lost
      BY DEF JobType
    <2> HIDE DEF x
    <2>3. y \in JobType /\ y.op = job.op /\ y.a = job.a /\ y.day = job.day /\ y.dir = "back" /\ y.done = job.done /\ y.lost = job.lost
          /\ y.step = "next"
      BY <2>2 DEF JobType, Moving
    <2> HIDE DEF y
    <2>4. z \in JobType /\ z.op = job.op /\ z.a = job.a /\ z.day = job.day /\ z.dir = "back" /\ z.done = job.done /\ z.lost = job.lost
          /\ z.step = "next" /\ z.dst = <<>>
      BY <2>3 DEF JobType
    <2> QED BY <2>1, <2>4, <1>2 DEF NoJob, JobType
  <1>3. CASE job.dir = "back"
    <2> DEFINE l == Append(job.lost, job.done[Len(job.done)])
               x == [job EXCEPT !.lost = l]
               y == [x EXCEPT !.done = Front(job.done)]
               w == [y EXCEPT !.step = "next"]
               z == [w EXCEPT !.dst = <<>>]
    <2>1. job' = z BY <1>3 DEF Failing
    <2>2. job.done # <<>> BY <1>3
    <2>3. Front(job.done) \in Seq(Pair) /\ job.done[Len(job.done)] \in Pair BY <1>1, <2>2, FrontOf
    <2>4. l \in Seq(Pair) /\ l # <<>> BY <1>1, <2>3
    <2> HIDE DEF l
    <2>5. x \in JobType /\ x.op = job.op /\ x.a = job.a /\ x.day = job.day /\ x.dir = "back" /\ x.done = job.done /\ x.lost = l
      BY <2>4, <1>3 DEF JobType
    <2> HIDE DEF x
    <2>6. y \in JobType /\ y.op = job.op /\ y.a = job.a /\ y.day = job.day /\ y.dir = "back" /\ y.done = Front(job.done) /\ y.lost = l
      BY <2>5, <2>3 DEF JobType
    <2> HIDE DEF y
    <2>7. w \in JobType /\ w.op = job.op /\ w.a = job.a /\ w.day = job.day /\ w.dir = "back" /\ w.done = Front(job.done) /\ w.lost = l
          /\ w.step = "next"
      BY <2>6 DEF JobType, Moving
    <2> HIDE DEF w
    <2>8. z \in JobType /\ z.op = job.op /\ z.a = job.a /\ z.day = job.day /\ z.dir = "back" /\ z.done = Front(job.done) /\ z.lost = l
          /\ z.step = "next" /\ z.dst = <<>>
      BY <2>7 DEF JobType
    <2> QED BY <2>1, <2>4, <2>8, <1>3 DEF NoJob, JobType
  <1> QED BY <1>1, <1>2, <1>3

\* A move that succeeded is noted, or on the way back forgotten.
LEMMA AdvancedShape ==
  ASSUME job \in JobType, job.dir = "back" => job.done # <<>>, NEW m, <<m.src, m.dst>> \in Pair, job' = Advanced(m)
  PROVE  /\ job' \in JobType /\ job' # NoJob
         /\ job'.op = job.op /\ job'.a = job.a /\ job'.day = job.day /\ job'.step = "next" /\ job'.dir = job.dir
         /\ job'.dst = <<>> /\ job'.lost = job.lost
         /\ job'.done = IF job.dir = "back" THEN Front(job.done) ELSE Append(job.done, <<m.src, m.dst>>)
  <1> DEFINE d == IF job.dir = "back" THEN Front(job.done) ELSE Append(job.done, <<m.src, m.dst>>)
             x == [job EXCEPT !.done = d]
             y == [x EXCEPT !.step = "next"]
             z == [y EXCEPT !.dst = <<>>]
  <1>1. job' = z BY DEF Advanced
  <1>2. job.done \in Seq(Pair) BY DEF JobType
  <1>3. d \in Seq(Pair)
    <2>1. CASE job.dir = "back" BY <2>1, <1>2, FrontOf
    <2>2. CASE job.dir # "back" BY <2>2, <1>2
    <2> QED BY <2>1, <2>2
  <1> HIDE DEF d
  <1>4. x \in JobType /\ x.op = job.op /\ x.a = job.a /\ x.day = job.day /\ x.dir = job.dir /\ x.done = d /\ x.lost = job.lost
    BY <1>3 DEF JobType
  <1> HIDE DEF x
  <1>5. y \in JobType /\ y.op = job.op /\ y.a = job.a /\ y.day = job.day /\ y.dir = job.dir /\ y.done = d /\ y.lost = job.lost
        /\ y.step = "next"
    BY <1>4 DEF JobType, Moving
  <1> HIDE DEF y
  <1>6. z \in JobType /\ z.op = job.op /\ z.a = job.a /\ z.day = job.day /\ z.dir = job.dir /\ z.done = d /\ z.lost = job.lost
        /\ z.step = "next" /\ z.dst = <<>>
    BY <1>5 DEF JobType
  <1> HIDE DEF z
  <1>7. job' \in JobType /\ job' # NoJob BY <1>1, <1>6 DEF NoJob, JobType
  <1> QED BY <1>1, <1>6, <1>7 DEF d

\* Where a copy under way writes.
LEMMA Written ==
  ASSUME RecycleInv, job # NoJob, job.step \in Moving
  PROVE  /\ job.step = "next" => \A l : ~beingWritten(l)
         /\ job.step # "next" => /\ job.dst \in Pair /\ NextPair(job.dst) /\ (OutPair(job.dst) \/ InPair(job.dst))
                                 /\ \A l : beingWritten(l) = (l = job.dst[2])
                                 /\ job.op = "remove" => (job.dst[2] \in BinPaths) = (job.dir = "forward")
         /\ job.op = "remove" => \A j \in DOMAIN job.done : /\ job.done[j][2] \in BinPaths
                                                           /\ ~beingWritten(job.done[j][2])
  <1>1. job.op \in {"remove", "restore"} /\ JobOK /\ job.done \in Seq(Pair) /\ job.dir \in {"forward", "back"}
        /\ job \in JobType /\ (job.op = "remove" => RemovalOK)
    BY JobShape
  <1>2. job.step = "next" => job.dst = <<>> BY <1>1 DEF JobOK
  <1>3. MovesOK BY <1>1 DEF JobOK
  <1>4. job.step = "next" => \A l : ~beingWritten(l) BY <1>2 DEF beingWritten
  <1>5. ASSUME job.step # "next" PROVE job.dst \in Pair /\ NextPair(job.dst) /\ \A l : beingWritten(l) = (l = job.dst[2])
    <2>1. job.dst # <<>> BY <1>1, <1>5 DEF JobOK, Moving
    <2> QED BY <2>1, <1>1, <1>3, <1>5 DEF JobType, MovesOK, beingWritten
  <1>6. ASSUME job.step # "next" PROVE OutPair(job.dst) \/ InPair(job.dst)
    <2>1. CASE job.dir # "back" BY <2>1, <1>5, <1>6 DEF NextPair, PairOK
    <2>2. CASE job.dir = "back"
      <3>1. job.done # <<>> /\ job.dst = <<job.done[Len(job.done)][2], job.done[Len(job.done)][1]>>
        BY <2>2, <1>5, <1>6 DEF NextPair
      <3>2. Len(job.done) \in DOMAIN job.done BY <3>1, <1>1
      <3>3. PairOK(job.op, job.done[Len(job.done)]) BY <3>2, <1>3 DEF MovesOK
      <3> QED BY <3>1, <3>3 DEF PairOK, InPair, OutPair
    <2> QED BY <2>1, <2>2
  <1>7. ASSUME job.op = "remove", NEW j \in DOMAIN job.done PROVE OutPair(job.done[j]) /\ job.done[j][2] \in BinPaths
    BY <1>7, <1>3, PairEnds DEF MovesOK, PairOK
  <1>8. ASSUME job.step # "next", job.op = "remove"
        PROVE  (job.dst[2] \in BinPaths) = (job.dir = "forward") /\ \A j \in DOMAIN job.done : job.done[j][2] # job.dst[2]
    <2>1. CASE job.dir = "forward"
      <3>1. OutPair(job.dst) BY <2>1, <1>5, <1>8 DEF NextPair, PairOK
      <3>2. job.dst[2] \in BinPaths BY <3>1, PairEnds
      <3>3. PartsHeld BY <1>1, <1>8 DEF RemovalOK
      <3> QED BY <3>2, <3>3, <2>1, <1>8 DEF PartsHeld
    <2>2. CASE job.dir = "back"
      <3>1. job.done # <<>> /\ job.dst = <<job.done[Len(job.done)][2], job.done[Len(job.done)][1]>>
        BY <2>2, <1>5, <1>8 DEF NextPair
      <3>2. Len(job.done) \in DOMAIN job.done BY <3>1, <1>1
      <3>3. OutPair(job.done[Len(job.done)]) BY <3>2, <1>7, <1>8
      <3>4. job.dst[2] \in LibPaths BY <3>1, <3>3, PairEnds
      <3>5. job.dst[2] \notin BinPaths BY <3>4, Shapes
      <3> QED BY <3>5, <2>2, <1>7, <1>8
    <2> QED BY <2>1, <2>2, <1>1
  <1>9. job.op = "remove" => \A j \in DOMAIN job.done : job.done[j][2] \in BinPaths /\ ~beingWritten(job.done[j][2])
    BY <1>4, <1>5, <1>7, <1>8
  <1> QED BY <1>4, <1>5, <1>6, <1>8, <1>9

\* A move that fails discards its copy, if any, and turns the job around.
LEMMA TurnsAround ==
  ASSUME RecycleInv, job # NoJob, job.step \in Moving, job.dir = "back" => job.done # <<>>, job' = Failing,
         UNCHANGED <<born, erased, today, bin, act>>,
         disk' \in [Locations -> Int],
         \A l \in Locations : IF beingWritten(l) THEN disk'[l] = 0 ELSE disk'[l] = disk[l]
  PROVE  RecycleInv' /\ KeepsPromise
  <1>1. RecycleTypes /\ Numbered /\ OneHome /\ Dated BY DEF RecycleInv
  <1>2. /\ job \in JobType /\ job.op \in {"remove", "restore"} /\ job.a \in Removal /\ job.dir \in {"forward", "back"}
        /\ job.done \in Seq(Pair) /\ JobOK /\ (job.op = "remove" => RemovalOK)
    BY JobShape
  <1>3. /\ job' \in JobType /\ job' # NoJob
        /\ job'.op = job.op /\ job'.a = job.a /\ job'.day = job.day /\ job'.step = "next" /\ job'.dir = "back"
        /\ job'.dst = <<>>
        /\ job.dir = "forward" => job'.done = job.done /\ job'.lost = job.lost
        /\ job.dir = "back" => job'.done = Front(job.done) /\ job'.lost # <<>>
    BY <1>2, FailingShape
  <1>4. \A k \in DOMAIN job'.done : k \in DOMAIN job.done /\ job'.done[k] = job.done[k]
    <2>1. CASE job.dir = "forward" BY <2>1, <1>3
    <2>2. CASE job.dir = "back" BY <2>2, <1>2, <1>3, FrontOf
    <2> QED BY <2>1, <2>2, <1>2
  <1>5. \A l : ~beingWritten(l)' BY <1>3 DEF beingWritten
  <1>6. \A f \in 1..MaxFiles : wholeAt(f)' = wholeAt(f)
    <2> TAKE f \in 1..MaxFiles
    <2>1. f # 0 BY RecycleAssumption
    <2> QED BY <2>1, <1>5 DEF wholeAt
  <1>7. KeepsPromise BY <1>6, NothingMoves DEF KeepsPromise
  <1>8. Numbered' /\ OneHome' /\ Dated'
    <2>1. \A l \in Locations : disk'[l] = disk[l] \/ Follows(l, disk'[l]) BY DEF Follows
    <2>2. today' \in 1..MaxDay /\ today <= today' BY <1>1, RecycleAssumption DEF RecycleTypes
    <2>3. \A f \in erased' : f <= born BY <1>1 DEF Numbered
    <2> QED BY <1>1, <2>1, <2>2, <2>3, DiskKeeps
  <1>9. \A b \in Removal : RecordOK(b)'
    BY DEF RecycleInv, RecordOK, OutPair
  <1>10. RecycleTypes' BY <1>1, <1>3 DEF RecycleTypes
  <1>11. MovesOK /\ bin.set /\ job.day <= today BY <1>2 DEF JobOK
  <1>12. MovesOK'
    BY <1>3, <1>4, <1>11 DEF MovesOK, PairOK, InPair, OutPair, Total
  <1>13. JobOK'
    <2>1. act'[job'.a].status = (IF job'.op = "remove" THEN "running" ELSE "succeeded")
          /\ (job'.op = "restore" => act'[job'.a].recycle # <<>>)
      BY <1>2, <1>3 DEF JobOK
    <2> QED BY <2>1, <1>3, <1>11, <1>12 DEF JobOK, CopyOK, Moving
  <1>14. ASSUME job.op = "remove" PROVE RemovalOK'
    <2>1. PartsHeld /\ PartsThere BY <1>2, <1>11, <1>14 DEF RemovalOK
    <2>2. \A j \in DOMAIN job.done : job.done[j][2] \in Locations /\ disk'[job.done[j][2]] = disk[job.done[j][2]]
      BY <1>14, Written, Shapes
    <2>3. PartsHeld' BY <2>1, <2>2, <1>3, <1>4 DEF PartsHeld
    <2>4. PartsThere'
      <3>1. ASSUME NEW f, f > 0, PartThere(f) PROVE PartThere(f)'
        <4>1. CASE job.dir = "back" BY <4>1, <1>3 DEF PartThere
        <4>2. CASE job.dir = "forward"
          <5>1. \A s \in Slots : disk'[Lib(s)] = disk[Lib(s)] BY <4>2, <1>14, Written, Shapes
          <5> QED BY <3>1, <4>2, <5>1, <2>2, <1>3 DEF PartThere
        <4> QED BY <4>1, <4>2, <1>2
      <3> QED BY <2>1, <3>1, <1>3 DEF PartsThere
    <2> QED BY <2>3, <2>4 DEF RemovalOK
  <1> QED BY <1>3, <1>7, <1>8, <1>9, <1>10, <1>13, <1>14 DEF RecycleInv

\* The two ends of the next move.
LEMMA NextEnds ==
  ASSUME RecycleInv, job # NoJob, job.step \in Moving, NEW p, NextPair(p)
  PROVE  /\ p \in Pair \/ (p[1] \in Locations /\ p[2] \in Locations)
         /\ OutPair(p) \/ InPair(p)
         /\ job.op = "remove" => IF job.dir = "back" THEN InPair(p) ELSE OutPair(p)
  <1>1. job.op \in {"remove", "restore"} /\ JobOK /\ job.done \in Seq(Pair) /\ job.dir \in {"forward", "back"}
    BY JobShape
  <1>2. MovesOK BY <1>1 DEF JobOK
  <1>3. CASE job.dir # "back"
    <2>1. PairOK(job.op, p) BY <1>3 DEF NextPair
    <2> QED BY <2>1, <1>3, PairEnds DEF PairOK
  <1>4. CASE job.dir = "back"
    <2> DEFINE q == job.done[Len(job.done)]
    <2>1. job.done # <<>> /\ p = <<q[2], q[1]>> BY <1>4 DEF NextPair
    <2>2. Len(job.done) \in DOMAIN job.done BY <2>1, <1>1
    <2>3. PairOK(job.op, q) BY <2>2, <1>2 DEF MovesOK
    <2> HIDE DEF q
    <2>4. IF job.op = "remove" THEN InPair(p) ELSE OutPair(p) BY <2>1, <2>3 DEF PairOK, InPair, OutPair
    <2> QED BY <2>4, <1>4, PairEnds
  <1> QED BY <1>3, <1>4

\* A move that is complete: the file is at its destination, and nowhere else
\* that was not known.
LEMMA MoveKeeps ==
  ASSUME RecycleInv, job # NoJob, job.step \in Moving, NEW p, NextPair(p),
         disk[p[1]] # 0, ~beingWritten(p[1]), \A l : beingWritten(l) => l = p[2],
         disk[p[2]] = 0 \/ (beingWritten(p[2]) /\ disk[p[2]] = disk[p[1]]),
         disk' \in [Locations -> Int], disk'[p[1]] = 0, disk'[p[2]] = disk[p[1]],
         \A l \in Locations : l # p[1] /\ l # p[2] => disk'[l] = disk[l],
         \A l : ~beingWritten(l)', UNCHANGED <<born, erased, today, bin, act>>
  PROVE  KeepsPromise /\ Numbered' /\ OneHome' /\ Dated'
  <1>1. RecycleTypes /\ Numbered /\ OneHome /\ Dated BY DEF RecycleInv
  <1>2. OutPair(p) \/ InPair(p) BY NextEnds
  <1>3. /\ p[1] \in Locations /\ p[2] \in Locations /\ p[1][2] = p[2][2] /\ p[1] # p[2]
        /\ p[2] \in BinPaths => p[2][1] <= today
    BY <1>2, PairEnds
  <1>4. bin.set
    <2>1. JobOK BY JobShape
    <2> QED BY <2>1 DEF JobOK
  <1>5. Numbered' /\ OneHome' /\ Dated'
    <2>1. Follows(p[2], disk'[p[2]]) BY <1>3, <1>4 DEF Follows
    <2>2. Follows(p[1], disk'[p[1]]) BY DEF Follows
    <2>3. \A l \in Locations : disk'[l] = disk[l] \/ Follows(l, disk'[l]) BY <2>1, <2>2
    <2>4. today' \in 1..MaxDay /\ today <= today' BY <1>1, RecycleAssumption DEF RecycleTypes
    <2>5. \A f \in erased' : f <= born BY <1>1 DEF Numbered
    <2> QED BY <1>1, <2>3, <2>4, <2>5, DiskKeeps
  <1>0. PICK f : f = disk[p[1]] OBVIOUS
  <1>6. f \in Int /\ f <= born /\ born \in Nat BY <1>0, <1>1, <1>3 DEF Numbered, RecycleTypes
  <1>7. \A g \in 1..MaxFiles : g # f => wholeAt(g)' = wholeAt(g)
    <2> SUFFICES ASSUME NEW g \in 1..MaxFiles, g # f, NEW l \in Locations
                 PROVE  (disk'[l] = g /\ ~beingWritten(l)') = (disk[l] = g /\ ~beingWritten(l))
      BY DEF wholeAt
    <2>1. g # 0 BY RecycleAssumption
    <2>2. CASE l = p[1] BY <1>0, <2>1, <2>2
    <2>3. CASE l = p[2] BY <1>0, <2>1, <2>3
    <2>4. CASE l # p[1] /\ l # p[2] BY <2>4
    <2> QED BY <2>2, <2>3, <2>4
  <1>8. KeepsPromise
    <2>1. CASE f \notin 1..MaxFiles \/ f \in erased
      <3>1. \A g \in 1..MaxFiles : g \notin erased => wholeAt(g)' = wholeAt(g) BY <2>1, <1>7
      <3> QED BY <3>1, NothingMoves DEF KeepsPromise
    <2>2. CASE f \in 1..MaxFiles /\ f \notin erased
      <3>1. f \in Nat \ {0} BY <2>2, RecycleAssumption
      <3>2. p[1] \in wholeAt(f) BY <1>0, <1>3 DEF wholeAt
      <3>3. wholeAt(f)' = (wholeAt(f) \ {p[1]}) \cup {p[2]}
        <4>1. ASSUME NEW l \in Locations
              PROVE  (disk'[l] = f /\ ~beingWritten(l)') = ((disk[l] = f /\ ~beingWritten(l) /\ l # p[1]) \/ l = p[2])
          <5>1. CASE l = p[1] BY <1>0, <3>1, <5>1, <1>3
          <5>2. CASE l = p[2] BY <1>0, <5>2, <1>3
          <5>3. CASE l # p[1] /\ l # p[2] BY <5>3
          <5> QED BY <5>1, <5>2, <5>3
        <4> QED BY <4>1, <1>3 DEF wholeAt
      <3>4. f <= born /\ disk'[p[2]] = f BY <1>0, <1>6
      <3> QED BY <1>1, <1>2, <1>5, <1>7, <2>2, <3>1, <3>2, <3>3, <3>4, Relocated
    <2> QED BY <2>1, <2>2
  <1> QED BY <1>5, <1>8

\* A complete move is noted, and its part is where the notes say.
LEMMA AdvanceKeeps ==
  ASSUME RecycleInv, job # NoJob, job.step \in Moving, NEW m, NextPair(<<m.src, m.dst>>),
         disk[m.src] # 0, ~beingWritten(m.src), \A l : beingWritten(l) => l = m.dst,
         disk[m.dst] = 0 \/ (beingWritten(m.dst) /\ disk[m.dst] = disk[m.src]),
         disk' \in [Locations -> Int], disk'[m.src] = 0, disk'[m.dst] = disk[m.src],
         \A l \in Locations : l # m.src /\ l # m.dst => disk'[l] = disk[l],
         job' = Advanced(m), UNCHANGED <<born, erased, today, bin, act>>
  PROVE  RecycleInv' /\ KeepsPromise
  <1> DEFINE p == <<m.src, m.dst>>
  <1>1. RecycleTypes BY DEF RecycleInv
  <1>2. /\ job \in JobType /\ job.op \in {"remove", "restore"} /\ job.a \in Removal /\ job.dir \in {"forward", "back"}
        /\ job.done \in Seq(Pair) /\ JobOK /\ (job.op = "remove" => RemovalOK)
    BY JobShape
  <1>3. /\ OutPair(p) \/ InPair(p)
        /\ job.op = "remove" => IF job.dir = "back" THEN InPair(p) ELSE OutPair(p)
    BY NextEnds
  <1>4. m.src \in Locations /\ m.dst \in Locations /\ m.src # m.dst /\ p \in Pair BY <1>3, PairEnds DEF Pair
  <1>5. job.dir = "back" => job.done # <<>> /\ p = <<job.done[Len(job.done)][2], job.done[Len(job.done)][1]>>
    BY DEF NextPair
  <1>6. /\ job' \in JobType /\ job' # NoJob
        /\ job'.op = job.op /\ job'.a = job.a /\ job'.day = job.day /\ job'.step = "next" /\ job'.dir = job.dir
        /\ job'.dst = <<>> /\ job'.lost = job.lost
        /\ job'.done = IF job.dir = "back" THEN Front(job.done) ELSE Append(job.done, p)
    BY <1>2, <1>4, <1>5, AdvancedShape
  <1>7. \A l : ~beingWritten(l)' BY <1>6 DEF beingWritten
  <1>8. KeepsPromise /\ Numbered' /\ OneHome' /\ Dated'
    <2>1. p[1] = m.src /\ p[2] = m.dst OBVIOUS
    <2> HIDE DEF p
    <2> QED BY <1>7, <2>1, MoveKeeps DEF p
  <1>9. \A b \in Removal : RecordOK(b)' BY DEF RecycleInv, RecordOK, OutPair
  <1>10. RecycleTypes' BY <1>1, <1>6 DEF RecycleTypes
  <1>11. MovesOK /\ bin.set /\ job.day <= today BY <1>2 DEF JobOK
  <1>12. MovesOK'
    <2>1. CASE job.dir = "back"
      <3>1. \A k \in DOMAIN job'.done : k \in DOMAIN job.done /\ job'.done[k] = job.done[k]
        BY <2>1, <1>2, <1>5, <1>6, FrontOf
      <3> QED BY <3>1, <1>6, <1>11 DEF MovesOK, PairOK, InPair, OutPair, Total
    <2>2. CASE job.dir = "forward"
      <3>1. PairOK(job.op, p) /\ (job.op = "remove" => Len(job.done) < Total /\ p[1] = Lib(PartSlots[job.a][Len(job.done) + 1]))
        BY <2>2 DEF NextPair
      <3> DEFINE n == Len(job.done)
      <3> HIDE DEF p
      <3>2. n \in Nat /\ DOMAIN job.done = 1..n /\ DOMAIN job'.done = 1..(n + 1)
            /\ job'.done[n + 1] = p /\ \A k \in 1..n : job'.done[k] = job.done[k]
        BY <2>2, <1>2, <1>6
      <3>3. Total' = Total BY <1>6 DEF Total
      <3>4. \A op, q : PairOK(op, q)' = PairOK(op, q) BY DEF PairOK, InPair, OutPair
      <3>5. ASSUME NEW k \in 1..(n + 1) PROVE PairOK(job.op, job'.done[k])
        <4>1. CASE k = n + 1 BY <4>1, <3>1, <3>2
        <4>2. CASE k \in 1..n
          <5>1. PairOK(job.op, job.done[k]) BY <4>2, <3>2, <1>11 DEF MovesOK
          <5>2. job'.done[k] = job.done[k] BY <4>2, <3>2
          <5> QED BY <5>1, <5>2
        <4> QED BY <4>1, <4>2, <3>2
      <3>6. ASSUME job.op = "remove", NEW k \in 1..(n + 1)
            PROVE  k <= Total /\ job'.done[k][1] = Lib(PartSlots[job.a][k])
        <4>0. Total \in Nat BY <1>2, JobShape DEF Total
        <4>1. CASE k = n + 1 BY <4>0, <4>1, <3>1, <3>2, <3>6
        <4>2. CASE k \in 1..n
          <5>1. k <= Total /\ job.done[k][1] = Lib(PartSlots[job.a][k]) BY <4>2, <3>2, <3>6, <1>11 DEF MovesOK
          <5> QED BY <5>1, <4>2, <3>2
        <4> QED BY <4>1, <4>2, <3>2
      <3> HIDE DEF n
      <3> QED BY <3>2, <3>3, <3>4, <3>5, <3>6, <1>6 DEF MovesOK
    <2> QED BY <2>1, <2>2, <1>2
  <1>13. JobOK'
    <2>1. act'[job'.a].status = (IF job'.op = "remove" THEN "running" ELSE "succeeded")
          /\ (job'.op = "restore" => act'[job'.a].recycle # <<>>)
      BY <1>2, <1>6 DEF JobOK
    <2> QED BY <2>1, <1>6, <1>11, <1>12 DEF JobOK, CopyOK, Moving
  <1>14. ASSUME job.op = "remove" PROVE RemovalOK'
    <2>1. PartsHeld /\ PartsThere BY <1>2, <1>11, <1>14 DEF RemovalOK
    <2>2. \A j \in DOMAIN job.done : job.done[j][2] \in BinPaths /\ job.done[j][2] \in Locations /\ ~beingWritten(job.done[j][2])
      BY <1>14, Written, Shapes
    <2>3. \A j \in DOMAIN job.done : job.done[j][2] # m.dst
      BY <2>1, <2>2 DEF PartsHeld
    <2>4. CASE job.dir = "forward"
      <3> DEFINE n == Len(job.done)
      <3>1. m.src \in LibPaths /\ m.dst \in BinPaths BY <2>4, <1>3, <1>14, PairEnds
      <3> HIDE DEF p
      <3>2. n \in Nat /\ DOMAIN job.done = 1..n /\ DOMAIN job'.done = 1..(n + 1)
            /\ job'.done[n + 1] = p /\ \A k \in 1..n : job'.done[k] = job.done[k]
        BY <2>4, <1>2, <1>6
      <3>3. p[2] = m.dst BY DEF p
      <3> HIDE DEF n
      <3>4. \A j \in 1..n : job.done[j][2] # m.src BY <2>2, <3>1, <3>2, Shapes
      <3>5. \A j \in 1..n : disk'[job.done[j][2]] = disk[job.done[j][2]] /\ disk'[job.done[j][2]] # 0
        <4> TAKE j \in 1..n
        <4>1. j \in DOMAIN job.done BY <3>2
        <4>2. disk[job.done[j][2]] # 0 BY <2>1, <4>1 DEF PartsHeld
        <4>3. job.done[j][2] \in Locations /\ job.done[j][2] # m.dst /\ job.done[j][2] # m.src
          BY <4>1, <2>2, <2>3, <3>4
        <4> QED BY <4>2, <4>3
      <3>6. \A j \in 1..(n + 1) : j \in 1..n \/ (j = n + 1 /\ job'.done[j][2] = m.dst) BY <3>2, <3>3
      <3>7. PartsHeld'
        <4>1. \A j \in 1..(n + 1) : disk'[job'.done[j][2]] # 0
          BY <3>2, <3>5, <3>6
        <4>2. \A i, j \in 1..n : job.done[i][2] = job.done[j][2] => i = j BY <2>1, <3>2 DEF PartsHeld
        <4>3. \A i, j \in 1..(n + 1) : job'.done[i][2] = job'.done[j][2] => i = j
          <5> TAKE i, j \in 1..(n + 1)
          <5>1. \A k \in 1..n : job'.done[k][2] = job.done[k][2] /\ job.done[k][2] # m.dst BY <2>3, <3>2
          <5> QED BY <5>1, <4>2, <3>6
        <4> QED BY <4>1, <4>3, <3>2, <1>6 DEF PartsHeld
      <3>8. ASSUME NEW f, f > 0, PartThere(f) PROVE PartThere(f)'
        <4>1. CASE f \in erased \/ job.lost # <<>> BY <4>1, <1>6 DEF PartThere
        <4>2. CASE \E s \in Slots : disk[Lib(s)] = f
          <5>1. PICK s \in Slots : disk[Lib(s)] = f BY <4>2
          <5>2. Lib(s) \in LibPaths /\ Lib(s) \notin BinPaths /\ Lib(s) \in Locations BY Shapes
          <5>3. CASE Lib(s) = m.src
            <6>1. disk'[job'.done[n + 1][2]] = f BY <5>1, <5>3, <3>2, <3>3
            <6>2. n + 1 \in DOMAIN job'.done BY <3>2
            <6> QED BY <6>1, <6>2 DEF PartThere
          <5>4. CASE Lib(s) # m.src
            <6>1. disk'[Lib(s)] = f BY <5>1, <5>2, <5>4, <3>1
            <6> QED BY <6>1 DEF PartThere
          <5> QED BY <5>3, <5>4
        <4>3. CASE \E j \in DOMAIN job.done : disk[job.done[j][2]] = f
          <5>1. PICK j \in DOMAIN job.done : disk[job.done[j][2]] = f BY <4>3
          <5>2. j \in DOMAIN job'.done /\ job'.done[j] = job.done[j] BY <3>2
          <5>3. disk'[job'.done[j][2]] = f BY <5>1, <5>2, <3>2, <3>5
          <5> QED BY <5>2, <5>3 DEF PartThere
        <4> QED BY <3>8, <4>1, <4>2, <4>3 DEF PartThere
      <3>9. PartsThere' BY <2>1, <3>8, <1>6 DEF PartsThere
      <3> QED BY <3>7, <3>9 DEF RemovalOK
    <2>5. CASE job.dir = "back"
      <3> DEFINE n == Len(job.done)
      <3>1. m.src \in BinPaths /\ m.dst \in LibPaths BY <2>5, <1>3, <1>14, PairEnds
      <3>2. job.done # <<>> /\ m.src = job.done[n][2] BY <2>5, <1>5
      <3>3. n \in DOMAIN job.done BY <1>2, <3>2
      <3>4. /\ \A k \in DOMAIN job'.done : k \in DOMAIN job.done /\ k # n /\ job'.done[k] = job.done[k]
            /\ \A k \in DOMAIN job.done : k = n \/ (k \in DOMAIN job'.done /\ job'.done[k] = job.done[k])
        BY <2>5, <1>2, <1>6, <3>2, FrontOf
      <3> HIDE DEF n
      <3>5. \A j \in DOMAIN job'.done : job.done[j][2] # m.src BY <2>1, <3>2, <3>3, <3>4 DEF PartsHeld
      <3>6. \A j \in DOMAIN job'.done : disk'[job'.done[j][2]] = disk[job'.done[j][2]] /\ disk'[job'.done[j][2]] # 0
        BY <2>1, <2>2, <2>3, <3>4, <3>5 DEF PartsHeld
      <3>7. PartsHeld' BY <2>1, <3>4, <3>6, <1>6 DEF PartsHeld
      <3>8. ASSUME NEW f, f > 0, PartThere(f) PROVE PartThere(f)'
        <4>1. CASE f \in erased \/ job.lost # <<>> BY <4>1, <1>6 DEF PartThere
        <4>2. CASE \E s \in Slots : disk[Lib(s)] = f
          <5>1. PICK s \in Slots : disk[Lib(s)] = f BY <4>2
          <5>2. Lib(s) \in LibPaths /\ Lib(s) \notin BinPaths /\ Lib(s) \in Locations BY Shapes
          <5>3. disk'[Lib(s)] = f BY <3>8, <5>1, <5>2, <3>1
          <5> QED BY <5>3 DEF PartThere
        <4>3. CASE \E j \in DOMAIN job.done : disk[job.done[j][2]] = f
          <5>1. PICK j \in DOMAIN job.done : disk[job.done[j][2]] = f BY <4>3
          <5>2. CASE j = n
            <6>1. disk'[m.dst] = f BY <5>1, <5>2, <3>2
            <6>2. m.dst[2] \in Slots /\ m.dst = Lib(m.dst[2]) BY <3>1, Shapes
            <6>3. \E s \in Slots : disk'[Lib(s)] = f BY <6>1, <6>2
            <6> QED BY <6>3 DEF PartThere
          <5>3. CASE j # n
            <6>1. j \in DOMAIN job'.done /\ job'.done[j] = job.done[j] BY <5>3, <3>4
            <6> QED BY <5>1, <6>1, <3>6 DEF PartThere
          <5> QED BY <5>2, <5>3
        <4> QED BY <3>8, <4>1, <4>2, <4>3 DEF PartThere
      <3>9. PartsThere' BY <2>1, <3>8, <1>6 DEF PartsThere
      <3> QED BY <3>7, <3>9 DEF RemovalOK
    <2> QED BY <2>4, <2>5, <1>2
  <1> QED BY <1>6, <1>8, <1>9, <1>10, <1>13, <1>14 DEF RecycleInv

\* A typed job is a job.
LEMMA JobTyped ==
  ASSUME NEW j \in JobType
  PROVE  j # NoJob
  <1>1. j.op # "none" BY DEF JobType
  <1>2. NoJob.op = "none" BY DEF NoJob
  <1> QED BY <1>1, <1>2

-----------------------------------------------------------------------------
(* The steps of a removal and of a restore.                                *)

\* Every part is looked at first.
LEMMA OpenKeeps ==
  ASSUME RecycleInv, OpenParts
  PROVE  RecycleInv' /\ KeepsPromise
  <1>1. job.op = "remove" /\ job.step = "planned" /\ job # NoJob BY DEF OpenParts, NoJob
  <1>2. RecycleTypes BY DEF RecycleInv
  <1>3. /\ job \in JobType /\ job.a \in Removal /\ JobOK /\ RemovalOK /\ act[job.a] \in ActType
        /\ PartSlots[job.a] \in Seq(Slots) /\ PartSlots[job.a] # <<>>
    BY <1>1, JobShape
  <1>4. CASE act' = [act EXCEPT ![job.a].status = "skipped"] /\ job' = NoJob
    <2>1. act \in [Removal -> ActType] /\ "skipped" \in Statuses BY <1>2 DEF RecycleTypes, Statuses
    <2>2. act' \in [Removal -> ActType] /\ act'[job.a].status = "skipped" /\ \A b \in Removal : b # job.a => act'[b] = act[b]
      BY <1>3, <1>4, <2>1, Marked
    <2>3. act'[job.a].status \notin {"queued", "running", "succeeded"} BY <2>2
    <2>4. UNCHANGED <<disk, born, erased, today, bin>> BY DEF OpenParts
    <2>5. bin' = [bin EXCEPT !.content = bin'.content] BY <1>2, <2>4 DEF RecycleTypes
    <2> QED BY <1>1, <1>4, <2>2, <2>3, <2>4, <2>5, OverKeeps
  <1>5. CASE job' = [job EXCEPT !.step = IF bin.set THEN "pinned" ELSE "deleting", !.day = today] /\ UNCHANGED act
    <2> DEFINE st == IF bin.set THEN "pinned" ELSE "deleting"
    <2>1. UNCHANGED <<disk, born, erased, today, bin, act>> BY <1>5 DEF OpenParts
    <2>2. /\ job' \in JobType /\ job' # NoJob /\ job'.op = "remove" /\ job'.a = job.a /\ job'.step = st /\ job'.day = today
          /\ job'.done = job.done /\ job'.lost = job.lost /\ job'.dir = job.dir /\ job'.dst = job.dst
      <3> DEFINE x == [job EXCEPT !.step = st]
                 y == [x EXCEPT !.day = today]
      <3>1. /\ x \in JobType /\ x.op = "remove" /\ x.a = job.a /\ x.step = st /\ x.done = job.done /\ x.lost = job.lost
            /\ x.dir = job.dir /\ x.dst = job.dst
        BY <1>1, <1>3 DEF JobType
      <3>2. job' = y BY <1>5
      <3> HIDE DEF x
      <3>3. /\ y \in JobType /\ y.op = "remove" /\ y.a = job.a /\ y.step = st /\ y.done = job.done /\ y.lost = job.lost
            /\ y.dir = job.dir /\ y.dst = job.dst /\ y.day = today
        BY <3>1, <1>2 DEF JobType, RecycleTypes
      <3> HIDE DEF y
      <3> QED BY <3>2, <3>3, JobTyped
    <2>3. job.dst = <<>> /\ job.done = <<>> /\ job.lost = <<>> /\ job.dir = "forward"
      BY <1>1, <1>3 DEF JobOK
    <2>4. \A l : beingWritten(l)' = beingWritten(l) BY <2>2, <2>3 DEF beingWritten
    <2>5. KeepsPromise /\ Numbered' /\ OneHome' /\ Dated' BY <2>1, <2>4, SameDisk
    <2>6. \A b \in Removal : RecordOK(b)' BY <2>1 DEF RecycleInv, RecordOK, OutPair
    <2>7. RecycleTypes' BY <1>2, <2>1, <2>2 DEF RecycleTypes
    <2>8. st \notin Moving /\ st \notin {"planned", "next", "copying", "copied"} BY DEF Moving
    <2>9. JobOK'
      <3>1. Total' = Total /\ Total > 0 /\ Total \in Nat BY <1>3, <2>2 DEF Total
      <3>2. today' >= job'.day BY <1>2, <2>1, <2>2, RecycleAssumption DEF RecycleTypes
      <3>3. Len(job'.done) < Total' BY <3>1, <2>2, <2>3
      <3>4. act'[job'.a].status = "running" BY <1>1, <1>3, <2>1, <2>2 DEF JobOK
      <3>5. bin'.set \in BOOLEAN BY <1>2, <2>1 DEF RecycleTypes
      <3> QED BY <2>1, <2>2, <2>3, <2>8, <3>2, <3>3, <3>4, <3>5 DEF JobOK, CopyOK
    <2>10. RemovalOK'
      <3>1. bin.set => PartsThere BY <1>3 DEF RemovalOK
      <3>2. bin'.set => PartsThere' BY <3>1, <2>1, <2>2 DEF PartsThere, PartThere
      <3> QED BY <3>2, <2>2, <2>8 DEF RemovalOK
    <2> QED BY <2>2, <2>5, <2>6, <2>7, <2>9, <2>10 DEF RecycleInv
  <1> QED BY <1>4, <1>5 DEF OpenParts

\* The bin is opened, or the removal fails before anything has moved.
LEMMA OpenBinKeeps ==
  ASSUME RecycleInv, openBin
  PROVE  RecycleInv' /\ KeepsPromise
  <1>1. job.op = "remove" /\ job.step = "pinned" /\ job # NoJob BY DEF openBin, NoJob
  <1>2. RecycleTypes BY DEF RecycleInv
  <1>3. job \in JobType /\ job.a \in Removal /\ JobOK /\ RemovalOK /\ act[job.a] \in ActType
    BY <1>1, JobShape
  <1>4. CASE act' = [act EXCEPT ![job.a].status = "failed"] /\ job' = NoJob /\ UNCHANGED bin
    <2>1. act \in [Removal -> ActType] /\ "failed" \in Statuses BY <1>2 DEF RecycleTypes, Statuses
    <2>2. act' \in [Removal -> ActType] /\ act'[job.a].status = "failed" /\ \A b \in Removal : b # job.a => act'[b] = act[b]
      BY <1>3, <1>4, <2>1, Marked
    <2>3. act'[job.a].status \notin {"queued", "running", "succeeded"} BY <2>2
    <2>4. UNCHANGED <<disk, born, erased, today>> BY DEF openBin
    <2>5. bin' = [bin EXCEPT !.content = bin'.content] BY <1>2, <1>4 DEF RecycleTypes
    <2> QED BY <1>1, <1>4, <2>2, <2>3, <2>4, <2>5, OverKeeps
  <1>5. CASE bin' = [bin EXCEPT !.content = "marked"] /\ job' = [job EXCEPT !.step = "next"] /\ UNCHANGED act
    <2>1. UNCHANGED <<disk, born, erased, today, act>> BY <1>5 DEF openBin
    <2>2. /\ job' \in JobType /\ job' # NoJob /\ job'.op = "remove" /\ job'.a = job.a /\ job'.step = "next" /\ job'.day = job.day
          /\ job'.done = job.done /\ job'.lost = job.lost /\ job'.dir = job.dir /\ job'.dst = job.dst
      <3>1. job' = [job EXCEPT !.step = "next"] BY <1>5
      <3> QED BY <3>1, <1>1, <1>3, JobTyped DEF JobType, Moving
    <2>3. job.dst = <<>> /\ job.done = <<>> /\ job.lost = <<>> /\ job.dir = "forward" /\ bin.set
      BY <1>1, <1>3 DEF JobOK
    <2>4. \A l : beingWritten(l)' = beingWritten(l) BY <2>2, <2>3 DEF beingWritten
    <2>5. bin'.set = bin.set /\ bin' = [set |-> bin'.set, problems |-> bin'.problems, content |-> bin'.content, device |-> bin'.device]
      BY <1>2, <1>5 DEF RecycleTypes
    <2>6. KeepsPromise /\ Numbered' /\ OneHome' /\ Dated' BY <2>1, <2>4, <2>5, SameDisk
    <2>7. \A b \in Removal : RecordOK(b)' BY <2>1 DEF RecycleInv, RecordOK, OutPair
    <2>8. RecycleTypes' BY <1>2, <2>1, <2>2, <2>5 DEF RecycleTypes
    <2>9. JobOK'
      <3>1. act'[job'.a].status = "running" /\ job'.day <= today' BY <1>1, <1>3, <2>1, <2>2 DEF JobOK
      <3>2. MovesOK' BY <2>2, <2>3 DEF MovesOK
      <3> QED BY <2>2, <2>3, <2>5, <3>1, <3>2 DEF JobOK, CopyOK, Moving
    <2>10. RemovalOK'
      <3>1. PartsThere BY <1>3, <2>3 DEF RemovalOK
      <3>2. PartsThere' BY <3>1, <2>1, <2>2 DEF PartsThere, PartThere
      <3>3. PartsHeld' BY <2>2, <2>3 DEF PartsHeld
      <3> QED BY <3>2, <3>3 DEF RemovalOK
    <2> QED BY <2>2, <2>6, <2>7, <2>8, <2>9, <2>10 DEF RecycleInv
  <1> QED BY <1>4, <1>5 DEF openBin

\* Without a bin, what is at a library path is nowhere else, and the promise
\* lets it go.
LEMMA Emptied ==
  ASSUME RecycleInv, NEW s \in Slots, disk' = Put(disk, Lib(s), 0), ~bin.set \/ disk[Lib(s)] \in erased',
         erased \subseteq erased', erased' \subseteq erased \cup {disk[Lib(s)]},
         ~beingWritten(Lib(s)), \A l : beingWritten(l)' = beingWritten(l), UNCHANGED <<born, today, bin>>
  PROVE  /\ KeepsPromise /\ Numbered' /\ OneHome' /\ Dated' /\ disk' \in [Locations -> Int] /\ erased' \subseteq Int
         /\ \A l \in Locations : l # Lib(s) => disk'[l] = disk[l]
  <1>1. RecycleTypes /\ Numbered /\ OneHome /\ Dated BY DEF RecycleInv
  <1>2. Lib(s) \in Locations /\ Lib(s) \in LibPaths /\ Lib(s)[2] = s BY Shapes
  <1>3. disk' \in [Locations -> Int] /\ disk'[Lib(s)] = 0 /\ \A l \in Locations : l # Lib(s) => disk'[l] = disk[l]
    BY <1>1, <1>2 DEF RecycleTypes, Put
  <1>4. PICK f : f = disk[Lib(s)] OBVIOUS
  <1>5. f \in Int /\ f <= born /\ born \in Nat BY <1>1, <1>2, <1>4 DEF RecycleTypes, Numbered
  <1>6. Numbered' /\ OneHome' /\ Dated'
    <2>1. \A l \in Locations : disk'[l] = disk[l] \/ Follows(l, disk'[l]) BY <1>3 DEF Follows
    <2>2. today' \in 1..MaxDay /\ today <= today' BY <1>1, RecycleAssumption DEF RecycleTypes
    <2>3. \A g \in erased' : g <= born BY <1>1, <1>4, <1>5 DEF Numbered
    <2> QED BY <1>1, <1>3, <2>1, <2>2, <2>3, DiskKeeps
  <1>7. \A g \in 1..MaxFiles : g # f => wholeAt(g)' = wholeAt(g) /\ (g \in erased') = (g \in erased)
    <2> TAKE g \in 1..MaxFiles
    <2> HAVE g # f
    <2>1. g # 0 BY RecycleAssumption
    <2>2. \A l \in Locations : (disk'[l] = g) = (disk[l] = g) BY <2>1, <1>2, <1>3, <1>4
    <2> QED BY <2>2, <1>4 DEF wholeAt
  <1>8. KeepsPromise
    <2>1. CASE f \notin 1..MaxFiles
      <3>1. \A g \in 1..MaxFiles : wholeAt(g)' = wholeAt(g) /\ (g \in erased') = (g \in erased) BY <2>1, <1>7
      <3> QED BY <3>1, NothingMoves DEF KeepsPromise
    <2>2. CASE f \in 1..MaxFiles /\ f \in erased
      <3>1. \A g \in 1..MaxFiles : (g \in erased') = (g \in erased) /\ (g \notin erased => wholeAt(g)' = wholeAt(g))
        BY <2>2, <1>7
      <3> QED BY <3>1, NothingMoves DEF KeepsPromise
    <2>3. CASE f \in 1..MaxFiles /\ f \notin erased
      <3>1. Lib(s) \in wholeAt(f) BY <1>2, <1>4 DEF wholeAt
      <3>2. placeOf(f) = <<"library", 0>>
        <4>1. ~(f > born) /\ \E l \in wholeAt(f) : l \in LibPaths BY <3>1, <1>2, <1>5
        <4> QED BY <4>1, <2>3, Placed
      <3>3. f # 0 BY <2>3, RecycleAssumption
      <3>4. placeOf(f)' = <<"gone", 0>>
        <4>1. CASE f \in erased' BY <4>1, <1>5 DEF placeOf
        <4>2. CASE ~bin.set
          <5>1. ASSUME NEW l \in Locations, disk'[l] = f PROVE FALSE
            <6>1. l # Lib(s) BY <5>1, <1>3, <3>3
            <6>2. disk[l] = f BY <6>1, <5>1, <1>3
            <6>3. l[2] = s BY <6>2, <3>3, <1>1, <1>2, <1>4 DEF OneHome
            <6>4. l \in BinPaths BY <6>1, <6>3, Shapes
            <6> QED BY <6>2, <6>4, <4>2, <3>3, <1>1 DEF Dated
          <5>2. wholeAt(f)' = {} BY <5>1 DEF wholeAt
          <5> QED BY <5>2, <1>5 DEF placeOf
        <4> QED BY <4>1, <4>2, <1>4
      <3>5. \A g \in 1..MaxFiles : g # f => placeOf(g)' = placeOf(g) BY <1>7 DEF placeOf
      <3> QED BY <2>3, <3>2, <3>4, <3>5, Leaves
    <2> QED BY <2>1, <2>2, <2>3
  <1>9. erased' \subseteq Int BY <1>1, <1>4, <1>5 DEF RecycleTypes
  <1> QED BY <1>3, <1>6, <1>8, <1>9

\* Without a bin the parts are deleted one by one.
LEMMA RemoveKeeps ==
  ASSUME RecycleInv, removeEntry
  PROVE  RecycleInv' /\ KeepsPromise
  <1>1. job.op = "remove" /\ job.step = "deleting" /\ job # NoJob BY DEF removeEntry, NoJob
  <1>2. RecycleTypes BY DEF RecycleInv
  <1>3. /\ job \in JobType /\ job.a \in Removal /\ JobOK /\ act[job.a] \in ActType
        /\ PartSlots[job.a] \in Seq(Slots) /\ job.done \in Seq(Pair)
    BY <1>1, JobShape
  <1>4. ~bin.set /\ Len(job.done) < Total /\ job.dst = <<>> BY <1>1, <1>3 DEF JobOK
  <1>5. UNCHANGED <<born, erased, today, bin>> BY DEF removeEntry
  <1> DEFINE k == Len(job.done) + 1
             s == PartSlots[job.a][k]
  <1>6. act \in [Removal -> ActType] BY <1>2 DEF RecycleTypes
  <1>7. CASE act' = [act EXCEPT ![job.a].status = "failed"] /\ job' = NoJob /\ UNCHANGED disk
    <2>1. "failed" \in Statuses BY DEF Statuses
    <2>2. act' \in [Removal -> ActType] /\ act'[job.a].status = "failed" /\ \A b \in Removal : b # job.a => act'[b] = act[b]
      BY <1>3, <1>6, <1>7, <2>1, Marked
    <2>3. act'[job.a].status \notin {"queued", "running", "succeeded"} BY <2>2
    <2>4. bin' = [bin EXCEPT !.content = bin'.content] BY <1>2, <1>5 DEF RecycleTypes
    <2>5. job.step \notin {"copying", "copied"} BY <1>1
    <2> QED BY <1>1, <1>5, <1>7, <2>2, <2>3, <2>4, <2>5, OverKeeps
  <1>8. CASE /\ disk' = Put(disk, Lib(s), 0)
             /\ IF k = Len(PartSlots[job.a])
                THEN act' = [act EXCEPT ![job.a].status = "succeeded"] /\ job' = NoJob
                ELSE job' = [job EXCEPT !.done = Append(job.done, <<Lib(s), Lib(s)>>)] /\ UNCHANGED act
    <2>1. k \in DOMAIN PartSlots[job.a] /\ s \in Slots BY <1>3, <1>4 DEF Total
    <2> HIDE DEF s
    <2>2. \A l : ~beingWritten(l) BY <1>4 DEF beingWritten
    <2>3. \A l : ~beingWritten(l)'
      <3>1. job' = NoJob \/ job'.dst = <<>> BY <1>3, <1>4, <1>8 DEF JobType
      <3> QED BY <3>1 DEF beingWritten, NoJob
    <2>4. KeepsPromise /\ Numbered' /\ OneHome' /\ Dated' /\ disk' \in [Locations -> Int]
      <3>1. disk' = Put(disk, Lib(s), 0) BY <1>8
      <3>2. ~beingWritten(Lib(s)) /\ \A l : beingWritten(l)' = beingWritten(l)
        <4>1. \A l : beingWritten(l) \in BOOLEAN /\ beingWritten(l)' \in BOOLEAN BY DEF beingWritten
        <4> QED BY <2>2, <2>3, <4>1
      <3>3. erased \subseteq erased' /\ erased' \subseteq erased \cup {disk[Lib(s)]} BY <1>5
      <3>4. UNCHANGED <<born, today, bin>> BY <1>5
      <3> QED BY <1>4, <2>1, <3>1, <3>2, <3>3, <3>4, Emptied
    <2>5. CASE k = Len(PartSlots[job.a])
      <3>1. act' = [act EXCEPT ![job.a].status = "succeeded"] /\ job' = NoJob BY <1>8, <2>5
      <3>2. "succeeded" \in Statuses BY DEF Statuses
      <3>3. /\ act' \in [Removal -> ActType] /\ act'[job.a].recycle = act[job.a].recycle
            /\ \A b \in Removal : b # job.a => act'[b] = act[b]
        BY <1>3, <1>6, <3>1, <3>2, Marked
      <3>4. act[job.a].status = "running" /\ act[job.a].recycle = <<>>
        BY <1>1, <1>3 DEF JobOK, RecycleInv, RecordOK
      <3>5. \A b \in Removal : RecordOK(b)'
        <4>1. today' \in 1..MaxDay /\ today <= today' BY <1>2, <1>5, RecycleAssumption DEF RecycleTypes
        <4>2. act'[job.a].recycle = <<>> BY <3>3, <3>4
        <4> QED BY <1>3, <3>3, <4>1, <4>2, RecordsKeep
      <3>6. RecycleTypes' BY <1>2, <1>5, <2>4, <3>1, <3>3 DEF RecycleTypes
      <3> QED BY <2>4, <3>1, <3>5, <3>6 DEF RecycleInv
    <2>6. CASE k # Len(PartSlots[job.a])
      <3> DEFINE p == <<Lib(s), Lib(s)>>
      <3>1. job' = [job EXCEPT !.done = Append(job.done, p)] /\ UNCHANGED act BY <1>8, <2>6
      <3>2. p \in Pair BY <2>1, Shapes DEF Pair
      <3> HIDE DEF p
      <3>3. Append(job.done, p) \in Seq(Pair) /\ Len(Append(job.done, p)) = k BY <1>3, <3>2
      <3>4. /\ job' \in JobType /\ job'.op = "remove" /\ job'.a = job.a /\ job'.step = "deleting" /\ job'.day = job.day
            /\ Len(job'.done) = k /\ job'.dst = job.dst
        BY <1>1, <1>3, <3>1, <3>3 DEF JobType
      <3>5. job' # NoJob BY <3>4, JobTyped
      <3>6. Len(job'.done) < Total'
        <4>1. Total' = Total /\ Total = Len(PartSlots[job.a]) /\ Total \in Nat BY <1>3, <3>4 DEF Total
        <4>2. k \in Nat /\ k <= Total BY <1>3, <1>4, <4>1
        <4> QED BY <4>1, <4>2, <2>6, <3>4
      <3>7. JobOK'
        <4>1. act'[job'.a].status = "running" /\ job'.day <= today' BY <1>1, <1>3, <1>5, <3>1, <3>4 DEF JobOK
        <4> QED BY <1>4, <1>5, <3>4, <3>6, <4>1 DEF JobOK, CopyOK, Moving
      <3>8. RemovalOK' BY <1>4, <1>5, <3>4 DEF RemovalOK, Moving
      <3>9. \A b \in Removal : RecordOK(b)' BY <1>5, <3>1 DEF RecycleInv, RecordOK, OutPair
      <3>10. RecycleTypes' BY <1>2, <1>5, <2>4, <3>1, <3>4 DEF RecycleTypes
      <3> QED BY <2>4, <3>5, <3>7, <3>8, <3>9, <3>10 DEF RecycleInv
    <2> QED BY <2>5, <2>6
  <1> QED BY <1>7, <1>8 DEF removeEntry

\* The move at hand, when nothing is in its way.
LEMMA CurrentOK ==
  ASSUME RecycleInv, job # NoJob, job.step = "next", pending, ~blocked(current)
  PROVE  /\ NextPair(<<current.src, current.dst>>)
         /\ current.src \in Locations /\ current.dst \in Locations /\ current.src # current.dst
         /\ disk[current.src] # 0 /\ disk[current.dst] = 0
  <1>1. /\ job.op \in {"remove", "restore"} /\ job.a \in Removal /\ job.dir \in {"forward", "back"} /\ job.day \in 1..MaxDay
        /\ PartSlots[job.a] \in Seq(Slots) /\ job.done \in Seq(Pair) /\ JobOK
    BY JobShape
  <1>2. disk[current.src] # 0 /\ disk[current.dst] = 0 /\ current.dst \in Locations BY DEF blocked, Exists, occupied
  <1> DEFINE k == Len(job.done) + 1
             s == PartSlots[job.a][k]
  <1>3. NextPair(<<current.src, current.dst>>)
    <2>1. CASE job.dir = "back"
      <3>1. job.done # <<>> BY <2>1 DEF pending
      <3> QED BY <2>1, <3>1 DEF NextPair, current
    <2>2. CASE job.dir = "forward"
      <3>1. Len(job.done) < Total BY <2>2 DEF pending
      <3>2. k \in DOMAIN PartSlots[job.a] /\ s \in Slots BY <1>1, <3>1 DEF Total
      <3>3. CASE job.op = "restore"
        <4>1. current.src = act[job.a].recycle[k] /\ current.dst = Lib(s) BY <2>2, <3>3 DEF current
        <4>2. act[job.a].status = "succeeded" /\ act[job.a].recycle # <<>> BY <1>1, <3>3 DEF JobOK
        <4>3. RecordOK(job.a) BY <1>1 DEF RecycleInv
        <4>4. Len(act[job.a].recycle) = Len(PartSlots[job.a]) BY <4>2, <4>3 DEF RecordOK
        <4>5. act[job.a].recycle \in Seq(Locations) BY <1>1, JobShape DEF ActType
        <4>6. k \in DOMAIN act[job.a].recycle BY <1>1, <3>2, <4>4, <4>5
        <4>7. OutPair(<<Lib(s), act[job.a].recycle[k]>>) BY <4>2, <4>3, <4>6 DEF RecordOK
        <4> HIDE DEF k, s
        <4>8. InPair(<<current.src, current.dst>>) BY <4>1, <4>7 DEF InPair
        <4> QED BY <4>8, <2>2, <3>3 DEF NextPair, PairOK
      <3>4. CASE job.op = "remove"
        <4>1. current.src = Lib(s) BY <2>2, <3>4 DEF current
        <4>2. PICK n : current.dst = <<job.day, s, n>> BY <2>2, <3>4 DEF current, discDst
        <4> HIDE DEF s
        <4>3. current.dst[1] = job.day /\ current.dst[2] = s /\ job.day # 0 BY <1>1, <4>2, RecycleAssumption
        <4>4. current.dst \in BinPaths
          <5>1. current.dst \notin LibPaths BY <4>3 DEF LibPaths, Lib
          <5> QED BY <1>2, <5>1, Shapes
        <4>5. job.day <= today BY <1>1 DEF JobOK
        <4>6. OutPair(<<current.src, current.dst>>) BY <3>2, <4>1, <4>3, <4>4, <4>5 DEF OutPair
        <4> QED BY <4>1, <4>6, <2>2, <3>1, <3>4 DEF NextPair, PairOK, s
      <3> QED BY <1>1, <3>3, <3>4
    <2> QED BY <1>1, <2>1, <2>2
  <1>4. job.step \in Moving BY DEF Moving
  <1>5. OutPair(<<current.src, current.dst>>) \/ InPair(<<current.src, current.dst>>) BY <1>3, <1>4, NextEnds
  <1>6. current.src \in Locations /\ current.src # current.dst BY <1>5, PairEnds
  <1> QED BY <1>2, <1>3, <1>6

\* A copy is started: what is written does not count until it is whole.
LEMMA CopyStartKeeps ==
  ASSUME RecycleInv, job # NoJob, job.step = "next", NEW src \in Locations, NEW dst \in Locations,
         NextPair(<<src, dst>>), disk[src] > 0, disk[dst] = 0, src # dst,
         disk' = copyStart(disk, src, dst), job' = [job EXCEPT !.step = "copying", !.dst = <<src, dst>>],
         UNCHANGED <<born, erased, today, bin, act>>
  PROVE  RecycleInv' /\ KeepsPromise
  <1> DEFINE p == <<src, dst>>
  <1>1. RecycleTypes /\ Numbered /\ OneHome /\ Dated BY DEF RecycleInv
  <1>2. /\ job \in JobType /\ job.op \in {"remove", "restore"} /\ job.a \in Removal /\ job.dir \in {"forward", "back"}
        /\ job.done \in Seq(Pair) /\ JobOK /\ (job.op = "remove" => RemovalOK)
    BY JobShape
  <1>3. job.step \in Moving BY DEF Moving
  <1>4. OutPair(p) \/ InPair(p) BY <1>3, NextEnds
  <1>5. p \in Pair /\ p # <<>> BY DEF Pair
  <1>6. src[2] = dst[2] /\ (dst \in BinPaths => dst[1] <= today)
    <2>1. p[1] = src /\ p[2] = dst OBVIOUS
    <2> QED BY <1>4, <2>1, PairEnds
  <1> HIDE DEF p
  <1>7. /\ job' \in JobType /\ job'.op = job.op /\ job'.a = job.a /\ job'.day = job.day /\ job'.step = "copying"
        /\ job'.done = job.done /\ job'.lost = job.lost /\ job'.dir = job.dir /\ job'.dst = p
    <2> DEFINE x == [job EXCEPT !.step = "copying"]
               y == [x EXCEPT !.dst = p]
    <2>1. job' = y BY DEF p
    <2>2. /\ x \in JobType /\ x.op = job.op /\ x.a = job.a /\ x.day = job.day /\ x.step = "copying"
          /\ x.done = job.done /\ x.lost = job.lost /\ x.dir = job.dir
      BY <1>2 DEF JobType, Moving
    <2> HIDE DEF x
    <2>3. /\ y \in JobType /\ y.op = job.op /\ y.a = job.a /\ y.day = job.day /\ y.step = "copying"
          /\ y.done = job.done /\ y.lost = job.lost /\ y.dir = job.dir /\ y.dst = p
      BY <1>5, <2>2 DEF JobType
    <2> HIDE DEF y
    <2> QED BY <2>1, <2>3
  <1>8. job' # NoJob BY <1>7, JobTyped
  <1>9. \A l : ~beingWritten(l) BY <1>3, Written
  <1>10. \A l : beingWritten(l)' = (l = dst)
    <2>1. p[2] = dst BY DEF p
    <2>2. job'.op # "none" BY <1>2, <1>7
    <2> QED BY <2>1, <2>2, <1>5, <1>7 DEF beingWritten
  <1>11. disk[src] \in Int BY <1>1 DEF RecycleTypes
  <1>12. disk' \in [Locations -> Int] /\ disk'[dst] = -disk[src] /\ \A l \in Locations : l # dst => disk'[l] = disk[l]
    BY <1>1, <1>11 DEF copyStart, RecycleTypes
  <1>13. bin.set /\ MovesOK /\ job.day <= today BY <1>2, <1>3 DEF JobOK
  <1>14. KeepsPromise
    <2>1. \A f \in 1..MaxFiles : wholeAt(f)' = wholeAt(f)
      <3> TAKE f \in 1..MaxFiles
      <3>1. f # 0 BY RecycleAssumption
      <3>2. \A l \in Locations : (disk'[l] = f /\ ~beingWritten(l)') = (disk[l] = f /\ ~beingWritten(l))
        <4> TAKE l \in Locations
        <4>1. CASE l = dst BY <3>1, <4>1, <1>10
        <4>2. CASE l # dst BY <4>2, <1>9, <1>10, <1>12
        <4> QED BY <4>1, <4>2
      <3> QED BY <3>2 DEF wholeAt
    <2> QED BY <2>1, NothingMoves DEF KeepsPromise
  <1>15. Numbered' /\ OneHome' /\ Dated'
    <2>1. Follows(dst, disk'[dst]) BY <1>6, <1>12, <1>13 DEF Follows
    <2>2. \A l \in Locations : disk'[l] = disk[l] \/ Follows(l, disk'[l]) BY <1>12, <2>1
    <2>3. today' \in 1..MaxDay /\ today <= today' BY <1>1, RecycleAssumption DEF RecycleTypes
    <2>4. \A f \in erased' : f <= born BY <1>1 DEF Numbered
    <2> QED BY <1>1, <1>12, <2>2, <2>3, <2>4, DiskKeeps
  <1>16. \A b \in Removal : RecordOK(b)' BY DEF RecycleInv, RecordOK, OutPair
  <1>17. RecycleTypes' BY <1>1, <1>7, <1>12 DEF RecycleTypes
  <1>18. NextPair(p)' BY <1>7, Zenon DEF NextPair, PairOK, InPair, OutPair, Total, p
  <1>19. MovesOK'
    BY <1>7, <1>13, <1>18 DEF MovesOK, PairOK, InPair, OutPair, Total
  <1>20. CopyOK'
    <2>1. p[1] = src /\ p[2] = dst BY DEF p
    <2> QED BY <1>7, <1>11, <1>12, <2>1 DEF CopyOK
  <1>21. JobOK'
    <2>1. act'[job'.a].status = (IF job'.op = "remove" THEN "running" ELSE "succeeded")
          /\ (job'.op = "restore" => act'[job'.a].recycle # <<>>)
      BY <1>2, <1>7 DEF JobOK
    <2> QED BY <2>1, <1>5, <1>7, <1>13, <1>19, <1>20 DEF JobOK, Moving
  <1>22. ASSUME job.op = "remove" PROVE RemovalOK'
    <2>1. PartsHeld /\ PartsThere BY <1>2, <1>3, <1>13, <1>22 DEF RemovalOK
    <2>2. \A j \in DOMAIN job.done : job.done[j][2] \in Locations /\ job.done[j][2] # dst
      BY <1>3, <1>22, <2>1, Written, Shapes DEF PartsHeld
    <2>3. \A j \in DOMAIN job.done : disk'[job.done[j][2]] = disk[job.done[j][2]] BY <1>12, <2>2
    <2>4. p[2] = dst BY DEF p
    <2>5. PartsHeld' BY <1>7, <2>1, <2>2, <2>3, <2>4 DEF PartsHeld
    <2>6. ASSUME NEW f, f > 0, PartThere(f) PROVE PartThere(f)'
      <3>1. \A s \in Slots : disk[Lib(s)] = f => disk'[Lib(s)] = f
        <4> TAKE s \in Slots
        <4> HAVE disk[Lib(s)] = f
        <4>1. Lib(s) \in Locations /\ Lib(s) # dst BY <2>6, Shapes
        <4> QED BY <4>1, <1>12
      <3> QED BY <1>7, <2>3, <2>6, <3>1 DEF PartThere
    <2>7. PartsThere' BY <1>7, <2>1, <2>6 DEF PartsThere
    <2> QED BY <2>5, <2>7 DEF RemovalOK
  <1> QED BY <1>7, <1>8, <1>14, <1>15, <1>16, <1>17, <1>21, <1>22 DEF RecycleInv

\* A move by rename, the start of one by copy, or one that fails.
LEMMA MoveEntryKeeps ==
  ASSUME RecycleInv, moveEntry
  PROVE  RecycleInv' /\ KeepsPromise
  <1>1. job.op \in {"remove", "restore"} /\ job.step = "next" /\ pending /\ job # NoJob BY DEF moveEntry, NoJob
  <1>2. UNCHANGED <<born, erased, today, bin, act>> BY DEF moveEntry
  <1>3. RecycleTypes BY DEF RecycleInv
  <1>4. disk \in [Locations -> Int] BY <1>3 DEF RecycleTypes
  <1>5. job.step \in Moving /\ \A l : ~beingWritten(l) BY <1>1, Written DEF Moving
  <1>6. CASE /\ ~blocked(current) /\ disk' = Moved(disk, current.src, current.dst) /\ job' = Advanced(current)
    <2>1. /\ NextPair(<<current.src, current.dst>>)
          /\ current.src \in Locations /\ current.dst \in Locations /\ current.src # current.dst
          /\ disk[current.src] # 0 /\ disk[current.dst] = 0
      BY <1>1, <1>6, CurrentOK
    <2>2. PICK m : m = current OBVIOUS
    <2>3. /\ NextPair(<<m.src, m.dst>>) /\ m.src \in Locations /\ m.dst \in Locations /\ m.src # m.dst
          /\ disk[m.src] # 0 /\ disk[m.dst] = 0 /\ disk' = Moved(disk, m.src, m.dst) /\ job' = Advanced(m)
      BY <1>6, <2>1, <2>2
    <2>4. /\ disk' \in [Locations -> Int] /\ disk'[m.src] = 0 /\ disk'[m.dst] = disk[m.src]
          /\ \A l \in Locations : l # m.src /\ l # m.dst => disk'[l] = disk[l]
      BY <1>4, <2>3 DEF Moved
    <2> QED BY <1>1, <1>2, <1>5, <2>3, <2>4, AdvanceKeeps
  <1>7. CASE /\ ~blocked(current) /\ disk[current.src] > 0 /\ disk' = copyStart(disk, current.src, current.dst)
             /\ job' = [job EXCEPT !.step = "copying", !.dst = <<current.src, current.dst>>]
    <2>1. /\ NextPair(<<current.src, current.dst>>)
          /\ current.src \in Locations /\ current.dst \in Locations /\ current.src # current.dst
          /\ disk[current.dst] = 0
      BY <1>1, <1>7, CurrentOK
    <2>2. PICK src, dst : src = current.src /\ dst = current.dst OBVIOUS
    <2>3. /\ NextPair(<<src, dst>>) /\ src \in Locations /\ dst \in Locations /\ src # dst /\ disk[dst] = 0
          /\ disk[src] > 0 /\ disk' = copyStart(disk, src, dst)
          /\ job' = [job EXCEPT !.step = "copying", !.dst = <<src, dst>>]
      BY <1>7, <2>1, <2>2
    <2> QED BY <1>1, <1>2, <2>3, CopyStartKeeps
  <1>8. CASE job' = Failing /\ UNCHANGED disk
    <2>1. job.dir = "back" => job.done # <<>> BY <1>1 DEF pending
    <2>2. \A l \in Locations : IF beingWritten(l) THEN disk'[l] = 0 ELSE disk'[l] = disk[l] BY <1>5, <1>8
    <2>3. disk' \in [Locations -> Int] BY <1>4, <1>8
    <2> QED BY <1>1, <1>2, <1>5, <1>8, <2>1, <2>2, <2>3, TurnsAround
  <1> QED BY <1>6, <1>7, <1>8 DEF moveEntry

\* What is known of a copy under way.
LEMMA CopyUnderWay ==
  ASSUME RecycleInv, job # NoJob, job.step \in {"copying", "copied"}
  PROVE  /\ job.step \in Moving /\ job.dst = <<job.dst[1], job.dst[2]>> /\ NextPair(job.dst)
         /\ job.dst[1] \in Locations /\ job.dst[2] \in Locations /\ job.dst[1] # job.dst[2]
         /\ OutPair(job.dst) \/ InPair(job.dst)
         /\ \A l : beingWritten(l) = (l = job.dst[2])
         /\ job.dir = "back" => job.done # <<>>
         /\ CopyOK
  <1>1. job.step \in Moving /\ job.step # "next" BY DEF Moving
  <1>2. /\ job.dst \in Pair /\ NextPair(job.dst) /\ (OutPair(job.dst) \/ InPair(job.dst))
        /\ \A l : beingWritten(l) = (l = job.dst[2])
    BY <1>1, Written
  <1>3. job.dst[1] \in Locations /\ job.dst[2] \in Locations /\ job.dst[1] # job.dst[2] BY <1>2, PairEnds
  <1>4. job.dst = <<job.dst[1], job.dst[2]>> BY <1>2 DEF Pair
  <1>5. job.dir = "back" => job.done # <<>> BY <1>2 DEF NextPair
  <1>6. CopyOK BY JobShape DEF JobOK
  <1> QED BY <1>1, <1>2, <1>3, <1>4, <1>5, <1>6

\* A call fails.
LEMMA CallFailsKeeps ==
  ASSUME RecycleInv, CallFails
  PROVE  RecycleInv' /\ KeepsPromise
  <1>1. job.op \in {"remove", "restore"} /\ job.step \in Moving /\ job # NoJob BY DEF CallFails, NoJob, Moving
  <1>2. UNCHANGED <<born, erased, today, bin, act>> /\ job' = Failing BY DEF CallFails
  <1>3. disk \in [Locations -> Int] BY DEF RecycleInv, RecycleTypes
  <1>4. CASE job.step = "next"
    <2>1. disk' = disk /\ pending BY <1>4 DEF CallFails
    <2>2. job.dir = "back" => job.done # <<>> BY <2>1 DEF pending
    <2>3. \A l \in Locations : IF beingWritten(l) THEN disk'[l] = 0 ELSE disk'[l] = disk[l]
      BY <1>1, <1>4, <2>1, Written
    <2> QED BY <1>1, <1>2, <1>3, <2>1, <2>2, <2>3, TurnsAround
  <1>5. CASE job.step # "next"
    <2>1. disk' = Put(disk, job.dst[2], 0) BY <1>5 DEF CallFails
    <2>2. job.step \in {"copying", "copied"} BY <1>1, <1>5 DEF Moving
    <2>3. job.dst[2] \in Locations /\ (job.dir = "back" => job.done # <<>>) /\ \A l : beingWritten(l) = (l = job.dst[2])
      BY <1>1, <2>2, CopyUnderWay
    <2>4. disk' \in [Locations -> Int] /\ disk'[job.dst[2]] = 0 /\ \A l \in Locations : l # job.dst[2] => disk'[l] = disk[l]
      BY <1>3, <2>1, <2>3 DEF Put
    <2>5. \A l \in Locations : IF beingWritten(l) THEN disk'[l] = 0 ELSE disk'[l] = disk[l] BY <2>3, <2>4
    <2> QED BY <1>1, <1>2, <2>3, <2>4, <2>5, TurnsAround
  <1> QED BY <1>4, <1>5

\* The source goes, if it is still what was copied; otherwise the copy does.
LEMMA CopyAndRemoveKeeps ==
  ASSUME RecycleInv, copyAndRemove
  PROVE  RecycleInv' /\ KeepsPromise
  <1>1. job.step = "copied" /\ job # NoJob BY DEF copyAndRemove, NoJob
  <1>2. UNCHANGED <<born, erased, today, bin, act>> BY DEF copyAndRemove
  <1>3. disk \in [Locations -> Int] BY DEF RecycleInv, RecycleTypes
  <1> DEFINE m == [src |-> job.dst[1], dst |-> job.dst[2], want |-> 0]
  <1>4. /\ job.step \in Moving /\ job.dst = <<job.dst[1], job.dst[2]>> /\ NextPair(job.dst)
        /\ job.dst[1] \in Locations /\ job.dst[2] \in Locations /\ job.dst[1] # job.dst[2]
        /\ \A l : beingWritten(l) = (l = job.dst[2])
        /\ job.dir = "back" => job.done # <<>>
        /\ disk[job.dst[2]] > 0
    BY <1>1, CopyUnderWay DEF CopyOK
  <1>5. CASE disk[job.dst[1]] = disk[job.dst[2]] /\ disk' = Put(disk, job.dst[1], 0) /\ job' = Advanced(m)
    <2>1. /\ disk' \in [Locations -> Int] /\ disk'[job.dst[1]] = 0
          /\ \A l \in Locations : l # job.dst[1] => disk'[l] = disk[l]
      BY <1>3, <1>4, <1>5 DEF Put
    <2>2. m.src = job.dst[1] /\ m.dst = job.dst[2] OBVIOUS
    <2>3. PICK n : n = m OBVIOUS
    <2> HIDE DEF m
    <2>4. n.src = job.dst[1] /\ n.dst = job.dst[2] /\ job' = Advanced(n) BY <1>5, <2>2, <2>3
    <2>5. <<n.src, n.dst>> = job.dst BY <1>4, <2>4
    <2>6. NextPair(<<n.src, n.dst>>) BY <1>4, <2>5
    <2>7. /\ disk[n.src] # 0 /\ ~beingWritten(n.src) /\ beingWritten(n.dst)
          /\ disk[n.dst] = disk[n.src] /\ \A l : beingWritten(l) => l = n.dst
      <3>1. disk[job.dst[2]] # 0 BY <1>3, <1>4
      <3>2. beingWritten(job.dst[2]) /\ ~beingWritten(job.dst[1]) BY <1>4
      <3>3. \A l : beingWritten(l) => l = job.dst[2] BY <1>4
      <3> QED BY <1>5, <2>4, <3>1, <3>2, <3>3
    <2>8. /\ disk'[n.src] = 0 /\ disk'[n.dst] = disk[n.src]
          /\ \A l \in Locations : l # n.src /\ l # n.dst => disk'[l] = disk[l]
      BY <1>4, <1>5, <2>1, <2>4
    <2> QED BY <1>1, <1>2, <1>4, <2>1, <2>4, <2>6, <2>7, <2>8, AdvanceKeeps
  <1>6. CASE disk' = Put(disk, job.dst[2], 0) /\ job' = Failing
    <2>1. disk' \in [Locations -> Int] /\ disk'[job.dst[2]] = 0 /\ \A l \in Locations : l # job.dst[2] => disk'[l] = disk[l]
      BY <1>3, <1>4, <1>6 DEF Put
    <2>2. \A l \in Locations : IF beingWritten(l) THEN disk'[l] = 0 ELSE disk'[l] = disk[l] BY <1>4, <2>1
    <2> QED BY <1>1, <1>2, <1>4, <1>6, <2>1, <2>2, TurnsAround
  <1> QED BY <1>5, <1>6 DEF copyAndRemove

\* The data is copied: the copy is whole, and still does not count.
LEMMA CopyDataKeeps ==
  ASSUME RecycleInv, CopyData
  PROVE  RecycleInv' /\ KeepsPromise
  <1>1. job.step = "copying" /\ job # NoJob BY DEF CopyData, NoJob
  <1>2. UNCHANGED <<born, erased, today, bin, act>> /\ disk' = Put(disk, job.dst[2], -disk[job.dst[2]])
    BY DEF CopyData
  <1>3. RecycleTypes /\ Numbered /\ OneHome /\ Dated BY DEF RecycleInv
  <1>4. disk \in [Locations -> Int] BY <1>3 DEF RecycleTypes
  <1>5. /\ job.step \in Moving /\ NextPair(job.dst)
        /\ job.dst[1] \in Locations /\ job.dst[2] \in Locations /\ job.dst[1] # job.dst[2]
        /\ OutPair(job.dst) \/ InPair(job.dst)
        /\ \A l : beingWritten(l) = (l = job.dst[2])
        /\ CopyOK
    BY <1>1, CopyUnderWay
  <1>6. /\ job \in JobType /\ job.op \in {"remove", "restore"} /\ job.a \in Removal /\ job.dir \in {"forward", "back"}
        /\ job.done \in Seq(Pair) /\ JobOK /\ (job.op = "remove" => RemovalOK)
    BY <1>1, JobShape
  <1>7. /\ job' \in JobType /\ job' # NoJob /\ job'.op = job.op /\ job'.a = job.a /\ job'.day = job.day /\ job'.step = "copied"
        /\ job'.done = job.done /\ job'.lost = job.lost /\ job'.dir = job.dir /\ job'.dst = job.dst
    <2>1. job' = [job EXCEPT !.step = "copied"] BY DEF CopyData
    <2>2. /\ job' \in JobType /\ job'.op = job.op /\ job'.a = job.a /\ job'.day = job.day /\ job'.step = "copied"
          /\ job'.done = job.done /\ job'.lost = job.lost /\ job'.dir = job.dir /\ job'.dst = job.dst
      BY <2>1, <1>6 DEF JobType, Moving
    <2> QED BY <2>2, JobTyped
  <1>8. disk' \in [Locations -> Int] /\ disk'[job.dst[2]] = -disk[job.dst[2]]
        /\ \A l \in Locations : l # job.dst[2] => disk'[l] = disk[l]
    BY <1>2, <1>4, <1>5 DEF Put
  <1>9. \A l : beingWritten(l)' = beingWritten(l) BY <1>7 DEF beingWritten
  <1>10. KeepsPromise
    <2>1. \A f \in 1..MaxFiles : wholeAt(f)' = wholeAt(f)
      <3> TAKE f \in 1..MaxFiles
      <3>1. \A l \in Locations : (disk'[l] = f /\ ~beingWritten(l)') = (disk[l] = f /\ ~beingWritten(l))
        BY <1>5, <1>8, <1>9
      <3> QED BY <3>1 DEF wholeAt
    <2> QED BY <1>2, <2>1, NothingMoves DEF KeepsPromise
  <1>11. Numbered' /\ OneHome' /\ Dated'
    <2>1. Follows(job.dst[2], disk'[job.dst[2]]) BY <1>5, <1>8 DEF Follows
    <2>2. \A l \in Locations : disk'[l] = disk[l] \/ Follows(l, disk'[l]) BY <1>8, <2>1
    <2>3. today' \in 1..MaxDay /\ today <= today' BY <1>2, <1>3, RecycleAssumption DEF RecycleTypes
    <2>4. \A f \in erased' : f <= born BY <1>2, <1>3 DEF Numbered
    <2> QED BY <1>2, <1>3, <1>8, <2>2, <2>3, <2>4, DiskKeeps
  <1>12. \A b \in Removal : RecordOK(b)' BY <1>2 DEF RecycleInv, RecordOK, OutPair
  <1>13. RecycleTypes' BY <1>2, <1>3, <1>7, <1>8 DEF RecycleTypes
  <1>14. bin.set /\ MovesOK /\ job.day <= today BY <1>5, <1>6 DEF JobOK
  <1>15. MovesOK'
    <2>1. NextPair(job.dst)' BY <1>2, <1>5, <1>7 DEF NextPair, PairOK, InPair, OutPair, Total
    <2> QED BY <1>2, <1>7, <1>14, <2>1 DEF MovesOK, PairOK, InPair, OutPair, Total
  <1>16. CopyOK'
    <2>1. disk[job.dst[1]] \in Int /\ disk[job.dst[2]] \in Int BY <1>4, <1>5
    <2> QED BY <1>1, <1>2, <1>5, <1>7, <1>8, <2>1 DEF CopyOK
  <1>17. JobOK'
    <2>1. act'[job'.a].status = (IF job'.op = "remove" THEN "running" ELSE "succeeded")
          /\ (job'.op = "restore" => act'[job'.a].recycle # <<>>)
      BY <1>2, <1>6, <1>7 DEF JobOK
    <2>2. job.dst # <<>> BY <1>1, <1>6 DEF JobOK
    <2> QED BY <1>2, <1>7, <1>14, <1>15, <1>16, <2>1, <2>2 DEF JobOK, Moving
  <1>18. ASSUME job.op = "remove" PROVE RemovalOK'
    <2>1. PartsHeld /\ PartsThere BY <1>5, <1>6, <1>14, <1>18 DEF RemovalOK
    <2>2. \A j \in DOMAIN job.done : job.done[j][2] \in Locations /\ job.done[j][2] # job.dst[2]
      BY <1>1, <1>5, <1>18, Written, Shapes
    <2>3. \A j \in DOMAIN job.done : disk'[job.done[j][2]] = disk[job.done[j][2]] BY <1>8, <2>2
    <2>4. PartsHeld' BY <1>7, <2>1, <2>2, <2>3 DEF PartsHeld
    <2>5. ASSUME NEW f, f > 0, PartThere(f) PROVE PartThere(f)'
      <3>1. \A s \in Slots : disk[Lib(s)] = f => disk'[Lib(s)] = f
        <4> TAKE s \in Slots
        <4> HAVE disk[Lib(s)] = f
        <4>1. disk[job.dst[2]] < 0 /\ disk[job.dst[2]] \in Int BY <1>1, <1>4, <1>5 DEF CopyOK
        <4>2. Lib(s) \in Locations /\ Lib(s) # job.dst[2] BY <2>5, <4>1, Shapes
        <4> QED BY <4>2, <1>8
      <3> QED BY <1>2, <1>7, <2>3, <2>5, <3>1 DEF PartThere
    <2>6. PartsThere' BY <1>2, <1>7, <2>1, <2>5 DEF PartsThere
    <2> QED BY <2>4, <2>6 DEF RemovalOK
  <1> QED BY <1>7, <1>10, <1>11, <1>12, <1>13, <1>17, <1>18 DEF RecycleInv

\* The removal is over, or the disc is still in its place.
LEMMA RemovalDoneKeeps ==
  ASSUME RecycleInv, RemovalDone
  PROVE  RecycleInv' /\ KeepsPromise
  <1>1. job.op = "remove" /\ job.step = "next" /\ job.dir = "forward" /\ ~pending /\ job # NoJob
    BY DEF RemovalDone, NoJob
  <1>2. UNCHANGED <<disk, born, erased, today, bin>> BY DEF RemovalDone
  <1>3. RecycleTypes BY DEF RecycleInv
  <1>4. /\ job.a \in Removal /\ job.done \in Seq(Pair) /\ JobOK /\ act[job.a] \in ActType
        /\ PartSlots[job.a] \in Seq(Slots)
    BY <1>1, JobShape
  <1>5. job.step \in Moving /\ \A l : ~beingWritten(l) BY <1>1, Written DEF Moving
  <1>6. CASE job' = Failing /\ UNCHANGED act
    <2>1. \A l \in Locations : IF beingWritten(l) THEN disk'[l] = 0 ELSE disk'[l] = disk[l] BY <1>2, <1>5
    <2>2. disk' \in [Locations -> Int] /\ job.dir # "back" BY <1>1, <1>2, <1>3 DEF RecycleTypes
    <2> QED BY <1>1, <1>2, <1>5, <1>6, <2>1, <2>2, TurnsAround
  <1> DEFINE rec == [k \in 1..Total |-> job.done[k][2]]
  <1>7. CASE act' = [act EXCEPT ![job.a].status = "succeeded", ![job.a].recycle = rec] /\ job' = NoJob
    <2>1. MovesOK BY <1>4, <1>5 DEF JobOK
    <2>2. Total \in Nat /\ Len(job.done) \in Nat BY <1>4 DEF Total
    <2>3. ~(Len(job.done) < Total) BY <1>1 DEF pending
    <2>4. \A k \in 1..Total : k \in DOMAIN job.done /\ OutPair(job.done[k]) /\ job.done[k][1] = Lib(PartSlots[job.a][k])
      BY <1>1, <1>4, <2>1, <2>2, <2>3 DEF MovesOK, PairOK
    <2>5. rec \in Seq(Locations) /\ Len(rec) = Total
      <3>1. \A k \in 1..Total : job.done[k][2] \in Locations BY <2>4, PairEnds
      <3> QED BY <2>2, <3>1
    <2>6. DOMAIN rec = 1..Total /\ \A k \in DOMAIN rec : rec[k] = job.done[k][2] OBVIOUS
    <2> HIDE DEF rec
    <2>7. /\ act' \in [Removal -> ActType] /\ act'[job.a].status = "succeeded" /\ act'[job.a].recycle = rec
          /\ \A b \in Removal : b # job.a => act'[b] = act[b]
      <3> DEFINE y == [act[job.a] EXCEPT !.status = "succeeded"]
                 x == [y EXCEPT !.recycle = rec]
      <3>1. act \in [Removal -> ActType] BY <1>3 DEF RecycleTypes
      <3>2. y \in ActType /\ y.status = "succeeded" BY <1>4 DEF ActType, Statuses
      <3>3. act' = [act EXCEPT ![job.a] = x] BY <1>7
      <3> HIDE DEF y
      <3>4. x \in ActType /\ x.status = "succeeded" /\ x.recycle = rec BY <3>2, <2>5 DEF ActType
      <3> HIDE DEF x
      <3> QED BY <1>4, <3>1, <3>3, <3>4
    <2>8. \A l : beingWritten(l)' = beingWritten(l)
      <3>1. \A l : ~beingWritten(l)' BY <1>7 DEF beingWritten, NoJob
      <3>2. \A l : beingWritten(l) \in BOOLEAN /\ beingWritten(l)' \in BOOLEAN BY DEF beingWritten
      <3> QED BY <1>5, <3>1, <3>2
    <2>9. KeepsPromise /\ Numbered' /\ OneHome' /\ Dated' BY <1>2, <2>8, SameDisk
    <2>10. \A b \in Removal : RecordOK(b)'
      <3> TAKE b \in Removal
      <3>1. \A p : OutPair(p)' = OutPair(p) BY <1>2 DEF OutPair
      <3>2. CASE b # job.a
        <4>1. act'[b] = act[b] /\ RecordOK(b) BY <3>2, <2>7 DEF RecycleInv
        <4> QED BY <3>1, <4>1 DEF RecordOK
      <3>3. CASE b = job.a
        <4>1. \A k \in DOMAIN rec : OutPair(<<Lib(PartSlots[b][k]), rec[k]>>)
          <5> TAKE k \in DOMAIN rec
          <5>1. k \in 1..Total BY <2>6
          <5>2. OutPair(job.done[k]) /\ job.done[k][1] = Lib(PartSlots[b][k]) /\ rec[k] = job.done[k][2]
            BY <5>1, <2>4, <2>6, <3>3
          <5> QED BY <5>2 DEF OutPair
        <4>2. Len(rec) = Len(PartSlots[b]) BY <2>5, <3>3 DEF Total
        <4>3. act'[b].status = "succeeded" /\ act'[b].recycle = rec BY <2>7, <3>3
        <4> QED BY <3>1, <4>1, <4>2, <4>3 DEF RecordOK
      <3> QED BY <3>2, <3>3
    <2>11. RecycleTypes' BY <1>2, <1>3, <1>7, <2>7 DEF RecycleTypes
    <2> QED BY <1>7, <2>9, <2>10, <2>11 DEF RecycleInv
  <1> QED BY <1>6, <1>7 DEF RemovalDone

\* The rollback is over.
LEMMA RolledBackKeeps ==
  ASSUME RecycleInv, RolledBack
  PROVE  RecycleInv' /\ KeepsPromise
  <1>1. job.op = "remove" /\ job.step = "next" /\ job # NoJob BY DEF RolledBack, NoJob
  <1>2. UNCHANGED <<disk, born, erased, today, bin>> /\ job' = NoJob BY DEF RolledBack
  <1>3. RecycleTypes BY DEF RecycleInv
  <1>4. job.a \in Removal /\ job.lost \in Seq(Pair) /\ act[job.a] \in ActType BY <1>1, JobShape
  <1> DEFINE rec == [k \in DOMAIN job.lost |-> job.lost[k][2]]
  <1>5. rec \in Seq(Locations)
    <2>1. \A k \in DOMAIN job.lost : job.lost[k][2] \in Locations BY <1>4 DEF Pair
    <2>2. DOMAIN job.lost = 1..Len(job.lost) /\ Len(job.lost) \in Nat BY <1>4
    <2> QED BY <2>1, <2>2
  <1>6. act' = [act EXCEPT ![job.a].status = "failed", ![job.a].recycle = rec] BY DEF RolledBack
  <1> HIDE DEF rec
  <1>7. /\ act' \in [Removal -> ActType] /\ act'[job.a].status = "failed"
        /\ \A b \in Removal : b # job.a => act'[b] = act[b]
    <2> DEFINE y == [act[job.a] EXCEPT !.status = "failed"]
               x == [y EXCEPT !.recycle = rec]
    <2>1. act \in [Removal -> ActType] BY <1>3 DEF RecycleTypes
    <2>2. y \in ActType /\ y.status = "failed" BY <1>4 DEF ActType, Statuses
    <2>3. act' = [act EXCEPT ![job.a] = x] BY <1>6
    <2> HIDE DEF y
    <2>4. x \in ActType /\ x.status = "failed" BY <2>2, <1>5 DEF ActType
    <2> HIDE DEF x
    <2> QED BY <1>4, <2>1, <2>3, <2>4
  <1>8. act'[job.a].status \notin {"queued", "running", "succeeded"} BY <1>7
  <1>9. bin' = [bin EXCEPT !.content = bin'.content] BY <1>2, <1>3 DEF RecycleTypes
  <1> QED BY <1>1, <1>2, <1>7, <1>8, <1>9, OverKeeps

\* A restore begins.
LEMMA RestoreKeeps ==
  ASSUME RecycleInv, NEW a \in Removal, Restore(a)
  PROVE  RecycleInv' /\ KeepsPromise
  <1> DEFINE r == [op |-> "restore", a |-> a, step |-> "next", day |-> today, done |-> <<>>, lost |-> <<>>,
                   dir |-> "forward", dst |-> <<>>]
  <1>1. RecycleTypes BY DEF RecycleInv
  <1>2. UNCHANGED <<disk, born, erased, today, bin, act>> /\ job = NoJob /\ job' = r BY DEF Restore
  <1>3. act[a].status = "succeeded" /\ act[a].recycle # <<>> /\ bin.set BY DEF Restore, restorable, binUsable
  <1>4. job' \in JobType /\ job' # NoJob
    <2>1. today \in 1..MaxDay BY <1>1 DEF RecycleTypes
    <2>2. r \in JobType BY <2>1 DEF JobType, Moving
    <2> HIDE DEF r
    <2> QED BY <1>2, <2>2, JobTyped
  <1>5. \A l : beingWritten(l)' = beingWritten(l) BY <1>2 DEF beingWritten, NoJob
  <1>6. KeepsPromise /\ Numbered' /\ OneHome' /\ Dated' BY <1>2, <1>5, SameDisk
  <1>7. \A b \in Removal : RecordOK(b)' BY <1>2 DEF RecycleInv, RecordOK, OutPair
  <1>8. RecycleTypes' BY <1>1, <1>2, <1>4 DEF RecycleTypes
  <1>9. MovesOK' BY <1>2 DEF MovesOK
  <1>10. JobOK'
    <2>1. today \in Nat BY <1>1, RecycleAssumption DEF RecycleTypes
    <2> QED BY <1>2, <1>3, <1>9, <2>1 DEF JobOK, CopyOK, Moving
  <1>11. job'.op # "remove" BY <1>2
  <1> QED BY <1>4, <1>6, <1>7, <1>8, <1>10, <1>11 DEF RecycleInv

\* A restore is over: its record of the bin paths is cleared.
LEMMA AfterRestoreKeeps ==
  ASSUME RecycleInv, afterRestore
  PROVE  RecycleInv' /\ KeepsPromise
  <1>1. job.step = "next" /\ job # NoJob BY DEF afterRestore, NoJob
  <1>2. UNCHANGED <<disk, born, erased, today, bin>> /\ job' = NoJob
        /\ act' = [act EXCEPT ![job.a].recycle = <<>>, ![job.a].ignored = TRUE]
    BY DEF afterRestore
  <1>3. RecycleTypes BY DEF RecycleInv
  <1>4. job.a \in Removal /\ act[job.a] \in ActType BY <1>1, JobShape
  <1>5. /\ act' \in [Removal -> ActType] /\ act'[job.a].recycle = <<>>
        /\ \A b \in Removal : b # job.a => act'[b] = act[b]
    <2> DEFINE y == [act[job.a] EXCEPT !.recycle = <<>>]
               x == [y EXCEPT !.ignored = TRUE]
    <2>1. act \in [Removal -> ActType] BY <1>3 DEF RecycleTypes
    <2>2. y \in ActType /\ y.recycle = <<>>
      <3>1. PICK e : e = <<>> OBVIOUS
      <3>2. e \in Seq(Locations) BY <3>1
      <3>3. [act[job.a] EXCEPT !.recycle = e] \in ActType /\ [act[job.a] EXCEPT !.recycle = e].recycle = e BY <1>4, <3>2 DEF ActType
      <3> QED BY <3>1, <3>3
    <2>3. act' = [act EXCEPT ![job.a] = x] BY <1>2
    <2> HIDE DEF y
    <2>4. x \in ActType /\ x.recycle = <<>> BY <2>2 DEF ActType
    <2> HIDE DEF x
    <2> QED BY <1>4, <2>1, <2>3, <2>4
  <1>6. bin' = [bin EXCEPT !.content = bin'.content] BY <1>2, <1>3 DEF RecycleTypes
  <1> QED BY <1>1, <1>2, <1>5, <1>6, OverKeeps

\* A restore that failed keeps its record.
LEMMA RestoreUndoneKeeps ==
  ASSUME RecycleInv, RestoreUndone
  PROVE  RecycleInv' /\ KeepsPromise
  <1>1. job.step = "next" /\ job # NoJob BY DEF RestoreUndone, NoJob
  <1>2. UNCHANGED <<disk, born, erased, today, bin, act>> /\ job' = NoJob BY DEF RestoreUndone
  <1>3. RecycleTypes BY DEF RecycleInv
  <1>4. bin' = [bin EXCEPT !.content = bin'.content] /\ act' \in [Removal -> ActType] BY <1>2, <1>3 DEF RecycleTypes
  <1> QED BY <1>1, <1>2, <1>4, OverKeeps

\* Expired days are emptied.
LEMMA CleanKeeps ==
  ASSUME RecycleInv, CleanRecycleBin
  PROVE  RecycleInv' /\ KeepsPromise
  <1>1. RecycleTypes /\ Numbered /\ OneHome /\ Dated BY DEF RecycleInv
  <1>2. job = NoJob /\ UNCHANGED <<born, erased, today, bin, act, job>> BY DEF CleanRecycleBin
  <1>3. PICK days \in SUBSET {d \in 1..MaxDay : expired(d)} :
          disk' = [l \in Locations |-> IF l \in BinPaths /\ l[1] \in days THEN 0 ELSE disk[l]]
    BY DEF CleanRecycleBin
  <1>4. disk \in [Locations -> Int] /\ born \in Nat /\ today \in 1..MaxDay /\ MaxDay \in Nat /\ CleanupDays \in Nat
    BY <1>1, RecycleAssumption DEF RecycleTypes
  <1>5. /\ disk' \in [Locations -> Int]
        /\ \A l \in Locations : disk'[l] = IF l \in BinPaths /\ l[1] \in days THEN 0 ELSE disk[l]
    BY <1>3, <1>4
  <1>6. Numbered' /\ OneHome' /\ Dated'
    <2>1. \A l \in Locations : disk'[l] = disk[l] \/ Follows(l, disk'[l]) BY <1>5 DEF Follows
    <2>2. today' \in 1..MaxDay /\ today <= today' BY <1>2, <1>4
    <2>3. \A f \in erased' : f <= born BY <1>1, <1>2 DEF Numbered
    <2> QED BY <1>1, <1>2, <1>5, <2>1, <2>2, <2>3, DiskKeeps
  <1>7. \A b \in Removal : RecordOK(b)' BY <1>2 DEF RecycleInv, RecordOK, OutPair
  <1>8. RecycleTypes' BY <1>1, <1>2, <1>5 DEF RecycleTypes
  <1>9. \A l : ~beingWritten(l) /\ ~beingWritten(l)' BY <1>2 DEF beingWritten, NoJob
  <1>10. ASSUME NEW f \in 1..MaxFiles
         PROVE  \/ placeOf(f)' = placeOf(f)
                \/ \E d \in Int : /\ placeOf(f) = <<"bin", d>> /\ today - d > CleanupDays
                                  /\ placeOf(f)' = <<"gone", 0>> \/ \E e \in 1..d : placeOf(f)' = <<"bin", e>>
    <2>1. f # 0 /\ f \in Int BY RecycleAssumption
    <2> DEFINE W == wholeAt(f)
               V == wholeAt(f)'
    <2>2. W = {l \in Locations : disk[l] = f} BY <1>9 DEF wholeAt
    <2>3. V = {l \in W : ~(l \in BinPaths /\ l[1] \in days)} BY <1>5, <1>9, <2>1, <2>2 DEF wholeAt
    <2>4. CASE f > born \/ f \in erased BY <1>2, <2>4 DEF placeOf
    <2>5. CASE ~(f > born) /\ f \notin erased /\ W \cap LibPaths # {}
      <3>1. V \cap LibPaths # {} BY <2>3, <2>5, Shapes
      <3>2. placeOf(f) = <<"library", 0>> BY <2>5 DEF placeOf
      <3>3. placeOf(f)' = <<"library", 0>> BY <1>2, <2>5, <3>1 DEF placeOf
      <3> QED BY <3>2, <3>3
    <2>6. CASE ~(f > born) /\ f \notin erased /\ W = {}
      <3>1. V = {} BY <2>3, <2>6
      <3>2. placeOf(f) = <<"gone", 0>> BY <2>6 DEF placeOf
      <3>3. placeOf(f)' = <<"gone", 0>> BY <1>2, <2>6, <3>1 DEF placeOf
      <3> QED BY <3>2, <3>3
    <2>7. CASE ~(f > born) /\ f \notin erased /\ W \cap LibPaths = {} /\ W # {}
      <3> DEFINE D == {l[1] : l \in W}
                 E == {l[1] : l \in V}
      <3>1. placeOf(f) = <<"bin", Max(D)>> BY <2>7 DEF placeOf
      <3>2. W \subseteq BinPaths /\ V \subseteq W BY <2>2, <2>3, <2>7, Shapes
      <3>3. \A l \in W : l[1] <= today BY <1>1, <2>1, <2>2, <3>2 DEF Dated
      <3>4. V = {} => placeOf(f)' = <<"gone", 0>> BY <1>2, <2>7 DEF placeOf
      <3>5. V # {} => placeOf(f)' = <<"bin", Max(E)>>
        <4>1. V \cap LibPaths = {} BY <2>7, <3>2
        <4> QED BY <1>2, <2>7, <4>1 DEF placeOf
      <3>6. D \subseteq 1..today /\ Max(D) \in D /\ \A d \in D : Max(D) >= d
        <4> HIDE DEF W
        <4>1. today \in Nat BY <1>4
        <4> QED BY <2>7, <3>2, <3>3, <4>1, BinDay
      <3>7. V # {} => E \subseteq 1..today /\ Max(E) \in E /\ \A d \in E : Max(E) >= d
        <4> HIDE DEF V
        <4>1. today \in Nat /\ V \subseteq BinPaths /\ \A l \in V : l[1] <= today BY <1>4, <3>2, <3>3
        <4> QED BY <4>1, BinDay
      <3>8. E \subseteq D BY <3>2
      <3>9. \A l \in W : l \in V \/ l[1] \in days BY <2>3
      <3>10. \A d \in days : today - d > CleanupDays
        <4> TAKE d \in days
        <4>1. d \in 1..MaxDay /\ expired(d) OBVIOUS
        <4> QED BY <4>1, <1>4 DEF expired
      <3>11. Max(D) \in E \/ Max(D) \in days
        <4>1. PICK l \in W : Max(D) = l[1] BY <3>6
        <4> QED BY <4>1, <3>9
      <3> DEFINE d == Max(D)
                 e == Max(E)
      <3>12. d \in 1..today /\ d \in Int BY <3>6
      <3>13. CASE d \in E
        <4>1. V # {} BY <3>13
        <4>2. e \in D /\ e >= d /\ d >= e /\ e \in 1..today BY <3>6, <3>7, <3>8, <3>13, <4>1
        <4> HIDE DEF d, e
        <4>3. e = d BY <3>12, <4>2
        <4> QED BY <3>1, <3>5, <4>1, <4>3 DEF d, e
      <3>14. CASE d \in days
        <4>1. V # {} => e \in 1..d
          <5> HAVE V # {}
          <5>1. e \in D /\ d >= e /\ e \in 1..today BY <3>6, <3>7, <3>8
          <5> HIDE DEF d, e
          <5> QED BY <3>12, <5>1
        <4>2. today - d > CleanupDays BY <3>10, <3>14
        <4>3. placeOf(f) = <<"bin", d>> BY <3>1
        <4>4. placeOf(f)' = <<"gone", 0>> \/ \E x \in 1..d : placeOf(f)' = <<"bin", x>>
          BY <3>4, <3>5, <4>1
        <4> HIDE DEF d
        <4> QED BY <3>12, <4>2, <4>3, <4>4
      <3> QED BY <3>11, <3>13, <3>14
    <2> QED BY <2>4, <2>5, <2>6, <2>7
  <1>11. KeepsPromise
    <2>1. ASSUME NEW f \in 1..MaxFiles
          PROVE  \/ Whereabouts'[f] = Whereabouts[f]
                 \/ /\ Whereabouts[f][1] = "bin" /\ today - Whereabouts[f][2] > CleanupDays
                    /\ Whereabouts'[f] = Promise!Gone \/ \E e \in 1..Whereabouts[f][2] : Whereabouts'[f] = Promise!Recycled(e)
      <3>1. Whereabouts[f] = placeOf(f) /\ Whereabouts'[f] = placeOf(f)' BY DEF Whereabouts
      <3>2. CASE placeOf(f)' = placeOf(f) BY <3>1, <3>2
      <3>3. CASE placeOf(f)' # placeOf(f)
        <4>1. PICK d \in Int : /\ placeOf(f) = <<"bin", d>> /\ today - d > CleanupDays
                               /\ placeOf(f)' = <<"gone", 0>> \/ \E e \in 1..d : placeOf(f)' = <<"bin", e>>
          BY <1>10, <3>3
        <4>2. Whereabouts[f][1] = "bin" /\ Whereabouts[f][2] = d BY <3>1, <4>1
        <4> QED BY <3>1, <4>1, <4>2 DEF Promise!Gone, Promise!Recycled
      <3> QED BY <3>2, <3>3
    <2>2. Whereabouts' = [f \in 1..MaxFiles |-> Whereabouts'[f]] BY DEF Whereabouts
    <2> QED BY <1>2, <2>1, <2>2, Zenon DEF KeepsPromise, Promise!CustodyNext, Promise!Expire, Promise!Overdue, Whereabouts
  <1> QED BY <1>2, <1>6, <1>7, <1>8, <1>11 DEF RecycleInv

-----------------------------------------------------------------------------
(* What happens around a job.                                              *)

\* A job at hand does not mind that time passes, or what the library's owner
\* does.
LEMMA JobStays ==
  ASSUME RecycleInv, job' = job, act' = act, bin'.set = bin.set, today <= today', today' \in 1..MaxDay,
         disk' \in [Locations -> Int], \A l \in BinPaths : disk'[l] = disk[l], erased \subseteq erased',
         \A s \in Slots : disk'[Lib(s)] = disk[Lib(s)] \/ disk[Lib(s)] = 0 \/ disk[Lib(s)] \in erased',
         \A l : beingWritten(l) => disk'[l] = disk[l]
  PROVE  /\ \A b \in Removal : RecordOK(b)'
         /\ job # NoJob => JobOK' /\ (job.op = "remove" => RemovalOK')
  <1>1. RecycleTypes BY DEF RecycleInv
  <1>2. today \in 1..MaxDay /\ MaxDay \in Nat BY <1>1, RecycleAssumption DEF RecycleTypes
  <1>3. \A p : OutPair(p) => OutPair(p)'
    <2> SUFFICES ASSUME NEW p, OutPair(p) PROVE OutPair(p)' OBVIOUS
    <2>1. p[2] \in BinPaths /\ p[2][1] <= today /\ p[2][1] \in 1..MaxDay BY Shapes DEF OutPair
    <2>2. p[2][1] <= today' BY <2>1, <1>2
    <2> QED BY <2>2 DEF OutPair
  <1>4. \A op, p : PairOK(op, p) => PairOK(op, p)' BY <1>3 DEF PairOK, InPair
  <1>5. \A b \in Removal : RecordOK(b)'
    <2> TAKE b \in Removal
    <2>1. RecordOK(b) BY DEF RecycleInv
    <2> QED BY <1>3, <2>1 DEF RecordOK
  <1>6. ASSUME job # NoJob PROVE JobOK'
    <2>1. JobOK /\ job \in JobType BY <1>6, JobShape
    <2>2. job.step \in Moving => MovesOK'
      <3> HAVE job.step \in Moving
      <3>1. MovesOK BY <2>1 DEF JobOK
      <3>2. ASSUME job.step # "next" PROVE NextPair(job.dst)'
        <4>1. NextPair(job.dst) BY <3>1, <3>2 DEF MovesOK
        <4> QED BY <4>1, <1>4 DEF NextPair, Total
      <3> QED BY <3>1, <3>2, <1>4 DEF MovesOK, Total
    <2>3. CopyOK'
      <3>1. ASSUME job.step \in {"copying", "copied"}
            PROVE  /\ disk'[job.dst[2]] = disk[job.dst[2]]
                   /\ disk'[job.dst[1]] = disk[job.dst[1]] \/ disk[job.dst[1]] = 0 \/ disk[job.dst[1]] \in erased'
        <4>1. job.dst[1] \in Locations /\ beingWritten(job.dst[2]) BY <1>6, <3>1, CopyUnderWay
        <4>2. CASE job.dst[1] \in BinPaths BY <4>1, <4>2
        <4>3. CASE job.dst[1] \in LibPaths
          <5>1. job.dst[1][2] \in Slots /\ job.dst[1] = Lib(job.dst[1][2]) BY <4>3, Shapes
          <5>2. PICK s \in Slots : job.dst[1] = Lib(s) BY <5>1
          <5> QED BY <4>1, <5>2
        <4> QED BY <4>1, <4>2, <4>3, Shapes
      <3>2. CASE job.step = "copying"
        <4>1. /\ disk[job.dst[2]] < 0 /\ job.dst[1] \in Locations /\ job.dst[2] \in Locations
              /\ disk[job.dst[1]] = -disk[job.dst[2]] \/ -disk[job.dst[2]] \in erased
          BY <1>6, <3>2, CopyUnderWay DEF CopyOK
        <4>2. disk[job.dst[1]] \in Int /\ disk[job.dst[2]] \in Int BY <4>1, <1>1 DEF RecycleTypes
        <4> QED BY <3>1, <3>2, <4>1, <4>2 DEF CopyOK
      <3>3. CASE job.step = "copied"
        <4>1. /\ disk[job.dst[2]] > 0 /\ job.dst[1] \in Locations /\ job.dst[2] \in Locations
              /\ disk[job.dst[1]] = disk[job.dst[2]] \/ disk[job.dst[2]] \in erased
          BY <1>6, <3>3, CopyUnderWay DEF CopyOK
        <4>2. disk[job.dst[1]] \in Int /\ disk[job.dst[2]] \in Int BY <4>1, <1>1 DEF RecycleTypes
        <4> QED BY <3>1, <3>3, <4>1, <4>2 DEF CopyOK
      <3> QED BY <3>2, <3>3 DEF CopyOK
    <2>4. job.day <= today'
      <3>1. job.day \in 1..MaxDay /\ job.day <= today BY <2>1 DEF JobOK, JobType
      <3> QED BY <3>1, <1>2
    <2> QED BY <2>1, <2>2, <2>3, <2>4 DEF JobOK, Total
  <1>7. ASSUME job # NoJob, job.op = "remove" PROVE RemovalOK'
    <2>1. JobOK /\ RemovalOK /\ job.done \in Seq(Pair)
          /\ job.step \in {"planned", "pinned", "deleting"} \cup Moving
      BY <1>7, JobShape
    <2>2. bin.set => \A j \in DOMAIN job.done : disk'[job.done[j][2]] = disk[job.done[j][2]]
      <3> HAVE bin.set
      <3>1. CASE job.step \in Moving
        <4>1. \A j \in DOMAIN job.done : job.done[j][2] \in BinPaths BY <3>1, <1>7, Written
        <4> QED BY <4>1
      <3>2. CASE job.step \notin Moving
        <4>1. job.done = <<>> BY <2>1, <3>2 DEF JobOK
        <4> QED BY <4>1
      <3> QED BY <3>1, <3>2
    <2>3. job.step \in Moving => bin.set BY <2>1 DEF JobOK
    <2>4. job.step \in Moving => PartsHeld' BY <2>1, <2>2, <2>3 DEF RemovalOK, PartsHeld
    <2>5. ASSUME bin.set PROVE PartsThere'
      <3>1. PartsThere BY <2>1, <2>5 DEF RemovalOK
      <3>2. ASSUME NEW f, f > 0, PartThere(f) PROVE PartThere(f)'
        <4>1. CASE f \in erased \/ job.lost # <<>> BY <4>1 DEF PartThere
        <4>2. CASE \E s \in Slots : disk[Lib(s)] = f
          <5>1. PICK s \in Slots : disk[Lib(s)] = f BY <4>2
          <5>2. f # 0 BY <3>2, <5>1, <1>1, Shapes DEF RecycleTypes
          <5>3. disk'[Lib(s)] = f \/ f \in erased' BY <5>1, <5>2
          <5> QED BY <5>3 DEF PartThere
        <4>3. CASE \E j \in DOMAIN job.done : disk[job.done[j][2]] = f BY <4>3, <2>2, <2>5 DEF PartThere
        <4> QED BY <3>2, <4>1, <4>2, <4>3 DEF PartThere
      <3> QED BY <3>1, <3>2 DEF PartsThere
    <2> QED BY <2>4, <2>5 DEF RemovalOK
  <1> QED BY <1>5, <1>6, <1>7

\* The process dies: what was being written counts from now on.
LEMMA CrashKeeps ==
  ASSUME RecycleInv, Crash
  PROVE  RecycleInv' /\ KeepsPromise
  <1>1. RecycleTypes /\ Numbered /\ OneHome /\ Dated BY DEF RecycleInv
  <1>2. job # NoJob /\ job' = NoJob /\ UNCHANGED <<disk, born, erased, today, bin>> BY DEF Crash
  <1>3. job.a \in Removal /\ job.op \in {"remove", "restore"} BY <1>2, JobShape
  <1>4. act \in [Removal -> ActType] /\ today \in 1..MaxDay /\ MaxDay \in Nat BY <1>1, RecycleAssumption DEF RecycleTypes
  <1>5. /\ act' \in [Removal -> ActType] /\ \A b \in Removal : b # job.a => act'[b] = act[b]
        /\ act'[job.a] = act[job.a] \/ act'[job.a].status = "interrupted"
    <2>1. CASE job.op = "remove"
      <3>1. act' = [act EXCEPT ![job.a].status = "interrupted"] /\ "interrupted" \in Statuses
        BY <2>1 DEF Crash, Statuses
      <3> QED BY <1>3, <1>4, <3>1, Marked
    <2>2. CASE job.op # "remove" BY <1>4, <2>2 DEF Crash
    <2> QED BY <2>1, <2>2
  <1>6. \A b \in Removal : RecordOK(b)'
    <2>1. today' \in 1..MaxDay /\ today <= today' BY <1>2, <1>4
    <2>2. act'[job.a] = act[job.a] \/ act'[job.a].status \notin {"queued", "running", "succeeded"} BY <1>5
    <2> QED BY <1>3, <1>5, <2>1, <2>2, RecordsKeep
  <1>7. RecycleTypes' BY <1>1, <1>2, <1>5 DEF RecycleTypes
  <1>8. Numbered' /\ OneHome' /\ Dated'
    <2>1. today' \in 1..MaxDay /\ today <= today' BY <1>2, <1>4
    <2>2. disk' \in [Locations -> Int] /\ \A l \in Locations : disk'[l] = disk[l] BY <1>1, <1>2 DEF RecycleTypes
    <2>3. \A f \in erased' : f <= born BY <1>1, <1>2 DEF Numbered
    <2> QED BY <1>1, <1>2, <2>1, <2>2, <2>3, DiskKeeps
  <1>9. \A l : ~beingWritten(l)' BY <1>2 DEF beingWritten, NoJob
  <1>10. KeepsPromise
    <2>1. CASE job.step # "copied"
      <3>1. ASSUME NEW f \in 1..MaxFiles, NEW l \in Locations, disk[l] = f PROVE ~beingWritten(l)
        <4>1. CASE job.step = "copying"
          <5>1. disk[job.dst[2]] < 0 /\ (beingWritten(l) => l = job.dst[2]) BY <1>2, <4>1, CopyUnderWay DEF CopyOK
          <5> QED BY <3>1, <5>1, RecycleAssumption
        <4>2. CASE job.step # "copying" BY <1>2, <2>1, <4>2, NotWriting
        <4> QED BY <4>1, <4>2
      <3>2. \A f \in 1..MaxFiles : wholeAt(f)' = wholeAt(f) BY <1>2, <1>9, <3>1 DEF wholeAt
      <3> QED BY <1>2, <3>2, NothingMoves DEF KeepsPromise
    <2>2. CASE job.step = "copied"
      <3>1. PICK p : p = job.dst OBVIOUS
      <3>2. /\ p[1] \in Locations /\ p[2] \in Locations /\ p[1] # p[2] /\ (OutPair(p) \/ InPair(p))
            /\ \A l : beingWritten(l) = (l = p[2])
            /\ disk[p[2]] > 0 /\ (disk[p[1]] = disk[p[2]] \/ disk[p[2]] \in erased)
        BY <1>2, <2>2, <3>1, CopyUnderWay DEF CopyOK
      <3>3. PICK f : f = disk[p[2]] OBVIOUS
      <3>4. f \in Nat \ {0} /\ f <= born /\ born \in Nat BY <1>1, <3>2, <3>3 DEF RecycleTypes, Numbered
      <3>5. \A g \in 1..MaxFiles : g # f => wholeAt(g)' = wholeAt(g)
        BY <1>2, <1>9, <3>2, <3>3 DEF wholeAt
      <3>6. wholeAt(f)' = wholeAt(f) \cup {p[2]}
        BY <1>2, <1>9, <3>2, <3>3 DEF wholeAt
      <3>7. CASE f \in erased
        <4>1. \A g \in 1..MaxFiles : g \notin erased => wholeAt(g)' = wholeAt(g) BY <3>5, <3>7
        <4> QED BY <1>2, <4>1, NothingMoves DEF KeepsPromise
      <3>8. CASE f \notin erased
        <4>1. p[1] \in wholeAt(f) BY <3>2, <3>3, <3>8 DEF wholeAt
        <4>2. CASE OutPair(p)
          <5>1. p[1] \in LibPaths BY <4>2, PairEnds
          <5>2. placeOf(f)' = placeOf(f) BY <1>2, <3>6, <4>1, <5>1 DEF placeOf
          <5>3. \A g \in 1..MaxFiles : placeOf(g)' = placeOf(g) BY <1>2, <3>5, <5>2 DEF placeOf
          <5>4. Whereabouts' = Whereabouts BY <5>3 DEF Whereabouts
          <5> QED BY <1>2, <5>4 DEF KeepsPromise
        <4>3. CASE InPair(p)
          <5>1. disk'[p[2]] = f BY <1>2, <3>3
          <5> QED BY <1>1, <1>2, <1>8, <3>2, <3>4, <3>5, <3>6, <3>8, <4>1, <4>3, <5>1, Relocated
        <4> QED BY <3>2, <4>2, <4>3
      <3> QED BY <3>7, <3>8
    <2> QED BY <2>1, <2>2
  <1> QED BY <1>2, <1>6, <1>7, <1>8, <1>10 DEF RecycleInv

\* A file arrives in the library.
LEMMA AppearKeeps ==
  ASSUME RecycleInv, NEW s \in Slots, Appear(s)
  PROVE  RecycleInv' /\ KeepsPromise
  <1>1. RecycleTypes /\ Numbered /\ OneHome /\ Dated BY DEF RecycleInv
  <1>2. /\ disk[Lib(s)] = 0 /\ born < MaxFiles /\ born' = born + 1 /\ disk' = Put(disk, Lib(s), born + 1)
        /\ UNCHANGED <<erased, today, bin, act, job, faultsLeft>>
    BY DEF Appear
  <1>3. Lib(s) \in Locations /\ Lib(s) \in LibPaths /\ Lib(s) \notin BinPaths /\ Lib(s)[2] = s BY Shapes
  <1>4. disk \in [Locations -> Int] /\ born \in Nat /\ MaxFiles \in Nat /\ today \in 1..MaxDay /\ MaxDay \in Nat
    BY <1>1, RecycleAssumption DEF RecycleTypes
  <1>5. disk' \in [Locations -> Int] /\ disk'[Lib(s)] = born + 1 /\ \A l \in Locations : l # Lib(s) => disk'[l] = disk[l]
    BY <1>2, <1>3, <1>4 DEF Put
  <1>6. \A l \in Locations : disk[l] \in Int /\ disk[l] <= born /\ -disk[l] <= born BY <1>1, <1>4 DEF Numbered
  <1>7. Numbered'
    <2>1. \A l \in Locations : disk'[l] <= born + 1 /\ -disk'[l] <= born + 1
      <3> TAKE l \in Locations
      <3>1. CASE l = Lib(s) BY <3>1, <1>4, <1>5
      <3>2. CASE l # Lib(s)
        <4>1. disk'[l] = disk[l] BY <3>2, <1>5
        <4> QED BY <4>1, <1>4, <1>6
      <3> QED BY <3>1, <3>2
    <2>2. \A f \in erased : f \in Int /\ f <= born BY <1>1 DEF RecycleTypes, Numbered
    <2>3. \A f \in erased : f <= born + 1 BY <1>4, <2>2
    <2> QED BY <1>2, <2>1, <2>3 DEF Numbered
  <1>8. OneHome'
    <2> SUFFICES ASSUME NEW l \in Locations, NEW m \in Locations,
                        disk'[l] # 0, disk'[l] = disk'[m] \/ disk'[l] = -disk'[m]
                 PROVE  l[2] = m[2]
      BY DEF OneHome
    <2>1. CASE l = Lib(s) /\ m = Lib(s) BY <2>1
    <2>2. CASE l = Lib(s) /\ m # Lib(s) BY <2>2, <1>4, <1>5, <1>6
    <2>3. CASE l # Lib(s) /\ m = Lib(s) BY <2>3, <1>4, <1>5, <1>6
    <2>4. CASE l # Lib(s) /\ m # Lib(s)
      <3>1. disk'[l] = disk[l] /\ disk'[m] = disk[m] BY <2>4, <1>5
      <3> QED BY <3>1, <1>1 DEF OneHome
    <2> QED BY <2>1, <2>2, <2>3, <2>4
  <1>9. \A l \in BinPaths : disk'[l] = disk[l] BY <1>3, <1>5, Shapes
  <1>10. Dated' BY <1>1, <1>2, <1>9 DEF Dated
  <1>11. ~beingWritten(Lib(s))
    <2>1. CASE job = NoJob \/ job.step \notin {"copying", "copied"} BY <2>1, NotWriting
    <2>2. CASE job # NoJob /\ job.step \in {"copying", "copied"}
      <3>1. (beingWritten(Lib(s)) => Lib(s) = job.dst[2]) /\ CopyOK BY <2>2, CopyUnderWay
      <3>2. disk[job.dst[2]] < 0 \/ disk[job.dst[2]] > 0 BY <2>2, <3>1 DEF CopyOK
      <3> QED BY <3>1, <3>2, <1>2
    <2> QED BY <2>1, <2>2
  <1>12. \A l : beingWritten(l)' = beingWritten(l) BY <1>2 DEF beingWritten
  <1>13. /\ \A b \in Removal : RecordOK(b)'
         /\ job # NoJob => JobOK' /\ (job.op = "remove" => RemovalOK')
    <2>1. \A t \in Slots : disk'[Lib(t)] = disk[Lib(t)] \/ disk[Lib(t)] = 0 BY <1>2, <1>5, Shapes
    <2>2. \A l : beingWritten(l) => disk'[l] = disk[l]
      <3>1. \A l : beingWritten(l) => l \in Locations
        <4> TAKE l
        <4> HAVE beingWritten(l)
        <4>1. job # NoJob /\ job.step \in {"copying", "copied"} BY NotWriting
        <4> QED BY <4>1, CopyUnderWay
      <3> QED BY <3>1, <1>5, <1>11
    <2>3. today <= today' /\ today' \in 1..MaxDay BY <1>2, <1>4
    <2> QED BY <1>2, <1>5, <1>9, <2>1, <2>2, <2>3, JobStays
  <1>14. RecycleTypes'
    <2>1. born + 1 \in Nat BY <1>4
    <2> QED BY <1>1, <1>2, <1>5, <2>1 DEF RecycleTypes
  <1>15. KeepsPromise
    <2>1. PICK f : f = born + 1 OBVIOUS
    <2>2. f \in 1..MaxFiles /\ f > born BY <1>2, <1>4, <2>1
    <2>3. placeOf(f) = <<"unborn", 0>> BY <2>2, Placed
    <2>4. placeOf(f)' = <<"library", 0>>
      <3>1. f \notin erased' BY <1>1, <1>2, <1>4, <2>2 DEF Numbered
      <3>2. ~(f > born') BY <1>2, <1>4, <2>1
      <3>3. Lib(s) \in wholeAt(f)' BY <1>3, <1>5, <1>11, <1>12, <2>1 DEF wholeAt
      <3> QED BY <1>3, <3>1, <3>2, <3>3 DEF placeOf
    <2>5. \A g \in 1..MaxFiles : g # f => placeOf(g)' = placeOf(g)
      <3> TAKE g \in 1..MaxFiles
      <3> HAVE g # f
      <3>1. g # 0 BY RecycleAssumption
      <3>2. wholeAt(g)' = wholeAt(g) BY <1>2, <1>3, <1>5, <1>12, <2>1, <3>1 DEF wholeAt
      <3>3. (g > born') = (g > born) BY <1>2, <1>4, <2>1
      <3> QED BY <1>2, <3>2, <3>3 DEF placeOf
    <2>6. Whereabouts' = [Whereabouts EXCEPT ![f] = placeOf(f)'] BY <1>2, <2>2, <2>5, OneMoves
    <2>7. Whereabouts[f] = Promise!Unborn /\ Whereabouts' = [Whereabouts EXCEPT ![f] = Promise!InLibrary]
      BY <2>2, <2>3, <2>4, <2>6 DEF Whereabouts, Promise!Unborn, Promise!InLibrary
    <2> QED BY <1>2, <2>2, <2>7 DEF KeepsPromise, Promise!CustodyNext, Promise!Arrive, Whereabouts
  <1> QED BY <1>2, <1>7, <1>8, <1>10, <1>13, <1>14, <1>15 DEF RecycleInv

\* The library's owner removes a file.
LEMMA EraseKeeps ==
  ASSUME RecycleInv, NEW s \in Slots, Erase(s)
  PROVE  RecycleInv' /\ KeepsPromise
  <1>1. /\ disk' = Put(disk, Lib(s), 0) /\ erased' = erased \cup {disk[Lib(s)]} /\ ~beingWritten(Lib(s))
        /\ UNCHANGED <<born, today, bin, act, job, faultsLeft>>
    BY DEF Erase
  <1>2. RecycleTypes /\ today \in 1..MaxDay /\ MaxDay \in Nat BY RecycleAssumption DEF RecycleInv, RecycleTypes
  <1>3. \A l : beingWritten(l)' = beingWritten(l) BY <1>1 DEF beingWritten
  <1>4. /\ KeepsPromise /\ Numbered' /\ OneHome' /\ Dated' /\ disk' \in [Locations -> Int] /\ erased' \subseteq Int
        /\ \A l \in Locations : l # Lib(s) => disk'[l] = disk[l]
    <2>1. disk[Lib(s)] \in erased' /\ erased \subseteq erased' /\ erased' \subseteq erased \cup {disk[Lib(s)]} BY <1>1
    <2> QED BY <1>1, <1>3, <2>1, Emptied
  <1>5. /\ \A b \in Removal : RecordOK(b)'
        /\ job # NoJob => JobOK' /\ (job.op = "remove" => RemovalOK')
    <2>1. \A t \in Slots : disk'[Lib(t)] = disk[Lib(t)] \/ disk[Lib(t)] \in erased' BY <1>1, <1>4, Shapes
    <2>2. \A l \in BinPaths : disk'[l] = disk[l] BY <1>4, Shapes
    <2>3. \A l : beingWritten(l) => disk'[l] = disk[l]
      <3>1. \A l : beingWritten(l) => l \in Locations
        <4> TAKE l
        <4> HAVE beingWritten(l)
        <4>1. job # NoJob /\ job.step \in {"copying", "copied"} BY NotWriting
        <4> QED BY <4>1, CopyUnderWay
      <3> QED BY <3>1, <1>1, <1>4
    <2>4. today <= today' /\ today' \in 1..MaxDay BY <1>1, <1>2
    <2> QED BY <1>1, <1>4, <2>1, <2>2, <2>3, <2>4, JobStays
  <1>6. RecycleTypes' BY <1>1, <1>2, <1>4 DEF RecycleTypes
  <1> QED BY <1>1, <1>4, <1>5, <1>6 DEF RecycleInv

\* A step that changes nothing of the bin, or only where its folder may be.
LEMMA OthersKeep ==
  ASSUME RecycleInv, UNCHANGED <<disk, born, erased, today, act, job>>,
         bin' = [set |-> bin.set, problems |-> bin'.problems, content |-> bin'.content, device |-> bin'.device]
  PROVE  RecycleInv' /\ KeepsPromise
  <1>1. RecycleTypes BY DEF RecycleInv
  <1>2. \A l : beingWritten(l)' = beingWritten(l) BY DEF beingWritten
  <1>3. bin'.set = bin.set OBVIOUS
  <1>4. KeepsPromise /\ Numbered' /\ OneHome' /\ Dated' BY <1>2, <1>3, SameDisk
  <1>5. RecycleTypes' BY <1>1, <1>3 DEF RecycleTypes
  <1>6. today <= today' /\ today' \in 1..MaxDay /\ disk' \in [Locations -> Int]
    BY <1>1, RecycleAssumption DEF RecycleTypes
  <1>7. /\ \A b \in Removal : RecordOK(b)'
        /\ job # NoJob => JobOK' /\ (job.op = "remove" => RemovalOK')
    BY <1>3, <1>6, JobStays
  <1> QED BY <1>4, <1>5, <1>7 DEF RecycleInv

\* Time passes.
LEMMA NextDayKeeps ==
  ASSUME RecycleInv, NextDay
  PROVE  RecycleInv' /\ KeepsPromise
  <1>1. RecycleTypes /\ Numbered /\ OneHome /\ Dated BY DEF RecycleInv
  <1>2. today < MaxDay /\ today' = today + 1 /\ UNCHANGED <<disk, born, erased, bin, act, job>> BY DEF NextDay
  <1>3. today \in 1..MaxDay /\ MaxDay \in Nat BY <1>1, RecycleAssumption DEF RecycleTypes
  <1>4. today' \in 1..MaxDay /\ today <= today' BY <1>2, <1>3
  <1>5. disk' \in [Locations -> Int] /\ \A l \in Locations : disk'[l] = disk[l] BY <1>1, <1>2 DEF RecycleTypes
  <1>6. Numbered' /\ OneHome' /\ Dated'
    <2>1. \A f \in erased' : f <= born BY <1>1, <1>2 DEF Numbered
    <2> QED BY <1>1, <1>2, <1>4, <1>5, <2>1, DiskKeeps
  <1>7. /\ \A b \in Removal : RecordOK(b)'
        /\ job # NoJob => JobOK' /\ (job.op = "remove" => RemovalOK')
    BY <1>2, <1>4, <1>5, JobStays
  <1>8. RecycleTypes' BY <1>1, <1>2, <1>4, <1>5 DEF RecycleTypes
  <1>9. KeepsPromise
    <2>1. \A f \in 1..MaxFiles : placeOf(f)' = placeOf(f) BY <1>2 DEF placeOf, wholeAt, beingWritten
    <2>2. Whereabouts' = Whereabouts BY <2>1 DEF Whereabouts
    <2> QED BY <1>2, <2>2 DEF KeepsPromise, Promise!CustodyNext, Whereabouts
  <1> QED BY <1>2, <1>6, <1>7, <1>8, <1>9 DEF RecycleInv

-----------------------------------------------------------------------------
(* Every step of the library.                                              *)

\* At first every file of the library is on its path, and no other is born.
LEMMA BinInitially == RecycleInit => RecycleInv /\ Promise!CustodyInit
  <1> SUFFICES ASSUME RecycleInit PROVE RecycleInv /\ Promise!CustodyInit OBVIOUS
  <1>1. Cardinality(Slots) \in Nat BY FS_CardinalityType, RecycleAssumption
  <1>2. MaxDay \in Nat \ {0} /\ MaxFiles \in Nat BY RecycleAssumption
  <1>3. \A s \in Slots : SlotInfo[s].file \in 1..Cardinality(Slots) BY RecycleAssumption
  <1>4. /\ born = Cardinality(Slots) /\ erased = {} /\ today = 1 /\ job = NoJob
        /\ act = [a \in Removal |-> [status |-> "queued", ids |-> <<>>, recycle |-> <<>>, ignored |-> FALSE]]
        /\ disk = [l \in Locations |-> IF l \in LibPaths THEN SlotInfo[l[2]].file ELSE 0]
    BY DEF RecycleInit
  <1>5. \A s \in Slots : disk[Lib(s)] = SlotInfo[s].file BY <1>4, Shapes
  <1>6. \A l \in BinPaths : disk[l] = 0 BY <1>4, Shapes
  <1>7. disk \in [Locations -> Int]
    <2>1. \A l \in LibPaths : SlotInfo[l[2]].file \in Int BY <1>1, <1>3, Shapes
    <2> QED BY <1>4, <2>1
  <1>8. \A l \in Locations : (l \in BinPaths /\ disk[l] = 0)
                             \/ (l \in LibPaths /\ l[2] \in Slots /\ disk[l] = SlotInfo[l[2]].file /\ disk[l] \in 1..born)
    <2> TAKE l \in Locations
    <2>1. CASE l \in BinPaths BY <2>1, <1>6
    <2>2. CASE l \in LibPaths BY <2>2, <1>3, <1>4, Shapes
    <2> QED BY <2>1, <2>2, Shapes
  <1>9. RecycleTypes
    <2>1. today \in 1..MaxDay /\ born \in Nat BY <1>1, <1>2, <1>4
    <2>2. bin = [set |-> bin.set, problems |-> bin.problems, content |-> bin.content, device |-> bin.device] /\ bin.set \in BOOLEAN
      BY RecycleAssumption DEF RecycleInit
    <2>3. act \in [Removal -> ActType]
      <3> DEFINE r == [status |-> "queued", ids |-> <<>>, recycle |-> <<>>, ignored |-> FALSE]
      <3>1. r \in ActType BY DEF ActType, Statuses
      <3> HIDE DEF r
      <3>2. act = [a \in Removal |-> r] BY <1>4 DEF r
      <3> QED BY <3>1, <3>2
    <2> QED BY <1>4, <1>7, <2>1, <2>2, <2>3 DEF RecycleTypes
  <1>10. Numbered
    <2>1. \A l \in Locations : disk[l] <= born /\ -disk[l] <= born
      <3> TAKE l \in Locations
      <3>1. disk[l] = 0 \/ disk[l] \in 1..born BY <1>8
      <3> QED BY <3>1, <1>1, <1>4
    <2> QED BY <1>4, <2>1 DEF Numbered
  <1>11. OneHome
    <2> SUFFICES ASSUME NEW l \in Locations, NEW m \in Locations, disk[l] # 0, disk[l] = disk[m] \/ disk[l] = -disk[m]
                 PROVE  l[2] = m[2]
      BY DEF OneHome
    <2>1. l \in LibPaths /\ l[2] \in Slots /\ disk[l] = SlotInfo[l[2]].file /\ disk[l] \in 1..born BY <1>8
    <2>2. disk[m] # 0 BY <2>1, <1>1, <1>4
    <2>3. m[2] \in Slots /\ disk[m] = SlotInfo[m[2]].file /\ disk[m] \in 1..born BY <1>8, <2>2
    <2>4. disk[l] = disk[m] BY <2>1, <2>3, <1>1, <1>4
    <2> QED BY <2>1, <2>3, <2>4, RecycleAssumption
  <1>12. Dated BY <1>6 DEF Dated
  <1>13. \A a \in Removal : RecordOK(a) BY <1>4 DEF RecordOK
  <1>14. Promise!CustodyInit
    <2>1. ASSUME NEW f \in 1..MaxFiles PROVE placeOf(f) \in {<<"unborn", 0>>, <<"library", 0>>}
      <3>1. CASE f > born BY <3>1, Placed
      <3>2. CASE ~(f > born)
        <4>1. f \in 1..Cardinality(Slots) BY <3>2, <1>1, <1>2, <1>4
        <4>2. PICK s \in Slots : SlotInfo[s].file = f BY <4>1, RecycleAssumption
        <4>3. Lib(s) \in wholeAt(f) BY <1>4, <1>5, <4>2, Shapes DEF wholeAt, beingWritten, NoJob
        <4>4. Lib(s) \in LibPaths /\ f \notin erased BY <1>4, Shapes
        <4> QED BY <3>2, <4>3, <4>4, Placed
      <3> QED BY <3>1, <3>2
    <2> QED BY <1>4, <2>1 DEF Promise!CustodyInit, Promise!Unborn, Promise!InLibrary
  <1> QED BY <1>4, <1>9, <1>10, <1>11, <1>12, <1>13, <1>14 DEF RecycleInv

\* Every step of the bin keeps the invariant and the promise.
LEMMA BinStep == RecycleInv /\ RecycleNext => RecycleInv' /\ KeepsPromise
  <1> SUFFICES ASSUME RecycleInv, RecycleNext PROVE RecycleInv' /\ KeepsPromise OBVIOUS
  <1>1. CASE \E a \in Removal : PlanRemoval(a) BY <1>1, PlanKeeps
  <1>2. CASE \E a \in Removal : RefuseRemoval(a) BY <1>2, RefuseKeeps
  <1>3. CASE OpenParts BY <1>3, OpenKeeps
  <1>4. CASE openBin BY <1>4, OpenBinKeeps
  <1>5. CASE removeEntry BY <1>5, RemoveKeeps
  <1>6. CASE moveEntry BY <1>6, MoveEntryKeeps
  <1>7. CASE CopyData BY <1>7, CopyDataKeeps
  <1>8. CASE copyAndRemove BY <1>8, CopyAndRemoveKeeps
  <1>9. CASE CallFails BY <1>9, CallFailsKeeps
  <1>10. CASE RemovalDone BY <1>10, RemovalDoneKeeps
  <1>11. CASE RolledBack BY <1>11, RolledBackKeeps
  <1>12. CASE afterRestore BY <1>12, AfterRestoreKeeps
  <1>13. CASE RestoreUndone BY <1>13, RestoreUndoneKeeps
  <1>14. CASE CleanRecycleBin BY <1>14, CleanKeeps
  <1>15. CASE Crash BY <1>15, CrashKeeps
  <1>16. CASE NextDay BY <1>16, NextDayKeeps
  <1>17. CASE PlacementDrifts
    <2>1. UNCHANGED <<disk, born, erased, today, act, job>> /\ bin' = [bin EXCEPT !.problems = {"holds_mapping"}]
      BY <1>17 DEF PlacementDrifts
    <2>2. bin = [set |-> bin.set, problems |-> bin.problems, content |-> bin.content, device |-> bin.device]
      BY DEF RecycleInv, RecycleTypes
    <2>3. bin' = [set |-> bin.set, problems |-> bin'.problems, content |-> bin'.content, device |-> bin'.device]
      BY <2>1, <2>2
    <2> QED BY <2>1, <2>3, OthersKeep
  <1>18. CASE \E a \in Removal : Restore(a) BY <1>18, RestoreKeeps
  <1>19. CASE \E s \in Slots : Appear(s) BY <1>19, AppearKeeps
  <1>20. CASE \E s \in Slots : Erase(s) BY <1>20, EraseKeeps
  <1> QED BY <1>1, <1>2, <1>3, <1>4, <1>5, <1>6, <1>7, <1>8, <1>9, <1>10, <1>11, <1>12, <1>13, <1>14, <1>15,
             <1>16, <1>17, <1>18, <1>19, <1>20, Zenon DEF RecycleNext

\* The other parts of the library leave the bin alone.
LEMMA OthersLeaveBin ==
  GuardsNext \/ PathsNext \/ ScansNext \/ HistoryNext \/ DiscsNext \/ TrackedNext \/ RescanNext \/ QueueNext \/ ListingNext
    => UNCHANGED recycleVars
  <1>1. GuardsNext => UNCHANGED recycleVars BY Zenon DEF GuardsNext, GuardsOnly
  <1>2. PathsNext => UNCHANGED recycleVars BY Zenon DEF PathsNext, PathsOnly
  <1>3. ScansNext => UNCHANGED recycleVars BY Zenon DEF ScansNext, ScansOnly
  <1>4. HistoryNext => UNCHANGED recycleVars BY Zenon DEF HistoryNext, HistoryOnly
  <1>5. DiscsNext => UNCHANGED recycleVars BY Zenon DEF DiscsNext, DiscsOnly
  <1>6. TrackedNext => UNCHANGED recycleVars BY Zenon DEF TrackedNext, ArrOnly
  <1>7. RescanNext => UNCHANGED recycleVars BY Zenon DEF RescanNext, ArrOnly
  <1>8. QueueNext => UNCHANGED recycleVars BY Zenon DEF QueueNext, ArrOnly
  <1>9. ListingNext => UNCHANGED recycleVars BY Zenon DEF ListingNext, ListingOnly
  <1> QED BY <1>1, <1>2, <1>3, <1>4, <1>5, <1>6, <1>7, <1>8, <1>9

\* A step of the library is one of the bin, or leaves it alone.
LEMMA StepOrStutter ==
  ASSUME [LibraryNext]_libraryVars
  PROVE  RecycleNext \/ UNCHANGED recycleVars
  <1>1. UNCHANGED libraryVars => UNCHANGED recycleVars BY DEF libraryVars
  <1> QED BY <1>1, OthersLeaveBin DEF LibraryNext

\* So every step of the library keeps the invariant and the promise.
LEMMA LibraryStep == RecycleInv /\ [LibraryNext]_libraryVars => RecycleInv' /\ KeepsPromise
  <1> SUFFICES ASSUME RecycleInv, [LibraryNext]_libraryVars PROVE RecycleInv' /\ KeepsPromise OBVIOUS
  <1>1. CASE RecycleNext BY <1>1, BinStep
  <1>2. CASE UNCHANGED recycleVars
    <2>1. UNCHANGED <<disk, born, erased, today, act, job>> /\ bin' = bin BY <1>2 DEF recycleVars
    <2>2. bin = [set |-> bin.set, problems |-> bin.problems, content |-> bin.content, device |-> bin.device]
      BY DEF RecycleInv, RecycleTypes
    <2> QED BY <2>1, <2>2, OthersKeep
  <1> QED BY <1>1, <1>2, StepOrStutter

\* The recycle bin, with any files, parts, days, failing calls and crashes,
\* implements the promise about files: none is lost, and a recycled one stays
\* for the configured days (moveEntry, copyAndRemove, performFS, restoreMoves,
\* CleanRecycleBin).
THEOREM BinKeepsItsPromise == LibrarySpec => KeepsCustody
  <1>1. LibraryInit => RecycleInv /\ Promise!CustodyInit BY BinInitially DEF LibraryInit
  <1>2. RecycleInv /\ [LibraryNext]_libraryVars => RecycleInv' BY LibraryStep
  <1>3. RecycleInv /\ [LibraryNext]_libraryVars => [Promise!CustodyNext]_<<Whereabouts, today>>
    BY LibraryStep DEF KeepsPromise
  <1> QED BY <1>1, <1>2, <1>3, PTL DEF LibrarySpec, KeepsCustody, Promise!CustodySpec, Whereabouts

-----------------------------------------------------------------------------
(* A removal that fails.                                                   *)

\* A removal fails with a bin and reports nothing.
FailsSilently(a) ==
  act[a].status = "running" /\ act'[a].status = "failed" /\ act'[a].recycle = <<>> /\ bin.set

\* It is the one at hand, whose rollback is over or which could not open the
\* bin.
LEMMA WhoFails ==
  ASSUME RecycleInv, RecycleNext, NEW a \in Removal, FailsSilently(a)
  PROVE  a = job.a /\ (RolledBack \/ openBin)
  <1>1. act \in [Removal -> ActType] BY DEF RecycleInv, RecycleTypes
  <1>2. act'[a] # act[a] /\ act'[a].status = "failed" /\ bin.set BY DEF FailsSilently
  <1>3. job # NoJob => job.a \in Removal BY JobShape
  <1>4. ASSUME NEW b \in Removal, NEW x, act' = [act EXCEPT ![b] = x] PROVE a = b /\ x.status = "failed"
    BY <1>1, <1>2, <1>4
  <1>5. CASE \E b \in Removal : PlanRemoval(b)
    <2>1. PICK b \in Removal : PlanRemoval(b) BY <1>5
    <2> DEFINE x == [[act[b] EXCEPT !.status = "running"] EXCEPT !.ids = [k \in DOMAIN PartSlots[b] |-> disk[Lib(PartSlots[b][k])]]]
    <2>2. act[b].status = "queued" /\ act' = [act EXCEPT ![b] = x] BY <2>1 DEF PlanRemoval
    <2> HIDE DEF x
    <2>3. a = b BY <1>4, <2>2
    <2> QED BY <2>2, <2>3 DEF FailsSilently
  <1>6. CASE \E b \in Removal : RefuseRemoval(b)
    <2>1. PICK b \in Removal : RefuseRemoval(b) BY <1>6
    <2>2. act' = [act EXCEPT ![b].status = "refused"] /\ "refused" \in Statuses BY <2>1 DEF RefuseRemoval, Statuses
    <2>3. act'[b].status = "refused" /\ \A c \in Removal : c # b => act'[c] = act[c] BY <1>1, <2>2, Marked
    <2> QED BY <1>2, <2>3
  <1>7. CASE OpenParts
    <2>1. job # NoJob BY <1>7 DEF OpenParts, NoJob
    <2>2. act' = [act EXCEPT ![job.a].status = "skipped"] /\ "skipped" \in Statuses BY <1>2, <1>7 DEF OpenParts, Statuses
    <2>3. act'[job.a].status = "skipped" /\ \A c \in Removal : c # job.a => act'[c] = act[c] BY <1>1, <1>3, <2>1, <2>2, Marked
    <2> QED BY <1>2, <2>3
  <1>8. CASE openBin
    <2>1. job # NoJob BY <1>8 DEF openBin, NoJob
    <2>2. act' = [act EXCEPT ![job.a].status = "failed"] /\ "failed" \in Statuses BY <1>2, <1>8 DEF openBin, Statuses
    <2>3. \A c \in Removal : c # job.a => act'[c] = act[c] BY <1>1, <1>3, <2>1, <2>2, Marked
    <2> QED BY <1>2, <1>8, <2>3
  <1>9. CASE removeEntry
    <2>1. job.op = "remove" /\ job.step = "deleting" /\ job # NoJob BY <1>9 DEF removeEntry, NoJob
    <2>2. ~bin.set BY <2>1, JobShape DEF JobOK
    <2> QED BY <1>2, <2>2
  <1>10. CASE moveEntry \/ CopyData \/ copyAndRemove \/ CallFails \/ RestoreUndone \/ CleanRecycleBin \/ NextDay \/ PlacementDrifts
    BY <1>2, <1>10 DEF moveEntry, CopyData, copyAndRemove, CallFails, RestoreUndone, CleanRecycleBin, NextDay, PlacementDrifts
  <1>11. CASE RemovalDone
    <2>1. job # NoJob BY <1>11 DEF RemovalDone, NoJob
    <2> DEFINE x == [[act[job.a] EXCEPT !.status = "succeeded"] EXCEPT !.recycle = [k \in 1..Total |-> job.done[k][2]]]
    <2>2. act' = [act EXCEPT ![job.a] = x] BY <1>2, <1>11 DEF RemovalDone
    <2>3. x.status = "succeeded" BY <1>1, <1>3, <2>1 DEF ActType
    <2> HIDE DEF x
    <2>4. x.status = "failed" BY <1>3, <1>4, <2>1, <2>2
    <2> QED BY <2>3, <2>4
  <1>12. CASE RolledBack
    <2>1. job # NoJob BY <1>12 DEF RolledBack, NoJob
    <2> DEFINE x == [[act[job.a] EXCEPT !.status = "failed"] EXCEPT !.recycle = [k \in DOMAIN job.lost |-> job.lost[k][2]]]
    <2>2. act' = [act EXCEPT ![job.a] = x] BY <1>12 DEF RolledBack
    <2> HIDE DEF x
    <2>3. a = job.a BY <1>3, <1>4, <2>1, <2>2
    <2> QED BY <1>12, <2>3
  <1>13. CASE afterRestore
    <2>1. job # NoJob /\ job.op = "restore" BY <1>13 DEF afterRestore, NoJob
    <2> DEFINE x == [[act[job.a] EXCEPT !.recycle = <<>>] EXCEPT !.ignored = TRUE]
    <2>2. act' = [act EXCEPT ![job.a] = x] BY <1>13 DEF afterRestore
    <2> HIDE DEF x
    <2>3. a = job.a BY <1>3, <1>4, <2>1, <2>2
    <2>4. act[job.a].status = "succeeded" BY <2>1, JobShape DEF JobOK
    <2> QED BY <2>3, <2>4 DEF FailsSilently
  <1>14. CASE Crash
    <2>1. job # NoJob BY <1>14 DEF Crash
    <2>2. act' = [act EXCEPT ![job.a].status = "interrupted"] /\ "interrupted" \in Statuses BY <1>2, <1>14 DEF Crash, Statuses
    <2>3. act'[job.a].status = "interrupted" /\ \A c \in Removal : c # job.a => act'[c] = act[c]
      BY <1>1, <1>3, <2>1, <2>2, Marked
    <2> QED BY <1>2, <2>3
  <1>15. CASE (\E b \in Removal : Restore(b)) \/ (\E s \in Slots : Appear(s)) \/ (\E s \in Slots : Erase(s))
    BY <1>2, <1>15 DEF Restore, Appear, Erase
  <1> QED BY <1>5, <1>6, <1>7, <1>8, <1>9, <1>10, <1>11, <1>12, <1>13, <1>14, <1>15, Zenon DEF RecycleNext

\* Then every part is in the library, or its owner took it.
LEMMA SilentIsWhole ==
  ASSUME RecycleInv, RecycleNext, NEW a \in Removal, FailsSilently(a)
  PROVE  \A k \in DOMAIN act[a].ids :
           act[a].ids[k] \in erased' \/ \E s \in Slots : disk'[Lib(s)] = act[a].ids[k]
  <1>1. a = job.a /\ (RolledBack \/ openBin) BY WhoFails
  <1>2. job.op = "remove" /\ job # NoJob /\ UNCHANGED <<disk, erased>> BY <1>1 DEF RolledBack, openBin, NoJob
  <1>3. JobOK /\ RemovalOK /\ job.done \in Seq(Pair) /\ job.lost \in Seq(Pair) BY <1>2, JobShape
  <1>4. PartsThere BY <1>3 DEF RemovalOK, FailsSilently
  <1>5. job.done = <<>> /\ job.lost = <<>>
    <2>1. CASE openBin BY <2>1, <1>3 DEF openBin, JobOK
    <2>2. CASE RolledBack
      <3>1. job.done = <<>> BY <2>2 DEF RolledBack, pending
      <3> DEFINE rec == [k \in DOMAIN job.lost |-> job.lost[k][2]]
                 x == [[act[job.a] EXCEPT !.status = "failed"] EXCEPT !.recycle = rec]
      <3>2. act \in [Removal -> ActType] /\ act[job.a] \in ActType BY <1>1 DEF RecycleInv, RecycleTypes
      <3>3. act' = [act EXCEPT ![job.a] = x] BY <2>2 DEF RolledBack
      <3>4. x.recycle = rec
        <4> DEFINE y == [act[job.a] EXCEPT !.status = "failed"]
        <4>1. y \in ActType BY <3>2 DEF ActType, Statuses
        <4> HIDE DEF y, rec
        <4>2. [y EXCEPT !.recycle = rec].recycle = rec BY <4>1 DEF ActType
        <4> QED BY <4>2 DEF y
      <3> HIDE DEF x
      <3>5. rec = <<>> BY <1>1, <3>2, <3>3, <3>4 DEF FailsSilently
      <3>6. DOMAIN job.lost = DOMAIN rec OBVIOUS
      <3>7. job.lost = <<>> BY <1>3, <3>5, <3>6
      <3> QED BY <3>1, <3>7
    <2> QED BY <1>1, <2>1, <2>2
  <1> QED BY <1>1, <1>2, <1>4, <1>5 DEF PartsThere, PartThere

\* A removal that fails reports every part it could not put back: it never
\* leaves half of a version in the bin in silence, whatever fails on the way out
\* and on the way back (rollback in performFS and performDisc).
THEOREM FailuresAreWhole == LibrarySpec => RollbackWhole
  <1> DEFINE PutBackWhole ==
        \A a \in Removal :
          act[a].status = "running" /\ act'[a].status = "failed" /\ act'[a].recycle = <<>> /\ bin.set
            => \A k \in DOMAIN act[a].ids :
                 act[a].ids[k] \in erased' \/ \E s \in Slots : disk'[Lib(s)] = act[a].ids[k]
  <1>1. LibraryInit => RecycleInv BY BinInitially DEF LibraryInit
  <1>2. RecycleInv /\ [LibraryNext]_libraryVars => RecycleInv' BY LibraryStep
  <1>3. RecycleInv /\ [LibraryNext]_libraryVars => [PutBackWhole]_recycleVars
    BY StepOrStutter, SilentIsWhole DEF FailsSilently
  <1> QED BY <1>1, <1>2, <1>3, PTL DEF LibrarySpec, RollbackWhole

=============================================================================
