---------------------------- MODULE RemovalGuards ----------------------------
(***************************************************************************)
(* The checks between an approved group and the deletion of its files      *)
(* (src/internal/executor verify, guards, crossserver, readonly, methods,  *)
(* disc, post): what the last scan recorded is compared with what the      *)
(* media server, Radarr or Sonarr, the other media server and the disk say *)
(* now, a method is chosen, and each method looks once more before it      *)
(* deletes.                                                                *)
(*                                                                         *)
(* Between the scan and the end of the run the world drifts: files are     *)
(* replaced, removed or linked, the server lists other files, the *arr     *)
(* moves a file id, the other server scans, another server answers.  A     *)
(* path stands for the file's path in every namespace; whether a namespace *)
(* can be mapped to the local disk is a matter of the setup.  Version      *)
(* records are those of the stored group; decision "none" marks a version  *)
(* the item lists that is not in the group.                                *)
(***************************************************************************)
EXTENDS Integers, Sequences, FiniteSets, FiniteSetsExt, SequencesExt

CONSTANTS
  GuardGroups,      \* the groups to consider: each version -> [decision, parts, arr, tier, disc, inDisc, optimized, shared, overridden, young, recycled]
  GuardDisk,        \* path -> the file there at the scan
  FileSize,         \* file -> its size
  Inside,           \* path -> the paths of the folders that hold it
  BaseName,         \* path -> its last element
  GuardSetups,      \* settings and connections
  OtherItems,       \* the other server's items at the scan: item -> the paths of its versions
  MaxDrift          \* bound: changes of the world

FilePaths == DOMAIN GuardDisk

VARIABLES
  node, link,       \* path -> the file on it (0: none), and what it links to (itself: no link)
  lists,            \* version -> the parts [path, size] its server lists now (<<>>: not listed)
  tracked,          \* *arr file id -> the [path, size] it stands for now (path "": none)
  known,            \* does the server that was scanned answer at its address?
  other,            \* the other media server: [items, scans, refreshing, reachable]
  setup,
  run,              \* what the run has found so far
  drifts

guardVars == <<node, link, lists, tracked, known, other, setup, run, drifts>>

Vs == DOMAIN GuardGroups[1]
\* Every path has a file at the scan, and a version's parts are paths.
ASSUME GuardAssumption ==
  /\ 0 \notin DOMAIN FileSize /\ GuardDisk \in [FilePaths -> DOMAIN FileSize]
  /\ \A s \in GuardSetups, v \in Vs : GuardGroups[s.group][v].parts \in Seq(FilePaths)

Ver(v) == GuardGroups[setup.group][v]
Targets == {v \in Vs : Ver(v).decision = "remove"}
KeepFiles == {v \in Vs : Ver(v).decision = "keep" /\ ~Ver(v).optimized}
Parts(v) == ToSet(Ver(v).parts)
StoredSize(v, i) == FileSize[GuardDisk[Ver(v).parts[i]]]

content(p) == node[link[p]]
mapped(ns) == ns \in setup.mapped
remove(n, ps) == [p \in FilePaths |-> IF p \in ps THEN 0 ELSE n[p]]

-----------------------------------------------------------------------------
(* verify.go: the stored versions against the server and the disk.         *)

\* checkPlexVersion.  The disk is looked at where a mapping reaches it; where
\* none does, a kept file must at least be reported present, and a server
\* Dupearr only reads must be mapped.
checkPart(v, i, keeper) ==
  LET f == run.fresh[v][i]
  IN  /\ f.path = Ver(v).parts[i] /\ f.size = StoredSize(v, i)
      /\ setup.existsKnown => f.exists
      /\ \/ mapped("server") /\ content(f.path) # 0 /\ FileSize[content(f.path)] = f.size
         \/ ~mapped("server") /\ ~setup.readOnly /\ (keeper => setup.existsKnown)
checkPlexVersion(v, keeper) ==
  /\ Len(run.fresh[v]) = Len(Ver(v).parts)
  /\ run.fresh[v] # <<>>
  /\ \A i \in DOMAIN run.fresh[v] : checkPart(v, i, keeper)

\* verifyDisc: every entry of the disc is as the scan measured it.
itemGone == \A v \in Vs : run.fresh[v] = <<>>
verifyDisc(v) == ~itemGone /\ mapped("server") /\ \A p \in Parts(v) : content(p) = GuardDisk[p]

checkVersion(v, keeper) ==
  IF Ver(v).disc THEN verifyDisc(v) ELSE checkPlexVersion(v, keeper)

\* recycledKeeper: a copy in a recycle bin is not a copy to rely on.
recycledKeeper(v) == Ver(v).recycled

\* sharedWithOtherMedia and discSharedWithOtherMedia: a listed version that
\* stays has one of the files.
targetMedia == Targets
sharedWithOtherMedia(t) ==
  \E o \in Vs \ targetMedia : \E i \in DOMAIN run.fresh[o] : run.fresh[o][i].path \in Parts(t)
discHolds(t, p) == \E e \in Parts(t) : p = e \/ e \in Inside[p] \/ p \in Inside[e]
discSharedWithOtherMedia(t) ==
  /\ Ver(t).disc /\ mapped("server")
  /\ \E o \in Vs \ targetMedia : \E i \in DOMAIN run.fresh[o] : discHolds(t, run.fresh[o][i].path)

\* sharesFile: the same path, the same file or the same target of a link.
sameResolved(p, q) == content(p) # 0 /\ link[p] = link[q]
sameFile(p, q) == content(p) # 0 /\ (content(p) = content(q) \/ sameResolved(p, q))
sharesFile(t, k) ==
  \/ Parts(t) \cap Parts(k) # {}
  \/ mapped("server") /\ \E p \in Parts(t), q \in Parts(k) : sameFile(p, q)
discKeeperInside(t, k) == Ver(t).disc /\ \E q \in Parts(k) : discHolds(t, q)
sameArrFile(t, k) == Ver(t).arr # 0 /\ Ver(t).arr = Ver(k).arr

\* partitionKeeperProblem: with a "keep one per" profile each tier that loses
\* a version has a verified keeper, or a person asked to remove its keeper.
partitionKeeperProblem(keepers) ==
  /\ setup.keepPer
  /\ \E t \in Targets :
       LET tier == Ver(t).tier
       IN  /\ \A k \in keepers : Ver(k).tier # tier
           /\ \/ \E k \in KeepFiles : Ver(k).tier = tier
              \/ \A v \in Targets : Ver(v).tier = tier => ~Ver(v).overridden

\* plexPlayable and discMember: neither a disc nor a file inside one.
playable(v) == ~Ver(v).disc /\ ~Ver(v).inDisc
tierOf(v) == IF setup.keepPer THEN Ver(v).tier ELSE ""
playableKeeperProblem(keepers) ==
  /\ setup.keepPlayable /\ \E v \in Targets \cup KeepFiles : ~playable(v)
  /\ \E t \in Targets : playable(t) /\ \A k \in keepers : ~playable(k) \/ tierOf(k) # tierOf(t)

verifiedKeepers == {k \in KeepFiles : checkVersion(k, TRUE) /\ ~recycledKeeper(k)}

\* Mutated form: whatever verified stands in for its tier.
verifyAnyTier(keepers) == keepers # {}

verifyKeepers(keepers) ==
  keepers # {} /\ ~partitionKeeperProblem(keepers) /\ ~playableKeeperProblem(keepers)

verifyTargets ==
  \A t \in Targets :
    /\ checkVersion(t, FALSE) /\ ~sharedWithOtherMedia(t) /\ ~discSharedWithOtherMedia(t)
    /\ \A k \in KeepFiles : ~sharesFile(t, k) /\ ~discKeeperInside(t, k) /\ ~sameArrFile(t, k)

tooYoung == \E t \in Targets : Ver(t).young

-----------------------------------------------------------------------------
(* What happens before anything is fetched.                                *)

\* discRemovalProblem: a disc goes only when that is allowed, with a recycle
\* bin and the filesystem method, and never leaves discs only.
onlyDiscsKept ==
  /\ KeepFiles # {} /\ \A k \in KeepFiles : ~playable(k)
  /\ \E t \in Targets : playable(t)
discRemovalProblem ==
  \/ /\ \E t \in Targets : Ver(t).disc
     /\ ~setup.allowDisc \/ ~setup.bin \/ "filesystem" \notin ToSet(setup.methods)
  \/ setup.keepPlayable /\ onlyDiscsKept

\* notAllowedNow: exclusions, disabled libraries and protections of now.
notAllowedNow == setup.excluded \/ discRemovalProblem

\* crossServerRecordProblem: with several servers the scan must have read all
\* of them, with today's identities, storage and path mappings.
crossServerRecordProblem == setup.multi /\ setup.record # "complete"

\* readOnlyRunProblem: every file of a server that is only read is mapped, and
\* the server allows removals now.
readOnlyRunProblem == setup.readOnly /\ (~mapped("server") \/ ~setup.gate)

serverIdentityProblem == ~known

findTargetProblem == \E t \in Targets : Ver(t).shared \/ Ver(t).optimized \/ Ver(t).inDisc

To(s) == run' = [run EXCEPT !.step = s]
WorldUnchanged == UNCHANGED <<node, link, lists, tracked, known, other, setup, drifts>>

CheckGroup ==
  /\ run.step = "start"
  /\ IF notAllowedNow \/ crossServerRecordProblem \/ findTargetProblem
        \/ serverIdentityProblem \/ readOnlyRunProblem
     THEN To("skipped")
     ELSE run' = [run EXCEPT !.step = "fetched", !.fresh =
            [v \in Vs |-> [i \in DOMAIN lists[v] |->
                [path |-> lists[v][i].path, size |-> lists[v][i].size, exists |-> content(lists[v][i].path) # 0]]]]
  /\ WorldUnchanged

\* The fetch fails, or something plays: the group waits for the next run.
DeferGroup == run.step = "start" /\ To("deferred") /\ WorldUnchanged

Verify ==
  /\ run.step = "fetched"
  /\ LET keepers == verifiedKeepers
     IN  IF ~verifyTargets \/ ~verifyKeepers(keepers) THEN To("skipped")
         ELSE IF tooYoung THEN To("deferred")
         ELSE run' = [run EXCEPT !.step = "verified", !.keepers = keepers]
  /\ WorldUnchanged

-----------------------------------------------------------------------------
(* crossserver.go: what the other media server lists.                      *)

\* The scan's record of where the other server lists a version's files.
otherListings(v) ==
  IF setup.record = "complete" THEN {i \in DOMAIN OtherItems : OtherItems[i] \cap Parts(v) # {}} ELSE {}

\* sectionsProblem: a library that was added, moved, is being scanned or was
\* scanned since the record.  A server that reports no scan times is listed
\* again.  Separate storage without a mapping is taken at its word.
sectionsSkipped == setup.separate /\ ~mapped("other")
sectionChanged == other.refreshing \/ IF setup.scanTimes THEN other.scans > 0 ELSE other.items # OtherItems

\* survivorProblem: the item's other version is whole, seen on the disk and
\* provably none of the files to remove.
survivor(q) ==
  /\ mapped("other") /\ mapped("server") /\ content(q) # 0
  /\ \A t \in Targets : \A p \in Parts(t) : ~sameFile(q, p)

\* listingProblem: the item still lists the file, and keeps another version.
listingSafe(v, i) ==
  /\ other.items[i] \cap Parts(v) # {}
  /\ \E q \in other.items[i] \ Parts(v) : survivor(q)

CheckOtherServers ==
  /\ run.step = "verified"
  /\ \/ ~setup.multi /\ To("crossed")
     \/ setup.multi /\ ~sectionsSkipped /\ ~other.reachable /\ To("deferred")
     \/ /\ setup.multi /\ (sectionsSkipped \/ other.reachable)
        /\ IF \/ ~sectionsSkipped /\ sectionChanged
              \/ \E t \in Targets : \E i \in otherListings(t) : i \in setup.keptItems \/ ~listingSafe(t, i)
           THEN To("skipped") ELSE To("crossed")
  /\ WorldUnchanged

-----------------------------------------------------------------------------
(* methods.go: the first configured method that can be used.               *)

\* arrFileProblem: the *arr's file id still stands for this file.  With
\* several servers equal path names prove nothing unless the links are
\* confirmed.
rawConfirmAllowed == setup.multi => setup.linksConfirmed /\ ~setup.separate
arrFileProblem(v) ==
  LET ref == tracked[Ver(v).arr]
      q == Ver(v).parts[1]
  IN  \/ ref.path = "" \/ Len(Ver(v).parts) # 1
      \/ setup.multi /\ mapped("arr") /\ ~mapped("server")
      \/ setup.multi /\ ~(mapped("arr") /\ mapped("server")) /\ ~rawConfirmAllowed
      \/ ref.path # q /\ ~(mapped("arr") /\ mapped("server") /\ sameResolved(ref.path, q))
      \/ ref.size # StoredSize(v, 1)

\* keeperArrProblem and keptDiscArrProblem: the *arr did not move on from a
\* kept file either.  A file of the same name will do: the *arr may see it
\* under another path.
keptTracked(k, ref) ==
  IF Ver(k).disc THEN \E e \in Parts(k) : ref.path = e \/ e \in Inside[ref.path]
  ELSE LET q == Ver(k).parts[1]
       IN  /\ \/ ref.path = q \/ BaseName[ref.path] = BaseName[q]
              \/ mapped("arr") /\ mapped("server") /\ sameResolved(ref.path, q)
           /\ ref.size = StoredSize(k, 1)
keeperArrProblem ==
  \E k \in run.keepers : /\ Ver(k).arr # 0 /\ setup.arrEnabled
                         /\ \/ tracked[Ver(k).arr].path = ""
                            \/ ~keptTracked(k, tracked[Ver(k).arr])

\* Each method answers "yes", "no" or "stop"; a stop ends the search: what the
\* *arr cannot say for certain is not given to a weaker method.
arrChoice(v) ==
  LET f == Ver(v)
  IN  IF f.disc \/ f.arr = 0 \/ ~setup.arrEnabled \/ Len(f.parts) # 1 THEN "no"
      ELSE IF f.inDisc \/ setup.arrBin = "unreadable" \/ (setup.readOnly /\ setup.arrBin = "none") THEN "stop"
      ELSE "yes"

\* remainsInItem: Plex keeps another version of the item.
remainsInItem(v) ==
  \E o \in Vs \ {v} : run.fresh[o] # <<>> /\ ~Ver(o).optimized /\ o \notin Targets
plexChoice(v) ==
  LET f == Ver(v)
  IN  IF f.disc \/ setup.readOnly \/ f.inDisc \/ f.shared \/ ~remainsInItem(v) \/ ~setup.plexDelete THEN "no" ELSE "yes"

\* fsChoice and discChoice: regular files of the verified size that the
\* mappings reach (RecycleBin has the rest).
localFile(v, i) ==
  LET p == Ver(v).parts[i] IN link[p] = p /\ node[p] # 0 /\ FileSize[node[p]] = StoredSize(v, i)
fileChoice(v) ==
  LET f == Ver(v)
  IN  IF /\ mapped("server") /\ ~f.inDisc /\ \A i \in DOMAIN f.parts : localFile(v, i)
         /\ (f.disc \/ setup.readOnly) => setup.bin
      THEN "yes" ELSE "no"

answer(m, v) ==
  CASE m = "arr" -> arrChoice(v)
    [] m = "plex" -> plexChoice(v)
    [] OTHER -> fileChoice(v)

selectMethod(v) ==
  LET ms == setup.methods
      usable == {i \in DOMAIN ms : answer(ms[i], v) = "yes" /\ \A j \in 1..(i - 1) : answer(ms[j], v) = "no"}
  IN  IF usable = {} THEN "none" ELSE ms[CHOOSE i \in usable : TRUE]

SelectMethods ==
  /\ run.step = "crossed"
  /\ LET choice == [t \in Targets |-> selectMethod(t)]
     IN  IF \E t \in Targets : choice[t] = "none" THEN To("refused")
         ELSE IF \E t \in Targets : choice[t] = "arr" /\ arrFileProblem(t) THEN To("skipped")
         ELSE IF keeperArrProblem THEN To("skipped")
         ELSE run' = [run EXCEPT !.step = "executing", !.choice = choice, !.left = Targets,
                                 !.ids = [p \in FilePaths |-> node[p]]]
  /\ WorldUnchanged

-----------------------------------------------------------------------------
(* perform: one target after the other, each looked at once more.          *)

\* waitGone: a file that is still there means that the removal failed.
stillOnDisk(t, n) == mapped("server") /\ \E p \in Parts(t) : n[link[p]] # 0

Outcome(t, ps, n) ==
  run' = [run EXCEPT !.left = @ \ {t}, !.deleted = @ \o SetToSeq(ps), !.kept = Append(@, other.items),
            !.done = IF stillOnDisk(t, n) THEN @ ELSE @ \cup {t},
            !.step = IF stillOnDisk(t, n) THEN "failed" ELSE IF run.left = {t} THEN "post" ELSE @]
Deletes(t, ps) ==
  /\ node' = remove(node, ps) /\ link' = [p \in FilePaths |-> IF p \in ps THEN p ELSE link[p]]
  /\ Outcome(t, ps, node')
Stale == To("stale") /\ UNCHANGED <<node, link>>

\* Mutated form: no second look.
arrDeletesNow(t) == Deletes(t, {tracked[Ver(t).arr].path} \ {""})

performArr(t) ==
  IF arrFileProblem(t) THEN Stale ELSE Deletes(t, {tracked[Ver(t).arr].path})

performPlex(t) ==
  IF serverIdentityProblem \/ lists[t] = <<>> THEN Stale
  ELSE Deletes(t, {lists[t][i].path : i \in DOMAIN lists[t]})

\* performFS, performDisc: every part is still the planned file.
performFS(t) ==
  IF \E p \in Parts(t) : link[p] # p \/ node[p] # run.ids[p] \/ node[p] = 0 THEN Stale ELSE Deletes(t, Parts(t))

Perform(t) ==
  /\ run.step = "executing" /\ t \in run.left
  /\ Ver(t).arr = 0 \/ \A o \in run.left : Ver(o).arr # 0
  /\ CASE run.choice[t] = "arr" -> performArr(t)
       [] run.choice[t] = "plex" -> performPlex(t)
       [] OTHER -> performFS(t)
  /\ UNCHANGED <<lists, tracked, known, other, setup, drifts>>

\* The call fails: nothing went, and the rest of the group is not attempted.
PerformFails == run.step = "executing" /\ To("failed") /\ WorldUnchanged

\* relationToKeepers and arrPostActions: what the *arr is told about a file
\* that it tracked.
arrPost(t) ==
  IF Ver(t).arr = 0 THEN {}
  ELSE IF \E k \in run.keepers : Ver(k).arr # 0 THEN {}
  ELSE IF \E k \in run.keepers : Inside[Ver(k).parts[1]] \cap Inside[Ver(t).parts[1]] # {}
       THEN {"rescan"}
  ELSE {"unmonitor", "exclude"}

\* cleanupStaleEntry: the entry Plex still has for a file that went another
\* way is deleted only if its files are gone, were the removed ones and no
\* kept ones, and the item has another version.
staleEntry(t) ==
  /\ lists[t] # <<>> /\ \E o \in Vs \ {t} : lists[o] # <<>> /\ ~Ver(o).optimized
  /\ \A i \in DOMAIN lists[t] :
       LET p == lists[t][i].path
       IN  /\ setup.existsKnown /\ content(p) = 0
           /\ p \in Parts(t) /\ \A k \in run.keepers : p \notin Parts(k)
           /\ mapped("server") => link[p] = p
  /\ setup.plexDelete /\ ~serverIdentityProblem

\* notifyServers: a server that is only read learns which files went.
notifyServers == setup.readOnly /\ ~serverIdentityProblem

\* postActions: the *arr, Plex and, for the servers that are only read, a
\* notice.  Deleting a stale entry deletes whatever is on its paths.
PostActions ==
  /\ run.step = "post"
  /\ LET stale == IF setup.cleanup /\ ~setup.readOnly
                  THEN {t \in run.done : run.choice[t] # "plex" /\ ~Ver(t).disc /\ staleEntry(t)} ELSE {}
         ps == UNION {{lists[t][i].path : i \in DOMAIN lists[t]} : t \in stale}
     IN  /\ node' = remove(node, ps)
         /\ lists' = [t \in Vs |-> IF t \in stale THEN <<>> ELSE lists[t]]
         /\ run' = [run EXCEPT !.step = "over", !.told = UNION {arrPost(t) : t \in run.done},
                               !.noticed = notifyServers,
                               !.deleted = @ \o SetToSeq({p \in ps : content(p) # 0})]
  /\ UNCHANGED <<link, tracked, known, other, setup, drifts>>

-----------------------------------------------------------------------------
(* The world drifts: anything before the group is verified; from then on   *)
(* the files to remove, the *arr and which server answers; the other       *)
(* server until it has been asked.  Nobody turns files into links, and     *)
(* Plex gives no version's id to another file, once the run has read them. *)
Loose(p) == run.step \in {"start", "fetched"} \/ \E t \in Targets : p \in Parts(t)
Running == run.step \in {"start", "fetched", "verified", "crossed", "executing", "post"}
Drift == Running /\ drifts < MaxDrift /\ drifts' = drifts + 1

FileReplaced(p) ==
  /\ Drift /\ Loose(p)
  /\ \E f \in DOMAIN FileSize \cup {0} : f # node[p] /\ node' = [node EXCEPT ![p] = f]
  /\ link' = [link EXCEPT ![p] = p]
  /\ UNCHANGED <<lists, tracked, known, other, setup, run>>
FileLinked(p, q) ==
  /\ Drift /\ run.step \in {"start", "fetched"} /\ p # q /\ link[q] = q /\ \A r \in FilePaths : link[r] = p => r = p
  /\ link' = [link EXCEPT ![p] = q] /\ node' = [node EXCEPT ![p] = 0]
  /\ UNCHANGED <<lists, tracked, known, other, setup, run>>
ServerScans ==
  /\ Drift /\ run.step = "start"
  /\ \E v \in Vs : \/ lists' = [lists EXCEPT ![v] = <<>>]
                   \/ \E p \in FilePaths : content(p) # 0 /\
                        lists' = [lists EXCEPT ![v] = <<[path |-> p, size |-> FileSize[content(p)]]>>]
  /\ UNCHANGED <<node, link, tracked, known, other, setup, run>>
ArrMoves ==
  /\ Drift
  /\ \E a \in DOMAIN tracked :
       \/ tracked' = [tracked EXCEPT ![a].path = ""]
       \/ \E p \in FilePaths : content(p) # 0 /\ tracked' = [tracked EXCEPT ![a] = [path |-> p, size |-> FileSize[content(p)]]]
  /\ UNCHANGED <<node, link, lists, known, other, setup, run>>
ServerSwapped ==
  /\ Drift /\ known' = FALSE /\ UNCHANGED <<node, link, lists, tracked, other, setup, run>>
OtherScans ==
  /\ Drift /\ run.step \in {"start", "fetched", "verified"}
  /\ \E i \in DOMAIN other.items, ps \in {{p} : p \in FilePaths} :
       other' = [other EXCEPT !.items[i] = ps, !.scans = @ + 1]
  /\ UNCHANGED <<node, link, lists, tracked, known, setup, run>>
OtherBusy ==
  /\ Drift /\ run.step \in {"start", "fetched", "verified"}
  /\ \/ other' = [other EXCEPT !.refreshing = TRUE]
     \/ other' = [other EXCEPT !.reachable = FALSE]
  /\ UNCHANGED <<node, link, lists, tracked, known, setup, run>>

GuardInit ==
  /\ setup \in GuardSetups
  /\ node = GuardDisk /\ link = [p \in FilePaths |-> p]
  /\ lists = [v \in Vs |-> IF Ver(v).disc THEN <<>>
                ELSE [i \in DOMAIN Ver(v).parts |-> [path |-> Ver(v).parts[i], size |-> StoredSize(v, i)]]]
  /\ tracked = [a \in {Ver(v).arr : v \in Vs} \ {0} |->
                  LET v == CHOOSE w \in Vs : Ver(w).arr = a
                  IN  [path |-> Ver(v).parts[1], size |-> StoredSize(v, 1)]]
  /\ known = TRUE /\ drifts = 0
  /\ other = [items |-> OtherItems, scans |-> 0, refreshing |-> FALSE, reachable |-> TRUE]
  /\ run = [step |-> "start", fresh |-> [v \in Vs |-> <<>>], keepers |-> {}, choice |-> <<>>, left |-> {},
            ids |-> <<>>, deleted |-> <<>>, kept |-> <<>>, done |-> {}, told |-> {}, noticed |-> FALSE]

-----------------------------------------------------------------------------
\* Whatever drifts, and whichever method is used, only files of the approved
\* versions are deleted, each at most once: a file that appears on a path
\* after its removal stays (performArr, performPlex, performFS,
\* cleanupStaleEntry).
OnlyApprovedGoes ==
  /\ ToSet(run.deleted) \subseteq UNION {Parts(t) : t \in Targets}
  /\ IsInjective(run.deleted)

\* A removal leaves, of the tier it takes from, a kept version that can be
\* read, and one that Plex can play where the setting asks for it; unless a
\* person asked for the tier's keeper to go.  This needs the disk to be
\* mapped: a link cannot be told from a file through the server alone
\* (verify, partitionKeeperProblem, playableKeeperProblem).
KeptCopyReadable ==
  mapped("server") /\ run.deleted # <<>> =>
    \A t \in run.done :
      \/ setup.keepPer /\ Ver(t).overridden
      \/ \E v \in Targets : setup.keepPer /\ Ver(v).tier = Ver(t).tier /\ Ver(v).overridden
      \/ \E k \in KeepFiles :
           /\ \A p \in Parts(k) : content(p) # 0
           /\ setup.keepPer => Ver(k).tier = Ver(t).tier
           /\ setup.keepPlayable /\ playable(t) => playable(k)

\* No item of the other media server is left without a file by a removal,
\* unless that server's storage is declared separate (crossServerRecordProblem,
\* sectionsProblem, listingProblem, survivorProblem).
OtherServersKeepACopy ==
  setup.multi /\ ~setup.separate /\ run.deleted # <<>> =>
    \A i \in DOMAIN other.items :
      other.items[i] \cap ToSet(run.deleted) # {} => \E q \in other.items[i] : content(q) # 0

\* A removal touches nothing else: it takes files of the approved versions
\* only, and the other server's items keep one (performArr, checkOtherServers).
NothingElseGoes == OnlyApprovedGoes /\ OtherServersKeepACopy
=============================================================================
