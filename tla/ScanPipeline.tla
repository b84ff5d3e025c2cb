--------------------------- MODULE ScanPipeline ---------------------------
(***************************************************************************)
(* A duplicate scan from the request to the stored groups                  *)
(* (src/internal/scanner): the libraries it lists, the index of what they  *)
(* list, the details it fetches, what Radarr and Sonarr track, what other  *)
(* media servers list, the groups it stores, resolves and approves.        *)
(*                                                                         *)
(* Anything it reads may fail, and a listing may come back empty.  What    *)
(* the servers really hold is in `world'; it changes only between scans.   *)
(* The engine is abstracted to what a scan feeds it and takes from it (the *)
(* modules Grouping and Keepers have the rest): the copies of linked items *)
(* are one group, its first copy is kept, and of the others those are      *)
(* removed that nothing the scan knows of protects.                        *)
(***************************************************************************)
EXTENDS Integers, Sequences, FiniteSets, FiniteSetsExt

CONSTANTS
  ScanServers,      \* server -> [separate, stranger, readOnly]: the enabled servers
  ScanLibs,         \* library -> [server, type, enabled, excluded, scope, folders]
  Titles,           \* item -> [library, ids, show, files]
  Files,            \* copy -> [path, local, name, size, inode]  (local "": unmapped)
  ArrFiles,         \* tracked file -> [instance, type, path, local, name, size, ids, keep, queued]
  ArrLinks,         \* instance -> [confirmed, servers]
  ScanBodies,       \* the scans that may be asked for
  AutoMode, StableScansRequired, MaxDeletionsPerRun,
  ScansMax, ScanFaults, ScanChanges   \* bounds

VARIABLES
  world,            \* [held, state]: the items the servers hold, the state of every copy
  stored,           \* the stored groups, by key
  scan,             \* the pipeline of the scan that runs, or ran last
  scanLeft          \* [scans, faults, changes] still allowed
scanVars == <<world, stored, scan, scanLeft>>

Sid(t) == ScanLibs[Titles[t].library].server
TypeOf(l) == IF ScanLibs[l].type \in {"movie", "show"} THEN ScanLibs[l].type ELSE ""
Multi == Cardinality(DOMAIN ScanServers) >= 2
Libs == DOMAIN ScanLibs

-----------------------------------------------------------------------------
(* Which libraries a scan lists (pipeline.go, crossserver.go).             *)
scannable(l) == ScanLibs[l].enabled /\ TypeOf(l) # "" /\ ScanLibs[l].server \in DOMAIN ScanServers
withScopePartners(sel) ==
  sel \cup {o \in Libs : scannable(o) /\ \E l \in sel :
              /\ ScanLibs[l].scope # "" /\ ScanLibs[o].scope = ScanLibs[l].scope
              /\ ScanLibs[o].server = ScanLibs[l].server /\ TypeOf(o) = TypeOf(l)}
scanLibraries(ids) == withScopePartners({l \in Libs : scannable(l) /\ (ids = {} \/ l \in ids)})

\* A library without locations may overlap any other.
locationsOverlap(a, b) ==
  \/ ScanLibs[a].folders = {} \/ ScanLibs[b].folders = {}
  \/ ScanLibs[a].folders \cap ScanLibs[b].folders # {}
overlapPartners(sel) ==
  {o \in Libs \ sel : /\ TypeOf(o) # "" /\ ScanLibs[o].server \in DOMAIN ScanServers
                      /\ \E l \in sel : ScanLibs[o].server = ScanLibs[l].server /\ locationsOverlap(l, o)}

\* Libraries of other servers: all of them, of a server with storage of its
\* own only those that share a mapped folder.
crossServerPartners(sel) ==
  {o \in Libs \ sel :
     /\ Multi /\ TypeOf(o) # "" /\ ScanLibs[o].server \in DOMAIN ScanServers
     /\ \E l \in sel : ScanLibs[l].server # ScanLibs[o].server
     /\ ScanServers[ScanLibs[o].server].separate => \E l \in sel : ScanLibs[o].folders \cap ScanLibs[l].folders # {}}

-----------------------------------------------------------------------------
(* The index of the listings (collect.go).                                 *)
Indexed == {t \in scan.refs : Titles[t].library \notin scan.partners}
itemLinked(t, u) ==
  LET a == ScanLibs[Titles[t].library]
      b == ScanLibs[Titles[u].library]
  IN  /\ a.scope # "" /\ a.scope = b.scope /\ a.server = b.server /\ a.type = b.type
      /\ Titles[t].ids \cap Titles[u].ids # {}
buildComponents(ts) ==
  LET reach[n \in Nat] == IF n = 0 THEN [t \in ts |-> {t}]
                          ELSE [t \in ts |-> {u \in ts : \E x \in reach[n - 1][t] : x = u \/ itemLinked(x, u)}]
  IN  reach[Cardinality(ts)]
crossLibrary(t) == t \in DOMAIN scan.comp /\ Cardinality({Titles[u].library : u \in scan.comp[t]}) >= 2
linkedTo(t) == IF crossLibrary(t) THEN scan.comp[t] ELSE {}
fullCandidates ==
  {t \in Indexed : /\ ~ScanLibs[Titles[t].library].excluded
                   /\ Cardinality(Titles[t].files) >= 2 \/ crossLibrary(t)}
\* Other items of the server that list the same path.
sharedWith(c, t) ==
  {u \in scan.refs \ {t} : Sid(u) = Sid(t) /\ \E d \in Titles[u].files : Files[d].path = Files[c].path}

-----------------------------------------------------------------------------
(* Tracked files (matcher.go, enrich.go).                                  *)
linkedServer(a, s) == ~Multi \/ (ArrLinks[a.instance].confirmed /\ s \in ArrLinks[a.instance].servers
                                 /\ ~ScanServers[s].separate)
Known == {i \in DOMAIN ArrFiles : ArrFiles[i].instance \in scan.arrRead}
refused(a, c, s) == Multi /\ ((a.local # "" /\ Files[c].local = "") \/ ~linkedServer(a, s))

\* match: by local path, else by the server's path, else by name and size when
\* one tracked file has them.  A pair that is mapped matches by local path only.
byLocal(c) == {i \in Known : ArrFiles[i].local # "" /\ ArrFiles[i].local = Files[c].local}
mappedPair(i, c) == ArrFiles[i].local # "" /\ Files[c].local # ""
byRaw(c, s) == {i \in Known : ArrFiles[i].path = Files[c].path /\ ~mappedPair(i, c) /\ ~refused(ArrFiles[i], c, s)}
sameName(c) == {i \in Known : ArrFiles[i].name = Files[c].name /\ ArrFiles[i].size = Files[c].size}
byName(c, s) ==
  LET ns == sameName(c)
  IN  IF Cardinality(ns) # 1 THEN {} ELSE {i \in ns : ~mappedPair(i, c) /\ ~refused(ArrFiles[i], c, s)}
pick(is) == {Min(is)}
match(c, s) ==
  IF byLocal(c) # {} THEN pick(byLocal(c))
  ELSE IF byRaw(c, s) # {} THEN pick(byRaw(c, s)) ELSE byName(c, s)
matchedByName(c, s) == byLocal(c) = {} /\ byRaw(c, s) = {}
unmapped(c, s) ==
  /\ match(c, s) = {} /\ Multi /\ Files[c].local = ""
  /\ \E i \in Known : ArrFiles[i].local # "" /\ (ArrFiles[i].path = Files[c].path \/ sameName(c) = {i})

\* applyMatches: a match by name counts when no other candidate has the name
\* and size, or claims the file.
Candidates == UNION {Titles[t].files : t \in scan.items}
ServerOf(c) == CHOOSE s \in DOMAIN ScanServers : \E t \in DOMAIN Titles : c \in Titles[t].files /\ Sid(t) = s
applyMatches(c) ==
  LET m == match(c, ServerOf(c))
      ambiguous == \E d \in Candidates \ {c} : \/ Files[d].name = Files[c].name /\ Files[d].size = Files[c].size
                                               \/ match(d, ServerOf(d)) = m
  IN  IF m # {} /\ matchedByName(c, ServerOf(c)) /\ ambiguous THEN {} ELSE m

\* noteUnlookable, noteUnconfirmed, unknownUnmapped: what the *arrs cannot be
\* asked about.
arrUnlookable(t) == Titles[t].ids = {} /\ \E i \in DOMAIN ArrFiles : ArrFiles[i].type = TypeOf(Titles[t].library)
arrUnknown(c, t) ==
  /\ Multi /\ match(c, ServerOf(c)) = {}
  /\ \/ unmapped(c, ServerOf(c))
     \/ \E i \in Known : /\ ~ArrLinks[ArrFiles[i].instance].confirmed /\ ArrFiles[i].ids \cap Titles[t].ids # {}
                         /\ Files[c].local = "" \/ ArrFiles[i].local = ""
sizeMismatch(c) == \E i \in applyMatches(c) : ArrFiles[i].size # Files[c].size
markBusyItems(t) == \E i \in Known : ArrFiles[i].queued /\ ArrFiles[i].ids \cap Titles[t].ids # {}

-----------------------------------------------------------------------------
(* Other servers' listings of the same file (crossserver.go).              *)
sameInode(a, b) == Files[a].local # "" /\ Files[b].local # "" /\ Files[a].inode # 0 /\ Files[a].inode = Files[b].inode
couldDiffer(a, b) == Files[a].local # "" /\ Files[b].local # "" /\ Files[a].inode # 0 /\ Files[b].inode # 0 /\ Files[a].inode # Files[b].inode

\* statRelation: numbers of a filesystem that keeps them prove either.
statRelation(a, b) ==
  IF sameInode(a, b) THEN "same" ELSE IF couldDiffer(a, b) THEN "distinct" ELSE "unknown"
listsSame(c, x, sepC, sepX) ==
  \/ Files[c].local # "" /\ Files[c].local = Files[x].local
  \/ /\ ~sepC /\ ~sepX /\ Files[c].path = Files[x].path /\ (Files[c].local = "" \/ Files[x].local = "")
  \/ Files[c].size = Files[x].size /\ statRelation(c, x) = "same"
  \/ /\ Files[c].name = Files[x].name /\ ~(sepC /\ Files[c].local = "") /\ ~(sepX /\ Files[x].local = "")
     /\ statRelation(c, x) # "distinct"
listedElsewhere(c, s) ==
  {x \in UNION {Titles[u].files : u \in {w \in scan.refs : Sid(w) # s}} :
     listsSame(c, x, ScanServers[s].separate, ScanServers[ServerOf(x)].separate)}
unreadAffects(files, s) ==
  ScanServers[s].separate =>
    \E c \in files, l \in Libs : ScanLibs[l].server = s /\ Files[c].local \in ScanLibs[l].folders
crossServerReasons(files, s) == Multi /\ \E o \in scan.unread \ {s} : unreadAffects(files, o)

-----------------------------------------------------------------------------
(* The stored groups.  A key is <<external id, 0>> or, when another title's *)
(* group has it, <<external id, first item>>.                              *)
NoGroup == [copies |-> {}, items |-> {}, libs |-> {}, status |-> "none", removes |-> {}, overrides |-> {},
            lastScan |-> 0, stable |-> 0, readIn |-> 0, resolvedIn |-> 0, partial |-> FALSE, busy |-> FALSE]
Open == {"pending", "review", "deferred", "protected", "queued", "failed"}
Closed == {"none", "ignored", "resolved"}
Usable(c) == world.state[c] = "ok"
\* decorate: a missing file of a mapped folder that is there was deleted.
unavailable(c) == world.state[c] = "offline" \/ (world.state[c] = "missing" /\ Files[c].local = "")
copiesOf(is) == UNION {Titles[t].files : t \in is}
baseKey(is) == LET ids == UNION {Titles[t].ids : t \in is} IN IF ids = {} THEN -Min(is) ELSE Min(ids)
groupServer(is) == Sid(Min(is))

sameContent(g, is) == g.items \cap is # {}
disambiguatedKey(k, is) == IF k[2] # 0 THEN k ELSE <<k[1], Min(is)>>
taken(k, is) == stored[k].status \notin {"none", "resolved"} /\ ~sameContent(stored[k], is)
plainKey(is) == <<baseKey(is), 0>>
otherKey(is) == IF taken(plainKey(is), is) THEN disambiguatedKey(plainKey(is), is) ELSE plainKey(is)
liveKey(is) == stored[otherKey(is)].status \notin {"none", "resolved"}
preds(is) == {k \in DOMAIN stored : stored[k].status \notin {"none", "resolved"} /\ sameContent(stored[k], is)}
adoptable(is) ==
  LET same == {k \in preds(is) \ {otherKey(is)} : k[1] = baseKey(is)}
  IN  IF Cardinality(same) = 1 THEN same ELSE {}
lookupStored(is) ==
  IF liveKey(is) \/ adoptable(is) = {} THEN otherKey(is) ELSE CHOOSE k \in adoptable(is) : TRUE

\* carryOver, inherit: overrides of the group, or of the groups it replaces; an
\* ignored predecessor of the same copies keeps it ignored.
Predecessors(k, is) == IF stored[k].status \in {"none", "resolved"} THEN preds(is) \ {k} ELSE {}
carriedOverrides(k, is, cs) ==
  cs \cap (stored[k].overrides \cup UNION {stored[o].overrides : o \in Predecessors(k, is)})
carriedStatus(k, is, cs) ==
  IF stored[k].status \in {"ignored", "queued"} THEN stored[k].status
  ELSE IF \E o \in Predecessors(k, is) : stored[o].status = "ignored" /\ stored[o].copies = cs
       THEN "ignored" ELSE "none"

\* What the scan knows that keeps a copy.
Protected(c, t) ==
  \/ \E i \in applyMatches(c) : ArrFiles[i].keep
  \/ sharedWith(c, t) # {}
  \/ Multi /\ listedElsewhere(c, Sid(t)) # {}
OwnerIn(c, is) == CHOOSE t \in is : c \in Titles[t].files
Removes(is, cs, keep) == {c \in cs \ (keep \cup {Min(cs)}) : ~Protected(c, OwnerIn(c, is))}
StatusFor(removes, busy, carried) ==
  IF carried = "ignored" THEN "ignored"
  ELSE IF removes = {} THEN "protected"
  ELSE IF busy THEN "deferred" ELSE IF carried = "queued" THEN "queued" ELSE "pending"
incompleteReasons(is, cs) ==
  \/ scan.ignored = "failed"
  \/ \E t \in is : \/ TypeOf(Titles[t].library) \in scan.arrFailed
                   \/ t \in scan.incomplete \/ arrUnlookable(t)
                   \/ Titles[t].library \in scan.sharedIncomplete
  \/ \E c \in cs : sizeMismatch(c) \/ arrUnknown(c, OwnerIn(c, is))
  \/ crossServerReasons(cs, groupServer(is))
overlap(k, cs) ==
  \E o \in DOMAIN stored \ {k} : stored[o].status = "ignored" /\ stored[o].copies \cap cs # {}
forceReview(st) == IF st \in {"pending", "deferred", "queued"} THEN "review" ELSE st
dropStaleApproval(g, st, cs, removes) ==
  IF st = "queued" /\ g.status = "queued" /\ ~(g.copies \ g.removes \subseteq cs \ removes) THEN "review" ELSE st
stableCount(g, removes, cs) ==
  IF g.status \in {"none", "resolved"} \/ g.removes # removes \/ g.copies # cs THEN 1
  ELSE IF scan.targeted THEN Max({g.stable, 1}) ELSE g.stable + 1

\* The group persistGroup stores under the key: cs its usable copies, keep
\* their overrides, removes the others that nothing protects.
StoredAs(k, is, cs, keep, removes, busy, partial) ==
  LET e == StatusFor(removes, busy, carriedStatus(k, is, cs))
      st == IF partial \/ (scan.ignored = "ok" /\ overlap(k, cs) /\ e # "queued") THEN forceReview(e) ELSE e
  IN  [copies |-> cs, items |-> is, libs |-> {Titles[t].library : t \in is},
       status |-> dropStaleApproval(stored[k], st, cs, removes), removes |-> removes, overrides |-> keep, busy |-> busy,
       stable |-> IF partial THEN 0 ELSE stableCount(stored[k], removes, cs), partial |-> partial,
       lastScan |-> scan.id, readIn |-> scan.id, resolvedIn |-> 0]
Decided(k, is, cs, keep) ==
  StoredAs(k, is, cs, keep, Removes(is, cs, keep), \E t \in is : markBusyItems(t), incompleteReasons(is, cs))
Evaluated(k, is, cs) == Decided(k, is, cs, carriedOverrides(k, is, cs))
Persisted(k, is) == Evaluated(k, is, {c \in copiesOf(is) : Usable(c)})
\* reevaluateLocked: a new evaluation of the stored versions; what the scan
\* could not read stays unread.
reevaluateLocked(k, keep) ==
  LET g == stored[k]
      removes == g.removes \ keep
      e == StatusFor(removes, g.busy, g.status)
      st == IF (g.status = "review" /\ g.partial) \/ (overlap(k, g.copies) /\ e # "queued") THEN forceReview(e) ELSE e
  IN  [g EXCEPT !.overrides = keep, !.removes = removes, !.status = dropStaleApproval(g, st, g.copies, removes),
                !.stable = IF removes = g.removes THEN @ ELSE 0]
autoEligible(g) ==
  AutoMode /\ g.status = "pending" /\ g.stable >= StableScansRequired /\ g.removes # {}

-----------------------------------------------------------------------------
(* The pipeline.  A failing read costs one of the faults left.             *)
Keys == {<<i, n>> : i \in UNION {Titles[t].ids : t \in DOMAIN Titles} \cup {-t : t \in DOMAIN Titles},
                    n \in {0} \cup DOMAIN Titles}
NoScan == [phase |-> "idle", id |-> 0, targeted |-> FALSE, body |-> [libs |-> {}, keys |-> {}, ids |-> {}, servers |-> {}],
           todo |-> {}, libs |-> {}, listed |-> {}, failedLibs |-> {}, unsafe |-> {}, partners |-> {}, unread |-> {},
           refs |-> {}, comp |-> <<>>, pre |-> {}, targets |-> {}, gone |-> {}, failed |-> {}, incomplete |-> {},
           sharedIncomplete |-> {}, items |-> {}, examined |-> {}, arrRead |-> {}, arrFailed |-> {}, ignored |-> "none",
           groups |-> {}, protect |-> {}, auto |-> {}, approved |-> 0, emptied |-> {}]
ScanInit ==
  /\ world = [held |-> DOMAIN Titles, state |-> [c \in DOMAIN Files |-> "ok"]]
  /\ stored = [k \in Keys |-> NoGroup]
  /\ scan = NoScan
  /\ scanLeft = [scans |-> ScansMax, faults |-> ScanFaults, changes |-> ScanChanges]

CanFail(n) == n <= scanLeft.faults
Failed(n) == scanLeft' = [scanLeft EXCEPT !.faults = @ - n]
NoFault == UNCHANGED scanLeft
Ended == scan' = [scan EXCEPT !.phase = "idle"]

\* readSections: the servers that cannot be read, that fail their gate, or have
\* a library the program does not know.
Listing(libs, down) ==
  [partners |-> overlapPartners(libs) \cup crossServerPartners(libs),
   unread |-> IF Multi THEN down \cup {s \in DOMAIN ScanServers : ScanServers[s].stranger} ELSE {}]
Starting(b, id) == [NoScan EXCEPT !.body = b, !.id = id, !.targeted = b.keys \cup b.ids # {}]
Began(sc, libs, down) ==
  [sc EXCEPT !.phase = "list", !.libs = libs, !.partners = Listing(libs, down).partners,
             !.unread = Listing(libs, down).unread, !.todo = libs \cup Listing(libs, down).partners]
Down == {d \in SUBSET DOMAIN ScanServers : Cardinality(d) <= 1 /\ (d # {} => Multi)}

\* runFull: the libraries asked for, and those they are compared with.
StartFull(b, down) ==
  /\ scan.phase = "idle" /\ scanLeft.scans > 0 /\ b.keys \cup b.ids = {} /\ down \in Down /\ CanFail(Cardinality(down))
  /\ LET libs == scanLibraries(b.libs)
     IN  scan' = IF libs = {} THEN Starting(b, scan.id + 1) ELSE Began(Starting(b, scan.id + 1), libs, down)
  /\ scanLeft' = [scanLeft EXCEPT !.scans = @ - 1, !.faults = @ - Cardinality(down)]
  /\ UNCHANGED <<world, stored>>

\* runTargeted: the items named, read one by one, and the libraries of the ids.
\* An item a read-only server no longer has counts as failed.
targetServers(b) == IF b.servers = {} THEN DOMAIN ScanServers ELSE b.servers
byIds(b) == {l \in Libs : b.ids # {} /\ scannable(l) /\ ScanLibs[l].server \in targetServers(b)}
StartTargeted(b, bad, down) ==
  LET wanted == {t \in b.keys : Sid(t) \in targetServers(b)}
      found == {t \in wanted \ bad : t \in world.held}
      lost == {t \in wanted \ bad : t \notin world.held}
      failed == bad \cup {t \in lost : ScanServers[Sid(t)].readOnly}
      pre == {t \in found : scannable(Titles[t].library)}
      libs == withScopePartners({Titles[t].library : t \in pre} \cup byIds(b))
      sc == [Starting(b, scan.id + 1) EXCEPT !.pre = pre, !.gone = lost \ failed, !.failed = failed]
  IN  /\ scan.phase = "idle" /\ scanLeft.scans > 0 /\ b.keys \cup b.ids # {}
      /\ bad \subseteq wanted /\ down \in Down /\ CanFail(Cardinality(bad) + Cardinality(down))
      /\ scan' = IF b.ids = {} /\ pre = {} /\ lost = {} /\ failed # {} THEN sc ELSE Began(sc, libs, down)
      /\ scanLeft' = [scanLeft EXCEPT !.scans = @ - 1, !.faults = @ - Cardinality(bad) - Cardinality(down)]
      /\ UNCHANGED <<world, stored>>

\* listLibraries: one library after the other.  A listing may fail, or come
\* back empty although the library is not.
ListLibrary(outcome) ==
  /\ scan.phase = "list" /\ scan.todo # {}
  /\ LET l == Min(scan.todo)
         here == {t \in world.held : Titles[t].library = l}
     IN  /\ outcome = "empty" => here # {}
         /\ scan' = CASE outcome = "fails" -> [scan EXCEPT !.todo = @ \ {l}, !.failedLibs = @ \cup {l}]
                      [] l \in scan.partners /\ outcome = "lists" -> [scan EXCEPT !.todo = @ \ {l}, !.refs = @ \cup here]
                      [] l \in scan.partners /\ outcome = "empty" -> [scan EXCEPT !.todo = @ \ {l}, !.emptied = @ \cup {l}]
                      [] OTHER -> [scan EXCEPT !.todo = @ \ {l}, !.listed = @ \cup {l},
                                     !.refs = IF outcome = "lists" THEN @ \cup here ELSE @,
                                     !.emptied = IF outcome = "empty" THEN @ \cup {l} ELSE @,
                                     !.unsafe = IF outcome = "empty" \/ here = {} THEN @ \cup {l} ELSE @]
  /\ CASE outcome = "lists" -> NoFault [] OTHER -> CanFail(1) /\ Failed(1)
  /\ UNCHANGED <<world, stored>>

\* Mutated form: only a library of the scan that fails leaves others incomplete.
sharedLibrariesOfScan(listed, failed) ==
  {l \in listed : \E f \in failed \ scan.partners : f # l /\ ScanLibs[f].server = ScanLibs[l].server /\ locationsOverlap(l, f)}
\* Libraries whose folders a library that could not be listed shares.
sharedLibraries(listed, failed) ==
  {l \in listed : \E f \in failed : f # l /\ ScanLibs[f].server = ScanLibs[l].server /\ locationsOverlap(l, f)}

\* buildIndex: what the listings show; a listed item that was asked for and
\* is not in them failed.
BuildIndex ==
  /\ scan.phase = "list" /\ scan.todo = {}
  /\ IF scan.libs # {} /\ scan.listed = {} THEN Ended
     ELSE scan' = [scan EXCEPT
            !.phase = "select", !.comp = buildComponents({t \in Indexed : ScanLibs[Titles[t].library].scope # "" /\ Titles[t].ids # {}}),
            !.failed = @ \cup (scan.pre \ Indexed),
            !.unread = IF Multi THEN @ \cup {ScanLibs[l].server : l \in scan.failedLibs} ELSE @,
            !.sharedIncomplete = sharedLibraries(scan.listed, scan.failedLibs)]
  /\ UNCHANGED <<world, stored, scanLeft>>

\* selectSeriesEpisodes: the episodes worth a look, shown by their show to be
\* the series asked for; a show is told by the first of its episodes that loads.
maxShowProbes == 3
openItems == UNION {stored[k].items : k \in {x \in Keys : stored[x].status \in Open}}
worthALook(t) == TypeOf(Titles[t].library) = "show"
                 /\ (Cardinality(Titles[t].files) >= 2 \/ crossLibrary(t) \/ t \in openItems \/ t \in scan.pre)
showEpisodes(t) == {u \in Indexed : worthALook(u) /\ Sid(u) = Sid(t) /\ Titles[u].show = Titles[t].show}
probes(t) == {u \in showEpisodes(t) : Cardinality({w \in showEpisodes(t) : w < u}) < maxShowProbes}
movieMatches(t) == TypeOf(Titles[t].library) = "movie" /\ Titles[t].ids \cap scan.body.ids # {}
showMatches(t) == worthALook(t) /\ Titles[t].show \in scan.body.ids
Wanted == IF scan.targeted THEN {t \in Indexed : t \in scan.pre \/ movieMatches(t) \/ showMatches(t)} ELSE fullCandidates
Select ==
  /\ scan.phase = "select"
  /\ LET ts == Wanted
     IN  scan' = [scan EXCEPT !.phase = "fetch", !.targets = ts,
                    !.examined = IF scan.targeted THEN ts \cup UNION {linkedTo(t) : t \in ts} ELSE ts]
  /\ UNCHANGED <<world, stored, scanLeft>>

\* fetchDetails, markIncomplete: an item that cannot be read leaves those it is
\* linked to incomplete.  Items named were read before.  A show none of whose
\* probes loads is left out.
FetchDetails(bad) ==
  LET lost == {t \in scan.targets : /\ scan.targeted /\ showMatches(t) /\ t \notin scan.pre
                                    /\ probes(t) \subseteq bad}
      failed == scan.failed \cup bad
  IN  /\ scan.phase = "fetch"
      /\ bad \subseteq scan.examined \ scan.pre /\ CanFail(Cardinality(bad)) /\ Failed(Cardinality(bad))
      /\ scan' = [scan EXCEPT !.phase = "arr", !.failed = failed, !.items = (@ \cup scan.examined) \ (failed \cup lost),
                    !.targets = @ \ lost, !.examined = @ \ lost,
                    !.incomplete = failed \cup UNION {linkedTo(t) : t \in failed}]
      /\ UNCHANGED <<world, stored>>

\* enrich: what each Radarr and Sonarr tracks.  One that cannot be read, the
\* second time too, leaves every title of its kind incomplete.
Instances == {ArrFiles[i].instance : i \in DOMAIN ArrFiles}
InstanceTypes(bad) == {ArrFiles[i].type : i \in {j \in DOMAIN ArrFiles : ArrFiles[j].instance \in bad}}
itemGroups == {IF crossLibrary(t) THEN scan.comp[t] \cap scan.items ELSE {t} : t \in scan.items}
Enrich(bad) ==
  /\ scan.phase = "arr"
  /\ bad \subseteq Instances /\ CanFail(Cardinality(bad)) /\ Failed(Cardinality(bad))
  /\ scan' = [scan EXCEPT !.phase = "persist", !.arrRead = Instances \ bad, !.arrFailed = InstanceTypes(bad),
                !.groups = {is \in itemGroups : Cardinality({c \in copiesOf(is) : Usable(c)}) >= 2}]
  /\ UNCHANGED <<world, stored>>

\* loadIgnored, before the first group.
LoadIgnored(ok) ==
  /\ scan.phase = "persist" /\ scan.ignored = "none" /\ scan.groups # {}
  /\ IF ok THEN NoFault ELSE CanFail(1) /\ Failed(1)
  /\ scan' = [scan EXCEPT !.ignored = IF ok THEN "ok" ELSE "failed"]
  /\ UNCHANGED <<world, stored>>

\* persistGroup: looked up, evaluated, stored; or it fails, when the stored
\* group, or all of its libraries when even that is unknown, must not be
\* resolved.  A key used by another title's group fails too.
GroupSaved(k, g, rest) ==
  /\ stored' = [stored EXCEPT ![k] = g]
  /\ scan' = [scan EXCEPT !.groups = rest, !.auto = IF autoEligible(g) THEN @ \cup {k} ELSE @]
  /\ NoFault
PersistAs(k, is, rest, outcome) ==
  CASE outcome = "lookup fails" ->
         /\ CanFail(1) /\ Failed(1) /\ UNCHANGED stored
         /\ scan' = [scan EXCEPT !.groups = rest, !.unsafe = @ \cup {Titles[t].library : t \in is}]
    [] outcome = "save fails" \/ (outcome = "saves" /\ taken(k, is)) ->
         /\ IF outcome = "saves" THEN NoFault ELSE CanFail(1) /\ Failed(1)
         /\ UNCHANGED stored
         /\ scan' = [scan EXCEPT !.groups = rest, !.protect = IF stored[k].status # "none" THEN @ \cup {k} ELSE @]
    [] OTHER -> GroupSaved(k, Persisted(k, is), rest)
PersistGroup(outcome) ==
  /\ scan.phase = "persist" /\ scan.groups # {} /\ scan.ignored # "none"
  /\ LET is == CHOOSE x \in scan.groups : \A y \in scan.groups : Min(x) <= Min(y)
     IN  PersistAs(lookupStored(is), is, scan.groups \ {is}, outcome)
  /\ UNCHANGED world

\* Mutated form: only a group of nothing but unavailable copies is held.
holdsUnavailableAll(g) == g.copies # {} /\ \A c \in g.copies : unavailable(c)
\* keepUnavailable: groups not seen because a copy is unavailable stay.
holdsUnavailable(g) == \E c \in g.copies : unavailable(c) /\ \E t \in scan.items : c \in Titles[t].files
KeepUnavailable ==
  /\ scan.phase = "persist" /\ scan.groups = {}
  /\ LET kept == {k \in Keys : stored[k].status \in Open /\ stored[k].lastScan # scan.id /\ holdsUnavailable(stored[k])}
     IN  /\ stored' = [k \in Keys |-> IF k \in kept THEN [stored[k] EXCEPT !.lastScan = scan.id] ELSE stored[k]]
         /\ scan' = [scan EXCEPT !.phase = "resolve", !.protect = @ \cup kept]
  /\ UNCHANGED <<world, scanLeft>>

\* resolveFull: groups that depend on something that could not be read are
\* touched; then MarkUnseenResolved resolves every open group that this scan did
\* not see with a library among the listed, safe ones.
Unread(g) == g.libs \cap scan.failedLibs # {} \/ g.items \cap scan.failed # {}
resolveSet == scan.listed \ scan.unsafe
ResolveFull(ok) ==
  /\ scan.phase = "resolve" /\ ~scan.targeted
  /\ IF ok THEN NoFault ELSE CanFail(1) /\ Failed(1)
  /\ LET touched == {k \in Keys : stored[k].status \in Open /\ (Unread(stored[k]) \/ k \in scan.protect)
                                  /\ stored[k].libs \cap resolveSet # {}}
         unseen == {k \in Keys : stored[k].status \in Open /\ stored[k].lastScan # scan.id
                                 /\ stored[k].libs \cap resolveSet # {}}
     IN  stored' = [k \in Keys |->
           IF ~ok \/ resolveSet = {} THEN stored[k]
           ELSE IF k \in touched THEN [stored[k] EXCEPT !.lastScan = scan.id]
           ELSE IF k \in unseen THEN [stored[k] EXCEPT !.status = "resolved", !.resolvedIn = scan.id]
           ELSE stored[k]]
  /\ scan' = [scan EXCEPT !.phase = "approve"]
  /\ UNCHANGED world

\* resolveTargeted: groups of the items asked for, every item of which was
\* examined, with nothing unread about them.
dependsOnFailure(g) ==
  \/ g.libs \cap (scan.failedLibs \cup scan.unsafe) # {}
  \/ g.items \cap (scan.failed \cup scan.incomplete) # {}
ResolveTargeted ==
  /\ scan.phase = "resolve" /\ scan.targeted
  /\ LET asked == scan.targets \cup scan.gone
         examined == scan.examined \cup scan.gone
         gs == {k \in Keys : /\ stored[k].status \in Open /\ stored[k].lastScan # scan.id /\ k \notin scan.protect
                             /\ stored[k].items \cap asked # {} /\ stored[k].items \subseteq examined
                             /\ ~dependsOnFailure(stored[k])}
     IN  stored' = [k \in Keys |-> IF k \in gs THEN [stored[k] EXCEPT !.status = "resolved", !.resolvedIn = scan.id]
                                   ELSE stored[k]]
  /\ scan' = [scan EXCEPT !.phase = "approve"]
  /\ UNCHANGED <<world, scanLeft>>

\* autoApprove: in key order, within the budget; the approval refuses a group
\* that changed.
AutoApprove ==
  /\ scan.phase = "approve" /\ scan.auto # {}
  /\ LET k == CHOOSE x \in scan.auto : \A y \in scan.auto : x[1] < y[1] \/ (x[1] = y[1] /\ x[2] <= y[2])
         n == Cardinality(stored[k].removes)
         fits == scan.approved + n <= MaxDeletionsPerRun /\ stored[k].status = "pending"
     IN  /\ stored' = IF fits THEN [stored EXCEPT ![k].status = "queued"] ELSE stored
         /\ scan' = [scan EXCEPT !.auto = @ \ {k}, !.approved = IF fits THEN @ + n ELSE @]
  /\ UNCHANGED <<world, scanLeft>>
FinishScan ==
  /\ scan.phase = "approve" /\ scan.auto = {} /\ Ended
  /\ UNCHANGED <<world, stored, scanLeft>>
\* A canceled scan stops between two stages, or two groups.
CancelScan ==
  /\ scan.phase \notin {"idle", "resolve"} /\ CanFail(1) /\ Failed(1) /\ Ended
  /\ UNCHANGED <<world, stored>>

-----------------------------------------------------------------------------
(* Between scans: the owner's decisions, and what happens to the media.    *)
Between == scan.phase = "idle" /\ scanLeft.changes > 0
           /\ scanLeft' = [scanLeft EXCEPT !.changes = @ - 1] /\ UNCHANGED scan
IgnoreGroup(k) ==
  /\ Between /\ stored[k].status \in Open \ {"queued"} /\ stored' = [stored EXCEPT ![k].status = "ignored"]
  /\ UNCHANGED world
\* An override, and the re-evaluation that follows it.
OverrideKeep(k, c) ==
  /\ Between /\ stored[k].status \in Open \ {"queued"} /\ c \in stored[k].removes
  /\ stored' = [stored EXCEPT ![k] = reevaluateLocked(k, stored[k].overrides \cup {c})]
  /\ UNCHANGED world
\* ReevaluateAll and ReevaluateMatching, one group at a time, in a scan too.
Reevaluate(k) ==
  /\ scanLeft.changes > 0 /\ stored[k].status \in Open \cup {"ignored"}
  /\ stored' = [stored EXCEPT ![k] = reevaluateLocked(k, stored[k].overrides)]
  /\ scanLeft' = [scanLeft EXCEPT !.changes = @ - 1] /\ UNCHANGED <<world, scan>>
TitleGone(t) == Between /\ t \in world.held /\ world' = [world EXCEPT !.held = @ \ {t}] /\ UNCHANGED stored
FileChanges(c, st) == Between /\ world.state[c] # st /\ world' = [world EXCEPT !.state[c] = st] /\ UNCHANGED stored

-----------------------------------------------------------------------------
(* Properties.                                                             *)

\* What the servers and the *arrs really say of a copy, whether read or not:
\* its file is tagged to be kept, another title of the server lists it, or
\* another server does.
ReallyKept(c, t) ==
  \/ \E i \in DOMAIN ArrFiles : ArrFiles[i].keep /\ ArrFiles[i].local # "" /\ ArrFiles[i].local = Files[c].local
  \/ \E u \in world.held \ {t} : \E d \in Titles[u].files :
       /\ ScanLibs[Titles[u].library].server \in DOMAIN ScanServers
       /\ Files[d].inode # 0 /\ Files[d].inode = Files[c].inode
\* A group ready for removal after a scan, or re-evaluated since, removes no copy that an *arr's
\* keep tag, another title or another server's library holds on to, whatever the
\* scan failed to read: it is stored for review instead (incompleteReasons).  A
\* listing that came back empty cannot be told from an empty library.
PendingIsInformed ==
  \A k \in Keys :
    (stored[k].readIn = scan.id /\ scan.id > 0 /\ stored[k].status \in {"pending", "queued"} /\ scan.emptied = {})
      => \A c \in stored[k].removes : ~ReallyKept(c, OwnerIn(c, stored[k].items))

\* A group is resolved only when fewer than two of its copies are left, or those
\* left are in a group this scan stored: never because something could not be
\* read (resolveFull, resolveTargeted, keepUnavailable).  Listings that came
\* back empty are set aside.
ResolvedIsGone ==
  \A k \in Keys : (stored[k].status = "resolved" /\ stored[k].resolvedIn = scan.id /\ scan.phase # "idle"
                     /\ stored[k].libs \cap scan.emptied = {})
    => LET left == {c \in stored[k].copies : \E t \in world.held : c \in Titles[t].files /\ (Usable(c) \/ unavailable(c))}
       IN  \/ Cardinality(left) < 2
           \/ \E o \in Keys \ {k} : stored[o].status \notin {"none", "resolved"} /\ left \subseteq stored[o].copies
=============================================================================
