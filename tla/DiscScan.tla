------------------------------ MODULE DiscScan ------------------------------
(***************************************************************************)
(* Full-disc backups next to the movies: finding them (src/internal/disc), *)
(* making them versions of the movies of a scan (src/internal/scanner/     *)
(* discs.go, clips.go) and checking one again before it is removed         *)
(* (verifyDisc of src/internal/executor/disc.go), while the folders change.*)
(* A path is an entry of the catalogue Entry; a file inside BDMV or        *)
(* VIDEO_TS stands for that entry.                                         *)
(***************************************************************************)
EXTENDS Integers, Sequences, FiniteSets, FiniteSetsExt, SequencesExt

CONSTANTS
  Entry,            \* id -> [at, kind, good, link, n, name]; at is the folder it lies in
  Folders,          \* folder -> [up, title, library]: up = 0 for a movie's folder, its folder for a set folder
  Playlists,        \* id of a BDMV -> its playlists: [clips, ticks, chapters, class, hd, streams]
  Clips,            \* id of a BDMV -> the clips it has
  Movies,           \* <<[key, acts, fetched, show, ids, names, versions]>> in the order of the index
  FirstEntries,     \* the contents the disk may have at first: sets of entries
  Changing,         \* the entries that may come, go or change
  MaxDiskChanges

VARIABLES
  tree,             \* [there, ver]: the entries there are, and how often each changed
  looked,           \* folder -> what detectFolder has of it
  attached,         \* the versions attachDiscs made, or <<>> before
  check             \* the check of a disc before its removal
discVars == <<tree, looked, attached, check>>

Ids == DOMAIN Entry
\* Every entry lies in a folder of the catalogue.
ASSUME DiscAssumption == Changing \subseteq Ids /\ \A e \in Ids : Entry[e].at \in DOMAIN Folders

In(f) == {e \in tree.there : Entry[e].at = f}
Sub(f) == {g \in DOMAIN Folders : Folders[g].up = f /\ In(g) # {}}
Linked(es) == {e \in es : Entry[e].link}
OfKind(es, k) == {e \in es : Entry[e].kind = k}
Real(es, k) == OfKind(es, k) \ Linked(es)

-----------------------------------------------------------------------------
(* Detect.                                                                 *)
Priority == <<"bluray", "dvd", "hddvd", "avchd", "bdav", "clips">>
rankOf(t) == CHOOSE i \in DOMAIN Priority : Priority[i] = t
\* checkBDMV, checkDVDFiles: an index, a playlist and a clip; VIDEO_TS.IFO and a VOB.
sound(es) == \A e \in es : Entry[e].good # "incomplete"
companions(es) == OfKind(es, "bdcomp") \cup OfKind(es, "dvdcomp") \cup OfKind(es, "hdcomp")
\* The structures among the entries of one folder.
structures(es) ==
  LET one(typ, kind, with) ==
        IF Real(es, kind) = {} THEN {}
        ELSE {[typ |-> typ, owned |-> Real(es, kind) \cup with, ok |-> Cardinality(Real(es, kind)) = 1 /\ sound(Real(es, kind))]}
      loose(typ, kind, with) ==
        IF OfKind(es, kind) = {} THEN {}
        ELSE {[typ |-> typ, owned |-> OfKind(es, kind) \cup with, ok |-> Linked(OfKind(es, kind) \cup with) = {} /\ sound(OfKind(es, kind))]}
      never(typ, kind) == IF Real(es, kind) = {} THEN {} ELSE {[typ |-> typ, owned |-> Real(es, kind), ok |-> TRUE]}
      linked == {[typ |-> Entry[e].kind, owned |-> {e}, ok |-> FALSE] : e \in {x \in Linked(es) : Entry[x].kind \in {"bluray", "dvd", "hddvd", "avchd", "bdav"}}}
  IN  one("bluray", "bluray", OfKind(es, "bdcomp")) \cup one("dvd", "dvd", OfKind(es, "dvdcomp"))
        \cup loose("dvd", "flat", {}) \cup never("hddvd", "hddvd") \cup never("avchd", "avchd") \cup never("bdav", "bdav")
        \cup loose("clips", "clip", OfKind(es, "clipmeta")) \cup linked
\* The layout of a folder: one structure is the disc, several are a mixed one.
allOwned(ss) == UNION {s.owned : s \in ss}
layoutOf(es, first, ss) ==
  LET owned == IF ss = {first} THEN first.owned ELSE allOwned(ss) \cup companions(es)
  IN  [typ |-> first.typ, ok |-> ss = {first} /\ first.ok, owned |-> owned, whole |-> owned = es]
firstOf(ss) == CHOOSE s \in ss : \A o \in ss : rankOf(s.typ) <= rankOf(o.typ)
classifyAmong(es, ss) == IF ss = {} THEN [typ |-> "none"] ELSE layoutOf(es, firstOf(ss), ss)
classify(es) == classifyAmong(es, structures(es))
\* Mutated form: a set folder is taken as a whole whatever else it holds.
wholeAlways(dir, f, l) == f # dir
wholeFolder(dir, f, l) == f # dir /\ l.whole
\* ownedOf: a set folder or bundle that holds nothing else, found from the folder
\* dir it lies in, is owned itself, else its entries are.
ownedOf(dir, f, l) == IF wholeFolder(dir, f, l) THEN [folders |-> {f}, entries |-> {}] ELSE [folders |-> {}, entries |-> l.owned]
Together(os) == [folders |-> UNION {o.folders : o \in os}, entries |-> UNION {o.entries : o \in os}]

buildSingle(dir, f, l) == [typ |-> l.typ, roots |-> <<f>>, owned |-> ownedOf(dir, f, l), ok |-> l.ok]
\* buildSet: Disc 1, Disc 2, ... of one kind and one name, and no disc beside them.
buildSet(f, gs, l) ==
  LET order == SetToSortSeq(gs, LAMBDA a, b : Folders[a].n < Folders[b].n \/ (Folders[a].n = Folders[b].n /\ a < b))
      roots == IF l[f].typ = "none" THEN order ELSE <<f>> \o order
  IN  [typ |-> l[roots[1]].typ, roots |-> roots,
       owned |-> Together({ownedOf(f, g, l[g]) : g \in gs \cup (IF l[f].typ = "none" THEN {} ELSE {f})}),
       ok |-> /\ l[f].typ = "none" /\ \A i \in DOMAIN order : Folders[order[i]].n = i
              /\ Cardinality({Folders[g].title : g \in gs}) = 1
              /\ \A g \in gs : l[g].typ = l[roots[1]].typ /\ l[g].ok]
\* images: a stack of images is one disc, numbered from one.
stackOf(is, e) == {o \in is : Entry[o].n > 0 /\ Entry[e].n > 0 /\ Entry[o].name = Entry[e].name}
imageDisc(es) ==
  LET order == SetToSortSeq(es, LAMBDA a, b : Entry[a].n < Entry[b].n \/ (Entry[a].n = Entry[b].n /\ a < b))
  IN  [typ |-> "iso", roots |-> <<>>, owned |-> [folders |-> {}, entries |-> es],
       ok |-> Linked(es) = {} /\ sound(es) /\ (Cardinality(es) > 1 => \A i \in DOMAIN order : Entry[order[i]].n = i)]
images(f) ==
  LET is == OfKind(In(f), "image")
  IN  {imageDisc(IF Cardinality(stackOf(is, e)) > 1 THEN stackOf(is, e) ELSE {e}) : e \in is}
\* l: the layout of every folder.
detectAmong(f, l) ==
  LET set == {g \in Sub(f) : Folders[g].n > 0 /\ l[g].typ # "none"}
      bundles == {g \in Sub(f) : Folders[g].n = 0 /\ Folders[g].bundle /\ l[g].typ # "none"}
  IN  (IF set # {} THEN {buildSet(f, set, l)} ELSE {buildSingle(f, g, l[g]) : g \in {h \in {f} : l[h].typ # "none"}})
        \cup {buildSingle(f, g, l[g]) : g \in bundles} \cup images(f)
Detect(f) == detectAmong(f, [g \in DOMAIN Folders |-> classify(In(g))])

-----------------------------------------------------------------------------
(* Inspect: the main feature, and what the disc is made of.                *)
hasRepeats(p) == \E i \in DOMAIN p.clips : Cardinality({j \in DOMAIN p.clips : p.clips[j] = p.clips[i]}) > 2
LongTicks == 2
\* guessMain: TRUE when p is rather the main feature than q.
guessMain(p, q) ==
  LET long == p.ticks > LongTicks /\ q.ticks > LongTicks
      apart == (p.chapters < 2 \/ q.chapters < 2) /\ (p.chapters - q.chapters > 5 \/ q.chapters - p.chapters > 5)
  IN  IF long /\ apart THEN p.chapters > q.chapters
      ELSE IF long /\ p.class # q.class THEN p.class > q.class
      ELSE IF long /\ p.hd # q.hd THEN p.hd
      ELSE IF p.ticks # q.ticks THEN p.ticks > q.ticks
      ELSE p.streams > q.streams
NoMain == [clips |-> <<>>]
\* selectMain: in the order of their names; one that loops, or repeats another, is left out.
selectMain(ps) ==
  FoldLeft(LAMBDA best, p : IF hasRepeats(p) \/ (best # NoMain /\ best.clips = p.clips) THEN best
                            ELSE IF best = NoMain THEN p ELSE IF guessMain(p, best) THEN p ELSE best, NoMain, ps)
\* Neither the index nor its backup copy can be parsed.
indexReadable(e) == Entry[e].good # "unreadable"
\* buildFeature: every clip of the main feature must be there.
missingClips(e) == ToSet(selectMain(Playlists[e]).clips) \ Clips[e]
inspectBluray(e) == indexReadable(e) /\ selectMain(Playlists[e]) # NoMain /\ missingClips(e) = {}
\* inspectDVD: the IFO files of the title set with the most bytes.
inspectDVD(e) == Entry[e].good # "unreadable"
inspectable(d, es) ==
  CASE d.typ = "bluray" -> \A e \in OfKind(es, "bluray") : inspectBluray(e)
    [] d.typ = "dvd" -> \A e \in OfKind(es, "dvd") \cup OfKind(es, "flat") : inspectDVD(e)
    [] OTHER -> \A e \in es : Entry[e].good # "unreadable"

\* Measure: the files under the owned entries, with the folders' own times.
folderContent(o) == o.entries \cup {e \in tree.there : Entry[e].at \in o.folders}
Measure(o) ==
  [files |-> {<<e, tree.ver[e]>> : e \in folderContent(o)}, folders |-> {<<g, tree.ver[-g]>> : g \in o.folders},
   irregular |-> Linked(folderContent(o)) # {} \/ \E e \in folderContent(o) : Entry[e].good = "irregular",
   gone |-> ~(o.entries \subseteq tree.there)]
Inspect(d) ==
  LET m == Measure(d.owned)
  IN  [typ |-> d.typ, roots |-> d.roots, owned |-> d.owned, print |-> m,
       ok |-> d.ok /\ ~m.gone /\ inspectable(d, folderContent(d.owned))]
protectOnly(t) == t \in {"hddvd", "avchd", "bdav"}
Removable(d) == ~protectOnly(d.typ) /\ d.ok /\ ~d.print.irregular /\ d.print.files # {}

-----------------------------------------------------------------------------
(* The scan: detectFolders, in parallel.                                   *)
NotLooked == [phase |-> "no", discs |-> {}]
Looked(f, phase, ds) == looked' = [looked EXCEPT ![f] = [phase |-> phase, discs |-> ds]]
DiscInit ==
  /\ tree \in [there : FirstEntries, ver : {[x \in Ids \cup {-g : g \in DOMAIN Folders} |-> 0]}]
  /\ looked = [f \in {g \in DOMAIN Folders : Folders[g].up = 0} |-> NotLooked]
  /\ attached = <<>> /\ check = [phase |-> "none"]
DetectFolder(f) ==
  /\ attached = <<>> /\ looked[f].phase = "no" /\ Looked(f, "found", Detect(f))
  /\ UNCHANGED <<tree, attached, check>>
InspectFolder(f) ==
  /\ looked[f].phase = "found" /\ Looked(f, "done", {Inspect(d) : d \in looked[f].discs})
  /\ UNCHANGED <<tree, attached, check>>
\* A folder that cannot be read has no disc.
DetectFails(f) ==
  /\ attached = <<>> /\ looked[f].phase = "no" /\ Looked(f, "done", {}) /\ UNCHANGED <<tree, attached, check>>

-----------------------------------------------------------------------------
(* Attaching the discs to the movies.                                      *)
KindOf(e) == Entry[e].kind
isDiscPath(e) == KindOf(e) \in {"bluray", "dvd", "flat", "clip", "clipmeta", "hddvd", "avchd", "bdav"}
\* titleFolderOf: the movie folder of a plain file, inside a mapped library.
upFrom(f) == IF Folders[f].up = 0 THEN f ELSE Folders[f].up
titleFolderOf(e) == LET f == upFrom(Entry[e].at) IN IF isDiscPath(e) \/ KindOf(e) = "image" \/ ~Folders[f].library THEN 0 ELSE f
usersOf(f) ==
  SelectSeq([i \in DOMAIN Movies |-> i], LAMBDA i : ~Movies[i].show /\
    \E j \in DOMAIN Movies[i].versions : ~Movies[i].versions[j].optimized /\ \E e \in Movies[i].versions[j].files : titleFolderOf(e) = f)
\* folderOwner: a folder several titles share has none.
folderOwner(f) ==
  LET us == usersOf(f)
      acting == SelectSeq(us, LAMBDA i : Movies[i].acts)
  IN  IF acting = <<>> \/ \E k \in 2 .. Len(us) : Movies[us[1]].ids \cap Movies[us[k]].ids = {} THEN 0 ELSE acting[1]

VersionOf(i, j) == Movies[i].versions[j]
isPlexDisc(v) == ~v.optimized /\ \E e \in v.files : KindOf(e) \in {"bluray", "dvd", "image"}
\* looseClipFolder: every part is a loose clip (or its metadata) of one folder.
looseClips(v) ==
  /\ ~v.optimized /\ v.files # {} /\ \A e \in v.files : KindOf(e) \in {"clip", "clipmeta", "flat"}
  /\ \E e \in v.files : KindOf(e) \in {"clip", "flat"}
  /\ Cardinality({Entry[e].at : e \in v.files}) = 1
clipFolder(v) == Entry[CHOOSE e \in v.files : TRUE].at
clipSets(i) == {clipFolder(VersionOf(i, j)) : j \in {k \in DOMAIN Movies[i].versions : looseClips(VersionOf(i, k))}}
clipFiles(i, f) == UNION {v.files : v \in {VersionOf(i, k) : k \in {x \in DOMAIN Movies[i].versions : looseClips(VersionOf(i, x)) /\ clipFolder(VersionOf(i, x)) = f}}}

discRootOf(e) == IF KindOf(e) = "image" THEN <<e>> ELSE <<Entry[e].at>>
rootsOf(d) == IF d.typ = "iso" THEN {<<e>> : e \in d.owned.entries} ELSE {<<f>> : f \in ToSet(d.roots)}
detectDir(r, e) == upFrom(Entry[e].at)
\* findDisc: the disc of the inventory with that root.
findDisc(e) ==
  LET f == detectDir(discRootOf(e), e) IN {d \in (IF f \in DOMAIN looked THEN looked[f].discs ELSE {}) : discRootOf(e) \in rootsOf(d)}
owns(d, e) == e \in d.owned.entries \/ Entry[e].at \in d.owned.folders
\* discNamedForOther: a set folder or an image named for another title.
namedForOther(i, f, d) ==
  \E r \in (IF d.typ = "iso" THEN {Entry[e].name : e \in d.owned.entries}
            ELSE {Folders[g].title : g \in ToSet(d.roots) \ {f}}) : r # "" /\ r \notin Movies[i].names
discNamesItem(i, f, d) ==
  /\ ~namedForOther(i, f, d)
  /\ Folders[f].title \in Movies[i].names \/ (d.typ = "iso" /\ \A e \in d.owned.entries : Entry[e].name \in Movies[i].names)
\* plexItemsInDisc: other items of the index with a file of the disc.
plexItemsInDisc(i, d) ==
  {Movies[k].key : k \in {x \in DOMAIN Movies : x # i /\ \E j \in DOMAIN Movies[x].versions : \E e \in VersionOf(x, j).files :
     (isDiscPath(e) \/ KindOf(e) = "image") /\ discRootOf(e) \in rootsOf(d)}}

NoDisc == [typ |-> "none"]
Version(i, origin, files, d, removable) ==
  [item |-> i, origin |-> origin, files |-> files, disc |-> d, removable |-> removable, others |-> {}]
Plain(i, v) == Version(i, "file", v.files, NoDisc, TRUE)
\* toPlexDisc: the disc found on disk, if it covers all that Plex lists of it.
toPlexDisc(i, v) ==
  LET e == Min(v.files)
      found == findDisc(e)
      d == CHOOSE x \in found : TRUE
      roots == {discRootOf(x) : x \in v.files}
  IN  IF Movies[i].show \/ found = {} THEN Version(i, "plex", v.files, NoDisc, FALSE)
      ELSE Version(i, "plex", v.files, d, Removable(d) /\ roots = rootsOf(d) /\ ~namedForOther(i, detectDir(discRootOf(e), e), d))
\* clipSetVersion, readClipSet: loose clips are one version, removable when all
\* of them are the disc's.
clipSetVersion(i, f) ==
  LET files == clipFiles(i, f)
      found == {d \in (IF upFrom(f) \in DOMAIN looked THEN looked[upFrom(f)].discs ELSE {}) : <<f>> \in rootsOf(d)}
      d == CHOOSE x \in found : TRUE
      mixed == OfKind(files, "clip") # {} /\ OfKind(files, "flat") # {}
  IN  IF Movies[i].show \/ found = {} THEN Version(i, "plex", files, NoDisc, FALSE)
      ELSE [Version(i, "plex", files, d, Removable(d) /\ Len(d.roots) = 1 /\ ~mixed /\ (\A e \in files : owns(d, e)) /\ ~namedForOther(i, upFrom(f), d))
             EXCEPT !.others = plexItemsInDisc(i, d)]
\* The versions Plex lists, with discs and clip sets in their place.
listedVersions(i) ==
  {IF isPlexDisc(v) THEN toPlexDisc(i, v) ELSE Plain(i, v) :
     v \in {VersionOf(i, j) : j \in {k \in DOMAIN Movies[i].versions : ~looseClips(VersionOf(i, k))}}}
    \cup {clipSetVersion(i, f) : f \in clipSets(i)}
Fetched == {i \in DOMAIN Movies : Movies[i].fetched}
\* The roots of the discs that are already versions.
claimed(vs, i) == UNION {rootsOf(v.disc) : v \in {w \in vs : w.origin = "plex" /\ w.disc # NoDisc}}
foundVersions(i, vs) ==
  {[Version(i, "filesystem", folderContent(d.owned), d, Removable(d)) EXCEPT !.others = plexItemsInDisc(i, d)] :
     d \in UNION {{x \in looked[f].discs : rootsOf(x) \cap claimed(vs, i) = {} /\ discNamesItem(i, f, x)} :
                    f \in {g \in DOMAIN looked : folderOwner(g) = i}}}
attachDiscs ==
  LET listed == UNION {listedVersions(i) : i \in Fetched}
  IN  listed \cup UNION {foundVersions(i, listed) : i \in {x \in Fetched : ~Movies[x].show}}
Attach ==
  /\ attached = <<>> /\ \A f \in DOMAIN looked : looked[f].phase = "done"
  /\ attached' = <<attachDiscs>> /\ UNCHANGED <<tree, looked, check>>

-----------------------------------------------------------------------------
(* verifyDisc, before the disc is removed: detected and measured again.    *)
Deletable(v) == v.origin # "file" /\ v.disc # NoDisc /\ v.removable /\ v.others = {}
foundAgain(v, ds) ==
  LET fresh == {d \in ds : rootsOf(d) = rootsOf(v.disc)}
  IN  IF fresh = {} THEN [phase |-> "refused"] ELSE [phase |-> "detected", version |-> v, disc |-> CHOOSE d \in fresh : TRUE]
\* discDetectFolder: an image, a set and a folder that is owned itself are found from above.
discDetectFolder(d) ==
  IF d.typ = "iso" THEN Entry[Min(d.owned.entries)].at
  ELSE IF Len(d.roots) > 1 \/ d.roots[1] \in d.owned.folders THEN Folders[d.roots[1]].up ELSE d.roots[1]
VerifyDetect(v, f) ==
  /\ attached # <<>> /\ check.phase = "none" /\ v \in attached[1] /\ Deletable(v)
  /\ f = discDetectFolder(v.disc) /\ check' = foundAgain(v, Detect(f))
  /\ UNCHANGED <<tree, looked, attached>>
sameOwned(a, b) == a.owned = b.owned
VerifyMeasure ==
  /\ check.phase = "detected"
  /\ LET now == Inspect(check.disc)
     IN  check' = IF sameOwned(now, check.version.disc) /\ now.print = check.version.disc.print /\ Removable(now)
                  THEN [phase |-> "passed", version |-> check.version, takes |-> folderContent(now.owned)] ELSE [phase |-> "refused"]
  /\ UNCHANGED <<tree, looked, attached>>

-----------------------------------------------------------------------------
(* Meanwhile.                                                              *)
Changes == FoldSet(LAMBDA e, n : n + tree.ver[e], 0, Ids)
Touch(e, there) ==
  /\ check.phase \in {"none", "detected"} /\ Changes < MaxDiskChanges /\ e \in Changing
  /\ tree' = [there |-> there, ver |-> [tree.ver EXCEPT ![e] = @ + 1, ![-Entry[e].at] = @ + 1]]
  /\ UNCHANGED <<looked, attached, check>>
EntryAppears(e) == e \notin tree.there /\ Touch(e, tree.there \cup {e})
EntryGoes(e) == e \in tree.there /\ Touch(e, tree.there \ {e})

-----------------------------------------------------------------------------
(* Properties.                                                             *)

\* A disc is a version of one item: no file of a disc that may be removed is
\* also a file of another version of this scan, and an item the scan does not
\* act on that lists one is named, which protects the disc (claimedRoot,
\* folderOwner, plexItemsInDisc).
DiscOnce ==
  attached # <<>> => \A v \in attached[1] : (Deletable(v) /\ v.origin = "filesystem") =>
    /\ \A w \in attached[1] \ {v} : \A e \in w.files : ~owns(v.disc, e)
    /\ \A i \in DOMAIN Movies : \A j \in DOMAIN Movies[i].versions : \A e \in VersionOf(i, j).files : ~owns(v.disc, e)

\* What passes the check before a removal is the disc and nothing else, however
\* its folders changed since it was found: no plain file goes with it
\* (ownedOf, Measure, verifyDisc).
DiscAloneGoes ==
  check.phase = "passed" => \A e \in check.takes : isDiscPath(e) \/ KindOf(e) \in {"image", "bdcomp", "dvdcomp", "hdcomp"}

\* A disc and the files beside it stay apart, both when the disc becomes a
\* version and when it is removed (discs.go AttachDiscs and verifyDisc).
DiscsApart == DiscOnce /\ DiscAloneGoes
=============================================================================
