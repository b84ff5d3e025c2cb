----------------------------- MODULE MCLibrary ------------------------------
(* Instances for TLC of the modules about files and libraries: the recycle *)
(* bin, the checks before a removal, paths, scans, listings, discs, play   *)
(* history and applications.                                               *)
EXTENDS Library

-----------------------------------------------------------------------------
(* RecycleBin: two removals that share their files.                        *)
BinSlot(n) == [mapped |-> TRUE, inRoot |-> TRUE, inLibrary |-> TRUE, video |-> TRUE, insideDisc |-> FALSE,
               shareMix |-> FALSE, file |-> n]
MCSlotInfo == [x1 |-> BinSlot(1), x2 |-> BinSlot(2)]
MCPartSlots == [film |-> <<"x1", "x2">>, disc |-> <<"x2", "x1">>]
MCRemovalKind == [film |-> "file", disc |-> "disc"]
MCBinSettings ==
  {[set |-> FALSE, problems |-> {}, content |-> "absent"], [set |-> TRUE, problems |-> {}, content |-> "absent"],
   [set |-> TRUE, problems |-> {}, content |-> "foreign"]}

-----------------------------------------------------------------------------
(* RemovalGuards: groups of four versions, checked under several setups.   *)
GuardVer(d, ps, a, tier) ==
  [decision |-> d, parts |-> ps, arr |-> a, tier |-> tier, disc |-> FALSE, inDisc |-> FALSE, optimized |-> FALSE,
   shared |-> FALSE, overridden |-> FALSE, young |-> FALSE, recycled |-> FALSE]
MCGuardGroups == <<
  [v1 |-> GuardVer("remove", <<"a">>, 1, "hd"), v2 |-> GuardVer("keep", <<"b">>, 2, "hd"),
   v3 |-> GuardVer("remove", <<"c">>, 0, "uhd"), v4 |-> GuardVer("keep", <<"d">>, 0, "uhd")],
  [v1 |-> [GuardVer("remove", <<"c">>, 0, "hd") EXCEPT !.disc = TRUE], v2 |-> GuardVer("keep", <<"b">>, 2, "hd"),
   v3 |-> GuardVer("none", <<"b">>, 0, "hd"), v4 |-> GuardVer("keep", <<"a">>, 0, "hd")] >>
MCBaseName == [a |-> "n1", b |-> "n2", c |-> "n3", d |-> "n2"]
MCGuardDisk == [a |-> 1, b |-> 2, c |-> 3, d |-> 4]
MCFileSize == <<10, 20, 30, 40>>
MCInside == [a |-> {"x"}, b |-> {"x"}, c |-> {"y"}, d |-> {"x", "c"}]
AllSet == [group |-> 1, methods |-> <<"arr", "plex", "filesystem">>, mapped |-> {"server", "arr", "other"}, multi |-> TRUE,
  separate |-> FALSE, linksConfirmed |-> FALSE, readOnly |-> FALSE, arrBin |-> "set", arrEnabled |-> TRUE, bin |-> TRUE,
  plexDelete |-> TRUE, keepPlayable |-> TRUE, keepPer |-> FALSE, cleanup |-> TRUE, existsKnown |-> TRUE, excluded |-> FALSE,
  record |-> "complete", gate |-> TRUE, scanTimes |-> TRUE, keptItems |-> {}, allowDisc |-> TRUE]
MCGuardSetups == {AllSet, [AllSet EXCEPT !.multi = FALSE, !.mapped = {}],
  [AllSet EXCEPT !.methods = <<"filesystem">>, !.scanTimes = FALSE, !.record = "absent"],
  [AllSet EXCEPT !.methods = <<"filesystem">>, !.scanTimes = FALSE],
  [AllSet EXCEPT !.multi = FALSE, !.readOnly = TRUE, !.keepPer = TRUE, !.methods = <<"plex", "filesystem">>,
                 !.existsKnown = FALSE],
  [AllSet EXCEPT !.multi = FALSE, !.group = 2]}
MCOtherItems == <<{"a", "d"}, {"c", "b"}>>

-----------------------------------------------------------------------------
(* Paths: a link, nested mappings, and pairs of files on every kind of     *)
(* filesystem.  On a real local filesystem one file has one inode number   *)
(* and one size.                                                           *)
MCDirs == {<<>>, <<"m">>, <<"m", "f">>, <<"m", ".r">>, <<"d">>}
MCPlaces == {[dirs |-> MCDirs, link |-> [from |-> <<"k">>, to |-> <<"m">>],
  mappings |-> <<[source |-> 1, remote |-> <<"s">>, local |-> <<"k">>], [source |-> 1, remote |-> <<"s", "f">>, local |-> <<"m">>]>>,
  libraries |-> {[server |-> 1, location |-> loc]}, dataDir |-> <<"d">>, hidden |-> {".r"}] :
  loc \in {<<"s">>, <<"s", "f">>, <<"u">>}}
MCBinPaths == {<<"k">>, <<"m">>, <<"m", ".r">>, <<"m", "x">>, <<"b">>, <<"k", "b">>, <<"d", "b">>, <<"m", "f", "b">>}
MCLinks == {<<"m">>, <<"m", ".r">>, <<"z">>, <<>>}
Regular(i, sz, ph, dv) == [regular |-> TRUE, dev |-> dv, ino |-> i, size |-> sz, physical |-> ph]
MountSets == {{"ext4"}, {"zfs"}, {"fuse.shfs"}, {"overlay"}, {"ext4", "overlay"}, {"ext3"}, {"btrfs"}}
FilePairs == {[a |-> Regular(i, 5, 1, 1), b |-> Regular(j, sz, ph, dv), mounts |-> {[dev |-> 1, type |-> t] : t \in ts},
               mountsRead |-> TRUE, magic |-> mg] :
  i \in {0, 1}, j \in {1, 2}, sz \in {5, 6}, ph \in {1, 2}, dv \in {1, 2}, ts \in MountSets,
  mg \in {"ext4", "fuse", "overlay", "none", "error", "btrfs"}}
MCFileCases == {x \in FilePairs : x.a.physical = x.b.physical =>
  /\ x.a.size = x.b.size
  /\ keepsInodes(x) => x.a.ino = x.b.ino \/ 0 \in {x.a.ino, x.b.ino}}

-----------------------------------------------------------------------------
(* ScanPipeline: two servers, libraries that share folders and titles.     *)
ScanServer == [separate |-> FALSE, stranger |-> FALSE, readOnly |-> FALSE]
MCScanServers == (1 :> ScanServer) @@ (2 :> [ScanServer EXCEPT !.readOnly = TRUE])
ScanLib(s, ty, sc, f) == [server |-> s, type |-> ty, enabled |-> TRUE, excluded |-> FALSE, scope |-> sc, folders |-> f]
MCScanLibs == (1 :> ScanLib(1, "movie", "films", {"m"})) @@ (2 :> ScanLib(1, "movie", "films", {"n"})) @@
  (3 :> ScanLib(1, "show", "", {"m", "s"})) @@ (4 :> ScanLib(2, "movie", "", {"m"}))
ScanTitle(l, ids, show, fs) == [library |-> l, ids |-> ids, show |-> show, files |-> fs]
\* 1: four copies, one the other server lists; 2: the same film elsewhere; 3: an
\* episode listing copy 12; 4: on the other server; 5: an episode with two copies.
MCTitles == (1 :> ScanTitle(1, {10}, 0, {11, 12, 13, 14})) @@ (2 :> ScanTitle(2, {10}, 0, {21})) @@
  (3 :> ScanTitle(3, {30}, 33, {31})) @@ (5 :> ScanTitle(3, {31}, 33, {51, 52})) @@ (4 :> ScanTitle(4, {10}, 0, {41}))
ScanFile(p, l, n, z, i) == [path |-> p, local |-> l, name |-> n, size |-> z, inode |-> i]
MCFiles ==
  (11 :> ScanFile("m/a", "m/a", "a", 5, 1)) @@ (12 :> ScanFile("m/b", "m/b", "b", 6, 2)) @@
  (13 :> ScanFile("m/c", "m/c", "c", 7, 3)) @@ (14 :> ScanFile("m/d", "m/d", "d", 8, 9)) @@
  (21 :> ScanFile("n/a", "n/a", "a", 5, 4)) @@ (31 :> ScanFile("m/b", "m/b", "b", 6, 2)) @@
  (41 :> ScanFile("x/c", "x/c", "c", 7, 3)) @@
  (51 :> ScanFile("s/a", "s/a", "sa", 5, 5)) @@ (52 :> ScanFile("s/b", "", "sb", 5, 6))
MCArrFiles == (1 :> [instance |-> 1, type |-> "movie", path |-> "n/a", local |-> "n/a", name |-> "a", size |-> 5,
                     ids |-> {10}, keep |-> TRUE, queued |-> FALSE])
MCArrLinks == (1 :> [confirmed |-> TRUE, servers |-> {1, 2}])
ScanBody(l, k, i) == [libs |-> l, keys |-> k, ids |-> i, servers |-> {}]
MCScanBodies == {ScanBody({}, {}, {}), ScanBody({1}, {}, {}), ScanBody({}, {}, {10, 33})}

-----------------------------------------------------------------------------
(* PlayHistory                                                             *)
HistItem(k, g, l) == [key |-> k, guid |-> g, section |-> 1, added |-> 3, listed |-> l, disc |-> FALSE]
MCHistItems == <<HistItem(11, 101, TRUE), HistItem(12, 102, TRUE), [HistItem(13, 103, TRUE) EXCEPT !.disc = TRUE],
                 HistItem(14, 102, FALSE)>>
MCListed == <<{11, 12, 13, 14, 15}>>
PlayRow(k, g, d) == [key |-> k, guid |-> g, section |-> 1, date |-> d, live |-> FALSE]
MCPlayRows == <<PlayRow(15, 105, 1), PlayRow(11, 101, 4), PlayRow(12, 102, 5), PlayRow(91, 101, 6), PlayRow(11, 101, 7),
                PlayRow(12, 102, 8), [PlayRow(12, 102, 8) EXCEPT !.live = TRUE]>>
MCFirstRows == {{1}, {1, 2}, {1, 3}, {1, 2, 3}, {1, 4}, {}, {1, 3, 7}}

-----------------------------------------------------------------------------
(* DiscScan: a film with a disc beside or below it, a clip folder, images, *)
(* and two films in one folder.                                            *)
DiscEntry(at, kind) == [at |-> at, kind |-> kind, good |-> "ok", link |-> FALSE, n |-> 0, name |-> ""]
MCEntry == <<DiscEntry(1, "movie"), DiscEntry(1, "bluray"), DiscEntry(1, "bdcomp"),
  [DiscEntry(1, "image") EXCEPT !.name = "film"], DiscEntry(2, "bluray"), DiscEntry(3, "bluray"), DiscEntry(2, "other"),
  [DiscEntry(3, "bluray") EXCEPT !.link = TRUE], DiscEntry(1, "clip"), DiscEntry(1, "clipmeta"), DiscEntry(4, "dvd"),
  DiscEntry(5, "movie"), DiscEntry(5, "movie"), [DiscEntry(5, "dvd") EXCEPT !.good = "incomplete"],
  [DiscEntry(1, "image") EXCEPT !.name = "film", !.n = 1], [DiscEntry(1, "image") EXCEPT !.name = "film", !.n = 2],
  DiscEntry(1, "hddvd")>>
DiscFolder(parent, t, n, b) == [up |-> parent, title |-> t, library |-> TRUE, n |-> n, bundle |-> b]
MCFolders == <<DiscFolder(0, "film", 0, FALSE), DiscFolder(1, "film", 1, FALSE), DiscFolder(1, "film", 2, FALSE),
               DiscFolder(1, "film", 0, TRUE), DiscFolder(0, "pair", 0, FALSE)>>
Playlist(c, t) == [clips |-> c, ticks |-> t, chapters |-> 1, class |-> 1, hd |-> TRUE, streams |-> 1]
MCPlaylists == [e \in {2, 5, 6, 8} |-> IF e = 6 THEN <<Playlist(<<1, 1, 1>>, 9), Playlist(<<2, 3>>, 4)>>
                                       ELSE <<Playlist(<<1>>, 1), Playlist(<<1, 2>>, 5)>>]
MCClips == [e \in {2, 5, 6, 8} |-> {1, 2, 3}]
DiscVersion(fs) == [files |-> fs, optimized |-> FALSE]
Movie(k, ids, names, vs) ==
  [key |-> k, acts |-> TRUE, fetched |-> TRUE, show |-> FALSE, ids |-> ids, names |-> names, versions |-> vs]
MCMovies == <<Movie(1, {"t1"}, {"film"}, <<DiscVersion({1}), DiscVersion({2}), DiscVersion({9, 10})>>),
  [Movie(2, {"t1"}, {"film"}, <<DiscVersion({4})>>) EXCEPT !.acts = FALSE, !.fetched = FALSE],
  Movie(3, {"t2"}, {"pair"}, <<DiscVersion({12})>>),
  Movie(4, {"t3"}, {"pair"}, <<DiscVersion({13}), DiscVersion({15, 16})>>),
  Movie(5, {"t4"}, {"film"}, <<DiscVersion({11})>>)>>
MCFirstEntries == {{1, 2, 3}, {1, 2, 4}, {1, 5, 6}, {1, 5, 6, 7}, {1, 5, 7}, {1, 5, 8}, {1, 9, 10}, {1, 11}, {12, 13, 14},
  {1, 15, 16}, {1, 15}, {1, 2, 9}, {1, 17, 4}, {1, 2, 5}}
=============================================================================
