---------------------------- MODULE MCDecisions ----------------------------
(* Instances of the decision modules for TLC.                              *)
EXTENDS Keepers, Grouping

\* A plain 1080p file, and the versions that differ from it where it matters.
Plain == [optimized |-> FALSE, missing |-> FALSE, inaccessible |-> FALSE, episodeEnd |-> 0,
  sharedWith |-> {}, arrEpisodes |-> {}, multiName |-> FALSE, parts |-> 1, video_codec |-> "h264",
  width |-> 1920, video_bitrate |-> 8, disc |-> "none", inDisc |-> FALSE, hasPlaylist |-> FALSE,
  arr |-> 0, arrFile |-> 0, arrAdded |-> 0, added |-> 5, duration |-> 100, sampleName |-> FALSE,
  watch |-> [status |-> "known", plays |-> 0, last |-> 0, since |-> 4], feature |-> 0, size |-> 50,
  audio |-> {[format |-> "ac3", channels |-> 6]}, langs |-> {"eng"}, resolution |-> "1080",
  dynamic_range |-> "sdr", container |-> "mkv", library |-> 1, score |-> 0, scoreKnown |-> FALSE,
  bit_depth |-> 8, subtitle_tracks |-> 1, globs |-> {}, tags |-> {}, mediaID |-> 1,
  shortcutOf |-> {}, removable |-> FALSE, reachable |-> FALSE, plexItems |-> {}, reportOnly |-> FALSE,
  paths |-> {}, roots |-> {}, name |-> "", inode |-> 0, others |-> {}, links |-> 1, problem |-> FALSE,
  trackedClip |-> FALSE, readOnly |-> FALSE, item |-> "a", cutoffUnmet |-> FALSE, freed |-> 0,
  content |-> <<>>]

Disc == [Plain EXCEPT !.disc = "bluray", !.container = "", !.resolution = "2160", !.size = 90, !.feature = 70,
           !.removable = TRUE, !.reachable = TRUE, !.freed = 90, !.roots = {<<"r", 1>>}, !.content = <<1>>,
           !.audio = {[format |-> "dtshdma", channels |-> 0]}]
Listing(same, distinct) ==
  [match |-> "same_file", keptByGroup |-> FALSE, others |-> {[same |-> same, distinct |-> distinct]}]

Archetypes == <<
  Plain,
  [Plain EXCEPT !.size = 54, !.paths = {<<"p", 1>>}, !.added = 9],
  [Plain EXCEPT !.size = 60, !.paths = {<<"p", 1>>}, !.resolution = "720", !.watch = [@ EXCEPT !.plays = 2, !.last = 7]],
  [Plain EXCEPT !.size = 57, !.video_bitrate = 9, !.arr = 1, !.arrFile = 1, !.scoreKnown = TRUE, !.score = 3, !.cutoffUnmet = TRUE],
  [Plain EXCEPT !.arr = 2, !.arrFile = 1, !.scoreKnown = TRUE, !.score = 5, !.video_codec = "hevc", !.tags = {"keep"}],
  Disc,
  [Disc EXCEPT !.removable = FALSE, !.problem = TRUE],
  [Plain EXCEPT !.inDisc = TRUE, !.size = 70],
  [Plain EXCEPT !.others = {Listing({1}, {2, 3})}, !.size = 66],
  [Plain EXCEPT !.others = {Listing({}, {1, 2, 3})}, !.watch = [@ EXCEPT !.status = "failed"], !.item = "b"],
  [Plain EXCEPT !.inaccessible = TRUE, !.size = 99, !.resolution = "2160"],
  [Plain EXCEPT !.missing = TRUE],
  [Plain EXCEPT !.arrEpisodes = {1, 2}, !.arr = 1, !.duration = 200],
  [Plain EXCEPT !.size = 99, !.resolution = "2160"],
  [Disc EXCEPT !.others = {Listing({1}, {2})}] >>

Crit(t, k) == [type |-> t, kind |-> k, lower |-> FALSE, order |-> <<>>, tol |-> 0,
               minDelta |-> 0, value |-> 0, patterns |-> {}]
Resolutions == [Crit("resolution", "ordered") EXCEPT !.order = <<"2160", "1080", "720">>]
SizeWithin10 == [Crit("file_size", "numeric") EXCEPT !.tol = 10]
Profiles == <<
  [criteria |-> <<SizeWithin10, Resolutions>>, keepPer |-> "", keepCount |-> 1, protections |-> {}],
  [criteria |-> <<Crit("health", "boolean"), Resolutions, Crit("custom_format_score", "numeric"),
                  [Crit("video_bitrate", "numeric") EXCEPT !.lower = TRUE]>>,
     keepPer |-> "resolution", keepCount |-> 0, protections |-> {[type |-> "arr_tag", value |-> "keep"]}],
  [criteria |-> <<Crit("last_played", "numeric"), [Crit("container", "ordered") EXCEPT !.order = <<"mkv">>],
                  [Crit("audio_format", "ordered") EXCEPT !.order = <<"dtsx", "ac3">>],
                  [Crit("filename_score", "patterns") EXCEPT !.patterns = {[glob |-> "x", score |-> 2]}]>>,
     keepPer |-> "", keepCount |-> 2, protections |-> {}] >>

Envs == <<
  [keepPlayableCopy |-> TRUE, allowDiscRemoval |-> TRUE, differentArrIntentional |-> FALSE, minAge |-> 0, now |-> 10],
  [keepPlayableCopy |-> FALSE, allowDiscRemoval |-> TRUE, differentArrIntentional |-> TRUE, minAge |-> 2, now |-> 10] >>

KeeperCase(vs, x, st) == [vs |-> vs, profile |-> x[1], env |-> x[2], mediaType |-> "movie", flags |-> {}, status |-> st,
                          serversRead |-> TRUE]
\* The last: the choice of a person leaves a partition without a keeper, and
\* another server's item brings its disc back.
MCKeeperCases ==
  {KeeperCase(<<a, b, c>>, x, st) :
     a \in {2, 6}, b \in {3, 4, 9}, c \in DOMAIN Archetypes, x \in {<<1, 1>>, <<2, 2>>, <<3, 1>>}, st \in {"pending", "queued"}}
  \cup {KeeperCase(<<14, 15, 1>>, <<2, 1>>, "pending")}

-----------------------------------------------------------------------------
NoIds == [sp \in Spaces |-> ""]
Cand(k, lib) == [key |-> k, library |-> lib, optimized |-> FALSE, missing |-> FALSE, edition |-> "", is3D |-> FALSE,
  langs |-> {"eng"}, folder |-> "film", year |-> 2000, tag |-> "", duration |-> 100, stacked |-> FALSE,
  episodes |-> 1, arr |-> 0, arrItem |-> 0, arrFile |-> 0, arrEpisodes |-> {}]
Film(key, lib, ids, vs) == [server |-> 1, kind |-> "plex", library |-> lib, scope |-> "films", type |-> "movie",
  key |-> key, title |-> "film", year |-> 2000, season |-> -1, episode |-> 0, ids |-> ids, showIds |-> NoIds,
  versions |-> vs]
Ids(t, i) == [NoIds EXCEPT !.tmdb = t, !.imdb = i]

MCShelf == <<
  Film(1, 1, Ids("t1", ""), {Cand(1, 1), [Cand(2, 1) EXCEPT !.edition = "extended", !.arr = 1, !.arrItem = 1]}),
  Film(2, 2, Ids("t1", "i9"), {Cand(3, 2), [Cand(4, 2) EXCEPT !.edition = "extended", !.langs = {"ger"}]}),
  Film(3, 2, Ids("t2", "i9"), {[Cand(5, 2) EXCEPT !.duration = 70], [Cand(6, 2) EXCEPT !.is3D = TRUE]}),
  Film(4, 1, Ids("", ""), {Cand(7, 1), Cand(20, 1)}),
  Film(4, 1, Ids("t1", ""), {[Cand(7, 1) EXCEPT !.edition = "extended"], [Cand(8, 1) EXCEPT !.missing = TRUE]}),
  [Film(5, 3, Ids("t1", ""), {Cand(9, 3)}) EXCEPT !.server = 2, !.kind = "jellyfin"],
  [Film(6, 3, Ids("t1", ""), {Cand(10, 3)}) EXCEPT !.server = 2, !.kind = "jellyfin"],
  [Film(7, 4, Ids("t1", ""), {Cand(11, 4), [Cand(12, 4) EXCEPT !.langs = {"ger", "eng"}],
                              [Cand(13, 4) EXCEPT !.langs = {"ger"}]}) EXCEPT !.server = 2, !.kind = "jellyfin"],
  [Film(8, 2, NoIds, {Cand(14, 2), Cand(15, 2)}) EXCEPT !.type = "episode", !.season = 1, !.episode = 2,
     !.showIds = Ids("s1", "")],
  [Film(9, 1, NoIds, {Cand(16, 1), Cand(17, 1)}) EXCEPT !.type = "episode", !.season = 1, !.episode = 2,
     !.showIds = Ids("s1", "")],
  [Film(10, 9, Ids("t1", ""), {Cand(18, 9), Cand(19, 9)}) EXCEPT !.title = "skip"] >>

MCShelves == {{1, 2, 4, 5}, {2, 3, 4, 5}, {1, 3, 9, 10}, {6, 7, 8}, {5, 6, 8, 11}}
MCGroupOpts == [editions |-> TRUE, threeD |-> TRUE, languages |-> TRUE, arrIntentional |-> FALSE, durationPct |-> 10,
  durationMin |-> 5, maxSize |-> 4, exLibraries |-> {}, exTitles |-> {"skip"}, exPaths |-> {}, exGroups |-> {}]

-----------------------------------------------------------------------------
(* The parts share no state: a behaviour is one part's.                    *)
VARIABLE part
DecisionsInit ==
  /\ KeeperInit /\ GroupingInit
  /\ \/ part = "keepers" /\ shelf = CHOOSE s \in Shelves : TRUE
     \/ part = "grouping" /\ group = CHOOSE c \in KeeperCases : TRUE
KeepersOnly == part = "keepers" /\ UNCHANGED <<part, groupingVars>>
GroupingOnly == part = "grouping" /\ UNCHANGED <<part, keeperVars>>
DecisionsNext ==
  \/ KeepersOnly /\ NewEvaluation
  \/ KeepersOnly /\ NarrowRound
  \/ KeepersOnly /\ EndRound
  \/ KeepersOnly /\ DecideEngine
  \/ KeepersOnly /\ DecideOverrides
  \/ KeepersOnly /\ KeepForOthers
  \/ KeepersOnly /\ Finish
  \/ KeepersOnly /\ \E i \in V, o \in {"", "keep", "remove"} : SetOverride(i, o)
  \/ GroupingOnly /\ ListItems
  \/ GroupingOnly /\ Collect
  \/ GroupingOnly /\ MatchItems
  \/ GroupingOnly /\ BuildUnits
  \/ GroupingOnly /\ Disambiguate
  \/ GroupingOnly /\ BuildGroups
DecisionsSpec == DecisionsInit /\ [][DecisionsNext]_<<part, keeperVars, groupingVars>>
=============================================================================
