------------------------------ MODULE Keepers ------------------------------
(***************************************************************************)
(* The decision engine (src/internal/engine): how a duplicate group's      *)
(* versions are ranked by the profile's criteria, which are kept, which    *)
(* are removed, and what status the group gets.                            *)
(*                                                                         *)
(* A version is a record of what the engine tells apart: paths, titles and *)
(* labels are left out, a path is the set of globs that match it, a file   *)
(* identity is a token.  A version's index is its key.  The state is one   *)
(* stored group: Evaluate is run on it again after every override.         *)
(***************************************************************************)
EXTENDS Integers, Sequences, FiniteSets, FiniteSetsExt, SequencesExt

CONSTANTS
  Catalogue,        \* the versions there are, a sequence of records
  ProfileSeq,       \* the profiles there are, a sequence of records
  EnvSeq,           \* the settings that matter (EvalEnv), a sequence of records
  KeeperCases,      \* the groups to evaluate: [vs, profile, env, flags, status]
                    \*   with indices into the sequences above
  MaxOverrides      \* bound: manual overrides per behaviour

VARIABLES
  group,            \* the stored duplicate group: what Evaluate reads
  ev,               \* the evaluation under way: what its finished steps computed
  decision,         \* what the last Evaluate wrote, or Undecided
  override,         \* the manual override of each version
  overridesLeft

keeperVars == <<group, ev, decision, override, overridesLeft>>

NothingKept == [keep |-> {}, prot |-> {}, applied |-> {}]
IdleEval == [step |-> "idle", metrics |-> <<>>, comp |-> <<>>, order |-> <<>>, rounds |-> <<>>,
             left |-> {}, tried |-> 0, elim |-> <<>>, kept |-> NothingKept, engine |-> NothingKept]
Undecided == [status |-> "none"]
Infinity == 1000000
ClassAll == "*"

V == DOMAIN group.vs
Ver(i) == Catalogue[group.vs[i]]
Env == EnvSeq[group.env]
Profile == ProfileSeq[group.profile]

-----------------------------------------------------------------------------
(* What the groups, versions and profiles of the program are: numbers are  *)
(* numbers, lists are finite, a criterion is of a known type and its       *)
(* tolerance at most 100 % (buildMetric caps it), a group is not empty     *)
(* (checkEvaluable).                                                       *)

IsList(s) == s \in Seq(ToSet(s))
IsVersion(v) ==
  /\ {v.size, v.feature, v.added, v.arrAdded, v.score, v.mediaID, v.video_bitrate,
      v.bit_depth, v.subtitle_tracks} \subseteq Int
  /\ IsFiniteSet(v.audio) /\ \A t \in v.audio : t.channels \in Int
  /\ v.watch.status = "known" => {v.watch.plays, v.watch.last, v.watch.since} \subseteq Int
IsCriterion(c) ==
  /\ c.kind \in {"ordered", "numeric", "boolean", "patterns"}
  /\ c.kind = "ordered" => IsList(c.order)
  /\ c.kind = "numeric" => c.type \in {"video_bitrate", "audio_channels", "file_size", "custom_format_score",
       "date_added", "last_played", "audio_tracks", "bit_depth", "subtitle_tracks"}
  /\ c.kind = "boolean" => c.type \in {"health", "arr_managed", "played", "audio_language"}
  /\ c.tol \in 0..100 /\ c.minDelta \in Int
  /\ IsFiniteSet(c.patterns) /\ \A p \in c.patterns : p.score \in Int
IsProfile(p) ==
  IsList(p.criteria) /\ (\A k \in DOMAIN p.criteria : IsCriterion(p.criteria[k])) /\ p.keepCount \in Int

ASSUME KeeperAssumption ==
  /\ \A k \in DOMAIN Catalogue : IsVersion(Catalogue[k])
  /\ \A k \in DOMAIN ProfileSeq : IsProfile(ProfileSeq[k])
  /\ \A g \in KeeperCases : /\ IsList(g.vs) /\ g.vs # <<>> /\ ToSet(g.vs) \subseteq DOMAIN Catalogue
                            /\ g.profile \in DOMAIN ProfileSeq /\ g.env \in DOMAIN EnvSeq

-----------------------------------------------------------------------------
(* What is known of one version.                                           *)

isOptimized(v) == v.optimized
isUnavailable(v) == v.missing
Eligible == {i \in V : ~isOptimized(Ver(i)) /\ ~isUnavailable(Ver(i))}

isShared(v) == v.episodeEnd > 0 \/ v.sharedWith # {} \/ Cardinality(v.arrEpisodes) > 1 \/ v.multiName
isStacked(v) == v.parts > 1
unanalyzed(v) == v.video_codec = "" \/ v.width = 0 \/ v.video_bitrate = 0
discMember(v) == v.disc = "none" /\ v.inDisc
plexPlayable(v) == v.disc = "none" /\ ~discMember(v)
discProtectOnly(kind) == kind \notin {"bluray", "uhd", "dvd", "iso", "bluray_clips", "dvd_clips"}

\* A clip set without a playlist only bounds the feature's length from below.
durationLowerBound(v) == v.disc \in {"bluray_clips", "dvd_clips"} /\ ~v.hasPlaylist

dateAdded(v) == IF v.arr # 0 /\ v.arrAdded # 0 THEN v.arrAdded ELSE v.added
newestAdded(v) == IF v.arr # 0 /\ v.arrAdded > v.added THEN v.arrAdded ELSE v.added

\* How many episodes the file covers: 0 is "more than one, number unknown".
episodeCount(mt, v) ==
  LET n == Max({Cardinality(v.arrEpisodes), Cardinality(v.sharedWith) + 1})
  IN  IF mt # "episode" \/ ~isShared(v) THEN 1 ELSE IF n < 2 THEN 0 ELSE n

\* The longest duration among the versions that cover as many episodes.
durationPeer(i) ==
  LET c == episodeCount(group.mediaType, Ver(i))
  IN  IF c = 0 THEN 0
      ELSE Max({0} \cup {Ver(j).duration : j \in {k \in V : episodeCount(group.mediaType, Ver(k)) = c}})

shortSample(i) ==
  LET d == Ver(i).duration
  IN  d > 0 /\ 10 * d < 9 * durationPeer(i) /\ ~durationLowerBound(Ver(i))

healthy(i) ==
  LET v == Ver(i)
  IN  ~(isUnavailable(v) \/ v.inaccessible \/ unanalyzed(v) \/ v.sampleName \/ shortSample(i))

\* Play history: a version whose history is known has [plays, last, since].
knownWatch(v) == v.watch.status = "known"
lastPlayedKnown(v) == knownWatch(v) /\ (v.watch.plays = 0 \/ v.watch.last > 0)
lastPlayedValue(v) == IF v.watch.plays = 0 THEN 0 ELSE v.watch.last

\* What a rival's last play must reach to beat this version.
watchFloor(type, v) ==
  IF ~knownWatch(v) \/ (v.watch.plays = 0 /\ v.watch.since = 0) THEN Infinity
  ELSE IF v.watch.plays = 0 THEN v.watch.since
  ELSE IF type = "played" THEN Infinity ELSE -Infinity

-----------------------------------------------------------------------------
(* One criterion over all versions: a metric.                              *)

rankingSize(v) == IF v.disc # "none" /\ v.feature > 0 THEN v.feature ELSE v.size
discChannelsUnknown(v) == v.disc # "none" /\ \E t \in v.audio : t.channels = 0

\* The disc's metadata names the core format; the track may be its variant.
discVariant(f) == CASE f = "truehd" -> "truehd_atmos" [] f = "dtshdma" -> "dtsx"
                    [] f = "eac3" -> "eac3_atmos" [] OTHER -> f

orderIndex(order, val) ==
  IF \E k \in 1..Len(order) : order[k] = val
  THEN Min({k \in 1..Len(order) : order[k] = val}) - 1
  ELSE Len(order)

\* The best audio track's place in the order; a disc's track counts as its variant.
audioRank(v, order) ==
  Min({LET f == orderIndex(order, t.format) IN
         IF v.disc = "none" THEN f ELSE Min({f, orderIndex(order, discVariant(t.format))})
         : t \in {x \in v.audio : x.format # ""}})

orderedPresent(type, v) ==
  CASE type = "audio_format" -> \E t \in v.audio : t.format # ""
    [] type = "library" -> v.library # 0
    [] type = "container" -> v.disc # "none" \/ v.container # ""
    [] OTHER -> v[type] # ""

orderedValue(type, v) ==
  IF type = "container" /\ v.disc # "none" THEN "disc" ELSE v[type]

numericValue(type, v) ==
  CASE type = "audio_channels" -> Max({0} \cup {t.channels : t \in v.audio})
    [] type = "file_size" -> rankingSize(v)
    [] type = "custom_format_score" -> v.score
    [] type = "date_added" -> dateAdded(v)
    [] type = "last_played" -> IF lastPlayedKnown(v) THEN lastPlayedValue(v) ELSE 0
    [] type = "audio_tracks" -> Cardinality(v.audio)
    [] OTHER -> v[type]

numericPresent(type, v) ==
  CASE type = "custom_format_score" -> v.arr # 0 /\ v.scoreKnown
    [] type = "last_played" -> lastPlayedKnown(v)
    [] type = "subtitle_tracks" -> TRUE
    [] OTHER -> numericValue(type, v) > 0

\* The class within which a numeric criterion compares: only the same video
\* codec's bitrates, one instance's scores, known channels, known plays.
numericClass(type, v) ==
  CASE type = "video_bitrate" -> v.video_codec
    [] type = "custom_format_score" -> IF numericPresent(type, v) THEN ToString(v.arr) ELSE ""
    [] type = "last_played" -> IF lastPlayedKnown(v) THEN "watch" ELSE ""
    [] type = "audio_channels" /\ \E i \in V : discChannelsUnknown(Ver(i)) ->
         IF discChannelsUnknown(v) THEN "" ELSE "known"
    [] OTHER -> ClassAll

tolerant == {"video_bitrate", "file_size", "custom_format_score"}

arrMatches(v, target) == v.arr # 0 /\ (target = 0 \/ v.arr = target)

booleanScore(c, i) ==
  CASE c.type = "health" -> IF healthy(i) THEN 1 ELSE 0
    [] c.type = "arr_managed" -> IF arrMatches(Ver(i), c.value) THEN 1 ELSE 0
    [] c.type = "played" -> IF lastPlayedKnown(Ver(i)) THEN lastPlayedValue(Ver(i)) ELSE 0
    [] c.type = "audio_language" -> IF c.value \in Ver(i).langs THEN 1 ELSE 0

\* Every version in one class, without floor or tolerance.
Plainly(id, present, score) ==
  [id |-> id, present |-> present, score |-> score, tol |-> 0, minDelta |-> 0,
   class |-> [i \in V |-> ClassAll], floor |-> [i \in V |-> -Infinity]]

orderedMetric(c) ==
  LET known == [i \in V |-> orderedPresent(c.type, Ver(i))]
      score == [i \in V |-> IF ~known[i] THEN 0
                            ELSE IF c.type = "audio_format" THEN -audioRank(Ver(i), c.order)
                            ELSE -orderIndex(c.order, orderedValue(c.type, Ver(i)))]
  IN  [Plainly(c.type, known, score) EXCEPT
         !.class = IF c.type = "container" /\ \E i \in V : Ver(i).disc # "none"
                   THEN [i \in V |-> IF Ver(i).disc = "none" THEN "file" ELSE ""] ELSE @]
numericMetric(c) ==
  LET value(i) == numericValue(c.type, Ver(i))
      score == [i \in V |-> IF c.lower /\ c.type # "last_played" THEN -value(i) ELSE value(i)]
  IN  [Plainly(c.type, [i \in V |-> numericPresent(c.type, Ver(i))], score) EXCEPT
         !.tol = IF c.type \in tolerant THEN c.tol ELSE 0,
         !.minDelta = IF c.type \in tolerant \cup {"last_played"} THEN c.minDelta ELSE 0,
         !.class = [i \in V |-> numericClass(c.type, Ver(i))],
         !.floor = IF c.type = "last_played" THEN [i \in V |-> watchFloor(c.type, Ver(i))] ELSE @]
booleanMetric(c) ==
  LET known == [i \in V |-> CASE c.type = "played" -> knownWatch(Ver(i))
                              [] c.type = "audio_language" -> Ver(i).langs # {}
                              [] OTHER -> TRUE]
  IN  [Plainly(c.type, known, [i \in V |-> booleanScore(c, i)]) EXCEPT
         !.class = IF c.type = "played" THEN [i \in V |-> IF known[i] THEN "watch" ELSE ""] ELSE @,
         !.floor = IF c.type = "played" THEN [i \in V |-> watchFloor(c.type, Ver(i))] ELSE @]
patternScore(c, v) == FoldSet(LAMBDA p, n : n + p.score, 0, {p \in c.patterns : p.glob \in v.globs})
patternMetric(c) ==
  Plainly(c.type, [i \in V |-> TRUE],
          [i \in V |-> IF c.lower THEN -patternScore(c, Ver(i)) ELSE patternScore(c, Ver(i))])
buildMetric(c) ==
  CASE c.kind = "ordered" -> orderedMetric(c)
    [] c.kind = "numeric" -> numericMetric(c)
    [] c.kind = "boolean" -> booleanMetric(c)
    [] c.kind = "patterns" -> patternMetric(c)

\* Appended to every profile: managed, larger, older, lower media id.
tiebreakMetrics ==
  LET Oldest(v) == IF v.added # 0 THEN v.added ELSE dateAdded(v)
  IN << Plainly("arr_managed", [i \in V |-> TRUE], [i \in V |-> IF Ver(i).arr # 0 THEN 1 ELSE 0]),
        Plainly("file_size", [i \in V |-> rankingSize(Ver(i)) > 0], [i \in V |-> rankingSize(Ver(i))]),
        Plainly("date_added", [i \in V |-> Oldest(Ver(i)) # 0], [i \in V |-> -Oldest(Ver(i))]),
        Plainly("media_id", [i \in V |-> Ver(i).mediaID > 0], [i \in V |-> -Ver(i).mediaID]) >>

\* newEvaluation: the profile's criteria (those that are enabled), then the
\* tiebreakers.
Metrics ==
  [k \in 1..Len(Profile.criteria) |-> buildMetric(Profile.criteria[k])] \o tiebreakMetrics

beats(m, a, b) ==
  /\ m.class[a] # "" /\ m.class[a] = m.class[b]
  /\ m.present[a]
  /\ \/ ~m.present[b]
     \/ LET d == m.score[a] - m.score[b]
            base == Max({m.score[a], -m.score[a], m.score[b], -m.score[b]})
        IN  m.score[a] >= m.floor[b] /\ d > 0 /\ d >= m.minDelta /\ 100 * d > base * m.tol

\* Mutated form: compared with the first of the class instead of the best.
survivorsOfFirst(m, S) ==
  LET known(c) == {i \in S : m.present[i] /\ m.class[i] # "" /\ m.class[i] = c}
  IN  {i \in S : known(m.class[i]) = {} \/ Min(known(m.class[i])) = i
                 \/ ~beats(m, Min(known(m.class[i])), i)}

\* The versions not beaten by the best of their class (the first of the equal).
survivors(m, S) ==
  LET known(c) == {i \in S : m.present[i] /\ m.class[i] # "" /\ m.class[i] = c}
      best(c) == CHOOSE i \in known(c) : \A j \in known(c) :
                    m.score[i] > m.score[j] \/ (m.score[i] = m.score[j] /\ i <= j)
  IN  {i \in S : known(m.class[i]) = {} \/ best(m.class[i]) = i \/ ~beats(m, best(m.class[i]), i)}

pos(i) == CHOOSE k \in DOMAIN ev.order : ev.order[k] = i

-----------------------------------------------------------------------------
(* Partitions, protections and the choice of keepers.                      *)

\* keepPer: one partition per resolution, per dynamic range, or one for all.
partitionOf(v) ==
  CASE Profile.keepPer = "resolution" -> IF v.resolution = "" THEN "?" ELSE v.resolution
    [] Profile.keepPer = "dynamic_range" -> IF v.dynamic_range = "" THEN "?" ELSE v.dynamic_range
    [] OTHER -> ""

\* The available versions of a version's partition.
Available(i) == {j \in Eligible : partitionOf(Ver(j)) = partitionOf(Ver(i))}

matchProtection(p, v) ==
  CASE p.type = "path" -> p.value \in v.globs
    [] p.type = "library" -> p.value = v.library
    [] p.type = "arr_instance" -> arrMatches(v, p.value)
    [] p.type = "arr_tag" -> v.arr # 0 /\ p.value \in v.tags

discProtected(mt, v) ==
  /\ v.disc # "none"
  /\ \/ mt = "episode" \/ ~Env.allowDiscRemoval
     \/ discProtectOnly(v.disc) \/ ~v.removable \/ ~v.reachable
     \/ v.plexItems # {}

Intentional == Env.differentArrIntentional /\ Cardinality({Ver(i).arr : i \in V} \ {0}) >= 2

protectionReasons(i) ==
  LET v == Ver(i)
  IN  \/ isOptimized(v) \/ isUnavailable(v) \/ isShared(v) \/ v.shortcutOf # {}
      \/ discProtected(group.mediaType, v) \/ discMember(v)
      \/ Intentional /\ v.arr # 0
      \/ \E p \in Profile.protections : matchProtection(p, v)

ReportOnly == \E i \in V : Ver(i).reportOnly

\* The identity keys of a version: paths and inodes, the *arr's file, disc roots.
sameFileKeys(v) == v.paths \cup v.roots \cup (IF v.arrFile = 0 THEN {} ELSE {<<"a", v.arr, v.arrFile>>})

\* Union-find over those keys.
sameFileComponents ==
  LET reach[n \in 0..Cardinality(V), i \in V] ==
        IF n = 0 THEN {i}
        ELSE LET prev == reach[n - 1, i]
             IN  prev \cup {j \in V : \E k \in prev : sameFileKeys(Ver(j)) \cap sameFileKeys(Ver(k)) # {}}
  IN  [i \in V |-> Min(reach[Cardinality(V), i])]

\* One name and size in two folders: perhaps one file through two paths.
likelySameFile(i, j) ==
  /\ ev.comp[i] # ev.comp[j]
  /\ Ver(i).name # "" /\ Ver(i).name = Ver(j).name
  /\ Ver(i).parts = Ver(j).parts /\ Ver(i).size > 0 /\ Ver(i).size = Ver(j).size
  /\ ~(Ver(i).inode # 0 /\ Ver(j).inode # 0 /\ Ver(i).inode # Ver(j).inode)

\* Another version of the other server's item that no removed version touches.
survivor(e, removed) ==
  \E o \in e.others : \A r \in removed : r \notin o.same /\ r \in o.distinct

\* The first playable version of each partition that would keep discs only.
playableNeeded(st) ==
  LET discOnly(i) == /\ Available(i) \cap st.keep # {}
                     /\ \A j \in Available(i) \cap st.keep : ~plexPlayable(Ver(j))
      candidates(i) == {j \in Available(i) \ st.keep : plexPlayable(Ver(j))}
  IN  {i \in Eligible : /\ discOnly(i) /\ i \in candidates(i)
                        /\ \A j \in candidates(i) : pos(i) <= pos(j)}

\* Mutated form: not checked again after the overrides.
keepPlayableOnce(st, after) ==
  LET added == playableNeeded(st)
  IN  IF after \/ ~Env.keepPlayableCopy THEN st
      ELSE [st EXCEPT !.keep = @ \cup added, !.prot = @ \cup added]

keepPlayable(st, after) ==
  LET added == playableNeeded(st)
  IN  IF ~Env.keepPlayableCopy THEN st
      ELSE [keep |-> st.keep \cup added, prot |-> st.prot \cup added,
            applied |-> IF after THEN st.applied \ added ELSE st.applied]

\* Every version of a kept version's file is kept; all but the best ranked are protected.
protectSameFile(st, after) ==
  LET mates(i) == {j \in V : ev.comp[j] = ev.comp[i]}
      keeper(i) == CHOOSE j \in mates(i) \cap st.keep :
                     \A k \in mates(i) \cap st.keep : pos(j) <= pos(k)
      bound == {i \in V : mates(i) \cap st.keep # {} /\ i # keeper(i)}
  IN  [keep |-> st.keep \cup bound, prot |-> st.prot \cup bound,
       applied |-> IF after THEN st.applied \ {i \in bound \ st.keep : override[i] = "remove"} ELSE st.applied]

\* The only copy of another server's item is kept.
protectOtherServers(st, after) ==
  LET removed == V \ st.keep
      only == {i \in removed : \E e \in Ver(i).others : e.match = "same_file" /\ ~survivor(e, removed)}
  IN  [keep |-> st.keep \cup only, prot |-> st.prot \cup only,
       applied |-> IF after THEN st.applied \ {i \in only : override[i] = "remove"} ELSE st.applied]

\* The best ranked of each partition's available versions.
RankKeep ==
  {i \in Eligible : Cardinality({j \in Available(i) : pos(j) < pos(i)}) < Max({Profile.keepCount, 1})}

\* Manual overrides: a protected version is never removed by one, and they
\* never leave the group without an eligible keeper.
applyOverrides(e) ==
  LET added == {i \in V \ e.keep : override[i] = "keep"}
      dropped == {i \in e.keep \ e.prot : override[i] = "remove"}
      keep == (e.keep \cup added) \ dropped
      restored == IF keep \cap Eligible = {} THEN dropped \cap Eligible ELSE {}
  IN  [keep |-> keep \cup restored, prot |-> e.prot, applied |-> (added \cup dropped) \ restored]

\* What the ranking and the protections keep, before other versions are looked at.
engineKeep ==
  LET prot == IF ReportOnly THEN V ELSE {i \in V : protectionReasons(i)}
  IN  [keep |-> RankKeep \cup prot, prot |-> prot, applied |-> {}]

-----------------------------------------------------------------------------
(* Flags, status and the stored result.                                    *)

engineOwnedFlag == {"min_age", "arr_untracked_keeper", "arr_cutoff_unmet", "missing_keeper_file",
  "intentional_arr", "watch_unreadable", "other_server_listing", "other_server_keeps",
  "other_server_possible", "other_server_unread"}

versionFlags ==
  LET Some(P(_)) == \E i \in V : P(Ver(i))
      If(c, f) == IF c THEN {f} ELSE {}
  IN  UNION {If(Some(unanalyzed), "unanalyzed"),
             If(\E i \in V : Ver(i).sampleName \/ shortSample(i), "sample"),
             If(Some(isShared), "multi_episode"),
             If(Some(LAMBDA v : v.links > 1), "hardlinked"),
             If(Some(isStacked), "stacked"),
             If(Some(isUnavailable), "unavailable_version"),
             If(Some(LAMBDA v : v.disc # "none" \/ discMember(v)), "full_disc"),
             If(Some(LAMBDA v : v.disc # "none" /\ v.problem), "disc_unreadable"),
             If(Some(LAMBDA v : v.disc # "none" /\ v.trackedClip), "disc_tracked"),
             If(Some(LAMBDA v : v.readOnly), "manual_only"),
             If(ReportOnly, "report_only"),
             If(\E i, j \in V : i # j /\ (ev.comp[i] = ev.comp[j] \/ likelySameFile(i, j)), "same_file")}

\* Some version to remove is younger than the minimum age, of unknown age, or
\* dated in the future.
tooYoung(keep) ==
  Env.minAge > 0 /\ \E i \in V \ keep :
     LET t == newestAdded(Ver(i)) IN t = 0 \/ Env.now - t < Env.minAge

keptTrackedBy(keep, inst) == \E j \in keep \cap Eligible : Ver(j).arr = inst

\* A failed history matters only where it could have told the versions apart.
watchCanDecide ==
  LET keys == {Ver(i).item : i \in {j \in V : Ver(j).disc = "none"}}
  IN  "" \in keys \/ Cardinality(keys) > 1
watchUnreadable(keep) ==
  /\ \E i \in V : Ver(i).watch.status = "failed"
  /\ \E k \in DOMAIN Profile.criteria :
       Profile.criteria[k].type \in {"played", "last_played"}
  /\ keep # V /\ watchCanDecide

crossServerFlags(keep) ==
  LET listings == UNION {Ver(i).others : i \in V \ keep}
      If(c, f) == IF c THEN {f} ELSE {}
  IN  UNION {If(\E e \in listings : e.match = "same_file", "other_server_listing"),
             If(\E e \in listings : e.match = "possibly_same", "other_server_possible"),
             If(\E e \in listings : e.keptByGroup, "other_server_keeps"),
             If(~group.serversRead /\ keep # V, "other_server_unread")}

Flags(keep) ==
  LET If(c, f) == IF c THEN {f} ELSE {}
  IN  (group.flags \ engineOwnedFlag) \cup versionFlags \cup crossServerFlags(keep)
        \cup If(Intentional, "intentional_arr")
        \cup If(\E i \in V \ keep : Ver(i).arr # 0 /\ ~keptTrackedBy(keep, Ver(i).arr), "arr_untracked_keeper")
        \cup If(\E i \in keep \cap Eligible : Ver(i).arr # 0 /\ Ver(i).cutoffUnmet, "arr_cutoff_unmet")
        \cup If(\E i \in keep \cap Eligible : Ver(i).inaccessible, "missing_keeper_file")
        \cup If(tooYoung(keep), "min_age")
        \cup If(watchUnreadable(keep), "watch_unreadable")

reviewFlags == {"suspect_merge", "same_file", "unanalyzed", "disc_unreadable", "duration_mismatch",
  "missing_keeper_file", "watch_unreadable", "other_server_possible", "other_server_keeps",
  "other_server_unread"}
deferFlags == {"min_age", "arr_queue_busy", "playing"}

status(flags, keep) ==
  CASE ReportOnly -> "protected"
    [] OTHER -> IF flags \cap reviewFlags # {} THEN "review"
                ELSE IF keep = V THEN "protected"
                ELSE IF flags \cap deferFlags # {} THEN "deferred" ELSE "pending"

\* finish: an ignored group stays ignored; a queued one stays queued when it
\* is still to be removed, or only waits for a playback to end.
finishStatus(flags, keep) ==
  LET s == status(flags, keep)
      onlyPlaying == s = "deferred" /\ flags \cap deferFlags = {"playing"}
  IN  IF group.status = "ignored" \/ (group.status = "queued" /\ (s = "pending" \/ onlyPlaying))
      THEN group.status ELSE s

\* Bytes of the removed files, each file once, hard-linked files not at all.
reclaimable(keep) ==
  LET plain == {i \in V \ keep : Ver(i).disc = "none" /\ Ver(i).links <= 1 /\ Ver(i).size > 0}
      once == {i \in plain : \A j \in plain : j < i => Ver(j).paths \cap Ver(i).paths = {}}
      discs == {i \in V \ keep : Ver(i).disc # "none"}
  IN  FoldSet(LAMBDA i, n : n + Ver(i).size, 0, once) + FoldSet(LAMBDA i, n : n + Ver(i).freed, 0, discs)

\* versus: the criterion that put b before x: the first one b wins, unless x
\* wins an earlier one; then the one that eliminated x in b's round.
DecidingCriterion(b, x) ==
  LET ms == ev.metrics
      wins == {k \in DOMAIN ms : beats(ms[k], b, x)}
      loses == {k \in DOMAIN ms : beats(ms[k], x, b)}
      out == ev.rounds[pos(b)][x]
  IN  IF wins # {} /\ (loses = {} \/ Min(wins) < Min(loses)) THEN ms[Min(wins)].id
      ELSE IF (loses = {} /\ b < x) \/ out \notin DOMAIN ms THEN "key" ELSE ms[out].id

\* The criterion shown with a version: against the best of its partition, or,
\* for the best, against the next (an eligible one first).
explain(i) ==
  LET members == SelectSeq(ev.order, LAMBDA j : partitionOf(Ver(j)) = partitionOf(Ver(i)))
      good == SelectSeq(members, LAMBDA j : j \in Eligible)
      best == IF good = <<>> THEN members[1] ELSE good[1]
      others == SelectSeq(good \o members, LAMBDA j : j # best)
  IN  IF i # best
      THEN IF i \notin Eligible /\ pos(i) < pos(best) THEN ""
           ELSE DecidingCriterion(best, i)
      ELSE IF others = <<>> THEN "" ELSE DecidingCriterion(best, others[1])

\* The decisions and, for a disc, what it was made of: a change of either
\* makes an approval stale.
signature(keep) == [i \in V |-> <<i \in keep, IF Ver(i).disc = "none" THEN <<>> ELSE Ver(i).content>>]

-----------------------------------------------------------------------------
(* Evaluate, step by step: nothing else touches the evaluation under way.  *)

NewEvaluation ==
  /\ ev.step = "idle" /\ decision = Undecided
  /\ ev' = [IdleEval EXCEPT !.step = "ranking", !.metrics = Metrics, !.comp = sameFileComponents,
              !.left = V, !.elim = [i \in V |-> 0]]
  /\ UNCHANGED <<group, decision, override, overridesLeft>>

\* rank: a round narrows the versions left by one criterion after the other,
\* until one is left.
NarrowRound ==
  /\ ev.step = "ranking" /\ Cardinality(ev.left) # 1 /\ ev.tried < Len(ev.metrics)
  /\ LET k == ev.tried + 1
         next == survivors(ev.metrics[k], ev.left)
     IN  ev' = [ev EXCEPT !.tried = k, !.left = next,
                  !.elim = [i \in V |-> IF i \in ev.left \ next THEN k ELSE ev.elim[i]]]
  /\ UNCHANGED <<group, decision, override, overridesLeft>>

\* Its winner is the next in the order; of those equal on all, the lowest key.
EndRound ==
  /\ ev.step = "ranking" /\ (Cardinality(ev.left) = 1 \/ ev.tried = Len(ev.metrics))
  /\ LET winner == Min(ev.left)
         rest == V \ ({winner} \cup ToSet(ev.order))
     IN  ev' = [ev EXCEPT !.step = IF rest = {} THEN "ranked" ELSE "ranking", !.order = Append(ev.order, winner),
                  !.rounds = Append(ev.rounds, [i \in V |-> IF i \in ev.left \ {winner} THEN Len(ev.metrics) + 1 ELSE ev.elim[i]]),
                  !.left = rest, !.tried = 0, !.elim = [i \in V |-> 0]]
  /\ UNCHANGED <<group, decision, override, overridesLeft>>

\* decide: the engine's own decision, then what the overrides leave of it.
DecideEngine ==
  /\ ev.step = "ranked"
  /\ ev' = [ev EXCEPT !.step = "engine", !.kept = protectSameFile(keepPlayable(engineKeep, FALSE), FALSE)]
  /\ UNCHANGED <<group, decision, override, overridesLeft>>

DecideOverrides ==
  /\ ev.step = "engine decided"
  /\ ev' = [ev EXCEPT !.step = "overrides",
              !.kept = protectSameFile(keepPlayable(applyOverrides(ev.engine), TRUE), TRUE)]
  /\ UNCHANGED <<group, decision, override, overridesLeft>>

\* Both end with other servers' items, again after every version kept for them.
KeepForOthers ==
  /\ ev.step \in {"engine", "overrides"}
  /\ LET after == ev.step = "overrides"
         o == protectOtherServers(ev.kept, after)
     IN  ev' = IF o.keep # ev.kept.keep THEN [ev EXCEPT !.kept = protectSameFile(o, after)]
               ELSE IF after THEN [ev EXCEPT !.step = "decided"]
               ELSE [ev EXCEPT !.step = "engine decided", !.engine = ev.kept]
  /\ UNCHANGED <<group, decision, override, overridesLeft>>

\* annotate, explain and finish.
Finish ==
  /\ ev.step = "decided"
  /\ LET keep == ev.kept.keep
         flags == Flags(keep)
     IN  decision' = [order |-> ev.order, keep |-> keep, engineKeep |-> ev.engine.keep,
                      prot |-> ev.kept.prot, applied |-> ev.kept.applied, flags |-> flags,
                      decider |-> [i \in V |-> explain(i)],
                      bytes |-> reclaimable(keep), sig |-> signature(keep),
                      status |-> finishStatus(flags, keep)]
  /\ ev' = [ev EXCEPT !.step = "done"]
  /\ UNCHANGED <<group, override, overridesLeft>>

\* ValidateDecisions: the independent check made of every stored decision
\* before it is acted on.
ValidateDecisions ==
  LET kept == decision.keep
      removed == V \ kept
      available == {i \in kept \cap Eligible : ~Ver(i).inaccessible}
  IN  /\ kept # {}
      /\ removed # {} => available # {} /\ {"min_age", "arr_queue_busy"} \cap decision.flags = {}
      /\ \A r \in removed :
           LET v == Ver(r)
           IN  /\ r \notin decision.prot /\ ~isShared(v) /\ ~isOptimized(v) /\ ~discMember(v)
               /\ v.disc # "none" => /\ group.mediaType # "episode"
                                     /\ ~discProtectOnly(v.disc) /\ v.removable /\ v.reachable
               /\ ~("intentional_arr" \in decision.flags /\ v.arr # 0)
               /\ \A k \in kept : ev.comp[k] # ev.comp[r]
               /\ \A e \in v.others : e.match = "same_file" => survivor(e, removed)

-----------------------------------------------------------------------------
KeeperInit ==
  /\ group \in KeeperCases
  /\ override = [i \in DOMAIN group.vs |-> ""]
  /\ overridesLeft = MaxOverrides
  /\ decision = Undecided /\ ev = IdleEval

\* The user overrides one version; the group is evaluated again at once.
SetOverride(i, o) ==
  /\ decision # Undecided /\ overridesLeft > 0 /\ override[i] # o
  /\ override' = [override EXCEPT ![i] = o]
  /\ overridesLeft' = overridesLeft - 1
  /\ decision' = Undecided /\ ev' = IdleEval
  /\ UNCHANGED group

KeepersNext ==
  \/ NewEvaluation \/ NarrowRound \/ EndRound
  \/ DecideEngine \/ DecideOverrides \/ KeepForOthers \/ Finish
  \/ \E i \in V, o \in {"", "keep", "remove"} : SetOverride(i, o)
KeepersSpec == KeeperInit /\ [][KeepersNext]_keeperVars

-----------------------------------------------------------------------------
Decided == decision # Undecided

\* A group the engine offers for removal, or leaves approved, passes the
\* independent check that is made of it before it is acted on (evaluate.go
\* Evaluate and ValidateDecisions): the two never disagree, whatever the
\* criteria, protections, overrides and other servers' listings are.
PendingIsValid == Decided /\ decision.status \in {"pending", "queued"} => ValidateDecisions

\* Where a playable copy is asked for, a partition that keeps anything by its
\* rank or by the user's choice keeps a copy Plex can play if it has one, after
\* every override (keepPlayable).
PlayableCopyKept ==
  Decided /\ Env.keepPlayableCopy =>
    \A i \in Eligible : plexPlayable(Ver(i)) /\ Available(i) \cap applyOverrides(ev.engine).keep # {}
      => \E j \in Available(i) \cap decision.keep : plexPlayable(Ver(j))

\* What the engine offers passes its own check and keeps a playable copy,
\* for every order of overrides a person gives (Evaluate, SetOverride).
DecisionsHold == PendingIsValid /\ PlayableCopyKept

\* Tolerances, classes and play-history floors make "beats" intransitive:
\* still nothing beats the first-ranked version on the first criterion, and
\* each round's winner is unbeaten there among those ranked after it (rank).
BestUnbeaten ==
  Decided => \A a \in DOMAIN decision.order : \A b \in a..Len(decision.order) :
               ~beats(ev.metrics[1], decision.order[b], decision.order[a])

=============================================================================
