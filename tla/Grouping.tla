------------------------------ MODULE Grouping ------------------------------
(***************************************************************************)
(* How the scanner's items become duplicate groups                         *)
(* (src/internal/engine/group.go BuildGroups): items of one scope that     *)
(* share an external id are matched, their versions are split into         *)
(* editions, 3D and language variants, and every group gets a key under    *)
(* which its decisions are stored between scans.                           *)
(*                                                                         *)
(* A scan lists the items in any order.  Ids, titles and tags are tokens,  *)
(* "" is unknown; a key is a tuple.                                        *)
(***************************************************************************)
EXTENDS Integers, Sequences, FiniteSets, FiniteSetsExt, SequencesExt

CONSTANTS
  Shelf,          \* the items the servers can list, a sequence of records
  Shelves,        \* which of them a server may list together: a set of sets of indices
  GroupOpts,      \* GroupOptions: distinct editions, 3D, languages, limits, exclusions
  MaxScans        \* bound: scans per behaviour

VARIABLES
  shelf,          \* the items listed, indices into Shelf
  listing,        \* the scan's items in the order they were listed
  gstep,          \* what the scan has computed so far
  units,          \* the matched items of the scan
  groups,         \* the groups of the last finished scan, or NoGroups
  scansLeft

groupingVars == <<shelf, listing, gstep, units, groups, scansLeft>>

NoGroups == {[key |-> <<>>, versions |-> {}, server |-> 0, flags |-> {}]}
Item(n) == Shelf[n]
idSpaces == <<"tmdb", "imdb", "tvdb", "plex">>
Spaces == {"tmdb", "imdb", "tvdb", "plex"}
sameItem(n, m) == Item(n).server = Item(m).server /\ Item(n).key = Item(m).key

\* What servers list: finitely many versions each, whose keys are the server's
\* media ids (VersionKey), so that two items never list the same one.
ASSUME GroupingAssumption ==
  /\ \A s \in Shelves : IsFiniteSet(s) /\ s \subseteq DOMAIN Shelf
  /\ \A n \in DOMAIN Shelf :
       /\ {Item(n).library, Item(n).server, Item(n).key} \subseteq Int
       /\ IsFiniteSet(Item(n).versions)
       /\ \A v, w \in Item(n).versions : v.key = w.key => v = w
       /\ \A m \in DOMAIN Shelf : \A v \in Item(n).versions, w \in Item(m).versions : v.key = w.key => sameItem(n, m)

SpacesOf(mt) == IF mt = "episode" THEN <<"tvdb", "tmdb", "imdb", "plex">> ELSE idSpaces

-----------------------------------------------------------------------------
\* The first space with an id names the title; an episode without ids of its
\* own is named by its show's, its season and its number; else by the item.
firstID(ids, spaces) ==
  LET known == SelectSeq(spaces, LAMBDA sp : ids[sp] # "")
  IN  IF known = <<>> THEN <<>> ELSE <<known[1], ids[known[1]]>>

GroupKey(m) ==
  LET own == firstID(m.ids, SpacesOf(m.type))
      show == firstID(m.showIds, SpacesOf(m.type))
  IN  IF own # <<>> THEN <<m.type>> \o own
      ELSE IF m.type = "episode" /\ m.episode > 0 /\ m.season >= 0 /\ show # <<>>
      THEN <<m.type>> \o show \o <<ToString(m.season), ToString(m.episode)>>
      ELSE <<"item", ToString(m.server), ToString(m.key)>>

itemExcluded(it) == it.library \in GroupOpts.exLibraries \/ it.title \in GroupOpts.exTitles
versionExcluded(v) == v.library \in GroupOpts.exLibraries \/ v.folder \in GroupOpts.exPaths

\* Usable versions of an item: not optimized, not missing, not excluded.
candidates(it) == {v \in it.versions : ~v.optimized /\ ~v.missing /\ ~versionExcluded(v)}

\* Of versions listed after others, those whose key is new.
newTo(seen, vs) == {v \in vs : \A w \in seen : w.key # v.key}

\* Mutated form: an entry per listing.
collectEach(seq) ==
  {[item |-> seq[k], ids |-> Item(seq[k]).ids, cands |-> candidates(Item(seq[k])), unavailable |-> FALSE]
     : k \in {x \in DOMAIN seq : ~itemExcluded(Item(seq[x]))}}

\* collectItems: one entry per (server, item); an item listed twice fills in
\* the ids its first listing lacked and adds the versions not yet seen.
collectItems(seq) ==
  LET kept == {k \in DOMAIN seq : ~itemExcluded(Item(seq[k]))}
      rest(k) == {j \in kept : sameItem(seq[j], seq[k])}
      seen(j) == UNION {candidates(Item(seq[i])) : i \in {x \in rest(j) : x < j}}
      id(k, sp) == LET known == {j \in rest(k) : Item(seq[j]).ids[sp] # ""}
                   IN  IF known = {} THEN "" ELSE Item(seq[Min(known)]).ids[sp]
  IN  {[item |-> seq[k], ids |-> [sp \in Spaces |-> id(k, sp)],
        cands |-> UNION {newTo(seen(j), candidates(Item(seq[j]))) : j \in rest(k)},
        unavailable |-> \E j \in rest(k) : \E v \in Item(seq[j]).versions : v.missing]
         : k \in {x \in kept : \A j \in rest(x) : x <= j}}

entryLess(a, b) ==
  LET x == Item(a.item) y == Item(b.item)
  IN  \/ x.library < y.library
      \/ x.library = y.library /\ x.server < y.server
      \/ x.library = y.library /\ x.server = y.server /\ x.key < y.key

\* The first of some entries.
leadOf(es) == CHOOSE e \in es : \A f \in es \ {e} : entryLess(e, f)

\* newUnit's merged metadata: the first entry in order that knows a field.
Meta(es) ==
  LET order == SetToSortSeq(es, entryLess)
      knows(P(_)) == SelectSeq(order, P)
      lead == Item(order[1].item)
      id(sp) == LET k == knows(LAMBDA e : e.ids[sp] # "") IN IF k = <<>> THEN "" ELSE k[1].ids[sp]
      show(sp) == LET k == knows(LAMBDA e : Item(e.item).showIds[sp] # "")
                  IN  IF k = <<>> THEN "" ELSE Item(k[1].item).showIds[sp]
      num(P(_), dflt, f(_)) == LET k == knows(P) IN IF k = <<>> THEN dflt ELSE f(Item(k[1].item))
  IN  [server |-> lead.server, key |-> lead.key, type |-> lead.type, kind |-> lead.kind,
       ids |-> [sp \in Spaces |-> id(sp)], showIds |-> [sp \in Spaces |-> show(sp)],
       season |-> num(LAMBDA e : Item(e.item).season >= 0, -1, LAMBDA i : i.season),
       episode |-> num(LAMBDA e : Item(e.item).episode > 0, 0, LAMBDA i : i.episode)]

\* Two entries of one unit that disagree on an id, the year or the episode.
idConflicts(es) ==
  LET differ(f(_), none) == Cardinality({f(e) : e \in es} \ {none}) > 1
  IN  \/ \E sp \in Spaces : differ(LAMBDA e : e.ids[sp], "")
      \/ differ(LAMBDA e : Item(e.item).year, 0)
      \/ LET numbered == {e \in es : Item(e.item).type = "episode" /\ Item(e.item).episode > 0}
         IN  \/ Cardinality({Item(e.item).episode : e \in numbered}) > 1
             \/ Cardinality({Item(e.item).season : e \in numbered} \ {-1}) > 1

newUnit(es) ==
  LET meta == Meta(es)
      earlier(e) == UNION {f.cands : f \in {x \in es : entryLess(x, e)}}
  IN  [entries |-> es, cands |-> UNION {newTo(earlier(e), e.cands) : e \in es}, key |-> GroupKey(meta), meta |-> meta,
       unavailable |-> \E e \in es : e.unavailable, conflict |-> idConflicts(es)]

\* The entries of a bucket that share an id, directly or through others: with
\* an entry, whatever every set has that holds it and all that is linked to one
\* of its members.
linked(a, b) == \E sp \in Spaces : a.ids[sp] # "" /\ a.ids[sp] = b.ids[sp]
closed(S, bucket) == \A a \in S, b \in bucket : linked(a, b) => b \in S
component(e, bucket) ==
  {b \in bucket : \A S \in SUBSET bucket : e \in S /\ closed(S, bucket) => b \in S}
idComponents(bucket) == {component(e, bucket) : e \in bucket}

\* A component that disagrees on some id is cut along the entries' own keys.
splitConflicting(comp) ==
  LET key(e) == GroupKey([Item(e.item) EXCEPT !.ids = e.ids])
  IN  IF \E sp \in Spaces : Cardinality({e.ids[sp] : e \in comp} \ {""}) > 1
      THEN {{e \in comp : key(e) = key(f)} : f \in comp} ELSE {comp}

distinctLibraries(es) == Cardinality({Item(e.item).library : e \in es})
readOnlyCluster(es) == \E e \in es : Item(e.item).kind = "jellyfin"

\* Matched only across libraries; on a read-only server only one per library.
clusterSets(cluster) ==
  IF distinctLibraries(cluster) >= 2
     /\ (~readOnlyCluster(cluster) \/ distinctLibraries(cluster) = Cardinality(cluster))
  THEN {cluster} ELSE {{e} : e \in cluster}

\* The entries of each unit.
unitSets(entries) ==
  LET usable == {e \in entries : e.cands # {}}
      alone == {e \in usable : Item(e.item).scope = "" \/ \A sp \in Spaces : e.ids[sp] = ""}
      bucketOf(e) == <<Item(e.item).server, Item(e.item).scope, Item(e.item).type>>
      buckets == {{e \in usable \ alone : bucketOf(e) = bucketOf(f)} : f \in usable \ alone}
      clusters == UNION {UNION {splitConflicting(c) : c \in idComponents(b)} : b \in buckets}
  IN  {{e} : e \in alone} \cup UNION {clusterSets(c) : c \in clusters}

\* Units of at least two versions that share a key are told apart by their item.
disambiguateKeys(us) ==
  LET big == {u \in us : Cardinality(u.cands) >= 2}
      clash(u) == u \in big /\ \E w \in big \ {u} : w.key = u.key
      at(u) == LET p == Item(leadOf(u.entries).item) IN <<"@", ToString(p.server), ToString(p.key)>>
  IN  {IF clash(u) THEN [u EXCEPT !.key = @ \o at(u)] ELSE u : u \in us}

-----------------------------------------------------------------------------
\* Versions that share a language stay together, unless two of the set share
\* none (joined through a third): then each goes by its own languages.
languagePart(cands, c) ==
  LET speakers == {x \in cands : x.langs # {}}
      reach[n \in Nat] == IF n = 0 THEN {c}
                          ELSE {x \in speakers : \E y \in reach[n - 1] : x.langs \cap y.langs # {}}
      mates == reach[Cardinality(cands)]
      bridged == \E x, y \in mates : x.langs \cap y.langs = {}
  IN  IF c.langs = {} THEN {} ELSE IF bridged THEN c.langs ELSE UNION {x.langs : x \in mates}

\* The suffix of a group's key: its edition, whether it is 3D, the languages
\* when there are several parts by language.
NoSuffix == [edition |-> "", threeD |-> FALSE, langs |-> {}]

\* One split: the parts of a set of candidates by one of their fields; the flag
\* is set when there is more than one part.
splitFlags(vg, keys, flag) == IF Cardinality(keys) > 1 THEN vg.flags \cup {flag} ELSE vg.flags
splitEditions(vg) ==
  LET keys == {c.edition : c \in vg.cands}
  IN  {[cands |-> {c \in vg.cands : c.edition = k}, suffix |-> [vg.suffix EXCEPT !.edition = k],
        flags |-> splitFlags(vg, keys, "edition_split")] : k \in keys}
split3D(vg) ==
  LET keys == {c.is3D : c \in vg.cands}
  IN  {[cands |-> {c \in vg.cands : c.is3D = k}, suffix |-> [vg.suffix EXCEPT !.threeD = k],
        flags |-> splitFlags(vg, keys, "variant_3d")] : k \in keys}
splitLanguages(vg) ==
  LET part(c) == languagePart(vg.cands, c)
      parts == {part(c) : c \in vg.cands}
  IN  IF Cardinality(parts \ {{}}) < 2 THEN {vg}
      ELSE {[cands |-> {c \in vg.cands : part(c) = p}, suffix |-> [vg.suffix EXCEPT !.langs = {p}],
             flags |-> vg.flags \cup {"language_variant"}] : p \in parts}

splitVariants(cands) ==
  LET whole == {[cands |-> cands, suffix |-> NoSuffix, flags |-> {}]}
      editions == IF GroupOpts.editions THEN UNION {splitEditions(g) : g \in whole} ELSE whole
      threeD == IF GroupOpts.threeD THEN UNION {split3D(g) : g \in editions} ELSE editions
  IN  IF GroupOpts.languages THEN UNION {splitLanguages(g) : g \in threeD} ELSE threeD

\* Durations of versions that cover as many episodes differ by more than the
\* tolerance; stacked files and unknown durations are left out.
durationMismatch(cands) ==
  \E a, b \in cands :
     /\ a.duration > 0 /\ b.duration > 0 /\ ~a.stacked /\ ~b.stacked
     /\ a.episodes > 0 /\ a.episodes = b.episodes
     /\ LET hi == Max({c.duration : c \in {x \in cands : ~x.stacked /\ x.episodes = a.episodes}})
        IN  100 * (a.duration - b.duration) > hi * GroupOpts.durationPct
            /\ a.duration - b.duration > GroupOpts.durationMin

\* The versions may belong to different titles: too many, folders, years or
\* tags that differ, *arr items, files or episodes that do not fit.
suspect(cands) ==
  LET differ(f(_), none) == Cardinality({f(c) : c \in cands} \ {none}) > 1
      tracked(i) == {c \in cands : c.arr = i}
  IN  \/ Cardinality(cands) > GroupOpts.maxSize
      \/ differ(LAMBDA c : c.folder, "") \/ differ(LAMBDA c : c.year, 0) \/ differ(LAMBDA c : c.tag, "")
      \/ \E i \in {c.arr : c \in cands} \ {0} :
           \/ Cardinality({c.arrItem : c \in tracked(i)} \ {0}) > 1
           \/ \E a, b \in tracked(i) : a # b /\ a.arrFile # 0 /\ a.arrFile = b.arrFile
           \/ \E a, b \in tracked(i) : /\ a.arrItem = b.arrItem /\ a.arrEpisodes # {} /\ b.arrEpisodes # {}
                                       /\ a.arrEpisodes \cap b.arrEpisodes = {}

newGroup(u, vg, n) ==
  [key |-> <<u.key, vg.suffix, n>>, versions |-> {c.key : c \in vg.cands}, server |-> u.meta.server,
   flags |-> vg.flags
     \cup (IF u.unavailable THEN {"unavailable_version"} ELSE {})
     \cup (IF Cardinality({c.library : c \in vg.cands}) >= 2 THEN {"cross_library"} ELSE {})
     \cup (IF GroupOpts.arrIntentional /\ Cardinality({c.arr : c \in vg.cands} \ {0}) >= 2
           THEN {"intentional_arr"} ELSE {})
     \cup (IF durationMismatch(vg.cands) THEN {"duration_mismatch"} ELSE {})
     \cup (IF u.conflict \/ suspect(vg.cands) THEN {"suspect_merge"} ELSE {})]

\* BuildGroups' last part.  A key already used (units in order) gets a number.
variantsOf(us) ==
  {x \in UNION {{u} \X splitVariants(u.cands) : u \in us} :
     Cardinality(x[2].cands) >= 2 /\ <<x[1].key, x[2].suffix>> \notin GroupOpts.exGroups}
sameKey(x, y) == x[1].key = y[1].key /\ x[2].suffix = y[2].suffix
comesBefore(y, x) == sameKey(y, x) /\ entryLess(leadOf(y[1].entries), leadOf(x[1].entries))
groupsOf(us) ==
  {newGroup(x[1], x[2], 1 + Cardinality({y \in variantsOf(us) : comesBefore(y, x)})) : x \in variantsOf(us)}

-----------------------------------------------------------------------------
GroupingInit ==
  /\ shelf \in Shelves /\ listing = <<>> /\ gstep = "idle" /\ units = {} /\ groups = NoGroups
  /\ scansLeft = MaxScans

\* The servers list their items, in whatever order.
ListItems ==
  /\ gstep \in {"idle", "done"} /\ scansLeft > 0
  /\ \E s \in SetToSeqs(shelf) : listing' = s
  /\ gstep' = "listed" /\ scansLeft' = scansLeft - 1 /\ UNCHANGED <<shelf, units, groups>>

Collect ==
  /\ gstep = "listed" /\ gstep' = "collected"
  /\ units' = collectItems(listing) /\ UNCHANGED <<shelf, listing, groups, scansLeft>>

MatchItems ==
  /\ gstep = "collected" /\ gstep' = "matched"
  /\ units' = unitSets(units) /\ UNCHANGED <<shelf, listing, groups, scansLeft>>

BuildUnits ==
  /\ gstep = "matched" /\ gstep' = "units"
  /\ units' = {newUnit(es) : es \in units} /\ UNCHANGED <<shelf, listing, groups, scansLeft>>

Disambiguate ==
  /\ gstep = "units" /\ gstep' = "keyed"
  /\ units' = disambiguateKeys(units) /\ UNCHANGED <<shelf, listing, groups, scansLeft>>

BuildGroups ==
  /\ gstep = "keyed" /\ gstep' = "done"
  /\ groups' = groupsOf(units) /\ units' = {} /\ listing' = <<>> /\ UNCHANGED <<shelf, scansLeft>>

GroupingNext == ListItems \/ Collect \/ MatchItems \/ BuildUnits \/ Disambiguate \/ BuildGroups
GroupingSpec == GroupingInit /\ [][GroupingNext]_groupingVars

-----------------------------------------------------------------------------
\* The groups of a scan share no version and no key: no file is decided
\* twice, and no stored decision is taken for another group's (BuildGroups).
GroupsDisjoint ==
  groups # NoGroups =>
    \A g, h \in groups : g # h => g.key # h.key /\ g.versions \cap h.versions = {}
=============================================================================
