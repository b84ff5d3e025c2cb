---------------------------- MODULE PlayHistory ----------------------------
(***************************************************************************)
(* Reading the play history of the titles of a scan from Tautulli          *)
(* (src/internal/scanner/watch.go, src/internal/integrations/tautulli).    *)
(* The history is read page by page while people watch and its owner       *)
(* purges rows; a reply can be empty by mistake, or fail.  "No plays" makes *)
(* a copy a candidate for removal, so it is only said when it is sure.     *)
(***************************************************************************)
EXTENDS Integers, Sequences, FiniteSets, FiniteSetsExt, SequencesExt

CONSTANTS
  HistItems,        \* item -> [key, guid, section, added, listed, disc], the items of the scan
  ListedKeys,       \* section -> the rating keys its library lists
  PlayRows,         \* the plays there may be: [id, key, guid, section, date, live]
  FirstRows,        \* the histories there may be at first: sets of ids
  PageRows, ChunkKeys, MaxRowsRead,
  KeepsHistory,     \* what users and libraries may report: subset of {"yes", "no", "unknown"}
  MaxPlays, MaxPurges, MaxReplies   \* bounds: plays, purges, bad replies during a scan

VARIABLES
  plays,            \* the recorded plays, a set of ids
  atStart,          \* those recorded when the read began
  keeps,            \* [users, library]: whether history is kept
  reading,          \* the reader
  histLeft          \* [plays, purges, replies] still allowed
historyVars == <<plays, atStart, keeps, reading, histLeft>>

Row(i) == PlayRows[i]
InOrder(is) == SetToSortSeq(is, LAMBDA i, j : Row(i).date < Row(j).date \/ (Row(i).date = Row(j).date /\ i < j))
Sections == {HistItems[t].section : t \in DOMAIN HistItems}
KeysRead == {HistItems[t].key : t \in DOMAIN HistItems}

NoRead == [phase |-> "server", users |-> "unknown", keep |-> [s \in Sections |-> "unknown"], since |-> [s \in Sections |-> 0],
           canary |-> 0, todo |-> {}, ask |-> {}, title |-> 0, start |-> 0, total |-> -1, live |-> 0, got |-> {},
           rows |-> {}, churn |-> [t \in DOMAIN HistItems |-> "unread"], budget |-> MaxRowsRead,
           verdict |-> [t \in DOMAIN HistItems |-> "none"]]
HistoryInit ==
  /\ plays \in FirstRows /\ atStart = plays
  /\ keeps \in [users : KeepsHistory, library : KeepsHistory]
  /\ reading = NoRead
  /\ histLeft = [plays |-> MaxPlays, purges |-> MaxPurges, replies |-> MaxReplies]

Replied == UNCHANGED <<plays, atStart, keeps, histLeft>>
\* retryWatch repeats a transient failure once; what fails then fails the read:
\* every version's history is "failed", never empty.
watchFailed ==
  /\ reading.phase \notin {"done"} /\ histLeft.replies > 0
  /\ reading' = [reading EXCEPT !.phase = "done", !.verdict = [t \in DOMAIN HistItems |-> "failed"]]
  /\ histLeft' = [histLeft EXCEPT !.replies = @ - 1] /\ UNCHANGED <<plays, atStart, keeps>>
Incomplete == [reading EXCEPT !.phase = "done", !.verdict = [t \in DOMAIN HistItems |-> "failed"]]

\* Info: the version and the Plex server it watches must be the right ones.
ReadServer(right) ==
  /\ reading.phase = "server" /\ reading' = IF right THEN [reading EXCEPT !.phase = "users"] ELSE Incomplete
  /\ Replied
ReadUsers ==
  /\ reading.phase = "users"
  /\ reading' = [reading EXCEPT !.phase = "sections", !.users = keeps.users, !.todo = Sections]
  /\ Replied
\* Library and FirstPlay of one section; the first play found is the canary.
firstPlay(s) == LET is == InOrder({i \in plays : Row(i).section = s /\ ~Row(i).live}) IN IF is = <<>> THEN 0 ELSE is[1]
ReadSection ==
  /\ reading.phase = "sections" /\ reading.todo # {}
  /\ LET s == Min(reading.todo)
         first == firstPlay(s)
     IN  reading' = [reading EXCEPT !.todo = @ \ {s}, !.keep[s] = keeps.library,
                       !.since[s] = IF first = 0 THEN 0 ELSE Row(first).date,
                       !.canary = IF @ = 0 /\ first # 0 THEN Row(first).key ELSE @]
  /\ Replied
SectionsRead ==
  /\ reading.phase = "sections" /\ reading.todo = {}
  /\ reading' = [reading EXCEPT !.phase = "keys", !.todo = KeysRead] /\ Replied

-----------------------------------------------------------------------------
(* History: one page after the other.                                      *)
Matches(i) ==
  IF reading.phase = "key pages" THEN Row(i).key \in reading.ask
  ELSE Row(i).guid = HistItems[reading.title].guid /\ Row(i).section = HistItems[reading.title].section
Filtered == InOrder({i \in plays : Matches(i)})
\* Fewer rows than were counted: something changed while it was read.
incompleteRead(n, total) == n < total

\* The rows a page adds.  A server that does not know the filter replies with
\* nothing to a list of keys; to one title it cannot be told from no plays.
ReadPage(blank) ==
  LET all == IF blank THEN <<>> ELSE Filtered
      page == ToSet(SubSeq(all, reading.start + 1, Min({reading.start + PageRows, Len(all)})))
      total == Len(all)
      start == reading.start + Cardinality(page)
      live == reading.live + Cardinality({i \in page : Row(i).live})
      got == reading.got \cup {i \in page : ~Row(i).live}
  IN  /\ reading.phase \in {"key pages", "title pages"}
      /\ blank => histLeft.replies > 0 /\ reading.phase = "key pages"
      /\ histLeft' = IF blank THEN [histLeft EXCEPT !.replies = @ - 1] ELSE histLeft
      /\ reading' =
           IF (reading.total >= 0 /\ total < reading.total) \/ total > reading.budget THEN Incomplete
           ELSE IF start >= total
                THEN IF incompleteRead(Cardinality(got) + live, total) THEN Incomplete
                     ELSE [reading EXCEPT !.phase = IF @ = "key pages" THEN "keys read" ELSE "title read", !.got = got]
           ELSE IF Cardinality(page) < PageRows THEN Incomplete
           ELSE [reading EXCEPT !.start = start, !.total = total, !.live = live, !.got = got]
      /\ UNCHANGED <<plays, atStart, keeps>>
FromStart(r, phase) == [r EXCEPT !.phase = phase, !.start = 0, !.total = -1, !.live = 0, !.got = {}]

\* Rating keys in chunks, each with the canary: a reply without its plays is
\* no reply.
Chunk(ks) == {k \in ks : Cardinality({o \in ks : o < k}) < ChunkKeys}
AskKeys ==
  /\ reading.phase = "keys" /\ reading.todo # {}
  /\ reading' = IF reading.budget <= 0 THEN Incomplete
                ELSE FromStart([reading EXCEPT !.ask = Chunk(reading.todo) \cup ({reading.canary} \ {0})], "key pages")
  /\ Replied
TakeKeys ==
  /\ reading.phase = "keys read"
  /\ LET asked == Chunk(reading.todo)
         sawCanary == \E i \in reading.got : Row(i).key = reading.canary
     IN  reading' = IF (reading.canary # 0 /\ ~sawCanary) \/ Cardinality(reading.got) > reading.budget THEN Incomplete
                    ELSE [reading EXCEPT !.phase = "keys", !.todo = @ \ asked, !.budget = @ - Cardinality(reading.got),
                            !.rows = @ \cup {i \in reading.got : Row(i).key \in asked}]
  /\ Replied

-----------------------------------------------------------------------------
(* resolveWatch, churnGuard.                                               *)
Played(t) == \E i \in reading.rows : Row(i).key = HistItems[t].key
\* No play can be said of the item only when its history is kept, since before
\* it was added.
couldBeZero(t) ==
  LET it == HistItems[t]
      since == reading.since[it.section]
  IN  /\ ~Played(t) /\ it.key > 0 /\ reading.keep[it.section] = "yes" /\ reading.users = "yes"
      /\ since > 0 /\ it.added > 0 /\ it.added >= since /\ it.guid > 0
StartTitles ==
  /\ reading.phase = "keys" /\ reading.todo = {}
  /\ LET jobs == {t \in DOMAIN HistItems : couldBeZero(t)}
     IN  reading' = IF jobs # {} /\ reading.budget <= 0 THEN Incomplete
                    ELSE [reading EXCEPT !.phase = "titles", !.todo = {t \in jobs : HistItems[t].listed},
                            !.churn = [t \in DOMAIN HistItems |-> IF t \in jobs /\ ~HistItems[t].listed THEN "unlisted" ELSE "unread"]]
  /\ Replied
AskTitle ==
  /\ reading.phase = "titles" /\ reading.todo # {}
  /\ reading' = FromStart([reading EXCEPT !.title = Min(reading.todo)], "title pages")
  /\ Replied
\* Mutated form: only plays under keys that are gone are looked for.
churnedOnly(t, i) == Row(i).guid = HistItems[t].guid /\ Row(i).key \notin ListedKeys[HistItems[t].section]
\* A play of the title under its own key came in between; one under a key the
\* library does not list is of this item under an earlier key.
churned(t, i) ==
  Row(i).guid = HistItems[t].guid /\ (Row(i).key = HistItems[t].key \/ Row(i).key \notin ListedKeys[HistItems[t].section])
TakeTitle ==
  /\ reading.phase = "title read"
  /\ LET t == reading.title
     IN  reading' = IF Cardinality(reading.got) > reading.budget THEN Incomplete
                    ELSE [reading EXCEPT !.phase = "titles", !.todo = @ \ {t},
                            !.churn[t] = IF \E i \in reading.got : churned(t, i) THEN "churned" ELSE "clean"]
  /\ Replied
resolveWatch(t) ==
  IF HistItems[t].disc THEN "unknown"
  ELSE IF Played(t) THEN "played"
  ELSE IF couldBeZero(t) /\ reading.churn[t] = "clean" THEN "no plays" ELSE "unknown"
ApplyWatch ==
  /\ reading.phase = "titles" /\ reading.todo = {}
  /\ reading' = [reading EXCEPT !.phase = "done", !.verdict = [t \in DOMAIN HistItems |-> resolveWatch(t)]]
  /\ Replied

-----------------------------------------------------------------------------
(* Meanwhile.                                                              *)
SomeonePlays(i) ==
  /\ reading.phase # "done" /\ histLeft.plays > 0 /\ i \in DOMAIN PlayRows \ (plays \cup atStart)
  /\ \A j \in plays : Row(j).date <= Row(i).date
  /\ plays' = plays \cup {i} /\ histLeft' = [histLeft EXCEPT !.plays = @ - 1]
  /\ UNCHANGED <<atStart, keeps, reading>>
RowPurged(i) ==
  /\ reading.phase # "done" /\ histLeft.purges > 0 /\ i \in plays
  /\ plays' = plays \ {i} /\ histLeft' = [histLeft EXCEPT !.purges = @ - 1]
  /\ UNCHANGED <<atStart, keeps, reading>>

-----------------------------------------------------------------------------
(* Properties.                                                             *)

\* An item is said to have no plays only when none that was recorded before the
\* read, and is still there, is its own: under its rating key, or under one
\* the library no longer lists (History's paging, churnGuard, the canary).
\* Rows shift between two pages when one is purged and one is added; what one
\* of the two reads misses for it, the other finds.
ZeroPlaysAreReal ==
  \A t \in DOMAIN HistItems : reading.verdict[t] = "no plays" =>
    ~\E i \in atStart \cap plays :
       /\ Row(i).guid = HistItems[t].guid /\ Row(i).section = HistItems[t].section /\ ~Row(i).live
       /\ Row(i).key = HistItems[t].key \/ Row(i).key \notin ListedKeys[HistItems[t].section]
=============================================================================
