----------------------------- MODULE ArrClient ------------------------------
(***************************************************************************)
(* Radarr and Sonarr as the program reads them                             *)
(* (src/internal/integrations/arr): the list of the files an instance      *)
(* tracks takes many requests while the instance imports, upgrades and     *)
(* deletes, and a rescan is merged into an identical one.  What an answer  *)
(* says is what the instance holds at the moment of the request.           *)
(*                                                                         *)
(* An item is a movie with one file or a series with one per episode; a    *)
(* file row that nothing refers to is an orphan.                           *)
(***************************************************************************)
EXTENDS Naturals, FiniteSets, SequencesExt

CONSTANTS
    Items, Episodes,    \* of every item; a movie has one
    MaxFile,            \* file ids are used once
    MaxInFlight,        \* maxConcurrency: items asked about at once
    MaxArrChanges, MaxBadAnswers,
    PageSize, MaxPages, \* of the download queue
    Reply               \* what a request may meet: "answer", "transient", "proxy", "error"

\* An item is named by the id of its first file; pages are not empty (queuePageSize).
ASSUME ArrAssumption ==
    /\ IsFiniteSet(Items) /\ Items = 1 .. Cardinality(Items)
    /\ 1 \in Episodes /\ PageSize \in Nat \ {0}

VARIABLES
    app,        \* "radarr" or "sonarr"
    filtered,   \* the call asks for some items only
    held,       \* item -> [refs: episode -> file, rows: files, gone]
    nextFile, changes, badAnswers,
    call,       \* [at, again]: "idle", "items", "tags", "asking", "done" or "failed"
    ask,        \* item -> [at, want, rows, refs, again]
    since,      \* item -> files referred to ever since their item's answer said so
    listed,     \* files the call returns
    rescan,     \* [at, again, awaits]: the Rescan call, and whether the command it found running still runs
    rescanJob,        \* the identical command of the instance: "none", "queued" or "started"
    stale,      \* the running command began before the call
    served,     \* the command that answers the rescan began after the call
    blind,      \* the command list could not be read
    queue,      \* the items of the entries of the download queue
    walk        \* [at, page, again, seen, busy, shrank]: the Queue call, the items with an entry ever since, entries left

arrVars == <<app, filtered, held, nextFile, changes, badAnswers, call, ask, since, listed,
             rescan, rescanJob, stale, served, blind, queue, walk>>
listVars == <<app, filtered, held, nextFile, changes, rescan, rescanJob, stale, served, blind, queue, walk>>

refsOf(i) == {held[i].refs[e] : e \in Episodes} \ {0}
Idle_ == [at |-> "no", want |-> 0, rows |-> {}, refs |-> {}, again |-> FALSE]

-----------------------------------------------------------------------------
(* Requests                                                                 *)

\* do and once: one more attempt after a transient failure of a GET; what a
\* proxy answers is never taken for the instance's own "not found".
retried(again, r) == r = "transient" /\ ~again
failsFor(again, r) == r \in {"proxy", "error"} \/ (r = "transient" /\ again)

Bad(r) == /\ r = "answer" \/ badAnswers < MaxBadAnswers
          /\ badAnswers' = IF r = "answer" THEN badAnswers ELSE badAnswers + 1

Fails == /\ call' = [at |-> "failed", again |-> FALSE]
         /\ ask' = [i \in Items |-> Idle_] /\ listed' = {} /\ UNCHANGED since

\* The item is gone: the instance itself says so.
isArrNotFound(i, r) == r = "answer" /\ held[i].gone

-----------------------------------------------------------------------------
(* TrackedFiles                                                             *)

StartTracked(f) ==
    /\ call.at = "idle" /\ call' = [at |-> "items", again |-> FALSE]
    /\ filtered' = f
    /\ UNCHANGED <<app, held, nextFile, changes, badAnswers, ask, since, listed, rescan, rescanJob, stale, served, blind, queue, walk>>

\* The movies or series that have files.  Without a filter the files of
\* movies come with them.
selected == {i \in Items : ~held[i].gone /\ refsOf(i) # {}}
embedded == app = "radarr" /\ ~filtered

ListItems(r) ==
    /\ call.at = "items" /\ Bad(r)
    /\ \/ retried(call.again, r) /\ call' = [call EXCEPT !.again = TRUE] /\ UNCHANGED <<ask, since, listed>>
       \/ failsFor(call.again, r) /\ Fails
       \/ /\ r = "answer"
          /\ call' = [at |-> IF selected = {} THEN "done" ELSE IF app = "radarr" THEN "asking" ELSE "tags",
                      again |-> FALSE]
          /\ ask' = [i \in Items |-> IF i \notin selected \/ embedded THEN Idle_
                                     ELSE [Idle_ EXCEPT !.at = "waiting",
                                                        !.want = IF app = "radarr" THEN held[i].refs[1] ELSE 0]]
          /\ since' = [i \in Items |-> IF app = "radarr" /\ i \in selected THEN refsOf(i) ELSE {}]
          /\ listed' = IF embedded THEN UNION {refsOf(i) : i \in selected} ELSE {}
    /\ UNCHANGED listVars

\* tagLabels: without the tags a keep tag could be missed, so the call fails.
\* Sonarr's are read before the files, Radarr's after them; items without tags
\* need no request, which is as good as its answer.
ListTags(r) ==
    /\ call.at = "tags" /\ Bad(r)
    /\ \/ retried(call.again, r) /\ call' = [call EXCEPT !.again = TRUE] /\ UNCHANGED <<ask, since, listed>>
       \/ failsFor(call.again, r) /\ Fails
       \/ /\ r = "answer"
          /\ call' = [at |-> IF app = "radarr" THEN "done" ELSE "asking", again |-> FALSE]
          /\ UNCHANGED <<ask, since, listed>>
    /\ UNCHANGED listVars

\* runLimited: so many at once; the first failure ends the call.
Ask(i) ==
    /\ call.at = "asking" /\ ask[i].at = "waiting"
    /\ Cardinality({j \in Items : ask[j].at \notin {"no", "waiting"}}) < MaxInFlight
    /\ ask' = [ask EXCEPT ![i].at = "rows"]
    /\ UNCHANGED <<call, since, listed, badAnswers>> /\ UNCHANGED listVars

Answered(i, files) == ask' = [ask EXCEPT ![i] = Idle_] /\ listed' = listed \cup files /\ UNCHANGED <<call, since>>

\* The rows of the item's files; an old Radarr returns the first one only.
radarrMovieFile(i, shown) ==
    IF ask[i].want \in shown THEN Answered(i, {ask[i].want})
    ELSE ask' = [ask EXCEPT ![i].at = "by id", ![i].again = FALSE] /\ UNCHANGED <<call, since, listed>>

ListRows(i, r) ==
    /\ call.at = "asking" /\ ask[i].at = "rows" /\ Bad(r)
    /\ \/ retried(ask[i].again, r) /\ ask' = [ask EXCEPT ![i].again = TRUE] /\ UNCHANGED <<call, since, listed>>
       \/ isArrNotFound(i, r) /\ Answered(i, {})
       \/ ~isArrNotFound(i, r) /\ failsFor(ask[i].again, r) /\ Fails
       \/ /\ r = "answer" /\ ~held[i].gone
          /\ IF app = "radarr"
             THEN \E shown \in {held[i].rows} \cup {{f} : f \in held[i].rows} : radarrMovieFile(i, shown)
             ELSE /\ ask' = [ask EXCEPT ![i] = [@ EXCEPT !.at = "episodes", !.rows = held[i].rows, !.again = FALSE]]
                  /\ UNCHANGED <<call, since, listed>>
    /\ UNCHANGED listVars

\* The file by its id: gone means that the movie changed meanwhile.
FileById(i, r) ==
    /\ call.at = "asking" /\ ask[i].at = "by id" /\ Bad(r)
    /\ \/ retried(ask[i].again, r) /\ ask' = [ask EXCEPT ![i].again = TRUE] /\ UNCHANGED <<call, since, listed>>
       \/ (failsFor(ask[i].again, r) \/ (r = "answer" /\ ask[i].want \notin held[i].rows)) /\ Fails
       \/ r = "answer" /\ ask[i].want \in held[i].rows /\ Answered(i, {ask[i].want})
    /\ UNCHANGED listVars

\* As if only the rows that were listed counted.
noneMissing(i) == {}

\* Files an episode refers to that the list of rows did not have.
missing(i) == ask[i].refs \ ask[i].rows

ListEpisodes(i, r) ==
    /\ call.at = "asking" /\ ask[i].at = "episodes" /\ Bad(r)
    /\ \/ retried(ask[i].again, r) /\ ask' = [ask EXCEPT ![i].again = TRUE] /\ UNCHANGED <<call, since, listed>>
       \/ isArrNotFound(i, r) /\ Answered(i, {})
       \/ ~isArrNotFound(i, r) /\ failsFor(ask[i].again, r) /\ Fails
       \/ /\ r = "answer" /\ ~held[i].gone
          /\ ask' = [ask EXCEPT ![i] = [@ EXCEPT !.at = "missing", !.refs = refsOf(i), !.again = FALSE]]
          /\ since' = [since EXCEPT ![i] = refsOf(i)]
          /\ UNCHANGED <<call, listed>>
    /\ UNCHANGED listVars

\* Each missing file is read by its id; one that is gone again is left out.
ReadMissing(i, f, r) ==
    /\ call.at = "asking" /\ ask[i].at = "missing" /\ f \in missing(i) /\ Bad(r)
    /\ \/ retried(ask[i].again, r) /\ ask' = [ask EXCEPT ![i].again = TRUE] /\ UNCHANGED <<call, since, listed>>
       \/ failsFor(ask[i].again, r) /\ Fails
       \/ /\ r = "answer"
          /\ ask' = [ask EXCEPT ![i] = IF f \in held[i].rows THEN [@ EXCEPT !.rows = ask[i].rows \cup {f}, !.again = FALSE]
                                       ELSE [@ EXCEPT !.refs = ask[i].refs \ {f}, !.again = FALSE]]
          /\ UNCHANGED <<call, since, listed>>
    /\ UNCHANGED listVars

SeriesDone(i) ==
    /\ call.at = "asking" /\ ask[i].at = "missing" /\ missing(i) = {}
    /\ Answered(i, ask[i].rows \cap ask[i].refs)
    /\ UNCHANGED badAnswers /\ UNCHANGED listVars

ListingDone ==
    /\ call.at = "asking" /\ \A i \in Items : ask[i].at = "no"
    /\ call' = [call EXCEPT !.at = IF app = "radarr" THEN "tags" ELSE "done"]
    /\ UNCHANGED <<ask, since, listed, badAnswers>> /\ UNCHANGED listVars

-----------------------------------------------------------------------------
(* Queue                                                                    *)

NoWalk == [at |-> "idle", page |-> 1, again |-> FALSE, seen |-> {}, busy |-> {}, shrank |-> FALSE]
queueRest == <<app, filtered, held, nextFile, call, ask, since, listed, rescan, rescanJob, stale, served, blind>>

\* The scanner reads the queue after the tracked files.
StartQueue ==
    /\ walk.at = "idle" /\ call.at = "done"
    /\ walk' = [walk EXCEPT !.at = "pages", !.busy = Range(queue)]
    /\ UNCHANGED <<changes, badAnswers, queue>> /\ UNCHANGED queueRest

pageOf(k) == SubSeq(queue, (k - 1) * PageSize + 1, IF Len(queue) < k * PageSize THEN Len(queue) ELSE k * PageSize)

\* A short page is the last one; a total ends the walk when there is one.
lastPage(k, total) == Len(pageOf(k)) < PageSize \/ (total > 0 /\ k * PageSize >= total)

QueuePage(r, totals) ==
    /\ walk.at = "pages" /\ walk.page <= MaxPages /\ Bad(r)
    /\ \/ retried(walk.again, r) /\ walk' = [walk EXCEPT !.again = TRUE]
       \/ failsFor(walk.again, r) /\ walk' = [walk EXCEPT !.at = "failed"]
       \/ /\ r = "answer"
          /\ walk' = [walk EXCEPT !.seen = @ \cup Range(pageOf(walk.page)), !.again = FALSE, !.page = @ + 1,
                                  !.at = IF lastPage(walk.page, IF totals THEN Len(queue) ELSE 0) THEN "done" ELSE @]
    /\ UNCHANGED <<changes, queue>> /\ UNCHANGED queueRest

\* A queue that never ends is refused.
TooManyPages ==
    /\ walk.at = "pages" /\ walk.page > MaxPages /\ walk' = [walk EXCEPT !.at = "failed"]
    /\ UNCHANGED <<changes, badAnswers, queue>> /\ UNCHANGED queueRest

-----------------------------------------------------------------------------
(* Rescan                                                                   *)

restVars == <<app, filtered, held, nextFile, changes, call, ask, since, listed, queue, walk>>

StartRescan ==
    /\ rescan.at = "idle" /\ rescan' = [at |-> "commands", again |-> FALSE, awaits |-> FALSE]
    /\ stale' = (rescanJob = "started")
    /\ UNCHANGED <<rescanJob, served, blind, badAnswers>> /\ UNCHANGED restVars

\* An identical rescan that is running may have read the folder already.
mustWait == rescanJob = "started"

\* waitForRunningCommand: a command list that cannot be read is no obstacle,
\* an instance that refuses or cannot be used is.
ListCommands(r) ==
    /\ rescan.at = "commands" /\ Bad(r)
    /\ \/ retried(rescan.again, r) /\ rescan' = [rescan EXCEPT !.again = TRUE] /\ UNCHANGED blind
       \/ r = "error" /\ rescan' = [rescan EXCEPT !.at = "failed"] /\ UNCHANGED blind
       \/ (r = "proxy" \/ (r = "transient" /\ rescan.again))
          /\ rescan' = [at |-> "post", again |-> FALSE, awaits |-> FALSE] /\ blind' = TRUE
       \/ r = "answer" /\ UNCHANGED blind
          /\ rescan' = [at |-> IF mustWait THEN "wait" ELSE "post", again |-> FALSE, awaits |-> mustWait]
    /\ UNCHANGED <<rescanJob, stale, served>> /\ UNCHANGED restVars

\* The running command is polled until it ended, for at most two minutes.
PollCommand(r) ==
    /\ rescan.at = "wait" /\ Bad(r)
    /\ \/ retried(rescan.again, r) /\ rescan' = [rescan EXCEPT !.again = TRUE]
       \/ failsFor(rescan.again, r) /\ rescan' = [rescan EXCEPT !.at = "failed"]
       \/ r = "answer" /\ ~rescan.awaits /\ rescan' = [rescan EXCEPT !.at = "post", !.again = FALSE]
       \/ r = "answer" /\ rescan.awaits /\ rescan' = [rescan EXCEPT !.at = "failed"]
    /\ UNCHANGED <<rescanJob, stale, served, blind>> /\ UNCHANGED restVars

\* The instance merges the command into an identical one; the request is not
\* repeated when its answer is lost.
PostCommand(r) ==
    /\ rescan.at = "post" /\ Bad(r)
    /\ \/ r = "answer" /\ rescan' = [rescan EXCEPT !.at = "ok"]
          /\ served' = ~(rescanJob = "started" /\ stale) /\ rescanJob' = IF rescanJob = "none" THEN "queued" ELSE rescanJob
       \/ r \in {"proxy", "error"} /\ rescan' = [rescan EXCEPT !.at = "failed"] /\ UNCHANGED <<rescanJob, served>>
       \/ r = "transient" /\ rescan' = [rescan EXCEPT !.at = "failed"] /\ UNCHANGED served
          /\ rescanJob' \in {rescanJob, IF rescanJob = "none" THEN "queued" ELSE rescanJob}
    /\ UNCHANGED <<stale, blind>> /\ UNCHANGED restVars

-----------------------------------------------------------------------------
(* What the instance does meanwhile                                         *)

Change == changes < MaxArrChanges /\ changes' = changes + 1
Elsewhere == UNCHANGED <<app, filtered, badAnswers, call, ask, listed, rescan, rescanJob, stale, served, blind, queue, walk>>

Held(i, h) == /\ held' = [held EXCEPT ![i] = h]
              /\ since' = [since EXCEPT ![i] = @ \cap {h.refs[e] : e \in Episodes}]

\* A file arrives for an episode, replacing what was there; the row of the
\* replaced file may stay behind.
Import(i, e, orphan) ==
    /\ Change /\ ~held[i].gone /\ (app = "radarr" => e = 1)
    /\ nextFile <= MaxFile /\ nextFile' = nextFile + 1
    /\ Held(i, [held[i] EXCEPT !.refs[e] = nextFile,
                               !.rows = (IF orphan THEN @ ELSE @ \ {held[i].refs[e]}) \cup {nextFile}])
    /\ Elsewhere

FileDeleted(i, e) ==
    /\ Change /\ held[i].refs[e] # 0 /\ UNCHANGED nextFile
    /\ Held(i, [held[i] EXCEPT !.refs[e] = 0, !.rows = @ \ {held[i].refs[e]}])
    /\ Elsewhere

ItemDeleted(i) ==
    /\ Change /\ ~held[i].gone /\ UNCHANGED nextFile
    /\ Held(i, [refs |-> [e \in Episodes |-> 0], rows |-> {}, gone |-> TRUE])
    /\ Elsewhere

JobMoves ==
    /\ rescanJob' = IF rescanJob = "queued" THEN "started" ELSE IF rescanJob = "started" THEN "none" ELSE "queued"
    /\ rescanJob = "none" => changes < MaxArrChanges
    /\ changes' = IF rescanJob = "none" THEN changes + 1 ELSE changes
    /\ stale' = FALSE
    /\ rescan' = IF rescanJob = "started" THEN [rescan EXCEPT !.awaits = FALSE] ELSE rescan
    /\ UNCHANGED <<app, filtered, held, nextFile, badAnswers, call, ask, since, listed, served, blind, queue, walk>>

Enqueued(i) ==
    /\ Change /\ queue' = Append(queue, i)
    /\ UNCHANGED <<badAnswers, walk>> /\ UNCHANGED queueRest

EntryLeaves(k) ==
    /\ Change /\ queue' = RemoveAt(queue, k)
    /\ walk' = [walk EXCEPT !.busy = @ \cap Range(queue'), !.shrank = (walk.at = "pages" \/ @)]
    /\ UNCHANGED badAnswers /\ UNCHANGED queueRest

ArrInit ==
    /\ app \in {"radarr", "sonarr"} /\ filtered = FALSE
    /\ held = [i \in Items |-> [refs |-> [e \in Episodes |-> IF e = 1 THEN i ELSE 0], rows |-> {i}, gone |-> FALSE]]
    /\ nextFile = Cardinality(Items) + 1 /\ changes = 0 /\ badAnswers = 0
    /\ call = [at |-> "idle", again |-> FALSE] /\ ask = [i \in Items |-> Idle_]
    /\ since = [i \in Items |-> {}] /\ listed = {}
    /\ rescan = [at |-> "idle", again |-> FALSE, awaits |-> FALSE] /\ rescanJob \in {"none", "queued", "started"}
    /\ stale = FALSE /\ served = FALSE /\ blind = FALSE
    /\ queue \in {<<>>, SetToSeq(Items)} /\ walk = NoWalk

-----------------------------------------------------------------------------
(* A list that is returned has every file that its item referred to when   *)
(* it was asked and has referred to ever since: a file the instance tracks *)
(* is not taken for one it does not, whatever it imports or deletes        *)
(* meanwhile and whatever a proxy answers (TrackedFiles).                  *)
TrackedIsListed ==
    call.at = "done" => \A i \in Items : since[i] \subseteq listed

(* The queue that is returned has every item that had an entry in it from  *)
(* the first page to the last, unless an entry left it meanwhile and the   *)
(* others moved up a page: the group of a busy item is put off, not        *)
(* approved (Queue, and the scanner's markBusyItems).                      *)
BusyIsSeen ==
    walk.at = "done" => walk.busy \subseteq walk.seen \/ walk.shrank

(* A rescan that succeeds is carried out by a command that had not begun   *)
(* when it was asked for, unless the commands could not be read (Rescan).  *)
RescanSeesRemoval ==
    rescan.at = "ok" => served \/ blind

(* What a client says of its instance can be relied on.                    *)
ReadsHold == TrackedIsListed /\ BusyIsSeen /\ RescanSeesRemoval
=============================================================================
