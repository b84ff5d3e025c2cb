---------------------------- MODULE LibraryProofs ----------------------------
(***************************************************************************)
(* Theorems about parts of Library: what the clients of Radarr and Sonarr  *)
(* say (ArrClient), what a listing of a media server has (Listing), what   *)
(* paths say of folders and files (Paths), what goes with a disc           *)
(* (DiscScan) and which copy a removal leaves (RemovalGuards), for every   *)
(* value of the constants.                                                 *)
(***************************************************************************)
EXTENDS Library, FiniteSetTheorems, SequenceTheorems, WellFoundedInduction, TLAPS

-----------------------------------------------------------------------------
(* The applications: the inductive invariant.                              *)

ItemRec == [refs : [Episodes -> Nat], rows : SUBSET Nat, gone : BOOLEAN]
CallRec == [at : {"idle", "items", "tags", "asking", "done", "failed"}, again : BOOLEAN]
AskRec == [at : {"no", "waiting", "rows", "by id", "episodes", "missing"}, want : Nat, rows : SUBSET Nat,
           refs : SUBSET Nat, again : BOOLEAN]
\* What an item refers to has a row, is referred to once, and was given an id; an
\* item that is gone refers to nothing.
HeldOK(h, kind, next) ==
  /\ \A e \in Episodes : h.refs[e] # 0 => h.refs[e] \in h.rows /\ h.refs[e] < next
  /\ \A e, d \in Episodes : h.refs[e] = h.refs[d] /\ h.refs[e] # 0 => e = d
  /\ kind = "radarr" => \A e \in Episodes : h.refs[e] # 0 => e = 1
  /\ h.gone => \A e \in Episodes : h.refs[e] = 0
\* What the item referred to ever since is what is still to be listed.
AskOK(a, files, kind, got) ==
  /\ a.at = "no" => files \subseteq got
  /\ a.at \in {"waiting", "rows"} => files \subseteq IF kind = "radarr" THEN {a.want} ELSE {}
  /\ a.at = "by id" => files \subseteq {a.want}
  /\ a.at = "episodes" => files = {}
  /\ a.at = "missing" => files \subseteq a.refs

TrackedInv ==
  /\ app \in {"radarr", "sonarr"} /\ nextFile \in Nat \ {0}
  /\ held \in [Items -> ItemRec] /\ ask \in [Items -> AskRec] /\ since \in [Items -> SUBSET Nat] /\ listed \subseteq Nat
  /\ \A i \in Items : HeldOK(held[i], app, nextFile)
  /\ \A i \in Items : since[i] \subseteq refsOf(i)
  /\ call.at \in {"idle", "items"} => \A i \in Items : since[i] = {}
  /\ call.at \in {"tags", "asking", "done"} => \A i \in Items : AskOK(ask[i], since[i], app, listed)
  /\ call.at = "done" \/ (call.at = "tags" /\ app = "radarr") => \A i \in Items : ask[i].at = "no"
  /\ call \in CallRec

-----------------------------------------------------------------------------
(* The applications: every step keeps it.                                  *)

\* The mark of an item that is not asked about.
LEMMA IdleIs ==
  /\ Idle_ \in AskRec /\ Idle_.at = "no" /\ \A files, kind, got : files \subseteq got => AskOK(Idle_, files, kind, got)
  BY DEF Idle_, AskRec, AskOK

\* What does not touch the items keeps what holds of them.
LEMMA SameItems ==
  ASSUME TrackedInv, UNCHANGED <<app, held, nextFile>>
  PROVE  /\ app' \in {"radarr", "sonarr"} /\ nextFile' \in Nat \ {0} /\ held' \in [Items -> ItemRec]
         /\ \A i \in Items : HeldOK(held'[i], app', nextFile')
         /\ \A i \in Items : refsOf(i)' = refsOf(i)
  BY DEF TrackedInv, HeldOK, refsOf

\* Before the first answer nothing was asked.
LEMMA ArrInitially == ASSUME ArrInit PROVE TrackedInv
  <1> USE DEF CallRec
  <1>1. /\ app \in {"radarr", "sonarr"} /\ nextFile = Cardinality(Items) + 1 /\ listed = {}
        /\ held = [i \in Items |-> [refs |-> [e \in Episodes |-> IF e = 1 THEN i ELSE 0], rows |-> {i}, gone |-> FALSE]]
        /\ call = [at |-> "idle", again |-> FALSE] /\ ask = [i \in Items |-> Idle_] /\ since = [i \in Items |-> {}]
    BY DEF ArrInit
  <1>2. Cardinality(Items) \in Nat /\ (\A i \in Items : i \in Nat \ {0} /\ i < nextFile)
    BY <1>1, ArrAssumption, FS_CardinalityType
  <1>3. ASSUME NEW i \in Items PROVE held[i] \in ItemRec /\ HeldOK(held[i], app, nextFile)
    <2>1. PICK h : h = held[i] OBVIOUS
    <2>2. h = [refs |-> [e \in Episodes |-> IF e = 1 THEN i ELSE 0], rows |-> {i}, gone |-> FALSE] BY <1>1, <2>1
    <2>3. h \in ItemRec BY <1>2, <2>2 DEF ItemRec
    <2>4. HeldOK(h, app, nextFile) BY <1>2, <2>2 DEF HeldOK
    <2> QED BY <2>1, <2>3, <2>4
  <1>4. held \in [Items -> ItemRec] BY <1>1, <1>3
  <1>5. ask \in [Items -> AskRec] /\ since \in [Items -> SUBSET Nat] BY <1>1, IdleIs
  <1>6. \A i \in Items : since[i] = {} BY <1>1
  <1>7. call.at = "idle" /\ call \in CallRec
    BY <1>1
  <1>8. \A i \in Items : HeldOK(held[i], app, nextFile) BY <1>3
  <1>9. app \in {"radarr", "sonarr"} /\ nextFile \in Nat \ {0} /\ listed \subseteq Nat BY <1>1, <1>2
  <1> HIDE DEF ArrInit
  <1> QED BY <1>4, <1>5, <1>6, <1>7, <1>8, <1>9 DEF TrackedInv

\* A call that fails returns nothing.
LEMMA FailsKeeps == ASSUME TrackedInv, Fails, UNCHANGED <<app, held, nextFile>> PROVE TrackedInv'
  <1> USE DEF CallRec
  <1>1. /\ call' = [at |-> "failed", again |-> FALSE] /\ ask' = [i \in Items |-> Idle_] /\ listed' = {} /\ since' = since
    BY DEF Fails
  <1>2. ask' \in [Items -> AskRec] BY <1>1, IdleIs
  <1>3. \A i \in Items : since'[i] \subseteq refsOf(i)' BY <1>1, SameItems DEF TrackedInv
  <1> QED BY <1>1, <1>2, <1>3, SameItems DEF TrackedInv

\* Only the call or whether a request is repeated changes.
LEMMA CallKeeps ==
  ASSUME TrackedInv, UNCHANGED <<app, held, nextFile, ask, since, listed>>,
         call' \in CallRec,
         call'.at \in {"idle", "items"} => call.at \in {"idle", "items"},
         call'.at \in {"tags", "asking", "done"} => call.at \in {"tags", "asking", "done"},
         call'.at = "done" \/ (call'.at = "tags" /\ app = "radarr") => \A i \in Items : ask[i].at = "no"
  PROVE  TrackedInv'
  <1> USE DEF CallRec
  <1>1. \A i \in Items : since'[i] \subseteq refsOf(i)' BY SameItems DEF TrackedInv
  <1>2. call'.at \in {"tags", "asking", "done"} => \A i \in Items : AskOK(ask'[i], since'[i], app', listed')
    BY DEF TrackedInv, AskOK
  <1> QED BY <1>1, <1>2, SameItems DEF TrackedInv

\* While the items are asked about, one of them goes on.
LEMMA AskKeeps ==
  ASSUME TrackedInv, UNCHANGED <<app, held, nextFile, call>>, call.at = "asking", NEW i \in Items, NEW a \in AskRec,
         ask' = [ask EXCEPT ![i] = a], listed \subseteq listed', listed' \subseteq Nat,
         NEW files \in SUBSET Nat, since' = [since EXCEPT ![i] = files], files \subseteq refsOf(i),
         AskOK(a, files, app', listed')
  PROVE  TrackedInv'
  <1>1. \A j \in Items : since'[j] \subseteq refsOf(j)'
    <2>1. \A j \in Items : refsOf(j)' = refsOf(j) BY SameItems
    <2>2. \A j \in Items : since'[j] = IF j = i THEN files ELSE since[j] BY DEF TrackedInv
    <2>3. \A j \in Items : since[j] \subseteq refsOf(j) BY DEF TrackedInv
    <2> QED BY <2>1, <2>2, <2>3
  <1>2. ask' \in [Items -> AskRec] /\ since' \in [Items -> SUBSET Nat] BY DEF TrackedInv
  <1>3. \A j \in Items : AskOK(ask'[j], since'[j], app', listed')
    <2> SUFFICES ASSUME NEW j \in Items PROVE AskOK(ask'[j], since'[j], app', listed') OBVIOUS
    <2>1. CASE j = i
      <3>1. ask'[j] = a /\ since'[j] = files BY <2>1 DEF TrackedInv
      <3> QED BY <3>1
    <2>2. CASE j # i
      <3>1. ask'[j] = ask[j] /\ since'[j] = since[j] BY <2>2 DEF TrackedInv
      <3>2. AskOK(ask[j], since[j], app, listed) BY DEF TrackedInv
      <3> QED BY <3>1, <3>2 DEF AskOK
    <2> QED BY <2>1, <2>2
  <1> QED BY <1>1, <1>2, <1>3, SameItems DEF TrackedInv

\* As before, and the same files are to be listed.
LEMMA AskGoesOn ==
  ASSUME TrackedInv, UNCHANGED <<app, held, nextFile, call, since>>, call.at = "asking", NEW i \in Items, NEW a \in AskRec,
         ask' = [ask EXCEPT ![i] = a], listed \subseteq listed', listed' \subseteq Nat, AskOK(a, since[i], app', listed')
  PROVE  TrackedInv'
  <1>1. PICK files : files = since[i] OBVIOUS
  <1>2. files \in SUBSET Nat /\ files \subseteq refsOf(i) /\ since' = [since EXCEPT ![i] = files]
    BY <1>1 DEF TrackedInv
  <1>3. AskOK(a, files, app', listed') BY <1>1 DEF AskOK
  <1> QED BY <1>2, <1>3, AskKeeps

\* ListItems: the items that have files are asked about, a movie for the file it has
\* now, or their files came with them.
LEMMA ListItemsKeeps == ASSUME TrackedInv, NEW r \in Reply, ListItems(r) PROVE TrackedInv'
  <1> USE DEF CallRec
  <1>1. call.at = "items" /\ UNCHANGED <<app, held, nextFile>> BY DEF ListItems, listVars
  <1>2. CASE retried(call.again, r) /\ call' = [call EXCEPT !.again = TRUE] /\ UNCHANGED <<ask, since, listed>>
    <2>1. call' = [at |-> "items", again |-> TRUE] BY <1>1, <1>2 DEF TrackedInv
    <2> QED BY <1>1, <1>2, <2>1, CallKeeps
  <1>3. CASE Fails BY <1>1, <1>3, FailsKeeps
  <1>4. CASE /\ call' = [at |-> IF selected = {} THEN "done" ELSE IF app = "radarr" THEN "asking" ELSE "tags",
                         again |-> FALSE]
             /\ ask' = [i \in Items |-> IF i \notin selected \/ embedded THEN Idle_
                                        ELSE [Idle_ EXCEPT !.at = "waiting",
                                                           !.want = IF app = "radarr" THEN held[i].refs[1] ELSE 0]]
             /\ since' = [i \in Items |-> IF app = "radarr" /\ i \in selected THEN refsOf(i) ELSE {}]
             /\ listed' = IF embedded THEN UNION {refsOf(i) : i \in selected} ELSE {}
    <2>1. \A i \in Items : refsOf(i) \subseteq Nat BY DEF TrackedInv, ItemRec, refsOf
    <2>2. selected \subseteq Items BY DEF selected
    <2>3. ASSUME NEW i \in Items
          PROVE  /\ ask'[i] \in AskRec /\ since'[i] \subseteq refsOf(i)' /\ since'[i] \subseteq Nat
                 /\ AskOK(ask'[i], since'[i], app', listed')
                 /\ selected = {} => ask'[i].at = "no"
      <3>1. PICK w : w = IF app = "radarr" THEN held[i].refs[1] ELSE 0 OBVIOUS
      <3>2. w \in Nat BY <3>1, ArrAssumption DEF TrackedInv, ItemRec
      <3>3. PICK a : a = [Idle_ EXCEPT !.at = "waiting", !.want = w] OBVIOUS
      <3>4. a = [at |-> "waiting", want |-> w, rows |-> {}, refs |-> {}, again |-> FALSE] BY <3>3 DEF Idle_
      <3>5. ask'[i] = IF i \notin selected \/ embedded THEN Idle_ ELSE a BY <1>4, <3>1, <3>3
      <3>6. since'[i] = IF app = "radarr" /\ i \in selected THEN refsOf(i) ELSE {} BY <1>4
      <3>7. refsOf(i)' = refsOf(i) BY <1>1, SameItems
      <3>8. a \in AskRec BY <3>2, <3>4 DEF AskRec
      <3>9. app = "radarr" => refsOf(i) \subseteq {held[i].refs[1]} BY DEF TrackedInv, HeldOK, refsOf
      <3>10. AskOK(ask'[i], since'[i], app', listed')
        <4>1. CASE i \notin selected BY <3>5, <3>6, <4>1, IdleIs
        <4>2. CASE i \in selected /\ embedded
          <5>1. since'[i] \subseteq listed' BY <1>4, <3>6, <4>2
          <5> QED BY <3>5, <4>2, <5>1, IdleIs
        <4>3. CASE i \in selected /\ ~embedded
          <5>1. ask'[i] = a /\ app' = app BY <1>1, <3>5, <4>3
          <5>2. since'[i] \subseteq IF app = "radarr" THEN {w} ELSE {} BY <3>1, <3>6, <3>9
          <5>3. a.at = "waiting" /\ a.want = w BY <3>4
          <5> QED BY <5>1, <5>2, <5>3 DEF AskOK
        <4> QED BY <4>1, <4>2, <4>3
      <3> QED BY <2>1, <3>5, <3>6, <3>7, <3>8, <3>10, IdleIs
    <2>4. ask' \in [Items -> AskRec] /\ since' \in [Items -> SUBSET Nat] BY <1>4, <2>3
    <2>5. listed' \subseteq Nat BY <1>4, <2>1, <2>2
    <2>6. call'.at \in {"done", "asking", "tags"} /\ (call'.at = "done" => selected = {}) /\ (call'.at = "tags" => app # "radarr")
      BY <1>4
    <2>7. call' \in CallRec BY <1>4
    <2>8. app' = app BY <1>1
    <2> QED BY <1>1, <2>3, <2>4, <2>5, <2>6, <2>7, <2>8, SameItems DEF TrackedInv
  <1> QED BY <1>1, <1>2, <1>3, <1>4 DEF ListItems

\* ListTags: nothing that is listed depends on them.
LEMMA ListTagsKeeps == ASSUME TrackedInv, NEW r \in Reply, ListTags(r) PROVE TrackedInv'
  <1> USE DEF CallRec
  <1>1. call.at = "tags" /\ UNCHANGED <<app, held, nextFile>> BY DEF ListTags, listVars
  <1>2. CASE call' = [call EXCEPT !.again = TRUE] /\ UNCHANGED <<ask, since, listed>>
    <2>1. call' = [at |-> "tags", again |-> TRUE] BY <1>1, <1>2 DEF TrackedInv
    <2>2. app = "radarr" => \A i \in Items : ask[i].at = "no" BY <1>1 DEF TrackedInv
    <2> QED BY <1>1, <1>2, <2>1, <2>2, CallKeeps
  <1>3. CASE Fails BY <1>1, <1>3, FailsKeeps
  <1>4. CASE /\ call' = [at |-> IF app = "radarr" THEN "done" ELSE "asking", again |-> FALSE]
             /\ UNCHANGED <<ask, since, listed>>
    <2>1. app = "radarr" => \A i \in Items : ask[i].at = "no" BY <1>1 DEF TrackedInv
    <2>2. call'.at \in {"done", "asking"} /\ (call'.at = "done" => app = "radarr")
          /\ call' \in CallRec
      BY <1>4
    <2> QED BY <1>1, <1>4, <2>1, <2>2, CallKeeps
  <1> QED BY <1>1, <1>2, <1>3, <1>4 DEF ListTags

\* Some item's request is repeated, or it is asked about.
LEMMA AskFields ==
  ASSUME TrackedInv, NEW i \in Items, NEW v \in {"no", "waiting", "rows", "by id", "episodes", "missing"}, NEW b \in BOOLEAN
  PROVE  /\ [ask EXCEPT ![i].again = b] = [ask EXCEPT ![i] = [ask[i] EXCEPT !.again = b]]
         /\ [ask EXCEPT ![i].at = v] = [ask EXCEPT ![i] = [ask[i] EXCEPT !.at = v]]
         /\ [ask EXCEPT ![i].at = v, ![i].again = b] = [ask EXCEPT ![i] = [ask[i] EXCEPT !.at = v, !.again = b]]
  BY DEF TrackedInv

\* A request is repeated: nothing was learned.
LEMMA AgainKeeps ==
  ASSUME TrackedInv, UNCHANGED <<app, held, nextFile, call, since, listed>>, call.at = "asking", NEW i \in Items,
         ask' = [ask EXCEPT ![i].again = TRUE]
  PROVE  TrackedInv'
  <1>1. PICK r : r = ask[i] OBVIOUS
  <1>2. r \in AskRec /\ AskOK(r, since[i], app, listed) /\ listed \subseteq Nat BY <1>1 DEF TrackedInv
  <1>3. PICK a : a = [r EXCEPT !.again = TRUE] OBVIOUS
  <1>4. a = [at |-> r.at, want |-> r.want, rows |-> r.rows, refs |-> r.refs, again |-> TRUE] BY <1>2, <1>3 DEF AskRec
  <1>5. a \in AskRec /\ a.at = r.at /\ a.want = r.want /\ a.refs = r.refs BY <1>2, <1>4 DEF AskRec
  <1>6. ask' = [ask EXCEPT ![i] = a] BY <1>1, <1>3, AskFields
  <1>7. AskOK(a, since[i], app', listed') BY <1>2, <1>5 DEF AskOK
  <1> QED BY <1>2, <1>5, <1>6, <1>7, AskGoesOn

\* The item was answered for: what it is still to list is among the files.
LEMMA AnsweredKeeps ==
  ASSUME TrackedInv, UNCHANGED <<app, held, nextFile>>, call.at = "asking", NEW i \in Items, NEW files \in SUBSET Nat,
         Answered(i, files), since[i] \subseteq listed \cup files
  PROVE  TrackedInv'
  <1>1. ask' = [ask EXCEPT ![i] = Idle_] /\ listed' = listed \cup files /\ UNCHANGED <<call, since>> BY DEF Answered
  <1>2. listed' \subseteq Nat BY <1>1 DEF TrackedInv
  <1>3. AskOK(Idle_, since[i], app', listed') /\ Idle_ \in AskRec BY <1>1, IdleIs
  <1> QED BY <1>1, <1>2, <1>3, AskGoesOn

\* Starting, and asking about the next item.
LEMMA AskStarts ==
  ASSUME TrackedInv PROVE (\A f : StartTracked(f) => TrackedInv') /\ (\A i \in Items : Ask(i) => TrackedInv')
  <1>1. ASSUME NEW f, StartTracked(f) PROVE TrackedInv'
    BY <1>1, CallKeeps DEF StartTracked, CallRec
  <1>2. ASSUME NEW i \in Items, Ask(i) PROVE TrackedInv'
    <2>1. /\ call.at = "asking" /\ ask[i].at = "waiting" /\ ask' = [ask EXCEPT ![i].at = "rows"]
          /\ UNCHANGED <<app, held, nextFile, call, since, listed>>
      BY <1>2 DEF Ask, listVars
    <2>2. PICK r : r = ask[i] OBVIOUS
    <2>3. r \in AskRec /\ AskOK(r, since[i], app, listed) /\ listed \subseteq Nat BY <2>1, <2>2 DEF TrackedInv
    <2>4. PICK a : a = [r EXCEPT !.at = "rows"] OBVIOUS
    <2>5. a = [at |-> "rows", want |-> r.want, rows |-> r.rows, refs |-> r.refs, again |-> r.again]
      BY <2>3, <2>4 DEF AskRec
    <2>6. a \in AskRec /\ a.at = "rows" /\ a.want = r.want BY <2>3, <2>5 DEF AskRec
    <2>7. ask' = [ask EXCEPT ![i] = a] BY <2>1, <2>2, <2>4, AskFields
    <2>8. AskOK(a, since[i], app', listed') BY <2>1, <2>2, <2>3, <2>6 DEF AskOK
    <2> QED BY <2>1, <2>3, <2>6, <2>7, <2>8, AskGoesOn
  <1> QED BY <1>1, <1>2

\* An item that is gone has nothing left to list.
LEMMA GoneIsBare == ASSUME TrackedInv, NEW i \in Items, held[i].gone PROVE since[i] = {}
  <1>1. refsOf(i) = {} BY DEF TrackedInv, HeldOK, refsOf
  <1> QED BY <1>1 DEF TrackedInv

\* ListRows: the rows of a movie have the file it was to have, or it is read by its
\* id; those of a series go with what its episodes refer to.
LEMMA ListRowsKeeps == ASSUME TrackedInv, NEW i \in Items, NEW r \in Reply, ListRows(i, r) PROVE TrackedInv'
  <1>1. call.at = "asking" /\ ask[i].at = "rows" /\ UNCHANGED <<app, held, nextFile>> BY DEF ListRows, listVars
  <1>2. CASE ask' = [ask EXCEPT ![i].again = TRUE] /\ UNCHANGED <<call, since, listed>> BY <1>1, <1>2, AgainKeeps
  <1>3. CASE isArrNotFound(i, r) /\ Answered(i, {})
    <2>1. since[i] = {} BY <1>3, GoneIsBare DEF isArrNotFound
    <2> QED BY <1>1, <1>3, <2>1, AnsweredKeeps
  <1>4. CASE Fails BY <1>1, <1>4, FailsKeeps
  <1>5. PICK q : q = ask[i] OBVIOUS
  <1>6. q \in AskRec /\ AskOK(q, since[i], app, listed) /\ listed \subseteq Nat /\ q.at = "rows"
    BY <1>1, <1>5 DEF TrackedInv
  <1>7. CASE app = "radarr" /\ \E shown : radarrMovieFile(i, shown)
    <2>1. PICK shown : radarrMovieFile(i, shown) BY <1>7
    <2>2. CASE Answered(i, {ask[i].want})
      <3>1. since[i] \subseteq {ask[i].want} /\ {ask[i].want} \in SUBSET Nat BY <1>5, <1>6, <1>7 DEF AskOK, AskRec
      <3> QED BY <1>1, <2>2, <3>1, AnsweredKeeps
    <2>3. CASE ask' = [ask EXCEPT ![i].at = "by id", ![i].again = FALSE] /\ UNCHANGED <<call, since, listed>>
      <3>1. PICK a : a = [q EXCEPT !.at = "by id", !.again = FALSE] OBVIOUS
      <3>2. a = [at |-> "by id", want |-> q.want, rows |-> q.rows, refs |-> q.refs, again |-> FALSE]
        BY <1>6, <3>1 DEF AskRec
      <3>3. a \in AskRec /\ a.at = "by id" /\ a.want = q.want BY <1>6, <3>2 DEF AskRec
      <3>4. ask' = [ask EXCEPT ![i] = a] BY <1>5, <2>3, <3>1 DEF TrackedInv
      <3>5. AskOK(a, since[i], app', listed') BY <1>6, <1>7, <3>3 DEF AskOK
      <3> QED BY <1>1, <1>6, <2>3, <3>3, <3>4, <3>5, AskGoesOn
    <2> QED BY <2>1, <2>2, <2>3 DEF radarrMovieFile
  <1>8. CASE /\ app # "radarr"
             /\ ask' = [ask EXCEPT ![i] = [@ EXCEPT !.at = "episodes", !.rows = held[i].rows, !.again = FALSE]]
             /\ UNCHANGED <<call, since, listed>>
    <2>1. PICK rows : rows = held[i].rows OBVIOUS
    <2>2. PICK a : a = [q EXCEPT !.at = "episodes", !.rows = rows, !.again = FALSE] OBVIOUS
    <2>3. a = [at |-> "episodes", want |-> q.want, rows |-> rows, refs |-> q.refs, again |-> FALSE]
      BY <1>6, <2>2 DEF AskRec
    <2>4. rows \in SUBSET Nat BY <2>1 DEF TrackedInv, ItemRec
    <2>5. a \in AskRec /\ a.at = "episodes" BY <1>6, <2>3, <2>4 DEF AskRec
    <2>6. ask' = [ask EXCEPT ![i] = a] BY <1>5, <1>8, <2>1, <2>2 DEF TrackedInv
    <2>7. since[i] = {} BY <1>6, <1>8 DEF AskOK
    <2>8. AskOK(a, since[i], app', listed') BY <2>5, <2>7 DEF AskOK
    <2> QED BY <1>1, <1>6, <1>8, <2>5, <2>6, <2>8, AskGoesOn
  <1>9. \/ ask' = [ask EXCEPT ![i].again = TRUE] /\ UNCHANGED <<call, since, listed>>
        \/ isArrNotFound(i, r) /\ Answered(i, {})
        \/ Fails
        \/ app = "radarr" /\ \E shown : radarrMovieFile(i, shown)
        \/ /\ app # "radarr"
           /\ ask' = [ask EXCEPT ![i] = [@ EXCEPT !.at = "episodes", !.rows = held[i].rows, !.again = FALSE]]
           /\ UNCHANGED <<call, since, listed>>
    BY DEF ListRows
  <1> QED BY <1>2, <1>3, <1>4, <1>7, <1>8, <1>9

\* FileById: the file it was to have, or the call fails.
LEMMA FileByIdKeeps == ASSUME TrackedInv, NEW i \in Items, NEW r \in Reply, FileById(i, r) PROVE TrackedInv'
  <1>1. call.at = "asking" /\ ask[i].at = "by id" /\ UNCHANGED <<app, held, nextFile>> BY DEF FileById, listVars
  <1>2. CASE ask' = [ask EXCEPT ![i].again = TRUE] /\ UNCHANGED <<call, since, listed>> BY <1>1, <1>2, AgainKeeps
  <1>3. CASE Fails BY <1>1, <1>3, FailsKeeps
  <1>4. CASE Answered(i, {ask[i].want})
    <2>1. since[i] \subseteq {ask[i].want} /\ ask[i].want \in Nat BY <1>1 DEF TrackedInv, AskOK, AskRec
    <2> QED BY <1>1, <1>4, <2>1, AnsweredKeeps
  <1> QED BY <1>2, <1>3, <1>4 DEF FileById

\* ListEpisodes: from now on what the episodes refer to is to be listed.
LEMMA ListEpisodesKeeps == ASSUME TrackedInv, NEW i \in Items, NEW r \in Reply, ListEpisodes(i, r) PROVE TrackedInv'
  <1>1. call.at = "asking" /\ ask[i].at = "episodes" /\ UNCHANGED <<app, held, nextFile>>
    BY DEF ListEpisodes, listVars
  <1>2. CASE ask' = [ask EXCEPT ![i].again = TRUE] /\ UNCHANGED <<call, since, listed>> BY <1>1, <1>2, AgainKeeps
  <1>3. CASE isArrNotFound(i, r) /\ Answered(i, {})
    <2>1. since[i] = {} BY <1>3, GoneIsBare DEF isArrNotFound
    <2> QED BY <1>1, <1>3, <2>1, AnsweredKeeps
  <1>4. CASE Fails BY <1>1, <1>4, FailsKeeps
  <1>5. CASE /\ ask' = [ask EXCEPT ![i] = [@ EXCEPT !.at = "missing", !.refs = refsOf(i), !.again = FALSE]]
             /\ since' = [since EXCEPT ![i] = refsOf(i)]
             /\ UNCHANGED <<call, listed>>
    <2>1. PICK files : files = refsOf(i) OBVIOUS
    <2>2. PICK q : q = ask[i] OBVIOUS
    <2>3. files \in SUBSET Nat BY <2>1 DEF refsOf, TrackedInv, ItemRec
    <2>4. q \in AskRec /\ listed \subseteq Nat BY <2>2 DEF TrackedInv
    <2>5. PICK a : a = [q EXCEPT !.at = "missing", !.refs = files, !.again = FALSE] OBVIOUS
    <2>6. a = [at |-> "missing", want |-> q.want, rows |-> q.rows, refs |-> files, again |-> FALSE]
      BY <2>4, <2>5 DEF AskRec
    <2>7. a \in AskRec /\ a.at = "missing" /\ a.refs = files BY <2>3, <2>4, <2>6 DEF AskRec
    <2>8. ask' = [ask EXCEPT ![i] = a] BY <1>5, <2>1, <2>2, <2>5 DEF TrackedInv
    <2>9. AskOK(a, files, app', listed') BY <2>7 DEF AskOK
    <2>10. since' = [since EXCEPT ![i] = files] /\ files \subseteq refsOf(i) BY <1>5, <2>1
    <2>11. listed' = listed /\ call' = call BY <1>5
    <2> QED BY <1>1, <2>3, <2>4, <2>7, <2>8, <2>9, <2>10, <2>11, AskKeeps
  <1>6. \/ ask' = [ask EXCEPT ![i].again = TRUE] /\ UNCHANGED <<call, since, listed>>
        \/ isArrNotFound(i, r) /\ Answered(i, {})
        \/ Fails
        \/ /\ ask' = [ask EXCEPT ![i] = [@ EXCEPT !.at = "missing", !.refs = refsOf(i), !.again = FALSE]]
           /\ since' = [since EXCEPT ![i] = refsOf(i)]
           /\ UNCHANGED <<call, listed>>
    BY DEF ListEpisodes
  <1> QED BY <1>2, <1>3, <1>4, <1>5, <1>6

\* ReadMissing: a file that is gone is referred to no longer, so it was not to be listed.
LEMMA ReadMissingKeeps ==
  ASSUME TrackedInv, NEW i \in Items, NEW f \in 1 .. MaxFile, NEW r \in Reply, ReadMissing(i, f, r) PROVE TrackedInv'
  <1>1. /\ call.at = "asking" /\ ask[i].at = "missing" /\ f \in missing(i) /\ UNCHANGED <<app, held, nextFile>>
    BY DEF ReadMissing, listVars
  <1>2. CASE ask' = [ask EXCEPT ![i].again = TRUE] /\ UNCHANGED <<call, since, listed>> BY <1>1, <1>2, AgainKeeps
  <1>3. CASE Fails BY <1>1, <1>3, FailsKeeps
  <1>4. CASE /\ ask' = [ask EXCEPT ![i] = IF f \in held[i].rows THEN [@ EXCEPT !.rows = ask[i].rows \cup {f}, !.again = FALSE]
                                          ELSE [@ EXCEPT !.refs = ask[i].refs \ {f}, !.again = FALSE]]
             /\ UNCHANGED <<call, since, listed>>
    <2>1. PICK q : q = ask[i] OBVIOUS
    <2>2. /\ q \in AskRec /\ q.at = "missing" /\ since[i] \subseteq q.refs /\ listed \subseteq Nat
      BY <1>1, <2>1 DEF TrackedInv, AskOK
    <2>3. f \in Nat BY <1>1, <2>1, <2>2 DEF missing, AskRec
    <2>6. PICK b : b = IF f \in held[i].rows THEN [q EXCEPT !.rows = q.rows \cup {f}, !.again = FALSE]
                       ELSE [q EXCEPT !.refs = q.refs \ {f}, !.again = FALSE]
      OBVIOUS
    <2>7. ask' = [ask EXCEPT ![i] = b] BY <1>4, <2>1, <2>6
    <2>4. CASE f \in held[i].rows
      <3>1. PICK a : a = [q EXCEPT !.rows = q.rows \cup {f}, !.again = FALSE] OBVIOUS
      <3>2. a = [at |-> "missing", want |-> q.want, rows |-> q.rows \cup {f}, refs |-> q.refs, again |-> FALSE]
        BY <2>2, <3>1 DEF AskRec
      <3>3. a \in AskRec /\ a.at = "missing" /\ a.refs = q.refs BY <2>2, <2>3, <3>2 DEF AskRec
      <3>4. b = a BY <2>4, <2>6, <3>1
      <3>5. AskOK(a, since[i], app', listed') BY <2>2, <3>3 DEF AskOK
      <3> QED BY <1>1, <1>4, <2>2, <2>7, <3>3, <3>4, <3>5, AskGoesOn
    <2>5. CASE f \notin held[i].rows
      <3>1. PICK a : a = [q EXCEPT !.refs = q.refs \ {f}, !.again = FALSE] OBVIOUS
      <3>2. a = [at |-> "missing", want |-> q.want, rows |-> q.rows, refs |-> q.refs \ {f}, again |-> FALSE]
        BY <2>2, <3>1 DEF AskRec
      <3>3. a \in AskRec /\ a.at = "missing" /\ a.refs = q.refs \ {f} BY <2>2, <3>2 DEF AskRec
      <3>4. b = a BY <2>5, <2>6, <3>1
      <3>5. f \notin refsOf(i) BY <2>5 DEF TrackedInv, HeldOK, refsOf
      <3>6. AskOK(a, since[i], app', listed') BY <2>2, <3>3, <3>5 DEF AskOK, TrackedInv
      <3> QED BY <1>1, <1>4, <2>2, <2>7, <3>3, <3>4, <3>6, AskGoesOn
    <2> QED BY <2>4, <2>5
  <1> QED BY <1>2, <1>3, <1>4 DEF ReadMissing

\* SeriesDone: nothing the episodes refer to is missing from the rows.
LEMMA SeriesDoneKeeps == ASSUME TrackedInv, NEW i \in Items, SeriesDone(i) PROVE TrackedInv'
  <1>1. /\ call.at = "asking" /\ ask[i].at = "missing" /\ missing(i) = {} /\ UNCHANGED <<app, held, nextFile>>
        /\ Answered(i, ask[i].rows \cap ask[i].refs)
    BY DEF SeriesDone, listVars
  <1>2. PICK files : files = ask[i].rows \cap ask[i].refs OBVIOUS
  <1>3. files \in SUBSET Nat /\ since[i] \subseteq files BY <1>1, <1>2 DEF TrackedInv, AskOK, AskRec, missing
  <1> QED BY <1>1, <1>2, <1>3, AnsweredKeeps

\* ListingDone: nobody is asked about any more.
LEMMA ListingDoneKeeps == ASSUME TrackedInv, ListingDone PROVE TrackedInv'
  <1> USE DEF CallRec
  <1>1. /\ call.at = "asking" /\ \A i \in Items : ask[i].at = "no"
        /\ call' = [call EXCEPT !.at = IF app = "radarr" THEN "tags" ELSE "done"]
        /\ UNCHANGED <<app, held, nextFile, ask, since, listed>>
    BY DEF ListingDone, listVars
  <1>2. call' \in CallRec /\ call'.at \in {"tags", "done"}
    BY <1>1 DEF TrackedInv
  <1> QED BY <1>1, <1>2, CallKeeps

\* A change of an item: what it holds is still in order, and what it referred to ever
\* since an answer becomes no more.
LEMMA HeldKeeps ==
  ASSUME TrackedInv, NEW i \in Items, NEW h \in ItemRec, Held(i, h), nextFile' \in Nat, nextFile <= nextFile',
         UNCHANGED <<app, call, ask, listed>>, HeldOK(h, app, nextFile')
  PROVE  TrackedInv'
  <1>1. held' = [held EXCEPT ![i] = h] /\ held' \in [Items -> ItemRec] BY DEF Held, TrackedInv
  <1>2. \A j \in Items : held'[j] = IF j = i THEN h ELSE held[j] BY <1>1 DEF TrackedInv
  <1>3. \A j \in Items : since'[j] \subseteq since[j] BY DEF Held, TrackedInv
  <1>4. since' \in [Items -> SUBSET Nat] BY DEF Held, TrackedInv
  <1>5. ASSUME NEW j \in Items PROVE HeldOK(held'[j], app', nextFile') /\ since'[j] \subseteq refsOf(j)'
    <2>1. CASE j = i
      <3>1. refsOf(i)' = {h.refs[e] : e \in Episodes} \ {0} BY <1>2 DEF refsOf
      <3>2. since'[i] \subseteq {h.refs[e] : e \in Episodes} BY DEF Held, TrackedInv
      <3>3. 0 \notin since[i] BY DEF TrackedInv, refsOf
      <3> QED BY <1>2, <1>3, <2>1, <3>1, <3>2, <3>3
    <2>2. CASE j # i
      <3>1. refsOf(j)' = refsOf(j) BY <1>2, <2>2 DEF refsOf
      <3>2. HeldOK(held[j], app, nextFile) /\ since[j] \subseteq refsOf(j) BY DEF TrackedInv
      <3>3. \A e \in Episodes : held[j].refs[e] \in Nat BY DEF TrackedInv, ItemRec
      <3>4. nextFile \in Nat BY DEF TrackedInv
      <3>5. HeldOK(held[j], app, nextFile') BY <3>2, <3>3, <3>4 DEF HeldOK
      <3> QED BY <1>2, <1>3, <2>2, <3>1, <3>2, <3>5
    <2> QED BY <2>1, <2>2
  <1>6. ASSUME NEW j \in Items, AskOK(ask[j], since[j], app, listed) PROVE AskOK(ask'[j], since'[j], app', listed')
    <2>1. ask'[j] = ask[j] /\ app' = app /\ listed' = listed /\ since'[j] \subseteq since[j] BY <1>3
    <2> QED BY <1>6, <2>1 DEF AskOK
  <1>7. call'.at \in {"tags", "asking", "done"} => \A j \in Items : AskOK(ask'[j], since'[j], app', listed')
    BY <1>6 DEF TrackedInv
  <1>8. call'.at \in {"idle", "items"} => \A j \in Items : since'[j] = {} BY <1>3 DEF TrackedInv
  <1>9. nextFile' \in Nat \ {0} BY DEF TrackedInv
  <1>10. /\ app' \in {"radarr", "sonarr"} /\ ask' \in [Items -> AskRec] /\ listed' \subseteq Nat
         /\ call'.at = "done" \/ (call'.at = "tags" /\ app' = "radarr") => \A j \in Items : ask'[j].at = "no"
         /\ call' \in CallRec
    BY DEF TrackedInv
  <1> QED BY <1>1, <1>4, <1>5, <1>7, <1>8, <1>9, <1>10 DEF TrackedInv

\* Import: a file has an id of its own.
LEMMA ImportKeeps ==
  ASSUME TrackedInv, NEW i \in Items, NEW e \in Episodes, NEW orphan \in BOOLEAN, Import(i, e, orphan) PROVE TrackedInv'
  <1>1. PICK q : q = held[i] OBVIOUS
  <1>2. q \in ItemRec /\ HeldOK(q, app, nextFile) /\ nextFile \in Nat \ {0} BY <1>1 DEF TrackedInv
  <1>3. PICK rows : rows = (IF orphan THEN q.rows ELSE q.rows \ {q.refs[e]}) \cup {nextFile} OBVIOUS
  <1>4. PICK refs : refs = [q.refs EXCEPT ![e] = nextFile] OBVIOUS
  <1>5. refs \in [Episodes -> Nat] /\ rows \in SUBSET Nat /\ (\A d \in Episodes : refs[d] = IF d = e THEN nextFile ELSE q.refs[d])
    BY <1>2, <1>3, <1>4 DEF ItemRec
  <1>6. PICK h : h = [held[i] EXCEPT !.refs[e] = nextFile,
                                     !.rows = (IF orphan THEN @ ELSE @ \ {held[i].refs[e]}) \cup {nextFile}]
    OBVIOUS
  <1>7. h = [refs |-> refs, rows |-> rows, gone |-> q.gone] BY <1>1, <1>2, <1>3, <1>4, <1>6 DEF ItemRec
  <1>8. h \in ItemRec /\ h.refs = refs /\ h.rows = rows /\ h.gone = q.gone BY <1>2, <1>5, <1>7 DEF ItemRec
  <1>9. ~q.gone /\ (app = "radarr" => e = 1) /\ nextFile' = nextFile + 1 /\ UNCHANGED <<app, call, ask, listed>> /\ Held(i, h)
    BY <1>1, <1>6 DEF Import, Elsewhere
  <1>10. HeldOK(h, app, nextFile')
    <2>1. \A d \in Episodes : h.refs[d] # 0 => h.refs[d] \in h.rows /\ h.refs[d] < nextFile'
      BY <1>2, <1>3, <1>5, <1>8, <1>9 DEF HeldOK, ItemRec
    <2>2. \A d, c \in Episodes : h.refs[d] = h.refs[c] /\ h.refs[d] # 0 => d = c
      BY <1>2, <1>5, <1>8 DEF HeldOK, ItemRec
    <2>3. app = "radarr" => \A d \in Episodes : h.refs[d] # 0 => d = 1 BY <1>2, <1>5, <1>8, <1>9 DEF HeldOK
    <2> QED BY <1>8, <1>9, <2>1, <2>2, <2>3 DEF HeldOK
  <1> QED BY <1>2, <1>8, <1>9, <1>10, HeldKeeps

\* FileDeleted, ItemDeleted: what an item no longer refers to need not be listed.
LEMMA DeletedKeeps ==
  ASSUME TrackedInv, NEW i \in Items
  PROVE  (\A e \in Episodes : FileDeleted(i, e) => TrackedInv') /\ (ItemDeleted(i) => TrackedInv')
  <1>1. PICK q : q = held[i] OBVIOUS
  <1>2. q \in ItemRec /\ HeldOK(q, app, nextFile) /\ nextFile \in Nat \ {0} BY <1>1 DEF TrackedInv
  <1>3. ASSUME NEW e \in Episodes, FileDeleted(i, e) PROVE TrackedInv'
    <2>1. PICK rows : rows = q.rows \ {q.refs[e]} OBVIOUS
    <2>2. PICK refs : refs = [q.refs EXCEPT ![e] = 0] OBVIOUS
    <2>3. refs \in [Episodes -> Nat] /\ rows \in SUBSET Nat /\ (\A d \in Episodes : refs[d] = IF d = e THEN 0 ELSE q.refs[d])
      BY <1>2, <2>1, <2>2 DEF ItemRec
    <2>4. PICK h : h = [held[i] EXCEPT !.refs[e] = 0, !.rows = @ \ {held[i].refs[e]}] OBVIOUS
    <2>5. h = [refs |-> refs, rows |-> rows, gone |-> q.gone] BY <1>1, <1>2, <2>1, <2>2, <2>4 DEF ItemRec
    <2>6. h \in ItemRec /\ h.refs = refs /\ h.rows = rows /\ h.gone = q.gone BY <1>2, <2>3, <2>5 DEF ItemRec
    <2>7. q.refs[e] # 0 /\ nextFile' = nextFile /\ UNCHANGED <<app, call, ask, listed>> /\ Held(i, h)
      BY <1>1, <1>3, <2>4 DEF FileDeleted, Elsewhere
    <2>8. HeldOK(h, app, nextFile') BY <1>2, <2>1, <2>3, <2>6, <2>7 DEF HeldOK, ItemRec
    <2> QED BY <1>2, <2>6, <2>7, <2>8, HeldKeeps
  <1>4. ASSUME ItemDeleted(i) PROVE TrackedInv'
    <2>1. PICK h : h = [refs |-> [e \in Episodes |-> 0], rows |-> {}, gone |-> TRUE] OBVIOUS
    <2>2. h \in ItemRec BY <2>1 DEF ItemRec
    <2>3. HeldOK(h, app, nextFile) BY <2>1 DEF HeldOK
    <2>4. nextFile' = nextFile /\ UNCHANGED <<app, call, ask, listed>> /\ Held(i, h)
      BY <1>4, <2>1 DEF ItemDeleted, Elsewhere
    <2> QED BY <1>2, <2>2, <2>3, <2>4, HeldKeeps
  <1> QED BY <1>3, <1>4

\* The other calls, and an instance that only works on them, leave the list alone.
LEMMA TrackedStays ==
  ASSUME TrackedInv, UNCHANGED <<app, held, nextFile, call, ask, since, listed>> PROVE TrackedInv'
  BY CallKeeps DEF TrackedInv

-----------------------------------------------------------------------------
(* The applications: the rescan and the download queue.                    *)

\* Until the command is posted, a command that was running then is known to be.
RescanInv ==
  /\ stale => rescanJob = "started"
  /\ rescan.at = "post" => blind \/ ~stale
  /\ rescan.at = "wait" /\ ~rescan.awaits => ~stale
  /\ rescan.at = "ok" => served \/ blind
  /\ rescan \in [at : {"idle", "commands", "post", "wait", "ok", "failed"}, again : BOOLEAN, awaits : BOOLEAN]

\* Rescan: every step keeps it.
LEMMA RescanKeeps ==
  ASSUME RescanInv
  PROVE  /\ StartRescan => RescanInv'
         /\ \A r \in Reply : (ListCommands(r) \/ PollCommand(r) \/ PostCommand(r)) => RescanInv'
         /\ JobMoves => RescanInv'
         /\ UNCHANGED <<rescan, rescanJob, stale, served, blind>> => RescanInv'
  <1>1. ASSUME StartRescan PROVE RescanInv' BY <1>1 DEF StartRescan, restVars, RescanInv
  <1>2. ASSUME NEW r \in Reply, ListCommands(r) PROVE RescanInv'
    <2>1. CASE rescan' = [rescan EXCEPT !.again = TRUE] /\ UNCHANGED blind
      BY <1>2, <2>1 DEF ListCommands, RescanInv
    <2>2. CASE rescan' = [rescan EXCEPT !.at = "failed"] /\ UNCHANGED blind
      BY <1>2, <2>2 DEF ListCommands, RescanInv
    <2>3. CASE rescan' = [at |-> "post", again |-> FALSE, awaits |-> FALSE] /\ blind' = TRUE
      BY <1>2, <2>3 DEF ListCommands, RescanInv
    <2>4. CASE rescan' = [at |-> IF mustWait THEN "wait" ELSE "post", again |-> FALSE, awaits |-> mustWait] /\ UNCHANGED blind
      BY <1>2, <2>4 DEF ListCommands, RescanInv, mustWait
    <2> QED BY <1>2, <2>1, <2>2, <2>3, <2>4 DEF ListCommands
  <1>3. ASSUME NEW r \in Reply, PollCommand(r) PROVE RescanInv'
    <2>1. CASE rescan' = [rescan EXCEPT !.again = TRUE] BY <1>3, <2>1 DEF PollCommand, RescanInv
    <2>2. CASE rescan' = [rescan EXCEPT !.at = "failed"] BY <1>3, <2>2 DEF PollCommand, RescanInv
    <2>3. CASE ~rescan.awaits /\ rescan' = [rescan EXCEPT !.at = "post", !.again = FALSE]
      BY <1>3, <2>3 DEF PollCommand, RescanInv
    <2> QED BY <1>3, <2>1, <2>2, <2>3 DEF PollCommand
  <1>4. ASSUME NEW r \in Reply, PostCommand(r) PROVE RescanInv'
    <2>1. CASE rescan' = [rescan EXCEPT !.at = "ok"] /\ served' = ~(rescanJob = "started" /\ stale)
      BY <1>4, <2>1 DEF PostCommand, RescanInv
    <2>2. CASE rescan' = [rescan EXCEPT !.at = "failed"] BY <1>4, <2>2 DEF PostCommand, RescanInv
    <2> QED BY <1>4, <2>1, <2>2 DEF PostCommand
  <1>5. ASSUME JobMoves PROVE RescanInv'
    <2>1. CASE rescan' = rescan BY <1>5, <2>1 DEF JobMoves, RescanInv
    <2>2. CASE rescan' = [rescan EXCEPT !.awaits = FALSE] BY <1>5, <2>2 DEF JobMoves, RescanInv
    <2> QED BY <1>5, <2>1, <2>2 DEF JobMoves
  <1>6. UNCHANGED <<rescan, rescanJob, stale, served, blind>> => RescanInv' BY DEF RescanInv
  <1> QED BY <1>1, <1>2, <1>3, <1>4, <1>5, <1>6

WalkRec == [at : {"idle", "pages", "failed", "done"}, page : Nat \ {0}, again : BOOLEAN, seen : SUBSET Items,
            busy : SUBSET Items, shrank : BOOLEAN]
\* What had an entry ever since was seen, or its entry is on a page still to come.
QueueInv ==
  /\ queue \in Seq(Items)
  /\ walk \in WalkRec
  /\ walk.at = "idle" => walk.page = 1 /\ walk.seen = {} /\ walk.busy = {}
  /\ walk.at = "pages" /\ ~walk.shrank =>
       \A i \in walk.busy \ walk.seen : \E k \in 1 .. Len(queue) : k > (walk.page - 1) * PageSize /\ queue[k] = i
  /\ walk.at = "done" => walk.busy \subseteq walk.seen \/ walk.shrank

\* What a part of a sequence is made of.
LEMMA PartIs ==
  ASSUME NEW S, NEW q \in Seq(S), NEW a \in Nat \ {0}, NEW b \in Nat, b <= Len(q)
  PROVE  /\ SubSeq(q, a, b) \in Seq(S) /\ Len(SubSeq(q, a, b)) = IF a <= b THEN b - a + 1 ELSE 0
         /\ a <= b => \A j \in 1 .. (b - a + 1) : SubSeq(q, a, b)[j] = q[a + j - 1]
  <1>1. SubSeq(q, a, b) \in Seq(S) OBVIOUS
  <1>2. Len(SubSeq(q, a, b)) = IF a <= b THEN b - a + 1 ELSE 0 OBVIOUS
  <1>3. a <= b => \A j \in 1 .. (b - a + 1) : SubSeq(q, a, b)[j] = q[a + j - 1] OBVIOUS
  <1> QED BY <1>1, <1>2, <1>3

\* A page holds the entries at its positions; a short one is the last.
LEMMA PageIs ==
  ASSUME queue \in Seq(Items), NEW k \in Nat \ {0}
  PROVE  /\ \A j \in 1 .. Len(queue) : j > (k - 1) * PageSize /\ j <= k * PageSize => queue[j] \in Range(pageOf(k))
         /\ Range(pageOf(k)) \subseteq Items
         /\ Len(pageOf(k)) < PageSize => Len(queue) <= k * PageSize
  <1>1. PageSize \in Nat \ {0} /\ Len(queue) \in Nat BY ArrAssumption
  <1>2. PICK from : from = (k - 1) * PageSize OBVIOUS
  <1>3. PICK last : last = k * PageSize OBVIOUS
  <1>4. from \in Nat /\ last = from + PageSize BY <1>1, <1>2, <1>3
  <1>5. PICK to : to = IF Len(queue) < last THEN Len(queue) ELSE last OBVIOUS
  <1>6. to \in Nat /\ to <= Len(queue) BY <1>1, <1>4, <1>5
  <1>7. PICK p : p = SubSeq(queue, from + 1, to) OBVIOUS
  <1>8. pageOf(k) = p BY <1>2, <1>3, <1>5, <1>7 DEF pageOf
  <1>9. PICK a : a = from + 1 OBVIOUS
  <1>10. a \in Nat \ {0} /\ p = SubSeq(queue, a, to) BY <1>4, <1>7, <1>9
  <1>11. /\ p \in Seq(Items) /\ Len(p) = IF a <= to THEN to - a + 1 ELSE 0
         /\ a <= to => \A j \in 1 .. (to - a + 1) : p[j] = queue[a + j - 1]
    BY <1>6, <1>10, PartIs
  <1>12. ASSUME NEW j \in 1 .. Len(queue), j > from, j <= last PROVE queue[j] \in Range(p)
    <2>1. j <= to /\ a <= to BY <1>1, <1>4, <1>5, <1>9, <1>12
    <2>2. PICK d : d = j - a + 1 OBVIOUS
    <2>3. d \in 1 .. (to - a + 1) /\ a + d - 1 = j BY <1>1, <1>4, <1>6, <1>9, <1>12, <2>1, <2>2
    <2>4. p[d] = queue[j] /\ d \in 1 .. Len(p) BY <1>11, <2>1, <2>3
    <2> QED BY <1>11, <2>4 DEF Range
  <1>13. Range(p) \subseteq Items BY <1>11 DEF Range
  <1>14. Len(p) < PageSize => Len(queue) <= last BY <1>1, <1>4, <1>5, <1>6, <1>9, <1>11
  <1> QED BY <1>2, <1>3, <1>8, <1>12, <1>13, <1>14

\* Queue: a page shows what it holds, and a walk that ends has passed every entry.
LEMMA QueuePageKeeps == ASSUME QueueInv, NEW r \in Reply, NEW totals \in BOOLEAN, QueuePage(r, totals) PROVE QueueInv'
  <1> USE DEF WalkRec
  <1>1. walk.at = "pages" /\ queue' = queue /\ queue \in Seq(Items) BY DEF QueuePage, QueueInv
  <1>2. PICK w : w = walk OBVIOUS
  <1>3. w \in WalkRec /\ w.at = "pages"
    BY <1>1, <1>2 DEF QueueInv
  <1>4. ~w.shrank => \A i \in w.busy \ w.seen : \E k \in 1 .. Len(queue) : k > (w.page - 1) * PageSize /\ queue[k] = i
    BY <1>2, <1>3 DEF QueueInv
  <1>5. CASE walk' = [walk EXCEPT !.again = TRUE]
    <2>1. walk' = [at |-> "pages", page |-> w.page, again |-> TRUE, seen |-> w.seen, busy |-> w.busy, shrank |-> w.shrank]
      BY <1>2, <1>3, <1>5
    <2>2. PICK u : u = walk' OBVIOUS
    <2> QED BY <1>1, <1>3, <1>4, <2>1, <2>2 DEF QueueInv
  <1>6. CASE walk' = [walk EXCEPT !.at = "failed"]
    <2>1. walk' = [at |-> "failed", page |-> w.page, again |-> w.again, seen |-> w.seen, busy |-> w.busy, shrank |-> w.shrank]
      BY <1>2, <1>3, <1>6
    <2> QED BY <1>1, <1>3, <2>1 DEF QueueInv
  <1>7. CASE walk' = [walk EXCEPT !.seen = @ \cup Range(pageOf(walk.page)), !.again = FALSE, !.page = @ + 1,
                                  !.at = IF lastPage(walk.page, IF totals THEN Len(queue) ELSE 0) THEN "done" ELSE @]
    <2>1. PICK entries : entries = Range(pageOf(w.page)) OBVIOUS
    <2>2. PICK total : total = IF totals THEN Len(queue) ELSE 0 OBVIOUS
    <2>3. PICK at : at = IF lastPage(w.page, total) THEN "done" ELSE "pages" OBVIOUS
    <2>4. walk' = [at |-> at, page |-> w.page + 1, again |-> FALSE, seen |-> w.seen \cup entries, busy |-> w.busy,
                   shrank |-> w.shrank]
      BY <1>2, <1>3, <1>7, <2>1, <2>2, <2>3
    <2>5. /\ \A j \in 1 .. Len(queue) : j > (w.page - 1) * PageSize /\ j <= w.page * PageSize => queue[j] \in entries
          /\ entries \subseteq Items
          /\ Len(pageOf(w.page)) < PageSize => Len(queue) <= w.page * PageSize
      BY <1>1, <1>3, <2>1, PageIs
    <2>6. PICK last : last = w.page * PageSize OBVIOUS
    <2>7. last \in Nat /\ Len(queue) \in Nat /\ (w.page + 1 - 1) * PageSize = last BY <1>1, <1>3, <2>6, ArrAssumption
    <2>8. at = "done" => Len(queue) <= last BY <1>1, <2>2, <2>3, <2>5, <2>6, <2>7 DEF lastPage
    <2>9. ~w.shrank => \A i \in w.busy \ (w.seen \cup entries) : \E k \in 1 .. Len(queue) : k > last /\ queue[k] = i
      BY <1>4, <2>5, <2>6, <2>7
    <2>10. at = "done" /\ ~w.shrank => w.busy \subseteq w.seen \cup entries BY <2>7, <2>8, <2>9
    <2>11. at \in {"done", "pages"} BY <2>3
    <2>12. w.page + 1 \in Nat \ {0} BY <1>3
    <2>13. walk' \in WalkRec
      BY <1>3, <2>4, <2>5, <2>11, <2>12
    <2>14. walk'.at = at /\ walk'.page = w.page + 1 /\ walk'.seen = w.seen \cup entries /\ walk'.busy = w.busy /\ walk'.shrank = w.shrank
      BY <2>4
    <2>15. walk'.page - 1 = w.page BY <1>3, <2>14
    <2>16. (walk'.page - 1) * PageSize = last BY <2>6, <2>15
    <2> QED BY <1>1, <2>9, <2>10, <2>11, <2>13, <2>14, <2>16 DEF QueueInv
  <1> QED BY <1>5, <1>6, <1>7 DEF QueuePage

\* Queue: it starts from the first page; one that never ends is refused; entries are
\* added behind the others, and one that leaves moves those behind it.
LEMMA QueueKeeps ==
  ASSUME QueueInv
  PROVE  /\ StartQueue => QueueInv'
         /\ TooManyPages => QueueInv'
         /\ \A i \in Items : Enqueued(i) => QueueInv'
         /\ \A k \in 1 .. Len(queue) : EntryLeaves(k) => QueueInv'
         /\ UNCHANGED <<queue, walk>> => QueueInv'
  <1> USE DEF WalkRec
  <1>1. PICK w : w = walk OBVIOUS
  <1>2. w \in WalkRec
    BY <1>1 DEF QueueInv
  <1>3. queue \in Seq(Items) /\ Len(queue) \in Nat BY DEF QueueInv
  <1>4. ASSUME StartQueue PROVE QueueInv'
    <2>1. walk' = [walk EXCEPT !.at = "pages", !.busy = Range(queue)] /\ queue' = queue /\ w.at = "idle" /\ w.page = 1 /\ w.seen = {}
      BY <1>1, <1>4 DEF StartQueue, QueueInv
    <2>2. walk' = [at |-> "pages", page |-> 1, again |-> w.again, seen |-> {}, busy |-> Range(queue), shrank |-> w.shrank]
      BY <1>1, <1>2, <2>1
    <2>3. Range(queue) \subseteq Items /\ \A i \in Range(queue) : \E k \in 1 .. Len(queue) : k > 0 /\ queue[k] = i
      BY <1>3 DEF Range
    <2>4. PICK busy : busy = Range(queue) OBVIOUS
    <2>5. walk' \in WalkRec
      BY <1>2, <2>2, <2>3, <2>4
    <2>6. walk'.at = "pages" /\ walk'.page - 1 = 0 /\ walk'.busy = busy BY <2>2, <2>4
    <2>7. (walk'.page - 1) * PageSize = 0 BY <2>6, ArrAssumption
    <2>8. \A i \in walk'.busy \ walk'.seen : \E k \in 1 .. Len(queue') : k > (walk'.page - 1) * PageSize /\ queue'[k] = i
      BY <2>1, <2>3, <2>4, <2>6, <2>7
    <2> QED BY <1>3, <2>1, <2>5, <2>6, <2>8 DEF QueueInv
  <1>5. ASSUME TooManyPages PROVE QueueInv'
    <2>1. walk' = [walk EXCEPT !.at = "failed"] /\ queue' = queue BY <1>5 DEF TooManyPages
    <2>2. walk' = [at |-> "failed", page |-> w.page, again |-> w.again, seen |-> w.seen, busy |-> w.busy, shrank |-> w.shrank]
      BY <1>1, <1>2, <2>1
    <2> QED BY <1>2, <1>3, <2>1, <2>2 DEF QueueInv
  <1>6. ASSUME NEW i \in Items, Enqueued(i) PROVE QueueInv'
    <2>1. queue' = Append(queue, i) /\ walk' = walk BY <1>6 DEF Enqueued
    <2>2. queue' \in Seq(Items) /\ Len(queue') = Len(queue) + 1 /\ \A k \in 1 .. Len(queue) : queue'[k] = queue[k]
      BY <1>3, <2>1
    <2>3. \A k \in 1 .. Len(queue) : k \in 1 .. Len(queue') BY <1>3, <2>2
    <2> QED BY <2>1, <2>2, <2>3 DEF QueueInv
  <1>7. ASSUME NEW k \in 1 .. Len(queue), EntryLeaves(k) PROVE QueueInv'
    <2>1. queue' = RemoveAt(queue, k) /\ walk' = [walk EXCEPT !.busy = @ \cap Range(queue'), !.shrank = (walk.at = "pages" \/ @)]
      BY <1>7 DEF EntryLeaves
    <2>2. queue' = SubSeq(queue, 1, k - 1) \o SubSeq(queue, k + 1, Len(queue)) BY <2>1 DEF RemoveAt
    <2>3. SubSeq(queue, 1, k - 1) \in Seq(Items)
      <3>1. k - 1 \in Nat /\ k - 1 <= Len(queue) /\ 1 \in Nat \ {0} BY <1>3
      <3> QED BY <1>3, <3>1, PartIs
    <2>4. SubSeq(queue, k + 1, Len(queue)) \in Seq(Items)
      <3>1. k + 1 \in Nat \ {0} BY <1>3
      <3> QED BY <1>3, <3>1, PartIs
    <2>5. queue' \in Seq(Items) BY <2>2, <2>3, <2>4
    <2>6. PICK busy : busy = w.busy \cap Range(queue') OBVIOUS
    <2>7. walk' = [at |-> w.at, page |-> w.page, again |-> w.again, seen |-> w.seen, busy |-> busy,
                   shrank |-> (w.at = "pages" \/ w.shrank)]
      BY <1>1, <1>2, <2>1, <2>6
    <2>8. busy \subseteq w.busy BY <2>6
    <2>9. w.at = "idle" => w.page = 1 /\ w.seen = {} /\ w.busy = {} BY <1>1 DEF QueueInv
    <2>10. w.at = "done" => w.busy \subseteq w.seen \/ w.shrank BY <1>1 DEF QueueInv
    <2>11. PICK sh : sh = (w.at = "pages" \/ w.shrank) OBVIOUS
    <2>12. sh \in BOOLEAN BY <1>2, <2>11
    <2>13. walk' \in WalkRec
      BY <1>2, <2>7, <2>8, <2>11, <2>12
    <2>14. walk'.at = w.at /\ walk'.page = w.page /\ walk'.seen = w.seen /\ walk'.busy = busy /\ walk'.shrank = sh
      BY <2>7, <2>11
    <2>15. w.at = "pages" => sh BY <2>11
    <2>16. w.at = "done" => (busy \subseteq w.seen \/ sh) BY <2>8, <2>10, <2>11
    <2>17. w.at = "idle" => busy = {} BY <2>8, <2>9
    <2> QED BY <2>5, <2>9, <2>13, <2>14, <2>15, <2>16, <2>17 DEF QueueInv
  <1>8. UNCHANGED <<queue, walk>> => QueueInv' BY DEF QueueInv
  <1> QED BY <1>4, <1>5, <1>6, <1>7, <1>8

-----------------------------------------------------------------------------
(* The applications: the theorem.                                          *)

ArrInv == TrackedInv /\ RescanInv /\ QueueInv

\* The queue is empty at first, or has an entry for each item.
LEMMA ReadsInitially == ASSUME ArrInit PROVE ArrInv
  <1> USE DEF WalkRec
  <1>1. RescanInv BY DEF ArrInit, RescanInv
  <1>2. SetToSeq(Items) \in Seq(Items)
    <2>1. Items = 1 .. Cardinality(Items) /\ Cardinality(Items) \in Nat BY ArrAssumption, FS_CardinalityType
    <2>2. [i \in 1 .. Cardinality(Items) |-> i] \in [1 .. Cardinality(Items) -> Items] BY <2>1
    <2>3. IsInjective([i \in 1 .. Cardinality(Items) |-> i]) BY DEF IsInjective
    <2>4. \E f \in [1 .. Cardinality(Items) -> Items] : IsInjective(f) BY <2>2, <2>3
    <2>5. SetToSeq(Items) \in [1 .. Cardinality(Items) -> Items] BY <2>4 DEF SetToSeq
    <2> QED BY <2>1, <2>5
  <1>3. queue \in Seq(Items)
    <2>1. queue = <<>> \/ queue = SetToSeq(Items) BY DEF ArrInit
    <2>2. <<>> \in Seq(Items) OBVIOUS
    <2> QED BY <1>2, <2>1, <2>2
  <1>4. walk = [at |-> "idle", page |-> 1, again |-> FALSE, seen |-> {}, busy |-> {}, shrank |-> FALSE]
    BY DEF ArrInit, NoWalk
  <1>5. QueueInv BY <1>3, <1>4 DEF QueueInv
  <1> QED BY <1>1, <1>5, ArrInitially DEF ArrInv

\* The call that lists the files, and what the instance does meanwhile.
LEMMA TrackedStep == ASSUME ArrInv, TrackedNext PROVE ArrInv'
  <1> USE DEF ArrInv
  <1>1. UNCHANGED <<rescan, rescanJob, stale, served, blind, queue, walk>>
    <2>1. \A f \in BOOLEAN : StartTracked(f) => UNCHANGED <<rescan, rescanJob, stale, served, blind, queue, walk>>
      BY DEF StartTracked
    <2>2. \A r \in Reply : ListItems(r) \/ ListTags(r) => UNCHANGED listVars BY Zenon DEF ListItems, ListTags
    <2>3. \A i \in Items : Ask(i) \/ SeriesDone(i) => UNCHANGED listVars BY Zenon DEF Ask, SeriesDone
    <2>4. \A i \in Items, r \in Reply : ListRows(i, r) \/ FileById(i, r) \/ ListEpisodes(i, r) => UNCHANGED listVars
      BY Zenon DEF ListRows, FileById, ListEpisodes
    <2>5. \A i \in Items, f \in 1 .. MaxFile, r \in Reply : ReadMissing(i, f, r) => UNCHANGED listVars
      BY Zenon DEF ReadMissing
    <2>6. ListingDone => UNCHANGED listVars BY Zenon DEF ListingDone
    <2>7. \A i \in Items : ItemDeleted(i) => UNCHANGED <<rescan, rescanJob, stale, served, blind, queue, walk>>
      BY DEF ItemDeleted, Elsewhere
    <2>8. \A i \in Items, e \in Episodes : FileDeleted(i, e) => UNCHANGED <<rescan, rescanJob, stale, served, blind, queue, walk>>
      BY DEF FileDeleted, Elsewhere
    <2>9. \A i \in Items, e \in Episodes, o \in BOOLEAN :
            Import(i, e, o) => UNCHANGED <<rescan, rescanJob, stale, served, blind, queue, walk>>
      BY DEF Import, Elsewhere
    <2>10. UNCHANGED listVars => UNCHANGED <<rescan, rescanJob, stale, served, blind, queue, walk>> BY DEF listVars
    <2> QED BY <2>1, <2>2, <2>3, <2>4, <2>5, <2>6, <2>7, <2>8, <2>9, <2>10, Zenon DEF TrackedNext
  <1>2. TrackedInv'
    <2>1. ASSUME NEW f, StartTracked(f) PROVE TrackedInv' BY <2>1, AskStarts
    <2>2. ASSUME NEW i \in Items, Ask(i) PROVE TrackedInv' BY <2>2, AskStarts
    <2>3. ASSUME NEW i \in Items, NEW e \in Episodes, FileDeleted(i, e) PROVE TrackedInv' BY <2>3, DeletedKeeps
    <2>4. ASSUME NEW i \in Items, ItemDeleted(i) PROVE TrackedInv' BY <2>4, DeletedKeeps
    <2>5. ASSUME NEW i \in Items, NEW e \in Episodes, NEW o \in BOOLEAN, Import(i, e, o) PROVE TrackedInv'
      BY <2>5, ImportKeeps
    <2>6. ASSUME NEW r \in Reply, ListItems(r) PROVE TrackedInv' BY <2>6, ListItemsKeeps
    <2>7. ASSUME NEW r \in Reply, ListTags(r) PROVE TrackedInv' BY <2>7, ListTagsKeeps
    <2>8. ASSUME NEW i \in Items, NEW r \in Reply, ListRows(i, r) PROVE TrackedInv' BY <2>8, ListRowsKeeps
    <2>9. ASSUME NEW i \in Items, NEW r \in Reply, FileById(i, r) PROVE TrackedInv' BY <2>9, FileByIdKeeps
    <2>10. ASSUME NEW i \in Items, NEW r \in Reply, ListEpisodes(i, r) PROVE TrackedInv' BY <2>10, ListEpisodesKeeps
    <2>11. ASSUME NEW i \in Items, NEW f \in 1 .. MaxFile, NEW r \in Reply, ReadMissing(i, f, r) PROVE TrackedInv'
      BY <2>11, ReadMissingKeeps
    <2>12. ASSUME NEW i \in Items, SeriesDone(i) PROVE TrackedInv' BY <2>12, SeriesDoneKeeps
    <2>13. ASSUME ListingDone PROVE TrackedInv' BY <2>13, ListingDoneKeeps
    <2> QED BY <2>1, <2>2, <2>3, <2>4, <2>5, <2>6, <2>7, <2>8, <2>9, <2>10, <2>11, <2>12, <2>13, Zenon DEF TrackedNext
  <1>3. RescanInv' BY <1>1, RescanKeeps
  <1>4. QueueInv' BY <1>1, QueueKeeps
  <1> QED BY <1>2, <1>3, <1>4

\* Rescans.
LEMMA RescanStep == ASSUME ArrInv, RescanNext PROVE ArrInv'
  <1>1. TrackedInv /\ RescanInv /\ QueueInv BY DEF ArrInv
  <1>2. ASSUME NEW i \in Items, NEW e \in Episodes, FileDeleted(i, e) PROVE ArrInv'
    <2>1. TrackedInv' BY <1>1, <1>2, DeletedKeeps
    <2>2. UNCHANGED <<rescan, rescanJob, stale, served, blind, queue, walk>> BY <1>2 DEF FileDeleted, Elsewhere
    <2>3. RescanInv' BY <1>1, <2>2, RescanKeeps
    <2>4. QueueInv' BY <1>1, <2>2, QueueKeeps
    <2> QED BY <2>1, <2>3, <2>4 DEF ArrInv
  <1>3. ASSUME StartRescan \/ (\E r \in Reply : ListCommands(r) \/ PollCommand(r) \/ PostCommand(r)) \/ JobMoves PROVE ArrInv'
    <2>1. RescanInv' BY <1>1, <1>3, RescanKeeps
    <2>2. UNCHANGED <<app, held, nextFile, call, ask, since, listed, queue, walk>>
      <3>1. StartRescan => UNCHANGED restVars BY Zenon DEF StartRescan
      <3>2. \A r \in Reply : ListCommands(r) \/ PollCommand(r) \/ PostCommand(r) => UNCHANGED restVars
        BY Zenon DEF ListCommands, PollCommand, PostCommand
      <3>3. JobMoves => UNCHANGED <<app, held, nextFile, call, ask, since, listed, queue, walk>> BY DEF JobMoves
      <3>4. UNCHANGED restVars => UNCHANGED <<app, held, nextFile, call, ask, since, listed, queue, walk>>
        BY DEF restVars
      <3> QED BY <1>3, <3>1, <3>2, <3>3, <3>4
    <2>3. TrackedInv' BY <1>1, <2>2, TrackedStays
    <2>4. QueueInv' BY <1>1, <2>2, QueueKeeps
    <2> QED BY <2>1, <2>3, <2>4 DEF ArrInv
  <1> QED BY <1>2, <1>3, Zenon DEF RescanNext

\* The download queue.
LEMMA QueueStep == ASSUME ArrInv, QueueNext PROVE ArrInv'
  <1>1. TrackedInv /\ RescanInv /\ QueueInv BY DEF ArrInv
  <1>2. QueueInv'
    <2>1. ASSUME NEW r \in Reply, NEW t \in BOOLEAN, QueuePage(r, t) PROVE QueueInv' BY <1>1, <2>1, QueuePageKeeps
    <2>2. ASSUME NEW i \in Items, Enqueued(i) PROVE QueueInv' BY <1>1, <2>2, QueueKeeps
    <2>3. ASSUME NEW k \in 1 .. Len(queue), EntryLeaves(k) PROVE QueueInv' BY <1>1, <2>3, QueueKeeps
    <2>4. StartQueue => QueueInv' BY <1>1, QueueKeeps
    <2>5. TooManyPages => QueueInv' BY <1>1, QueueKeeps
    <2> QED BY <2>1, <2>2, <2>3, <2>4, <2>5, Zenon DEF QueueNext
  <1>3. UNCHANGED queueRest
    <2>1. \A r \in Reply, t \in BOOLEAN : QueuePage(r, t) => UNCHANGED queueRest BY Zenon DEF QueuePage
    <2>2. \A i \in Items : Enqueued(i) => UNCHANGED queueRest BY Zenon DEF Enqueued
    <2>3. \A k \in 1 .. Len(queue) : EntryLeaves(k) => UNCHANGED queueRest BY Zenon DEF EntryLeaves
    <2>4. StartQueue => UNCHANGED queueRest BY Zenon DEF StartQueue
    <2>5. TooManyPages => UNCHANGED queueRest BY Zenon DEF TooManyPages
    <2> QED BY <2>1, <2>2, <2>3, <2>4, <2>5, Zenon DEF QueueNext
  <1>4. UNCHANGED <<app, held, nextFile, call, ask, since, listed, rescan, rescanJob, stale, served, blind>>
    BY <1>3 DEF queueRest
  <1>5. TrackedInv' BY <1>1, <1>4, TrackedStays
  <1>6. RescanInv' BY <1>1, <1>4, RescanKeeps
  <1> QED BY <1>2, <1>5, <1>6 DEF ArrInv

\* The other parts of the library leave the applications alone.
LEMMA OthersLeaveArr ==
  RecycleNext \/ GuardsNext \/ PathsNext \/ ScansNext \/ HistoryNext \/ DiscsNext \/ ListingNext => UNCHANGED arrVars
  <1>1. RecycleNext => UNCHANGED arrVars BY Zenon DEF RecycleNext, RecycleOnly
  <1>2. GuardsNext => UNCHANGED arrVars BY Zenon DEF GuardsNext, GuardsOnly
  <1>3. PathsNext => UNCHANGED arrVars BY Zenon DEF PathsNext, PathsOnly
  <1>4. ScansNext => UNCHANGED arrVars BY Zenon DEF ScansNext, ScansOnly
  <1>5. HistoryNext => UNCHANGED arrVars BY Zenon DEF HistoryNext, HistoryOnly
  <1>6. DiscsNext => UNCHANGED arrVars BY Zenon DEF DiscsNext, DiscsOnly
  <1>7. ListingNext => UNCHANGED arrVars BY Zenon DEF ListingNext, ListingOnly
  <1> QED BY <1>1, <1>2, <1>3, <1>4, <1>5, <1>6, <1>7

\* So every step of the library keeps the invariant.
LEMMA ArrStep == ArrInv /\ [LibraryNext]_libraryVars => ArrInv'
  <1> SUFFICES ASSUME ArrInv, [LibraryNext]_libraryVars PROVE ArrInv' OBVIOUS
  <1>1. CASE UNCHANGED arrVars
    <2>1. UNCHANGED <<app, held, nextFile, call, ask, since, listed, rescan, rescanJob, stale, served, blind, queue, walk>>
      BY <1>1 DEF arrVars
    <2>2. TrackedInv /\ RescanInv /\ QueueInv BY DEF ArrInv
    <2>3. TrackedInv' BY <2>1, <2>2, TrackedStays
    <2>4. RescanInv' BY <2>1, <2>2, RescanKeeps
    <2>5. QueueInv' BY <2>1, <2>2, QueueKeeps
    <2> QED BY <2>3, <2>4, <2>5 DEF ArrInv
  <1>2. UNCHANGED libraryVars => UNCHANGED arrVars BY DEF libraryVars
  <1> QED BY <1>1, <1>2, OthersLeaveArr, TrackedStep, RescanStep, QueueStep DEF LibraryNext

\* For any instance, imports, upgrades and deletions, and whatever requests fail: a
\* list of tracked files has every file that stayed, a queue every item that stayed
\* in it unless an entry left, and a rescan that succeeds is carried out by a command
\* that had not begun (TrackedFiles, Queue, Rescan of the arr clients).
THEOREM ReadsAreReliable == LibrarySpec => []ReadsHold
  <1>1. LibraryInit => ArrInv BY ReadsInitially DEF LibraryInit
  <1>2. ArrInv => ReadsHold
    <2> SUFFICES ASSUME ArrInv PROVE ReadsHold OBVIOUS
    <2>1. TrackedIsListed BY DEF ArrInv, TrackedInv, AskOK, TrackedIsListed
    <2>2. BusyIsSeen BY DEF ArrInv, QueueInv, BusyIsSeen
    <2>3. RescanSeesRemoval BY DEF ArrInv, RescanInv, RescanSeesRemoval
    <2> QED BY <2>1, <2>2, <2>3 DEF ReadsHold
  <1> QED BY <1>1, <1>2, ArrStep, PTL DEF LibrarySpec

-----------------------------------------------------------------------------
(* Listings: the inductive invariant.                                      *)

PageRec == [at : {"idle", "next", "whole", "failed"}, start : Nat, total : Nat \cup {-1}, again : BOOLEAN]
\* The rows before the offset were listed, or came after the listing began.
Passed(s, start, shown, new) ==
  start <= Len(s) /\ \A j \in 1 .. Len(s) : j <= start => s[j] \in shown \cup new

ListTypes ==
  /\ server.kind \in {"plex", "jellyfin"} /\ server.totals \in BOOLEAN /\ server.cap \in 1 .. AskedRows
  /\ shelf \in Seq(Shelved \cup Arriving) /\ page \in PageRec
  /\ stayed \subseteq Shelved /\ came \subseteq Arriving /\ left \in Nat
  /\ page.at = "idle" =>
       /\ page.start = 0 /\ page.total = -1 /\ rowsShown = {} /\ came = {} /\ left = 0 /\ shelf \in Seq(Shelved)
       /\ \A j, k \in 1 .. Len(shelf) : shelf[j] = shelf[k] => j = k

\* Arrivals only move rows away from the offset; departures are told by the total
\* of a Jellyfin server unless arrivals make up for them; without totals Plex is
\* listed until a page has nothing new.
ListInv ==
  /\ ListTypes
  /\ stayed \subseteq Range(shelf)
  /\ server.kind = "jellyfin" /\ page.total = -1 => page.start = 0
  /\ page.at \in {"idle", "next"} =>
       /\ left = 0 => Passed(shelf, page.start, rowsShown, came)
       /\ server.kind = "jellyfin" /\ came = {} =>
            /\ Passed(shelf, page.start, rowsShown, came) \/ Len(shelf) < page.total
            /\ page.total = -1 \/ Len(shelf) <= page.total
       /\ server.kind = "plex" /\ ~server.totals /\ left = 0 /\ came = {} =>
            /\ page.total = -1
            /\ \A j, k \in 1 .. Len(shelf) : shelf[j] = shelf[k] => j = k
            /\ \A r \in rowsShown : \E j \in 1 .. Len(shelf) : j <= page.start /\ shelf[j] = r
  /\ ListedWhole

-----------------------------------------------------------------------------
(* Listings: pages, arrivals and departures.                               *)

\* What two sequences are together.
LEMMA JoinIs ==
  ASSUME NEW S, NEW a \in Seq(S), NEW b \in Seq(S), NEW e, e = a \o b
  PROVE  /\ e \in Seq(S) /\ Len(e) = Len(a) + Len(b)
         /\ \A j \in 1 .. Len(a) : e[j] = a[j]
         /\ \A j \in 1 .. Len(b) : e[Len(a) + j] = b[j]
  <1>1. e \in Seq(S) OBVIOUS
  <1>2. Len(e) = Len(a) + Len(b) OBVIOUS
  <1>3. \A j \in 1 .. Len(a) + Len(b) : e[j] = IF j <= Len(a) THEN a[j] ELSE b[j - Len(a)] OBVIOUS
  <1>4. \A j \in 1 .. Len(a) : e[j] = a[j] BY <1>3
  <1>5. ASSUME NEW j \in 1 .. Len(b) PROVE e[Len(a) + j] = b[j]
    <2>1. PICK m : m = Len(a) + j OBVIOUS
    <2>2. m \in 1 .. Len(a) + Len(b) /\ ~(m <= Len(a)) /\ m - Len(a) = j BY <2>1
    <2>3. e[m] = b[m - Len(a)] BY <1>3, <2>2
    <2> QED BY <2>1, <2>2, <2>3
  <1> QED BY <1>1, <1>2, <1>4, <1>5

\* A row that is put at a place moves those from there on by one.
LEMMA InsertIs ==
  ASSUME NEW S, NEW q \in Seq(S), NEW k \in 1 .. Len(q) + 1, NEW r \in S
  PROVE  /\ InsertAt(q, k, r) \in Seq(S) /\ Len(InsertAt(q, k, r)) = Len(q) + 1
         /\ \A j \in 1 .. Len(q) + 1 :
              InsertAt(q, k, r)[j] = IF j < k THEN q[j] ELSE IF j = k THEN r ELSE q[j - 1]
  <1>1. Len(q) \in Nat OBVIOUS
  <1>2. PICK a : a = SubSeq(q, 1, k - 1) OBVIOUS
  <1>3. PICK c : c = SubSeq(q, k, Len(q)) OBVIOUS
  <1>4. a \in Seq(S) /\ Len(a) = k - 1 /\ \A j \in 1 .. k - 1 : a[j] = q[j]
    <2>1. PICK b : b = k - 1 OBVIOUS
    <2>2. b \in Nat /\ b <= Len(q) /\ 1 \in Nat \ {0} BY <1>1, <2>1
    <2>3. /\ a \in Seq(S) /\ Len(a) = IF 1 <= b THEN b - 1 + 1 ELSE 0
          /\ 1 <= b => \A j \in 1 .. (b - 1 + 1) : a[j] = q[1 + j - 1]
      BY <1>2, <2>1, <2>2, PartIs
    <2> QED BY <2>1, <2>2, <2>3
  <1>5. c \in Seq(S) /\ Len(c) = Len(q) - k + 1 /\ \A j \in 1 .. Len(q) - k + 1 : c[j] = q[k + j - 1]
    <2>1. k \in Nat \ {0} BY <1>1
    <2>2. /\ c \in Seq(S) /\ Len(c) = IF k <= Len(q) THEN Len(q) - k + 1 ELSE 0
          /\ k <= Len(q) => \A j \in 1 .. (Len(q) - k + 1) : c[j] = q[k + j - 1]
      BY <1>1, <1>3, <2>1, PartIs
    <2> QED BY <1>1, <2>1, <2>2
  <1>6. PICK d : d = a \o <<r>> OBVIOUS
  <1>7. d \in Seq(S) /\ Len(d) = k /\ \A j \in 1 .. k : d[j] = IF j < k THEN q[j] ELSE r
    BY <1>1, <1>4, <1>6
  <1>8. PICK e : e = d \o c OBVIOUS
  <1>9. InsertAt(q, k, r) = e BY <1>2, <1>3, <1>6, <1>8 DEF InsertAt
  <1>10. /\ e \in Seq(S) /\ Len(e) = Len(d) + Len(c)
         /\ \A j \in 1 .. Len(d) : e[j] = d[j]
         /\ \A j \in 1 .. Len(c) : e[Len(d) + j] = c[j]
    BY <1>5, <1>7, <1>8, JoinIs
  <1>11. ASSUME NEW j \in 1 .. Len(q) + 1, j <= k
         PROVE  e[j] = IF j < k THEN q[j] ELSE IF j = k THEN r ELSE q[j - 1]
    <2>1. e[j] = d[j] /\ j \in 1 .. k BY <1>1, <1>7, <1>10, <1>11
    <2> QED BY <1>7, <1>11, <2>1
  <1>12. ASSUME NEW j \in 1 .. Len(q) + 1, j > k
         PROVE  e[j] = IF j < k THEN q[j] ELSE IF j = k THEN r ELSE q[j - 1]
    <2>1. PICK m : m = j - k OBVIOUS
    <2>2. m \in 1 .. Len(q) - k + 1 /\ k + m - 1 = j - 1 /\ k + m = j BY <1>1, <1>12, <2>1
    <2>3. c[m] = q[k + m - 1] BY <1>5, <2>2
    <2>4. e[k + m] = c[m] BY <1>5, <1>7, <1>10, <2>2
    <2> QED BY <1>1, <1>12, <2>2, <2>3, <2>4
  <1>13. \A j \in 1 .. Len(q) + 1 : j <= k \/ j > k BY <1>1
  <1>14. Len(e) = Len(q) + 1 BY <1>1, <1>5, <1>7, <1>10
  <1> QED BY <1>9, <1>10, <1>11, <1>12, <1>13, <1>14

\* A row that leaves moves those behind it.
LEMMA RemoveIs ==
  ASSUME NEW S, NEW q \in Seq(S), NEW k \in 1 .. Len(q)
  PROVE  /\ RemoveAt(q, k) \in Seq(S) /\ Len(RemoveAt(q, k)) = Len(q) - 1
         /\ \A j \in 1 .. Len(q) - 1 : RemoveAt(q, k)[j] = IF j < k THEN q[j] ELSE q[j + 1]
  <1>1. Len(q) \in Nat OBVIOUS
  <1>2. PICK a : a = SubSeq(q, 1, k - 1) OBVIOUS
  <1>3. PICK c : c = SubSeq(q, k + 1, Len(q)) OBVIOUS
  <1>4. a \in Seq(S) /\ Len(a) = k - 1 /\ \A j \in 1 .. k - 1 : a[j] = q[j]
    <2>1. PICK b : b = k - 1 OBVIOUS
    <2>2. b \in Nat /\ b <= Len(q) /\ 1 \in Nat \ {0} BY <1>1, <2>1
    <2>3. /\ a \in Seq(S) /\ Len(a) = IF 1 <= b THEN b - 1 + 1 ELSE 0
          /\ 1 <= b => \A j \in 1 .. (b - 1 + 1) : a[j] = q[1 + j - 1]
      BY <1>2, <2>1, <2>2, PartIs
    <2> QED BY <2>1, <2>2, <2>3
  <1>5. c \in Seq(S) /\ Len(c) = Len(q) - k /\ \A j \in 1 .. Len(q) - k : c[j] = q[k + j]
    <2>1. PICK b : b = k + 1 OBVIOUS
    <2>2. b \in Nat \ {0} /\ c = SubSeq(q, b, Len(q)) BY <1>1, <1>3, <2>1
    <2>3. /\ c \in Seq(S) /\ Len(c) = IF b <= Len(q) THEN Len(q) - b + 1 ELSE 0
          /\ b <= Len(q) => \A j \in 1 .. (Len(q) - b + 1) : c[j] = q[b + j - 1]
      BY <1>1, <2>2, PartIs
    <2>4. ASSUME NEW j \in 1 .. Len(q) - k PROVE c[j] = q[k + j]
      <3>1. b <= Len(q) /\ j \in 1 .. (Len(q) - b + 1) /\ b + j - 1 = k + j BY <1>1, <2>1
      <3>2. c[j] = q[b + j - 1] BY <2>3, <3>1
      <3> QED BY <3>1, <3>2
    <2>5. Len(c) = Len(q) - k BY <1>1, <2>1, <2>3
    <2> QED BY <2>3, <2>4, <2>5
  <1>6. PICK e : e = a \o c OBVIOUS
  <1>7. RemoveAt(q, k) = e BY <1>2, <1>3, <1>6 DEF RemoveAt
  <1>8. /\ e \in Seq(S) /\ Len(e) = Len(a) + Len(c)
        /\ \A j \in 1 .. Len(a) : e[j] = a[j]
        /\ \A j \in 1 .. Len(c) : e[Len(a) + j] = c[j]
    <2>1. a \in Seq(S) BY <1>4
    <2>2. c \in Seq(S) BY <1>5
    <2> QED BY <1>6, <2>1, <2>2, JoinIs
  <1>9. ASSUME NEW j \in 1 .. Len(q) - 1, j < k PROVE e[j] = IF j < k THEN q[j] ELSE q[j + 1]
    <2>1. e[j] = a[j] /\ j \in 1 .. k - 1 BY <1>1, <1>4, <1>8, <1>9
    <2> QED BY <1>4, <1>9, <2>1
  <1>10. ASSUME NEW j \in 1 .. Len(q) - 1, j >= k PROVE e[j] = IF j < k THEN q[j] ELSE q[j + 1]
    <2>1. PICK m : m = j - (k - 1) OBVIOUS
    <2>2. m \in 1 .. Len(q) - k /\ k + m = j + 1 /\ k - 1 + m = j BY <1>1, <1>10, <2>1
    <2>3. c[m] = q[k + m] BY <1>5, <2>2
    <2>4. e[k - 1 + m] = c[m] BY <1>4, <1>5, <1>8, <2>2
    <2> QED BY <1>1, <1>10, <2>2, <2>3, <2>4
  <1>11. \A j \in 1 .. Len(q) - 1 : j < k \/ j >= k BY <1>1
  <1>12. Len(e) = Len(q) - 1 BY <1>1, <1>4, <1>5, <1>8
  <1> QED BY <1>7, <1>8, <1>9, <1>10, <1>11, <1>12

\* A page: the rows from the offset on, at least one if there is any.
LEMMA CutIs ==
  ASSUME ListTypes
  PROVE  /\ Len(cutOut) \in Nat /\ (cutOut = <<>> <=> Len(cutOut) = 0)
         /\ \A j \in 1 .. Len(shelf) : j > page.start /\ j <= page.start + Len(cutOut) => shelf[j] \in Range(cutOut)
         /\ \A r \in Range(cutOut) :
              \E j \in 1 .. Len(shelf) : j > page.start /\ j <= page.start + Len(cutOut) /\ shelf[j] = r
         /\ Len(cutOut) > 0 => page.start + Len(cutOut) <= Len(shelf)
         /\ Len(cutOut) = 0 => Len(shelf) <= page.start
  <1>1. PICK start : start = page.start OBVIOUS
  <1>2. PICK step : step = Least2(AskedRows, server.cap) OBVIOUS
  <1>3. start \in Nat /\ step \in Nat \ {0}
    BY <1>1, <1>2, ListingAssumption DEF ListTypes, PageRec, Least2
  <1>4. shelf \in Seq(Shelved \cup Arriving) /\ Len(shelf) \in Nat BY DEF ListTypes
  <1>5. PICK b : b = Least2(Len(shelf), start + step) OBVIOUS
  <1>6. b \in Nat /\ b <= Len(shelf) /\ b <= start + step /\ (b = Len(shelf) \/ b = start + step)
    BY <1>3, <1>4, <1>5 DEF Least2
  <1>7. PICK a : a = start + 1 OBVIOUS
  <1>8. a \in Nat \ {0} BY <1>3, <1>7
  <1>9. PICK p : p = SubSeq(shelf, a, b) OBVIOUS
  <1>10. cutOut = p BY <1>1, <1>2, <1>5, <1>7, <1>9 DEF cutOut
  <1>11. /\ p \in Seq(Shelved \cup Arriving) /\ Len(p) = IF a <= b THEN b - a + 1 ELSE 0
         /\ a <= b => \A j \in 1 .. (b - a + 1) : p[j] = shelf[a + j - 1]
    BY <1>4, <1>6, <1>8, <1>9, PartIs
  <1>12. Len(p) \in Nat /\ (p = <<>> <=> Len(p) = 0) BY <1>11
  <1>13. Len(p) > 0 => a <= b /\ start + Len(p) = b BY <1>3, <1>6, <1>7, <1>11
  <1>14. Len(p) = 0 => Len(shelf) <= start BY <1>3, <1>4, <1>6, <1>7, <1>11
  <1>15. ASSUME NEW j \in 1 .. Len(shelf), j > start, j <= start + Len(p) PROVE shelf[j] \in Range(p)
    <2>1. PICK m : m = j - start OBVIOUS
    <2>2. m \in 1 .. Len(p) /\ a + m - 1 = j /\ Len(p) > 0 BY <1>3, <1>4, <1>7, <1>12, <1>15, <2>1
    <2>3. m \in 1 .. (b - a + 1) BY <1>11, <1>13, <2>2
    <2>4. p[m] = shelf[j] BY <1>11, <1>13, <2>2, <2>3
    <2> QED BY <1>11, <2>2, <2>4 DEF Range
  <1>16. ASSUME NEW r \in Range(p) PROVE \E j \in 1 .. Len(shelf) : j > start /\ j <= start + Len(p) /\ shelf[j] = r
    <2>1. PICK m \in 1 .. Len(p) : p[m] = r BY <1>11 DEF Range
    <2>2. PICK j : j = start + m OBVIOUS
    <2>3. Len(p) > 0 /\ a + m - 1 = j /\ j > start /\ j <= start + Len(p) BY <1>3, <1>7, <1>12, <2>2
    <2>4. j \in 1 .. Len(shelf) BY <1>3, <1>4, <1>6, <1>12, <1>13, <2>2, <2>3
    <2>5. shelf[j] = r BY <1>11, <1>13, <2>1, <2>3
    <2> QED BY <2>3, <2>4, <2>5
  <1>17. Len(p) > 0 => start + Len(p) <= Len(shelf) BY <1>4, <1>6, <1>13
  <1> QED BY <1>1, <1>10, <1>12, <1>14, <1>15, <1>16, <1>17

-----------------------------------------------------------------------------
(* Listings: every step keeps it.                                          *)

\* Numbers: the one of two.
LEMMA OneOfTwo ==
  \A a, b \in Int : Most2(a, b) \in {a, b} /\ a <= Most2(a, b) /\ b <= Most2(a, b)
  BY DEF Most2

\* The shelf at first: every row once.
LEMMA ListInitially == ASSUME ListingInit PROVE ListInv
  <1>1. SetToSeq(Shelved) \in Seq(Shelved)
        /\ \A j, k \in 1 .. Len(SetToSeq(Shelved)) : SetToSeq(Shelved)[j] = SetToSeq(Shelved)[k] => j = k
    <2>1. Cardinality(Shelved) \in Nat /\ Injection(1 .. Cardinality(Shelved), Shelved) # {}
      BY ListingAssumption, FS_CardinalityType DEF ExistsBijection, Bijection
    <2>2. \E f \in [1 .. Cardinality(Shelved) -> Shelved] : IsInjective(f)
      BY <2>1 DEF Injection, IsInjective
    <2>3. SetToSeq(Shelved) \in [1 .. Cardinality(Shelved) -> Shelved] /\ IsInjective(SetToSeq(Shelved))
      BY <2>2 DEF SetToSeq
    <2>4. PICK f : f = SetToSeq(Shelved) OBVIOUS
    <2>5. f \in Seq(Shelved) /\ Len(f) = Cardinality(Shelved) BY <2>1, <2>3, <2>4
    <2>6. \A j, k \in 1 .. Len(f) : f[j] = f[k] => j = k BY <2>1, <2>3, <2>4, <2>5 DEF IsInjective
    <2> QED BY <2>4, <2>5, <2>6
  <1>2. shelf = SetToSeq(Shelved) BY DEF ListingInit
  <1>3. shelf \in Seq(Shelved) /\ \A j, k \in 1 .. Len(shelf) : shelf[j] = shelf[k] => j = k BY <1>1, <1>2
  <1>4. shelf \in Seq(Shelved \cup Arriving) BY <1>3
  <1>5. page = [at |-> "idle", start |-> 0, total |-> -1, again |-> FALSE] /\ rowsShown = {} /\ stayed = {} /\ came = {} /\ left = 0
    BY DEF ListingInit
  <1>6. page \in PageRec /\ page.at = "idle" /\ page.start = 0 /\ page.total = -1 BY <1>5 DEF PageRec
  <1>7. server.kind \in {"plex", "jellyfin"} /\ server.totals \in BOOLEAN /\ server.cap \in 1 .. AskedRows
    BY DEF ListingInit
  <1>8. ListTypes BY <1>3, <1>4, <1>5, <1>6, <1>7 DEF ListTypes
  <1>9. Passed(shelf, page.start, rowsShown, came) BY <1>4, <1>6 DEF Passed
  <1> HIDE DEF ListingInit
  <1> QED BY <1>3, <1>5, <1>6, <1>8, <1>9 DEF ListInv, ListedWhole

\* The listing goes on: the page changes, the rows do not.
LEMMA PageGoesOn ==
  ASSUME ListInv, UNCHANGED worldVars, page.at = "next", page' \in PageRec, page'.at # "idle",
         page'.at = "next" =>
           /\ server.kind = "jellyfin" /\ page'.total = -1 => page'.start = 0
           /\ left = 0 => Passed(shelf, page'.start, rowsShown', came)
           /\ server.kind = "jellyfin" /\ came = {} =>
                /\ Passed(shelf, page'.start, rowsShown', came) \/ Len(shelf) < page'.total
                /\ page'.total = -1 \/ Len(shelf) <= page'.total
           /\ server.kind = "plex" /\ ~server.totals /\ left = 0 /\ came = {} =>
                /\ page'.total = -1
                /\ \A r \in rowsShown' : \E j \in 1 .. Len(shelf) : j <= page'.start /\ shelf[j] = r,
         page'.at # "next" => page'.start = page.start /\ page'.total = page.total,
         page'.at = "whole" =>
           \/ stayed \subseteq rowsShown'
           \/ server.kind = "plex" /\ (left > 0 \/ (~server.totals /\ came # {}))
           \/ server.kind = "jellyfin" /\ left > 0 /\ came # {}
  PROVE  ListInv'
  <1>1. UNCHANGED <<server, shelf, stayed, came, left>> BY DEF worldVars
  <1>2. ListTypes' BY <1>1 DEF ListInv, ListTypes
  <1>3. ListedWhole' BY <1>1 DEF ListedWhole
  <1>4. server.kind = "plex" /\ ~server.totals /\ left = 0 /\ came = {} =>
          \A j, k \in 1 .. Len(shelf) : shelf[j] = shelf[k] => j = k
    BY DEF ListInv
  <1>5. server.kind = "jellyfin" /\ page'.total = -1 => page'.start = 0 BY DEF ListInv
  <1> QED BY <1>1, <1>2, <1>3, <1>4, <1>5 DEF ListInv

\* What has passed all rows has every row that stayed.
LEMMA PassedAll ==
  ASSUME ListInv, NEW start \in Nat, NEW rows, Passed(shelf, start, rows, came), Len(shelf) <= start
  PROVE  stayed \subseteq rows
  <1>1. stayed \cap came = {} BY ListingAssumption DEF ListInv, ListTypes
  <1>2. ASSUME NEW r \in stayed PROVE r \in rows
    <2>1. PICK j \in 1 .. Len(shelf) : shelf[j] = r BY DEF ListInv, ListTypes, Range
    <2>2. Len(shelf) \in Nat BY DEF ListInv, ListTypes
    <2>3. j <= start BY <2>2
    <2> QED BY <1>1, <2>1, <2>3 DEF Passed
  <1> QED BY <1>2

\* A listing that fails, or repeats a request.
LEMMA FailRepeats ==
  ASSUME ListInv, UNCHANGED worldVars, page.at = "next", rowsShown' = rowsShown,
         page' = [page EXCEPT !.at = "failed"] \/ page' = [page EXCEPT !.again = TRUE]
  PROVE  ListInv'
  <1>1. PICK p : p = page OBVIOUS
  <1>2. p \in PageRec /\ p.at = "next" BY <1>1 DEF ListInv, ListTypes
  <1>3. \/ page' = [at |-> "failed", start |-> p.start, total |-> p.total, again |-> p.again]
        \/ page' = [at |-> "next", start |-> p.start, total |-> p.total, again |-> TRUE]
    BY <1>1, <1>2 DEF PageRec
  <1>4. page' \in PageRec /\ page'.at \in {"failed", "next"} /\ page'.start = p.start /\ page'.total = p.total
    <2>1. PICK u : u = page' OBVIOUS
    <2>2. CASE u = [at |-> "failed", start |-> p.start, total |-> p.total, again |-> p.again]
      BY <1>2, <2>1, <2>2 DEF PageRec
    <2>3. CASE u = [at |-> "next", start |-> p.start, total |-> p.total, again |-> TRUE]
      BY <1>2, <2>1, <2>3 DEF PageRec
    <2> QED BY <1>3, <2>1, <2>2, <2>3
  <1>5. /\ server.kind = "jellyfin" /\ page'.total = -1 => page'.start = 0
        /\ left = 0 => Passed(shelf, page'.start, rowsShown', came)
        /\ server.kind = "jellyfin" /\ came = {} =>
             /\ Passed(shelf, page'.start, rowsShown', came) \/ Len(shelf) < page'.total
             /\ page'.total = -1 \/ Len(shelf) <= page'.total
    BY <1>1, <1>2, <1>4 DEF ListInv
  <1>6. server.kind = "plex" /\ ~server.totals /\ left = 0 /\ came = {} =>
          /\ page'.total = -1
          /\ \A r \in rowsShown' : \E j \in 1 .. Len(shelf) : j <= page'.start /\ shelf[j] = r
    BY <1>1, <1>2, <1>4 DEF ListInv
  <1> QED BY <1>1, <1>4, <1>5, <1>6, PageGoesOn

\* A listing that is taken for complete.
LEMMA WholeEnds ==
  ASSUME ListInv, UNCHANGED worldVars, page.at = "next", NEW rows, Whole(rows),
         \/ stayed \subseteq rows
         \/ server.kind = "plex" /\ (left > 0 \/ (~server.totals /\ came # {}))
         \/ server.kind = "jellyfin" /\ left > 0 /\ came # {}
  PROVE  ListInv'
  <1>1. PICK p : p = page OBVIOUS
  <1>2. p \in PageRec /\ p.at = "next" BY <1>1 DEF ListInv, ListTypes
  <1>3. page' = [at |-> "whole", start |-> p.start, total |-> p.total, again |-> p.again] /\ rowsShown' = rows
    BY <1>1, <1>2 DEF PageRec, Whole
  <1>4. PICK u : u = page' OBVIOUS
  <1>5. u \in PageRec /\ u.at = "whole" /\ u.start = p.start /\ u.total = p.total BY <1>2, <1>3, <1>4 DEF PageRec
  <1> QED BY <1>1, <1>3, <1>4, <1>5, PageGoesOn

\* Failures that end the listing.
LEMMA FailEnds == ASSUME ListInv, UNCHANGED worldVars, page.at = "next", Fail PROVE ListInv'
  BY FailRepeats DEF Fail

\* The rows of a page are passed by the offset behind it.
LEMMA PassesPage ==
  ASSUME ListInv, Passed(shelf, page.start, rowsShown, came), Len(cutOut) > 0
  PROVE  Passed(shelf, page.start + Len(cutOut), rowsShown \cup Range(cutOut), came)
  <1>1. PICK n : n = Len(cutOut) OBVIOUS
  <1>2. PICK rows : rows = Range(cutOut) OBVIOUS
  <1>3. PICK start : start = page.start OBVIOUS
  <1>4. /\ n \in Nat
        /\ \A j \in 1 .. Len(shelf) : j > start /\ j <= start + n => shelf[j] \in rows
        /\ start + n <= Len(shelf)
    BY <1>1, <1>2, <1>3, CutIs DEF ListInv
  <1>5. start \in Nat /\ Len(shelf) \in Nat BY <1>3 DEF ListInv, ListTypes, PageRec
  <1>6. \A j \in 1 .. Len(shelf) : j <= start => shelf[j] \in rowsShown \cup came BY <1>3 DEF Passed
  <1>7. \A j \in 1 .. Len(shelf) : j <= start + n => shelf[j] \in (rowsShown \cup rows) \cup came
    BY <1>4, <1>5, <1>6
  <1> QED BY <1>1, <1>2, <1>3, <1>4, <1>7 DEF Passed

\* A request that fails, and starting.
LEMMA StartsKeep == ASSUME ListInv PROVE (getJSON => ListInv') /\ (StartListing => ListInv')
  <1>1. ASSUME getJSON PROVE ListInv'
    BY <1>1, FailRepeats DEF getJSON
  <1>2. ASSUME StartListing PROVE ListInv'
    <2>1. /\ page.at = "idle" /\ page' = [page EXCEPT !.at = "next"] /\ stayed' = Range(shelf)
          /\ UNCHANGED <<server, shelf, rowsShown, came, left>>
      BY <1>2 DEF StartListing
    <2>2. PICK p : p = page OBVIOUS
    <2>3. p \in PageRec /\ p.at = "idle" /\ p.start = 0 /\ p.total = -1 /\ rowsShown = {} /\ came = {} /\ left = 0
          /\ shelf \in Seq(Shelved) /\ \A j, k \in 1 .. Len(shelf) : shelf[j] = shelf[k] => j = k
      BY <2>1, <2>2 DEF ListInv, ListTypes
    <2>4. page' = [at |-> "next", start |-> 0, total |-> -1, again |-> p.again] BY <2>1, <2>2, <2>3 DEF PageRec
    <2>5. PICK u : u = page' OBVIOUS
    <2>6. u \in PageRec /\ u.at = "next" /\ u.start = 0 /\ u.total = -1 BY <2>3, <2>4, <2>5 DEF PageRec
    <2>7. Range(shelf) \subseteq Shelved BY <2>3 DEF Range
    <2>8. ListTypes' BY <2>1, <2>5, <2>6, <2>7 DEF ListInv, ListTypes
    <2>9. Passed(shelf, 0, {}, {}) BY <2>3 DEF Passed
    <2>10. ListedWhole' BY <2>5, <2>6 DEF ListedWhole
    <2> QED BY <2>1, <2>3, <2>5, <2>6, <2>8, <2>9, <2>10 DEF ListInv
  <1> QED BY <1>1, <1>2

\* PlexEmptyPage: the total, or the end of the rows.
LEMMA EmptyPageKeeps == ASSUME ListInv, NEW early \in BOOLEAN, PlexEmptyPage(early) PROVE ListInv'
  <1>1. page.at = "next" /\ server.kind = "plex" /\ UNCHANGED worldVars BY DEF PlexEmptyPage
  <1>2. CASE Fail BY <1>1, <1>2, FailEnds
  <1>3. CASE ~(containerTotal > page.start) /\ Whole(rowsShown)
    <2>1. page.start \in Nat /\ Len(shelf) \in Nat /\ server.totals \in BOOLEAN BY DEF ListInv, ListTypes, PageRec
    <2>2. Len(shelf) <= page.start
      <3>1. CASE server.totals BY <1>3, <2>1, <3>1 DEF containerTotal
      <3>2. CASE ~server.totals
        <4>1. cutOut = <<>> BY <3>2 DEF PlexEmptyPage
        <4> QED BY <4>1, CutIs DEF ListInv
      <3> QED BY <3>1, <3>2
    <2>3. CASE left = 0
      <3>1. Passed(shelf, page.start, rowsShown, came) BY <1>1, <2>3 DEF ListInv
      <3>2. stayed \subseteq rowsShown BY <2>1, <2>2, <3>1, PassedAll
      <3> QED BY <1>1, <1>3, <3>2, WholeEnds
    <2>4. CASE left > 0 BY <1>1, <1>3, <2>4, WholeEnds
    <2>5. left \in Nat BY DEF ListInv, ListTypes
    <2> QED BY <2>3, <2>4, <2>5
  <1> QED BY <1>2, <1>3 DEF PlexEmptyPage

\* PlexPage: the total, or a page with nothing new.
LEMMA PlexPageKeeps == ASSUME ListInv, PlexPage PROVE ListInv'
  <1>1. page.at = "next" /\ server.kind = "plex" /\ UNCHANGED worldVars /\ cutOut # <<>> BY DEF PlexPage
  <1>2. PICK rows : rows = Range(cutOut) OBVIOUS
  <1>3. PICK end : end = page.start + Len(cutOut) OBVIOUS
  <1>4. PICK total : total = usableTotal(end, containerTotal) OBVIOUS
  <1>5. /\ page.start \in Nat /\ Len(shelf) \in Nat /\ server.totals \in BOOLEAN /\ left \in Nat /\ page.total \in Nat \cup {-1}
        /\ page \in PageRec
    BY DEF ListInv, ListTypes, PageRec
  <1>6. /\ Len(cutOut) \in Nat /\ Len(cutOut) > 0 /\ end <= Len(shelf)
        /\ \A r \in rows : \E j \in 1 .. Len(shelf) : j > page.start /\ j <= end /\ shelf[j] = r
        /\ \A j \in 1 .. Len(shelf) : j > page.start /\ j <= end => shelf[j] \in rows
    BY <1>1, <1>2, <1>3, CutIs DEF ListInv
  <1>7. end \in Nat BY <1>3, <1>5, <1>6
  <1>8. total = IF server.totals THEN Len(shelf) ELSE -1 BY <1>4, <1>5, <1>6, <1>7 DEF usableTotal, containerTotal
  <1>9. left = 0 => Passed(shelf, page.start, rowsShown, came) /\ Passed(shelf, end, rowsShown \cup rows, came)
    <2> SUFFICES ASSUME left = 0 PROVE Passed(shelf, page.start, rowsShown, came) /\ Passed(shelf, end, rowsShown \cup rows, came)
      OBVIOUS
    <2>1. Passed(shelf, page.start, rowsShown, came) BY <1>1 DEF ListInv
    <2> QED BY <1>2, <1>3, <1>6, <2>1, PassesPage
  <1>10. CASE Fail BY <1>1, <1>10, FailEnds
  <1>11. CASE total >= 0 /\ end >= total /\ Whole(rowsShown \cup rows)
    <2>1. Len(shelf) <= end BY <1>8, <1>11
    <2>2. left = 0 => stayed \subseteq rowsShown \cup rows BY <1>7, <1>9, <2>1, PassedAll
    <2> QED BY <1>1, <1>5, <1>11, <2>2, WholeEnds
  <1>12. CASE rows \subseteq rowsShown /\ total < 0 /\ Whole(rowsShown)
    <2>1. ~server.totals BY <1>5, <1>8, <1>12
    <2>2. ~(left = 0 /\ came = {})
      <3> SUFFICES ASSUME left = 0, came = {} PROVE FALSE OBVIOUS
      <3>1. /\ \A j, k \in 1 .. Len(shelf) : shelf[j] = shelf[k] => j = k
            /\ \A r \in rowsShown : \E j \in 1 .. Len(shelf) : j <= page.start /\ shelf[j] = r
        BY <1>1, <2>1 DEF ListInv
      <3>2. PICK j : j = page.start + 1 OBVIOUS
      <3>3. j \in 1 .. Len(shelf) /\ j > page.start /\ j <= end BY <1>3, <1>5, <1>6, <3>2
      <3>4. shelf[j] \in rowsShown BY <1>6, <1>12, <3>3
      <3>5. PICK k \in 1 .. Len(shelf) : k <= page.start /\ shelf[k] = shelf[j] BY <3>1, <3>4
      <3>6. k = j BY <3>1, <3>3, <3>5
      <3> QED BY <1>5, <3>3, <3>5, <3>6
    <2> QED BY <1>1, <1>5, <1>12, <2>1, <2>2, WholeEnds
  <1>13. CASE /\ page' = [page EXCEPT !.start = end, !.total = Most2(@, containerTotal), !.again = FALSE]
              /\ rowsShown' = rowsShown \cup rows
    <2>1. PICK most : most = Most2(page.total, containerTotal) OBVIOUS
    <2>2. containerTotal \in Nat \cup {-1} /\ (~server.totals => containerTotal = -1) BY <1>5 DEF containerTotal
    <2>3. most \in {page.total, containerTotal} BY <1>5, <2>1, <2>2, OneOfTwo
    <2>4. most \in Nat \cup {-1} BY <1>5, <2>2, <2>3
    <2>5. page' = [at |-> "next", start |-> end, total |-> most, again |-> FALSE]
      BY <1>1, <1>5, <1>13, <2>1 DEF PageRec
    <2>6. PICK u : u = page' OBVIOUS
    <2>7. u \in PageRec /\ u.at = "next" /\ u.start = end /\ u.total = most BY <1>7, <2>4, <2>5, <2>6 DEF PageRec
    <2>8. ~server.totals /\ left = 0 /\ came = {} =>
            /\ most = -1
            /\ \A r \in rowsShown' : \E j \in 1 .. Len(shelf) : j <= end /\ shelf[j] = r
      <3> SUFFICES ASSUME ~server.totals, left = 0, came = {}
                   PROVE  /\ most = -1
                          /\ \A r \in rowsShown' : \E j \in 1 .. Len(shelf) : j <= end /\ shelf[j] = r
        OBVIOUS
      <3>1. page.total = -1 /\ \A r \in rowsShown : \E j \in 1 .. Len(shelf) : j <= page.start /\ shelf[j] = r
        BY <1>1 DEF ListInv
      <3>2. page.start <= end BY <1>3, <1>5, <1>6
      <3>3. \A r \in rowsShown : \E j \in 1 .. Len(shelf) : j <= end /\ shelf[j] = r BY <1>5, <1>7, <3>1, <3>2
      <3> QED BY <1>6, <1>13, <2>2, <2>3, <3>1, <3>3
    <2> QED BY <1>1, <1>9, <1>13, <2>6, <2>7, <2>8, PageGoesOn
  <1> QED BY <1>2, <1>3, <1>4, <1>10, <1>11, <1>12, <1>13 DEF PlexPage

\* listRows: the total that the pages agree on.
LEMMA JellyfinKeeps == ASSUME ListInv, listRows PROVE ListInv'
  <1>1. page.at = "next" /\ server.kind = "jellyfin" /\ UNCHANGED worldVars BY DEF listRows
  <1>2. PICK rows : rows = Range(cutOut) OBVIOUS
  <1>3. PICK end : end = page.start + Len(cutOut) OBVIOUS
  <1>4. PICK total : total = IF page.total < 0 THEN containerTotal ELSE page.total OBVIOUS
  <1>5. /\ page.start \in Nat /\ Len(shelf) \in Nat /\ server.totals \in BOOLEAN /\ left \in Nat /\ page.total \in Nat \cup {-1}
        /\ page \in PageRec
    BY DEF ListInv, ListTypes, PageRec
  <1>6. Len(cutOut) \in Nat BY CutIs DEF ListInv
  <1>7. end \in Nat BY <1>3, <1>5, <1>6
  <1>8. CASE Fail BY <1>1, <1>8, FailEnds
  <1>9. ASSUME ~(containerTotal < 0 \/ ~sameTotal)
        PROVE  /\ total = Len(shelf)
               /\ left = 0 \/ came = {} => Passed(shelf, page.start, rowsShown, came)
               /\ Len(cutOut) # 0 /\ (left = 0 \/ came = {}) => Passed(shelf, end, rowsShown \cup rows, came)
    <2>1. total = Len(shelf) /\ ~(Len(shelf) < page.total) BY <1>4, <1>5, <1>9 DEF containerTotal, sameTotal
    <2>2. left = 0 \/ came = {} => Passed(shelf, page.start, rowsShown, came) BY <1>1, <2>1 DEF ListInv
    <2>3. Len(cutOut) # 0 /\ (left = 0 \/ came = {}) => Passed(shelf, end, rowsShown \cup rows, came)
      BY <1>2, <1>3, <1>6, <2>2, PassesPage
    <2> QED BY <2>1, <2>2, <2>3
  <1>10. CASE ~(containerTotal < 0 \/ ~sameTotal) /\ page.start >= total /\ Whole(rowsShown)
    <2>1. left = 0 \/ came = {} => stayed \subseteq rowsShown BY <1>5, <1>9, <1>10, PassedAll
    <2> QED BY <1>1, <1>5, <1>10, <2>1, WholeEnds
  <1>11. CASE ~(containerTotal < 0 \/ ~sameTotal) /\ Len(cutOut) # 0 /\ ~(end < total) /\ Whole(rowsShown \cup rows)
    <2>1. Len(shelf) <= end BY <1>5, <1>7, <1>9, <1>11
    <2>2. left = 0 \/ came = {} => stayed \subseteq rowsShown \cup rows BY <1>7, <1>9, <1>11, <2>1, PassedAll
    <2> QED BY <1>1, <1>5, <1>11, <2>2, WholeEnds
  <1>12. CASE /\ ~(containerTotal < 0 \/ ~sameTotal) /\ Len(cutOut) # 0 /\ rowsShown' = rowsShown \cup rows
              /\ page' = [page EXCEPT !.start = end, !.total = total, !.again = FALSE]
    <2>1. total = Len(shelf) BY <1>9, <1>12
    <2>2. page' = [at |-> "next", start |-> end, total |-> total, again |-> FALSE] BY <1>1, <1>5, <1>12 DEF PageRec
    <2>3. PICK u : u = page' OBVIOUS
    <2>4. u \in PageRec /\ u.at = "next" /\ u.start = end /\ u.total = total
      BY <1>5, <1>7, <2>1, <2>2, <2>3 DEF PageRec
    <2>5. u.total # -1 BY <1>5, <2>1, <2>4
    <2> QED BY <1>1, <1>9, <1>12, <2>3, <2>4, <2>5, PageGoesOn
  <1>13. \/ Fail
         \/ ~(containerTotal < 0 \/ ~sameTotal) /\ page.start >= total /\ Whole(rowsShown)
         \/ ~(containerTotal < 0 \/ ~sameTotal) /\ Len(cutOut) # 0 /\ ~(end < total) /\ Whole(rowsShown \cup rows)
         \/ /\ ~(containerTotal < 0 \/ ~sameTotal) /\ Len(cutOut) # 0 /\ rowsShown' = rowsShown \cup rows
            /\ page' = [page EXCEPT !.start = end, !.total = total, !.again = FALSE]
    BY <1>2, <1>3, <1>4 DEF listRows
  <1> QED BY <1>8, <1>10, <1>11, <1>12, <1>13

\* RowArrives: it is no row of before.
LEMMA ArrivalKeeps == ASSUME ListInv, NEW k \in 1 .. Len(shelf) + 1, RowArrives(k) PROVE ListInv'
  <1>1. /\ page.at = "next" /\ Cardinality(came) < Cardinality(Arriving) /\ UNCHANGED <<server, page, rowsShown, stayed, left>>
        /\ came \subseteq Arriving /\ shelf \in Seq(Shelved \cup Arriving)
    BY DEF RowArrives, ListInv, ListTypes
  <1>2. PICK r : r = CHOOSE x \in Arriving : x \notin came OBVIOUS
  <1>3. shelf' = InsertAt(shelf, k, r) /\ came' = came \cup {r} BY <1>2 DEF RowArrives
  <1>4. came # Arriving
    <2>1. SUFFICES ASSUME came = Arriving PROVE FALSE OBVIOUS
    <2>2. Cardinality(Arriving) \in Nat BY ListingAssumption, FS_CardinalityType
    <2>3. PICK n : n = Cardinality(Arriving) OBVIOUS
    <2>4. n < n BY <1>1, <2>1, <2>3
    <2> QED BY <2>2, <2>3, <2>4
  <1>5. r \in Arriving /\ r \notin came BY <1>1, <1>2, <1>4
  <1>6. /\ shelf' \in Seq(Shelved \cup Arriving) /\ Len(shelf') = Len(shelf) + 1
        /\ \A j \in 1 .. Len(shelf) + 1 : shelf'[j] = IF j < k THEN shelf[j] ELSE IF j = k THEN r ELSE shelf[j - 1]
    BY <1>1, <1>3, <1>5, InsertIs
  <1>7. Len(shelf) \in Nat BY <1>1
  <1>8. ASSUME NEW start \in Nat, Passed(shelf, start, rowsShown, came) PROVE Passed(shelf', start, rowsShown, came')
    <2>1. start <= Len(shelf') BY <1>6, <1>7, <1>8 DEF Passed
    <2>2. ASSUME NEW j \in 1 .. Len(shelf'), j <= start PROVE shelf'[j] \in rowsShown \cup came'
      <3>1. CASE j < k
        <4>1. j \in 1 .. Len(shelf) /\ shelf'[j] = shelf[j] BY <1>6, <1>7, <3>1
        <4> QED BY <1>3, <1>8, <2>2, <4>1 DEF Passed
      <3>2. CASE j = k BY <1>3, <1>6, <1>7, <3>2
      <3>3. CASE j > k
        <4>1. PICK i : i = j - 1 OBVIOUS
        <4>2. i \in 1 .. Len(shelf) /\ i <= start /\ shelf'[j] = shelf[i] BY <1>6, <1>7, <2>2, <3>3, <4>1
        <4> QED BY <1>3, <1>8, <4>2 DEF Passed
      <3> QED BY <1>6, <1>7, <3>1, <3>2, <3>3
    <2> QED BY <2>1, <2>2 DEF Passed
  <1>15. \A x \in 1 .. Len(shelf') : shelf'[x] \in Range(shelf')
    <2>1. DOMAIN shelf' = 1 .. Len(shelf') BY <1>6
    <2> QED BY <2>1 DEF Range
  <1>9. ASSUME NEW j \in 1 .. Len(shelf) PROVE shelf[j] \in Range(shelf')
    <2>1. CASE j < k
      <3>1. j \in 1 .. Len(shelf') /\ shelf'[j] = shelf[j] BY <1>6, <1>7, <2>1
      <3> QED BY <1>15, <3>1
    <2>2. CASE j >= k
      <3>1. PICK i : i = j + 1 OBVIOUS
      <3>2. i \in 1 .. Len(shelf') /\ i > k /\ i - 1 = j BY <1>6, <1>7, <2>2, <3>1
      <3>3. i \in 1 .. Len(shelf) + 1 /\ ~(i < k) /\ i # k BY <1>6, <1>7, <3>2
      <3>4. shelf'[i] = shelf[j] BY <1>6, <3>2, <3>3
      <3> QED BY <1>15, <3>2, <3>4
    <2> QED BY <1>7, <2>1, <2>2
  <1>14. stayed \subseteq Range(shelf')
    <2>1. \A x \in stayed : \E j \in 1 .. Len(shelf) : shelf[j] = x BY <1>1 DEF ListInv, Range
    <2> QED BY <1>9, <2>1
  <1>10. ListTypes' BY <1>1, <1>3, <1>5, <1>6 DEF ListInv, ListTypes
  <1>11. page.start \in Nat BY DEF ListInv, ListTypes, PageRec
  <1>12. came' # {} BY <1>3
  <1>13. ListedWhole' BY <1>1 DEF ListedWhole
  <1> QED BY <1>1, <1>8, <1>10, <1>11, <1>12, <1>13, <1>14 DEF ListInv

\* RowLeaves: the total tells, once there is one.
LEMMA DepartureKeeps == ASSUME ListInv, NEW k \in 1 .. Len(shelf), RowLeaves(k) PROVE ListInv'
  <1>1. /\ page.at = "next" /\ left' = left + 1 /\ UNCHANGED <<server, page, rowsShown, came>>
        /\ shelf' = RemoveAt(shelf, k) /\ stayed' = stayed \ {shelf[k]} /\ shelf \in Seq(Shelved \cup Arriving)
        /\ left \in Nat /\ page \in PageRec
    BY DEF RowLeaves, ListInv, ListTypes
  <1>2. /\ shelf' \in Seq(Shelved \cup Arriving) /\ Len(shelf') = Len(shelf) - 1
        /\ \A j \in 1 .. Len(shelf) - 1 : shelf'[j] = IF j < k THEN shelf[j] ELSE shelf[j + 1]
    BY <1>1, RemoveIs
  <1>3. Len(shelf) \in Nat BY <1>1
  <1>4. stayed' \subseteq Range(shelf')
    <2> SUFFICES ASSUME NEW r \in stayed, r # shelf[k] PROVE r \in Range(shelf') BY <1>1
    <2>1. PICK j \in 1 .. Len(shelf) : shelf[j] = r BY <1>1 DEF ListInv, Range
    <2>2. CASE j < k
      <3>1. j \in 1 .. Len(shelf') /\ shelf'[j] = r BY <1>2, <1>3, <2>1, <2>2
      <3> QED BY <1>2, <3>1 DEF Range
    <2>3. CASE j > k
      <3>1. PICK i : i = j - 1 OBVIOUS
      <3>2. i \in 1 .. Len(shelf) - 1 /\ ~(i < k) /\ i + 1 = j BY <1>3, <2>3, <3>1
      <3>3. shelf'[i] = r BY <1>2, <2>1, <3>2
      <3> QED BY <1>2, <3>2, <3>3 DEF Range
    <2> QED BY <2>1, <2>2, <2>3
  <1>5. ListTypes' BY <1>1, <1>2 DEF ListInv, ListTypes
  <1>6. ListedWhole' BY <1>1 DEF ListedWhole
  <1>7. left' # 0 BY <1>1
  <1>8. server.kind = "jellyfin" /\ came = {} => Passed(shelf', page.start, rowsShown, came) \/ Len(shelf') < page.total
    <2> SUFFICES ASSUME server.kind = "jellyfin", came = {}
                 PROVE  Passed(shelf', page.start, rowsShown, came) \/ Len(shelf') < page.total
      OBVIOUS
    <2>1. CASE page.total = -1
      <3>1. page.start = 0 BY <2>1 DEF ListInv
      <3> QED BY <1>2, <1>3, <3>1 DEF Passed
    <2>2. CASE page.total # -1 /\ Len(shelf) < page.total BY <1>1, <1>2, <1>3, <2>2 DEF PageRec
    <2>3. CASE page.total # -1 /\ ~(Len(shelf) < page.total)
      <3>1. Len(shelf) <= page.total BY <1>1, <2>3 DEF ListInv
      <3> QED BY <1>1, <1>2, <1>3, <2>3, <3>1 DEF PageRec
    <2> QED BY <2>1, <2>2, <2>3
  <1>9. server.kind = "jellyfin" /\ came = {} => page.total = -1 \/ Len(shelf') <= page.total
    <2> SUFFICES ASSUME server.kind = "jellyfin", came = {}, page.total # -1 PROVE Len(shelf') <= page.total OBVIOUS
    <2>1. Len(shelf) <= page.total BY <1>1 DEF ListInv
    <2> QED BY <1>1, <1>2, <1>3, <2>1 DEF PageRec
  <1> QED BY <1>1, <1>4, <1>5, <1>6, <1>7, <1>8, <1>9 DEF ListInv

-----------------------------------------------------------------------------
(* Listings: the theorem.                                                  *)

\* A step of a listing.
LEMMA ListStep == ASSUME ListInv, ListingNext PROVE ListInv'
  <1>1. ASSUME NEW early \in BOOLEAN, PlexEmptyPage(early) PROVE ListInv' BY <1>1, EmptyPageKeeps
  <1>2. ASSUME NEW k \in 1 .. Len(shelf) + 1, RowArrives(k) PROVE ListInv' BY <1>2, ArrivalKeeps
  <1>3. ASSUME NEW k \in 1 .. Len(shelf), RowLeaves(k) PROVE ListInv' BY <1>3, DepartureKeeps
  <1>4. StartListing => ListInv' BY StartsKeep
  <1>5. getJSON => ListInv' BY StartsKeep
  <1>6. PlexPage => ListInv' BY PlexPageKeeps
  <1>7. listRows => ListInv' BY JellyfinKeeps
  <1> QED BY <1>1, <1>2, <1>3, <1>4, <1>5, <1>6, <1>7, Zenon DEF ListingNext

\* The other parts of the library leave the listing alone.
LEMMA OthersLeaveListing ==
  RecycleNext \/ GuardsNext \/ PathsNext \/ ScansNext \/ HistoryNext \/ DiscsNext \/ TrackedNext \/ RescanNext \/ QueueNext
    => UNCHANGED listingVars
  <1>1. RecycleNext => UNCHANGED listingVars BY Zenon DEF RecycleNext, RecycleOnly
  <1>2. GuardsNext => UNCHANGED listingVars BY Zenon DEF GuardsNext, GuardsOnly
  <1>3. PathsNext => UNCHANGED listingVars BY Zenon DEF PathsNext, PathsOnly
  <1>4. ScansNext => UNCHANGED listingVars BY Zenon DEF ScansNext, ScansOnly
  <1>5. HistoryNext => UNCHANGED listingVars BY Zenon DEF HistoryNext, HistoryOnly
  <1>6. DiscsNext => UNCHANGED listingVars BY Zenon DEF DiscsNext, DiscsOnly
  <1>7. TrackedNext => UNCHANGED listingVars BY Zenon DEF TrackedNext, ArrOnly
  <1>8. RescanNext => UNCHANGED listingVars BY Zenon DEF RescanNext, ArrOnly
  <1>9. QueueNext => UNCHANGED listingVars BY Zenon DEF QueueNext, ArrOnly
  <1> QED BY <1>1, <1>2, <1>3, <1>4, <1>5, <1>6, <1>7, <1>8, <1>9

\* Nothing of it changes.
LEMMA ListStutters == ASSUME ListInv, UNCHANGED listingVars PROVE ListInv'
  BY DEF ListInv, ListTypes, ListedWhole, listingVars

\* For any rows, sizes of pages and failing requests, and wherever rows arrive or
\* leave while the pages are read: a listing that is taken for complete has every
\* row that stayed, but for what is known not to be covered (AllItems, listRows).
THEOREM ListingsAreWhole == LibrarySpec => []ListedWhole
  <1>1. LibraryInit => ListInv BY ListInitially DEF LibraryInit
  <1>2. ListInv /\ [LibraryNext]_libraryVars => ListInv'
    <2> SUFFICES ASSUME ListInv, [LibraryNext]_libraryVars PROVE ListInv' OBVIOUS
    <2>1. UNCHANGED libraryVars => UNCHANGED listingVars BY DEF libraryVars
    <2> QED BY <2>1, OthersLeaveListing, ListStutters, ListStep DEF LibraryNext
  <1>3. ListInv => ListedWhole BY DEF ListInv
  <1> QED BY <1>1, <1>2, <1>3, PTL DEF LibrarySpec

-----------------------------------------------------------------------------
(* Paths: what the settings and the executor say of the recycle bin, and   *)
(* the proof that two files differ.                                        *)

\* Of numbers up to a bound, one is the greatest.
LEMMA HighestNumber ==
  ASSUME NEW S, NEW n \in Nat, S # {}, \A x \in S : x \in Nat /\ x <= n
  PROVE  \E x \in S : \A y \in S : y <= x
  <1> DEFINE N == {n - x : x \in S}
  <1>1. N \subseteq Nat /\ N # {} OBVIOUS
  <1>2. PICK m \in N : \A y \in N : ~(<<y, m>> \in OpToRel(<, Nat)) BY <1>1, NatLessThanWellFounded, WFMin
  <1>3. \A y \in N : ~(y < m)
    <2> HIDE DEF N
    <2> QED BY <1>1, <1>2 DEF OpToRel
  <1>4. PICK x \in S : m = n - x OBVIOUS
  <1>5. \A y \in S : n - y \in N OBVIOUS
  <1> HIDE DEF N
  <1>6. ASSUME NEW y \in S PROVE y <= x BY <1>3, <1>4, <1>5
  <1> QED BY <1>6

\* Folders, link and settings, typed.
PlaceOK(p) ==
  /\ p \in [dirs : SUBSET Path, link : [from : Path, to : Path], mappings : Seq([source : Int, remote : Path, local : Path]),
            libraries : SUBSET [server : Int, location : Path], dataDir : Path, hidden : SUBSET STRING]
  /\ <<>> \in p.dirs /\ p.link.from # <<>>

\* The pair compared is one of the cases; what was called different is.
PathInv ==
  /\ PlaceOK(place) /\ binPath \in Path
  /\ \E c \in FileCases :
       /\ pair.a = c.a /\ pair.b = c.b /\ pair.mounts = c.mounts /\ pair.mountsRead = c.mountsRead /\ pair.magic = c.magic
       /\ DOMAIN pair = {"a", "b", "mounts", "mountsRead", "magic", "verdict"}
  /\ DistinctIsProven

\* Of the mappings that cover a path, one is the longest.
LEMMA LongestIs ==
  ASSUME NEW ms \in Seq([source : Int, remote : Path, local : Path]), NEW is, is \subseteq DOMAIN ms, is # {}
  PROVE  longest(ms, is) \in is
  <1> DEFINE before(j, i) == Len(ms[j].remote) > Len(ms[i].remote) \/ (Len(ms[j].remote) = Len(ms[i].remote) /\ j <= i)
             above(i) == {j \in is : ~before(i, j)}
             N == {Cardinality(above(i)) : i \in is}
  <1>1. DOMAIN ms = 1..Len(ms) /\ Len(ms) \in Nat /\ \A i \in is : i \in Nat /\ Len(ms[i].remote) \in Nat
    BY DEF Path
  <1>2. IsFiniteSet(is)
    <2>1. IsFiniteSet(1..Len(ms)) BY <1>1, FS_Interval
    <2> QED BY <2>1, <1>1, FS_Subset
  <1>3. \A i \in is : IsFiniteSet(above(i)) /\ Cardinality(above(i)) \in Nat
    BY <1>2, FS_Subset, FS_CardinalityType
  <1>4. N \subseteq Nat /\ N # {}
    <2> HIDE DEF above
    <2> QED BY <1>3
  <1>5. PICK n \in N : \A m \in N : ~(m < n)
    <2> HIDE DEF N
    <2>1. PICK x \in N : \A y \in N : ~(<<y, x>> \in OpToRel(<, Nat)) BY <1>4, NatLessThanWellFounded, WFMin
    <2> QED BY <1>4, <2>1 DEF OpToRel
  <1>6. PICK i \in is : n = Cardinality(above(i)) BY <1>5
  <1>7. ASSUME NEW j \in is, ~before(i, j) PROVE FALSE
    <2> DEFINE L == [x \in is |-> Len(ms[x].remote)]
    <2>0. \A x \in is : L[x] \in Nat /\ x \in Nat BY <1>1
    <2>1. above(j) \subseteq above(i) \ {j} /\ j \in above(i)
      <3>1. \A x, y \in is : before(x, y) <=> L[x] > L[y] \/ (L[x] = L[y] /\ x <= y) OBVIOUS
      <3> HIDE DEF L, before
      <3>2. L[j] > L[i] \/ (L[j] = L[i] /\ j < i) BY <1>7, <2>0, <3>1
      <3>3. ASSUME NEW x \in is, ~before(j, x) PROVE ~before(i, x) /\ x # j BY <2>0, <3>1, <3>2, <3>3
      <3> QED BY <1>7, <3>3
    <2> HIDE DEF above
    <2>2. Cardinality(above(i) \ {j}) = Cardinality(above(i)) - 1 /\ IsFiniteSet(above(i) \ {j})
      BY <2>1, <1>3, FS_RemoveElement
    <2>3. Cardinality(above(j)) <= Cardinality(above(i) \ {j}) BY <2>1, <2>2, FS_Subset
    <2>4. ~(Cardinality(above(j)) < Cardinality(above(i))) BY <1>5, <1>6
    <2> QED BY <2>2, <2>3, <2>4, <1>3
  <1>8. \A j \in is : before(i, j) BY <1>7
  <1> QED BY <1>8, Zenon DEF longest

\* A mapped path is a path.
LEMMA MappedIsPath ==
  ASSUME PlaceOK(place), NEW s, NEW p \in Path, ToLocal(place.mappings, s, p) # Unmapped
  PROVE  ToLocal(place.mappings, s, p) \in Path
  <1> DEFINE ms == place.mappings
             is == coveringMaps(ms, s, p)
             m == ms[longest(ms, is)]
  <1>1. ms \in Seq([source : Int, remote : Path, local : Path]) BY DEF PlaceOK
  <1>2. is # {} /\ ToLocal(ms, s, p) = m.local \o rest(p, m.remote) BY DEF ToLocal
  <1>3. is \subseteq DOMAIN ms BY DEF coveringMaps
  <1>4. longest(ms, is) \in is BY <1>1, <1>2, <1>3, LongestIs
  <1>5. within(p, m.remote) BY <1>4 DEF coveringMaps
  <1>6. m.local \in Path /\ m.remote \in Path
    <2> DEFINE k == longest(ms, is)
               R == [source : Int, remote : Path, local : Path]
    <2>1. k \in 1..Len(ms)
      <3>1. DOMAIN ms = 1..Len(ms) BY <1>1
      <3> QED BY <1>3, <1>4, <3>1
    <2> HIDE DEF k, ms
    <2>2. ms[k] \in R
      <3>1. ms \in Seq(R) BY <1>1
      <3> HIDE DEF R
      <3> QED BY <2>1, <3>1, ElementOfSeq
    <2>3. ms[k].local \in Path /\ ms[k].remote \in Path BY <2>2
    <2> QED BY <2>3 DEF k
  <1> HIDE DEF m
  <1>7. rest(p, m.remote) \in Path
    <2>1. Len(m.remote) \in Nat /\ Len(p) \in Nat BY <1>6 DEF Path
    <2> QED BY <2>1, SubSeqProperties DEF rest, Path
  <1> QED BY <1>2, <1>6, <1>7, ConcatProperties DEF Path

\* Of a path some prefix exists: the longest is resolved, what exists to where
\* it is.
LEMMA ResolvedIs ==
  ASSUME PlaceOK(place), NEW p \in Path
  PROVE  /\ resolved(p) \in Path
         /\ exists(p) => resolved(p) = real(p)
  <1> DEFINE S == {n \in 0..Len(p) : exists(SubSeq(p, 1, n))}
  <1>1. Len(p) \in Nat BY DEF Path
  <1>2. SubSeq(p, 1, Len(p)) = p BY DEF Path
  <1>3. 0 \in S
    <2>1. SubSeq(p, 1, 0) = <<>> BY DEF Path
    <2>2. ~within(<<>>, place.link.from)
      <3>1. place.link.from \in Seq(STRING) /\ place.link.from # <<>> BY DEF PlaceOK, Path
      <3>2. Len(place.link.from) > 0 BY <3>1
      <3> QED BY <3>2 DEF within, IsPrefix
    <2>3. real(<<>>) = <<>> BY <2>2 DEF real
    <2>4. exists(<<>>) BY <2>3 DEF exists, PlaceOK
    <2>5. 0 \in 0..Len(p) BY <1>1
    <2> QED BY <2>1, <2>4, <2>5
  <1>4. \A n \in S : n \in Nat /\ n <= Len(p) BY <1>1
  <1>5. Max(S) \in S /\ \A n \in S : n <= Max(S)
    <2>1. IsFiniteSet(S)
      <3>1. IsFiniteSet(0..Len(p)) BY <1>1, FS_Interval
      <3> QED BY <3>1, FS_Subset
    <2> HIDE DEF S
    <2>2. \E x \in S : \A y \in S : y <= x BY <1>1, <1>3, <1>4, HighestNumber
    <2> QED BY <2>2, Zenon DEF Max
  <1> DEFINE m == Max(S)
  <1>6. existingPrefix(p) = SubSeq(p, 1, m) BY DEF existingPrefix
  <1>7. m \in Nat /\ m <= Len(p) BY <1>4, <1>5
  <1>8. exists(SubSeq(p, 1, m)) BY <1>5
  <1> HIDE DEF m
  <1>9. SubSeq(p, 1, m) \in Path BY <1>7, SubSeqProperties DEF Path
  <1>10. real(SubSeq(p, 1, m)) \in Seq(STRING) BY <1>8 DEF exists, PlaceOK, Path
  <1>11. rest(p, SubSeq(p, 1, m)) \in Seq(STRING)
    <2>1. Len(SubSeq(p, 1, m)) \in Nat BY <1>9 DEF Path
    <2>2. p \in Seq(STRING) BY DEF Path
    <2>3. PICK k \in Nat : k = Len(SubSeq(p, 1, m)) BY <2>1
    <2> DEFINE n == k + 1
    <2>4. n \in Nat /\ n >= 1 OBVIOUS
    <2> HIDE DEF n
    <2>5. \A i \in n..Len(p) : i \in 1..Len(p) BY <2>4, <1>1
    <2>6. SubSeq(p, n, Len(p)) \in Seq(STRING) BY <2>2, <2>4, <2>5, <1>1, SubSeqProperties
    <2> QED BY <2>3, <2>6 DEF rest, n
  <1>12. resolved(p) = real(SubSeq(p, 1, m)) \o rest(p, SubSeq(p, 1, m)) BY <1>6 DEF resolved
  <1>13. resolved(p) \in Path BY <1>10, <1>11, <1>12, ConcatProperties DEF Path
  <1>14. ASSUME exists(p) PROVE resolved(p) = real(p)
    <2>1. Len(p) \in S
      <3>1. Len(p) \in 0..Len(p) BY <1>1
      <3> QED BY <3>1, <1>2, <1>14
    <2>2. Len(p) <= m BY <2>1, <1>5 DEF m
    <2>3. m = Len(p) BY <2>2, <1>1, <1>7
    <2>4. rest(p, p) = <<>> BY <1>1 DEF rest, Path
    <2>5. SubSeq(p, 1, m) = p BY <2>3, <1>2
    <2>6. resolved(p) = real(p) \o <<>> BY <2>4, <2>5, <1>12
    <2>7. real(p) \in Seq(STRING) BY <2>5, <1>10
    <2>8. real(p) \o <<>> = real(p) BY <2>7, ConcatEmptySeq
    <2> QED BY <2>6, <2>8
  <1> QED BY <1>13, <1>14

\* What the executor accepts is not above anything that exists.
LEMMA AcceptedIsClear ==
  ASSUME PlaceOK(place), NEW b \in Path, validateRecycleBin(b),
         NEW d \in mapLocals \cup locals \cup {place.dataDir}, exists(d)
  PROVE  ~within(real(d), resolved(b))
  <1>1. CASE d \in mapLocals
    <2>1. CASE real(d) = <<>>
      <3>1. resolved(b) \in Seq(STRING) /\ resolved(b) # <<>> BY ResolvedIs DEF validateRecycleBin, isFSRoot, Path
      <3>2. Len(resolved(b)) > 0 BY <3>1
      <3> QED BY <2>1, <3>2 DEF within, IsPrefix
    <2>2. CASE real(d) # <<>>
      <3>1. real(d) \in resolvedRoots BY <1>1, <2>2 DEF resolvedRoots
      <3> QED BY <3>1 DEF validateRecycleBin
    <2> QED BY <2>1, <2>2
  <1>2. CASE d \in locals
    <2>1. real(d) \in libraryFolders BY <1>2 DEF libraryFolders
    <2> QED BY <2>1 DEF validateRecycleBin
  <1>3. CASE d = place.dataDir BY <1>3, Zenon DEF validateRecycleBin
  <1> QED BY <1>1, <1>2, <1>3

\* What the settings accept, the executor accepts.
LEMMA SettingsAgree ==
  ASSUME PlaceOK(place), NEW b \in Path, ~recycleBinPlacementProblems(b), b # <<>>, resolvable(b), resolved(b) # <<>>
  PROVE  validateRecycleBin(b)
  <1>1. \A p : pathForms(p) = {p, resolved(p)} BY DEF pathForms
  <1>2. \A m \in mapLocals : \A x \in {m, resolved(m)}, y \in {b, resolved(b)} : ~within(x, y)
    BY <1>1, Zenon DEF recycleBinPlacementProblems, anyWithin
  <1>3. \A l \in place.libraries : \A x \in {libraryRoot(l), resolved(libraryRoot(l))}, y \in {b, resolved(b)} : ~within(x, y)
    BY <1>1, Zenon DEF recycleBinPlacementProblems, anyWithin
  <1>4. \A x \in {place.dataDir, resolved(place.dataDir)}, y \in {b, resolved(b)} : ~within(x, y) /\ ~within(y, x)
    BY <1>1, Zenon DEF recycleBinPlacementProblems, anyWithin
  <1>5. \A m \in mapLocals : m \in Path
    <2> DEFINE R == [source : Int, remote : Path, local : Path]
    <2>1. place.mappings \in Seq(R) BY DEF PlaceOK
    <2>2. DOMAIN place.mappings = 1..Len(place.mappings) BY <2>1
    <2>3. ASSUME NEW i \in DOMAIN place.mappings PROVE place.mappings[i].local \in Path
      <3>1. place.mappings[i] \in R
        <4> HIDE DEF R
        <4> QED BY <2>1, <2>2, ElementOfSeq
      <3> QED BY <3>1
    <2> QED BY <2>3 DEF mapLocals
  <1>6. ASSUME NEW d \in locals
        PROVE  d \in Path /\ \A x \in {d, resolved(d)}, y \in {b, resolved(b)} : ~within(x, y)
    <2>1. PICK l \in place.libraries : d = ToLocal(place.mappings, l.server, l.location) /\ d # Unmapped BY DEF locals
    <2>2. libraryRoot(l) = d BY <2>1 DEF libraryRoot
    <2>3. l.location \in Path BY <2>1 DEF PlaceOK
    <2>4. d \in Path BY <2>1, <2>3, MappedIsPath
    <2> QED BY <2>2, <2>4, <1>3
  <1>7. \A r \in resolvedRoots : ~within(r, resolved(b))
    <2>1. \A r \in resolvedRoots : \E m \in mapLocals : r = real(m) /\ exists(m) BY DEF resolvedRoots
    <2>2. ASSUME NEW r \in resolvedRoots PROVE ~within(r, resolved(b))
      <3>1. PICK m \in mapLocals : r = real(m) /\ exists(m) BY <2>1
      <3>2. m \in Path BY <1>5
      <3>3. resolved(m) = real(m) BY <3>1, <3>2, ResolvedIs
      <3> QED BY <3>1, <3>3, <1>2
    <2> QED BY <2>2
  <1>8. \A d \in mapLocals \cup libraryFolders : ~within(d, b) /\ ~within(d, resolved(b))
    <2>1. \A d \in libraryFolders : \E e \in locals : d = e \/ (d = real(e) /\ exists(e)) BY DEF libraryFolders
    <2>2. ASSUME NEW d \in libraryFolders PROVE ~within(d, b) /\ ~within(d, resolved(b))
      <3>1. PICK e \in locals : d = e \/ (d = real(e) /\ exists(e)) BY <2>1
      <3>2. e \in Path /\ \A x \in {e, resolved(e)}, y \in {b, resolved(b)} : ~within(x, y) BY <1>6
      <3>3. CASE d = e BY <3>2, <3>3
      <3>4. CASE d = real(e) /\ exists(e)
        <4>1. resolved(e) = real(e) BY <3>2, <3>4, ResolvedIs
        <4> QED BY <4>1, <3>2, <3>4
      <3> QED BY <3>1, <3>3, <3>4
    <2> QED BY <2>2, <1>2
  <1>9. LET forms == {place.dataDir} \cup (IF exists(place.dataDir) THEN {real(place.dataDir)} ELSE {})
        IN  \A d \in forms, f \in {b, resolved(b)} : ~within(d, f) /\ ~within(f, d)
    <2>1. place.dataDir \in Path BY DEF PlaceOK
    <2>2. exists(place.dataDir) => resolved(place.dataDir) = real(place.dataDir) BY <2>1, ResolvedIs
    <2> QED BY <2>2, <1>4
  <1> QED BY <1>7, <1>8, <1>9 DEF validateRecycleBin, isFSRoot

\* The types mounted for a device.
LEMMA TypesFinite ==
  ASSUME NEW c \in FileCases, pair.mounts = c.mounts
  PROVE  IsFiniteSet({m.type : m \in {e \in pair.mounts : e.dev = pair.a.dev}})
  <1> DEFINE S == {e \in pair.mounts : e.dev = pair.a.dev}
             f == [m \in S |-> m.type]
             T == {m.type : m \in S}
  <1>1. IsFiniteSet(S)
    <2>1. IsFiniteSet(pair.mounts) BY PathAssumption
    <2> QED BY <2>1, FS_Subset
  <1> HIDE DEF S
  <1>2. f \in Surjection(S, T) BY DEF Surjection
  <1>3. IsFiniteSet(T) BY <1>1, <1>2, FS_Surjection
  <1> QED BY <1>3 DEF S

\* On a filesystem that is known, inode numbers and sizes tell.
LEMMA DeterminedKeeps ==
  ASSUME NEW c \in FileCases, pair.a = c.a, pair.b = c.b, pair.mounts = c.mounts, pair.magic = c.magic,
         pair.mountsRead = c.mountsRead, Compare(pair.a, pair.b) = "distinct"
  PROVE  pair.a.physical # pair.b.physical
  <1>1. /\ ~(pair.a.dev = pair.b.dev /\ pair.a.ino # 0 /\ pair.a.ino = pair.b.ino)
        /\ pair.a.dev = pair.b.dev /\ determine(pair.a.dev)
        /\ (pair.a.ino # 0 /\ pair.b.ino # 0) \/ pair.a.size # pair.b.size
    BY DEF Compare
  <1> DEFINE types == {m.type : m \in {e \in pair.mounts : e.dev = pair.a.dev}}
  <1>2. keepsInodes(c)
    <2>1. /\ Cardinality(types) = 1
          /\ \A t \in types : /\ pair.magic # "none" => agrees(pair.magic, t)
                              /\ t = "zfs" \/ (t \in allowlisted /\ pair.magic = t)
      BY <1>1 DEF determine
    <2>2. PICK t : t \in types
      <3> HIDE DEF types
      <3>1. types # {} BY <2>1, FS_EmptySet
      <3> QED BY <3>1
    <2>3. CASE t # "zfs" BY <2>1, <2>2, <2>3 DEF allowlisted, keepsInodes
    <2>4. CASE t = "zfs"
      <3>1. pair.magic # "none" => pair.magic = "zfs" BY <2>1, <2>2, <2>4 DEF agrees
      <3>2. types = {"zfs"}
        <4> HIDE DEF types
        <4>1. IsFiniteSet(types) BY TypesFinite DEF types
        <4>2. \E s : types = {s} BY <2>1, <2>2, <4>1, FS_Singleton
        <4> QED BY <4>2, <2>2, <2>4
      <3>3. mountedAs(c, "zfs") BY <3>2 DEF mountedAs
      <3> QED BY <3>1, <3>3 DEF keepsInodes
    <2> QED BY <2>3, <2>4
  <1> QED BY <1>1, <1>2, PathAssumption

\* It holds at first.
LEMMA PathsInitially == ASSUME PathInit PROVE PathInv
  <1>1. place \in Places /\ binPath = <<>> BY DEF PathInit
  <1>2. PlaceOK(place) BY <1>1, PathAssumption DEF PlaceOK
  <1>3. binPath \in Path BY <1>1 DEF Path
  <1>4. PICK c \in FileCases : pair = uncompared(c) BY DEF PathInit
  <1>5. /\ pair.a = c.a /\ pair.b = c.b /\ pair.mounts = c.mounts /\ pair.mountsRead = c.mountsRead /\ pair.magic = c.magic
        /\ pair.verdict = "none" /\ DOMAIN pair = {"a", "b", "mounts", "mountsRead", "magic", "verdict"}
    BY <1>4 DEF uncompared
  <1> QED BY <1>2, <1>3, <1>5 DEF PathInv, DistinctIsProven

\* An edited mapping or link leaves a place a place.
LEMMA PlaceKeeps ==
  ASSUME PlaceOK(place), NEW i, NEW d \in Path
  PROVE  PlaceOK([place EXCEPT !.mappings[i].local = d]) /\ PlaceOK([place EXCEPT !.link.to = d])
  <1> DEFINE R == [source : Int, remote : Path, local : Path]
             ms == place.mappings
             new == [ms EXCEPT ![i].local = d]
  <1>1. ms \in Seq(R) BY DEF PlaceOK
  <1>2. new \in Seq(R)
    <2>1. ms \in [1..Len(ms) -> R] /\ Len(ms) \in Nat
      <3> HIDE DEF R, ms
      <3> QED BY <1>1
    <2>2. \A j \in 1..Len(ms) : ms[j] \in R BY <2>1
    <2>3. \A j \in 1..Len(ms) : [ms[j] EXCEPT !.local = d] \in R BY <2>2
    <2> HIDE DEF R, ms
    <2>4. new \in [1..Len(ms) -> R] BY <2>1, <2>3
    <2> QED BY <2>1, <2>4
  <1> DEFINE P == [dirs : SUBSET Path, link : [from : Path, to : Path], mappings : Seq(R),
                   libraries : SUBSET [server : Int, location : Path], dataDir : Path, hidden : SUBSET STRING]
  <1>3. place \in P /\ <<>> \in place.dirs /\ place.link.from # <<>> BY DEF PlaceOK
  <1>4. [place EXCEPT !.mappings[i].local = d] = [place EXCEPT !.mappings = new] BY <1>3
  <1>5. PlaceOK([place EXCEPT !.mappings[i].local = d])
    <2> HIDE DEF new, R
    <2>1. [place EXCEPT !.mappings = new] \in P BY <1>2, <1>3
    <2>2. [place EXCEPT !.mappings = new].dirs = place.dirs /\ [place EXCEPT !.mappings = new].link = place.link BY <1>3
    <2> QED BY <1>3, <1>4, <2>1, <2>2 DEF PlaceOK, R
  <1>6. PlaceOK([place EXCEPT !.link.to = d])
    <2> HIDE DEF R
    <2>1. place.link \in [from : Path, to : Path] BY <1>3
    <2>2. [place.link EXCEPT !.to = d] \in [from : Path, to : Path] /\ [place.link EXCEPT !.to = d].from = place.link.from
      BY <2>1
    <2>3. PICK l \in [from : Path, to : Path] : l = [place.link EXCEPT !.to = d] /\ l.from = place.link.from BY <2>2
    <2>4. [place EXCEPT !.link.to = d] = [place EXCEPT !.link = l] BY <1>3, <2>3
    <2>5. [place EXCEPT !.link = l] \in P /\ [place EXCEPT !.link = l].dirs = place.dirs /\ [place EXCEPT !.link = l].link = l
      BY <1>3
    <2> QED BY <1>3, <2>3, <2>4, <2>5 DEF PlaceOK, R
  <1> QED BY <1>5, <1>6

\* Every step about paths keeps it.
LEMMA PathsStep == ASSUME PathInv, PathsNext PROVE PathInv'
  <1>1. ASSUME NEW b \in BinChoices, SaveBin(b) PROVE PathInv'
    <2>1. binPath' = b /\ place' = place /\ pair' = pair BY <1>1 DEF SaveBin
    <2>2. b \in Path BY PathAssumption
    <2> QED BY <2>1, <2>2 DEF PathInv, DistinctIsProven
  <1>2. ASSUME NEW i, NEW d \in BinChoices, EditMapping(i, d) PROVE PathInv'
    <2>1. place' = [place EXCEPT !.mappings[i].local = d] /\ binPath' = binPath /\ pair' = pair BY <1>2 DEF EditMapping
    <2>2. d \in Path BY PathAssumption
    <2>3. PlaceOK(place') BY <2>1, <2>2, PlaceKeeps DEF PathInv
    <2> HIDE DEF PlaceOK
    <2> QED BY <2>1, <2>3 DEF PathInv, DistinctIsProven
  <1>3. ASSUME NEW t \in LinkTargets, Relink(t) PROVE PathInv'
    <2>1. place' = [place EXCEPT !.link.to = t] /\ binPath' = binPath /\ pair' = pair BY <1>3 DEF Relink
    <2>2. t \in Path BY PathAssumption
    <2>3. PlaceOK(place') BY <2>1, <2>2, PlaceKeeps DEF PathInv
    <2> QED BY <2>1, <2>3 DEF PathInv, DistinctIsProven
  <1>4. ASSUME CompareFiles PROVE PathInv'
    <2>1. pair' = [pair EXCEPT !.verdict = Compare(pair.a, pair.b)] /\ binPath' = binPath /\ place' = place
      BY <1>4 DEF CompareFiles
    <2>2. PICK c \in FileCases :
            /\ pair.a = c.a /\ pair.b = c.b /\ pair.mounts = c.mounts /\ pair.mountsRead = c.mountsRead /\ pair.magic = c.magic
            /\ DOMAIN pair = {"a", "b", "mounts", "mountsRead", "magic", "verdict"}
      BY DEF PathInv
    <2>3. PICK v : v = Compare(pair.a, pair.b) OBVIOUS
    <2>4. pair' = [pair EXCEPT !.verdict = v] BY <2>1, <2>3
    <2>5. /\ pair'.a = c.a /\ pair'.b = c.b /\ pair'.mounts = c.mounts /\ pair'.mountsRead = c.mountsRead
          /\ pair'.magic = c.magic /\ pair'.verdict = v
          /\ DOMAIN pair' = {"a", "b", "mounts", "mountsRead", "magic", "verdict"}
      BY <2>2, <2>4
    <2>6. v = "distinct" => c.a.physical # c.b.physical BY <2>2, <2>3, DeterminedKeeps
    <2>7. DistinctIsProven' BY <2>5, <2>6 DEF DistinctIsProven
    <2>8. PlaceOK(place)' /\ (binPath \in Path)' BY <2>1 DEF PathInv
    <2> QED BY <2>5, <2>7, <2>8 DEF PathInv
  <1> QED BY <1>1, <1>2, <1>3, <1>4, Zenon DEF PathsNext

\* The other parts of the library leave the paths alone.
LEMMA OthersLeavePaths ==
  RecycleNext \/ GuardsNext \/ ScansNext \/ HistoryNext \/ DiscsNext \/ TrackedNext \/ RescanNext \/ QueueNext \/ ListingNext
    => UNCHANGED pathVars
  <1>1. RecycleNext => UNCHANGED pathVars BY Zenon DEF RecycleNext, RecycleOnly
  <1>2. GuardsNext => UNCHANGED pathVars BY Zenon DEF GuardsNext, GuardsOnly
  <1>3. ScansNext => UNCHANGED pathVars BY Zenon DEF ScansNext, ScansOnly
  <1>4. HistoryNext => UNCHANGED pathVars BY Zenon DEF HistoryNext, HistoryOnly
  <1>5. DiscsNext => UNCHANGED pathVars BY Zenon DEF DiscsNext, DiscsOnly
  <1>6. TrackedNext => UNCHANGED pathVars BY Zenon DEF TrackedNext, ArrOnly
  <1>7. RescanNext => UNCHANGED pathVars BY Zenon DEF RescanNext, ArrOnly
  <1>8. QueueNext => UNCHANGED pathVars BY Zenon DEF QueueNext, ArrOnly
  <1>9. ListingNext => UNCHANGED pathVars BY Zenon DEF ListingNext, ListingOnly
  <1> QED BY <1>1, <1>2, <1>3, <1>4, <1>5, <1>6, <1>7, <1>8, <1>9

\* For any folders, link, mappings, libraries and recycle bin, at every later edit of
\* them: a bin the executor accepts is clear of them, and what the settings accept the
\* executor accepts (validateRecycleBin, recycleBinPlacementProblems); and for any two
\* files, however they are mounted, what is called different is (Compare).
THEOREM PathsAreReliable == LibrarySpec => []PathsHold
  <1>1. LibraryInit => PathInv BY PathsInitially DEF LibraryInit
  <1>2. PathInv /\ [LibraryNext]_libraryVars => PathInv'
    <2> SUFFICES ASSUME PathInv, [LibraryNext]_libraryVars PROVE PathInv' OBVIOUS
    <2>1. UNCHANGED libraryVars => UNCHANGED pathVars BY DEF libraryVars
    <2>2. UNCHANGED pathVars => PathInv' BY DEF PathInv, pathVars, DistinctIsProven
    <2> QED BY <2>1, <2>2, OthersLeavePaths, PathsStep DEF LibraryNext
  <1>3. PathInv => PathsHold
    <2> SUFFICES ASSUME PathInv PROVE AcceptedBinIsClear /\ DistinctIsProven BY DEF PathsHold
    <2>1. PlaceOK(place) /\ binPath \in Path /\ DistinctIsProven BY DEF PathInv
    <2> QED BY <2>1, AcceptedIsClear, SettingsAgree DEF AcceptedBinIsClear
  <1> QED BY <1>1, <1>2, <1>3, PTL DEF LibrarySpec

-----------------------------------------------------------------------------
(* Discs: what is detected, and what a check passes however the folders    *)
(* change meanwhile.                                                       *)

\* An entry that is a disc's, never a plain file.
OfDisc(e) == isDiscPath(e) \/ KindOf(e) \in {"image", "bdcomp", "dvdcomp", "hdcomp"}
\* What is owned is a disc's, a folder owned as a whole has nothing else in it.
OwnedClean(o) ==
  /\ \A e \in o.entries : OfDisc(e)
  /\ \A g \in o.folders : g \in DOMAIN Folders /\ \A e \in In(g) : OfDisc(e)
\* What a disc was measured to be is of now or earlier.
Measured(d) == \A p \in d.print.folders : p[1] \in DOMAIN Folders /\ p[2] \in Nat /\ p[2] <= tree.ver[-p[1]]

\* Between the second detection and the measurement, a folder owned as a whole
\* holds the disc only, or has changed since the scan measured it.
UnderCheck(c) ==
  /\ Measured(c.version.disc)
  /\ \A e \in c.disc.owned.entries : OfDisc(e)
  /\ \A g \in c.disc.owned.folders :
       /\ g \in DOMAIN Folders
       /\ <<g, tree.ver[-g]>> \in c.version.disc.print.folders => \A e \in In(g) : OfDisc(e)
TreeOK(t) == t.ver \in [Ids \cup {-g : g \in DOMAIN Folders} -> Nat]
LookedOK(l) ==
  /\ l.phase = "found" => \A d \in l.discs : d.owned.folders \subseteq DOMAIN Folders
  /\ l.phase # "found" => \A d \in l.discs : Measured(d)
AttachedOK(vs) == \A v \in vs : v.disc # NoDisc => Measured(v.disc)
DiscInv ==
  /\ TreeOK(tree)
  /\ DOMAIN looked = MovieFolders /\ \A f \in MovieFolders : LookedOK(looked[f])
  /\ attached # <<>> => AttachedOK(attached[1])
  /\ check.phase = "detected" => UnderCheck(check)
  /\ DiscAloneGoes

\* A structure is of a kind with a rank, and its entries are a disc's.
LEMMA StructuresAreDiscs ==
  ASSUME NEW es, NEW s \in structures(es)
  PROVE  /\ s.typ \in {"bluray", "dvd", "hddvd", "avchd", "bdav", "clips"}
         /\ \A e \in s.owned : OfDisc(e)
  <1> DEFINE kinds == {"bluray", "dvd", "flat", "clip", "clipmeta", "hddvd", "avchd", "bdav", "bdcomp", "dvdcomp"}
  <1>1. ASSUME NEW k \in kinds PROVE \A e \in OfKind(es, k) : OfDisc(e)
    BY <1>1 DEF OfKind, OfDisc, isDiscPath, KindOf
  <1>2. ASSUME NEW k \in kinds PROVE Real(es, k) \subseteq OfKind(es, k) BY DEF Real
  <1>3. ASSUME NEW e \in Linked(es), Entry[e].kind \in {"bluray", "dvd", "hddvd", "avchd", "bdav"} PROVE OfDisc(e)
    BY <1>3 DEF OfDisc, isDiscPath, KindOf
  <1> QED BY <1>1, <1>2, <1>3 DEF structures

\* Of structures, one has the highest rank.
LEMMA FirstOfThem ==
  ASSUME NEW ss, ss # {}, \A s \in ss : s.typ \in {"bluray", "dvd", "hddvd", "avchd", "bdav", "clips"}
  PROVE  firstOf(ss) \in ss
  <1> DEFINE R == {rankOf(s.typ) : s \in ss}
  <1>1. ASSUME NEW s \in ss PROVE rankOf(s.typ) \in 1 .. 6
    <2>1. DOMAIN Priority = 1 .. 6 BY DEF Priority
    <2>2. \E i \in DOMAIN Priority : Priority[i] = s.typ BY DEF Priority
    <2> QED BY <2>1, <2>2 DEF rankOf
  <1>2. R \subseteq Nat /\ R # {} BY <1>1
  <1>3. PICK m \in R : \A y \in R : ~(<<y, m>> \in OpToRel(<, Nat)) BY <1>2, NatLessThanWellFounded, WFMin
  <1>4. \A y \in R : ~(y < m)
    <2> HIDE DEF R
    <2> QED BY <1>2, <1>3 DEF OpToRel
  <1>5. PICK s \in ss : m = rankOf(s.typ) OBVIOUS
  <1>6. ASSUME NEW o \in ss PROVE rankOf(s.typ) <= rankOf(o.typ)
    <2>1. rankOf(o.typ) \in R OBVIOUS
    <2> HIDE DEF R
    <2> QED BY <1>1, <1>4, <1>5, <2>1
  <1> QED BY <1>6 DEF firstOf

\* What a folder's layout owns is a disc's, and all there is when it is whole.
LEMMA LayoutIsDisc ==
  ASSUME NEW es, classify(es).typ # "none"
  PROVE  /\ \A e \in classify(es).owned : OfDisc(e)
         /\ classify(es).whole => classify(es).owned = es
  <1> DEFINE ss == structures(es)
             first == firstOf(ss)
  <1>1. ss # {} BY DEF classify, classifyAmong
  <1>2. classify(es) = layoutOf(es, first, ss) BY <1>1 DEF classify, classifyAmong
  <1>3. first \in ss BY <1>1, StructuresAreDiscs, FirstOfThem
  <1>4. \A e \in companions(es) : OfDisc(e) BY DEF companions, OfKind, OfDisc, KindOf
  <1>5. \A s \in ss : \A e \in s.owned : OfDisc(e) BY StructuresAreDiscs
  <1> HIDE DEF ss, first
  <1> DEFINE owned == IF ss = {first} THEN first.owned ELSE allOwned(ss) \cup companions(es)
  <1>6. classify(es).owned = owned /\ classify(es).whole = (owned = es) BY <1>2 DEF layoutOf
  <1>7. ASSUME NEW e \in allOwned(ss) PROVE OfDisc(e)
    <2>1. PICK s \in ss : e \in s.owned BY DEF allOwned
    <2> QED BY <2>1, <1>5
  <1>8. \A e \in owned : OfDisc(e) BY <1>3, <1>4, <1>5, <1>7
  <1> HIDE DEF owned
  <1> QED BY <1>6, <1>8

\* So is what it owns of the folder it was looked for from.
LEMMA OwnedIsDisc ==
  ASSUME NEW dir, NEW g \in DOMAIN Folders, classify(In(g)).typ # "none"
  PROVE  OwnedClean(ownedOf(dir, g, classify(In(g))))
  <1> DEFINE l == classify(In(g))
  <1>1. /\ \A e \in l.owned : OfDisc(e)
        /\ l.whole => l.owned = In(g) BY LayoutIsDisc
  <1> HIDE DEF l
  <1>2. OwnedClean(ownedOf(dir, g, l)) BY <1>1, Zenon DEF ownedOf, wholeFolder, OwnedClean
  <1> QED BY <1>2 DEF l

\* Whatever is detected in a folder, as it is then.
LEMMA DetectedIsDisc ==
  ASSUME NEW f \in DOMAIN Folders, NEW d \in Detect(f)
  PROVE  OwnedClean(d.owned)
  <1> DEFINE l == [g \in DOMAIN Folders |-> classify(In(g))]
             set == {g \in Sub(f) : Folders[g].n > 0 /\ l[g].typ # "none"}
             bundles == {g \in Sub(f) : Folders[g].n = 0 /\ Folders[g].bundle /\ l[g].typ # "none"}
  <1>1. \A g \in DOMAIN Folders : l[g].typ # "none" => OwnedClean(ownedOf(f, g, l[g])) BY OwnedIsDisc
  <1>2. Sub(f) \subseteq DOMAIN Folders BY DEF Sub
  <1>3. ASSUME NEW g \in DOMAIN Folders, l[g].typ # "none", d = buildSingle(f, g, l[g]) PROVE OwnedClean(d.owned)
    <2> HIDE DEF l
    <2> QED BY <1>1, <1>3 DEF buildSingle
  <1>4. ASSUME d = buildSet(f, set, l) PROVE OwnedClean(d.owned)
    <2> DEFINE gs == set \cup (IF l[f].typ = "none" THEN {} ELSE {f})
    <2>1. \A g \in gs : g \in DOMAIN Folders /\ l[g].typ # "none" BY <1>2
    <2> HIDE DEF set
    <2>2. d.owned = Together({ownedOf(f, g, l[g]) : g \in gs})
      <3> HIDE DEF l
      <3> QED BY <1>4 DEF buildSet
    <2> HIDE DEF l, gs
    <2>3. \A g \in gs : OwnedClean(ownedOf(f, g, l[g])) BY <1>1, <2>1
    <2> QED BY <2>2, <2>3 DEF Together, OwnedClean
  <1>5. ASSUME d \in images(f) PROVE OwnedClean(d.owned)
    <2>1. \A e \in OfKind(In(f), "image") : OfDisc(e) BY DEF OfKind, OfDisc, KindOf
    <2> DEFINE is == OfKind(In(f), "image")
    <2>2. PICK e \in is : d = imageDisc(IF Cardinality(stackOf(is, e)) > 1 THEN stackOf(is, e) ELSE {e})
      BY <1>5 DEF images
    <2>3. d.owned.folders = {} /\ d.owned.entries \subseteq is
      <3> HIDE DEF is
      <3> QED BY <2>2 DEF imageDisc, stackOf
    <2> QED BY <2>1, <2>3 DEF OwnedClean
  <1>6. d \in detectAmong(f, l) BY DEF Detect
  <1>7. \/ d = buildSet(f, set, l)
        \/ \E g \in DOMAIN Folders : l[g].typ # "none" /\ d = buildSingle(f, g, l[g])
        \/ d \in images(f)
    <2> HIDE DEF l
    <2> QED BY <1>2, <1>6 DEF detectAmong
  <1> QED BY <1>3, <1>4, <1>5, <1>7

\* The invariant holds at first.
LEMMA DiscsInitially == ASSUME DiscInit PROVE DiscInv
  <1>1. TreeOK(tree) BY DEF DiscInit, TreeOK
  <1>2. DOMAIN looked = MovieFolders /\ \A f \in MovieFolders : looked[f] = NotLooked BY DEF DiscInit, MovieFolders
  <1>3. LookedOK(NotLooked) BY DEF LookedOK, NotLooked
  <1> QED BY <1>1, <1>2, <1>3 DEF DiscInit, DiscInv, DiscAloneGoes

\* Measuring a disc records the folders as they are.
LEMMA MeasuredNow ==
  ASSUME TreeOK(tree), NEW d, d.owned.folders \subseteq DOMAIN Folders
  PROVE  /\ Measured(Inspect(d))
         /\ Inspect(d).owned = d.owned
         /\ Inspect(d).print.folders = {<<g, tree.ver[-g]>> : g \in d.owned.folders}
  <1>1. /\ Inspect(d).owned = d.owned
        /\ Inspect(d).print.folders = {<<g, tree.ver[-g]>> : g \in d.owned.folders} BY DEF Inspect, Measure
  <1>2. ASSUME NEW g \in d.owned.folders PROVE g \in DOMAIN Folders /\ tree.ver[-g] \in Nat BY DEF TreeOK
  <1>3. ASSUME NEW p \in Inspect(d).print.folders
        PROVE  p[1] \in DOMAIN Folders /\ p[2] \in Nat /\ p[2] <= tree.ver[-p[1]]
    <2>1. PICK g \in d.owned.folders : p = <<g, tree.ver[-g]>> BY <1>1
    <2> QED BY <2>1, <1>2
  <1> QED BY <1>1, <1>3 DEF Measured

\* A scan makes versions of the discs it found.
LEMMA AttachedAreFound ==
  ASSUME DOMAIN looked = MovieFolders, NEW v \in attachDiscs, v.disc # NoDisc
  PROVE  \E f \in MovieFolders : v.disc \in looked[f].discs
  <1> DEFINE found == UNION {looked[f].discs : f \in MovieFolders}
  <1>1. ASSUME NEW e PROVE findDisc(e) \subseteq found
    <2> DEFINE f == detectDir(discRootOf(e), e)
    <2>1. findDisc(e) = {d \in (IF f \in DOMAIN looked THEN looked[f].discs ELSE {}) : discRootOf(e) \in rootsOf(d)}
      BY DEF findDisc
    <2> HIDE DEF f
    <2> QED BY <2>1
  <1>2. ASSUME NEW i, NEW w PROVE toPlexDisc(i, w).disc \in found \cup {NoDisc}
    <2> DEFINE fs == findDisc(Min(w.files))
    <2>1. fs \subseteq found BY <1>1
    <2> HIDE DEF fs, found
    <2>2. toPlexDisc(i, w).disc = NoDisc \/ (fs # {} /\ toPlexDisc(i, w).disc = CHOOSE x \in fs : TRUE)
      BY DEF toPlexDisc, Version, fs
    <2> QED BY <2>1, <2>2
  <1>3. ASSUME NEW i, NEW f PROVE clipSetVersion(i, f).disc \in found \cup {NoDisc}
    <2> DEFINE fs == {d \in (IF upFrom(f) \in DOMAIN looked THEN looked[upFrom(f)].discs ELSE {}) : <<f>> \in rootsOf(d)}
    <2>1. fs \subseteq found OBVIOUS
    <2> HIDE DEF found
    <2>2. clipSetVersion(i, f).disc = NoDisc \/ (fs # {} /\ clipSetVersion(i, f).disc = CHOOSE x \in fs : TRUE)
      BY DEF clipSetVersion, Version
    <2> QED BY <2>1, <2>2
  <1>4. ASSUME NEW i, NEW w \in listedVersions(i) PROVE w.disc \in found \cup {NoDisc}
    <2> HIDE DEF found
    <2>1. \/ \E x : w = toPlexDisc(i, x) \/ w = Plain(i, x)
          \/ \E f : w = clipSetVersion(i, f) BY DEF listedVersions
    <2>2. ASSUME NEW x PROVE Plain(i, x).disc = NoDisc BY DEF Plain, Version
    <2> QED BY <2>1, <2>2, <1>2, <1>3
  <1>5. ASSUME NEW i, NEW vs, NEW w \in foundVersions(i, vs) PROVE w.disc \in found
    <2>1. PICK d \in UNION {{x \in looked[f].discs : rootsOf(x) \cap claimed(vs, i) = {} /\ discNamesItem(i, f, x)} :
                               f \in {g \in DOMAIN looked : folderOwner(g) = i}} :
            w = [Version(i, "filesystem", folderContent(d.owned), d, Removable(d)) EXCEPT !.others = plexItemsInDisc(i, d)]
      BY DEF foundVersions
    <2>2. w.disc = d BY <2>1 DEF Version
    <2>3. d \in found BY <2>1
    <2> QED BY <2>2, <2>3
  <1>6. \/ \E i : v \in listedVersions(i)
        \/ \E i, vs : v \in foundVersions(i, vs) BY DEF attachDiscs
  <1>7. v.disc \in found
    <2> HIDE DEF found
    <2> QED BY <1>4, <1>5, <1>6
  <1> QED BY <1>7

\* Every step of a scan, of a check and of the world keeps it.
LEMMA DiscsStep == ASSUME DiscInv, DiscsNext PROVE DiscInv'
  <1>1. /\ TreeOK(tree) /\ DOMAIN looked = MovieFolders /\ \A f \in MovieFolders : LookedOK(looked[f])
        /\ attached # <<>> => AttachedOK(attached[1])
        /\ check.phase = "detected" => UnderCheck(check)
        /\ DiscAloneGoes
    BY DEF DiscInv
  <1>2. /\ UNCHANGED tree => TreeOK(tree)'
        /\ UNCHANGED <<tree, looked>> => DOMAIN looked' = MovieFolders /\ \A f \in MovieFolders : LookedOK(looked[f])'
        /\ UNCHANGED <<tree, attached>> => (attached # <<>> => AttachedOK(attached[1]))'
        /\ UNCHANGED <<tree, check>> => (check.phase = "detected" => UnderCheck(check))' /\ DiscAloneGoes'
    <2>1. UNCHANGED tree => TreeOK(tree)' BY <1>1
    <2>2. UNCHANGED <<tree, looked>> => DOMAIN looked' = MovieFolders /\ \A f \in MovieFolders : LookedOK(looked[f])'
      BY <1>1 DEF LookedOK, Measured
    <2>3. UNCHANGED <<tree, attached>> => (attached # <<>> => AttachedOK(attached[1]))' BY <1>1 DEF AttachedOK, Measured
    <2>4. UNCHANGED <<tree, check>> => (check.phase = "detected" => UnderCheck(check))' BY <1>1 DEF UnderCheck, Measured, In
    <2>5. UNCHANGED check => DiscAloneGoes' BY <1>1 DEF DiscAloneGoes
    <2> QED BY <2>1, <2>2, <2>3, <2>4, <2>5
  \* A step that looks into a folder.
  <1>3. ASSUME NEW f \in MovieFolders, NEW l, LookedOK(l), looked' = [looked EXCEPT ![f] = l], UNCHANGED <<tree, attached, check>>
        PROVE  DiscInv'
    <2>1. DOMAIN looked' = MovieFolders /\ \A g \in MovieFolders : looked'[g] = IF g = f THEN l ELSE looked[g] BY <1>1, <1>3
    <2>2. ASSUME NEW g \in MovieFolders PROVE LookedOK(looked[g])'
      <3>1. LookedOK(looked[g]) BY <1>1
      <3>2. CASE g = f BY <3>2, <2>1, <1>3 DEF LookedOK, Measured
      <3>3. CASE g # f BY <3>1, <3>3, <2>1, <1>3 DEF LookedOK, Measured
      <3> QED BY <3>2, <3>3
    <2> QED BY <2>1, <2>2, <1>2, <1>3 DEF DiscInv
  <1>4. ASSUME NEW f \in MovieFolders, DetectFolder(f) PROVE DiscInv'
    <2>1. \A d \in Detect(f) : d.owned.folders \subseteq DOMAIN Folders BY DetectedIsDisc DEF OwnedClean, MovieFolders
    <2>2. LookedOK([phase |-> "found", discs |-> Detect(f)]) BY <2>1 DEF LookedOK
    <2> QED BY <2>2, <1>3, <1>4 DEF DetectFolder, Looked
  <1>5. ASSUME NEW f \in MovieFolders, InspectFolder(f) PROVE DiscInv'
    <2>1. \A d \in looked[f].discs : Measured(Inspect(d)) BY <1>1, <1>5, MeasuredNow DEF InspectFolder, LookedOK
    <2>2. LookedOK([phase |-> "done", discs |-> {Inspect(d) : d \in looked[f].discs}]) BY <2>1 DEF LookedOK
    <2> QED BY <2>2, <1>3, <1>5 DEF InspectFolder, Looked
  <1>6. ASSUME NEW f \in MovieFolders, DetectFails(f) PROVE DiscInv'
    <2>1. LookedOK([phase |-> "done", discs |-> {}]) BY DEF LookedOK
    <2> QED BY <2>1, <1>3, <1>6 DEF DetectFails, Looked
  <1>7. ASSUME Attach PROVE DiscInv'
    <2>1. \A f \in MovieFolders : looked[f].phase = "done" BY <1>1, <1>7 DEF Attach
    <2>2. ASSUME NEW v \in attachDiscs, v.disc # NoDisc PROVE Measured(v.disc)
      <3>1. PICK f \in MovieFolders : v.disc \in looked[f].discs BY <1>1, <2>2, AttachedAreFound
      <3> QED BY <3>1, <2>1, <1>1 DEF LookedOK
    <2>3. AttachedOK(attachDiscs) BY <2>2 DEF AttachedOK
    <2>4. attached' = <<attachDiscs>> /\ UNCHANGED <<tree, looked, check>> BY <1>7 DEF Attach
    <2>5. (attached # <<>> => AttachedOK(attached[1]))' BY <2>3, <2>4 DEF AttachedOK, Measured
    <2> QED BY <2>4, <2>5, <1>2 DEF DiscInv
  <1>8. ASSUME NEW v, NEW f \in DOMAIN Folders, VerifyDetect(v, f) PROVE DiscInv'
    <2>1. Measured(v.disc) BY <1>1, <1>8 DEF VerifyDetect, Deletable, AttachedOK
    <2>2. check' = foundAgain(v, Detect(f)) /\ UNCHANGED <<tree, looked, attached>> BY <1>8 DEF VerifyDetect
    <2>3. \/ check' = [phase |-> "refused"]
          \/ \E d \in Detect(f) : check' = [phase |-> "detected", version |-> v, disc |-> d]
      <3> DEFINE fresh == {d \in Detect(f) : rootsOf(d) = rootsOf(v.disc)}
      <3>1. check' = IF fresh = {} THEN [phase |-> "refused"] ELSE [phase |-> "detected", version |-> v, disc |-> CHOOSE d \in fresh : TRUE]
        BY <2>2 DEF foundAgain
      <3>2. fresh \subseteq Detect(f) OBVIOUS
      <3> HIDE DEF fresh
      <3> QED BY <3>1, <3>2
    <2>4. ASSUME NEW d \in Detect(f), check' = [phase |-> "detected", version |-> v, disc |-> d] PROVE UnderCheck(check)'
      <3>1. OwnedClean(d.owned) BY DetectedIsDisc
      <3>2. check'.version = v /\ check'.disc = d BY <2>4
      <3> QED BY <2>1, <2>2, <3>1, <3>2 DEF UnderCheck, OwnedClean, Measured, In
    <2>5. check'.phase # "passed" BY <2>3
    <2>6. (check.phase = "detected" => UnderCheck(check))' BY <2>3, <2>4
    <2> QED BY <2>2, <2>5, <2>6, <1>2 DEF DiscInv, DiscAloneGoes
  <1>9. ASSUME VerifyMeasure PROVE DiscInv'
    <2> DEFINE now == Inspect(check.disc)
    <2>1. UnderCheck(check) /\ UNCHANGED <<tree, looked, attached>> BY <1>1, <1>9 DEF VerifyMeasure
    <2>2. \/ check'.phase = "refused"
          \/ /\ now.print = check.version.disc.print /\ check'.phase = "passed" /\ check'.takes = folderContent(now.owned)
      BY <1>9 DEF VerifyMeasure
    <2>3. check.disc.owned.folders \subseteq DOMAIN Folders BY <2>1 DEF UnderCheck
    <2>4. /\ now.owned = check.disc.owned
          /\ now.print.folders = {<<g, tree.ver[-g]>> : g \in check.disc.owned.folders} BY <1>1, <2>3, MeasuredNow
    <2>5. ASSUME now.print = check.version.disc.print, NEW e \in folderContent(now.owned) PROVE OfDisc(e)
      <3>1. CASE e \in check.disc.owned.entries BY <3>1, <2>1 DEF UnderCheck
      <3>2. CASE e \in tree.there /\ Entry[e].at \in check.disc.owned.folders
        <4> DEFINE g == Entry[e].at
        <4>1. <<g, tree.ver[-g]>> \in check.version.disc.print.folders BY <3>2, <2>4, <2>5
        <4>2. \A x \in In(g) : OfDisc(x) BY <4>1, <3>2, <2>1 DEF UnderCheck
        <4> QED BY <4>2, <3>2 DEF In
      <3> QED BY <3>1, <3>2, <2>4, <2>5 DEF folderContent
    <2>6. DiscAloneGoes' BY <2>2, <2>5 DEF DiscAloneGoes, OfDisc
    <2>7. check'.phase # "detected" BY <2>2
    <2> QED BY <2>1, <2>6, <2>7, <1>2 DEF DiscInv
  \* The world: the folder that changes has a time it never had.
  <1>10. ASSUME NEW e \in Changing, NEW there, Touch(e, there), \A x : x # e => (x \in there <=> x \in tree.there)
         PROVE  DiscInv'
    <2> DEFINE at == Entry[e].at
    <2>1. e \in Ids /\ at \in DOMAIN Folders BY DiscAssumption
    <2>2. /\ tree' = [there |-> there, ver |-> [tree.ver EXCEPT ![e] = @ + 1, ![-at] = @ + 1]]
          /\ UNCHANGED <<looked, attached, check>> /\ check.phase \in {"none", "detected"} BY <1>10 DEF Touch
    <2>3. tree'.there = there /\ tree'.ver = [tree.ver EXCEPT ![e] = @ + 1, ![-at] = @ + 1] BY <2>2
    <2>4. /\ TreeOK(tree)'
          /\ \A g \in DOMAIN Folders : tree.ver[-g] \in Nat /\ tree'.ver[-g] \in Nat /\ tree'.ver[-g] >= tree.ver[-g]
          /\ tree'.ver[-at] > tree.ver[-at]
      BY <2>1, <2>3, <1>1 DEF TreeOK
    <2> HIDE DEF at
    <2>5. ASSUME NEW d, Measured(d)
          PROVE  /\ \A p \in d.print.folders : p[1] \in DOMAIN Folders /\ p[2] \in Nat /\ p[2] <= tree'.ver[-p[1]]
                 /\ \A g \in DOMAIN Folders : <<g, tree'.ver[-g]>> \in d.print.folders => tree'.ver[-g] = tree.ver[-g]
      <3>1. ASSUME NEW p \in d.print.folders PROVE p[1] \in DOMAIN Folders /\ p[2] \in Nat /\ p[2] <= tree.ver[-p[1]]
        BY <2>5 DEF Measured
      <3>2. ASSUME NEW p \in d.print.folders PROVE p[2] <= tree'.ver[-p[1]] BY <3>1, <2>4
      <3>3. ASSUME NEW g \in DOMAIN Folders, <<g, tree'.ver[-g]>> \in d.print.folders PROVE tree'.ver[-g] = tree.ver[-g]
        <4>1. tree'.ver[-g] <= tree.ver[-g] BY <3>1, <3>3
        <4> QED BY <4>1, <2>4
      <3> QED BY <3>1, <3>2, <3>3
    <2>6. ASSUME NEW f \in MovieFolders PROVE LookedOK(looked[f])'
      <3>1. LookedOK(looked[f]) BY <1>1
      <3> QED BY <3>1, <2>2, <2>5 DEF LookedOK, Measured
    <2>7. ASSUME attached # <<>> PROVE AttachedOK(attached[1])'
      <3>1. AttachedOK(attached[1]) BY <1>1, <2>7
      <3> QED BY <3>1, <2>2, <2>5 DEF AttachedOK, Measured
    <2>8. ASSUME check.phase = "detected" PROVE UnderCheck(check)'
      <3>1. UnderCheck(check) BY <1>1, <2>8
      <3>2. Measured(check.version.disc) BY <3>1 DEF UnderCheck
      <3>3. ASSUME NEW g \in check.disc.owned.folders, <<g, tree'.ver[-g]>> \in check.version.disc.print.folders, NEW x \in In(g)'
            PROVE  OfDisc(x)
        <4>1. g \in DOMAIN Folders BY <3>1 DEF UnderCheck
        <4>2. tree'.ver[-g] = tree.ver[-g] BY <4>1, <3>2, <3>3, <2>5
        <4>3. g # at BY <4>1, <4>2, <2>4
        <4>4. x \in In(g) BY <4>3, <3>3, <2>3, <1>10 DEF In, at
        <4> QED BY <4>1, <4>2, <4>4, <3>1, <3>3 DEF UnderCheck
      <3>4. check' = check BY <2>2
      <3> QED BY <3>1, <3>2, <3>3, <3>4, <2>5 DEF UnderCheck, Measured
    <2> QED BY <2>2, <2>4, <2>6, <2>7, <2>8, <1>1 DEF DiscInv, DiscAloneGoes
  <1>11. ASSUME NEW e \in Changing, EntryAppears(e) \/ EntryGoes(e) PROVE DiscInv'
    <2>1. CASE EntryAppears(e) BY <2>1, <1>10 DEF EntryAppears
    <2>2. CASE EntryGoes(e) BY <2>2, <1>10 DEF EntryGoes
    <2> QED BY <1>11, <2>1, <2>2
  <1> QED BY <1>4, <1>5, <1>6, <1>7, <1>8, <1>9, <1>11 DEF DiscsNext

\* The other parts of the library leave the discs alone.
LEMMA OthersLeaveDiscs ==
  RecycleNext \/ GuardsNext \/ PathsNext \/ ScansNext \/ HistoryNext \/ TrackedNext \/ RescanNext \/ QueueNext \/ ListingNext
    => UNCHANGED discVars
  <1>1. RecycleNext => UNCHANGED discVars BY Zenon DEF RecycleNext, RecycleOnly
  <1>2. GuardsNext => UNCHANGED discVars BY Zenon DEF GuardsNext, GuardsOnly
  <1>3. ScansNext => UNCHANGED discVars BY Zenon DEF ScansNext, ScansOnly
  <1>4. HistoryNext => UNCHANGED discVars BY Zenon DEF HistoryNext, HistoryOnly
  <1>5. PathsNext => UNCHANGED discVars BY Zenon DEF PathsNext, PathsOnly
  <1>6. TrackedNext => UNCHANGED discVars BY Zenon DEF TrackedNext, ArrOnly
  <1>7. RescanNext => UNCHANGED discVars BY Zenon DEF RescanNext, ArrOnly
  <1>8. QueueNext => UNCHANGED discVars BY Zenon DEF QueueNext, ArrOnly
  <1>9. ListingNext => UNCHANGED discVars BY Zenon DEF ListingNext, ListingOnly
  <1> QED BY <1>1, <1>2, <1>3, <1>4, <1>5, <1>6, <1>7, <1>8, <1>9

\* For any catalogue of folders, entries and movies, however the folders change
\* between the scan, the second detection and the second measurement: what passes
\* the check before a disc is removed is a disc's, no plain file goes with it
\* (ownedOf, Measure, verifyDisc).
THEOREM DiscsGoAlone == LibrarySpec => []DiscAloneGoes
  <1>1. LibraryInit => DiscInv BY DiscsInitially DEF LibraryInit
  <1>2. DiscInv /\ [LibraryNext]_libraryVars => DiscInv'
    <2> SUFFICES ASSUME DiscInv, [LibraryNext]_libraryVars PROVE DiscInv' OBVIOUS
    <2>1. UNCHANGED libraryVars => UNCHANGED discVars BY DEF libraryVars
    <2>2. UNCHANGED discVars => DiscInv'
      BY DEF discVars, DiscInv, TreeOK, LookedOK, AttachedOK, UnderCheck, Measured, DiscAloneGoes, In
    <2> QED BY <2>1, <2>2, OthersLeaveDiscs, DiscsStep DEF LibraryNext
  <1>3. DiscInv => DiscAloneGoes BY DEF DiscInv
  <1> QED BY <1>1, <1>2, <1>3, PTL DEF LibrarySpec

-----------------------------------------------------------------------------
(* The checks before a removal: what the run relies on, from the moment it *)
(* verified a group, however the world drifts.                             *)

Sizes == {FileSize[f] : f \in DOMAIN FileSize}
PartRec == [path : FilePaths, size : Sizes]
FreshRec == [path : FilePaths, size : Sizes, exists : BOOLEAN]
RunFields == {"step", "fresh", "keepers", "choice", "left", "ids", "deleted", "kept", "done", "told", "noticed"}
\* The paths that may be removed.
TargetPaths == UNION {Parts(t) : t \in Targets}
\* A path that can be read, and that no removal of a target's files takes away.
Safe(p) ==
  /\ p \in FilePaths /\ content(p) # 0
  /\ p \notin TargetPaths /\ link[p] \notin TargetPaths
  /\ \A q \in TargetPaths : link[q] # link[p]
\* The keepers ks are enough, and whole; a target that is no disc is what the server lists.
Relied(ks) ==
  /\ ks \subseteq KeepFiles /\ verifyKeepers(ks)
  /\ mapped("server") => \A k \in ks : \A p \in Parts(k) : Safe(p)
ListedParts == \A t \in Targets : ~Ver(t).disc => \A i \in DOMAIN lists[t] : lists[t][i].path \in Parts(t)
Removing == {"executing", "post", "over", "failed", "stale"}
GuardTypes ==
  /\ setup \in GuardSetups
  /\ node \in [FilePaths -> DOMAIN FileSize \cup {0}] /\ link \in [FilePaths -> FilePaths]
  /\ lists \in [Vs -> Seq(PartRec)]
  /\ DOMAIN run = RunFields
  /\ run.fresh \in [Vs -> Seq(FreshRec)] /\ run.left \subseteq Targets /\ run.done \subseteq Targets
LinksEnd == \A p \in FilePaths : link[link[p]] = link[p]
FetchedLists ==
  \A v \in Vs : /\ DOMAIN run.fresh[v] = DOMAIN lists[v]
                /\ \A i \in DOMAIN lists[v] : run.fresh[v][i].path = lists[v][i].path
\* Links lead to files; what was fetched is what the server lists; nothing is
\* removed before the group was verified, and no disc goes through the server.
GuardInv ==
  /\ GuardTypes /\ LinksEnd
  /\ run.step = "fetched" => FetchedLists
  /\ run.step \in Removing \cup {"verified", "crossed"} => (\E ks : run.keepers = ks /\ Relied(ks)) /\ ListedParts
  /\ run.step \notin Removing => run.done = {}
  /\ run.step = "executing" => \A t \in run.left : run.choice[t] = "plex" => ~Ver(t).disc

\* What the group says does not change while it is processed.
LEMMA GroupStands ==
  ASSUME UNCHANGED setup
  PROVE  /\ Targets' = Targets /\ KeepFiles' = KeepFiles /\ TargetPaths' = TargetPaths
         /\ \A v : Parts(v)' = Parts(v) /\ Ver(v)' = Ver(v)
         /\ \A ns : mapped(ns)' = mapped(ns)
         /\ \A ks : verifyKeepers(ks)' = verifyKeepers(ks)
  <1>1. \A v : Ver(v)' = Ver(v) BY DEF Ver
  <1>2. Targets' = Targets /\ KeepFiles' = KeepFiles BY DEF Ver, Targets, KeepFiles
  <1>3. \A v : Parts(v)' = Parts(v) BY <1>1 DEF Parts
  <1>4. TargetPaths' = TargetPaths BY DEF TargetPaths, Targets, Parts, Ver
  <1>5. \A ns : mapped(ns)' = mapped(ns) BY DEF mapped
  <1>6. \A ks : verifyKeepers(ks)' = verifyKeepers(ks)
    BY DEF verifyKeepers, partitionKeeperProblem, playableKeeperProblem, playable, tierOf, Targets, KeepFiles, Ver
  <1> QED BY <1>1, <1>2, <1>3, <1>4, <1>5, <1>6

\* The parts of a version are paths.
LEMMA PartsArePaths ==
  ASSUME setup \in GuardSetups, NEW v \in Vs
  PROVE  /\ Ver(v).parts \in Seq(FilePaths) /\ Parts(v) \subseteq FilePaths
         /\ \A i \in DOMAIN Ver(v).parts : Ver(v).parts[i] \in Parts(v)
  <1>1. Ver(v).parts \in Seq(FilePaths) BY GuardAssumption DEF Ver
  <1>2. Parts(v) = {Ver(v).parts[i] : i \in DOMAIN Ver(v).parts} BY DEF Parts, ToSet
  <1> QED BY <1>1, <1>2, ElementOfSeq

\* What is safe stays safe when other paths change, a link among them becoming a file or staying.
LEMMA SafeStays ==
  ASSUME GuardTypes, UNCHANGED setup, NEW p, Safe(p), NEW ps, p \notin ps, link[p] \notin ps,
         \A r \in FilePaths : r \notin ps => link'[r] = link[r] /\ node'[r] = node[r],
         \A r \in FilePaths : link'[r] = r \/ link'[r] = link[r]
  PROVE  Safe(p)'
  <1>1. link[p] \in FilePaths /\ p \in FilePaths BY DEF Safe, GuardTypes
  <1>2. link'[p] = link[p] /\ node'[link[p]] = node[link[p]] BY <1>1
  <1>3. content(p)' # 0 BY <1>2 DEF Safe, content
  <1>4. TargetPaths' = TargetPaths BY GroupStands
  <1>5. ASSUME NEW q \in TargetPaths PROVE link'[q] # link'[p]
    <2>1. q \in FilePaths
      <3>1. PICK t \in Targets : q \in Parts(t) BY DEF TargetPaths
      <3>2. t \in Vs BY DEF Targets
      <3> QED BY <3>1, <3>2, PartsArePaths DEF GuardTypes
    <2>2. link[q] # link[p] /\ q # link[p] BY DEF Safe
    <2> QED BY <2>1, <2>2, <1>2
  <1> QED BY <1>1, <1>2, <1>3, <1>4, <1>5 DEF Safe

\* A target's or keeper's verified path can be read when the disk is mapped.
LEMMA CheckedIsReadable ==
  ASSUME GuardTypes, FetchedLists, mapped("server"), NEW v \in Vs, NEW keeper, checkVersion(v, keeper), NEW p \in Parts(v)
  PROVE  p \in FilePaths /\ content(p) # 0
  <1>1. p \in FilePaths BY PartsArePaths DEF GuardTypes
  <1>2. CASE Ver(v).disc
    <2>1. content(p) = GuardDisk[p] BY <1>2 DEF checkVersion, verifyDisc
    <2> QED BY <2>1, <1>1, GuardAssumption
  <1>3. CASE ~Ver(v).disc
    <2>1. checkPlexVersion(v, keeper) BY <1>3 DEF checkVersion
    <2>2. run.fresh[v] \in Seq(FreshRec) /\ Ver(v).parts \in Seq(FilePaths) BY PartsArePaths DEF GuardTypes
    <2>3. PICK i \in DOMAIN Ver(v).parts : p = Ver(v).parts[i] BY DEF Parts, ToSet
    <2>4. i \in DOMAIN run.fresh[v] BY <2>1, <2>2, <2>3 DEF checkPlexVersion
    <2>5. checkPart(v, i, keeper) BY <2>1, <2>4 DEF checkPlexVersion
    <2> QED BY <2>3, <2>5, <1>1 DEF checkPart
  <1> QED BY <1>2, <1>3

\* What passes the verification can be relied on.
LEMMA VerifiedIsRelied ==
  ASSUME GuardTypes, LinksEnd, FetchedLists, verifyTargets, verifyKeepers(verifiedKeepers)
  PROVE  Relied(verifiedKeepers) /\ ListedParts
  <1>1. verifiedKeepers \subseteq KeepFiles BY DEF verifiedKeepers
  <1>2. ASSUME mapped("server"), NEW k \in verifiedKeepers, NEW p \in Parts(k) PROVE Safe(p)
    <2>1. k \in KeepFiles /\ k \in Vs /\ checkVersion(k, TRUE) BY DEF verifiedKeepers, KeepFiles
    <2>2. p \in FilePaths /\ content(p) # 0 BY <1>2, <2>1, CheckedIsReadable
    <2>3. ASSUME NEW q \in TargetPaths PROVE q # p /\ link[q] # link[p]
      <3>1. PICK t \in Targets : q \in Parts(t) BY DEF TargetPaths
      <3>2. t \in Vs /\ checkVersion(t, FALSE) /\ ~sharesFile(t, k) BY <2>1, <3>1 DEF Targets, verifyTargets
      <3>3. content(q) # 0 BY <1>2, <3>1, <3>2, CheckedIsReadable
      <3> QED BY <1>2, <3>1, <3>2, <3>3 DEF sharesFile, sameFile, sameResolved
    <2>4. link[p] \notin TargetPaths BY <2>2, <2>3 DEF LinksEnd
    <2> QED BY <2>2, <2>3, <2>4 DEF Safe
  <1>3. ASSUME NEW t \in Targets, ~Ver(t).disc, NEW i \in DOMAIN lists[t] PROVE lists[t][i].path \in Parts(t)
    <2>1. t \in Vs /\ checkPlexVersion(t, FALSE) BY <1>3 DEF Targets, verifyTargets, checkVersion
    <2>2. run.fresh[t] \in Seq(FreshRec) /\ Ver(t).parts \in Seq(FilePaths) BY <2>1, PartsArePaths DEF GuardTypes
    <2>3. i \in DOMAIN run.fresh[t] /\ run.fresh[t][i].path = lists[t][i].path BY <2>1 DEF FetchedLists
    <2>4. i \in DOMAIN Ver(t).parts BY <2>1, <2>2, <2>3 DEF checkPlexVersion
    <2>5. run.fresh[t][i].path = Ver(t).parts[i] BY <2>1, <2>3 DEF checkPlexVersion, checkPart
    <2> QED BY <2>1, <2>3, <2>4, <2>5, PartsArePaths DEF GuardTypes
  <1> QED BY <1>1, <1>2, <1>3 DEF Relied, ListedParts

\* A method that deletes through the server is not used for a disc.
LEMMA PlexIsNoDisc ==
  ASSUME NEW v, selectMethod(v) = "plex" PROVE ~Ver(v).disc
  <1> DEFINE usable == {i \in DOMAIN setup.methods : answer(setup.methods[i], v) = "yes" /\ \A j \in 1..(i - 1) : answer(setup.methods[j], v) = "no"}
             i == CHOOSE n \in usable : TRUE
  <1>1. usable # {} /\ setup.methods[i] = "plex" BY DEF selectMethod
  <1>2. i \in usable BY <1>1
  <1>3. answer("plex", v) = "yes" BY <1>1, <1>2
  <1>4. plexChoice(v) = "yes" BY <1>3 DEF answer
  <1> QED BY <1>4 DEF plexChoice

\* What a run relies on stands while only other paths change.
LEMMA ReliedStays ==
  ASSUME GuardTypes, UNCHANGED setup, NEW ks, Relied(ks), NEW ps,
         mapped("server") => \A k \in ks : \A p \in Parts(k) : p \notin ps /\ link[p] \notin ps,
         \A r \in FilePaths : r \notin ps => link'[r] = link[r] /\ node'[r] = node[r],
         \A r \in FilePaths : link'[r] = r \/ link'[r] = link[r]
  PROVE  Relied(ks)'
  <1>1. ks \subseteq KeepFiles' /\ verifyKeepers(ks)' BY GroupStands DEF Relied
  <1>2. ASSUME mapped("server")', NEW k \in ks, NEW p \in Parts(k)' PROVE Safe(p)'
    <2>1. mapped("server") /\ p \in Parts(k) BY <1>2, GroupStands
    <2>2. Safe(p) /\ p \notin ps /\ link[p] \notin ps BY <2>1 DEF Relied
    <2> QED BY <2>2, SafeStays
  <1> QED BY <1>1, <1>2 DEF Relied

\* So it does where nothing changes on the disk.
LEMMA ReliedStands ==
  ASSUME GuardTypes, UNCHANGED <<setup, node, link>>, NEW ks, Relied(ks) PROVE Relied(ks)'
  <1>1. ks \subseteq KeepFiles' /\ verifyKeepers(ks)' BY GroupStands DEF Relied
  <1>2. ASSUME mapped("server")', NEW k \in ks, NEW p \in Parts(k)' PROVE Safe(p)'
    <2>1. Safe(p) BY <1>2, GroupStands DEF Relied
    <2>2. TargetPaths' = TargetPaths BY GroupStands
    <2> QED BY <2>1, <2>2 DEF Safe, content
  <1> QED BY <1>1, <1>2 DEF Relied

\* Deleting a target's own paths, or a link to one, takes nothing safe.
LEMMA SafeFromDeletion ==
  ASSUME GuardTypes, LinksEnd, NEW p, Safe(p), NEW r, r \in TargetPaths \/ \E q \in TargetPaths : link[r] = link[q]
  PROVE  p # r /\ link[p] # r
  <1>1. p \in FilePaths /\ link[link[p]] = link[p] BY DEF Safe, LinksEnd
  <1> QED BY <1>1 DEF Safe

\* What each method deletes.
LEMMA MethodsDelete ==
  ASSUME GuardTypes, ListedParts, NEW t \in Targets, run.choice[t] = "plex" => ~Ver(t).disc,
         CASE run.choice[t] = "arr" -> performArr(t)
           [] run.choice[t] = "plex" -> performPlex(t)
           [] OTHER -> performFS(t)
  PROVE  \/ Stale
         \/ \E ps : /\ Deletes(t, ps)
                    /\ \A r \in ps : r \in TargetPaths \/ \E q \in TargetPaths : link[r] = link[q]
  <1>1. Parts(t) \subseteq TargetPaths BY DEF TargetPaths
  <1>2. t \in Vs BY DEF Targets
  <1>3. CASE run.choice[t] = "arr"
    <2>1. performArr(t) BY <1>3
    <2>2. CASE arrFileProblem(t) BY <2>1, <2>2 DEF performArr
    <2>3. CASE ~arrFileProblem(t)
      <3> DEFINE r == tracked[Ver(t).arr].path
                 q == Ver(t).parts[1]
      <3>1. Deletes(t, {r}) BY <2>1, <2>3 DEF performArr
      <3>2. Len(Ver(t).parts) = 1 /\ (r = q \/ link[r] = link[q]) BY <2>3 DEF arrFileProblem, sameResolved
      <3>3. q \in Parts(t)
        <4>1. Ver(t).parts \in Seq(FilePaths) BY <1>2, PartsArePaths DEF GuardTypes
        <4>2. 1 \in DOMAIN Ver(t).parts BY <4>1, <3>2
        <4> QED BY <4>2, <1>2, PartsArePaths DEF GuardTypes
      <3>4. r \in TargetPaths \/ \E x \in TargetPaths : link[r] = link[x] BY <3>2, <3>3, <1>1
      <3> HIDE DEF r, q
      <3> QED BY <3>1, <3>4
    <2> QED BY <2>2, <2>3
  <1>4. CASE run.choice[t] = "plex"
    <2> DEFINE ps == {lists[t][i].path : i \in DOMAIN lists[t]}
    <2>1. performPlex(t) BY <1>4
    <2>2. Stale \/ Deletes(t, ps) BY <2>1 DEF performPlex
    <2>3. \A r \in ps : r \in TargetPaths BY <1>1, <1>4 DEF ListedParts
    <2> HIDE DEF ps
    <2> QED BY <2>2, <2>3
  <1>5. CASE run.choice[t] # "arr" /\ run.choice[t] # "plex"
    <2>1. performFS(t) BY <1>5
    <2>2. Stale \/ Deletes(t, Parts(t)) BY <2>1 DEF performFS
    <2> QED BY <2>2, <1>1
  <1> QED BY <1>3, <1>4, <1>5

\* The invariant holds at first.
LEMMA GuardsInitially == ASSUME GuardInit PROVE GuardInv
  <1>1. setup \in GuardSetups BY DEF GuardInit
  <1>2. node \in [FilePaths -> DOMAIN FileSize \cup {0}] /\ link \in [FilePaths -> FilePaths] /\ LinksEnd
    BY GuardAssumption DEF GuardInit, LinksEnd
  <1>3. ASSUME NEW v \in Vs, ~Ver(v).disc
        PROVE  [i \in DOMAIN Ver(v).parts |-> [path |-> Ver(v).parts[i], size |-> StoredSize(v, i)]] \in Seq(PartRec)
    <2>1. Ver(v).parts \in Seq(FilePaths) BY <1>1, <1>3, PartsArePaths
    <2>2. ASSUME NEW i \in DOMAIN Ver(v).parts PROVE [path |-> Ver(v).parts[i], size |-> StoredSize(v, i)] \in PartRec
      <3>1. Ver(v).parts[i] \in FilePaths BY <2>1, ElementOfSeq
      <3>2. StoredSize(v, i) \in Sizes BY <3>1, GuardAssumption DEF StoredSize, Sizes
      <3> QED BY <3>1, <3>2 DEF PartRec
    <2> QED BY <2>1, <2>2
  <1>4. lists \in [Vs -> Seq(PartRec)] BY <1>3 DEF GuardInit
  <1>5. /\ DOMAIN run = RunFields /\ run.step = "start" /\ run.left = {} /\ run.done = {}
        /\ run.fresh \in [Vs -> Seq(FreshRec)] BY DEF GuardInit, RunFields
  <1> QED BY <1>1, <1>2, <1>4, <1>5 DEF GuardInv, GuardTypes, Removing

\* It depends on the disk, the lists, the setup and the run only.
LEMMA GuardsStutter == ASSUME GuardInv, UNCHANGED <<node, link, lists, setup, run>> PROVE GuardInv'
  <1>1. Targets' = Targets /\ KeepFiles' = KeepFiles /\ \A v : Parts(v)' = Parts(v) /\ Ver(v)' = Ver(v) BY GroupStands
  <1>2. GuardTypes' BY <1>1 DEF GuardInv, GuardTypes
  <1>3. LinksEnd' BY DEF GuardInv, LinksEnd
  <1>4. run'.step = "fetched" => FetchedLists' BY DEF GuardInv, FetchedLists
  <1>5. ASSUME run'.step \in Removing \cup {"verified", "crossed"} PROVE (\E ks : run'.keepers = ks /\ Relied(ks)') /\ ListedParts'
    <2>1. PICK ks : run.keepers = ks /\ Relied(ks) BY <1>5 DEF GuardInv
    <2>2. Relied(ks)' BY <2>1, ReliedStands DEF GuardInv
    <2>3. ListedParts' BY <1>1, <1>5 DEF GuardInv, ListedParts
    <2> QED BY <2>1, <2>2, <2>3
  <1>6. run'.step \notin Removing => run'.done = {} BY DEF GuardInv
  <1>7. run'.step = "executing" => \A t \in run'.left : run'.choice[t] = "plex" => ~Ver(t)'.disc BY <1>1 DEF GuardInv
  <1> QED BY <1>2, <1>3, <1>4, <1>5, <1>6, <1>7 DEF GuardInv

\* Every step of the run and of the world keeps it.
LEMMA GuardsStep == ASSUME GuardInv, GuardsNext PROVE GuardInv'
  <1>1. /\ GuardTypes /\ LinksEnd
        /\ run.step = "fetched" => FetchedLists
        /\ run.step \in Removing \cup {"verified", "crossed"} => (\E ks : run.keepers = ks /\ Relied(ks)) /\ ListedParts
        /\ run.step \notin Removing => run.done = {}
        /\ run.step = "executing" => \A t \in run.left : run.choice[t] = "plex" => ~Ver(t).disc
    BY DEF GuardInv
  <1>2. UNCHANGED setup BY DEF GuardsNext, CheckGroup, DeferGroup, Verify, CheckOtherServers, SelectMethods, Perform, PerformFails,
    PostActions, FileReplaced, FileLinked, ServerScans, ArrMoves, ServerSwapped, OtherScans, OtherBusy, WorldUnchanged
  <1>3. Targets' = Targets /\ KeepFiles' = KeepFiles /\ \A v : Parts(v)' = Parts(v) /\ Ver(v)' = Ver(v) BY <1>2, GroupStands
  <1>4. DOMAIN run = RunFields BY <1>1 DEF GuardTypes
  \* A step of the run that leaves disk and lists alone and removes nothing.
  <1>5. ASSUME UNCHANGED <<node, link, lists>>, UNCHANGED <<run.fresh, run.keepers, run.choice, run.left, run.done>>, DOMAIN run' = RunFields,
               \/ run'.step = run.step
               \/ run.step \notin Removing /\ run'.step \in {"skipped", "deferred", "refused"}
               \/ run.step = "verified" /\ run'.step = "crossed"
               \/ run.step \in Removing /\ run'.step \in {"failed", "stale"}
        PROVE  GuardInv'
    <2>1. GuardTypes' BY <1>1, <1>2, <1>3, <1>5 DEF GuardTypes
    <2>2. LinksEnd' BY <1>1, <1>5 DEF LinksEnd
    <2>3. run'.step = "fetched" => FetchedLists' BY <1>1, <1>5 DEF FetchedLists
    <2>4. ASSUME run'.step \in Removing \cup {"verified", "crossed"} PROVE (\E ks : run'.keepers = ks /\ Relied(ks)') /\ ListedParts'
      <3>1. run.step \in Removing \cup {"verified", "crossed"} BY <1>5, <2>4 DEF Removing
      <3>2. PICK ks : run.keepers = ks /\ Relied(ks) BY <1>1, <3>1
      <3>3. Relied(ks)' BY <1>1, <1>2, <1>5, <3>2, ReliedStands
      <3>4. ListedParts' BY <1>1, <1>3, <1>5, <3>1 DEF ListedParts
      <3> QED BY <1>5, <3>2, <3>3, <3>4
    <2>5. run'.step \notin Removing => run'.done = {} BY <1>1, <1>5 DEF Removing
    <2>6. run'.step = "executing" => \A t \in run'.left : run'.choice[t] = "plex" => ~Ver(t)'.disc BY <1>1, <1>3, <1>5
    <2> QED BY <2>1, <2>2, <2>3, <2>4, <2>5, <2>6 DEF GuardInv
  <1>6. ASSUME NEW s, To(s), UNCHANGED <<node, link, lists>>,
               \/ run.step \notin Removing /\ s \in {"skipped", "deferred", "refused"}
               \/ run.step = "verified" /\ s = "crossed"
               \/ run.step \in Removing /\ s \in {"failed", "stale"}
        PROVE  GuardInv'
    <2>1. /\ UNCHANGED <<run.fresh, run.keepers, run.choice, run.left, run.done>> /\ DOMAIN run' = RunFields /\ run'.step = s
      BY <1>4, <1>6 DEF To, RunFields
    <2> QED BY <1>5, <1>6, <2>1
  <1>7. ASSUME CheckGroup PROVE GuardInv'
    <2> DEFINE fetched == [v \in Vs |-> [i \in DOMAIN lists[v] |->
                [path |-> lists[v][i].path, size |-> lists[v][i].size, exists |-> content(lists[v][i].path) # 0]]]
    <2>1. UNCHANGED <<node, link, lists>> /\ run.step = "start" BY <1>7 DEF CheckGroup, WorldUnchanged
    <2>2. To("skipped") \/ run' = [run EXCEPT !.step = "fetched", !.fresh = fetched] BY <1>7 DEF CheckGroup
    <2>3. CASE To("skipped") BY <2>1, <2>3, <1>6 DEF Removing
    <2>4. CASE run' = [run EXCEPT !.step = "fetched", !.fresh = fetched]
      <3>1. fetched \in [Vs -> Seq(FreshRec)]
        <4>1. ASSUME NEW v \in Vs PROVE fetched[v] \in Seq(FreshRec)
          <5>1. lists[v] \in Seq(PartRec) BY <1>1 DEF GuardTypes
          <5>2. ASSUME NEW i \in DOMAIN lists[v]
                PROVE  [path |-> lists[v][i].path, size |-> lists[v][i].size, exists |-> content(lists[v][i].path) # 0] \in FreshRec
            <6>1. lists[v][i] \in PartRec BY <5>1, ElementOfSeq
            <6> QED BY <6>1 DEF PartRec, FreshRec
          <5> DEFINE read(i) == [path |-> lists[v][i].path, size |-> lists[v][i].size, exists |-> content(lists[v][i].path) # 0]
          <5>3. fetched[v] = [i \in 1..Len(lists[v]) |-> read(i)] BY <5>1
          <5>4. \A i \in 1..Len(lists[v]) : read(i) \in FreshRec BY <5>1, <5>2
          <5>5. Len(lists[v]) \in Nat BY <5>1
          <5> HIDE DEF read, fetched
          <5>6. [i \in 1..Len(lists[v]) |-> read(i)] \in Seq(FreshRec) BY <5>4, <5>5
          <5> QED BY <5>3, <5>6
        <4> QED BY <4>1
      <3>2. \A v \in Vs : /\ DOMAIN fetched[v] = DOMAIN lists[v]
                          /\ \A i \in DOMAIN lists[v] : fetched[v][i].path = lists[v][i].path OBVIOUS
      <3> HIDE DEF fetched
      <3>3. /\ run'.step = "fetched" /\ run'.fresh = fetched /\ DOMAIN run' = RunFields
            /\ UNCHANGED <<run.left, run.done>> BY <1>4, <2>4 DEF RunFields
      <3>4. GuardTypes' /\ LinksEnd' BY <1>1, <1>2, <1>3, <2>1, <3>1, <3>3 DEF GuardTypes, LinksEnd
      <3>5. FetchedLists' BY <2>1, <3>2, <3>3 DEF FetchedLists
      <3>6. run'.done = {} BY <1>1, <2>1, <3>3 DEF Removing
      <3> QED BY <3>3, <3>4, <3>5, <3>6 DEF GuardInv, Removing
    <2> QED BY <2>2, <2>3, <2>4
  <1>8. ASSUME DeferGroup PROVE GuardInv' BY <1>6, <1>8 DEF DeferGroup, WorldUnchanged, Removing
  <1>9. ASSUME Verify PROVE GuardInv'
    <2>1. UNCHANGED <<node, link, lists>> /\ run.step = "fetched" BY <1>9 DEF Verify, WorldUnchanged
    <2>2. \/ To("skipped") \/ To("deferred")
          \/ verifyTargets /\ verifyKeepers(verifiedKeepers) /\ run' = [run EXCEPT !.step = "verified", !.keepers = verifiedKeepers]
      BY <1>9 DEF Verify
    <2>3. CASE To("skipped") \/ To("deferred") BY <2>1, <2>3, <1>6 DEF Removing
    <2>4. CASE verifyTargets /\ verifyKeepers(verifiedKeepers) /\ run' = [run EXCEPT !.step = "verified", !.keepers = verifiedKeepers]
      <3>1. PICK ks : ks = verifiedKeepers OBVIOUS
      <3>2. Relied(ks) /\ ListedParts BY <1>1, <2>1, <2>4, <3>1, VerifiedIsRelied
      <3>3. /\ run'.step = "verified" /\ run'.keepers = ks /\ DOMAIN run' = RunFields
            /\ UNCHANGED <<run.fresh, run.left, run.done>> BY <1>4, <2>4, <3>1 DEF RunFields
      <3>4. GuardTypes' /\ LinksEnd' BY <1>1, <1>2, <1>3, <2>1, <3>3 DEF GuardTypes, LinksEnd
      <3>5. Relied(ks)' BY <1>1, <1>2, <2>1, <3>2, ReliedStands
      <3>6. ListedParts' BY <1>3, <2>1, <3>2 DEF ListedParts
      <3>7. run'.done = {} BY <1>1, <2>1, <3>3 DEF Removing
      <3> QED BY <3>3, <3>4, <3>5, <3>6, <3>7 DEF GuardInv, Removing
    <2> QED BY <2>2, <2>3, <2>4
  <1>10. ASSUME CheckOtherServers PROVE GuardInv'
    <2>1. UNCHANGED <<node, link, lists>> /\ run.step = "verified" BY <1>10 DEF CheckOtherServers, WorldUnchanged
    <2>2. To("crossed") \/ To("deferred") \/ To("skipped") BY <1>10 DEF CheckOtherServers
    <2> QED BY <2>1, <2>2, <1>6 DEF Removing
  <1>11. ASSUME SelectMethods PROVE GuardInv'
    <2> DEFINE choice == [t \in Targets |-> selectMethod(t)]
    <2>1. UNCHANGED <<node, link, lists>> /\ run.step = "crossed" BY <1>11 DEF SelectMethods, WorldUnchanged
    <2>2. \/ To("refused") \/ To("skipped")
          \/ run' = [run EXCEPT !.step = "executing", !.choice = choice, !.left = Targets, !.ids = [p \in FilePaths |-> node[p]]]
      BY <1>11 DEF SelectMethods
    <2>3. CASE To("refused") \/ To("skipped") BY <2>1, <2>3, <1>6 DEF Removing
    <2>4. CASE run' = [run EXCEPT !.step = "executing", !.choice = choice, !.left = Targets, !.ids = [p \in FilePaths |-> node[p]]]
      <3>1. \A t \in Targets : choice[t] = "plex" => ~Ver(t).disc BY PlexIsNoDisc
      <3> HIDE DEF choice
      <3>2. /\ run'.step = "executing" /\ run'.choice = choice /\ run'.left = Targets /\ DOMAIN run' = RunFields
            /\ UNCHANGED <<run.fresh, run.keepers, run.done>> BY <1>4, <2>4 DEF RunFields
      <3>3. GuardTypes' /\ LinksEnd' BY <1>1, <1>2, <1>3, <2>1, <3>2 DEF GuardTypes, LinksEnd
      <3>4. PICK ks : run.keepers = ks /\ Relied(ks) BY <1>1, <2>1
      <3>5. Relied(ks)' /\ run'.keepers = ks BY <1>1, <1>2, <2>1, <3>2, <3>4, ReliedStands
      <3>6. ListedParts' BY <1>1, <1>3, <2>1 DEF ListedParts
      <3>7. \A t \in run'.left : run'.choice[t] = "plex" => ~Ver(t)'.disc BY <1>3, <3>1, <3>2
      <3> QED BY <3>2, <3>3, <3>5, <3>6, <3>7 DEF GuardInv, Removing
    <2> QED BY <2>2, <2>3, <2>4
  \* A step of the world that leaves the run alone and no path of a keeper.
  <1>12. ASSUME UNCHANGED run, lists' \in [Vs -> Seq(PartRec)], node' \in [FilePaths -> DOMAIN FileSize \cup {0}],
                NEW ps, link' \in [FilePaths -> FilePaths], LinksEnd',
                run.step # "start" => lists' = lists,
                run.step \in Removing \cup {"verified", "crossed"} =>
                  /\ \A r \in ps : r \in TargetPaths
                  /\ \A r \in FilePaths : r \notin ps => link'[r] = link[r] /\ node'[r] = node[r]
                  /\ \A r \in FilePaths : link'[r] = r \/ link'[r] = link[r]
         PROVE  GuardInv'
    <2>1. GuardTypes' BY <1>1, <1>2, <1>3, <1>12 DEF GuardTypes
    <2>2. run'.step = "fetched" => FetchedLists' BY <1>1, <1>12 DEF FetchedLists
    <2>3. ASSUME run'.step \in Removing \cup {"verified", "crossed"} PROVE (\E ks : run'.keepers = ks /\ Relied(ks)') /\ ListedParts'
      <3>1. run.step \in Removing \cup {"verified", "crossed"} /\ run.step # "start" BY <1>12, <2>3 DEF Removing
      <3>2. PICK ks : run.keepers = ks /\ Relied(ks) BY <1>1, <3>1
      <3>3. ASSUME mapped("server"), NEW k \in ks, NEW p \in Parts(k) PROVE p \notin ps /\ link[p] \notin ps
        <4>1. Safe(p) BY <3>2, <3>3 DEF Relied
        <4> QED BY <1>12, <3>1, <4>1 DEF Safe
      <3>4. Relied(ks)' BY <1>1, <1>2, <1>12, <3>1, <3>2, <3>3, ReliedStays
      <3>5. ListedParts' BY <1>1, <1>3, <1>12, <3>1 DEF ListedParts
      <3> QED BY <1>12, <3>2, <3>4, <3>5
    <2>4. run'.step \notin Removing => run'.done = {} BY <1>1, <1>12
    <2>5. run'.step = "executing" => \A t \in run'.left : run'.choice[t] = "plex" => ~Ver(t)'.disc BY <1>1, <1>3, <1>12
    <2> QED BY <1>12, <2>1, <2>2, <2>3, <2>4, <2>5 DEF GuardInv
  <1>13. ASSUME NEW t \in Targets, Perform(t) PROVE GuardInv'
    <2>1. run.step = "executing" /\ t \in run.left /\ UNCHANGED lists BY <1>13 DEF Perform
    <2>2. PICK ks : run.keepers = ks /\ Relied(ks) BY <1>1, <2>1 DEF Removing
    <2>3. ListedParts /\ (run.choice[t] = "plex" => ~Ver(t).disc) BY <1>1, <2>1 DEF Removing
    <2>4. \/ Stale
          \/ \E ps : /\ Deletes(t, ps)
                     /\ \A r \in ps : r \in TargetPaths \/ \E q \in TargetPaths : link[r] = link[q]
      BY <1>1, <1>13, <2>3, MethodsDelete DEF Perform
    <2>5. CASE Stale BY <1>6, <2>1, <2>5 DEF Stale, Removing
    <2>6. ASSUME NEW ps, Deletes(t, ps), \A r \in ps : r \in TargetPaths \/ \E q \in TargetPaths : link[r] = link[q]
          PROVE  GuardInv'
      <3>1. /\ node' = [p \in FilePaths |-> IF p \in ps THEN 0 ELSE node[p]]
            /\ link' = [p \in FilePaths |-> IF p \in ps THEN p ELSE link[p]] BY <2>6 DEF Deletes, remove
      <3>2. /\ DOMAIN run' = RunFields /\ UNCHANGED <<run.fresh, run.keepers, run.choice>>
            /\ run'.left = run.left \ {t} /\ run'.done \in {run.done, run.done \cup {t}}
            /\ run'.step \in {"failed", "post", "executing"}
        BY <1>4, <2>1, <2>6 DEF Deletes, Outcome, RunFields
      <3>3. GuardTypes' BY <1>1, <1>2, <1>3, <2>1, <3>1, <3>2 DEF GuardTypes
      <3>4. LinksEnd'
        <4>1. ASSUME NEW p \in FilePaths PROVE link'[link'[p]] = link'[p]
          <5>1. link[p] \in FilePaths /\ link[link[p]] = link[p] BY <1>1 DEF GuardTypes, LinksEnd
          <5> QED BY <3>1, <5>1
        <4> QED BY <4>1 DEF LinksEnd
      <3>5. Relied(ks)'
        <4>1. ASSUME mapped("server"), NEW k \in ks, NEW p \in Parts(k) PROVE p \notin ps /\ link[p] \notin ps
          <5>1. Safe(p) BY <2>2, <4>1 DEF Relied
          <5> QED BY <1>1, <2>6, <5>1, SafeFromDeletion
        <4>2. /\ \A r \in FilePaths : r \notin ps => link'[r] = link[r] /\ node'[r] = node[r]
              /\ \A r \in FilePaths : link'[r] = r \/ link'[r] = link[r] BY <3>1
        <4> QED BY <1>1, <1>2, <2>2, <4>1, <4>2, ReliedStays
      <3>6. ListedParts' BY <1>3, <2>1, <2>3 DEF ListedParts
      <3>7. \A x \in run'.left : run'.choice[x] = "plex" => ~Ver(x)'.disc BY <1>1, <1>3, <2>1, <3>2
      <3> QED BY <2>2, <3>2, <3>3, <3>4, <3>5, <3>6, <3>7 DEF GuardInv, Removing
    <2> QED BY <2>4, <2>5, <2>6
  <1>14. ASSUME PerformFails PROVE GuardInv' BY <1>6, <1>14 DEF PerformFails, WorldUnchanged, Removing
  <1>15. ASSUME PostActions PROVE GuardInv'
    <2> DEFINE cleaned == IF setup.cleanup /\ ~setup.readOnly
                        THEN {t \in run.done : run.choice[t] # "plex" /\ ~Ver(t).disc /\ staleEntry(t)} ELSE {}
               ps == UNION {{lists[t][i].path : i \in DOMAIN lists[t]} : t \in cleaned}
    <2>1. /\ run.step = "post" /\ UNCHANGED link /\ node' = remove(node, ps)
          /\ lists' = [t \in Vs |-> IF t \in cleaned THEN <<>> ELSE lists[t]]
      BY <1>15 DEF PostActions
    <2>2. /\ DOMAIN run' = RunFields /\ UNCHANGED <<run.fresh, run.keepers, run.choice, run.left, run.done>> /\ run'.step = "over"
      BY <1>4, <1>15 DEF PostActions, RunFields
    <2>3. \A r \in ps : r \in TargetPaths
      <3>1. ASSUME NEW t \in cleaned, NEW i \in DOMAIN lists[t] PROVE lists[t][i].path \in TargetPaths
        <4>1. t \in Targets /\ staleEntry(t) BY <1>1 DEF GuardTypes
        <4> HIDE DEF cleaned
        <4> QED BY <4>1 DEF staleEntry, TargetPaths
      <3> HIDE DEF cleaned
      <3> QED BY <3>1
    <2>4. lists' \in [Vs -> Seq(PartRec)]
      <3> HIDE DEF cleaned
      <3>1. <<>> \in Seq(PartRec) OBVIOUS
      <3> QED BY <1>1, <2>1, <3>1 DEF GuardTypes
    <2>5. PICK ks : run.keepers = ks /\ Relied(ks) BY <1>1, <2>1 DEF Removing
    <2> HIDE DEF ps
    <2>6. \A r \in FilePaths : (r \notin ps => node'[r] = node[r]) /\ node'[r] \in DOMAIN FileSize \cup {0}
      BY <1>1, <2>1 DEF remove, GuardTypes
    <2>7. node' \in [FilePaths -> DOMAIN FileSize \cup {0}] BY <2>1, <2>6 DEF remove
    <2>8. GuardTypes' /\ LinksEnd' BY <1>1, <1>2, <1>3, <2>1, <2>2, <2>4, <2>7 DEF GuardTypes, LinksEnd
    <2>9. Relied(ks)'
      <3>1. ASSUME mapped("server"), NEW k \in ks, NEW p \in Parts(k) PROVE p \notin ps /\ link[p] \notin ps
        <4>1. Safe(p) BY <2>5, <3>1 DEF Relied
        <4> QED BY <2>3, <4>1 DEF Safe
      <3> QED BY <1>1, <1>2, <2>1, <2>5, <2>6, <3>1, ReliedStays
    <2>10. ListedParts'
      <3>1. ASSUME NEW t \in Targets, ~Ver(t).disc, NEW i \in DOMAIN lists'[t] PROVE lists'[t][i].path \in Parts(t)
        <4> HIDE DEF cleaned
        <4>1. t \in Vs BY DEF Targets
        <4>2. t \notin cleaned /\ lists'[t] = lists[t] BY <2>1, <3>1, <4>1
        <4> QED BY <1>1, <2>1, <3>1, <4>2 DEF ListedParts, Removing
      <3> QED BY <1>3, <3>1 DEF ListedParts
    <2> QED BY <2>2, <2>5, <2>8, <2>9, <2>10 DEF GuardInv, Removing
  <1>16. ASSUME NEW p \in FilePaths, FileReplaced(p) PROVE GuardInv'
    <2>1. PICK f \in DOMAIN FileSize \cup {0} : node' = [node EXCEPT ![p] = f] BY <1>16 DEF FileReplaced
    <2>2. link' = [link EXCEPT ![p] = p] /\ UNCHANGED <<run, lists>> /\ Loose(p) BY <1>16 DEF FileReplaced
    <2>3. node' \in [FilePaths -> DOMAIN FileSize \cup {0}] /\ link' \in [FilePaths -> FilePaths] BY <1>1, <2>1, <2>2 DEF GuardTypes
    <2>4. LinksEnd'
      <3>1. ASSUME NEW r \in FilePaths PROVE link'[link'[r]] = link'[r]
        <4>1. link[r] \in FilePaths /\ link[link[r]] = link[r] BY <1>1 DEF GuardTypes, LinksEnd
        <4>2. link \in [FilePaths -> FilePaths] BY <1>1 DEF GuardTypes
        <4> QED BY <2>2, <4>1, <4>2
      <3> QED BY <3>1 DEF LinksEnd
    <2>5. /\ \A r \in FilePaths : r \notin {p} => link'[r] = link[r] /\ node'[r] = node[r]
          /\ \A r \in FilePaths : link'[r] = r \/ link'[r] = link[r] BY <1>1, <2>1, <2>2 DEF GuardTypes
    <2>6. run.step \in Removing \cup {"verified", "crossed"} => p \in TargetPaths BY <2>2 DEF Loose, TargetPaths, Removing
    <2>7. lists' \in [Vs -> Seq(PartRec)] BY <1>1, <2>2 DEF GuardTypes
    <2>8. PICK ps : ps = {p} OBVIOUS
    <2>9. run.step \in Removing \cup {"verified", "crossed"} => \A r \in ps : r \in TargetPaths BY <2>6, <2>8
    <2>10. /\ \A r \in FilePaths : r \notin ps => link'[r] = link[r] /\ node'[r] = node[r]
           /\ \A r \in FilePaths : link'[r] = r \/ link'[r] = link[r] BY <2>5, <2>8
    <2>11. UNCHANGED run /\ lists' = lists BY <2>2
    <2> QED BY <1>12, <2>3, <2>4, <2>7, <2>9, <2>10, <2>11
  <1>17. ASSUME NEW p \in FilePaths, NEW q \in FilePaths, FileLinked(p, q) PROVE GuardInv'
    <2>1. /\ node' = [node EXCEPT ![p] = 0] /\ link' = [link EXCEPT ![p] = q] /\ UNCHANGED <<run, lists>>
          /\ run.step \in {"start", "fetched"} /\ p # q /\ link[q] = q /\ \A r \in FilePaths : link[r] = p => r = p
      BY <1>17 DEF FileLinked
    <2>2. node' \in [FilePaths -> DOMAIN FileSize \cup {0}] /\ link' \in [FilePaths -> FilePaths] BY <1>1, <2>1 DEF GuardTypes
    <2>3. LinksEnd'
      <3>1. ASSUME NEW r \in FilePaths PROVE link'[link'[r]] = link'[r]
        <4>1. link[r] \in FilePaths /\ link[link[r]] = link[r] BY <1>1 DEF GuardTypes, LinksEnd
        <4>2. link \in [FilePaths -> FilePaths] BY <1>1 DEF GuardTypes
        <4> QED BY <2>1, <4>1, <4>2
      <3> QED BY <3>1 DEF LinksEnd
    <2>4. lists' \in [Vs -> Seq(PartRec)] BY <1>1, <2>1 DEF GuardTypes
    <2>5. ~(run.step \in Removing \cup {"verified", "crossed"}) BY <2>1 DEF Removing
    <2> QED BY <1>12, <2>1, <2>2, <2>3, <2>4, <2>5
  <1>18. ASSUME ServerScans PROVE GuardInv'
    <2>1. UNCHANGED <<node, link, run>> /\ run.step = "start" BY <1>18 DEF ServerScans
    <2>2. lists' \in [Vs -> Seq(PartRec)]
      <3>1. PICK v \in Vs : \/ lists' = [lists EXCEPT ![v] = <<>>]
                           \/ \E p \in FilePaths : content(p) # 0 /\
                                lists' = [lists EXCEPT ![v] = <<[path |-> p, size |-> FileSize[content(p)]]>>]
        BY <1>18 DEF ServerScans
      <3>2. lists \in [Vs -> Seq(PartRec)] BY <1>1 DEF GuardTypes
      <3>3. CASE lists' = [lists EXCEPT ![v] = <<>>]
        <4>1. <<>> \in Seq(PartRec) OBVIOUS
        <4> QED BY <3>2, <3>3, <4>1
      <3>4. ASSUME NEW p \in FilePaths, content(p) # 0, lists' = [lists EXCEPT ![v] = <<[path |-> p, size |-> FileSize[content(p)]]>>]
            PROVE  lists' \in [Vs -> Seq(PartRec)]
        <4>1. content(p) \in DOMAIN FileSize BY <1>1, <3>4 DEF GuardTypes, content
        <4>2. [path |-> p, size |-> FileSize[content(p)]] \in PartRec BY <4>1 DEF PartRec, Sizes
        <4>3. <<[path |-> p, size |-> FileSize[content(p)]]>> \in Seq(PartRec) BY <4>2
        <4> QED BY <3>2, <3>4, <4>3
      <3> QED BY <3>1, <3>3, <3>4
    <2>3. node' \in [FilePaths -> DOMAIN FileSize \cup {0}] /\ link' \in [FilePaths -> FilePaths] BY <1>1, <2>1 DEF GuardTypes
    <2>4. LinksEnd' BY <1>1, <2>1 DEF LinksEnd
    <2>5. ~(run.step \in Removing \cup {"verified", "crossed"}) BY <2>1 DEF Removing
    <2> QED BY <1>12, <2>1, <2>2, <2>3, <2>4, <2>5
  <1>19. ASSUME ArrMoves \/ ServerSwapped \/ OtherScans \/ OtherBusy PROVE GuardInv'
    <2>1. UNCHANGED <<node, link, lists, run>> BY <1>19 DEF ArrMoves, ServerSwapped, OtherScans, OtherBusy
    <2> QED BY <1>4, <1>5, <2>1
  <1> QED BY <1>7, <1>8, <1>9, <1>10, <1>11, <1>13, <1>14, <1>15, <1>16, <1>17, <1>18, <1>19 DEF GuardsNext

\* Nothing else touches the checks.
LEMMA OthersLeaveGuards ==
  RecycleNext \/ PathsNext \/ ScansNext \/ HistoryNext \/ DiscsNext \/ TrackedNext \/ RescanNext \/ QueueNext \/ ListingNext
    => UNCHANGED guardVars
  <1>1. RecycleNext => UNCHANGED guardVars BY Zenon DEF RecycleNext, RecycleOnly
  <1>2. PathsNext => UNCHANGED guardVars BY Zenon DEF PathsNext, PathsOnly
  <1>3. ScansNext => UNCHANGED guardVars BY Zenon DEF ScansNext, ScansOnly
  <1>4. HistoryNext => UNCHANGED guardVars BY Zenon DEF HistoryNext, HistoryOnly
  <1>5. DiscsNext => UNCHANGED guardVars BY Zenon DEF DiscsNext, DiscsOnly
  <1>6. TrackedNext => UNCHANGED guardVars BY Zenon DEF TrackedNext, ArrOnly
  <1>7. RescanNext => UNCHANGED guardVars BY Zenon DEF RescanNext, ArrOnly
  <1>8. QueueNext => UNCHANGED guardVars BY Zenon DEF QueueNext, ArrOnly
  <1>9. ListingNext => UNCHANGED guardVars BY Zenon DEF ListingNext, ListingOnly
  <1> QED BY <1>1, <1>2, <1>3, <1>4, <1>5, <1>6, <1>7, <1>8, <1>9

\* What the run relies on is what the removal leaves.
LEMMA ReliedIsKept == ASSUME GuardInv PROVE KeptCopyReadable
  <1> SUFFICES ASSUME mapped("server"), NEW t \in run.done,
                      ~(setup.keepPer /\ Ver(t).overridden),
                      ~(\E v \in Targets : setup.keepPer /\ Ver(v).tier = Ver(t).tier /\ Ver(v).overridden)
               PROVE  \E k \in KeepFiles : /\ \A p \in Parts(k) : content(p) # 0
                                           /\ setup.keepPer => Ver(k).tier = Ver(t).tier
                                           /\ setup.keepPlayable /\ playable(t) => playable(k)
    BY DEF KeptCopyReadable
  <1>1. run.step \in Removing /\ t \in Targets BY DEF GuardInv, GuardTypes
  <1>2. PICK ks : Relied(ks) BY <1>1 DEF GuardInv
  <1>3. ks # {} /\ ~partitionKeeperProblem(ks) /\ ~playableKeeperProblem(ks) BY <1>2 DEF Relied, verifyKeepers
  <1>4. ASSUME NEW k \in ks PROVE k \in KeepFiles /\ \A p \in Parts(k) : content(p) # 0 BY <1>2 DEF Relied, Safe
  <1>5. setup.keepPer => \E k \in ks : Ver(k).tier = Ver(t).tier BY <1>1, <1>3 DEF partitionKeeperProblem
  <1>6. CASE setup.keepPlayable /\ playable(t) /\ (\E v \in Targets \cup KeepFiles : ~playable(v))
    <2>1. PICK k \in ks : playable(k) /\ tierOf(k) = tierOf(t) BY <1>1, <1>3, <1>6 DEF playableKeeperProblem
    <2>2. setup.keepPer => Ver(k).tier = Ver(t).tier BY <2>1 DEF tierOf
    <2> QED BY <1>4, <2>1, <2>2
  <1>7. CASE ~(setup.keepPlayable /\ playable(t)) \/ \A v \in Targets \cup KeepFiles : playable(v)
    <2>1. PICK k \in ks : setup.keepPer => Ver(k).tier = Ver(t).tier BY <1>3, <1>5
    <2>2. k \in KeepFiles BY <1>4
    <2> QED BY <1>4, <1>7, <2>1, <2>2
  <1> QED BY <1>6, <1>7

\* For any group, setting and disk, whatever drifts while a group is verified and
\* its files are removed: a kept copy of the tier can be read, and played where
\* that is asked for (verify, partitionKeeperProblem, playableKeeperProblem).
THEOREM KeptCopiesRemain == LibrarySpec => []KeptCopyReadable
  <1>1. LibraryInit => GuardInv BY GuardsInitially DEF LibraryInit
  <1>2. GuardInv /\ [LibraryNext]_libraryVars => GuardInv'
    <2> SUFFICES ASSUME GuardInv, [LibraryNext]_libraryVars PROVE GuardInv' OBVIOUS
    <2>1. UNCHANGED libraryVars => UNCHANGED guardVars BY DEF libraryVars
    <2>2. ASSUME UNCHANGED guardVars PROVE GuardInv'
      <3>1. UNCHANGED <<node, link, lists, setup, run>> BY <2>2 DEF guardVars
      <3> QED BY <3>1, GuardsStutter
    <2> QED BY <2>1, <2>2, OthersLeaveGuards, GuardsStep DEF LibraryNext
  <1>3. GuardInv => KeptCopyReadable BY ReliedIsKept
  <1> QED BY <1>1, <1>2, <1>3, PTL DEF LibrarySpec
=============================================================================
