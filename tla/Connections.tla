---------------------------- MODULE Connections ----------------------------
(***************************************************************************)
(* The connections a person configures (src/internal/api/connections.go,   *)
(* endpoints.go, tautulli.go and src/internal/database/repo_connections.go)*)
(* and the two things that run beside the requests: the library sync,      *)
(* which adopts a server's identity (src/internal/scanner/maintenance.go), *)
(* and scans, whose groups hold ids of the endpoint they were read from.   *)
(*                                                                         *)
(* A request is several steps, because it asks the other application       *)
(* between reading the stored record and saving it.  One group stands for  *)
(* the duplicates of media server GroupServer that application GroupArr    *)
(* tracks.  A secret's value is the place it was entered for, so where it  *)
(* is sent can be compared with where it belongs.                          *)
(***************************************************************************)
EXTENDS Naturals, FiniteSets

CONSTANTS
    ServerIds, ArrIds,      \* ids of media servers and of applications
    Urls,                   \* the addresses a person may enter
    EndpointOf,             \* address -> scheme://host:port/path it stands for
    MachineAt,              \* address -> identity of the server answering there
    Monitored,              \* address of a Tautulli -> the server it monitors
    ApiKeys,                   \* library keys of a media server
    Editors,                \* requests in progress at the same time
    GroupServer, GroupArr,  \* the connections the group involves
    AutoApproves,               \* scans approve what they find
    AskedServers, AskedArrs, AskedTautullis,  \* the edits a person sends
    InitialServers, InitialArrs, InitialTautullis,
    MaxEdits                \* bound on requests

None == [here |-> FALSE]
masked == [url |-> "masked", tls |-> FALSE]
Unknown == "unknown"          \* an identity not read yet

\* What may be stored, and sent in an edit with its secret masked.
Secrets == [url : Urls \cup {"masked"}, tls : BOOLEAN]
Machines == {Unknown} \cup {MachineAt[u] : u \in Urls}
ServerRec == [here : {TRUE}, url : Urls, tls : BOOLEAN, secret : Secrets, mid : Machines,
              enabled : BOOLEAN, storage : {"shared", "separate"}]
ArrRec == [here : {TRUE}, url : Urls, tls : BOOLEAN, secret : Secrets,
           links : SUBSET ServerIds, confirmed : BOOLEAN, same : BOOLEAN]
TautulliRec == [here : {TRUE}, url : Urls, tls : BOOLEAN, secret : Secrets]

\* A secret that may be sent where its connection points.
AtHome(c) == EndpointOf[c.secret.url] = EndpointOf[c.url] /\ (c.secret.tls => c.tls)

ASSUME ConnectionConstants ==
    /\ GroupServer \in ServerIds /\ GroupArr \in ArrIds
    /\ AutoApproves \in BOOLEAN /\ MaxEdits \in Nat
    /\ AskedServers \subseteq ServerRec /\ AskedArrs \subseteq ArrRec /\ AskedTautullis \subseteq TautulliRec
    /\ InitialServers \in [ServerIds -> ServerRec \cup {None}]
    /\ InitialArrs \in [ArrIds -> ArrRec \cup {None}]
    /\ InitialTautullis \in [ServerIds -> TautulliRec \cup {None}]
    /\ \A i \in ServerIds : InitialServers[i].here => AtHome(InitialServers[i])
    /\ \A i \in ArrIds : InitialArrs[i].here => AtHome(InitialArrs[i])
    /\ \A i \in ServerIds : InitialTautullis[i].here => AtHome(InitialTautullis[i])

VARIABLES
    servers,   \* id -> stored media server, or None
    arrs,      \* id -> stored application, or None
    tauts,     \* server id -> its Tautulli, or None
    libs,      \* server id -> key -> "none", "on" or "off"
    maps,      \* connections with a path mapping
    edit,      \* editor -> request in progress
    connMu,    \* the editor holding the write lock, or 0
    sync,      \* the library sync in progress
    sweep,     \* the scan in progress: what it reads from
    group,     \* the stored group: what it was read from, its status
    sent,      \* the last secret sent: [secret, url, tls]
    edits      \* requests so far

connVars == <<servers, arrs, tauts, libs, maps, edit, connMu, sync, sweep, group, sent, edits>>

NoEdit0 == [step |-> "idle"]
NoSync == [step |-> "idle"]
NoSweep == [on |-> FALSE, from |-> {}, changed |-> {}]

Conn(kind, id) == <<kind, id>>
Here(table) == {i \in DOMAIN table : table[i].here}

-----------------------------------------------------------------------------
(* Secrets and endpoints                                                    *)

sameEndpoint(a, b) == EndpointOf[a] = EndpointOf[b]

endpointChanged(before, after) == ~sameEndpoint(before, after)

\* As if only the address were compared.
reusableByUrl(in, was) == was.here /\ sameEndpoint(in.url, was.url)

\* A masked secret may be reused: same endpoint, verification not weaker.
reusable(in, was) ==
    /\ was.here
    /\ sameEndpoint(in.url, was.url)
    /\ was.tls => in.tls

\* The edit with its secret filled in; the edit is refused unless usable.
restoreSecret(in, was) ==
    IF in.secret = masked /\ reusable(in, was) THEN [in EXCEPT !.secret = was.secret] ELSE in

UsableConn(in) == in.secret # masked

validServer(in) == UsableConn(in) /\ in.storage \in {"shared", "separate"}

\* A secret typed in by the person belongs to the address typed with it.
typed(in) == IF in.secret = masked THEN in ELSE [in EXCEPT !.secret = [url |-> in.url, tls |-> in.tls]]

Sends(in) == sent' = [secret |-> in.secret, url |-> in.url, tls |-> in.tls]

-----------------------------------------------------------------------------
(* The store                                                                *)

comparedServer(ms) == ms.here /\ ms.enabled /\ ms.storage = "shared"

Enabled(ss) == {i \in Here(ss) : ss[i].enabled}

\* Links confirmed without server id count as unconfirmed again.
unconfirmArrLinks(ss, id) ==
    [a \in ArrIds |->
        IF arrs[a].here /\ Cardinality(Enabled(ss)) >= 2 /\ id \notin arrs[a].links
        THEN [arrs[a] EXCEPT !.confirmed = FALSE] ELSE arrs[a]]

\* Create and Update write the whole record in one transaction.
storeServer(id, ms) ==
    LET ss == [servers EXCEPT ![id] = ms]
    IN  /\ servers' = ss
        /\ arrs' = IF comparedServer(ms) /\ ~comparedServer(servers[id])
                   THEN unconfirmArrLinks(ss, id) ELSE arrs

\* The other servers already connected as this machine.
ensureUniqueServer(mid, id) ==
    mid = Unknown \/ \A o \in Here(servers) \ {id} : servers[o].mid # mid

ensureUniqueArr(in, id) ==
    \A o \in Here(arrs) \ {id} : endpointChanged(arrs[o].url, in.url)

\* Cancels what the deleted connection's group has queued.
cancelPending(c) ==
    group' = IF group.status = "queued" /\ c \in {Conn("server", GroupServer), Conn("arr", GroupArr)}
             THEN [group EXCEPT !.status = "pending"] ELSE group

-----------------------------------------------------------------------------
(* Re-pointed endpoints                                                     *)

\* The change time: later than the start of every scan seen so far.
changedAt(c) ==
    /\ sweep' = IF sweep.on THEN [sweep EXCEPT !.changed = @ \cup {c}] ELSE sweep
    /\ group' = [group EXCEPT !.changed = @ \cup {c},
                              !.status = IF c \in group.conns /\ @ \in {"queued", "failed"}
                                         THEN "review" ELSE @]

\* The group was seen by a scan that started after every change of its connections.
checkEndpointsCurrent == group.changed \cap group.conns = {}

-----------------------------------------------------------------------------
(* Requests: media servers                                                  *)

Begins(e, r) ==
    /\ edit[e].step = "idle" /\ edits < MaxEdits
    /\ edits' = edits + 1
    /\ edit' = [edit EXCEPT ![e] = r]

Ends(e) == edit' = [edit EXCEPT ![e] = NoEdit0]

\* handleMediaServerCreate up to the question.
ServerCreate(e, id, asked, force) ==
    LET in == typed(asked)
    IN  /\ ~servers[id].here /\ validServer(in)
        /\ Begins(e, [step |-> "ask", kind |-> "server", id |-> id, was |-> None, force |-> force,
                      in |-> [in EXCEPT !.mid = Unknown]])
        /\ UNCHANGED <<servers, arrs, tauts, libs, maps, connMu, sync, sweep, group, sent>>

\* handleMediaServerUpdate up to the question: the stored identity stays.
ServerUpdate(e, id, asked, force) ==
    LET was == servers[id]
        in  == restoreSecret(typed(asked), was)
    IN  /\ was.here /\ validServer(in)
        /\ Begins(e, [step |-> "ask", kind |-> "server", id |-> id, was |-> was, force |-> force,
                      in |-> [in EXCEPT !.mid = was.mid]])
        /\ UNCHANGED <<servers, arrs, tauts, libs, maps, connMu, sync, sweep, group, sent>>

\* testServer, or probeIdentity of a forced save, was answered.
ServerAnswers(e) ==
    LET r == edit[e]  mid == MachineAt[r.in.url]
        known == r.was.here /\ r.was.mid # Unknown
    IN  /\ r.step = "ask" /\ r.kind = "server" /\ mid # Unknown
        /\ Sends(r.in)
        /\ IF \/ known /\ r.was.mid # mid
              \/ ~(r.force /\ known) /\ ~ensureUniqueServer(mid, r.id)
           THEN Ends(e)
           ELSE edit' = [edit EXCEPT ![e].step = "save", ![e].in.mid = mid]
        /\ UNCHANGED <<servers, arrs, tauts, libs, maps, connMu, sync, sweep, group, edits>>

\* No answer: refused, or saved anyway when forced.
ServerSilent(e) ==
    LET r == edit[e]
    IN  /\ r.step = "ask" /\ r.kind = "server"
        /\ Sends(r.in)
        /\ IF r.force THEN edit' = [edit EXCEPT ![e].step = "save"] ELSE Ends(e)
        /\ UNCHANGED <<servers, arrs, tauts, libs, maps, connMu, sync, sweep, group, edits>>

\* endpointRepointed under the write lock, before the new address is saved.
Repoint(e) ==
    LET r == edit[e]
    IN  /\ r.step = "save" /\ r.kind # "tautulli" /\ r.was.here /\ connMu = 0
        /\ endpointChanged(r.was.url, r.in.url)
        /\ changedAt(Conn(r.kind, r.id))
        /\ connMu' = e
        /\ edit' = [edit EXCEPT ![e].step = "locked"]
        /\ UNCHANGED <<servers, arrs, tauts, libs, maps, sync, sent, edits>>

\* May be saved now: the lock is held, or not needed and free.
Saves(r, e) ==
    \/ r.step = "locked" /\ connMu = e
    \/ /\ r.step = "save"
       /\ r.was.here => connMu = 0 /\ ~endpointChanged(r.was.url, r.in.url)

ServerSave(e) ==
    LET r == edit[e]
    IN  /\ r.step # "idle" /\ r.kind = "server" /\ Saves(r, e)
        /\ IF r.was.here = servers[r.id].here
           THEN storeServer(r.id, r.in) ELSE UNCHANGED <<servers, arrs>>
        /\ connMu' = IF connMu = e THEN 0 ELSE connMu
        /\ Ends(e)
        /\ UNCHANGED <<tauts, libs, maps, sync, sweep, group, sent, edits>>

\* handleMediaServerDelete: links, libraries and mappings go with the record.
ServerDelete(id) ==
    /\ servers[id].here /\ edits < MaxEdits /\ edits' = edits + 1
    /\ servers' = [servers EXCEPT ![id] = None]
    /\ arrs' = [a \in ArrIds |-> IF arrs[a].here THEN [arrs[a] EXCEPT !.links = @ \ {id}] ELSE arrs[a]]
    /\ tauts' = [tauts EXCEPT ![id] = None]
    /\ libs' = [libs EXCEPT ![id] = [k \in ApiKeys |-> "none"]]
    /\ maps' = maps \ {Conn("server", id)}
    /\ cancelPending(Conn("server", id))
    /\ UNCHANGED <<edit, connMu, sync, sweep, sent>>

\* adoptServerIdentity: none stored yet, nothing edited, no other such server.
adopts(in, was, mid, id) ==
    /\ was.here /\ was.mid = Unknown /\ mid # Unknown
    /\ in.url = was.url /\ in.secret = was.secret
    /\ ensureUniqueServer(mid, id)

\* handleMediaServerTest: asks with the edit, then adopts what answered.
ServerTest(id, asked) ==
    LET was == servers[id]
        in  == restoreSecret(typed(asked), was)
        mid == MachineAt[in.url]
    IN  /\ UsableConn(in) /\ edits < MaxEdits /\ edits' = edits + 1
        /\ Sends(in)
        /\ IF adopts(in, was, mid, id)
           THEN connMu = 0 /\ storeServer(id, [was EXCEPT !.mid = mid])
           ELSE UNCHANGED <<servers, arrs>>
        /\ UNCHANGED <<tauts, libs, maps, edit, connMu, sync, sweep, group>>

-----------------------------------------------------------------------------
(* Requests: applications                                                   *)

\* The links completed: the only enabled server; none is never confirmed.
arrLinks(in) ==
    LET ids  == IF in.links = {} THEN Enabled(servers) ELSE in.links
        auto == in.links = {} /\ Cardinality(Enabled(servers)) = 1
    IN  [in EXCEPT !.links = IF auto THEN ids ELSE in.links,
                   !.confirmed = auto \/ (in.links # {} /\ in.confirmed)]

\* The edit of an application is refused: its secret, links or address.
validArr(in, id) ==
    UsableConn(in) /\ in.links \subseteq Here(servers) /\ ensureUniqueArr(in, id)

ArrRequest(id, was, in, force) ==
    [step |-> IF force THEN "save" ELSE "ask", kind |-> "arr", id |-> id, was |-> was,
     force |-> force, in |-> in]

\* handleArrCreate up to the question.
ArrCreate(e, id, asked, force) ==
    LET in == arrLinks(typed(asked))
    IN  /\ ~arrs[id].here /\ validArr(in, id)
        /\ Begins(e, ArrRequest(id, None, in, force))
        /\ UNCHANGED <<servers, arrs, tauts, libs, maps, connMu, sync, sweep, group, sent>>

\* handleArrUpdate up to the question.  An edit that names no links keeps
\* the stored ones, and their confirmation.
ArrUpdate(e, id, asked, force) ==
    LET was  == arrs[id]
        full == IF asked.same
                THEN [asked EXCEPT !.links = was.links, !.confirmed = was.confirmed] ELSE asked
        in   == arrLinks(restoreSecret(typed(full), was))
    IN  /\ was.here /\ validArr(in, id)
        /\ Begins(e, ArrRequest(id, was, in, force))
        /\ UNCHANGED <<servers, arrs, tauts, libs, maps, connMu, sync, sweep, group, sent>>

ArrAnswers(e, ok) ==
    LET r == edit[e]
    IN  /\ r.step = "ask" /\ r.kind = "arr"
        /\ Sends(r.in)
        /\ IF ok THEN edit' = [edit EXCEPT ![e].step = "save"] ELSE Ends(e)
        /\ UNCHANGED <<servers, arrs, tauts, libs, maps, connMu, sync, sweep, group, edits>>

ArrSave(e) ==
    LET r == edit[e]
    IN  /\ r.step # "idle" /\ r.kind = "arr" /\ Saves(r, e)
        /\ arrs' = IF r.was.here = arrs[r.id].here /\ r.in.links \subseteq Here(servers)
                   THEN [arrs EXCEPT ![r.id] = r.in] ELSE arrs
        /\ connMu' = IF connMu = e THEN 0 ELSE connMu
        /\ Ends(e)
        /\ UNCHANGED <<servers, tauts, libs, maps, sync, sweep, group, sent, edits>>

ArrDelete(id) ==
    /\ arrs[id].here /\ edits < MaxEdits /\ edits' = edits + 1
    /\ arrs' = [arrs EXCEPT ![id] = None]
    /\ maps' = maps \ {Conn("arr", id)}
    /\ cancelPending(Conn("arr", id))
    /\ UNCHANGED <<servers, tauts, libs, edit, connMu, sync, sweep, sent>>

\* handleArrTest sends the edit's secret and stores nothing.
ArrTest(id, asked) ==
    LET in == restoreSecret(typed(asked), arrs[id])
    IN  /\ UsableConn(in) /\ edits < MaxEdits /\ edits' = edits + 1
        /\ Sends(in)
        /\ UNCHANGED <<servers, arrs, tauts, libs, maps, edit, connMu, sync, sweep, group>>

-----------------------------------------------------------------------------
(* Requests: Tautulli, at most one for a media server                       *)

\* validateTautulli: a secret and a stored Plex server.
validTautulli(in, id) == UsableConn(in) /\ servers[id].here

\* testTautulli: it must monitor the server the record names.
monitors(in, id) == servers[id].here /\ servers[id].mid # Unknown /\ Monitored[in.url] = servers[id].mid

ensureUniqueTautulli(in, id) ==
    \A o \in Here(tauts) \ {id} : endpointChanged(tauts[o].url, in.url)

\* handleTautulliCreate and handleTautulliUpdate up to the question.
TautulliBegin(e, id, asked, force) ==
    LET was == tauts[id]
        in  == restoreSecret(typed(asked), was)
    IN  /\ validTautulli(in, id) /\ ensureUniqueTautulli(in, id)
        /\ Begins(e, [step |-> IF force THEN "save" ELSE "ask", kind |-> "tautulli", id |-> id,
                      was |-> was, force |-> force, in |-> in])
        /\ UNCHANGED <<servers, arrs, tauts, libs, maps, connMu, sync, sweep, group, sent>>

TautulliAnswers(e) ==
    LET r == edit[e]
    IN  /\ r.step = "ask" /\ r.kind = "tautulli"
        /\ Sends(r.in)
        /\ IF monitors(r.in, r.id) THEN edit' = [edit EXCEPT ![e].step = "save"] ELSE Ends(e)
        /\ UNCHANGED <<servers, arrs, tauts, libs, maps, connMu, sync, sweep, group, edits>>

\* No lock and no quarantine: nothing stored holds Tautulli's ids.
TautulliSave(e) ==
    LET r == edit[e]
    IN  /\ r.step = "save" /\ r.kind = "tautulli"
        /\ tauts' = IF r.was.here = tauts[r.id].here /\ servers[r.id].here
                    THEN [tauts EXCEPT ![r.id] = r.in] ELSE tauts
        /\ Ends(e)
        /\ UNCHANGED <<servers, arrs, libs, maps, connMu, sync, sweep, group, sent, edits>>

TautulliDelete(id) ==
    /\ tauts[id].here /\ edits < MaxEdits /\ edits' = edits + 1
    /\ tauts' = [tauts EXCEPT ![id] = None]
    /\ UNCHANGED <<servers, arrs, libs, maps, edit, connMu, sync, sweep, group, sent>>

TautulliTest(id, asked) ==
    LET in == restoreSecret(typed(asked), tauts[id])
    IN  /\ validTautulli(in, id) /\ edits < MaxEdits /\ edits' = edits + 1
        /\ Sends(in)
        /\ UNCHANGED <<servers, arrs, tauts, libs, maps, edit, connMu, sync, sweep, group>>

-----------------------------------------------------------------------------
(* Path mappings and libraries                                              *)

\* validatePathMapping: the connection must be stored (placement is in Paths).
mappable(c) == c[2] \in Here(IF c[1] = "server" THEN servers ELSE arrs)

\* handlePathMappingCreate, Update and Delete: only for a stored connection.
MappingSaved(c) ==
    /\ c \notin maps
    /\ mappable(c)
    /\ maps' = maps \cup {c}
    /\ UNCHANGED <<servers, arrs, tauts, libs, edit, connMu, sync, sweep, group, sent, edits>>

MappingDeleted(c) ==
    /\ c \in maps /\ maps' = maps \ {c}
    /\ UNCHANGED <<servers, arrs, tauts, libs, edit, connMu, sync, sweep, group, sent, edits>>

-----------------------------------------------------------------------------
(* The library sync                                                         *)

\* syncServer loads the record and asks who answers at its address.
SyncAsks(id) ==
    /\ sync = NoSync /\ servers[id].here
    /\ sent' = [secret |-> servers[id].secret, url |-> servers[id].url, tls |-> servers[id].tls]
    /\ LET mid == MachineAt[servers[id].url]
       IN  sync' = IF mid = Unknown \/ servers[id].mid \notin {Unknown, mid} THEN NoSync
                   ELSE [step |-> IF servers[id].mid = Unknown THEN "check" ELSE "list",
                         id |-> id, srv |-> servers[id], mid |-> mid]
    /\ UNCHANGED <<servers, arrs, tauts, libs, maps, edit, connMu, sweep, group, edits>>

\* adoptIdentity reads the records again; a change meanwhile keeps the new one.
SyncChecks ==
    LET cur == servers[sync.id]
    IN  /\ sync.step = "check"
        /\ sync' = IF \/ ~ensureUniqueServer(sync.mid, sync.id)
                      \/ cur.here /\ cur.mid \notin {Unknown, sync.mid}
                   THEN NoSync
                   ELSE IF \/ ~cur.here \/ cur.mid # Unknown
                           \/ cur.url # sync.srv.url \/ cur.secret # sync.srv.secret
                   THEN [sync EXCEPT !.step = "list"]
                   ELSE [sync EXCEPT !.step = "adopt", !.srv = cur]
        /\ UNCHANGED <<servers, arrs, tauts, libs, maps, edit, connMu, sweep, group, sent, edits>>

\* It saves the whole record it read, without the connections' lock.
SyncAdopts ==
    /\ sync.step = "adopt"
    /\ IF servers[sync.id].here
       THEN /\ storeServer(sync.id, [sync.srv EXCEPT !.mid = sync.mid])
            /\ sync' = [sync EXCEPT !.step = "list"]
       ELSE sync' = NoSync /\ UNCHANGED <<servers, arrs>>
    /\ UNCHANGED <<tauts, libs, maps, edit, connMu, sweep, group, sent, edits>>

\* Libraries().Sync: listed ones stay as they are or appear enabled, others go.
synced(old, listed) ==
    [k \in ApiKeys |-> IF k \notin listed THEN "none" ELSE IF old[k] = "none" THEN "on" ELSE old[k]]

\* An empty list never deletes known libraries.
SyncSaves(listed) ==
    LET old == libs[sync.id]
    IN  /\ sync.step = "list"
        /\ libs' = IF \/ ~servers[sync.id].here
                      \/ listed = {} /\ \E k \in ApiKeys : old[k] # "none"
                   THEN libs ELSE [libs EXCEPT ![sync.id] = synced(old, listed)]
        /\ sync' = NoSync
        /\ UNCHANGED <<servers, arrs, tauts, maps, edit, connMu, sweep, group, sent, edits>>

\* handleLibraryUpdate: the person's choice of a library.
LibraryUpdate(id, k) ==
    /\ libs[id][k] # "none"
    /\ libs' = [libs EXCEPT ![id][k] = IF @ = "on" THEN "off" ELSE "on"]
    /\ UNCHANGED <<servers, arrs, tauts, maps, edit, connMu, sync, sweep, group, sent, edits>>

-----------------------------------------------------------------------------
(* Scans and approvals                                                      *)

Pointed(kind, table, id) ==
    IF table[id].here THEN {<<Conn(kind, id), EndpointOf[table[id].url]>>} ELSE {}

\* What the group's connections point at now.
Current == Pointed("server", servers, GroupServer) \cup Pointed("arr", arrs, GroupArr)

ScanBegins ==
    /\ ~sweep.on /\ servers[GroupServer].here /\ arrs[GroupArr].here
    /\ sweep' = [on |-> TRUE, from |-> Current, changed |-> {}]
    /\ UNCHANGED <<servers, arrs, tauts, libs, maps, edit, connMu, sync, group, sent, edits>>

\* The scan stores what it read; in auto mode it may approve it at once.
ScanStores(status) ==
    /\ sweep.on /\ group.status # "queued"
    /\ status = "queued" => AutoApproves
    /\ group' = [status |-> status, from |-> sweep.from, changed |-> sweep.changed,
                 conns |-> {c[1] : c \in sweep.from}]
    /\ sweep' = NoSweep
    /\ UNCHANGED <<servers, arrs, tauts, libs, maps, edit, connMu, sync, sent, edits>>

\* approve under the read lock: endpoint check and queueing.
Approve ==
    /\ group.status \in {"pending", "review"} /\ connMu = 0
    /\ checkEndpointsCurrent
    /\ group' = [group EXCEPT !.status = "queued"]
    /\ UNCHANGED <<servers, arrs, tauts, libs, maps, edit, connMu, sync, sweep, sent, edits>>

ConnInit ==
    /\ servers = InitialServers /\ arrs = InitialArrs
    /\ tauts = InitialTautullis
    /\ libs = [i \in ServerIds |-> [k \in ApiKeys |-> "none"]] /\ maps = {}
    /\ edit = [e \in Editors |-> NoEdit0] /\ connMu = 0 /\ sync = NoSync
    /\ sweep = NoSweep
    /\ group = [status |-> "none", from |-> {}, changed |-> {}, conns |-> {}]
    /\ sent = None /\ edits = 0

-----------------------------------------------------------------------------
(* A stored secret is only ever sent to the endpoint it was entered for,   *)
(* with the certificate checked if it was then, whatever edits, tests and  *)
(* syncs run at the same time (restoreSecret).                             *)
SecretStaysHome ==
    "secret" \in DOMAIN sent => AtHome(sent)

(* What a person approved, and is still queued, was read by a scan that    *)
(* began after every recorded change of the endpoints it involves: an id   *)
(* means something else on another server, and a scan may be running when  *)
(* the change is made (endpointRepointed, approve).  A scan that approves  *)
(* by itself does not look, see the README.                                *)
ApprovedSinceChange ==
    (~AutoApproves /\ group.status = "queued") => checkEndpointsCurrent

(* A change of a connection takes neither a secret nor an approval along.  *)
ConnectionsHold == SecretStaysHome /\ ApprovedSinceChange
=============================================================================
