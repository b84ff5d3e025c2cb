----------------------------- MODULE MCServices -----------------------------
(* Instances for TLC of the modules about the service itself: sessions,    *)
(* access, settings, connections, backups, the scheduler, notifications     *)
(* and health.                                                             *)
EXTENDS Services, TLC

-----------------------------------------------------------------------------
(* Backup: an archive of another installation, with removals approved.     *)
LiveDB(u, r) == [gen |-> 0, users |-> u, token |-> 1, removals |-> r, safe |-> ~r, session |-> TRUE]
UploadOf(accounts) ==
  [kind |-> "upload", time |-> 0, entries |-> "both", intact |-> TRUE, schema |-> "known", accounts |-> accounts, foreign |-> FALSE,
   db |-> [LiveDB(2, TRUE) EXCEPT !.session = FALSE], config |-> [gen |-> 0, key |-> 2, hosts |-> 2]]
MCUploads == {UploadOf(1), UploadOf(2)}
KeptFiles(t) == {[name |-> x, stamp |-> t, n |-> 0, gen |-> -3] : x \in {"db", "config"}}
MCKept == {KeptFiles(2) \cup KeptFiles(3)}
MCLive == {LiveDB(1, FALSE)}

-----------------------------------------------------------------------------
(* HostAccess                                                              *)
WebRequest(p, h, f, c) == [peer |-> p, host |-> h, fhosts |-> f, claims |-> c, key |-> "none", cookie |-> FALSE]
MCRequests == {WebRequest("lan", "nas", <<>>, <<>>), WebRequest("lan", "site", <<>>, <<>>),
  WebRequest("proxy", "site", <<>>, <<"wan">>), WebRequest("proxy", "nas", <<"site">>, <<"lan">>),
  WebRequest("proxy", "lanip", <<>>, <<>>), [WebRequest("wan", "site", <<>>, <<>>) EXCEPT !.cookie = TRUE]}
MCIpHosts == [h \in {"lanip"} |-> "lan"]
MCTrustLists == [proxies : SUBSET {"proxy"}, hosts : {{}, {"site"}}]
MCHosts == {[method |-> m, required |-> q, proxies |-> l.proxies, hosts |-> l.hosts, user |-> u, key |-> 1] :
              m \in Methods, q \in Required, l \in MCTrustLists, u \in BOOLEAN}

-----------------------------------------------------------------------------
(* Connections                                                             *)
Home(u) == [url |-> u, tls |-> TRUE]
MediaServer(u, sec, tls, en, st) ==
  [here |-> TRUE, url |-> u, tls |-> tls, secret |-> sec, mid |-> "unknown", enabled |-> en, storage |-> st]
ArrApp(u, sec, l, c, same) ==
  [here |-> TRUE, url |-> u, tls |-> TRUE, secret |-> sec, links |-> l, confirmed |-> c, same |-> same]
MCServers == (1 :> MediaServer("s1", Home("s1"), TRUE, TRUE, "shared") @@ 2 :> None)
MCArrs == (1 :> ArrApp("a1", Home("a1"), {1}, TRUE, FALSE) @@ 2 :> None)
MCTautullis == (1 :> [here |-> TRUE, url |-> "t1", tls |-> TRUE, secret |-> Home("t1")] @@ 2 :> None)
MCAskedServers == {MediaServer("s1", masked, TRUE, TRUE, "shared"), MediaServer("s1", masked, FALSE, TRUE, "shared"),
  MediaServer("s2", Home("s2"), TRUE, TRUE, "shared"), MediaServer("s2", masked, TRUE, TRUE, "shared"),
  MediaServer("s1", masked, TRUE, FALSE, "shared"), MediaServer("s1", masked, TRUE, TRUE, "separate")}
MCAskedArrs == {ArrApp("a1", masked, {}, FALSE, TRUE), ArrApp("a2", Home("a2"), {}, FALSE, TRUE),
  ArrApp("a1", masked, {1}, TRUE, FALSE), ArrApp("a2", masked, {}, FALSE, FALSE)}
MCAskedTautullis == {[here |-> TRUE, url |-> "t1", tls |-> t, secret |-> s] : t \in BOOLEAN, s \in {masked, Home("t1")}}
MCMonitored == [u \in {"t1"} |-> "m1"]
MCEndpointOf == [u \in Urls |-> u]
MCMachineAt == [u \in Urls |-> CASE u = "s1" -> "m1" [] u = "s2" -> "m2" [] OTHER -> "unknown"]

-----------------------------------------------------------------------------
(* Scheduler, Notifier                                                     *)
MCShifts == {-5, 4}
EmailTo(encryption, user, on) ==
  [kind |-> "email", sound |-> TRUE, encryption |-> encryption, user |-> user, local |-> FALSE, on |-> on]
MCSinks == <<[kind |-> "telegram", sound |-> TRUE, encryption |-> "none", user |-> FALSE, local |-> FALSE, on |-> TRUE],
  EmailTo("starttls", TRUE, TRUE), EmailTo("starttls", FALSE, FALSE), EmailTo("none", TRUE, FALSE)>>

-----------------------------------------------------------------------------
(* Health: three situations the same installation goes through.            *)
Plex == [on |-> TRUE, plex |-> TRUE, answers |-> "itself", deletes |-> TRUE, owner |-> "own", identified |-> TRUE,
  lib |-> TRUE, ranksPlays |-> FALSE, mapped |-> TRUE, mounted |-> TRUE, movies |-> TRUE, holdsBin |-> FALSE,
  scanned |-> TRUE, version |-> "good", admin |-> TRUE, substitutes |-> FALSE, separate |-> FALSE,
  folder |-> "a", nameMatches |-> FALSE]
Jellyfin == [Plex EXCEPT !.plex = FALSE, !.folder = "b"]
Well == [servers |-> <<Plex, Jellyfin>>, arrs |-> <<[on |-> TRUE, up |-> TRUE, bin |-> TRUE, confirmed |-> TRUE, links |-> {1}]>>,
  tautullis |-> <<[on |-> TRUE, server |-> 1, up |-> TRUE, same |-> TRUE, keeps |-> TRUE]>>,
  methods |-> {"plex", "arr"}, dryRun |-> FALSE, discs |-> TRUE, bin |-> "unset", auth |-> "forms", proxies |-> TRUE,
  masterKeyUsed |-> FALSE, untrustedProxy |-> FALSE, lastScan |-> "completed", store |-> TRUE,
  ignore |-> "empty", ignoreAdded |-> FALSE, binAt |-> "folder", plexignore |-> TRUE]
MCSituations == <<
  [Well EXCEPT !.servers[1].deletes = FALSE, !.servers[2].version = "new", !.lastScan = "failed"],
  [Well EXCEPT !.servers[1].answers = "nothing", !.servers[1].deletes = FALSE, !.servers[2].version = "old"],
  [Well EXCEPT !.store = FALSE, !.arrs[1].up = FALSE, !.servers[2].mounted = FALSE] >>

-----------------------------------------------------------------------------
(* Config: no file, one written by hand, and one whose flaw is overridden. *)
One(f, v) == [g \in {f} |-> v]
Texts(k, s, c, l) == [key |-> k, ssl |-> s, cert |-> c, level |-> l]
MCFiles == {Empty, Xml([key |-> <<"", "k1">>, ssl |-> <<"yes">>, cert |-> <<"c">>, other |-> <<"x", "y">>]),
  Xml(Texts(<<"">>, <<"False">>, <<"">>, <<"loud">>))}
MCEnvironments == {<<>>, One("cert", "envcert"), One("level", "debug")}
MCPages == {One("ssl", "True"), One("ssl", "True") @@ One("cert", "c"), One("cert", ""), One("level", "warning"),
  One("key", "k2")}
MCArchived == {Xml(Texts(<<"k3">>, <<"True">>, <<"c">>, <<"warning">>) @@ One("planted", <<"z">>))}
=============================================================================
