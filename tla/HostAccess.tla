----------------------------- MODULE HostAccess -----------------------------
(***************************************************************************)
(* Who is let in without signing in, and how that may be changed: the      *)
(* network trust of src/internal/auth/network.go and middleware.go, the    *)
(* host settings handler of src/internal/api/settings.go, first-run setup  *)
(* and the reset.  An address or a host name is a model value of which     *)
(* only its class matters.                                                 *)
(***************************************************************************)
EXTENDS Integers, FiniteSets, Sequences, SequencesExt

CONSTANTS
  LocalAddrs,       \* loopback, private and link-local addresses
  IpHosts,          \* host names that are addresses -> the address
  PrivateNames,     \* names without a dot and of the private suffixes
  Requests,         \* [peer, host, fhosts, claims, key, cookie]
  FirstHosts,       \* the configurations there may be at first
  TrustLists,       \* the [proxies, hosts] a change may ask for
  Forced,           \* the settings an environment variable sets
  MaxHostChanges    \* bound on the API keys there are

\* The settings, of which the two lists may be of anything.
HostShape(h) ==
  h \in [method : {"forms", "external", "none"}, required : {"always", "notLocal"}, proxies : {h.proxies},
         hosts : {h.hosts}, user : BOOLEAN, key : Nat]
ASSUME HostAssumption ==
  (\A h \in FirstHosts : HostShape(h)) /\ (\A r \in Requests : r.key \in {"none", "valid", "wrong"})

VARIABLES
  host,             \* [method, required, proxies, hosts, user, key]
  editing,          \* the change in progress, or NoEdit
  lastEdit          \* the change just saved, or NoEdit
hostVars == <<host, editing, lastEdit>>
NoEdit == [phase |-> "none"]

Trust(c) == [proxies |-> c.proxies, hosts |-> c.hosts]
Configured(t) == t.proxies # {} \/ t.hosts # {}
trustsProxy(t, ip) == ip \in t.proxies
allowsHost(t, h) == h \in t.hosts
IsLocalAddress(ip) == ip \in LocalAddrs
IsPrivateHost(h) == h \in PrivateNames \cup DOMAIN IpHosts
isLocalHost(h) == IsPrivateHost(h) /\ (h \in DOMAIN IpHosts => IsLocalAddress(IpHosts[h]))
\* requestHostsAll: the Host header and every forwarded host.
hostsOf(r) == {r.host} \cup ToSet(r.fhosts)
\* A proxy that names nobody speaks for a client that is not known.
isLocalRequestBy(r, t) ==
  /\ IsLocalAddress(r.peer) /\ ~(trustsProxy(t, r.peer) /\ r.claims = <<>>)
  /\ \A a \in ToSet(r.claims) : IsLocalAddress(a)
privateHostsBy(r, t) == \A h \in hostsOf(r) : IsPrivateHost(h) \/ allowsHost(t, h)
LocalAccessAllowed(r, t) == isLocalRequestBy(r, t) /\ \A h \in hostsOf(r) : isLocalHost(h) \/ allowsHost(t, h)
externalTrustedBy(r, t) ==
  IF ~Configured(t) THEN privateHostsBy(r, t)
  ELSE /\ t.proxies # {} => trustsProxy(t, r.peer)
       /\ t.hosts # {} => \A h \in hostsOf(r) : allowsHost(t, h)
\* authenticate: by what the request is let in, or "refused".
\* key is the API key sent, if any; cookie says whether a valid session's is sent.
authenticate(r, c) ==
  CASE r.key = "valid" -> "apiKey"
    [] r.key = "wrong" -> "refused"
    [] r.key = "none" /\ c.method = "none" -> IF privateHostsBy(r, Trust(c)) THEN "noAuth" ELSE "refused"
    [] OTHER ->
         IF c.method = "external" /\ externalTrustedBy(r, Trust(c)) THEN "external"
         ELSE IF r.cookie /\ c.user THEN "cookie"
         ELSE IF c.method = "forms" /\ c.required = "notLocal" /\ LocalAccessAllowed(r, Trust(c)) THEN "local"
         ELSE "refused"
\* TrustChangeProblem: would the caller, let in by trust, be shut out?
TrustChangeProblem(r, via, method, t) ==
  /\ via \in {"external", "noAuth", "local"}
  /\ \/ method = "external" /\ ~externalTrustedBy(r, t)
     \/ method = "none" /\ ~privateHostsBy(r, t)

-----------------------------------------------------------------------------
SetupRequired(c) == c.method = "forms" /\ ~c.user
HostInit == host \in FirstHosts /\ editing = NoEdit /\ lastEdit = NoEdit
\* applyHostConfig: what the environment sets is kept.
applyHostConfig(c, in) ==
  [f \in DOMAIN c |-> IF f \in DOMAIN in /\ f \notin Forced THEN in[f] ELSE c[f]]
\* handleHostConfigUpdate up to the password check; asked holds every setting,
\* those not sent as they were read.
UpdateBegin(r, method, required, t, password, confirm) ==
  LET asked == [method |-> method, required |-> required, proxies |-> t.proxies, hosts |-> t.hosts]
      next == applyHostConfig(host, asked)
      via == authenticate(r, host)
      changed == next # host \/ password
  IN  /\ editing = NoEdit /\ via # "refused" /\ (password => host.key < MaxHostChanges)
      /\ ~(changed /\ SetupRequired(host) /\ via # "apiKey")                                     \* setupPendingForCaller
      /\ (Trust(next) # Trust(host) \/ next.method # host.method) /\ ~confirm => ~TrustChangeProblem(r, via, next.method, Trust(next))
      /\ ~(next.method = "none" /\ host.method # "none")
      /\ next.method = "forms" => host.user \/ password
      /\ editing' = [phase |-> "checked", req |-> r, asked |-> asked, password |-> password, confirm |-> confirm, via |-> via]
      /\ lastEdit' = NoEdit /\ UNCHANGED host
\* The current password is wrong, or the store fails.
UpdateFails == editing.phase = "checked" /\ editing' = NoEdit /\ UNCHANGED <<host, lastEdit>>
\* UpdateUser, then the configuration; a new password replaces the API key.
UpdateSave ==
  /\ editing.phase = "checked"
  /\ host' = [applyHostConfig(host, editing.asked) EXCEPT !.user = @ \/ editing.password,
               !.key = IF editing.password /\ host.user THEN @ + 1 ELSE @]
  /\ lastEdit' = editing /\ editing' = NoEdit
\* handleAuthSetup and Setup: from the local network, with the code of the log.
Setup(r, required) ==
  /\ SetupRequired(host) /\ LocalAccessAllowed(r, Trust(host))
  /\ "required" \in Forced => required = host.required
  /\ host' = [host EXCEPT !.user = TRUE, !.required = required] /\ lastEdit' = NoEdit /\ UNCHANGED editing
\* resetAuthState: the lists are kept where the forced method needs them.
keepTrustLists(method, required) ==
  [proxies |-> method = "external" \/ (method = "forms" /\ required = "notLocal"), hosts |-> method = "external"]
ResetAuth ==
  LET method == IF "method" \in Forced THEN host.method ELSE "forms"
      required == IF "required" \in Forced THEN host.required ELSE "always"
      keep == keepTrustLists(method, required)
  IN  /\ host.key < MaxHostChanges /\ lastEdit' = NoEdit /\ editing' = NoEdit
      /\ host' = [method |-> method, required |-> required, user |-> FALSE, key |-> host.key + 1,
                  proxies |-> IF keep.proxies \/ "proxies" \in Forced THEN host.proxies ELSE {},
                  hosts |-> IF keep.hosts \/ "hosts" \in Forced THEN host.hosts ELSE {}]

-----------------------------------------------------------------------------
\* Nobody shuts themselves out unawares: whoever was let in without a password
\* and changed what is trusted without confirming it, is still let in by the
\* configuration that was saved, or can sign in (handleHostConfigUpdate,
\* TrustChangeProblem).
NotShutOut ==
  (lastEdit # NoEdit /\ ~lastEdit.confirm /\ lastEdit.via # "apiKey") =>
     authenticate(lastEdit.req, host) # "refused" \/ (host.method = "forms" /\ host.user)
=============================================================================
