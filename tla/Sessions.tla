------------------------------ MODULE Sessions ------------------------------
(***************************************************************************)
(* Sign-in sessions (src/internal/auth): issuing, checking, renewing and   *)
(* ending them while requests run side by side, the live-update stream     *)
(* (handleEvents of src/internal/api/events.go) and the reset of           *)
(* authentication (cmd/dupearr/resetauth.go).  A token is its session's    *)
(* id with the signing key and the password hash its signature covers;     *)
(* key and generation change together and are one number.  Expiry dates    *)
(* are left out.                                                           *)
(***************************************************************************)
EXTENDS Integers, FiniteSets

CONSTANTS
  SessionIds,            \* requests in progress at a time
  MaxLogins, MaxRotations, MaxPasswords, MaxResets,
  MaxRevoked        \* maxRevokedSessions

ASSUME SessionAssumption ==
  /\ 0 \notin SessionIds
  /\ MaxLogins \in Nat /\ MaxRotations \in Nat /\ MaxPasswords \in Nat /\ MaxResets \in Nat /\ MaxRevoked \in Nat

VARIABLES
  mem,              \* the service: [key, revoked, locked, changed]
  saved,            \* the store: [key, revoked, pw (0: no user), reset]
  tokens,           \* the session cookies handed out: [id, key, pw, root]
  req,              \* slot -> the request in progress
  rotating,         \* who holds rotateMu, 0 for nobody
  stream,           \* the live-update stream
  out               \* the logins that were logged out
sessionVars == <<mem, saved, tokens, req, rotating, stream, out>>

Idle == [kind |-> "none"]
NoStream == [phase |-> "none"]
Step(s, r) == req' = [req EXCEPT ![s] = r]
SessionEnded(s) == Step(s, Idle)
\* root is where the session comes from: its login, and the password it was
\* opened with (the one who changes the password stays signed in).
Token(id, key, pw, root) == [id |-> id, key |-> key, pw |-> pw, root |-> root]
NextId == 1 + Cardinality({t.id : t \in tokens})
NextKey == 1 + (IF saved.key > mem.key THEN saved.key ELSE mem.key)
notifyCredentialsChanged(m) == [m EXCEPT !.changed = @ + 1]

SessionInit ==
  /\ mem = [key |-> 1, revoked |-> {}, locked |-> FALSE, changed |-> 0]
  /\ saved = [key |-> 1, revoked |-> {}, pw |-> 1, reset |-> FALSE]
  /\ tokens = {} /\ req = [s \in SessionIds |-> Idle] /\ rotating = 0 /\ stream = NoStream /\ out = {}

-----------------------------------------------------------------------------
(* Login: the user is read, the password compared, the cookie issued.      *)
LoginRead(s) ==
  /\ req[s] = Idle /\ ~mem.locked /\ saved.pw # 0 /\ NextId <= MaxLogins
  /\ \A o \in SessionIds : req[o].kind # "login"
  /\ Step(s, [kind |-> "login", phase |-> "read", pw |-> saved.pw])
  /\ UNCHANGED <<mem, saved, tokens, rotating, stream, out>>
\* A wrong password, a throttled or a busy login ends here.
LoginRefused(s) == req[s].kind = "login" /\ SessionEnded(s) /\ UNCHANGED <<mem, saved, tokens, rotating, stream, out>>
setSessionCookie(s) == tokens' = tokens \cup {Token(NextId, mem.key, req[s].pw, [login |-> NextId, pw |-> req[s].pw])}
LoginIssue(s) ==
  /\ req[s].kind = "login" /\ setSessionCookie(s) /\ SessionEnded(s) /\ UNCHANGED <<mem, saved, rotating, stream, out>>

-----------------------------------------------------------------------------
(* verifySession, in the requests that need a session.                     *)
isRevokedOrRotated(id, key) == id \in mem.revoked \/ mem.key # key
\* then: what the request is for; was: what had ended when it began.
VerifyBegin(s, t, then) ==
  /\ req[s] = Idle /\ ~mem.locked /\ t \in tokens
  /\ IF isRevokedOrRotated(t.id, mem.key) THEN UNCHANGED req
     ELSE Step(s, [kind |-> "verify", phase |-> "begun", token |-> t, key |-> mem.key, then |-> then, was |-> out, pw |-> saved.pw])
  /\ UNCHANGED <<mem, saved, tokens, rotating, stream, out>>
VerifyUser(s) ==
  /\ req[s].kind = "verify" /\ req[s].phase = "begun"
  /\ IF saved.pw = 0 THEN SessionEnded(s)
     ELSE Step(s, [kind |-> "verify", phase |-> "read", token |-> req[s].token, key |-> req[s].key, then |-> req[s].then,
                   was |-> req[s].was, pw |-> req[s].pw, hash |-> saved.pw])
  /\ UNCHANGED <<mem, saved, tokens, rotating, stream, out>>
sign(t, key, hash) == t.key = key /\ t.pw = hash
VerifyEnd(s) ==
  /\ req[s].kind = "verify" /\ req[s].phase = "read"
  /\ IF sign(req[s].token, req[s].key, req[s].hash) /\ ~isRevokedOrRotated(req[s].token.id, req[s].key)
     THEN Step(s, [req[s] EXCEPT !.kind = "signedIn", !.phase = "accepted"]) ELSE SessionEnded(s)
  /\ UNCHANGED <<mem, saved, tokens, rotating, stream, out>>
\* renewIfStale: with the state the token was checked against, and the same id.
\* Mutated form: a renewal is a session of its own.
renewedAnew(r) == Token(NextId, r.key, r.hash, r.token.root)
renewed(r) == Token(r.token.id, r.key, r.hash, r.token.root)
Renew(s) ==
  /\ req[s].kind = "signedIn" /\ req[s].then \in {"get", "stream"}
  /\ tokens' = tokens \cup {renewed(req[s])}
  /\ UNCHANGED <<mem, saved, req, rotating, stream, out>>
Answer(s) ==
  /\ req[s].kind = "signedIn" /\ req[s].then = "get" /\ SessionEnded(s) /\ UNCHANGED <<mem, saved, tokens, rotating, stream, out>>

-----------------------------------------------------------------------------
(* Ending sessions.                                                        *)
\* revokeSession: the id is put on the list, then the list is saved.
LogoutMark(s) ==
  /\ req[s].kind = "signedIn" /\ req[s].then = "logout"
  /\ Cardinality(mem.revoked) < MaxRevoked
  /\ mem' = [mem EXCEPT !.revoked = @ \cup {req[s].token.id}]
  /\ Step(s, [kind |-> "logout", list |-> mem.revoked \cup {req[s].token.id}])
  /\ out' = out \cup {req[s].token.root.login}
  /\ UNCHANGED <<saved, tokens, rotating, stream>>
LogoutSave(s) ==
  /\ req[s].kind = "logout" /\ saved' = [saved EXCEPT !.revoked = req[s].list]
  /\ mem' = notifyCredentialsChanged(mem) /\ SessionEnded(s)
  /\ UNCHANGED <<tokens, rotating, stream, out>>
\* RevokeSessions: asked for, after a new password, or because the list is full.
asksRotation(r) ==
  \/ r.kind = "signedIn" /\ r.then = "revoke"
  \/ r.kind = "changed"
  \/ r.kind = "signedIn" /\ r.then = "logout" /\ Cardinality(mem.revoked) >= MaxRevoked
keptOf(r) == IF r.kind = "changed" THEN r.keep ELSE IF r.then = "revoke" THEN {r.token} ELSE {}
RotateSave(s) ==
  /\ rotating = 0 /\ asksRotation(req[s]) /\ NextKey <= MaxRotations + 1
  /\ rotating' = s /\ saved' = [saved EXCEPT !.key = NextKey]
  /\ Step(s, [kind |-> "rotate", phase |-> "saved", key |-> NextKey, keep |-> keptOf(req[s]),
              ends |-> IF req[s].kind = "changed" \/ req[s].then # "logout" THEN {} ELSE {req[s].token.root.login}])
  /\ UNCHANGED <<mem, tokens, stream, out>>
\* The new key is in force and the list empty, in one critical section: a
\* logout that asked for it is over from here on.
RotateSwap(s) ==
  /\ req[s].kind = "rotate" /\ req[s].phase = "saved"
  /\ mem' = [mem EXCEPT !.key = req[s].key, !.revoked = {}]
  /\ out' = out \cup req[s].ends
  /\ Step(s, [req[s] EXCEPT !.phase = "swapped"]) /\ UNCHANGED <<saved, tokens, rotating, stream>>
RotateClear(s) ==
  /\ req[s].kind = "rotate" /\ req[s].phase = "swapped"
  /\ saved' = [saved EXCEPT !.revoked = {}] /\ mem' = notifyCredentialsChanged(mem) /\ rotating' = 0
  /\ Step(s, IF req[s].keep = {} THEN Idle ELSE [kind |-> "keep", keep |-> req[s].keep])
  /\ UNCHANGED <<tokens, stream, out>>
\* KeepSession: the one who asked stays signed in, under the same id.
KeepSession(s) ==
  /\ req[s].kind = "keep"
  /\ IF saved.pw = 0 THEN UNCHANGED <<tokens, out>>
     ELSE /\ tokens' = tokens \cup {Token(t.id, mem.key, saved.pw, [t.root EXCEPT !.pw = saved.pw]) : t \in req[s].keep}
          /\ out' = out \ {t.root.login : t \in req[s].keep}
  /\ SessionEnded(s) /\ UNCHANGED <<mem, saved, rotating, stream>>
\* UpdateUser with a new password, its caller checked and known.
UpdateUser(s) ==
  /\ req[s].kind = "signedIn" /\ req[s].then = "password" /\ saved.pw \in 1 .. MaxPasswords - 1
  /\ \A o \in SessionIds : req[o].kind \notin {"changed", "rotate"}
  /\ saved' = [saved EXCEPT !.pw = @ + 1] /\ Step(s, [kind |-> "changed", keep |-> {req[s].token}])
  /\ UNCHANGED <<mem, tokens, rotating, stream, out>>

-----------------------------------------------------------------------------
(* The reset of authentication, and the process ending.                    *)
\* dupearr reset-auth leaves a request; the server notices, locks down and restarts.
ResetRequested ==
  /\ ~saved.reset /\ saved.key <= MaxRotations /\ saved.pw # 0 /\ MaxResets > 0 /\ saved.pw + 1 <= MaxPasswords
  /\ saved' = [saved EXCEPT !.reset = TRUE] /\ UNCHANGED <<mem, tokens, req, rotating, stream, out>>
Lockdown ==
  /\ saved.reset /\ ~mem.locked /\ mem' = notifyCredentialsChanged([mem EXCEPT !.locked = TRUE])
  /\ UNCHANGED <<saved, tokens, req, rotating, stream, out>>
\* resetAuthState: no user, a new key, no list.
resetAuthState(st) == [key |-> NextKey, revoked |-> {}, pw |-> 0, reset |-> FALSE]
\* The process stops, in order or not, and starts: New, after applyRequestedAuthReset.
Restart ==
  LET st == IF saved.reset THEN resetAuthState(saved) ELSE saved
  IN  /\ saved' = st
      /\ mem' = [key |-> st.key, revoked |-> st.revoked, locked |-> FALSE, changed |-> 0]
      /\ req' = [s \in SessionIds |-> Idle] /\ rotating' = 0 /\ stream' = NoStream
      \* a logout whose list another writer's save replaced is forgotten
      /\ out' = {i \in out : \A t \in tokens : t.root.login = i => t.id \in st.revoked \/ ~sign(t, st.key, st.pw)}
      /\ UNCHANGED tokens

-----------------------------------------------------------------------------
(* The live-update stream of a request that was authenticated.             *)
Valid(t) == ~mem.locked /\ ~isRevokedOrRotated(t.id, mem.key) /\ sign(t, mem.key, saved.pw)
StreamOpen(s) ==
  /\ stream.phase = "none" /\ req[s].kind = "signedIn" /\ req[s].then = "stream"
  /\ stream' = [phase |-> "open", token |-> req[s].token, armed |-> mem.changed]
  /\ SessionEnded(s) /\ UNCHANGED <<mem, saved, tokens, rotating, out>>
\* The channel it waits on was closed: check, then take the next channel.
StreamWoken ==
  /\ stream.phase = "open" /\ stream.armed # mem.changed
  /\ stream' = IF Valid(stream.token) THEN [stream EXCEPT !.phase = "checked"] ELSE NoStream
  /\ UNCHANGED <<mem, saved, tokens, req, rotating, out>>
StreamArms ==
  /\ stream.phase = "checked" /\ stream' = [stream EXCEPT !.phase = "open", !.armed = mem.changed]
  /\ UNCHANGED <<mem, saved, tokens, req, rotating, out>>
\* Mutated form: the keep-alive does not check.
keepAlivePings(t) == TRUE
keepAliveChecks(t) == Valid(t)
\* Every 25 seconds.
StreamTick ==
  /\ stream.phase = "open" /\ ~keepAliveChecks(stream.token)
  /\ stream' = NoStream /\ UNCHANGED <<mem, saved, tokens, req, rotating, out>>
SessionFairness == WF_stream(StreamWoken) /\ WF_stream(StreamArms) /\ WF_stream(StreamTick)

-----------------------------------------------------------------------------
(* Properties.                                                             *)

\* What is over stays over: a request whose check began after a logout or
\* after a new password was saved is not accepted with a session of before,
\* whatever renewals, logins and rotations ran meanwhile (verifySession,
\* renewIfStale, KeepSession).
EndedStaysOut ==
  \A s \in SessionIds : req[s].kind = "signedIn" => req[s].token.root.login \notin req[s].was /\ req[s].token.root.pw >= req[s].pw

\* A live-update stream never outlives its session for good: one whose
\* session has ended is closed, even when the notification came between its
\* check and its next wait (handleEvents).
StreamEnds == [](stream.phase # "none" /\ ~Valid(stream.token) => <>(stream.phase = "none" \/ Valid(stream.token)))
=============================================================================
