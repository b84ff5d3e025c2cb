--------------------------- MODULE SessionsProofs ---------------------------
(***************************************************************************)
(* Proofs about who is let in and about the settings: sign-in sessions, for *)
(* any number of requests side by side, logins, rotations, passwords and    *)
(* resets, and any size of the revocation list; the network trust; and      *)
(* config.xml.  The specification is the one of the whole service: the      *)
(* other parts leave each of them alone.                                    *)
(***************************************************************************)
EXTENDS Services, FiniteSetTheorems, TLAPS

-----------------------------------------------------------------------------
(* The inductive invariant.                                                *)

SessToken == [id : Nat, key : Nat, pw : Nat, root : [login : Nat, pw : Nat]]
Purposes == {"get", "logout", "revoke", "password", "stream"}

\* A request in progress, by what it is doing.
IdleReq     == [kind : {"none"}]
LoginReq    == [kind : {"login"}, phase : {"read"}, pw : Nat]
BegunReq    == [kind : {"verify"}, phase : {"begun"}, token : SessToken, key : Nat,
                then : Purposes, was : SUBSET Nat, pw : Nat]
ReadReq     == [kind : {"verify"}, phase : {"read"}, token : SessToken, key : Nat,
                then : Purposes, was : SUBSET Nat, pw : Nat, hash : Nat]
SignedInReq == [kind : {"signedIn"}, phase : {"accepted"}, token : SessToken, key : Nat,
                then : Purposes, was : SUBSET Nat, pw : Nat, hash : Nat]
LogoutReq   == [kind : {"logout"}, list : SUBSET Nat]
RotateReq   == [kind : {"rotate"}, phase : {"saved", "swapped"}, key : Nat,
                keep : SUBSET SessToken, ends : SUBSET Nat]
ChangedReq  == [kind : {"changed"}, keep : SUBSET SessToken]
KeepReq     == [kind : {"keep"}, keep : SUBSET SessToken]

SessReq == IdleReq \cup LoginReq \cup BegunReq \cup ReadReq \cup SignedInReq \cup LogoutReq
             \cup RotateReq \cup ChangedReq \cup KeepReq

MemType   == [key : Nat, revoked : SUBSET Nat, locked : BOOLEAN, changed : Nat]
SavedType == [key : Nat, revoked : SUBSET Nat, pw : Nat, reset : BOOLEAN]

SessTypes ==
  /\ mem \in MemType
  /\ saved \in SavedType
  /\ tokens \in SUBSET SessToken
  /\ req \in [SessionIds -> SessReq]
  /\ out \in SUBSET Nat

Logins == {t.id : t \in tokens}

\* A cookie names its login and the password it was issued under, and no cookie
\* is newer than the key in force and the password stored.
TokenOK(t) ==
  /\ t.root.login = t.id /\ t.root.pw = t.pw
  /\ t.key <= mem.key
  /\ saved.pw # 0 => t.pw <= saved.pw

\* Nothing that was issued to a login that is over is accepted any more.
Dead(t) == t.id \in mem.revoked \/ t.key # mem.key \/ t.pw # saved.pw

\* A check in progress: what was over when it began stands against the key it
\* began with, or against the password it is about to read.
CheckOK(r) ==
  /\ r.token \in tokens
  /\ r.token.root.login \in r.was => r.token.key # r.key \/ r.token.pw < r.pw \/ r.pw = 0
  /\ r.pw <= saved.pw /\ (r.pw = 0 => saved.pw = 0)

HashOK(r) == r.pw # 0 /\ r.hash # 0 /\ r.pw <= r.hash

ReqOK(s, r) ==
  /\ r.kind = "login" => r.pw <= saved.pw
  /\ r.kind = "verify" => CheckOK(r)
  /\ r.kind = "verify" /\ r.phase = "read" => HashOK(r)
  /\ r.kind = "signedIn" => CheckOK(r) /\ HashOK(r) /\ r.token.key = r.key /\ r.token.pw = r.hash
  /\ r.kind = "rotate" => rotating = s /\ r.keep \subseteq tokens /\ r.ends \subseteq Logins
  /\ r.kind = "rotate" /\ r.phase = "saved" => mem.key < r.key /\ r.key <= saved.key
  /\ r.kind \in {"changed", "keep"} => r.keep \subseteq tokens

SessInv ==
  /\ SessTypes
  /\ mem.key <= saved.key
  /\ \E n \in Nat : Logins = 1 .. n
  /\ out \subseteq Logins
  /\ \A t \in tokens : TokenOK(t) /\ (t.root.login \in out => Dead(t))
  /\ \A s \in SessionIds : ReqOK(s, req[s])

-----------------------------------------------------------------------------
(* Requests and their types.                                               *)

\* A request's fields follow from what it is doing.
LEMMA ReqKinds ==
  ASSUME NEW r \in SessReq
  PROVE  /\ r.kind = "login" => r \in LoginReq
         /\ r.kind = "verify" /\ r.phase = "begun" => r \in BegunReq
         /\ r.kind = "verify" /\ r.phase = "read" => r \in ReadReq
         /\ r.kind = "signedIn" => r \in SignedInReq
         /\ r.kind = "logout" => r \in LogoutReq
         /\ r.kind = "rotate" => r \in RotateReq
         /\ r.kind = "changed" => r \in ChangedReq
         /\ r.kind = "keep" => r \in KeepReq
  <1>1. CASE r \in IdleReq    BY <1>1 DEF IdleReq
  <1>2. CASE r \in LoginReq   BY <1>2 DEF LoginReq
  <1>3. CASE r \in BegunReq   BY <1>3 DEF BegunReq
  <1>4. CASE r \in ReadReq    BY <1>4 DEF ReadReq
  <1>5. CASE r \in SignedInReq BY <1>5 DEF SignedInReq
  <1>6. CASE r \in LogoutReq  BY <1>6 DEF LogoutReq
  <1>7. CASE r \in RotateReq  BY <1>7 DEF RotateReq
  <1>8. CASE r \in ChangedReq BY <1>8 DEF ChangedReq
  <1>9. CASE r \in KeepReq    BY <1>9 DEF KeepReq
  <1> QED BY <1>1, <1>2, <1>3, <1>4, <1>5, <1>6, <1>7, <1>8, <1>9 DEF SessReq

\* Each way of writing a request's record is one of them.
LEMMA ReqParts ==
  /\ IdleReq \subseteq SessReq /\ LoginReq \subseteq SessReq /\ BegunReq \subseteq SessReq
  /\ ReadReq \subseteq SessReq /\ SignedInReq \subseteq SessReq /\ LogoutReq \subseteq SessReq
  /\ RotateReq \subseteq SessReq /\ ChangedReq \subseteq SessReq /\ KeepReq \subseteq SessReq
  BY Zenon DEF SessReq

\* A request that is over asks nothing.
LEMMA IdleIsOK ==
  ASSUME NEW s
  PROVE  Idle \in SessReq /\ ReqOK(s, Idle) /\ ReqOK(s, Idle)'
  <1>1. Idle \in IdleReq BY DEF Idle, IdleReq
  <1> QED BY <1>1, ReqParts DEF Idle, ReqOK

-----------------------------------------------------------------------------
(* Steps that leave the keys, the list in memory, the password and the     *)
(* cookies alone.                                                          *)

\* A step that only moves requests keeps the invariant when each request that
\* moves is sound afterwards (LoginRead, the steps of verifySession, Lockdown
\* and the saving of a list among others).
LEMMA QuietStep ==
  ASSUME SessInv,
         mem' \in MemType, mem'.key = mem.key, mem'.revoked = mem.revoked,
         saved' \in SavedType, saved'.key = saved.key, saved'.pw = saved.pw,
         UNCHANGED <<tokens, rotating, out>>,
         req' \in [SessionIds -> SessReq],
         \A x \in SessionIds : req'[x] = req[x] \/ ReqOK(x, req'[x])
  PROVE  SessInv'
  <1>1. SessTypes' BY DEF SessInv, SessTypes
  <1>2. \A t : TokenOK(t)' = TokenOK(t) /\ Dead(t)' = Dead(t)
    BY DEF TokenOK, Dead
  <1>3. \A x \in SessionIds : ReqOK(x, req[x])
    BY DEF SessInv
  <1>4. \A x \in SessionIds : ReqOK(x, req'[x])
    BY <1>3
  <1>5. \A x \in SessionIds : ReqOK(x, req[x])'
    <2> TAKE x \in SessionIds
    <2>1. ReqOK(x, req'[x]) BY <1>4
    <2> QED BY <2>1 DEF ReqOK, CheckOK, HashOK, Logins
  <1>6. (mem.key <= saved.key)' /\ (\E n \in Nat : Logins = 1 .. n)' /\ (out \subseteq Logins)'
    BY DEF SessInv, Logins
  <1>7. (\A t \in tokens : TokenOK(t) /\ (t.root.login \in out => Dead(t)))'
    BY <1>2 DEF SessInv
  <1> QED BY <1>1, <1>5, <1>6, <1>7 DEF SessInv

\* The same, for a step of one request.
LEMMA QuietRequest ==
  ASSUME SessInv, NEW s \in SessionIds, NEW r \in SessReq, ReqOK(s, r), Step(s, r),
         UNCHANGED <<mem, saved, tokens, rotating, out>>
  PROVE  SessInv'
  <1>1. mem' \in MemType /\ saved' \in SavedType BY DEF SessInv, SessTypes
  <1>2. req' \in [SessionIds -> SessReq] BY DEF SessInv, SessTypes, Step
  <1>3. \A x \in SessionIds : req'[x] = req[x] \/ ReqOK(x, req'[x])
    BY DEF SessInv, SessTypes, Step
  <1> QED BY <1>1, <1>2, <1>3, QuietStep

\* The same, when the request ends.
LEMMA QuietEnd ==
  ASSUME SessInv, NEW s \in SessionIds, SessionEnded(s), UNCHANGED <<mem, saved, tokens, rotating, out>>
  PROVE  SessInv'
  BY IdleIsOK, QuietRequest DEF SessionEnded

-----------------------------------------------------------------------------
(* Signing in and checking a session.                                      *)

\* Login: the password read is the one stored, and later ones are greater.
LEMMA LoginReadKeeps ==
  ASSUME SessInv, NEW s \in SessionIds, LoginRead(s)
  PROVE  SessInv'
  <1> DEFINE r == [kind |-> "login", phase |-> "read", pw |-> saved.pw]
  <1>1. saved.pw \in Nat BY DEF SessInv, SessTypes, SavedType
  <1>2. r \in LoginReq BY <1>1 DEF LoginReq
  <1>3. ReqOK(s, r) BY <1>1 DEF ReqOK
  <1>4. Step(s, r) /\ UNCHANGED <<mem, saved, tokens, rotating, out>> BY DEF LoginRead
  <1> HIDE DEF r
  <1> QED BY <1>2, <1>3, <1>4, ReqParts, QuietRequest

\* The cookies handed out number the logins, so the next number is new.
LEMMA NextLogin ==
  ASSUME SessInv, NEW n \in Nat, Logins = 1 .. n
  PROVE  NextId = n + 1
  <1>1. Cardinality(1 .. n) = n
    BY FS_Interval
  <1>2. NextId = 1 + Cardinality(Logins) BY DEF NextId, Logins
  <1> QED BY <1>1, <1>2

\* setSessionCookie: a new login is none of those that are over.
LEMMA LoginIssueKeeps ==
  ASSUME SessInv, NEW s \in SessionIds, LoginIssue(s)
  PROVE  SessInv'
  <1> DEFINE pw == req[s].pw
             new == Token(NextId, mem.key, pw, [login |-> NextId, pw |-> pw])
  <1>1. PICK n \in Nat : Logins = 1 .. n BY DEF SessInv
  <1>2. NextId = n + 1 BY <1>1, NextLogin
  <1>3. req[s] \in LoginReq /\ ReqOK(s, req[s]) /\ req[s].kind = "login"
    BY ReqKinds DEF SessInv, SessTypes, LoginIssue
  <1>4. pw \in Nat /\ pw <= saved.pw BY <1>3 DEF LoginReq, ReqOK
  <1>5. mem.key \in Nat /\ saved.pw \in Nat /\ saved.key \in Nat BY DEF SessInv, SessTypes, MemType, SavedType
  <1>6. new \in SessToken /\ new.id = n + 1 /\ new.root.login = n + 1 /\ new.root.pw = new.pw
        /\ new.key = mem.key /\ new.pw = pw
    BY <1>2, <1>4, <1>5 DEF Token, SessToken
  <1>7. tokens' = tokens \cup {new} BY DEF LoginIssue, setSessionCookie
  <1>8. UNCHANGED <<mem, saved, rotating, out>> /\ req' = [req EXCEPT ![s] = Idle]
    BY DEF LoginIssue, SessionEnded, Step
  <1> HIDE DEF new, pw
  <1>9. SessTypes' BY <1>6, <1>7, <1>8, IdleIsOK DEF SessInv, SessTypes
  <1>10. Logins' = Logins \cup {n + 1} BY <1>6, <1>7 DEF Logins
  <1>11. Logins' = 1 .. (n + 1) BY <1>10, <1>1
  <1>12. (out \subseteq Logins)' BY <1>10, <1>8 DEF SessInv
  <1>13. n + 1 \notin out BY <1>1 DEF SessInv
  <1>14. \A t \in tokens' : TokenOK(t)' /\ (t.root.login \in out' => Dead(t)')
    <2> TAKE t \in tokens'
    <2>1. CASE t = new BY <2>1, <1>4, <1>5, <1>6, <1>8, <1>13 DEF TokenOK
    <2>2. CASE t \in tokens BY <2>2, <1>8 DEF SessInv, TokenOK, Dead
    <2> QED BY <2>1, <2>2, <1>7
  <1>15. \A x \in SessionIds : ReqOK(x, req[x])'
    <2> TAKE x \in SessionIds
    <2>1. CASE x = s BY <2>1, <1>8, IdleIsOK DEF SessInv, SessTypes
    <2>2. CASE x # s
      <3>1. req'[x] = req[x] /\ ReqOK(x, req[x]) BY <2>2, <1>8 DEF SessInv, SessTypes
      <3> QED BY <3>1, <1>7, <1>8, <1>10 DEF ReqOK, CheckOK, HashOK
    <2> QED BY <2>1, <2>2
  <1> QED BY <1>8, <1>9, <1>11, <1>12, <1>14, <1>15 DEF SessInv

\* verifySession, its beginning: a session that was over when the check began
\* and is not refused at once has another key or an older password.
LEMMA VerifyBeginKeeps ==
  ASSUME SessInv, NEW s \in SessionIds, NEW t \in tokens, NEW then \in Purposes, VerifyBegin(s, t, then)
  PROVE  SessInv'
  <1>1. CASE isRevokedOrRotated(t.id, mem.key)
    <2>1. UNCHANGED <<mem, saved, tokens, rotating, out, req>> BY <1>1 DEF VerifyBegin
    <2> QED BY <2>1, QuietStep DEF SessInv, SessTypes
  <1>2. CASE ~isRevokedOrRotated(t.id, mem.key)
    <2> DEFINE r == [kind |-> "verify", phase |-> "begun", token |-> t, key |-> mem.key, then |-> then,
                     was |-> out, pw |-> saved.pw]
    <2>1. t \in SessToken /\ mem.key \in Nat /\ saved.pw \in Nat /\ out \in SUBSET Nat
      BY DEF SessInv, SessTypes, MemType, SavedType
    <2>2. r \in BegunReq BY <2>1 DEF BegunReq
    <2>3. TokenOK(t) /\ (t.root.login \in out => Dead(t)) BY DEF SessInv
    <2>4. t.pw \in Nat /\ t.key \in Nat BY <2>1 DEF SessToken
    <2>5. CheckOK(r) BY <1>2, <2>1, <2>3, <2>4 DEF CheckOK, TokenOK, Dead, isRevokedOrRotated
    <2>6. ReqOK(s, r) BY <2>5 DEF ReqOK
    <2>7. Step(s, r) /\ UNCHANGED <<mem, saved, tokens, rotating, out>> BY <1>2 DEF VerifyBegin
    <2> HIDE DEF r
    <2> QED BY <2>2, <2>6, <2>7, ReqParts, QuietRequest
  <1> QED BY <1>1, <1>2

\* The user read: a password that is stored now is none older than the one
\* stored when the check began.
LEMMA VerifyUserKeeps ==
  ASSUME SessInv, NEW s \in SessionIds, VerifyUser(s)
  PROVE  SessInv'
  <1>1. CASE saved.pw = 0 BY <1>1, QuietEnd DEF VerifyUser
  <1>2. CASE saved.pw # 0
    <2> DEFINE q == req[s]
               r == [kind |-> "verify", phase |-> "read", token |-> q.token, key |-> q.key, then |-> q.then,
                     was |-> q.was, pw |-> q.pw, hash |-> saved.pw]
    <2>1. q \in BegunReq /\ CheckOK(q)
      BY ReqKinds DEF SessInv, SessTypes, VerifyUser, ReqOK
    <2>2. saved.pw \in Nat BY DEF SessInv, SessTypes, SavedType
    <2>3. r \in ReadReq BY <2>1, <2>2 DEF BegunReq, ReadReq
    <2>4. CheckOK(r) BY <2>1 DEF CheckOK
    <2>5. HashOK(r) BY <2>1, <2>2, <1>2 DEF CheckOK, HashOK
    <2>6. ReqOK(s, r) BY <2>4, <2>5 DEF ReqOK
    <2>7. Step(s, r) /\ UNCHANGED <<mem, saved, tokens, rotating, out>> BY <1>2 DEF VerifyUser
    <2> HIDE DEF r
    <2> QED BY <2>3, <2>6, <2>7, ReqParts, QuietRequest
  <1> QED BY <1>1, <1>2

\* The signature: the token has the key the check began with and the password
\* that was read.
LEMMA VerifyEndKeeps ==
  ASSUME SessInv, NEW s \in SessionIds, VerifyEnd(s)
  PROVE  SessInv'
  <1> DEFINE q == req[s]
             r == [q EXCEPT !.kind = "signedIn", !.phase = "accepted"]
  <1>1. q \in ReadReq /\ CheckOK(q) /\ HashOK(q)
    BY ReqKinds DEF SessInv, SessTypes, VerifyEnd, ReqOK
  <1>2. CASE Step(s, r) /\ sign(q.token, q.key, q.hash)
    <2>1. r \in SignedInReq BY <1>1 DEF ReadReq, SignedInReq
    <2>2. r.kind = "signedIn" /\ r.token = q.token /\ r.key = q.key /\ r.was = q.was /\ r.pw = q.pw /\ r.hash = q.hash
      BY <1>1 DEF ReadReq
    <2> HIDE DEF r
    <2>3. ReqOK(s, r) BY <1>1, <1>2, <2>2 DEF ReqOK, CheckOK, HashOK, sign
    <2>4. UNCHANGED <<mem, saved, tokens, rotating, out>> BY DEF VerifyEnd
    <2> QED BY <1>2, <2>1, <2>3, <2>4, ReqParts, QuietRequest
  <1>3. CASE SessionEnded(s) BY <1>3, QuietEnd DEF VerifyEnd
  <1> QED BY <1>2, <1>3 DEF VerifyEnd

\* renewIfStale: with the state the token was checked against, the renewed
\* cookie says what the token said.
LEMMA RenewKeeps ==
  ASSUME SessInv, NEW s \in SessionIds, Renew(s)
  PROVE  SessInv'
  <1> DEFINE q == req[s]
  <1>1. q \in SignedInReq /\ CheckOK(q) /\ q.token.key = q.key /\ q.token.pw = q.hash
    BY ReqKinds DEF SessInv, SessTypes, Renew, ReqOK
  <1>2. q.token \in SessToken BY <1>1 DEF SignedInReq
  <1>3. renewed(q) = q.token BY <1>1, <1>2 DEF renewed, Token, SessToken
  <1>4. tokens' = tokens BY <1>1, <1>3 DEF Renew, CheckOK
  <1>5. UNCHANGED <<mem, saved, req, rotating, out>> BY DEF Renew
  <1> QED BY <1>4, <1>5, QuietStep DEF SessInv, SessTypes

-----------------------------------------------------------------------------
(* Ending sessions.                                                        *)

\* revokeSession: whatever was issued to the login is on the list.
LEMMA LogoutMarkKeeps ==
  ASSUME SessInv, NEW s \in SessionIds, LogoutMark(s)
  PROVE  SessInv'
  <1> DEFINE q == req[s]
             id == q.token.id
             r == [kind |-> "logout", list |-> mem.revoked \cup {id}]
  <1>1. q \in SignedInReq /\ CheckOK(q)
    BY ReqKinds DEF SessInv, SessTypes, LogoutMark, ReqOK
  <1>2. q.token \in tokens /\ id \in Nat /\ q.token.root.login = id /\ id \in Logins
    BY <1>1 DEF CheckOK, SessInv, SessTypes, SessToken, TokenOK, Logins
  <1>3. mem \in MemType BY DEF SessInv, SessTypes
  <1>4. mem' = [mem EXCEPT !.revoked = @ \cup {id}] /\ req' = [req EXCEPT ![s] = r] /\ out' = out \cup {id}
        /\ UNCHANGED <<saved, tokens, rotating>>
    BY <1>2 DEF LogoutMark, Step
  <1>5. mem' \in MemType /\ mem'.key = mem.key /\ mem'.revoked = mem.revoked \cup {id}
    BY <1>2, <1>3, <1>4 DEF MemType
  <1>6. r \in SessReq
    <2>1. r \in LogoutReq BY <1>2, <1>3 DEF LogoutReq, MemType
    <2> QED BY <2>1, ReqParts
  <1>7. ReqOK(s, req[s])'
    <2>1. req'[s] = r BY <1>4 DEF SessInv, SessTypes
    <2> QED BY <2>1 DEF ReqOK
  <1> HIDE DEF r, q
  <1>8. SessTypes' BY <1>2, <1>4, <1>5, <1>6 DEF SessInv, SessTypes
  <1>9. Logins' = Logins BY <1>4 DEF Logins
  <1>10. (\E n \in Nat : Logins = 1 .. n)' /\ (out \subseteq Logins)' /\ (mem.key <= saved.key)'
    BY <1>2, <1>4, <1>5, <1>9 DEF SessInv
  <1>11. \A t \in tokens' : TokenOK(t)' /\ (t.root.login \in out' => Dead(t)')
    BY <1>4, <1>5 DEF SessInv, TokenOK, Dead
  <1>12. \A x \in SessionIds : ReqOK(x, req[x])'
    <2> TAKE x \in SessionIds
    <2>1. CASE x = s BY <2>1, <1>7
    <2>2. CASE x # s
      <3>1. req'[x] = req[x] /\ ReqOK(x, req[x]) BY <2>2, <1>4 DEF SessInv, SessTypes
      <3> QED BY <3>1, <1>4, <1>5, <1>9 DEF ReqOK, CheckOK, HashOK
    <2> QED BY <2>1, <2>2
  <1> QED BY <1>8, <1>10, <1>11, <1>12 DEF SessInv

\* The list is saved after the memory has it.
LEMMA LogoutSaveKeeps ==
  ASSUME SessInv, NEW s \in SessionIds, LogoutSave(s)
  PROVE  SessInv'
  <1>1. req[s] \in LogoutReq BY ReqKinds DEF SessInv, SessTypes, LogoutSave
  <1>2. mem \in MemType /\ saved \in SavedType /\ req \in [SessionIds -> SessReq] BY DEF SessInv, SessTypes
  <1>3. saved' = [saved EXCEPT !.revoked = req[s].list] /\ mem' = [mem EXCEPT !.changed = @ + 1]
        /\ req' = [req EXCEPT ![s] = Idle] /\ UNCHANGED <<tokens, rotating, out>>
    BY DEF LogoutSave, notifyCredentialsChanged, SessionEnded, Step
  <1>4. mem' \in MemType /\ mem'.key = mem.key /\ mem'.revoked = mem.revoked
    BY <1>2, <1>3 DEF MemType
  <1>5. saved' \in SavedType /\ saved'.key = saved.key /\ saved'.pw = saved.pw
    BY <1>1, <1>2, <1>3 DEF SavedType, LogoutReq
  <1>6. req' \in [SessionIds -> SessReq] /\ \A x \in SessionIds : req'[x] = req[x] \/ ReqOK(x, req'[x])
    BY <1>2, <1>3, IdleIsOK
  <1> QED BY <1>3, <1>4, <1>5, <1>6, QuietStep

\* The next key is above both the key in force and the one stored.
LEMMA NextKeyAbove ==
  ASSUME SessInv
  PROVE  NextKey \in Nat /\ mem.key < NextKey /\ saved.key < NextKey
  BY DEF SessInv, SessTypes, MemType, SavedType, NextKey

\* Only the request that holds rotateMu rotates.
LEMMA OneRotates ==
  ASSUME SessInv, NEW s, rotating = s
  PROVE  \A x \in SessionIds : req[x].kind = "rotate" => x = s
  BY DEF SessInv, ReqOK

\* RevokeSessions: the key is stored before it is in force.
LEMMA RotateSaveKeeps ==
  ASSUME SessInv, NEW s \in SessionIds, RotateSave(s)
  PROVE  SessInv'
  <1> DEFINE q == req[s]
             ends == IF q.kind = "changed" \/ q.then # "logout" THEN {} ELSE {q.token.root.login}
             r == [kind |-> "rotate", phase |-> "saved", key |-> NextKey, keep |-> keptOf(q), ends |-> ends]
  <1>1. NextKey \in Nat /\ mem.key < NextKey /\ saved.key < NextKey BY NextKeyAbove
  <1>2. mem \in MemType /\ saved \in SavedType /\ req \in [SessionIds -> SessReq] /\ tokens \subseteq SessToken
    BY DEF SessInv, SessTypes
  <1>3. q \in SessReq /\ ReqOK(s, q) BY DEF SessInv, SessTypes
  <1>4. keptOf(q) \subseteq tokens /\ ends \subseteq Logins /\ ends \subseteq Nat
    <2>1. CASE q.kind = "changed" BY <2>1, <1>3 DEF keptOf, ReqOK
    <2>2. CASE q.kind = "signedIn"
      <3>1. q \in SignedInReq /\ CheckOK(q) BY <2>2, <1>3, ReqKinds DEF ReqOK
      <3>2. q.token \in tokens /\ q.token.root.login \in Logins /\ q.token.root.login \in Nat
        BY <3>1, <1>2 DEF CheckOK, SessInv, TokenOK, Logins, SessToken
      <3> QED BY <2>2, <3>2 DEF keptOf
    <2> QED BY <2>1, <2>2 DEF RotateSave, asksRotation
  <1>5. saved' = [saved EXCEPT !.key = NextKey] /\ req' = [req EXCEPT ![s] = r] /\ rotating' = s /\ rotating = 0
        /\ UNCHANGED <<mem, tokens, out>>
    BY DEF RotateSave, Step
  <1>6. saved' \in SavedType /\ saved'.key = NextKey /\ saved'.pw = saved.pw
    BY <1>1, <1>2, <1>5 DEF SavedType
  <1>7. r \in SessReq
    <2>1. keptOf(q) \subseteq SessToken BY <1>2, <1>4
    <2>2. r \in RotateReq BY <2>1, <1>1, <1>4 DEF RotateReq
    <2> QED BY <2>2, ReqParts
  <1>8. Logins' = Logins BY <1>5 DEF Logins
  <1>9. ReqOK(s, req[s])'
    <2>1. req'[s] = r BY <1>2, <1>5
    <2> QED BY <2>1, <1>1, <1>4, <1>5, <1>6, <1>8 DEF ReqOK
  <1>10. \A x \in SessionIds : req[x].kind # "rotate"
    BY <1>5, OneRotates, SessionAssumption
  <1> HIDE DEF r, q, ends
  <1>11. SessTypes' BY <1>5, <1>6, <1>7 DEF SessInv, SessTypes
  <1>12. (\E n \in Nat : Logins = 1 .. n)' /\ (out \subseteq Logins)' BY <1>5, <1>8 DEF SessInv
  <1>13. (mem.key <= saved.key)' BY <1>1, <1>2, <1>5, <1>6 DEF MemType
  <1>14. \A t \in tokens' : TokenOK(t)' /\ (t.root.login \in out' => Dead(t)')
    BY <1>5, <1>6 DEF SessInv, TokenOK, Dead
  <1>15. \A x \in SessionIds : ReqOK(x, req[x])'
    <2> TAKE x \in SessionIds
    <2>1. CASE x = s BY <2>1, <1>9
    <2>2. CASE x # s
      <3>1. req'[x] = req[x] /\ ReqOK(x, req[x]) /\ req[x].kind # "rotate" BY <2>2, <1>2, <1>5, <1>10 DEF SessInv
      <3> QED BY <3>1, <1>5, <1>6, <1>8 DEF ReqOK, CheckOK, HashOK
    <2> QED BY <2>1, <2>2
  <1> QED BY <1>11, <1>12, <1>13, <1>14, <1>15 DEF SessInv

\* The new key is in force: no cookie of before has it, so the list is not
\* needed any more.
LEMMA RotateSwapKeeps ==
  ASSUME SessInv, NEW s \in SessionIds, RotateSwap(s)
  PROVE  SessInv'
  <1> DEFINE q == req[s]
             r == [q EXCEPT !.phase = "swapped"]
  <1>1. mem \in MemType /\ saved \in SavedType /\ req \in [SessionIds -> SessReq] /\ tokens \subseteq SessToken
    BY DEF SessInv, SessTypes
  <1>2. q \in RotateReq /\ ReqOK(s, q) /\ q.kind = "rotate" /\ q.phase = "saved"
    BY ReqKinds DEF SessInv, SessTypes, RotateSwap
  <1>3. rotating = s /\ q.keep \subseteq tokens /\ q.ends \subseteq Logins /\ mem.key < q.key /\ q.key <= saved.key
    BY <1>2 DEF ReqOK
  <1>4. mem' = [mem EXCEPT !.key = q.key, !.revoked = {}] /\ out' = out \cup q.ends /\ req' = [req EXCEPT ![s] = r]
        /\ UNCHANGED <<saved, tokens, rotating>>
    BY DEF RotateSwap, Step
  <1>5. mem' \in MemType /\ mem'.key = q.key
    BY <1>1, <1>2, <1>4 DEF MemType, RotateReq
  <1>6. r \in RotateReq /\ r.phase = "swapped" /\ r.keep = q.keep /\ r.ends = q.ends
    BY <1>2 DEF RotateReq
  <1>7. r.kind = "rotate" /\ r \in SessReq BY <1>6, ReqParts DEF RotateReq
  <1> HIDE DEF r
  <1>8. Logins' = Logins BY <1>4 DEF Logins
  <1>9. ReqOK(s, req[s])'
    <2>1. req'[s] = r BY <1>1, <1>4
    <2> QED BY <2>1, <1>3, <1>4, <1>6, <1>7, <1>8 DEF ReqOK
  <1>10. q.ends \subseteq Nat /\ q.key \in Nat BY <1>2 DEF RotateReq
  <1>11. \A x \in SessionIds : x # s => req[x].kind # "rotate" BY <1>3, OneRotates
  <1> HIDE DEF q
  <1>12. SessTypes' BY <1>4, <1>5, <1>7, <1>10 DEF SessInv, SessTypes
  <1>13. (\E n \in Nat : Logins = 1 .. n)' /\ (out \subseteq Logins)' /\ (mem.key <= saved.key)'
    BY <1>3, <1>4, <1>5, <1>8 DEF SessInv
  <1>14. \A t \in tokens' : TokenOK(t)' /\ (t.root.login \in out' => Dead(t)')
    <2> TAKE t \in tokens'
    <2>1. TokenOK(t) /\ t \in SessToken BY <1>1, <1>4 DEF SessInv
    <2>2. t.key <= mem.key /\ t.key \in Nat /\ mem.key \in Nat BY <2>1, <1>1 DEF TokenOK, SessToken, MemType
    <2>3. t.key < q.key BY <2>2, <1>3, <1>10
    <2> QED BY <2>1, <2>2, <2>3, <1>4, <1>5, <1>10 DEF TokenOK, Dead
  <1>15. \A x \in SessionIds : ReqOK(x, req[x])'
    <2> TAKE x \in SessionIds
    <2>1. CASE x = s BY <2>1, <1>9
    <2>2. CASE x # s
      <3>1. req'[x] = req[x] /\ ReqOK(x, req[x]) /\ req[x].kind # "rotate" BY <2>2, <1>1, <1>4, <1>11 DEF SessInv
      <3> QED BY <3>1, <1>4, <1>8 DEF ReqOK, CheckOK, HashOK
    <2> QED BY <2>1, <2>2
  <1> QED BY <1>12, <1>13, <1>14, <1>15 DEF SessInv

\* The list stored is emptied and rotateMu is free again.
LEMMA RotateClearKeeps ==
  ASSUME SessInv, NEW s \in SessionIds, RotateClear(s)
  PROVE  SessInv'
  <1> DEFINE q == req[s]
             r == IF q.keep = {} THEN Idle ELSE [kind |-> "keep", keep |-> q.keep]
  <1>1. mem \in MemType /\ saved \in SavedType /\ req \in [SessionIds -> SessReq] /\ tokens \subseteq SessToken
    BY DEF SessInv, SessTypes
  <1>2. q \in RotateReq /\ ReqOK(s, q) /\ q.kind = "rotate"
    BY ReqKinds DEF SessInv, SessTypes, RotateClear
  <1>3. rotating = s /\ q.keep \subseteq tokens BY <1>2 DEF ReqOK
  <1>4. saved' = [saved EXCEPT !.revoked = {}] /\ mem' = [mem EXCEPT !.changed = @ + 1] /\ rotating' = 0
        /\ req' = [req EXCEPT ![s] = r] /\ UNCHANGED <<tokens, out>>
    BY DEF RotateClear, Step, notifyCredentialsChanged
  <1>5. mem' \in MemType /\ mem'.key = mem.key /\ mem'.revoked = mem.revoked BY <1>1, <1>4 DEF MemType
  <1>6. saved' \in SavedType /\ saved'.key = saved.key /\ saved'.pw = saved.pw BY <1>1, <1>4 DEF SavedType
  <1>7. r \in SessReq
    <2>1. CASE q.keep = {} BY <2>1, IdleIsOK
    <2>2. CASE q.keep # {}
      <3>1. r \in KeepReq BY <2>2, <1>1, <1>3 DEF KeepReq
      <3> QED BY <3>1, ReqParts
    <2> QED BY <2>1, <2>2
  <1>8. ReqOK(s, req[s])'
    <2>1. req'[s] = r BY <1>1, <1>4
    <2>2. CASE q.keep = {} BY <2>1, <2>2 DEF ReqOK, Idle
    <2>3. CASE q.keep # {} BY <2>1, <2>3, <1>3, <1>4 DEF ReqOK
    <2> QED BY <2>2, <2>3
  <1>9. Logins' = Logins BY <1>4 DEF Logins
  <1>10. \A x \in SessionIds : x # s => req[x].kind # "rotate" BY <1>3, OneRotates
  <1> HIDE DEF r, q
  <1>11. SessTypes' BY <1>4, <1>5, <1>6, <1>7 DEF SessInv, SessTypes
  <1>12. (\E n \in Nat : Logins = 1 .. n)' /\ (out \subseteq Logins)' /\ (mem.key <= saved.key)'
    BY <1>4, <1>5, <1>6, <1>9 DEF SessInv
  <1>13. \A t \in tokens' : TokenOK(t)' /\ (t.root.login \in out' => Dead(t)')
    BY <1>4, <1>5, <1>6 DEF SessInv, TokenOK, Dead
  <1>14. \A x \in SessionIds : ReqOK(x, req[x])'
    <2> TAKE x \in SessionIds
    <2>1. CASE x = s BY <2>1, <1>8
    <2>2. CASE x # s
      <3>1. req'[x] = req[x] /\ ReqOK(x, req[x]) /\ req[x].kind # "rotate" BY <2>2, <1>1, <1>4, <1>10 DEF SessInv
      <3> QED BY <3>1, <1>4, <1>5, <1>6, <1>9 DEF ReqOK, CheckOK, HashOK
    <2> QED BY <2>1, <2>2
  <1> QED BY <1>11, <1>12, <1>13, <1>14 DEF SessInv

\* KeepSession: the cookie that is kept has the login it had, the key in force
\* and the password stored; that login is not over.
LEMMA KeepSessionKeeps ==
  ASSUME SessInv, NEW s \in SessionIds, KeepSession(s)
  PROVE  SessInv'
  <1>1. CASE saved.pw = 0 BY <1>1, QuietEnd DEF KeepSession
  <1>2. CASE saved.pw # 0
    <2> DEFINE q == req[s]
               renewal(t) == Token(t.id, mem.key, saved.pw, [t.root EXCEPT !.pw = saved.pw])
    <2>1. mem \in MemType /\ saved \in SavedType /\ req \in [SessionIds -> SessReq] /\ tokens \subseteq SessToken
          /\ out \subseteq Nat
      BY DEF SessInv, SessTypes
    <2>2. q \in KeepReq /\ q.keep \subseteq tokens
      BY ReqKinds DEF SessInv, SessTypes, KeepSession, ReqOK
    <2>3. tokens' = tokens \cup {renewal(t) : t \in q.keep} /\ out' = out \ {t.root.login : t \in q.keep}
          /\ req' = [req EXCEPT ![s] = Idle] /\ UNCHANGED <<mem, saved, rotating>>
      BY <1>2 DEF KeepSession, SessionEnded, Step
    <2>4. \A t \in q.keep : /\ renewal(t) \in SessToken /\ renewal(t).id = t.id /\ renewal(t).key = mem.key
                            /\ renewal(t).pw = saved.pw /\ renewal(t).root.login = t.root.login
                            /\ renewal(t).root.pw = saved.pw /\ t.root.login = t.id
      <3> TAKE t \in q.keep
      <3>1. t \in SessToken /\ TokenOK(t) BY <2>1, <2>2 DEF SessInv
      <3>2. saved.pw \in Nat /\ mem.key \in Nat BY <2>1 DEF MemType, SavedType
      <3>3. [t.root EXCEPT !.pw = saved.pw] \in [login : Nat, pw : Nat]
            /\ [t.root EXCEPT !.pw = saved.pw].login = t.root.login
            /\ [t.root EXCEPT !.pw = saved.pw].pw = saved.pw
        BY <3>1, <3>2 DEF SessToken
      <3> DEFINE root == [t.root EXCEPT !.pw = saved.pw]
      <3> HIDE DEF root
      <3>4. renewal(t) = Token(t.id, mem.key, saved.pw, root) BY DEF root
      <3> HIDE DEF renewal
      <3> QED BY <3>1, <3>2, <3>3, <3>4 DEF root, SessToken, Token, TokenOK
    <2> HIDE DEF renewal
    <2>5. SessTypes' BY <2>1, <2>3, <2>4, IdleIsOK DEF SessInv, SessTypes
    <2>6. Logins' = Logins
      <3>1. \A t \in tokens' : t.id \in Logins BY <2>2, <2>3, <2>4 DEF Logins
      <3>2. \A t \in tokens : t.id \in Logins' BY <2>3 DEF Logins
      <3> QED BY <3>1, <3>2 DEF Logins
    <2>7. (\E n \in Nat : Logins = 1 .. n)' /\ (out \subseteq Logins)' /\ (mem.key <= saved.key)'
      BY <2>3, <2>6 DEF SessInv
    <2>8. \A t \in tokens' : TokenOK(t)' /\ (t.root.login \in out' => Dead(t)')
      <3> TAKE t \in tokens'
      <3>1. CASE t \in tokens BY <3>1, <2>3 DEF SessInv, TokenOK, Dead
      <3>2. CASE t \notin tokens
        <4>1. PICK k \in q.keep : t = renewal(k) BY <3>2, <2>3
        <4>2. t.root.login \notin out' BY <4>1, <2>3, <2>4
        <4>3. TokenOK(t)' BY <4>1, <2>1, <2>3, <2>4 DEF TokenOK, MemType, SavedType
        <4> QED BY <4>2, <4>3
      <3> QED BY <3>1, <3>2
    <2>9. \A x \in SessionIds : ReqOK(x, req[x])'
      <3> TAKE x \in SessionIds
      <3>1. CASE x = s BY <3>1, <2>1, <2>3, IdleIsOK
      <3>2. CASE x # s
        <4>1. req'[x] = req[x] /\ ReqOK(x, req[x]) BY <3>2, <2>1, <2>3 DEF SessInv
        <4>2. tokens \subseteq tokens' BY <2>3
        <4> QED BY <4>1, <4>2, <2>3, <2>6 DEF ReqOK, CheckOK, HashOK
      <3> QED BY <3>1, <3>2
    <2> QED BY <2>5, <2>7, <2>8, <2>9 DEF SessInv
  <1> QED BY <1>1, <1>2

\* UpdateUser: every cookie of before is signed with an older password.
LEMMA UpdateUserKeeps ==
  ASSUME SessInv, NEW s \in SessionIds, UpdateUser(s)
  PROVE  SessInv'
  <1> DEFINE q == req[s]
             r == [kind |-> "changed", keep |-> {q.token}]
  <1>1. mem \in MemType /\ saved \in SavedType /\ req \in [SessionIds -> SessReq] /\ tokens \subseteq SessToken
    BY DEF SessInv, SessTypes
  <1>2. q \in SignedInReq /\ CheckOK(q)
    BY ReqKinds DEF SessInv, SessTypes, UpdateUser, ReqOK
  <1>3. saved' = [saved EXCEPT !.pw = @ + 1] /\ req' = [req EXCEPT ![s] = r] /\ saved.pw >= 1
        /\ UNCHANGED <<mem, tokens, rotating, out>>
    BY DEF UpdateUser, Step
  <1>4. saved' \in SavedType /\ saved'.key = saved.key /\ saved'.pw = saved.pw + 1 BY <1>1, <1>3 DEF SavedType
  <1>5. saved.pw \in Nat BY <1>1 DEF SavedType
  <1>6. r \in SessReq
    <2>1. r \in ChangedReq BY <1>2 DEF ChangedReq, SignedInReq
    <2> QED BY <2>1, ReqParts
  <1>7. ReqOK(s, req[s])'
    <2>1. req'[s] = r BY <1>1, <1>3
    <2> QED BY <2>1, <1>2, <1>3 DEF ReqOK, CheckOK
  <1> HIDE DEF r, q
  <1>8. SessTypes' BY <1>3, <1>4, <1>6 DEF SessInv, SessTypes
  <1>9. Logins' = Logins BY <1>3 DEF Logins
  <1>10. (\E n \in Nat : Logins = 1 .. n)' /\ (out \subseteq Logins)' /\ (mem.key <= saved.key)'
    BY <1>3, <1>4, <1>9 DEF SessInv
  <1>11. \A t \in tokens' : TokenOK(t)' /\ (t.root.login \in out' => Dead(t)')
    <2> TAKE t \in tokens'
    <2>1. TokenOK(t) /\ t \in SessToken BY <1>1, <1>3 DEF SessInv
    <2>2. t.pw \in Nat /\ t.pw <= saved.pw BY <2>1, <1>3, <1>5 DEF TokenOK, SessToken
    <2> QED BY <2>1, <2>2, <1>3, <1>4, <1>5 DEF TokenOK, Dead
  <1>12. \A x \in SessionIds : ReqOK(x, req[x])'
    <2> TAKE x \in SessionIds
    <2>1. CASE x = s BY <2>1, <1>7
    <2>2. CASE x # s
      <3>1. req'[x] = req[x] /\ ReqOK(x, req[x]) /\ req[x] \in SessReq BY <2>2, <1>1, <1>3 DEF SessInv
      <3>2. req[x].kind = "login" => req[x].pw \in Nat BY <3>1, ReqKinds DEF LoginReq
      <3>3. req[x].kind = "signedIn" => req[x].pw \in Nat BY <3>1, ReqKinds DEF SignedInReq
      <3>4. req[x].kind = "verify" => req[x].pw \in Nat
        <4>1. SUFFICES ASSUME req[x].kind = "verify" PROVE req[x].pw \in Nat OBVIOUS
        <4>2. req[x] \in BegunReq \/ req[x] \in ReadReq
          BY <3>1, <4>1 DEF SessReq, IdleReq, LoginReq, SignedInReq, LogoutReq, RotateReq, ChangedReq, KeepReq
        <4> QED BY <4>2 DEF BegunReq, ReadReq
      <3>5. ASSUME CheckOK(req[x]), req[x].pw \in Nat PROVE CheckOK(req[x])'
        BY <3>1, <3>5, <1>3, <1>4, <1>5 DEF CheckOK
      <3> QED BY <3>1, <3>2, <3>3, <3>4, <3>5, <1>3, <1>4, <1>5, <1>9 DEF ReqOK, HashOK
    <2> QED BY <2>1, <2>2
  <1> QED BY <1>8, <1>10, <1>11, <1>12 DEF SessInv

-----------------------------------------------------------------------------
(* Resets, restarts, the stream.                                           *)

\* A request for a reset and the lock that follows touch no session.
LEMMA ResetKeeps ==
  ASSUME SessInv, ResetRequested \/ Lockdown
  PROVE  SessInv'
  <1>1. mem \in MemType /\ saved \in SavedType /\ req \in [SessionIds -> SessReq] BY DEF SessInv, SessTypes
  <1>2. CASE ResetRequested
    <2>1. saved' = [saved EXCEPT !.reset = TRUE] /\ UNCHANGED <<mem, tokens, req, rotating, out>>
      BY <1>2 DEF ResetRequested
    <2>2. saved' \in SavedType /\ saved'.key = saved.key /\ saved'.pw = saved.pw BY <2>1, <1>1 DEF SavedType
    <2> QED BY <1>1, <2>1, <2>2, QuietStep
  <1>3. CASE Lockdown
    <2> DEFINE m == [mem EXCEPT !.locked = TRUE]
    <2>1. mem' = [m EXCEPT !.changed = @ + 1] /\ UNCHANGED <<saved, tokens, req, rotating, out>>
      BY <1>3 DEF Lockdown, notifyCredentialsChanged
    <2>2. m \in MemType /\ m.key = mem.key /\ m.revoked = mem.revoked BY <1>1 DEF MemType
    <2> HIDE DEF m
    <2>3. mem' \in MemType /\ mem'.key = mem.key /\ mem'.revoked = mem.revoked BY <2>1, <2>2 DEF MemType
    <2> QED BY <1>1, <2>1, <2>3, QuietStep
  <1> QED BY <1>2, <1>3

\* New, after applyRequestedAuthReset: the key stored is in force, which no
\* cookie's exceeds, and no request is left.
LEMMA RestartKeeps ==
  ASSUME SessInv, Restart
  PROVE  SessInv'
  <1> DEFINE st == IF saved.reset THEN resetAuthState(saved) ELSE saved
  <1>1. mem \in MemType /\ saved \in SavedType /\ tokens \subseteq SessToken /\ out \subseteq Nat
    BY DEF SessInv, SessTypes
  <1>2. NextKey \in Nat /\ mem.key < NextKey /\ saved.key < NextKey BY NextKeyAbove
  <1>3. st \in SavedType /\ mem.key <= st.key /\ (st.pw # 0 => st.pw = saved.pw)
    <2>1. CASE saved.reset BY <2>1, <1>1, <1>2 DEF resetAuthState, SavedType, MemType
    <2>2. CASE ~saved.reset BY <2>2, <1>1 DEF SessInv
    <2> QED BY <2>1, <2>2
  <1>4. saved' = st /\ mem' = [key |-> st.key, revoked |-> st.revoked, locked |-> FALSE, changed |-> 0]
        /\ req' = [s \in SessionIds |-> Idle] /\ UNCHANGED tokens
        /\ out' = {i \in out : \A t \in tokens : t.root.login = i => t.id \in st.revoked \/ ~sign(t, st.key, st.pw)}
    BY DEF Restart
  <1> HIDE DEF st
  <1>5. mem' \in MemType /\ mem'.key = st.key /\ mem'.revoked = st.revoked
    <2>1. st.key \in Nat /\ st.revoked \in SUBSET Nat BY <1>3 DEF SavedType
    <2>2. mem' = [key |-> st.key, revoked |-> st.revoked, locked |-> FALSE, changed |-> 0] BY <1>4
    <2> QED BY <2>1, <2>2 DEF MemType
  <1>6. out' \subseteq out BY <1>4
  <1>7. SessTypes' BY <1>1, <1>3, <1>4, <1>5, <1>6, IdleIsOK DEF SessTypes
  <1>8. Logins' = Logins BY <1>4 DEF Logins
  <1>9. (\E n \in Nat : Logins = 1 .. n)' /\ (out \subseteq Logins)' BY <1>6, <1>8 DEF SessInv
  <1>10. (mem.key <= saved.key)' BY <1>3, <1>4, <1>5 DEF SavedType
  <1>11. \A t \in tokens' : TokenOK(t)' /\ (t.root.login \in out' => Dead(t)')
    <2> TAKE t \in tokens'
    <2>1. TokenOK(t) /\ t \in SessToken /\ t \in tokens BY <1>1, <1>4 DEF SessInv
    <2>2. t.key \in Nat /\ mem.key \in Nat /\ st.key \in Nat BY <2>1, <1>1, <1>3 DEF SessToken, MemType, SavedType
    <2>3. TokenOK(t)' BY <2>1, <2>2, <1>3, <1>4, <1>5 DEF TokenOK
    <2>4. t.root.login \in out' => Dead(t)' BY <2>1, <1>4, <1>5 DEF Dead, sign
    <2> QED BY <2>3, <2>4
  <1>12. \A x \in SessionIds : ReqOK(x, req[x])' BY <1>4, IdleIsOK
  <1> QED BY <1>7, <1>9, <1>10, <1>11, <1>12 DEF SessInv

-----------------------------------------------------------------------------
(* The specification.                                                      *)

\* Nobody is signed in when the service starts for the first time.
LEMMA SessInitially == ServicesInit => SessInv
  <1> SUFFICES ASSUME SessionInit PROVE SessInv BY DEF ServicesInit
  <1>1. mem \in MemType /\ saved \in SavedType /\ mem.key = 1 /\ saved.key = 1
    BY DEF SessionInit, MemType, SavedType
  <1>2. SessTypes BY <1>1, IdleIsOK DEF SessionInit, SessTypes
  <1>3. Logins = {} /\ Logins = 1 .. 0 BY DEF SessionInit, Logins
  <1>4. \A s \in SessionIds : ReqOK(s, req[s]) BY IdleIsOK DEF SessionInit
  <1> QED BY <1>1, <1>2, <1>3, <1>4 DEF SessionInit, SessInv

\* Every step of the sessions keeps the invariant.
LEMMA SessionsStep == SessInv /\ SessionsNext => SessInv'
  <1> SUFFICES ASSUME SessInv, SessionsNext PROVE SessInv' OBVIOUS
  <1>1. CASE \E s \in SessionIds : LoginRead(s) BY <1>1, LoginReadKeeps
  <1>2. CASE \E s \in SessionIds : LoginRefused(s) BY <1>2, QuietEnd DEF LoginRefused
  <1>3. CASE \E s \in SessionIds : LoginIssue(s) BY <1>3, LoginIssueKeeps
  <1>4. CASE \E s \in SessionIds, t \in tokens, th \in {"get", "logout", "revoke", "password", "stream"} :
               VerifyBegin(s, t, th)
    BY <1>4, VerifyBeginKeeps DEF Purposes
  <1>5. CASE \E s \in SessionIds : VerifyUser(s) BY <1>5, VerifyUserKeeps
  <1>6. CASE \E s \in SessionIds : VerifyEnd(s) BY <1>6, VerifyEndKeeps
  <1>7. CASE \E s \in SessionIds : Renew(s) BY <1>7, RenewKeeps
  <1>8. CASE \E s \in SessionIds : Answer(s) BY <1>8, QuietEnd DEF Answer
  <1>9. CASE \E s \in SessionIds : LogoutMark(s) BY <1>9, LogoutMarkKeeps
  <1>10. CASE \E s \in SessionIds : LogoutSave(s) BY <1>10, LogoutSaveKeeps
  <1>11. CASE \E s \in SessionIds : RotateSave(s) BY <1>11, RotateSaveKeeps
  <1>12. CASE \E s \in SessionIds : RotateSwap(s) BY <1>12, RotateSwapKeeps
  <1>13. CASE \E s \in SessionIds : RotateClear(s) BY <1>13, RotateClearKeeps
  <1>14. CASE \E s \in SessionIds : KeepSession(s) BY <1>14, KeepSessionKeeps
  <1>15. CASE \E s \in SessionIds : UpdateUser(s) BY <1>15, UpdateUserKeeps
  <1>16. CASE ResetRequested \/ Lockdown BY <1>16, ResetKeeps
  <1>17. CASE Restart BY <1>17, RestartKeeps
  <1>18. CASE \E s \in SessionIds : StreamOpen(s) BY <1>18, QuietEnd DEF StreamOpen
  <1>19. CASE StreamWoken \/ StreamArms \/ StreamTick
    <2>1. UNCHANGED <<mem, saved, tokens, req, rotating, out>> BY <1>19 DEF StreamWoken, StreamArms, StreamTick
    <2> QED BY <2>1, QuietStep DEF SessInv, SessTypes
  <1> QED BY <1>1, <1>2, <1>3, <1>4, <1>5, <1>6, <1>7, <1>8, <1>9, <1>10, <1>11, <1>12, <1>13, <1>14, <1>15,
             <1>16, <1>17, <1>18, <1>19, Zenon DEF SessionsNext

\* The other parts of the service leave the sessions alone.
LEMMA OthersLeaveSessions ==
  BackupNext \/ HostNext \/ ConnectionsNext \/ ScheduleNext \/ NoticesNext \/ HealthNext \/ ConfigNext
    => UNCHANGED sessionVars
  <1>1. BackupNext => UNCHANGED sessionVars BY Zenon DEF BackupNext, BackupOnly
  <1>2. HostNext => UNCHANGED sessionVars BY Zenon DEF HostNext, HostOnly
  <1>3. ConnectionsNext => UNCHANGED sessionVars BY Zenon DEF ConnectionsNext, ConnectionsOnly, Asking
  <1>4. ScheduleNext => UNCHANGED sessionVars BY Zenon DEF ScheduleNext, ScheduleOnly
  <1>5. NoticesNext => UNCHANGED sessionVars BY Zenon DEF NoticesNext, NoticesOnly
  <1>6. HealthNext => UNCHANGED sessionVars BY Zenon DEF HealthNext, HealthOnly
  <1>7. ConfigNext => UNCHANGED sessionVars BY Zenon DEF ConfigNext, ConfigOnly
  <1> QED BY <1>1, <1>2, <1>3, <1>4, <1>5, <1>6, <1>7

\* What says that a session is over says so to a request that is accepted.
LEMMA SessInvSays == SessInv => EndedStaysOut
  <1> SUFFICES ASSUME SessInv, NEW s \in SessionIds, req[s].kind = "signedIn"
               PROVE  req[s].token.root.login \notin req[s].was /\ req[s].token.root.pw >= req[s].pw
    BY DEF EndedStaysOut
  <1> DEFINE q == req[s]
  <1>1. q \in SignedInReq BY ReqKinds DEF SessInv, SessTypes
  <1>2. CheckOK(q) /\ HashOK(q) /\ q.token.key = q.key /\ q.token.pw = q.hash BY DEF SessInv, ReqOK
  <1>3. TokenOK(q.token) BY <1>2 DEF SessInv, CheckOK
  <1>4. q.pw \in Nat /\ q.hash \in Nat BY <1>1 DEF SignedInReq
  <1> QED BY <1>2, <1>3, <1>4 DEF CheckOK, HashOK, TokenOK

\* No request whose check began after a logout, or after a new password was
\* saved, is accepted with a session of before: for any number of requests
\* side by side, logins, passwords, rotations and resets, and whatever the
\* length of the revocation list (verifySession, renewIfStale, revokeSession,
\* RevokeSessions, KeepSession).
THEOREM SessionsEnd == ServicesSpec => []EndedStaysOut
  <1>1. ServicesInit => SessInv BY SessInitially
  <1>2. SessInv /\ [ServicesNext]_servicesVars => SessInv'
    <2> SUFFICES ASSUME SessInv, [ServicesNext]_servicesVars PROVE SessInv' OBVIOUS
    <2>1. CASE SessionsNext BY <2>1, SessionsStep
    <2>2. CASE UNCHANGED sessionVars
      <3>1. UNCHANGED <<mem, saved, tokens, req, rotating, out>> BY <2>2 DEF sessionVars
      <3> QED BY <3>1, QuietStep DEF SessInv, SessTypes
    <2>3. CASE UNCHANGED servicesVars BY <2>2, <2>3 DEF servicesVars
    <2> QED BY <2>1, <2>2, <2>3, OthersLeaveSessions DEF ServicesNext
  <1> QED BY <1>1, <1>2, SessInvSays, PTL DEF ServicesSpec

-----------------------------------------------------------------------------
(* Access: who changes the settings is not shut out.                       *)

\* The configuration that a checked change will leave.
Saved(e) ==
  [applyHostConfig(host, e.asked) EXCEPT !.user = @ \/ e.password, !.key = IF e.password /\ host.user THEN @ + 1 ELSE @]
LetIn(r, c) == authenticate(r, c) # "refused" \/ (c.method = "forms" /\ c.user)
Unaware(e) == ~e.confirm /\ e.via # "apiKey"
AskedRec(a) ==
  a \in [method : Methods, required : Required, proxies : {a.proxies}, hosts : {a.hosts}]
EditRec(e) == e.phase = "checked" /\ AskedRec(e.asked) /\ e.password \in BOOLEAN

\* A change that was checked still suits the configuration there is when it is
\* saved: only the first account can be made in between.
HostInv ==
  /\ HostShape(host)
  /\ editing # NoEdit => EditRec(editing)
  /\ editing # NoEdit /\ Unaware(editing) =>
       /\ LetIn(editing.req, Saved(editing))
       /\ SetupRequired(host) => applyHostConfig(host, editing.asked).method = "forms"
  /\ lastEdit # NoEdit /\ Unaware(lastEdit) => LetIn(lastEdit.req, host)

\* What a change asks for is taken, except what the environment sets.
LEMMA AppliesAsked ==
  ASSUME HostShape(host), NEW a, AskedRec(a)
  PROVE  /\ HostShape(applyHostConfig(host, a))
         /\ applyHostConfig(host, a).user = host.user /\ applyHostConfig(host, a).key = host.key
         /\ applyHostConfig(host, a).method = IF "method" \in Forced THEN host.method ELSE a.method
  <1>1. DOMAIN host = {"method", "required", "proxies", "hosts", "user", "key"} BY DEF HostShape
  <1>2. DOMAIN a = {"method", "required", "proxies", "hosts"} BY DEF AskedRec
  <1>3. PICK c : c = applyHostConfig(host, a) OBVIOUS
  <1>4. c = [method |-> IF "method" \in Forced THEN host.method ELSE a.method,
             required |-> IF "required" \in Forced THEN host.required ELSE a.required,
             proxies |-> IF "proxies" \in Forced THEN host.proxies ELSE a.proxies,
             hosts |-> IF "hosts" \in Forced THEN host.hosts ELSE a.hosts,
             user |-> host.user, key |-> host.key]
    BY <1>1, <1>2, <1>3 DEF applyHostConfig
  <1>5. /\ host.method \in Methods /\ a.method \in Methods /\ host.required \in Required /\ a.required \in Required
        /\ host.user \in BOOLEAN /\ host.key \in Nat
    BY DEF HostShape, AskedRec, Methods, Required
  <1>6. HostShape(c) BY <1>4, <1>5 DEF HostShape, Methods, Required
  <1> QED BY <1>3, <1>4, <1>6

\* The configuration saved is of the shape of one, and differs in the account and
\* the API key only.
LEMMA SavedShape ==
  ASSUME HostShape(host), NEW e, AskedRec(e.asked), e.password \in BOOLEAN
  PROVE  /\ HostShape(Saved(e))
         /\ Saved(e).method = applyHostConfig(host, e.asked).method
         /\ Trust(Saved(e)) = Trust(applyHostConfig(host, e.asked))
         /\ Saved(e).required = applyHostConfig(host, e.asked).required
         /\ Saved(e).user <=> host.user \/ e.password
  <1>1. PICK c : c = applyHostConfig(host, e.asked) OBVIOUS
  <1>2. HostShape(c) /\ c.user = host.user /\ c.key = host.key BY <1>1, AppliesAsked
  <1>3. PICK s : s = [c EXCEPT !.user = @ \/ e.password, !.key = IF e.password /\ host.user THEN @ + 1 ELSE @] OBVIOUS
  <1>4. /\ s.method = c.method /\ s.required = c.required /\ s.proxies = c.proxies /\ s.hosts = c.hosts
        /\ s.user = (c.user \/ e.password) /\ s.key = IF e.password /\ host.user THEN c.key + 1 ELSE c.key
        /\ s = [method |-> s.method, required |-> s.required, proxies |-> s.proxies, hosts |-> s.hosts, user |-> s.user,
                key |-> s.key]
    BY <1>2, <1>3 DEF HostShape
  <1>5. HostShape(s)
    <2>1. s.key \in Nat /\ s.user \in BOOLEAN BY <1>2, <1>4 DEF HostShape
    <2>2. s.method \in {"forms", "external", "none"} /\ s.required \in {"always", "notLocal"} BY <1>2, <1>4 DEF HostShape
    <2> QED BY <1>4, <2>1, <2>2 DEF HostShape
  <1>6. s = Saved(e) BY <1>1, <1>3 DEF Saved
  <1> QED BY <1>1, <1>2, <1>4, <1>5, <1>6 DEF Trust

\* A change that is accepted leaves its author in (TrustChangeProblem).
LEMMA CheckedStaysIn ==
  ASSUME HostInv, NEW r \in Requests, NEW e, e.req = r, e.via = authenticate(r, host), EditRec(e), Unaware(e),
         NEW next, next = applyHostConfig(host, e.asked),
         e.via # "refused",
         Trust(next) # Trust(host) \/ next.method # host.method => ~TrustChangeProblem(r, e.via, next.method, Trust(next)),
         ~(next.method = "none" /\ host.method # "none"),
         next.method = "forms" => host.user \/ e.password
  PROVE  LetIn(r, Saved(e))
  <1>1. PICK s : s = Saved(e) OBVIOUS
  <1>2. /\ s.method = next.method /\ Trust(s) = Trust(next) /\ (s.user <=> host.user \/ e.password)
        /\ s.method \in {"forms", "external", "none"} /\ host.method \in {"forms", "external", "none"}
    BY <1>1, SavedShape DEF HostInv, EditRec, HostShape
  <1>3. r.key = "none" BY HostAssumption DEF authenticate, Unaware
  <1>4. CASE s.method = "forms" BY <1>1, <1>2, <1>4 DEF LetIn
  <1>5. CASE s.method = "none"
    <2>1. host.method = "none" /\ e.via = "noAuth" /\ privateHostsBy(r, Trust(host)) BY <1>2, <1>3, <1>5 DEF authenticate
    <2>2. privateHostsBy(r, Trust(s)) BY <1>2, <1>5, <2>1 DEF TrustChangeProblem
    <2>3. authenticate(r, s) = "noAuth" BY <1>3, <1>5, <2>2 DEF authenticate
    <2> QED BY <1>1, <2>3 DEF LetIn
  <1>6. CASE s.method = "external"
    <2>1. CASE e.via = "cookie"
      <3>1. r.cookie /\ host.user BY <1>2, <1>3, <2>1 DEF authenticate
      <3>2. authenticate(r, s) \in {"external", "cookie"} BY <1>2, <1>3, <1>6, <3>1 DEF authenticate
      <3> QED BY <1>1, <3>2 DEF LetIn
    <2>2. CASE e.via # "cookie"
      <3>1. e.via \in {"external", "noAuth", "local"} BY <1>2, <1>3, <2>2 DEF authenticate, Unaware
      <3>2. externalTrustedBy(r, Trust(s))
        <4>1. CASE Trust(next) # Trust(host) \/ next.method # host.method
          BY <1>2, <1>6, <3>1, <4>1 DEF TrustChangeProblem
        <4>2. CASE Trust(next) = Trust(host) /\ next.method = host.method
          <5>1. host.method = "external" BY <1>2, <1>6, <4>2
          <5>2. externalTrustedBy(r, Trust(host)) BY <1>3, <2>2, <5>1 DEF authenticate
          <5> QED BY <1>2, <4>2, <5>2
        <4> QED BY <4>1, <4>2
      <3>3. authenticate(r, s) = "external" BY <1>3, <1>6, <3>2 DEF authenticate
      <3> QED BY <1>1, <3>3 DEF LetIn
    <2> QED BY <2>1, <2>2
  <1> QED BY <1>2, <1>4, <1>5, <1>6

\* The first configuration holds the invariant: nothing was changed yet.
LEMMA HostInitially == ASSUME HostInit PROVE HostInv
  BY HostAssumption DEF HostInit, HostInv

\* UpdateBegin: what is accepted leaves its author in.  While no account was made
\* only the API key changes anything.
LEMMA UpdateBeginKeeps ==
  ASSUME HostInv, NEW r \in Requests, NEW m \in Methods, NEW q \in Required, NEW t \in TrustLists, NEW p \in BOOLEAN,
         NEW c \in BOOLEAN, UpdateBegin(r, m, q, t, p, c)
  PROVE  HostInv'
  <1> DEFINE asked == [method |-> m, required |-> q, proxies |-> t.proxies, hosts |-> t.hosts]
             via == authenticate(r, host)
             e == [phase |-> "checked", req |-> r, asked |-> asked, password |-> p, confirm |-> c, via |-> via]
  <1>1. AskedRec(asked) BY DEF AskedRec
  <1>2. PICK next : next = applyHostConfig(host, asked) OBVIOUS
  <1>3. /\ via # "refused" /\ editing' = e /\ lastEdit' = NoEdit /\ host' = host
        /\ ~((next # host \/ p) /\ SetupRequired(host) /\ via # "apiKey")
        /\ (Trust(next) # Trust(host) \/ next.method # host.method) /\ ~c =>
             ~TrustChangeProblem(r, via, next.method, Trust(next))
        /\ ~(next.method = "none" /\ host.method # "none")
        /\ next.method = "forms" => host.user \/ p
    BY <1>2 DEF UpdateBegin
  <1>4. EditRec(e) BY <1>1 DEF EditRec
  <1>5. ASSUME Unaware(e) PROVE LetIn(r, Saved(e)) /\ (SetupRequired(host) => next.method = "forms")
    <2>1. ~c /\ via # "apiKey" BY <1>5 DEF Unaware
    <2>2. LetIn(r, Saved(e))
      <3>1. PICK x : x = e OBVIOUS
      <3>2. /\ x.req = r /\ x.via = authenticate(r, host) /\ x.asked = asked /\ x.password = p /\ EditRec(x) /\ Unaware(x)
        BY <1>4, <1>5, <3>1
      <3>3. LetIn(r, Saved(x)) BY <1>2, <1>3, <2>1, <3>2, CheckedStaysIn
      <3> QED BY <3>1, <3>3
    <2>3. SetupRequired(host) => next.method = "forms" BY <1>3, <2>1 DEF SetupRequired
    <2> QED BY <2>2, <2>3
  <1>6. PICK x : x = e OBVIOUS
  <1>7. x.req = r /\ x.asked = asked /\ EditRec(x) /\ (Unaware(x) => LetIn(r, Saved(x)) /\ (SetupRequired(host) => next.method = "forms"))
    BY <1>4, <1>5, <1>6
  <1>8. Saved(x)' = Saved(x) BY <1>3 DEF Saved, applyHostConfig
  <1>9. applyHostConfig(host, asked)' = applyHostConfig(host, asked) BY <1>3 DEF applyHostConfig
  <1> QED BY <1>2, <1>3, <1>6, <1>7, <1>8, <1>9 DEF HostInv, SetupRequired

\* UpdateSave: the configuration is the one that was checked.
LEMMA UpdateSaveKeeps == ASSUME HostInv, UpdateSave PROVE HostInv'
  <1>1. editing # NoEdit BY DEF UpdateSave, NoEdit
  <1>2. EditRec(editing) BY <1>1 DEF HostInv
  <1>3. host' = Saved(editing) /\ lastEdit' = editing /\ editing' = NoEdit BY DEF UpdateSave, Saved
  <1>4. HostShape(Saved(editing)) BY <1>2, SavedShape DEF HostInv, EditRec
  <1>5. HostShape(host)' BY <1>3, <1>4
  <1>6. Unaware(editing) => LetIn(editing.req, Saved(editing)) BY <1>1 DEF HostInv
  <1> QED BY <1>3, <1>5, <1>6 DEF HostInv

\* Setup: the first account signs in with the forms it was made for.
LEMMA SetupKeeps == ASSUME HostInv, NEW r \in Requests, NEW q \in Required, Setup(r, q) PROVE HostInv'
  <1>1. PICK h : h = [host EXCEPT !.user = TRUE, !.required = q] OBVIOUS
  <1>2. host' = h /\ lastEdit' = NoEdit /\ editing' = editing /\ SetupRequired(host) BY <1>1 DEF Setup
  <1>3. /\ h = [method |-> host.method, required |-> q, proxies |-> host.proxies, hosts |-> host.hosts, user |-> TRUE,
                key |-> host.key]
    BY <1>1 DEF HostInv, HostShape
  <1>4. HostShape(h) BY <1>3 DEF HostInv, HostShape, Required
  <1>5. HostShape(host') BY <1>2, <1>4
  <1>6. ASSUME editing # NoEdit, Unaware(editing) PROVE LetIn(editing.req, Saved(editing))'
    <2>1. EditRec(editing) /\ applyHostConfig(host, editing.asked).method = "forms" BY <1>2, <1>6 DEF HostInv
    <2>2. HostShape(host) BY DEF HostInv
    <2>3. IF "method" \in Forced THEN host.method = "forms" ELSE editing.asked.method = "forms"
      BY <2>1, <2>2, AppliesAsked DEF EditRec
    <2>4. PICK s : s = [applyHostConfig(h, editing.asked) EXCEPT !.user = @ \/ editing.password,
                         !.key = IF editing.password /\ h.user THEN @ + 1 ELSE @]
      OBVIOUS
    <2>5. PICK c : c = applyHostConfig(h, editing.asked) OBVIOUS
    <2>6. c = [method |-> IF "method" \in Forced THEN h.method ELSE editing.asked.method,
               required |-> IF "required" \in Forced THEN h.required ELSE editing.asked.required,
               proxies |-> IF "proxies" \in Forced THEN h.proxies ELSE editing.asked.proxies,
               hosts |-> IF "hosts" \in Forced THEN h.hosts ELSE editing.asked.hosts,
               user |-> h.user, key |-> h.key]
      <3>1. DOMAIN h = {"method", "required", "proxies", "hosts", "user", "key"} BY <1>3
      <3>2. DOMAIN editing.asked = {"method", "required", "proxies", "hosts"} BY <2>1 DEF EditRec, AskedRec
      <3> QED BY <2>5, <3>1, <3>2 DEF applyHostConfig
    <2>7. c.method = "forms" /\ c.user = TRUE /\ "method" \in DOMAIN c /\ "user" \in DOMAIN c BY <1>3, <2>3, <2>6
    <2>8. s.method = "forms" /\ s.user = TRUE BY <2>4, <2>5, <2>6, <2>7, <1>3
    <2>9. Saved(editing)' = s BY <1>2, <2>4 DEF Saved, applyHostConfig
    <2>10. Saved(editing)'.method = "forms" /\ Saved(editing)'.user BY <2>8, <2>9
    <2> QED BY <2>10 DEF LetIn
  <1>7. ~SetupRequired(host') BY <1>2, <1>3 DEF SetupRequired
  <1>8. editing # NoEdit => EditRec(editing) BY DEF HostInv
  <1> QED BY <1>2, <1>5, <1>6, <1>7, <1>8 DEF HostInv, SetupRequired

\* ResetAuth: no change is in progress after it.
LEMMA ResetAuthKeeps == ASSUME HostInv, ResetAuth PROVE HostInv'
  <1>1. HostShape(host') BY DEF ResetAuth, HostInv, HostShape
  <1>2. editing' = NoEdit /\ lastEdit' = NoEdit BY DEF ResetAuth
  <1> QED BY <1>1, <1>2 DEF HostInv

\* A step that leaves access alone.
LEMMA HostStutters == ASSUME HostInv, UNCHANGED hostVars PROVE HostInv'
  <1>1. host' = host /\ editing' = editing /\ lastEdit' = lastEdit BY DEF hostVars
  <1>2. Saved(editing)' = Saved(editing) BY <1>1 DEF Saved, applyHostConfig
  <1>3. applyHostConfig(host, editing.asked)' = applyHostConfig(host, editing.asked) BY <1>1 DEF applyHostConfig
  <1> QED BY <1>1, <1>2, <1>3 DEF HostInv, SetupRequired

\* Every step of the settings handlers, setup and the reset keeps the invariant.
LEMMA HostStep == ASSUME HostInv, HostNext PROVE HostInv'
  <1>1. \/ \E r \in Requests, m \in Methods, q \in Required, t \in TrustLists, p \in BOOLEAN, c \in BOOLEAN :
             UpdateBegin(r, m, q, t, p, c)
        \/ UpdateFails
        \/ UpdateSave
        \/ \E r \in Requests, q \in Required : Setup(r, q)
        \/ ResetAuth
    BY Zenon DEF HostNext
  <1>2. CASE \E r \in Requests, m \in Methods, q \in Required, t \in TrustLists, p \in BOOLEAN, c \in BOOLEAN :
                UpdateBegin(r, m, q, t, p, c)
    BY <1>2, UpdateBeginKeeps
  <1>3. CASE UpdateFails BY <1>3 DEF UpdateFails, HostInv
  <1>4. CASE UpdateSave BY <1>4, UpdateSaveKeeps
  <1>5. CASE \E r \in Requests, q \in Required : Setup(r, q) BY <1>5, SetupKeeps
  <1>6. CASE ResetAuth BY <1>6, ResetAuthKeeps
  <1> QED BY <1>1, <1>2, <1>3, <1>4, <1>5, <1>6

\* The other parts' steps leave access alone.
LEMMA OthersLeaveHost ==
  ASSUME BackupNext \/ SessionsNext \/ ConnectionsNext \/ ScheduleNext \/ NoticesNext \/ HealthNext \/ ConfigNext
  PROVE  UNCHANGED hostVars
  <1>1. CASE BackupNext BY <1>1, Zenon DEF BackupNext, BackupOnly
  <1>2. CASE SessionsNext BY <1>2, Zenon DEF SessionsNext, SessionsOnly
  <1>3. CASE ConnectionsNext BY <1>3, Zenon DEF ConnectionsNext, ConnectionsOnly, Asking
  <1>4. CASE ScheduleNext BY <1>4, Zenon DEF ScheduleNext, ScheduleOnly
  <1>5. CASE NoticesNext BY <1>5, Zenon DEF NoticesNext, NoticesOnly
  <1>6. CASE HealthNext BY <1>6, Zenon DEF HealthNext, HealthOnly
  <1>7. CASE ConfigNext BY <1>7, Zenon DEF ConfigNext, ConfigOnly
  <1> QED BY <1>1, <1>2, <1>3, <1>4, <1>5, <1>6, <1>7

\* Whoever was let in without a password and changed what is trusted without
\* confirming it is still let in, or can sign in, by what was saved, even when the
\* first account was made between the check and the save (handleHostConfigUpdate,
\* TrustChangeProblem, applyHostConfig).
THEOREM CallerStaysIn == ServicesSpec => []NotShutOut
  <1>1. ServicesInit => HostInv BY HostInitially DEF ServicesInit
  <1>2. HostInv /\ [ServicesNext]_servicesVars => HostInv'
    <2> SUFFICES ASSUME HostInv, [ServicesNext]_servicesVars PROVE HostInv' OBVIOUS
    <2>1. CASE HostNext BY <2>1, HostStep
    <2>2. CASE BackupNext \/ SessionsNext \/ ConnectionsNext \/ ScheduleNext \/ NoticesNext \/ HealthNext \/ ConfigNext
      BY <2>2, OthersLeaveHost, HostStutters
    <2>3. CASE UNCHANGED servicesVars BY <2>3, HostStutters DEF servicesVars
    <2> QED BY <2>1, <2>2, <2>3 DEF ServicesNext
  <1>3. HostInv => NotShutOut BY DEF HostInv, NotShutOut, LetIn, Unaware
  <1> QED BY <1>1, <1>2, <1>3, PTL DEF ServicesSpec

-----------------------------------------------------------------------------
(* Settings: what a file says, read and written.                           *)

\* A setting as a file says it, once it was read.
Canonical(f, x) == IF f = "level" THEN canonicalLogLevel(x) ELSE x
\* A configuration that config.xml can say: every setting has a text that is
\* read back as what it stands for.
Sound(c) ==
  /\ c = [f \in Settings |-> c[f]]
  /\ c["key"] # "" /\ c["level"] \notin {"", "warning"} /\ c["ssl"] \in {"True", "False"}
Says(file, f) == f \in DOMAIN file.texts /\ (firstText(file.texts[f]) # "" \/ f \in optional)
ReadAs(file, k, f) ==
  Canonical(f, IF Says(file, f) THEN parse(f, firstText(file.texts[f])) ELSE IF f = "key" THEN k ELSE Default[f])

\* Normalize and apply, setting by setting.
LEMMA BySetting ==
  /\ \A c : c = [f \in Settings |-> c[f]] => Normalize(c) = [f \in Settings |-> Canonical(f, c[f])]
  /\ \A env, c : apply(env, c) = [f \in Settings |-> Canonical(f, IF f \in DOMAIN env THEN env[f] ELSE c[f])]
  /\ \A c : Sound(c) => Normalize(c) = c
  <1>1. ASSUME NEW c, c = [f \in Settings |-> c[f]] PROVE Normalize(c) = [f \in Settings |-> Canonical(f, c[f])]
    <2>1. PICK g : g = [f \in Settings |-> c[f]] OBVIOUS
    <2>2. [g EXCEPT !.level = canonicalLogLevel(@)] = [f \in Settings |-> Canonical(f, g[f])]
      BY <2>1 DEF Canonical, Settings
    <2> QED BY <1>1, <2>1, <2>2 DEF Normalize
  <1>2. ASSUME NEW env, NEW c
        PROVE  apply(env, c) = [f \in Settings |-> Canonical(f, IF f \in DOMAIN env THEN env[f] ELSE c[f])]
    <2>1. PICK g : g = [f \in Settings |-> IF f \in DOMAIN env THEN env[f] ELSE c[f]] OBVIOUS
    <2>2. g = [f \in Settings |-> g[f]] BY <2>1
    <2>3. Normalize(g) = [f \in Settings |-> Canonical(f, g[f])] BY <1>1, <2>2
    <2> QED BY <2>1, <2>3 DEF apply
  <1>3. ASSUME NEW c, Sound(c) PROVE Normalize(c) = c
    <2>1. Normalize(c) = [f \in Settings |-> Canonical(f, c[f])] BY <1>1, <1>3 DEF Sound
    <2>2. \A f \in Settings : Canonical(f, c[f]) = c[f] BY <1>3 DEF Sound, Canonical, canonicalLogLevel
    <2> QED BY <1>3, <2>1, <2>2 DEF Sound
  <1> QED BY <1>1, <1>2, <1>3

\* decode, setting by setting.
LEMMA DecodeReads == \A file, k : decode(file, k) = [f \in Settings |-> ReadAs(file, k, f)]
  <1> SUFFICES ASSUME NEW file, NEW k PROVE decode(file, k) = [f \in Settings |-> ReadAs(file, k, f)] OBVIOUS
  <1>1. PICK raw : raw = raws(file) OBVIOUS
  <1>2. /\ DOMAIN raw = Settings \cap DOMAIN file.texts
        /\ \A f \in DOMAIN raw : raw[f] = firstText(file.texts[f])
    BY <1>1 DEF raws, present
  <1>3. \A f \in Settings : taken(raw, f) <=> Says(file, f) BY <1>2 DEF taken, Says
  <1>4. PICK p : p = parsed(raw) OBVIOUS
  <1>5. /\ DOMAIN p = {f \in Settings : Says(file, f)}
        /\ \A f \in DOMAIN p : p[f] = parse(f, firstText(file.texts[f]))
    BY <1>2, <1>3, <1>4 DEF parsed, Says
  <1>6. PICK d : d = [Default EXCEPT !.key = k] OBVIOUS
  <1>7. DOMAIN d = Settings /\ \A f \in Settings : d[f] = IF f = "key" THEN k ELSE Default[f]
    BY <1>6 DEF Default, Settings
  <1>8. PICK c : c = over(p, d) OBVIOUS
  <1>9. c = [f \in Settings |-> IF Says(file, f) THEN parse(f, firstText(file.texts[f])) ELSE IF f = "key" THEN k ELSE Default[f]]
    BY <1>5, <1>7, <1>8 DEF over
  <1>10. c = [f \in Settings |-> c[f]] BY <1>9
  <1>11. Normalize(c) = [f \in Settings |-> Canonical(f, c[f])] BY <1>10, BySetting
  <1>12. decode(file, k) = Normalize(c) BY <1>1, <1>4, <1>6, <1>8 DEF decode
  <1> QED BY <1>9, <1>11, <1>12 DEF ReadAs

\* A configuration is read back as it was written, whatever key stands in for a
\* missing one.
LEMMA WrittenReads ==
  ASSUME NEW c, Sound(c), NEW o, DOMAIN o \cap Settings = {}
  PROVE  /\ decodes(render(c, o))
         /\ \A k : decode(render(c, o), k) = c
         /\ o = [n \in DOMAIN o |-> <<o[n][1]>>] => unknown(render(c, o)) = o
  <1>1. PICK t : t = over([f \in Settings |-> <<c[f]>>], o) OBVIOUS
  <1>2. DOMAIN t = Settings \cup DOMAIN o /\ (\A f \in Settings : t[f] = <<c[f]>>) /\ \A n \in DOMAIN o : t[n] = o[n]
    BY <1>1 DEF over
  <1>3. PICK file : file = render(c, o) OBVIOUS
  <1>4. file.texts = t /\ file.kind = "xml" BY <1>1, <1>3 DEF render, Xml
  <1>5. \A f \in Settings : f \in DOMAIN file.texts /\ firstText(file.texts[f]) = c[f]
    <2>1. \A x : firstText(<<x>>) = x
      <3> SUFFICES ASSUME NEW x PROVE firstText(<<x>>) = x OBVIOUS
      <3>1. PICK ts : ts = <<x>> OBVIOUS
      <3>2. DOMAIN ts = {1} /\ ts[1] = x BY <3>1
      <3>3. CASE x = "" BY <3>1, <3>2, <3>3 DEF firstText
      <3>4. CASE x # ""
        <4> DEFINE First(i) == ts[i] # "" /\ \A j \in DOMAIN ts : j < i => ts[j] = ""
        <4>1. First(1)
          <5>1. ASSUME NEW j \in DOMAIN ts PROVE ~(j < 1) BY <3>2
          <5> QED BY <3>2, <3>4, <5>1
        <4>2. (CHOOSE i \in DOMAIN ts : First(i)) = 1 BY <3>2, <4>1
        <4>3. firstText(ts) = ts[CHOOSE i \in DOMAIN ts : First(i)] BY <3>2, <3>4 DEF firstText
        <4> QED BY <3>1, <3>2, <4>2, <4>3
      <3> QED BY <3>3, <3>4
    <2> QED BY <1>2, <1>4, <2>1
  <1>6. \A k : decode(file, k) = c
    <2>1. ASSUME NEW k, NEW f \in Settings PROVE ReadAs(file, k, f) = c[f]
      <3>1. CASE f = "key" BY <1>5, <3>1 DEF ReadAs, Says, Canonical, parse, Sound
      <3>2. CASE f = "ssl" BY <1>5, <3>2 DEF ReadAs, Says, Canonical, parse, parseBool, Sound
      <3>3. CASE f = "cert" BY <1>5, <3>3 DEF ReadAs, Says, Canonical, parse, optional
      <3>4. CASE f = "level" BY <1>5, <3>4 DEF ReadAs, Says, Canonical, parse, canonicalLogLevel, Sound
      <3> QED BY <3>1, <3>2, <3>3, <3>4 DEF Settings
    <2>2. ASSUME NEW k PROVE decode(file, k) = [f \in Settings |-> c[f]] BY <2>1, DecodeReads
    <2> QED BY <2>2 DEF Sound
  <1>7. decodes(file)
    <2>1. PICK raw : raw = raws(file) OBVIOUS
    <2>2. DOMAIN raw = Settings /\ \A f \in Settings : raw[f] = c[f] BY <1>5, <2>1 DEF raws, present
    <2>3. "ssl" \in DOMAIN parsed(raw) => parsed(raw).ssl # "error"
      BY <2>2 DEF parsed, taken, parse, parseBool, Sound, Settings
    <2> QED BY <1>4, <2>1, <2>3 DEF decodes
  <1>8. ASSUME o = [n \in DOMAIN o |-> <<o[n][1]>>] PROVE unknown(file) = o
    <2>1. DOMAIN file.texts \ Settings = DOMAIN o BY <1>2, <1>4
    <2>2. \A n \in DOMAIN o : file.texts[n] = o[n] BY <1>2, <1>4
    <2>3. unknown(file) = [n \in DOMAIN o |-> <<o[n][1]>>] BY <2>1, <2>2 DEF unknown
    <2> QED BY <1>8, <2>3
  <1> QED BY <1>3, <1>6, <1>7, <1>8

\* What the elements are that no setting has.
LEMMA OthersShape ==
  \A file : DOMAIN unknown(file) \cap Settings = {} /\ unknown(file) = [n \in DOMAIN unknown(file) |-> <<unknown(file)[n][1]>>]
  <1> SUFFICES ASSUME NEW file
               PROVE  /\ DOMAIN unknown(file) \cap Settings = {}
                      /\ unknown(file) = [n \in DOMAIN unknown(file) |-> <<unknown(file)[n][1]>>]
    OBVIOUS
  <1>1. PICK D : D = DOMAIN file.texts \ Settings OBVIOUS
  <1>2. PICK u : u = [n \in D |-> <<file.texts[n][1]>>] OBVIOUS
  <1>3. DOMAIN u = D /\ \A n \in D : u[n] = <<file.texts[n][1]>> BY <1>2
  <1>4. \A n \in D : u[n][1] = file.texts[n][1] BY <1>3
  <1>5. u = [n \in DOMAIN u |-> <<u[n][1]>>] BY <1>2, <1>3, <1>4
  <1> QED BY <1>1, <1>2, <1>3, <1>5 DEF unknown

\* A file that says its key says it whatever would stand in for it, and a key that
\* stands in for a missing one has no problem.
LEMMA KeyOfFile ==
  ASSUME NEW file
  PROVE  /\ decode(file, "")["key"] # "" => \A k : decode(file, k) = decode(file, "")
         /\ \A k, f : f \in Settings \ {"key"} => decode(file, k)[f] = decode(file, "")[f]
         /\ Validate(decode(file, "gen2")) = Validate(decode(file, "gen1"))
         /\ \A k : decode(file, k)["key"] \in {k, decode(file, "")["key"]}
  <1>1. \A k : \A f \in Settings : decode(file, k)[f] = ReadAs(file, k, f) BY DecodeReads
  <1>2. \A k : \A f \in Settings \ {"key"} : decode(file, k)[f] = decode(file, "")[f] BY <1>1 DEF ReadAs
  <1>3. /\ Says(file, "key") => \A k : decode(file, k)["key"] = decode(file, "")["key"]
        /\ ~Says(file, "key") => \A k : decode(file, k)["key"] = k
    BY <1>1 DEF ReadAs, Canonical, Settings
  <1>4. ASSUME decode(file, "")["key"] # "", NEW k PROVE decode(file, k) = decode(file, "")
    <2>1. \A f \in Settings : decode(file, k)[f] = decode(file, "")[f] BY <1>2, <1>3, <1>4
    <2>2. \A f \in Settings : ReadAs(file, k, f) = ReadAs(file, "", f) BY <1>1, <2>1
    <2> QED BY <2>2, DecodeReads
  <1>5. Validate(decode(file, "gen2")) = Validate(decode(file, "gen1"))
    <2>1. PICK a : a = decode(file, "gen1") OBVIOUS
    <2>2. PICK b : b = decode(file, "gen2") OBVIOUS
    <2>3. /\ a.ssl = b.ssl /\ a.cert = b.cert /\ a.level = b.level
          /\ apiKeyProblem(a.key) <=> apiKeyProblem(b.key)
      BY <1>2, <1>3, <2>1, <2>2 DEF Settings, apiKeyProblem
    <2>4. Validate(a) = Validate(b) BY <2>3 DEF Validate, Settings
    <2> QED BY <2>1, <2>2, <2>4
  <1> QED BY <1>2, <1>3, <1>4, <1>5

\* What a start reads is sound, and is what the file says to another start once the
\* file is not to be rewritten.
LEMMA ReadsSound ==
  ASSUME NEW file, decodes(file), NEW k, k # ""
  PROVE  /\ Sound(decode(file, k))
         /\ ~dirty(file, decode(file, k)) => decode(file, "") = decode(file, k)
  <1>1. PICK c : c = decode(file, k) OBVIOUS
  <1>2. c = [f \in Settings |-> ReadAs(file, k, f)] BY <1>1, DecodeReads
  <1>3. c = [f \in Settings |-> c[f]] BY <1>2
  <1>4. c["key"] # "" BY <1>2 DEF ReadAs, Says, Canonical, parse, optional, Settings
  <1>5. c["level"] \notin {"", "warning"}
    BY <1>2 DEF ReadAs, Says, Canonical, parse, optional, Settings, canonicalLogLevel, Default
  <1>6. c["ssl"] \in {"True", "False"}
    <2>1. PICK raw : raw = raws(file) OBVIOUS
    <2>2. /\ DOMAIN raw = Settings \cap DOMAIN file.texts
          /\ \A f \in DOMAIN raw : raw[f] = firstText(file.texts[f])
      BY <2>1 DEF raws, present
    <2>3. Says(file, "ssl") => "ssl" \in DOMAIN parsed(raw) /\ parsed(raw).ssl = parseBool(firstText(file.texts["ssl"]))
      BY <2>2 DEF parsed, taken, Says, Settings, parse
    <2>4. Says(file, "ssl") => parseBool(firstText(file.texts["ssl"])) # "error" BY <2>1, <2>3 DEF decodes
    <2>5. c["ssl"] = IF Says(file, "ssl") THEN parseBool(firstText(file.texts["ssl"])) ELSE "False"
      BY <1>2 DEF ReadAs, Canonical, parse, Settings, Default
    <2> QED BY <2>4, <2>5 DEF parseBool
  <1>7. ASSUME ~dirty(file, c) PROVE decode(file, "") = c
    <2>1. present(file) = Settings /\ raws(file)["key"] = c["key"] BY <1>7 DEF dirty, Settings
    <2>2. "key" \in DOMAIN file.texts /\ firstText(file.texts["key"]) = c["key"] BY <2>1 DEF present, raws, Settings
    <2>3. Says(file, "key") BY <1>4, <2>2 DEF Says
    <2>4. decode(file, "")["key"] # "" BY <1>4, <2>2, <2>3, DecodeReads DEF ReadAs, Canonical, parse, Settings
    <2> QED BY <1>1, <2>4, KeyOfFile
  <1> QED BY <1>1, <1>3, <1>4, <1>5, <1>6, <1>7 DEF Sound

-----------------------------------------------------------------------------
(* Settings: the inductive invariant.                                      *)

MgrPhases == {"up", "saving", "written", "renamed", "swapped"}
MgrShape ==
  mgr \in [phase : MgrPhases, env : {mgr.env}, file : {mgr.file}, effective : {mgr.effective}, told : {mgr.told},
           others : {mgr.others}, next : {mgr.next}, from : {"none", "load", "update"}]
\* A configuration that config.xml may hold.
Accepted(c) == Sound(c) /\ Validate(c) \subseteq cfgFirst.problems /\ WithoutOverrides(c)
FileOK(d) ==
  /\ Validate(decode(d, "gen1")) \subseteq cfgFirst.problems /\ unknown(d) = cfgFirst.others
  /\ WithoutOverrides(decode(d, "gen1"))
Kept(d) == decodes(d) /\ decode(d, "") \in acked
\* The first save of a start: the file still says what it said before it.
Loading == mgr.from = "load" /\ mgr.phase \in {"saving", "written"}

MgrOK ==
  /\ MgrShape /\ mgr.env \in Environments /\ mgr.others = cfgFirst.others
  /\ Accepted(mgr.file) /\ Accepted(mgr.next)
  /\ mgr.effective = apply(mgr.env, mgr.file) /\ Validate(mgr.effective) = {} /\ Validate(apply(mgr.env, mgr.next)) = {}
  /\ mgr.phase # "swapped" => mgr.told = mgr.effective
  /\ mgr.from = "load" /\ mgr.phase # "up" => mgr.phase # "swapped" /\ mgr.file = mgr.next
  /\ Loading => (acked # {} => mgr.next \in acked)
  /\ mgr.phase \in {"up", "saving", "written"} /\ ~Loading => acked # {} /\ mgr.file = decode(cfgFile, "")
  /\ mgr.phase \in {"renamed", "swapped"} => cfgFile = render(mgr.next, mgr.others)
  /\ mgr.phase = "renamed" => mgr.next \in acked \/ acked = {}
  /\ mgr.phase = "swapped" => mgr.file = mgr.next /\ mgr.next \in acked

\* Every file there may be after a power cut holds nothing it should not, and what
\* it should once a start was complete; so will the staged one.
ConfigInv ==
  /\ \A d \in OnDisk : FileOK(d) /\ (acked # {} => Kept(d))
  /\ \A c \in acked : c["key"] # ""
  /\ cfgStaged # Empty =>
       Accepted(decode(cfgStaged, "")) /\ cfgStaged = render(decode(cfgStaged, ""), cfgFirst.others)
  /\ DOMAIN cfgFirst.others \cap Settings = {}
  /\ cfgFirst.others = [n \in DOMAIN cfgFirst.others |-> <<cfgFirst.others[n][1]>>]
  /\ mgr # Down => MgrOK
  /\ mgr = Down \/ mgr.phase # "renamed" => cfgOlder = {}

-----------------------------------------------------------------------------
(* Settings: every step keeps it.                                          *)

\* A configuration that may be in the file makes a file that is right.
LEMMA RenderIsOK ==
  ASSUME ConfigInv, NEW c, Accepted(c)
  PROVE  /\ decodes(render(c, cfgFirst.others)) /\ \A k : decode(render(c, cfgFirst.others), k) = c
         /\ FileOK(render(c, cfgFirst.others))
  <1>1. PICK d : d = render(c, cfgFirst.others) OBVIOUS
  <1>2. decodes(d) /\ (\A k : decode(d, k) = c) /\ unknown(d) = cfgFirst.others
    BY <1>1, WrittenReads DEF ConfigInv, Accepted
  <1> QED BY <1>1, <1>2 DEF FileOK, Accepted

\* A file that is right, read by a start, may be written again.
LEMMA ReadIsAccepted ==
  ASSUME ConfigInv, NEW d \in OnDisk, decodes(d), NEW k \in {"gen1", "gen2"}
  PROVE  Accepted(decode(d, k))
  <1>1. PICK c : c = decode(d, k) OBVIOUS
  <1>2. PICK b : b = decode(d, "gen1") OBVIOUS
  <1>3. FileOK(d) BY DEF ConfigInv
  <1>4. Sound(c) BY <1>1, ReadsSound
  <1>5. Validate(c) = Validate(b) BY <1>1, <1>2, KeyOfFile
  <1>6. \A f \in Settings \ {"key"} : c[f] = b[f]
    <2>1. \A f \in Settings \ {"key"} : decode(d, k)[f] = decode(d, "")[f] BY KeyOfFile
    <2>2. \A f \in Settings \ {"key"} : decode(d, "gen1")[f] = decode(d, "")[f] BY KeyOfFile
    <2> QED BY <1>1, <1>2, <2>1, <2>2
  <1>7. c["key"] = b["key"] \/ c["key"] \in {"gen1", "gen2"}
    <2>1. CASE decode(d, "")["key"] # "" BY <1>1, <1>2, <2>1, KeyOfFile
    <2>2. CASE decode(d, "")["key"] = ""
      <3>1. c["key"] \in {k, decode(d, "")["key"]} BY <1>1, KeyOfFile
      <3>2. c["key"] # "" BY <1>4 DEF Sound
      <3> QED BY <2>2, <3>1, <3>2
    <2> QED BY <2>1, <2>2
  <1>8. WithoutOverrides(c)
    <2> SUFFICES ASSUME NEW env \in Environments, NEW f \in Settings \cap DOMAIN env PROVE c[f] # env[f]
      BY DEF WithoutOverrides
    <2>1. b[f] # env[f] BY <1>2, <1>3 DEF FileOK, WithoutOverrides
    <2>2. f = "key" => env[f] \notin {"gen1", "gen2"} BY ConfigAssumption
    <2> QED BY <1>6, <1>7, <2>1, <2>2
  <1> QED BY <1>1, <1>2, <1>3, <1>4, <1>5, <1>8 DEF Accepted, FileOK

\* The first start finds a file that is right by itself.
LEMMA ConfigInitially == ASSUME ConfigInit PROVE ConfigInv
  <1>1. /\ cfgFile \in FirstFiles /\ cfgOlder = {} /\ mgr = Down /\ cfgStaged = Empty /\ acked = {}
        /\ cfgFirst = [problems |-> Validate(decode(cfgFile, "gen1")), others |-> unknown(cfgFile)]
    BY DEF ConfigInit
  <1>2. WithoutOverrides(decode(cfgFile, "gen1")) BY <1>1, ConfigAssumption
  <1>3. \A d \in OnDisk : FileOK(d) BY <1>1, <1>2 DEF OnDisk, FileOK
  <1>4. /\ DOMAIN cfgFirst.others \cap Settings = {}
        /\ cfgFirst.others = [n \in DOMAIN cfgFirst.others |-> <<cfgFirst.others[n][1]>>]
    <2>1. cfgFirst.others = unknown(cfgFile) BY <1>1
    <2> QED BY <2>1, OthersShape
  <1> QED BY <1>1, <1>3, <1>4 DEF ConfigInv

\* What does not touch the files keeps what holds of them.
LEMMA SameFiles ==
  ASSUME ConfigInv, UNCHANGED <<cfgFile, cfgOlder, acked, cfgFirst>>
  PROVE  /\ \A d \in OnDisk' : FileOK(d)' /\ (acked' # {} => Kept(d)')
         /\ \A c \in acked' : c["key"] # ""
         /\ DOMAIN cfgFirst.others' \cap Settings = {}
         /\ cfgFirst.others' = [n \in DOMAIN cfgFirst.others' |-> <<cfgFirst.others'[n][1]>>]
         /\ \A c : Accepted(c)' <=> Accepted(c)
  BY DEF ConfigInv, OnDisk, FileOK, Kept, Accepted

\* A step of the process that leaves the files alone.
LEMMA ProcessSteps ==
  ASSUME ConfigInv, UNCHANGED <<cfgFile, cfgOlder, cfgStaged, acked, cfgFirst>>,
         mgr' # Down => MgrOK', mgr' = Down \/ mgr'.phase # "renamed" => cfgOlder' = {}
  PROVE  ConfigInv'
  <1>1. cfgStaged' # Empty =>
          Accepted(decode(cfgStaged, ""))' /\ cfgStaged' = render(decode(cfgStaged', ""), cfgFirst.others')
    BY SameFiles DEF ConfigInv
  <1> QED BY <1>1, SameFiles DEF ConfigInv

\* LoadFile: the configuration that was read, to be saved first where the file does
\* not say it as it would be written.
LEMMA LoadFileKeeps == ASSUME ConfigInv, NEW env \in Environments, LoadFile(env) PROVE ConfigInv'
  <1>1. mgr = Down /\ cfgStaged = Empty /\ decodes(cfgFile) /\ UNCHANGED <<cfgFile, cfgOlder, cfgStaged, cfgFirst, cfgLeft>>
    BY DEF LoadFile
  <1>2. cfgFile \in OnDisk /\ cfgOlder = {} BY <1>1 DEF OnDisk, ConfigInv
  <1>3. PICK c : c = decode(cfgFile, freshKey) OBVIOUS
  <1>4. freshKey \in {"gen1", "gen2"} BY DEF freshKey
  <1>5. Accepted(c) BY <1>1, <1>2, <1>3, <1>4, ReadIsAccepted
  <1>6. PICK others : others = unknown(cfgFile) OBVIOUS
  <1>7. others = cfgFirst.others BY <1>2, <1>6 DEF ConfigInv, FileOK
  <1>8. PICK eff : eff = apply(env, c) OBVIOUS
  <1>9. Validate(eff) = {} BY <1>1, <1>3, <1>8 DEF LoadFile, loadWith
  <1>10. CASE dirty(cfgFile, c)
    <2>1. PICK m : m = [phase |-> "saving", env |-> env, file |-> c, effective |-> eff, told |-> eff, others |-> others,
                        next |-> c, from |-> "load"]
      OBVIOUS
    <2>2. mgr' = m /\ acked' = acked BY <1>1, <1>3, <1>6, <1>8, <1>10, <2>1 DEF LoadFile, loadWith, Manager
    <2>3. acked # {} => c \in acked
      <3> SUFFICES ASSUME acked # {} PROVE c \in acked OBVIOUS
      <3>1. decode(cfgFile, "") \in acked /\ decode(cfgFile, "")["key"] # "" BY <1>2 DEF ConfigInv, Kept
      <3> QED BY <1>3, <3>1, KeyOfFile
    <2>4. Accepted(c)' BY <1>1, <1>5 DEF Accepted
    <2>5. MgrOK' BY <1>1, <1>7, <1>8, <1>9, <2>1, <2>2, <2>3, <2>4 DEF MgrOK, MgrShape, MgrPhases, Loading
    <2> QED BY <1>1, <1>2, <2>2, <2>5, ProcessSteps
  <1>11. CASE ~dirty(cfgFile, c)
    <2>1. PICK m : m = [phase |-> "up", env |-> env, file |-> c, effective |-> eff, told |-> eff, others |-> others,
                        next |-> c, from |-> "none"]
      OBVIOUS
    <2>2. mgr' = m /\ acked' = {c} BY <1>1, <1>3, <1>6, <1>8, <1>11, <2>1 DEF LoadFile, loadWith, Manager
    <2>3. decode(cfgFile, "") = c BY <1>1, <1>3, <1>4, <1>11, ReadsSound
    <2>4. Accepted(c)' BY <1>1, <1>5 DEF Accepted
    <2>5. MgrOK' BY <1>1, <1>7, <1>8, <1>9, <2>1, <2>2, <2>3, <2>4 DEF MgrOK, MgrShape, MgrPhases, Loading
    <2>6. \A d \in OnDisk' : FileOK(d)' BY <1>1 DEF ConfigInv, OnDisk, FileOK
    <2>7. \A d \in OnDisk' : Kept(d)' BY <1>1, <1>2, <2>2, <2>3 DEF OnDisk, Kept
    <2>8. \A x \in acked' : x["key"] # "" BY <1>5, <2>2 DEF Accepted, Sound
    <2> QED BY <1>1, <1>2, <2>2, <2>5, <2>6, <2>7, <2>8 DEF ConfigInv
  <1> QED BY <1>10, <1>11

\* What a request leaves in the file: what it asks for, unless the environment sets
\* it or the result would not be accepted.
LEMMA UpdatedIsAccepted ==
  ASSUME ConfigInv, mgr # Down, mgr.phase = "up", NEW page \in Pages, NEW seen \in BOOLEAN, NEW next,
         next = updated(over(page, IF seen THEN mgr.effective ELSE mgr.file), mgr),
         Validate(apply(mgr.env, next)) = {}, newFileProblems(mgr, next) = {}
  PROVE  Accepted(next)
  <1>1. MgrOK BY DEF ConfigInv
  <1>2. PICK file : file = mgr.file OBVIOUS
  <1>3. PICK env : env = mgr.env OBVIOUS
  <1>4. PICK base : base = IF seen THEN mgr.effective ELSE mgr.file OBVIOUS
  <1>5. PICK from : from = over(page, base) OBVIOUS
  <1>6. PICK mixed : mixed = [f \in Settings |-> IF f \in DOMAIN env THEN file[f] ELSE from[f]] OBVIOUS
  <1>7. Accepted(file) /\ Sound(file) BY <1>1, <1>2 DEF MgrOK, Accepted
  <1>8. \A f \in Settings : f \notin DOMAIN env => base[f] = file[f]
    <2>1. CASE seen
      <3>1. base = [f \in Settings |-> Canonical(f, IF f \in DOMAIN env THEN env[f] ELSE file[f])]
        BY <1>1, <1>2, <1>3, <1>4, <2>1, BySetting DEF MgrOK
      <3>2. \A f \in Settings : Canonical(f, file[f]) = file[f] BY <1>7 DEF Sound, Canonical, canonicalLogLevel
      <3> QED BY <3>1, <3>2
    <2>2. CASE ~seen BY <1>2, <1>4, <2>2
    <2> QED BY <2>1, <2>2
  <1>9. DOMAIN base = Settings
    <2>1. DOMAIN file = Settings BY <1>7 DEF Sound
    <2>2. DOMAIN mgr.effective = Settings BY <1>1, BySetting DEF MgrOK
    <2> QED BY <1>2, <1>4, <2>1, <2>2
  <1>10. \A f \in Settings : from[f] = IF f \in DOMAIN page THEN page[f] ELSE base[f] BY <1>5, <1>9 DEF over
  <1>11. next = [f \in Settings |-> Canonical(f, mixed[f])]
    <2>1. mixed = [f \in Settings |-> mixed[f]] BY <1>6
    <2>2. next = Normalize(mixed) BY <1>2, <1>3, <1>4, <1>5, <1>6 DEF updated
    <2> QED BY <2>1, <2>2, BySetting
  <1>12. ASSUME NEW f \in Settings, f \in DOMAIN env \/ f \notin DOMAIN page PROVE next[f] = file[f]
    <2>1. mixed[f] = file[f] BY <1>6, <1>8, <1>10, <1>12
    <2>2. Canonical(f, file[f]) = file[f] BY <1>7 DEF Sound, Canonical, canonicalLogLevel
    <2> QED BY <1>11, <2>1, <2>2
  <1>13. ASSUME NEW f \in Settings, f \notin DOMAIN env, f \in DOMAIN page PROVE next[f] = Canonical(f, page[f])
    BY <1>6, <1>10, <1>11, <1>13
  <1>14. PICK eff : eff = apply(env, next) OBVIOUS
  <1>15. \A f \in Settings : f \notin DOMAIN env => eff[f] = Canonical(f, next[f]) BY <1>14, BySetting
  <1>16. ~apiKeyProblem(eff.key) /\ eff.level \in {"debug", "info", "warn"}
    BY <1>3, <1>14 DEF Validate, Settings
  <1>17. Sound(next)
    <2>1. next = [f \in Settings |-> next[f]] BY <1>11
    <2>2. next["key"] # ""
      <3>1. CASE "key" \in DOMAIN env BY <1>7, <1>12, <3>1 DEF Sound, Settings
      <3>2. CASE "key" \notin DOMAIN env BY <1>15, <1>16, <3>2 DEF Canonical, Settings, apiKeyProblem
      <3> QED BY <3>1, <3>2
    <2>3. next["level"] \notin {"", "warning"}
      <3>1. CASE "level" \in DOMAIN env BY <1>7, <1>12, <3>1 DEF Sound, Settings
      <3>2. CASE "level" \notin DOMAIN env
        <4>1. canonicalLogLevel(next["level"]) \in {"debug", "info", "warn"} BY <1>15, <1>16, <3>2 DEF Canonical, Settings
        <4>2. next["level"] = canonicalLogLevel(mixed["level"]) BY <1>11 DEF Canonical, Settings
        <4> QED BY <4>1, <4>2 DEF canonicalLogLevel
      <3> QED BY <3>1, <3>2
    <2>4. next["ssl"] \in {"True", "False"}
      <3>1. CASE "ssl" \in DOMAIN env \/ "ssl" \notin DOMAIN page BY <1>7, <1>12, <3>1 DEF Sound, Settings
      <3>2. CASE "ssl" \notin DOMAIN env /\ "ssl" \in DOMAIN page
        BY <1>13, <3>2, ConfigAssumption DEF Canonical, Settings
      <3> QED BY <3>1, <3>2
    <2> QED BY <2>1, <2>2, <2>3, <2>4 DEF Sound
  <1>18. Validate(next) \subseteq cfgFirst.problems
    <2>1. Validate(file) \subseteq cfgFirst.problems BY <1>7 DEF Accepted
    <2>2. CASE DOMAIN env = {}
      <3>1. eff = [f \in Settings |-> Canonical(f, next[f])] BY <1>14, <2>2, BySetting
      <3>2. \A f \in Settings : Canonical(f, next[f]) = next[f] BY <1>17 DEF Sound, Canonical, canonicalLogLevel
      <3>3. eff = next BY <1>17, <3>1, <3>2 DEF Sound
      <3> QED BY <1>3, <1>14, <3>3
    <2>3. CASE DOMAIN env # {} BY <1>2, <1>3, <2>1, <2>3 DEF newFileProblems, NewProblems
    <2> QED BY <2>2, <2>3
  <1>19. WithoutOverrides(next)
    <2> SUFFICES ASSUME NEW e \in Environments, NEW f \in Settings \cap DOMAIN e PROVE next[f] # e[f] BY DEF WithoutOverrides
    <2>1. CASE f \in DOMAIN env \/ f \notin DOMAIN page BY <1>7, <1>12, <2>1 DEF Accepted, WithoutOverrides
    <2>2. CASE f \notin DOMAIN env /\ f \in DOMAIN page BY <1>13, <2>2, ConfigAssumption DEF Canonical
    <2> QED BY <2>1, <2>2
  <1> QED BY <1>17, <1>18, <1>19 DEF Accepted

\* What is known of the process, as the record it is.
LEMMA MgrIs ==
  ASSUME MgrOK
  PROVE  /\ mgr = [phase |-> mgr.phase, env |-> mgr.env, file |-> mgr.file, effective |-> mgr.effective,
                   told |-> mgr.told, others |-> mgr.others, next |-> mgr.next, from |-> mgr.from]
         /\ mgr.phase \in MgrPhases /\ mgr.from \in {"none", "load", "update"}
  BY DEF MgrOK, MgrShape

\* The process after an assignment to some of its fields.
LEMMA MgrBut ==
  ASSUME MgrOK, NEW p, NEW t, NEW n
  PROVE  /\ [mgr EXCEPT !.phase = p]
              = [phase |-> p, env |-> mgr.env, file |-> mgr.file, effective |-> mgr.effective, told |-> mgr.told,
                 others |-> mgr.others, next |-> mgr.next, from |-> mgr.from]
         /\ [mgr EXCEPT !.phase = p, !.next = n]
              = [phase |-> p, env |-> mgr.env, file |-> mgr.file, effective |-> mgr.effective, told |-> mgr.told,
                 others |-> mgr.others, next |-> n, from |-> mgr.from]
         /\ [mgr EXCEPT !.phase = p, !.next = n, !.from = "update"]
              = [phase |-> p, env |-> mgr.env, file |-> mgr.file, effective |-> mgr.effective, told |-> mgr.told,
                 others |-> mgr.others, next |-> n, from |-> "update"]
         /\ [mgr EXCEPT !.phase = p, !.told = t]
              = [phase |-> p, env |-> mgr.env, file |-> mgr.file, effective |-> mgr.effective, told |-> t,
                 others |-> mgr.others, next |-> mgr.next, from |-> mgr.from]
  <1>1. PICK r : r = mgr OBVIOUS
  <1>2. r \in [phase : {r.phase}, env : {r.env}, file : {r.file}, effective : {r.effective}, told : {r.told},
               others : {r.others}, next : {r.next}, from : {r.from}]
    BY <1>1 DEF MgrOK, MgrShape
  <1>3. ASSUME NEW s, s = [r EXCEPT !.phase = p]
        PROVE  s = [phase |-> p, env |-> r.env, file |-> r.file, effective |-> r.effective, told |-> r.told,
                    others |-> r.others, next |-> r.next, from |-> r.from]
    BY <1>2, <1>3
  <1>4. ASSUME NEW s, s = [r EXCEPT !.phase = p, !.next = n]
        PROVE  s = [phase |-> p, env |-> r.env, file |-> r.file, effective |-> r.effective, told |-> r.told,
                    others |-> r.others, next |-> n, from |-> r.from]
    BY <1>2, <1>4
  <1>5. ASSUME NEW s, s = [r EXCEPT !.phase = p, !.told = t]
        PROVE  s = [phase |-> p, env |-> r.env, file |-> r.file, effective |-> r.effective, told |-> t,
                    others |-> r.others, next |-> r.next, from |-> r.from]
    BY <1>2, <1>5
  <1>6. ASSUME NEW s, s = [r EXCEPT !.phase = p, !.next = n, !.from = "update"]
        PROVE  s = [phase |-> p, env |-> r.env, file |-> r.file, effective |-> r.effective, told |-> r.told,
                    others |-> r.others, next |-> n, from |-> "update"]
    BY <1>2, <1>6
  <1> QED BY <1>1, <1>3, <1>4, <1>5, <1>6

\* UpdateFile: a save begins.
LEMMA UpdateFileKeeps ==
  ASSUME ConfigInv, NEW page \in Pages, NEW seen \in BOOLEAN, UpdateFile(page, seen)
  PROVE  ConfigInv'
  <1>1. mgr.phase = "up" /\ mgr # Down BY DEF UpdateFile, Down
  <1>2. PICK next : next = updated(over(page, IF seen THEN mgr.effective ELSE mgr.file), mgr) OBVIOUS
  <1>3. /\ Validate(apply(mgr.env, next)) = {} /\ newFileProblems(mgr, next) = {}
        /\ mgr' = [mgr EXCEPT !.phase = "saving", !.next = next, !.from = "update"]
        /\ UNCHANGED <<cfgFile, cfgOlder, cfgStaged, acked, cfgFirst>>
    BY <1>2 DEF UpdateFile, updateTo
  <1>4. Accepted(next) BY <1>1, <1>2, <1>3, UpdatedIsAccepted
  <1>5. MgrOK BY <1>1 DEF ConfigInv
  <1>6. PICK m : m = [phase |-> "saving", env |-> mgr.env, file |-> mgr.file, effective |-> mgr.effective,
                      told |-> mgr.told, others |-> mgr.others, next |-> next, from |-> "update"]
    OBVIOUS
  <1>7. mgr' = m BY <1>3, <1>5, <1>6, MgrBut
  <1>8. Accepted(next)' /\ Accepted(mgr.file) /\ (Accepted(mgr.file) => Accepted(m.file)')
    BY <1>3, <1>4, <1>5, <1>6 DEF Accepted, MgrOK
  <1>9. MgrOK' BY <1>1, <1>3, <1>5, <1>6, <1>7, <1>8 DEF MgrOK, MgrShape, MgrPhases, Loading
  <1>10. cfgOlder' = {} BY <1>1, <1>3 DEF ConfigInv
  <1> QED BY <1>3, <1>9, <1>10, ProcessSteps

\* SaveWrites: the file is as it was.
LEMMA SaveWritesKeeps == ASSUME ConfigInv, SaveWrites PROVE ConfigInv'
  <1>1. /\ mgr.phase = "saving" /\ mgr # Down /\ mgr' = [mgr EXCEPT !.phase = "written"]
        /\ UNCHANGED <<cfgFile, cfgOlder, cfgStaged, acked, cfgFirst>>
    BY DEF SaveWrites, Down
  <1>2. MgrOK BY <1>1 DEF ConfigInv
  <1>3. PICK m : m = [phase |-> "written", env |-> mgr.env, file |-> mgr.file, effective |-> mgr.effective,
                      told |-> mgr.told, others |-> mgr.others, next |-> mgr.next, from |-> mgr.from]
    OBVIOUS
  <1>4. mgr' = m BY <1>1, <1>2, <1>3, MgrBut
  <1>5. Accepted(m.file)' /\ Accepted(m.next)' BY <1>1, <1>2, <1>3 DEF Accepted, MgrOK
  <1>6. mgr.from \in {"none", "load", "update"} BY <1>2, MgrIs
  <1>7. MgrOK' BY <1>1, <1>2, <1>3, <1>4, <1>5, <1>6 DEF MgrOK, MgrShape, MgrPhases, Loading
  <1>8. cfgOlder' = {} BY <1>1 DEF ConfigInv
  <1> QED BY <1>1, <1>7, <1>8, ProcessSteps

\* SaveAborts: the start is refused, or the settings stay as they were.
LEMMA SaveAbortsKeeps == ASSUME ConfigInv, SaveAborts PROVE ConfigInv'
  <1>1. /\ mgr.phase \in {"saving", "written"} /\ mgr # Down /\ UNCHANGED <<cfgFile, cfgOlder, cfgStaged, acked, cfgFirst>>
        /\ mgr' = IF mgr.from = "load" THEN Down ELSE [mgr EXCEPT !.phase = "up", !.next = mgr.file]
    BY DEF SaveAborts, Down
  <1>2. cfgOlder' = {} BY <1>1 DEF ConfigInv
  <1>3. CASE mgr.from = "load" BY <1>1, <1>2, <1>3, ProcessSteps
  <1>4. CASE mgr.from # "load"
    <2>1. MgrOK BY <1>1 DEF ConfigInv
    <2>2. PICK m : m = [phase |-> "up", env |-> mgr.env, file |-> mgr.file, effective |-> mgr.effective,
                        told |-> mgr.told, others |-> mgr.others, next |-> mgr.file, from |-> mgr.from]
      OBVIOUS
    <2>3. mgr' = m BY <1>1, <1>4, <2>1, <2>2, MgrBut
    <2>4. Accepted(m.file)' /\ Accepted(m.next)' BY <1>1, <2>1, <2>2 DEF Accepted, MgrOK
    <2>5. mgr.from \in {"none", "load", "update"} BY <2>1, MgrIs
    <2>6. mgr.phase # "swapped" /\ mgr.phase # "renamed" BY <1>1
    <2>7. Validate(apply(mgr.env, mgr.file)) = {} /\ mgr.told = mgr.effective BY <2>1, <2>6 DEF MgrOK
    <2>8. acked # {} /\ mgr.file = decode(cfgFile, "") BY <1>1, <1>4, <2>1 DEF MgrOK, Loading
    <2>9. MgrOK' BY <1>1, <1>4, <2>1, <2>2, <2>3, <2>4, <2>5, <2>7, <2>8 DEF MgrOK, MgrShape, MgrPhases, Loading
    <2> QED BY <1>1, <1>2, <2>9, ProcessSteps
  <1> QED BY <1>3, <1>4

\* SaveRenames: the file says the new settings; a power cut may still bring back the
\* old ones.
LEMMA SaveRenamesKeeps == ASSUME ConfigInv, SaveRenames PROVE ConfigInv'
  <1>1. /\ mgr.phase = "written" /\ mgr # Down /\ UNCHANGED <<cfgStaged, cfgFirst>>
        /\ cfgFile' = render(mgr.next, mgr.others) /\ cfgOlder' = {cfgFile}
        /\ acked' = (IF mgr.from = "load" THEN acked ELSE acked \cup {mgr.next})
        /\ mgr' = [mgr EXCEPT !.phase = "renamed"]
    BY DEF SaveRenames, Down
  <1>2. MgrOK BY <1>1 DEF ConfigInv
  <1>3. PICK m : m = [phase |-> "renamed", env |-> mgr.env, file |-> mgr.file, effective |-> mgr.effective,
                      told |-> mgr.told, others |-> mgr.others, next |-> mgr.next, from |-> mgr.from]
    OBVIOUS
  <1>4. mgr' = m BY <1>1, <1>2, <1>3, MgrBut
  <1>5. Accepted(m.file)' /\ Accepted(m.next)' /\ Accepted(mgr.next) BY <1>1, <1>2, <1>3 DEF Accepted, MgrOK
  <1>6. mgr.from \in {"none", "load", "update"} /\ mgr.others = cfgFirst.others BY <1>2, MgrIs DEF MgrOK
  <1>7. mgr.next \in acked' \/ acked' = {}
    <2>1. CASE mgr.from = "load" BY <1>1, <1>2, <2>1 DEF MgrOK, Loading
    <2>2. CASE mgr.from # "load" BY <1>1, <2>2
    <2> QED BY <2>1, <2>2
  <1>8. MgrOK' BY <1>1, <1>2, <1>3, <1>4, <1>5, <1>6, <1>7 DEF MgrOK, MgrShape, MgrPhases, Loading
  <1>9. PICK d : d = cfgFile' OBVIOUS
  <1>10. decodes(d) /\ decode(d, "") = mgr.next /\ FileOK(d) BY <1>1, <1>5, <1>6, <1>9, RenderIsOK
  <1>11. \A x \in OnDisk' : FileOK(x)' /\ (acked' # {} => Kept(x)')
    <2>1. FileOK(d)' /\ (acked' # {} => Kept(d)') BY <1>1, <1>7, <1>10 DEF FileOK, Kept
    <2>2. FileOK(cfgFile) /\ (acked # {} => decodes(cfgFile) /\ decode(cfgFile, "") \in acked)
      BY DEF ConfigInv, OnDisk, Kept
    <2>3. acked \subseteq acked' /\ (acked' # {} => acked # {})
      <3>1. CASE mgr.from = "load" BY <1>1, <3>1
      <3>2. CASE mgr.from # "load" BY <1>1, <1>2, <3>2 DEF MgrOK, Loading
      <3> QED BY <3>1, <3>2
    <2>4. PICK old : old = cfgFile OBVIOUS
    <2>5. FileOK(old)' /\ (acked' # {} => Kept(old)') BY <1>1, <2>2, <2>3, <2>4 DEF FileOK, Kept
    <2>6. OnDisk' = {d, old} BY <1>1, <1>9, <2>4 DEF OnDisk
    <2> QED BY <2>1, <2>5, <2>6
  <1>12. \A c \in acked' : c["key"] # "" BY <1>1, <1>5 DEF ConfigInv, Accepted, Sound
  <1>13. cfgStaged' # Empty =>
           Accepted(decode(cfgStaged, ""))' /\ cfgStaged' = render(decode(cfgStaged', ""), cfgFirst.others')
    BY <1>1 DEF ConfigInv, Accepted
  <1>14. mgr' # Down /\ mgr'.phase = "renamed" BY <1>3, <1>4 DEF Down
  <1>15. /\ DOMAIN cfgFirst.others' \cap Settings = {}
         /\ cfgFirst.others' = [n \in DOMAIN cfgFirst.others' |-> <<cfgFirst.others'[n][1]>>]
    BY <1>1 DEF ConfigInv
  <1> QED BY <1>8, <1>11, <1>12, <1>13, <1>14, <1>15 DEF ConfigInv

\* SaveSyncs: only the new settings are left.
LEMMA SaveSyncsKeeps == ASSUME ConfigInv, SaveSyncs PROVE ConfigInv'
  <1>1. /\ mgr.phase = "renamed" /\ mgr # Down /\ UNCHANGED <<cfgFile, cfgStaged, cfgFirst>>
        /\ cfgOlder' = {} /\ acked' = {mgr.next}
    BY DEF SaveSyncs, Down
  <1>2. MgrOK BY <1>1 DEF ConfigInv
  <1>3. PICK eff : eff = apply(mgr.env, mgr.next) OBVIOUS
  <1>4. PICK to : to = IF mgr.from = "load" THEN "up" ELSE "swapped" OBVIOUS
  <1>5. PICK m : m = [phase |-> to, env |-> mgr.env, file |-> mgr.next,
                      effective |-> eff, told |-> mgr.told, others |-> mgr.others, next |-> mgr.next, from |-> mgr.from]
    OBVIOUS
  <1>6. mgr' = [mgr EXCEPT !.phase = to, !.file = mgr.next, !.effective = eff] BY <1>3, <1>4 DEF SaveSyncs
  <1>7. mgr' = m
    <2>1. PICK r : r = mgr OBVIOUS
    <2>2. r \in [phase : {r.phase}, env : {r.env}, file : {r.file}, effective : {r.effective}, told : {r.told},
                 others : {r.others}, next : {r.next}, from : {r.from}]
      BY <1>2, <2>1 DEF MgrOK, MgrShape
    <2>3. PICK n : n = r.next OBVIOUS
    <2>4. PICK s : s = [r EXCEPT !.phase = to, !.file = n, !.effective = eff] OBVIOUS
    <2>5. s = [phase |-> to, env |-> r.env, file |-> n, effective |-> eff, told |-> r.told,
               others |-> r.others, next |-> r.next, from |-> r.from]
      BY <2>2, <2>4
    <2> QED BY <1>5, <1>6, <2>1, <2>3, <2>4, <2>5, Zenon
  <1>8. Accepted(m.next)' /\ Accepted(mgr.next) BY <1>1, <1>2, <1>5 DEF Accepted, MgrOK
  <1>9. mgr.from \in {"none", "load", "update"} /\ mgr.others = cfgFirst.others BY <1>2, MgrIs DEF MgrOK
  <1>10. cfgFile = render(mgr.next, mgr.others) BY <1>1, <1>2 DEF MgrOK
  <1>11. decodes(cfgFile) /\ decode(cfgFile, "") = mgr.next BY <1>8, <1>9, <1>10, RenderIsOK
  <1>12. mgr.from = "load" => mgr.told = eff BY <1>1, <1>2, <1>3 DEF MgrOK
  <1>13. Validate(eff) = {} BY <1>2, <1>3 DEF MgrOK
  <1>14. MgrShape' BY <1>5, <1>7, <1>9, <1>4 DEF MgrShape, MgrPhases
  <1>15. mgr.env \in Environments BY <1>2 DEF MgrOK
  <1>16. MgrOK'
    BY <1>1, <1>3, <1>5, <1>7, <1>8, <1>9, <1>10, <1>11, <1>12, <1>13, <1>4, <1>14, <1>15 DEF MgrOK, Loading
  <1>17. OnDisk' = {cfgFile} /\ FileOK(cfgFile) BY <1>1 DEF OnDisk, ConfigInv
  <1>18. \A x \in OnDisk' : FileOK(x)' /\ (acked' # {} => Kept(x)') BY <1>1, <1>11, <1>17 DEF FileOK, Kept
  <1>19. \A c \in acked' : c["key"] # "" BY <1>1, <1>8 DEF Accepted, Sound
  <1>20. cfgStaged' # Empty =>
           Accepted(decode(cfgStaged, ""))' /\ cfgStaged' = render(decode(cfgStaged', ""), cfgFirst.others')
    BY <1>1 DEF ConfigInv, Accepted
  <1>21. /\ DOMAIN cfgFirst.others' \cap Settings = {}
         /\ cfgFirst.others' = [n \in DOMAIN cfgFirst.others' |-> <<cfgFirst.others'[n][1]>>]
    BY <1>1 DEF ConfigInv
  <1> QED BY <1>1, <1>16, <1>18, <1>19, <1>20, <1>21 DEF ConfigInv

\* TellSubscribers: they know what is in effect.
LEMMA TellKeeps == ASSUME ConfigInv, TellSubscribers PROVE ConfigInv'
  <1>1. /\ mgr.phase = "swapped" /\ mgr # Down /\ mgr' = [mgr EXCEPT !.phase = "up", !.told = mgr.effective]
        /\ UNCHANGED <<cfgFile, cfgOlder, cfgStaged, acked, cfgFirst>>
    BY DEF TellSubscribers, Down
  <1>2. MgrOK BY <1>1 DEF ConfigInv
  <1>3. PICK m : m = [phase |-> "up", env |-> mgr.env, file |-> mgr.file, effective |-> mgr.effective,
                      told |-> mgr.effective, others |-> mgr.others, next |-> mgr.next, from |-> mgr.from]
    OBVIOUS
  <1>4. mgr' = m BY <1>1, <1>2, <1>3, MgrBut
  <1>5. Accepted(m.file)' /\ Accepted(m.next)' /\ Accepted(mgr.next) BY <1>1, <1>2, <1>3 DEF Accepted, MgrOK
  <1>6. mgr.from \in {"none", "update"} /\ mgr.others = cfgFirst.others BY <1>1, <1>2, MgrIs DEF MgrOK
  <1>7. cfgFile = render(mgr.next, mgr.others) /\ mgr.file = mgr.next BY <1>1, <1>2 DEF MgrOK
  <1>8. decode(cfgFile, "") = mgr.file BY <1>5, <1>6, <1>7, RenderIsOK
  <1>9. acked # {} BY <1>1, <1>2 DEF MgrOK
  <1>10. MgrOK' BY <1>1, <1>2, <1>3, <1>4, <1>5, <1>6, <1>7, <1>8, <1>9 DEF MgrOK, MgrShape, MgrPhases, Loading
  <1>11. cfgOlder' = {} BY <1>1 DEF ConfigInv
  <1> QED BY <1>1, <1>10, <1>11, ProcessSteps

\* ConfigDies: what is on disk is one of the files there might be.
LEMMA ConfigDiesKeeps == ASSUME ConfigInv, NEW power \in BOOLEAN, ConfigDies(power) PROVE ConfigInv'
  <1>1. /\ mgr' = Down /\ cfgFile' \in OnDisk /\ cfgOlder' = {} /\ UNCHANGED <<cfgStaged, acked, cfgFirst>>
    BY DEF ConfigDies, OnDisk
  <1>2. OnDisk' = {cfgFile'} BY <1>1 DEF OnDisk
  <1>3. PICK d : d = cfgFile' OBVIOUS
  <1>4. FileOK(d) /\ (acked # {} => Kept(d)) BY <1>1, <1>3 DEF ConfigInv
  <1>5. \A x \in OnDisk' : FileOK(x)' /\ (acked' # {} => Kept(x)') BY <1>1, <1>2, <1>3, <1>4 DEF FileOK, Kept
  <1>6. cfgStaged' # Empty =>
          Accepted(decode(cfgStaged, ""))' /\ cfgStaged' = render(decode(cfgStaged', ""), cfgFirst.others')
    BY <1>1 DEF ConfigInv, Accepted
  <1>7. /\ DOMAIN cfgFirst.others' \cap Settings = {}
        /\ cfgFirst.others' = [n \in DOMAIN cfgFirst.others' |-> <<cfgFirst.others'[n][1]>>]
        /\ \A c \in acked' : c["key"] # ""
    BY <1>1 DEF ConfigInv
  <1> QED BY <1>1, <1>5, <1>6, <1>7 DEF ConfigInv

\* What a restore would put in the file: the settings of the backup, which hold
\* nothing of the environment, and the installation's own.
LEMMA RewrittenIsAccepted ==
  ASSUME ConfigInv, NEW a \in ArchivedFiles, decodes(a), NEW current, Accepted(current), NEW security \in BOOLEAN,
         NEW m, m.file = current, CheckFile(m, RewriteFile(a, current, security))
  PROVE  Accepted(RewriteFile(a, current, security))
  <1>1. PICK b : b = decode(a, "gen2") OBVIOUS
  <1>2. Sound(b) BY <1>1, ReadsSound
  <1>3. PICK x : x = [b EXCEPT !.key = IF security THEN @ ELSE current.key, !.ssl = IF security THEN @ ELSE current.ssl,
                               !.cert = IF security THEN @ ELSE current.cert]
    OBVIOUS
  <1>4. /\ x = [f \in Settings |-> x[f]]
        /\ \A f \in Settings : x[f] = b[f] \/ x[f] = current[f]
    BY <1>2, <1>3 DEF Sound, Settings
  <1>5. Sound(x)
    <2>1. Sound(current) BY DEF Accepted
    <2> QED BY <1>2, <1>4, <2>1 DEF Sound, Settings
  <1>6. PICK next : next = RewriteFile(a, current, security) OBVIOUS
  <1>7. next = x
    <2>1. next = Normalize(x) BY <1>1, <1>3, <1>6 DEF RewriteFile
    <2> QED BY <1>5, <2>1, BySetting
  <1>8. Validate(next) \subseteq cfgFirst.problems BY <1>6 DEF CheckFile, NewProblems, Accepted
  <1>9. WithoutOverrides(b)
    <2> SUFFICES ASSUME NEW env \in Environments, NEW f \in Settings \cap DOMAIN env PROVE b[f] # env[f]
      BY DEF WithoutOverrides
    <2>1. PICK g : g = decode(a, "gen1") OBVIOUS
    <2>2. g[f] # env[f] BY <2>1, ConfigAssumption DEF WithoutOverrides
    <2>3. CASE f = "key"
      <3>1. CASE decode(a, "")["key"] # "" BY <1>1, <2>1, <2>2, <3>1, KeyOfFile
      <3>2. CASE decode(a, "")["key"] = ""
        <4>1. b["key"] \in {"gen2", ""} BY <1>1, <3>2, KeyOfFile
        <4>2. b["key"] = "gen2" BY <1>2, <4>1 DEF Sound
        <4> QED BY <2>3, <4>2, ConfigAssumption
      <3> QED BY <3>1, <3>2
    <2>4. CASE f # "key"
      <3>1. b[f] = decode(a, "")[f] /\ g[f] = decode(a, "")[f] BY <1>1, <2>1, <2>4, KeyOfFile
      <3> QED BY <2>2, <3>1
    <2> QED BY <2>3, <2>4
  <1>10. WithoutOverrides(next) BY <1>4, <1>7, <1>9 DEF WithoutOverrides, Accepted
  <1> QED BY <1>5, <1>6, <1>7, <1>8, <1>10 DEF Accepted

\* StageFile: what is staged may be put in place.
LEMMA StageFileKeeps ==
  ASSUME ConfigInv, NEW a \in ArchivedFiles, NEW security \in BOOLEAN, StageFile(a, security)
  PROVE  ConfigInv'
  <1>1. /\ mgr.phase = "up" /\ mgr # Down /\ decodes(a) /\ CheckFile(mgr, RewriteFile(a, mgr.file, security))
        /\ cfgStaged' = RenderOnto(cfgFile, RewriteFile(a, mgr.file, security))
        /\ UNCHANGED <<cfgFile, cfgOlder, mgr, acked, cfgFirst>>
    BY DEF StageFile, Down
  <1>2. MgrOK BY <1>1 DEF ConfigInv
  <1>3. PICK c : c = RewriteFile(a, mgr.file, security) OBVIOUS
  <1>4. Accepted(c)
    <2>1. PICK current : current = mgr.file OBVIOUS
    <2>2. Accepted(current) BY <1>2, <2>1 DEF MgrOK
    <2> QED BY <1>1, <1>3, <2>1, <2>2, RewrittenIsAccepted
  <1>5. cfgStaged' = render(c, cfgFirst.others)
    <2>1. FileOK(cfgFile) BY DEF ConfigInv, OnDisk
    <2> QED BY <1>1, <1>3, <2>1 DEF RenderOnto, FileOK
  <1>6. decode(cfgStaged', "") = c BY <1>4, <1>5, RenderIsOK
  <1>7. Accepted(c)' BY <1>1, <1>4 DEF Accepted
  <1>8. MgrOK'
    <2>1. \A x : Accepted(x)' <=> Accepted(x) BY <1>1, SameFiles
    <2> QED BY <1>1, <1>2, <2>1 DEF MgrOK, MgrShape, Loading
  <1>9. cfgOlder' = {} BY <1>1 DEF ConfigInv
  <1> QED BY <1>1, <1>5, <1>6, <1>7, <1>8, <1>9, SameFiles DEF ConfigInv

\* PlaceStaged: the settings of the backup are what a start may find.
LEMMA PlaceStagedKeeps == ASSUME ConfigInv, PlaceStaged PROVE ConfigInv'
  <1>1. /\ mgr' = Down /\ cfgStaged # Empty /\ cfgFile' = cfgStaged /\ cfgStaged' = Empty
        /\ acked' = {decode(cfgStaged, "")} /\ cfgOlder' = {} /\ cfgFirst' = cfgFirst
    BY DEF PlaceStaged
  <1>2. PICK c : c = decode(cfgStaged, "") OBVIOUS
  <1>3. Accepted(c) /\ cfgStaged = render(c, cfgFirst.others) BY <1>1, <1>2 DEF ConfigInv
  <1>4. PICK d : d = cfgFile' OBVIOUS
  <1>5. decodes(d) /\ decode(d, "") = c /\ FileOK(d) BY <1>1, <1>3, <1>4, RenderIsOK
  <1>6. OnDisk' = {d} BY <1>1, <1>4 DEF OnDisk
  <1>7. \A x \in OnDisk' : FileOK(x)' /\ (acked' # {} => Kept(x)') BY <1>1, <1>2, <1>5, <1>6 DEF FileOK, Kept
  <1>8. \A x \in acked' : x["key"] # "" BY <1>1, <1>2, <1>3 DEF Accepted, Sound
  <1>9. /\ DOMAIN cfgFirst.others' \cap Settings = {}
        /\ cfgFirst.others' = [n \in DOMAIN cfgFirst.others' |-> <<cfgFirst.others'[n][1]>>]
    BY <1>1 DEF ConfigInv
  <1> QED BY <1>1, <1>7, <1>8, <1>9 DEF ConfigInv

\* A step that leaves the settings alone.
LEMMA ConfigStutters == ASSUME ConfigInv, UNCHANGED configVars PROVE ConfigInv'
  <1>1. UNCHANGED <<cfgFile, cfgOlder, mgr, cfgStaged, acked, cfgFirst>> BY DEF configVars
  <1>2. mgr' # Down => MgrOK'
    <2>1. \A x : Accepted(x)' <=> Accepted(x) BY <1>1, SameFiles
    <2> QED BY <1>1, <2>1 DEF ConfigInv, MgrOK, MgrShape, Loading
  <1>3. mgr' = Down \/ mgr'.phase # "renamed" => cfgOlder' = {} BY <1>1 DEF ConfigInv
  <1> QED BY <1>1, <1>2, <1>3, ProcessSteps

\* Every step of the settings keeps the invariant.
LEMMA ConfigStep == ASSUME ConfigInv, ConfigNext PROVE ConfigInv'
  <1>1. CASE \E env \in Environments : LoadFile(env) BY <1>1, LoadFileKeeps
  <1>2. CASE \E page \in Pages, s \in BOOLEAN : UpdateFile(page, s) BY <1>2, UpdateFileKeeps
  <1>3. CASE \E power \in BOOLEAN : ConfigDies(power) BY <1>3, ConfigDiesKeeps
  <1>4. CASE \E a \in ArchivedFiles, security \in BOOLEAN : StageFile(a, security) BY <1>4, StageFileKeeps
  <1>5. CASE SaveWrites \/ SaveAborts \/ SaveRenames \/ SaveSyncs \/ TellSubscribers \/ PlaceStaged
    BY <1>5, SaveWritesKeeps, SaveAbortsKeeps, SaveRenamesKeeps, SaveSyncsKeeps, TellKeeps, PlaceStagedKeeps
  <1> QED BY <1>1, <1>2, <1>3, <1>4, <1>5, Zenon DEF ConfigNext

\* The other parts' steps leave the settings alone.
LEMMA OthersLeaveConfig ==
  ASSUME BackupNext \/ SessionsNext \/ HostNext \/ ConnectionsNext \/ ScheduleNext \/ NoticesNext \/ HealthNext
  PROVE  UNCHANGED configVars
  <1>1. CASE BackupNext BY <1>1, Zenon DEF BackupNext, BackupOnly
  <1>2. CASE SessionsNext BY <1>2, Zenon DEF SessionsNext, SessionsOnly
  <1>3. CASE HostNext BY <1>3, Zenon DEF HostNext, HostOnly
  <1>4. CASE ConnectionsNext BY <1>4, Zenon DEF ConnectionsNext, ConnectionsOnly, Asking
  <1>5. CASE ScheduleNext BY <1>5, Zenon DEF ScheduleNext, ScheduleOnly
  <1>6. CASE NoticesNext BY <1>6, Zenon DEF NoticesNext, NoticesOnly
  <1>7. CASE HealthNext BY <1>7, Zenon DEF HealthNext, HealthOnly
  <1> QED BY <1>1, <1>2, <1>3, <1>4, <1>5, <1>6, <1>7

\* The invariant gives the property, in the terms of Config.
LEMMA InvGivesConfig == ConfigInv => ConfigHolds
  <1> SUFFICES ASSUME ConfigInv PROVE ConfigHolds OBVIOUS
  <1>1. NothingLost BY DEF ConfigInv, NothingLost, Kept
  <1>2. FileStandsAlone BY DEF ConfigInv, FileStandsAlone, FileOK
  <1>3. InStep
    <2> SUFFICES ASSUME mgr.phase = "up"
                 PROVE  /\ mgr.effective = apply(mgr.env, decode(cfgFile, "")) /\ mgr.told = mgr.effective
                        /\ Validate(mgr.effective) = {}
      BY DEF InStep
    <2>1. mgr # Down BY DEF Down
    <2>2. MgrOK BY <2>1 DEF ConfigInv
    <2> QED BY <2>2 DEF MgrOK, Loading
  <1> QED BY <1>1, <1>2, <1>3 DEF ConfigHolds

\* In every behaviour of the service, for whatever files, environments and requests:
\* no save, failed or cut off, loses what a start may find or brings config.xml what
\* it must not hold, and between two saves everything agrees with it (LoadFile,
\* Update, writeFileAtomic, RenderOnto).
THEOREM ConfigStandsAlone == ServicesSpec => []ConfigHolds
  <1>1. ServicesInit => ConfigInv BY ConfigInitially DEF ServicesInit
  <1>2. ConfigInv /\ [ServicesNext]_servicesVars => ConfigInv'
    <2> SUFFICES ASSUME ConfigInv, [ServicesNext]_servicesVars PROVE ConfigInv' OBVIOUS
    <2>1. CASE ConfigNext BY <2>1, ConfigStep
    <2>2. CASE BackupNext \/ SessionsNext \/ HostNext \/ ConnectionsNext \/ ScheduleNext \/ NoticesNext \/ HealthNext
      BY <2>2, OthersLeaveConfig, ConfigStutters
    <2>3. CASE UNCHANGED servicesVars BY <2>3, ConfigStutters DEF servicesVars
    <2> QED BY <2>1, <2>2, <2>3 DEF ServicesNext
  <1> QED BY <1>1, <1>2, InvGivesConfig, PTL DEF ServicesSpec

\* No change of the settings shuts out the one who makes it, and none leaves a
\* config.xml that a start refuses or has lost (handleHostConfigUpdate of settings.go,
\* Update of config.go).
THEOREM SettingsStand == ServicesSpec => []SettingsHold
  BY CallerStaysIn, ConfigStandsAlone, PTL DEF SettingsHold
=============================================================================
