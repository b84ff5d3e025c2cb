--------------------------- MODULE ServicesProofs ---------------------------
(***************************************************************************)
(* Proofs about the other parts of the service, each as a part of the      *)
(* specification of the whole: notifications, the scheduler, connections,  *)
(* health, and backups: a restore is whole, undoable, asked for and inert  *)
(* wherever the process dies.                                              *)
(***************************************************************************)
EXTENDS Services, FiniteSetTheorems, TLAPS

-----------------------------------------------------------------------------
(* Notifications: the inductive invariant.                                 *)

NoticeRec == [st : {"raised", "dropped", "dispatching", "dispatched", "failed"},
              todo : (SUBSET Conns) \cup {NotListed}]
SendRec == [m : Notices, c : Conns, at : {"deliver", "request", "connect", "hello", "auth", "data"},
            again : BOOLEAN, tls : BOOLEAN]
WireRec == [m : Notices, c : Conns, tls : BOOLEAN, what : {"message", "credentials"}]

NotifierTypes ==
  /\ notice \in [Notices -> NoticeRec]
  /\ active \subseteq Conns
  /\ sends \subseteq SendRec
  /\ wire \subseteq WireRec
  /\ due \subseteq Notices \X Conns
  /\ closed \in BOOLEAN /\ cut \in BOOLEAN
  /\ stopping \in {"no", "waits", "clean", "late"}

\* A send past the check of its settings goes the way of its kind, and is over
\* TLS from the step on at which its connection asks for that.
SendOK(s) ==
  /\ s.at # "deliver" => Sinks[s.c].sound
  /\ s.at \in {"connect", "hello", "auth", "data"} => Email(s.c)
  /\ s.at = "request" => ~Email(s.c)
  /\ s.at \in {"hello", "auth", "data"} /\ Sinks[s.c].encryption = "tls" => s.tls
  /\ s.at \in {"auth", "data"} /\ Sinks[s.c].encryption = "starttls" => s.tls

WireOK(w) ==
  Email(w.c) => /\ Sinks[w.c].encryption # "none" => w.tls
                /\ w.what = "credentials" => w.tls \/ Sinks[w.c].local

\* What a dispatch found enabled was tried, is being sent or is still to be sent.
Underway(m, c) ==
  \/ <<m, c>> \in tried
  \/ \E s \in sends : s.m = m /\ s.c = c
  \/ notice[m].st = "dispatching" /\ notice[m].todo # NotListed /\ c \in notice[m].todo

\* Nothing is cut off before the shutdown ended, and a shutdown that ended well
\* found nothing underway; nothing is accepted since it began.
StoppingOK ==
  /\ stopping \in {"no", "waits"} => ~cut /\ \A m \in Notices, c \in Conns : <<m, c>> \in due => Underway(m, c)
  /\ stopping # "no" => closed
  /\ stopping = "clean" => onlyDispatches /\ due \subseteq tried

NotifierInv ==
  /\ NotifierTypes
  /\ \A s \in sends : SendOK(s)
  /\ \A w \in wire : WireOK(w)
  /\ StoppingOK

-----------------------------------------------------------------------------
(* Notifications: every step keeps it.                                     *)

\* The connections are numbered from one: no list of them is the mark of a
\* message that is not listed yet.
LEMMA ListedApart == \A t \in SUBSET Conns : t # NotListed
  BY NotifierAssumption DEF Conns, NotListed

\* A service that was just started holds the invariant.
LEMMA NotifierInitially == NotifierInit => NotifierInv
  <1> SUFFICES ASSUME NotifierInit PROVE NotifierInv OBVIOUS
  <1>1. notice \in [Notices -> NoticeRec] BY DEF NotifierInit, NoticeRec
  <1>2. NotifierTypes BY <1>1 DEF NotifierInit, NotifierTypes
  <1>3. StoppingOK BY DEF NotifierInit, StoppingOK
  <1> QED BY <1>2, <1>3 DEF NotifierInit, NotifierInv

\* A send goes on to its next step.
LEMMA SendGoesOn ==
  ASSUME NotifierInv, NEW s \in sends, NEW t \in SendRec, SendOK(t), t.m = s.m, t.c = s.c,
         sends' = (sends \ {s}) \cup {t},
         UNCHANGED <<notice, active, due, tried, closed, cut, stopping>>,
         wire' \subseteq WireRec, \A w \in wire' : WireOK(w)
  PROVE  NotifierInv'
  <1>1. NotifierTypes' BY DEF NotifierInv, NotifierTypes
  <1>2. \A m \in Notices, c \in Conns : Underway(m, c) => Underway(m, c)' BY DEF Underway
  <1>3. StoppingOK' BY <1>2 DEF NotifierInv, StoppingOK, onlyDispatches
  <1>4. \A x \in sends' : SendOK(x) BY DEF NotifierInv
  <1>5. (\A x \in sends : SendOK(x))' BY <1>4 DEF SendOK, Email
  <1>6. (\A w \in wire : WireOK(w))' BY DEF WireOK, Email
  <1> QED BY <1>1, <1>3, <1>5, <1>6 DEF NotifierInv

\* A send ends.
LEMMA SendGoesAway ==
  ASSUME NotifierInv, NEW s \in sends, SendEnded(s), wire' \subseteq WireRec, \A w \in wire' : WireOK(w)
  PROVE  NotifierInv'
  <1>1. NotifierTypes' BY DEF NotifierInv, NotifierTypes, SendEnded
  <1>2. \A m \in Notices, c \in Conns : Underway(m, c) => Underway(m, c)' BY DEF Underway, SendEnded
  <1>3. StoppingOK' BY <1>2 DEF NotifierInv, StoppingOK, onlyDispatches, SendEnded
  <1>4. \A x \in sends' : SendOK(x) BY DEF NotifierInv, SendEnded
  <1>5. (\A x \in sends : SendOK(x))' BY <1>4 DEF SendOK, Email
  <1>6. (\A w \in wire : WireOK(w))' BY DEF WireOK, Email
  <1> QED BY <1>1, <1>3, <1>5, <1>6 DEF NotifierInv

\* What reaches a provider reaches it as its send is.
LEMMA ReachedOK ==
  ASSUME NotifierInv, NEW s \in sends, NEW what \in {"message", "credentials"},
         s.at \in {"request", "auth", "data"}, what = "credentials" => s.tls \/ Sinks[s.c].local
  PROVE  Reached(s, what) \in WireRec /\ WireOK(Reached(s, what))
  <1>1. s \in SendRec /\ SendOK(s) BY DEF NotifierInv, NotifierTypes
  <1>2. Reached(s, what) \in WireRec BY <1>1 DEF SendRec, WireRec, Reached
  <1>3. Reached(s, what).c = s.c /\ Reached(s, what).tls = s.tls /\ Reached(s, what).what = what BY DEF Reached
  <1>4. s.at = "request" => ~Email(s.c) BY <1>1 DEF SendOK
  <1>5. s.at \in {"data", "auth"} => Sinks[s.c].encryption \in {"none", "starttls", "tls"}
    BY <1>1, NotifierAssumption DEF SendOK, SendRec, Conns, Email
  <1>6. s.at \in {"data", "auth"} => (Sinks[s.c].encryption # "none" => s.tls) BY <1>1, <1>5 DEF SendOK
  <1> QED BY <1>2, <1>3, <1>4, <1>6 DEF WireOK

\* Accepting, listing and starting the sends of a message.
LEMMA NotifyKeeps == ASSUME NotifierInv, NEW m \in Notices, Notify(m) PROVE NotifierInv'
  <1> DEFINE x == notice'[m]
  <1>1. notice[m] \in NoticeRec BY DEF NotifierInv, NotifierTypes
  <1>2. x \in NoticeRec /\ x.st \in {"dropped", "dispatching"} /\ (closed => x.st = "dropped") /\ notice[m].st = "raised"
        /\ x.todo = notice[m].todo
    BY <1>1 DEF NotifierInv, NotifierTypes, NoticeRec, Notify
  <1>3. notice' = [notice EXCEPT ![m] = x] BY DEF NotifierInv, NotifierTypes, Notify
  <1> HIDE DEF x
  <1>4. NotifierTypes' BY <1>2, <1>3 DEF NotifierInv, NotifierTypes, Notify
  <1>5. \A k \in Notices, c \in Conns : Underway(k, c) => Underway(k, c)'
    BY <1>2, <1>3 DEF Underway, Notify, NotifierInv, NotifierTypes
  <1>6. StoppingOK' BY <1>2, <1>3, <1>5 DEF NotifierInv, NotifierTypes, StoppingOK, onlyDispatches, Notify
  <1> QED BY <1>4, <1>6 DEF NotifierInv, Notify, SendOK, WireOK, Email

(* Finding the connections that should hear of an event (notify.go: Notify)
   keeps the notifier's invariant. *)
LEMMA ListKeeps == ASSUME NotifierInv, NEW m \in Notices, List(m) PROVE NotifierInv'
  <1> DEFINE x == [notice[m] EXCEPT !.todo = active]
  <1>1. notice[m] \in NoticeRec BY DEF NotifierInv, NotifierTypes
  <1>2. x \in NoticeRec /\ x.st = "dispatching" /\ x.todo = active /\ active # NotListed
    BY <1>1, ListedApart DEF NotifierInv, NotifierTypes, NoticeRec, List
  <1>3. notice' = [notice EXCEPT ![m] = x] BY DEF List
  <1> HIDE DEF x
  <1>4. NotifierTypes' BY <1>2, <1>3 DEF NotifierInv, NotifierTypes, List
  <1>5. \A k \in Notices, c \in Conns : Underway(k, c) => Underway(k, c)'
    BY <1>2, <1>3 DEF Underway, List, NotifierInv, NotifierTypes
  <1>6. \A c \in active : Underway(m, c)' BY <1>2, <1>3 DEF Underway, NotifierInv, NotifierTypes
  <1>7. StoppingOK' BY <1>2, <1>3, <1>5, <1>6 DEF NotifierInv, NotifierTypes, StoppingOK, onlyDispatches, List
  <1> QED BY <1>4, <1>7 DEF NotifierInv, List, SendOK, WireOK, Email

(* Starting the goroutine of the next connection keeps it: the send is
   counted before it runs. *)
LEMMA SpawnKeeps == ASSUME NotifierInv, NEW m \in Notices, Spawn(m) PROVE NotifierInv'
  <1> PICK c \in notice[m].todo :
         /\ sends' = sends \cup {[m |-> m, c |-> c, at |-> "deliver", again |-> FALSE, tls |-> FALSE]}
         /\ notice' = [notice EXCEPT ![m].todo = @ \ {c}]
    BY DEF Spawn
  <1> DEFINE x == [notice[m] EXCEPT !.todo = @ \ {c}]
             s == [m |-> m, c |-> c, at |-> "deliver", again |-> FALSE, tls |-> FALSE]
  <1>1. notice[m] \in NoticeRec /\ notice[m].todo # NotListed BY DEF NotifierInv, NotifierTypes, Spawn
  <1>2. notice[m].todo \subseteq Conns BY <1>1 DEF NoticeRec
  <1>3. x \in NoticeRec /\ x.st = "dispatching" /\ x.todo = notice[m].todo \ {c} /\ x.todo # NotListed
    BY <1>1, <1>2, ListedApart DEF NoticeRec, Spawn
  <1>4. notice' = [notice EXCEPT ![m] = x] OBVIOUS
  <1>5. s \in SendRec /\ SendOK(s) /\ s.m = m /\ s.c = c BY <1>2 DEF SendRec, SendOK
  <1> HIDE DEF x, s
  <1>6. sends' = sends \cup {s} BY DEF s
  <1>7. NotifierTypes'
    <2>1. notice' \in [Notices -> NoticeRec] BY <1>3, <1>4 DEF NotifierInv, NotifierTypes
    <2>2. sends' \subseteq SendRec BY <1>5, <1>6 DEF NotifierInv, NotifierTypes
    <2>3. UNCHANGED <<active, wire, due, closed, cut, stopping>> BY DEF Spawn
    <2> QED BY <2>1, <2>2, <2>3 DEF NotifierInv, NotifierTypes
  <1>8. \A k \in Notices, d \in Conns : Underway(k, d) => Underway(k, d)'
    <2> TAKE k \in Notices, d \in Conns
    <2>1. CASE k = m /\ d = c BY <1>5, <1>6, <2>1 DEF Underway
    <2>2. CASE k # m \/ d # c BY <1>1, <1>3, <1>4, <1>6, <2>2 DEF Underway, Spawn, NotifierInv, NotifierTypes
    <2> QED BY <2>1, <2>2
  <1>9. StoppingOK' BY <1>3, <1>4, <1>8 DEF NotifierInv, NotifierTypes, StoppingOK, onlyDispatches, Spawn
  <1>10. \A z \in sends' : SendOK(z) BY <1>5, <1>6 DEF NotifierInv
  <1>11. (\A z \in sends : SendOK(z))' BY <1>10 DEF SendOK, Email
  <1> QED BY <1>7, <1>9, <1>11 DEF NotifierInv, Spawn, WireOK, Email

\* A dispatch that fails or is over has nothing left to send, or was cut off.
LEMMA DispatchOverKeeps ==
  ASSUME NotifierInv, NEW m \in Notices, ListFails(m) \/ DropRest(m) \/ DispatchEnds(m) PROVE NotifierInv'
  <1> DEFINE x == notice'[m]
  <1>1. notice[m] \in NoticeRec BY DEF NotifierInv, NotifierTypes
  <1>2. x \in NoticeRec /\ x.st \in {"failed", "dispatched"} /\ notice[m].st = "dispatching"
    BY <1>1 DEF NotifierInv, NotifierTypes, NoticeRec, ListFails, DropRest, DispatchEnds
  <1>3. notice' = [notice EXCEPT ![m] = x] BY DEF NotifierInv, NotifierTypes, ListFails, DropRest, DispatchEnds
  <1>4. cut \/ notice[m].todo \in {NotListed, {}} BY DEF ListFails, DropRest, DispatchEnds
  <1>5. UNCHANGED <<active, sends, wire, due, tried, closed, cut, stopping, toggles>>
    BY DEF ListFails, DropRest, DispatchEnds
  <1> HIDE DEF x
  <1>6. NotifierTypes' BY <1>2, <1>3, <1>5 DEF NotifierInv, NotifierTypes
  <1>7. ~cut => \A k \in Notices, c \in Conns : Underway(k, c) => Underway(k, c)'
    BY <1>2, <1>3, <1>4, <1>5 DEF Underway, NotifierInv, NotifierTypes
  <1>8. StoppingOK' BY <1>2, <1>3, <1>5, <1>7 DEF NotifierInv, NotifierTypes, StoppingOK, onlyDispatches
  <1> QED BY <1>5, <1>6, <1>8 DEF NotifierInv, SendOK, WireOK, Email

\* The steps of a send.
LEMMA SendStepKeeps ==
  ASSUME NotifierInv, NEW s \in sends,
         Deliver(s) \/ CutOff(s) \/ Connect(s) \/ (\E a \in Answers : Do(s, a))
         \/ \E o \in BOOLEAN : Hello(s, o) \/ Auth(s, o) \/ Data(s, o)
  PROVE  NotifierInv'
  <1>1. s \in SendRec /\ SendOK(s) BY DEF NotifierInv, NotifierTypes
  <1>2. wire \subseteq WireRec /\ \A w \in wire : WireOK(w) BY DEF NotifierInv, NotifierTypes
  <1>3. ASSUME NEW t \in SendRec, SendOK(t), t.m = s.m, t.c = s.c, sends' = (sends \ {s}) \cup {t},
               UNCHANGED <<notice, active, wire, due, tried, closed, cut, stopping, toggles>>
        PROVE  NotifierInv'
    <2>1. wire' = wire BY <1>3
    <2> HIDE <1>1
    <2> QED BY <1>2, <1>3, <2>1, SendGoesOn
  <1>4. ASSUME SendEnded(s), UNCHANGED wire PROVE NotifierInv'
    BY <1>2, <1>4, SendGoesAway
  <1>5. ASSUME NEW what \in {"message", "credentials"}, s.at \in {"request", "auth", "data"},
               what = "credentials" => s.tls \/ Sinks[s.c].local
        PROVE  wire \cup {Reached(s, what)} \subseteq WireRec /\ \A w \in wire \cup {Reached(s, what)} : WireOK(w)
    BY <1>2, <1>5, ReachedOK
  <1>6. CASE Deliver(s)
    <2>1. CASE ~validateSettings(s.c) /\ SendEnded(s) /\ UNCHANGED wire BY <1>4, <2>1
    <2>2. CASE validateSettings(s.c) /\ ~cut
      <3> DEFINE t == [s EXCEPT !.at = IF Email(s.c) THEN "connect" ELSE "request"]
      <3>1. t \in SendRec /\ SendOK(t) /\ t.m = s.m /\ t.c = s.c
        BY <1>1, <2>2 DEF SendRec, SendOK, validateSettings
      <3>2. sends' = (sends \ {s}) \cup {t} BY <1>6, <2>2 DEF Deliver, At, SendEnded
      <3>3. UNCHANGED <<notice, active, wire, due, tried, closed, cut, stopping, toggles>>
        BY <1>6, <2>2 DEF Deliver, At
      <3> QED BY <1>3, <3>1, <3>2, <3>3
    <2> QED BY <1>6, <2>1, <2>2 DEF Deliver
  <1>7. CASE CutOff(s) BY <1>4, <1>7 DEF CutOff
  <1>8. CASE Connect(s)
    <2> DEFINE t == [s EXCEPT !.at = "hello", !.tls = Encryption(s) = "tls"]
    <2>1. t \in SendRec /\ SendOK(t) /\ t.m = s.m /\ t.c = s.c
      BY <1>1, <1>8 DEF SendRec, SendOK, Connect, Encryption
    <2> QED BY <1>3, <1>8, <2>1 DEF Connect, Quiet
  <1>9. CASE \E a \in Answers : Do(s, a)
    <2> PICK a \in Answers : Do(s, a) BY <1>9
    <2>1. CASE a = "soon" /\ ~s.again
      <3> DEFINE t == [s EXCEPT !.again = TRUE]
      <3>1. t \in SendRec /\ SendOK(t) /\ t.m = s.m /\ t.c = s.c BY <1>1 DEF SendRec, SendOK
      <3> QED BY <1>3, <2>1, <3>1 DEF Do
    <2>2. CASE ~(a = "soon" /\ ~s.again)
      <3>1. SendEnded(s) /\ (wire' = wire \/ wire' = wire \cup {Reached(s, "message")}) /\ s.at = "request"
        BY <2>2 DEF Do
      <3>2. wire' \subseteq WireRec /\ \A w \in wire' : WireOK(w) BY <1>2, <1>5, <3>1
      <3> QED BY <3>1, <3>2, SendGoesAway
    <2> QED BY <2>1, <2>2
  <1>10. CASE \E o \in BOOLEAN : Hello(s, o)
    <2> PICK o \in BOOLEAN : Hello(s, o) BY <1>10
    <2>1. CASE startTLS(s, o) = "fails" BY <1>4, <2>1 DEF Hello
    <2>2. CASE startTLS(s, o) # "fails"
      <3> DEFINE t == [s EXCEPT !.at = "auth", !.tls = @ \/ startTLS(s, o) = "yes"]
      <3>1. t \in SendRec /\ SendOK(t) /\ t.m = s.m /\ t.c = s.c
        BY <1>1, <2>2 DEF SendRec, SendOK, Hello, Encryption, startTLS
      <3> QED BY <1>3, <2>2, <3>1 DEF Hello, Quiet
    <2> QED BY <2>1, <2>2
  <1>11. CASE \E o \in BOOLEAN : Auth(s, o)
    <2> PICK o \in BOOLEAN : Auth(s, o) BY <1>11
    <2> DEFINE t == [s EXCEPT !.at = "data"]
    <2>1. s.at = "auth" BY DEF Auth
    <2>2. t \in SendRec /\ SendOK(t) /\ t.m = s.m /\ t.c = s.c BY <1>1, <2>1 DEF SendRec, SendOK
    <2>3. CASE ~Sinks[s.c].user /\ At(s, "data") /\ Quiet /\ UNCHANGED wire BY <1>3, <2>2, <2>3 DEF At, Quiet
    <2>4. CASE Sinks[s.c].user /\ ~chooseAuth(s, o) /\ SendEnded(s) /\ UNCHANGED wire BY <1>4, <2>4
    <2>5. CASE /\ Sinks[s.c].user /\ chooseAuth(s, o)
               /\ At(s, "data") /\ wire' = wire \cup {Reached(s, "credentials")} /\ Quiet
      <3>1. wire' \subseteq WireRec /\ \A w \in wire' : WireOK(w) BY <1>5, <2>1, <2>5 DEF chooseAuth
      <3>2. UNCHANGED <<notice, active, due, tried, closed, cut, stopping>> BY <2>5 DEF Quiet
      <3>3. sends' = (sends \ {s}) \cup {t} BY <2>5 DEF At
      <3> HIDE DEF t
      <3> QED BY <2>2, <3>1, <3>2, <3>3, SendGoesOn
    <2> QED BY <2>3, <2>4, <2>5 DEF Auth
  <1>12. CASE \E o \in BOOLEAN : Data(s, o)
    <2>1. SendEnded(s) /\ (wire' = wire \/ wire' = wire \cup {Reached(s, "message")}) /\ s.at = "data"
      BY <1>12 DEF Data
    <2>2. wire' \subseteq WireRec /\ \A w \in wire' : WireOK(w) BY <1>2, <1>5, <2>1
    <2> QED BY <2>1, <2>2, SendGoesAway
  <1> QED BY <1>6, <1>7, <1>8, <1>9, <1>10, <1>11, <1>12

\* The shutdown and the person at the settings.
LEMMA ShutdownKeeps ==
  ASSUME NotifierInv, Shutdown \/ ShutdownDone \/ ShutdownLate PROVE NotifierInv'
  <1>1. UNCHANGED <<notice, active, sends, wire, due, tried>> BY DEF Shutdown, ShutdownDone, ShutdownLate
  <1>2. NotifierTypes' BY <1>1 DEF NotifierInv, NotifierTypes, Shutdown, ShutdownDone, ShutdownLate
  <1>3. \A m \in Notices, c \in Conns : Underway(m, c) => Underway(m, c)' BY <1>1 DEF Underway
  <1>4. CASE Shutdown BY <1>1, <1>3, <1>4 DEF NotifierInv, NotifierTypes, StoppingOK, onlyDispatches, Shutdown,
                        SendOK, WireOK, Email
  <1>5. CASE ShutdownDone
    <2>1. \A m \in Notices, c \in Conns : <<m, c>> \in due => <<m, c>> \in tried
      BY <1>5 DEF NotifierInv, StoppingOK, Underway, ShutdownDone, allDone
    <2>2. due \subseteq tried BY <2>1 DEF NotifierInv, NotifierTypes
    <2>3. StoppingOK' BY <1>1, <1>5, <2>2 DEF NotifierInv, StoppingOK, onlyDispatches, ShutdownDone, allDone
    <2> QED BY <1>1, <1>2, <2>3 DEF NotifierInv, SendOK, WireOK, Email
  <1>6. CASE ShutdownLate BY <1>1, <1>2, <1>6 DEF NotifierInv, StoppingOK, ShutdownLate, SendOK, WireOK, Email
  <1> QED BY <1>2, <1>4, <1>5, <1>6

(* Switching a connection on or off leaves the sends under way alone. *)
LEMMA ToggleKeeps == ASSUME NotifierInv, NEW c \in Conns, Toggle(c) PROVE NotifierInv'
  <1>1. NotifierTypes' BY DEF NotifierInv, NotifierTypes, Toggle
  <1> QED BY <1>1 DEF NotifierInv, StoppingOK, onlyDispatches, Underway, SendOK, WireOK, Email, Toggle

\* A step of any other part.
LEMMA NotifierStutters == ASSUME NotifierInv, UNCHANGED noticeVars PROVE NotifierInv'
  BY DEF NotifierInv, NotifierTypes, noticeVars, StoppingOK, onlyDispatches, Underway, SendOK, WireOK, Email

(* Every step of the notifier keeps its invariant. *)
LEMMA NotifierStep == ASSUME NotifierInv, NoticesNext PROVE NotifierInv'
  <1>1. CASE \E m \in Notices : Notify(m) BY <1>1, NotifyKeeps
  <1>2. CASE \E m \in Notices : List(m) BY <1>2, ListKeeps
  <1>3. CASE \E m \in Notices : Spawn(m) BY <1>3, SpawnKeeps
  <1>4. CASE \E m \in Notices : ListFails(m) \/ DropRest(m) \/ DispatchEnds(m) BY <1>4, DispatchOverKeeps
  <1>5. CASE \E s \in sends : \/ Deliver(s) \/ CutOff(s) \/ Connect(s) \/ (\E a \in Answers : Do(s, a))
                             \/ \E o \in BOOLEAN : Hello(s, o) \/ Auth(s, o) \/ Data(s, o)
    BY <1>5, SendStepKeeps
  <1>6. CASE Shutdown \/ ShutdownDone \/ ShutdownLate BY <1>6, ShutdownKeeps
  <1>7. CASE \E c \in Conns : Toggle(c) BY <1>7, ToggleKeeps
  <1> QED BY <1>1, <1>2, <1>3, <1>4, <1>5, <1>6, <1>7, Zenon DEF NoticesNext

\* The other parts of the service leave the notifications alone.
LEMMA OthersLeaveNotices ==
  BackupNext \/ SessionsNext \/ HostNext \/ ConnectionsNext \/ ScheduleNext \/ HealthNext \/ ConfigNext
    => UNCHANGED noticeVars
  <1>1. BackupNext => UNCHANGED noticeVars BY Zenon DEF BackupNext, BackupOnly
  <1>2. SessionsNext => UNCHANGED noticeVars BY Zenon DEF SessionsNext, SessionsOnly
  <1>3. HostNext => UNCHANGED noticeVars BY Zenon DEF HostNext, HostOnly
  <1>4. ConnectionsNext => UNCHANGED noticeVars BY Zenon DEF ConnectionsNext, ConnectionsOnly, Asking
  <1>5. ScheduleNext => UNCHANGED noticeVars BY Zenon DEF ScheduleNext, ScheduleOnly
  <1>6. HealthNext => UNCHANGED noticeVars BY Zenon DEF HealthNext, HealthOnly
  <1>7. ConfigNext => UNCHANGED noticeVars BY Zenon DEF ConfigNext, ConfigOnly
  <1> QED BY <1>1, <1>2, <1>3, <1>4, <1>5, <1>6, <1>7

\* A message that was accepted is sent, and as its connection asks: when the
\* shutdown reports success, every connection that was enabled when a message
\* was dispatched has been tried, and nothing went out in the clear that was to
\* be encrypted, whatever the servers offer, how many messages and connections
\* there are, and however connections are switched meanwhile (Notify, dispatch,
\* sendEmail, chooseAuth, Shutdown).
THEOREM NotificationsHold == ServicesSpec => []SendsHold
  <1>1. ServicesInit => NotifierInv BY NotifierInitially DEF ServicesInit
  <1>2. NotifierInv /\ [ServicesNext]_servicesVars => NotifierInv'
    <2> SUFFICES ASSUME NotifierInv, [ServicesNext]_servicesVars PROVE NotifierInv' OBVIOUS
    <2>1. CASE NoticesNext BY <2>1, NotifierStep
    <2>2. CASE UNCHANGED noticeVars BY <2>2, NotifierStutters
    <2>3. CASE UNCHANGED servicesVars BY <2>2, <2>3 DEF servicesVars
    <2> QED BY <2>1, <2>2, <2>3, OthersLeaveNotices DEF ServicesNext
  <1>3. NotifierInv => SendsHold
    BY DEF NotifierInv, StoppingOK, WireOK, SendsHold, AcceptedIsTried, SentAsAsked
  <1> QED BY <1>1, <1>2, <1>3, PTL DEF ServicesSpec

-----------------------------------------------------------------------------
(* The scheduler: the inductive invariant.                                 *)

Time == Int \cup {NoTime}
TaskRec == [loaded : BOOLEAN, last : Time, next : Time, iv : Int]
RowRec == [last : Time, next : Time, iv : Int]

SchedTypes ==
  /\ interval \in Intervals
  /\ task \in TaskRec
  /\ row \in RowRec
  /\ bootUntil \in Int
  /\ command \in {"none", "queued", "running"}
  /\ checked \in BOOLEAN /\ up \in BOOLEAN
  /\ waited \in Nat /\ waited <= LongAgo

\* The longer it was waited for, the nearer the next run has come: the last run
\* lies back as long as was waited, but for the minute it takes to notice a
\* change, or the run's own time does where nothing has run yet.
Nearing ==
  /\ task.loaded
  /\ task.last # NoTime => waited + task.last <= 1
  /\ task.last = NoTime => task.next # NoTime /\ waited + task.next <= interval + 1

\* Looked at and not queued: the next run is still to come, or the grace holds.
NotYetDue ==
  /\ task.last # NoTime => task.next = task.last + interval
  /\ command = "none" => (task.next # NoTime /\ task.next > 0) \/ bootUntil > 0

SchedInv ==
  /\ SchedTypes
  /\ waited > 0 => interval > 0
  /\ waited > 1 /\ ~checked => Nearing
  /\ waited > 0 /\ checked => Nearing /\ NotYetDue

-----------------------------------------------------------------------------
(* The scheduler: what its operators do.                                   *)

\* A clock that moves on takes from every time alike, and never from no time.
LEMMA LaterMoves ==
  ASSUME NEW t \in Time, NEW d \in Int
  PROVE  /\ Later(t, d) \in Time
         /\ Later(t, d) = NoTime <=> t = NoTime
         /\ t # NoTime => Later(t, d) <= t - d \/ Later(t, d) = -LongAgo
  BY SchedulerConstants DEF Later, Time

\* The same for a task's state and for what is stored of it.
LEMMA ShiftedMoves ==
  ASSUME NEW d \in Int
  PROVE  /\ \A t \in TaskRec : /\ Shifted(t, d) \in TaskRec
                               /\ Shifted(t, d).loaded = t.loaded
                               /\ Shifted(t, d).last = Later(t.last, d)
                               /\ Shifted(t, d).next = Later(t.next, d)
         /\ \A r \in RowRec : Shifted(r, d) \in RowRec
  <1>1. ASSUME NEW t \in TaskRec
        PROVE  /\ Shifted(t, d) \in TaskRec
               /\ Shifted(t, d).loaded = t.loaded
               /\ Shifted(t, d).last = Later(t.last, d)
               /\ Shifted(t, d).next = Later(t.next, d)
    <2>1. Later(t.last, d) \in Time /\ Later(t.next, d) \in Time BY LaterMoves DEF TaskRec
    <2> QED BY <2>1 DEF Shifted, TaskRec
  <1>2. ASSUME NEW r \in RowRec PROVE Shifted(r, d) \in RowRec
    <2>1. Later(r.last, d) \in Time /\ Later(r.next, d) \in Time BY LaterMoves DEF RowRec
    <2> QED BY <2>1 DEF Shifted, RowRec
  <1> QED BY <1>1, <1>2

\* The next run of an enabled task is a time within its interval, and no later
\* than the one there was.
LEMMA NextExecutionBounds ==
  ASSUME NEW st \in TaskRec, NEW iv \in Nat, NEW x, x = nextExecution(st, iv)
  PROVE  /\ x \in TaskRec /\ x.loaded = st.loaded
         /\ iv > 0 /\ st.last # NoTime => x.last # NoTime /\ x.last <= 0 /\ x.last <= st.last /\ x.next = x.last + iv
         /\ iv > 0 /\ st.last = NoTime => /\ x.last = NoTime /\ x.next # NoTime /\ x.next <= iv
                                          /\ st.next # NoTime => x.next <= st.next
  <1>1. st.last \in Time /\ st.next \in Time /\ st.iv \in Int BY DEF TaskRec
  <1>2. CASE iv = 0
    <2>1. x = [st EXCEPT !.iv = iv, !.next = NoTime] BY <1>2 DEF nextExecution
    <2>2. NoTime \in Time /\ iv \in Int BY DEF Time
    <2>3. x \in TaskRec /\ x.loaded = st.loaded BY <2>1, <2>2 DEF TaskRec
    <2> QED BY <1>2, <2>3
  <1>3. CASE iv # 0 /\ st.last # NoTime
    <2> DEFINE l == Least(st.last, 0)
    <2>1. l \in Int /\ l <= 0 /\ l <= st.last BY <1>1, <1>3 DEF Least, Time
    <2>2. x = [st EXCEPT !.iv = iv, !.last = l, !.next = l + iv] BY <1>3 DEF nextExecution
    <2> HIDE DEF l
    <2>3. l \in Time /\ l + iv \in Time /\ l # NoTime /\ iv \in Int BY <2>1, SchedulerConstants DEF Time
    <2>4. x \in TaskRec /\ x.loaded = st.loaded /\ x.last = l /\ x.next = l + iv BY <2>2, <2>3 DEF TaskRec
    <2> QED BY <1>3, <2>1, <2>3, <2>4
  <1>4. CASE iv # 0 /\ st.last = NoTime
    <2> DEFINE n == IF st.next = NoTime THEN iv ELSE Least(st.next, iv)
    <2>1. n \in Int /\ n <= iv /\ (st.next # NoTime => n <= st.next) BY <1>1 DEF Least, Time
    <2>2. x = [st EXCEPT !.iv = iv, !.next = n] BY <1>4 DEF nextExecution
    <2> HIDE DEF n
    <2>3. n \in Time /\ n # NoTime /\ iv \in Int BY <2>1, SchedulerConstants DEF Time
    <2>4. x \in TaskRec /\ x.loaded = st.loaded /\ x.last = st.last /\ x.next = n BY <2>2, <2>3 DEF TaskRec
    <2> QED BY <1>4, <2>1, <2>3, <2>4
  <1> QED BY <1>2, <1>3, <1>4

\* What is loaded is a task's state, and what is stored of one is a row.
LEMMA TaskTypes ==
  ASSUME SchedTypes
  PROVE  /\ loadTasks \in TaskRec /\ loadTasks.loaded
         /\ task.loaded => loadTasks = task
         /\ recordTaskRun \in TaskRec
         /\ \A t \in TaskRec : storedTask(t) \in RowRec
         /\ interval \in Nat
  <1>1. loadTasks \in TaskRec /\ loadTasks.loaded BY DEF loadTasks, SchedTypes, TaskRec, RowRec
  <1>2. interval \in Nat BY SchedulerConstants DEF SchedTypes
  <1>3. [loadTasks EXCEPT !.last = 0] \in TaskRec BY <1>1 DEF TaskRec, Time
  <1>4. recordTaskRun \in TaskRec BY <1>2, <1>3, NextExecutionBounds DEF recordTaskRun
  <1> QED BY <1>1, <1>2, <1>4 DEF loadTasks, storedTask, TaskRec, RowRec

-----------------------------------------------------------------------------
(* The scheduler: every step keeps the invariant.                          *)

(* The scheduler starts in its invariant: nothing has waited yet. *)
LEMMA SchedInitially == SchedInit => SchedInv
  <1> SUFFICES ASSUME SchedInit PROVE SchedInv OBVIOUS
  <1>1. task \in TaskRec /\ row \in RowRec BY DEF SchedInit, NotLoaded, Fresh, TaskRec, RowRec, Time
  <1>2. checked \in BOOLEAN /\ up \in BOOLEAN BY Zenon DEF SchedInit
  <1>3. /\ interval \in Intervals /\ command \in {"none", "queued", "running"}
        /\ bootUntil \in Int /\ waited = 0 /\ waited \in Nat /\ waited <= LongAgo
    BY SchedulerConstants DEF SchedInit
  <1>4. SchedTypes BY <1>1, <1>2, <1>3 DEF SchedTypes
  <1> QED BY <1>3, <1>4 DEF SchedInv

(* A tick of the scheduler (checkSchedule) keeps the invariant: what is due
   starts, the rest has waited less than its interval. *)
LEMMA CheckScheduleKeeps == ASSUME SchedInv, CheckSchedule PROVE SchedInv'
  <1> PICK st : st = nextExecution(loadTasks, interval) OBVIOUS
  <1>1. SchedTypes /\ interval \in Nat /\ waited \in Nat BY TaskTypes DEF SchedInv, SchedTypes
  <1>2. st \in TaskRec /\ st.loaded BY <1>1, TaskTypes, NextExecutionBounds
  <1>3. task' = st /\ checked' /\ ~checked /\ UNCHANGED <<interval, bootUntil, up, waited>>
        /\ command' = (IF effectiveNext(st) /\ command = "none" THEN "queued" ELSE command)
        /\ row' = (IF storedTask(st) # storedTask(loadTasks) THEN storedTask(st) ELSE row)
    BY DEF CheckSchedule
  <1>4. SchedTypes'
    <2>1. row' \in RowRec BY <1>1, <1>2, <1>3, TaskTypes DEF SchedTypes
    <2>2. command' \in {"none", "queued", "running"} BY <1>1, <1>3 DEF SchedTypes
    <2> QED BY <1>1, <1>2, <1>3, <2>1, <2>2 DEF SchedTypes
  <1>5. ASSUME waited > 0 PROVE Nearing' /\ NotYetDue'
    <2>1. interval > 0 /\ (waited > 1 => Nearing) BY <1>3, <1>5 DEF SchedInv
    <2>2. waited > 1 => loadTasks = task BY <1>1, <2>1, TaskTypes DEF Nearing
    <2>3. loadTasks \in TaskRec BY <1>1, TaskTypes
    <2>4. /\ loadTasks.last # NoTime => /\ st.last # NoTime /\ st.last <= 0 /\ st.last <= loadTasks.last
                                        /\ st.next = st.last + interval
          /\ loadTasks.last = NoTime => /\ st.last = NoTime /\ st.next # NoTime /\ st.next <= interval
                                        /\ loadTasks.next # NoTime => st.next <= loadTasks.next
      <3> PICK t : t = loadTasks OBVIOUS
      <3>1. st = nextExecution(t, interval) OBVIOUS
      <3>2. t \in TaskRec BY <2>3
      <3>3. interval \in Nat /\ interval > 0 BY <1>1, <2>1
      <3>4. t.last # NoTime => st.last # NoTime /\ st.last <= 0 /\ st.last <= t.last /\ st.next = st.last + interval
        BY <3>1, <3>2, <3>3, NextExecutionBounds
      <3>5. t.last = NoTime => /\ st.last = NoTime /\ st.next # NoTime /\ st.next <= interval
                               /\ t.next # NoTime => st.next <= t.next
        BY <3>1, <3>2, <3>3, NextExecutionBounds
      <3> QED BY <3>4, <3>5
    <2>5. st.last \in Time /\ st.next \in Time /\ task.last \in Time /\ task.next \in Time
      BY <1>1, <1>2 DEF TaskRec, SchedTypes
    <2>6. st.next # NoTime BY <1>1, <2>4, <2>5, SchedulerConstants DEF Time
    <2>7. st.last # NoTime => waited + st.last <= 1
      <3>1. CASE waited = 1 BY <2>4, <2>5, <3>1 DEF Time
      <3>2. CASE waited > 1 BY <1>1, <2>1, <2>2, <2>4, <2>5, <3>2 DEF Nearing, Time
      <3> QED BY <1>1, <1>5, <3>1, <3>2
    <2>8. st.last = NoTime => waited + st.next <= interval + 1
      <3>1. CASE waited = 1 BY <1>1, <2>4, <2>5, <2>6, <3>1 DEF Time
      <3>2. CASE waited > 1 BY <1>1, <2>1, <2>2, <2>4, <2>5, <2>6, <3>2 DEF Nearing, Time
      <3> QED BY <1>1, <1>5, <3>1, <3>2
    <2>9. Nearing' BY <1>2, <1>3, <2>6, <2>7, <2>8 DEF Nearing
    <2>10. command' = "none" => st.next > 0 \/ bootUntil > 0
      BY <1>1, <1>3, <2>5, <2>6 DEF effectiveNext, SchedTypes, Time
    <2>11. NotYetDue' BY <1>3, <2>4, <2>6, <2>10 DEF NotYetDue
    <2> QED BY <2>9, <2>11
  <1>6. waited > 0 => interval > 0 BY DEF SchedInv
  <1> QED BY <1>3, <1>4, <1>5, <1>6 DEF SchedInv

\* The waiting begins anew.
LEMMA WaitsAnew == ASSUME SchedTypes', waited' = 0 PROVE SchedInv'
  BY DEF SchedInv

(* A run that begins, ends, fails or is aborted keeps the invariant: the wait
   stands still while the task runs and begins anew after it. *)
LEMMA RunKeeps ==
  ASSUME SchedInv, LoadFails \/ Starts \/ RunByHand \/ RunEnds \/ RunAborted \/ SaveFails PROVE SchedInv'
  <1>1. SchedTypes BY DEF SchedInv
  <1>2. CASE LoadFails BY <1>1, <1>2, WaitsAnew, SchedulerConstants DEF LoadFails, SchedTypes
  <1>3. CASE Starts \/ RunByHand
    <2>1. SchedTypes' BY <1>1, <1>3 DEF Starts, RunByHand, SchedTypes
    <2>2. command' # "none" /\ UNCHANGED <<interval, task, waited, checked, bootUntil>> BY <1>3 DEF Starts, RunByHand
    <2> QED BY <2>1, <2>2 DEF SchedInv, Nearing, NotYetDue
  <1>4. CASE RunEnds \/ SaveFails
    <2>1. recordTaskRun \in TaskRec /\ storedTask(recordTaskRun) \in RowRec BY <1>1, TaskTypes
    <2>2. SchedTypes' BY <1>1, <1>4, <2>1, SchedulerConstants DEF RunEnds, SaveFails, SchedTypes
    <2> QED BY <1>4, <2>2, WaitsAnew DEF RunEnds, SaveFails
  <1>5. CASE RunAborted BY <1>1, <1>5, WaitsAnew, SchedulerConstants DEF RunAborted, SchedTypes
  <1> QED BY <1>2, <1>3, <1>4, <1>5

\* A clock that moves on leaves every time a time.
LEMMA ShiftTypes ==
  ASSUME SchedTypes, NEW d \in Int, task' = Shifted(task, d), row' = Shifted(row, d), bootUntil' = Later(bootUntil, d)
  PROVE  task' \in TaskRec /\ row' \in RowRec /\ bootUntil' \in Int
  <1>1. bootUntil # NoTime /\ bootUntil \in Time BY SchedulerConstants DEF SchedTypes, Time
  <1>2. bootUntil' \in Int BY <1>1, LaterMoves DEF Time
  <1> QED BY <1>2, ShiftedMoves DEF SchedTypes

(* A minute that passes between two ticks keeps the invariant: a task that
   falls due is seen by the next tick. *)
LEMMA MinuteKeeps == ASSUME SchedInv, Minute PROVE SchedInv'
  <1>1. SchedTypes /\ interval \in Nat /\ waited \in Nat BY TaskTypes DEF SchedInv, SchedTypes
  <1>2. UNCHANGED <<interval, command, up>> /\ ~checked' BY DEF Minute
  <1>3. waited' \in Nat /\ waited' <= LongAgo /\ waited' <= waited + 1 /\ (waited' > 0 => interval > 0 /\ up)
    BY <1>1, SchedulerConstants DEF Minute, Least, SchedTypes
  <1>4. SchedTypes'
    <2>1. task' \in TaskRec /\ row' \in RowRec /\ bootUntil' \in Int BY <1>1, ShiftTypes DEF Minute
    <2> QED BY <1>1, <1>2, <1>3, <2>1 DEF SchedTypes, Minute
  <1>5. ASSUME waited' > 1 PROVE Nearing'
    <2>1. waited > 0 BY <1>1, <1>3, <1>5
    <2>2. checked BY <1>1, <1>3, <1>5 DEF Minute
    <2>3. Nearing BY <2>1, <2>2 DEF SchedInv
    <2>4. task \in TaskRec /\ task.last \in Time /\ task.next \in Time BY <1>1 DEF SchedTypes, TaskRec
    <2>5. task'.loaded = task.loaded /\ task'.last = Later(task.last, 1) /\ task'.next = Later(task.next, 1)
      BY <2>4, ShiftedMoves DEF Minute
    <2>6. /\ task'.last = NoTime <=> task.last = NoTime
          /\ task'.last \in Time
          /\ task.last # NoTime => task'.last <= task.last - 1 \/ task'.last = -LongAgo
      BY <2>4, <2>5, LaterMoves
    <2>7. /\ task'.next = NoTime <=> task.next = NoTime
          /\ task'.next \in Time
          /\ task.next # NoTime => task'.next <= task.next - 1 \/ task'.next = -LongAgo
      BY <2>4, <2>5, LaterMoves
    <2>8. task'.last # NoTime => waited' + task'.last <= 1
      BY <1>1, <1>3, <2>3, <2>4, <2>6, SchedulerConstants DEF Nearing, Time
    <2>9. task'.last = NoTime => task'.next # NoTime /\ waited' + task'.next <= interval + 1
      BY <1>1, <1>3, <2>3, <2>4, <2>6, <2>7, SchedulerConstants DEF Nearing, Time
    <2> QED BY <1>2, <2>3, <2>5, <2>8, <2>9 DEF Nearing
  <1> QED BY <1>2, <1>3, <1>4, <1>5 DEF SchedInv

(* A clock that is turned, a changed interval, a stop and a start keep the
   invariant: the waiting begins anew. *)
LEMMA ChangeKeeps ==
  ASSUME SchedInv,
         (\E d \in ClockShifts : ClockTurned(d)) \/ (\E i \in Intervals : IntervalChanges(i)) \/ SchedulerDies \/ Boots
  PROVE  SchedInv'
  <1>1. SchedTypes BY DEF SchedInv
  <1>2. CASE \E d \in ClockShifts : ClockTurned(d)
    <2> PICK d \in ClockShifts : ClockTurned(d) BY <1>2
    <2>1. task' \in TaskRec /\ row' \in RowRec /\ bootUntil' \in Int BY <1>1, ShiftTypes, SchedulerConstants DEF ClockTurned
    <2> QED BY <1>1, <2>1, WaitsAnew, SchedulerConstants DEF ClockTurned, SchedTypes
  <1>3. CASE \E i \in Intervals : IntervalChanges(i)
    BY <1>1, <1>3, WaitsAnew, SchedulerConstants DEF IntervalChanges, SchedTypes
  <1>4. CASE SchedulerDies
    <2>1. NotLoaded \in TaskRec BY DEF NotLoaded, TaskRec, Time
    <2>2. up' \in BOOLEAN /\ checked' \in BOOLEAN BY <1>4, Zenon DEF SchedulerDies
    <2>3. /\ task' \in TaskRec /\ command' = "none" /\ waited' = 0
          /\ UNCHANGED <<interval, row, bootUntil>>
      BY <1>4, <2>1 DEF SchedulerDies
    <2>4. SchedTypes' BY <1>1, <2>2, <2>3, SchedulerConstants DEF SchedTypes
    <2> QED BY <2>3, <2>4, WaitsAnew
  <1>5. CASE Boots
    <2>1. up' \in BOOLEAN /\ checked' \in BOOLEAN BY <1>5, Zenon DEF Boots
    <2>2. bootUntil' = Grace /\ waited' = 0 /\ UNCHANGED <<interval, task, row, command>> BY <1>5 DEF Boots
    <2>3. SchedTypes' BY <1>1, <2>1, <2>2, SchedulerConstants DEF SchedTypes
    <2> QED BY <2>2, <2>3, WaitsAnew
  <1> QED BY <1>2, <1>3, <1>4, <1>5

\* A step of any other part.
LEMMA SchedStutters == ASSUME SchedInv, UNCHANGED schedVars PROVE SchedInv'
  BY DEF SchedInv, SchedTypes, schedVars, Nearing, NotYetDue

(* Every step of the scheduler keeps its invariant. *)
LEMMA SchedStep == ASSUME SchedInv, ScheduleNext PROVE SchedInv'
  <1>1. CASE LoadFails \/ Starts \/ RunByHand \/ RunEnds \/ RunAborted \/ SaveFails BY <1>1, RunKeeps
  <1>2. CASE (\E d \in ClockShifts : ClockTurned(d)) \/ (\E i \in Intervals : IntervalChanges(i)) \/ SchedulerDies \/ Boots
    BY <1>2, ChangeKeeps
  <1> QED BY <1>1, <1>2, CheckScheduleKeeps, MinuteKeeps, Zenon DEF ScheduleNext

\* The other parts of the service leave the scheduler alone.
LEMMA OthersLeaveScheduler ==
  BackupNext \/ SessionsNext \/ HostNext \/ ConnectionsNext \/ NoticesNext \/ HealthNext \/ ConfigNext
    => UNCHANGED schedVars
  <1>1. BackupNext => UNCHANGED schedVars BY Zenon DEF BackupNext, BackupOnly
  <1>2. SessionsNext => UNCHANGED schedVars BY Zenon DEF SessionsNext, SessionsOnly
  <1>3. HostNext => UNCHANGED schedVars BY Zenon DEF HostNext, HostOnly
  <1>4. ConnectionsNext => UNCHANGED schedVars BY Zenon DEF ConnectionsNext, ConnectionsOnly, Asking
  <1>5. NoticesNext => UNCHANGED schedVars BY Zenon DEF NoticesNext, NoticesOnly
  <1>6. HealthNext => UNCHANGED schedVars BY Zenon DEF HealthNext, HealthOnly
  <1>7. ConfigNext => UNCHANGED schedVars BY Zenon DEF ConfigNext, ConfigOnly
  <1> QED BY <1>1, <1>2, <1>3, <1>4, <1>5, <1>6, <1>7

\* A task is queued within its interval of the last run, restart, change of the
\* interval or of the clock, or when the start-up grace ends: for every interval
\* and grace, whatever the clock is set to, and however often the process starts
\* again, runs are asked for by hand, stored tasks cannot be read or runs end
\* unrecorded (checkSchedule, nextExecution, recordTaskRun).
THEOREM TasksRunOnTime == ServicesSpec => []OnTime
  <1>1. ServicesInit => SchedInv BY SchedInitially DEF ServicesInit
  <1>2. SchedInv /\ [ServicesNext]_servicesVars => SchedInv'
    <2> SUFFICES ASSUME SchedInv, [ServicesNext]_servicesVars PROVE SchedInv' OBVIOUS
    <2>1. CASE ScheduleNext BY <2>1, SchedStep
    <2>2. CASE UNCHANGED schedVars BY <2>2, SchedStutters
    <2>3. CASE UNCHANGED servicesVars BY <2>2, <2>3 DEF servicesVars
    <2> QED BY <2>1, <2>2, <2>3, OthersLeaveScheduler DEF ServicesNext
  <1>3. SchedInv => OnTime
    <2> SUFFICES ASSUME SchedInv, checked, command = "none", interval > 0, waited > 0, ~(bootUntil > 0)
                 PROVE  waited <= interval
      BY SchedulerConstants DEF OnTime, SchedInv, SchedTypes
    <2>1. Nearing /\ NotYetDue BY DEF SchedInv
    <2>2. task.last \in Time /\ task.next \in Time /\ interval \in Nat /\ waited \in Nat
      BY SchedulerConstants DEF SchedInv, SchedTypes, TaskRec
    <2> QED BY <2>1, <2>2 DEF Nearing, NotYetDue, Time
  <1> QED BY <1>1, <1>2, <1>3, PTL DEF ServicesSpec

-----------------------------------------------------------------------------
(* Connections: the inductive invariant.  Whatever is stored, asked for,   *)
(* or held by the library sync carries a secret that is at home.           *)

HomeServers   == {c \in ServerRec : AtHome(c)}
HomeArrs      == {c \in ArrRec : AtHome(c)}
HomeTautullis == {c \in TautulliRec : AtHome(c)}
SentRec       == {c \in [secret : Secrets, url : Urls, tls : BOOLEAN] : AtHome(c)}

Steps == {"ask", "save", "locked"}
ServerEdit   == [step : Steps, kind : {"server"}, id : ServerIds, was : ServerRec \cup {None}, force : BOOLEAN,
                 in : HomeServers]
ArrEdit      == [step : Steps, kind : {"arr"}, id : ArrIds, was : ArrRec \cup {None}, force : BOOLEAN,
                 in : HomeArrs]
TautulliEdit == [step : Steps, kind : {"tautulli"}, id : ServerIds, was : TautulliRec \cup {None}, force : BOOLEAN,
                 in : HomeTautullis]
EditRec == {NoEdit0} \cup ServerEdit \cup ArrEdit \cup TautulliEdit
SyncRec == [step : {"check", "list", "adopt"}, id : ServerIds, srv : HomeServers, mid : Machines]

ConnNames == {"server", "arr", "tautulli"} \X (ServerIds \cup ArrIds)
ReadFrom  == SUBSET (ConnNames \X {EndpointOf[u] : u \in Urls})
SweepRec  == [on : BOOLEAN, from : ReadFrom, changed : SUBSET ConnNames]
GroupRec  == [status : {"none", "pending", "queued", "failed", "review"}, from : ReadFrom,
              changed : SUBSET ConnNames, conns : SUBSET ConnNames]

RecordsHome ==
  /\ servers \in [ServerIds -> HomeServers \cup {None}]
  /\ arrs \in [ArrIds -> HomeArrs \cup {None}]
  /\ tauts \in [ServerIds -> HomeTautullis \cup {None}]
RequestsHome ==
  /\ edit \in [Editors -> EditRec]
  /\ sync \in SyncRec \cup {NoSync}
  /\ sent \in SentRec \cup {None}
ScansTyped ==
  /\ sweep \in SweepRec
  /\ group \in GroupRec

ConnInv == RecordsHome /\ RequestsHome /\ ScansTyped /\ ApprovedSinceChange

-----------------------------------------------------------------------------
(* Connections: what its operators do to secrets.                          *)

\* A record that is there is not the mark of none.
LEMMA HereIsStored ==
  /\ \A c \in HomeServers \cup {None} : c.here => c \in HomeServers
  /\ \A c \in HomeArrs \cup {None} : c.here => c \in HomeArrs
  /\ \A c \in HomeTautullis \cup {None} : c.here => c \in HomeTautullis
  BY DEF None

\* An identity, a confirmation and links say nothing of the secret.
LEMMA StaysHome ==
  /\ \A c \in HomeServers, m \in Machines : [c EXCEPT !.mid = m] \in HomeServers
  /\ \A c \in HomeArrs, b \in BOOLEAN : [c EXCEPT !.confirmed = b] \in HomeArrs
  /\ \A c \in HomeArrs, ids \in SUBSET ServerIds : [c EXCEPT !.links = ids] \in HomeArrs
  <1>1. ASSUME NEW c \in HomeServers, NEW m \in Machines PROVE [c EXCEPT !.mid = m] \in HomeServers
    <2> DEFINE x == [c EXCEPT !.mid = m]
    <2>1. x \in ServerRec /\ x.secret = c.secret /\ x.url = c.url /\ x.tls = c.tls BY DEF HomeServers, ServerRec
    <2> HIDE DEF x
    <2>2. x \in HomeServers BY <2>1 DEF HomeServers, AtHome
    <2> QED BY <2>2 DEF x
  <1>2. ASSUME NEW c \in HomeArrs, NEW b \in BOOLEAN PROVE [c EXCEPT !.confirmed = b] \in HomeArrs
    <2> DEFINE x == [c EXCEPT !.confirmed = b]
    <2>1. x \in ArrRec /\ x.secret = c.secret /\ x.url = c.url /\ x.tls = c.tls BY DEF HomeArrs, ArrRec
    <2> HIDE DEF x
    <2>2. x \in HomeArrs BY <2>1 DEF HomeArrs, AtHome
    <2> QED BY <2>2 DEF x
  <1>3. ASSUME NEW c \in HomeArrs, NEW ids \in SUBSET ServerIds PROVE [c EXCEPT !.links = ids] \in HomeArrs
    <2> DEFINE x == [c EXCEPT !.links = ids]
    <2>1. x \in ArrRec /\ x.secret = c.secret /\ x.url = c.url /\ x.tls = c.tls BY DEF HomeArrs, ArrRec
    <2> HIDE DEF x
    <2>2. x \in HomeArrs BY <2>1 DEF HomeArrs, AtHome
    <2> QED BY <2>2 DEF x
  <1> QED BY <1>1, <1>2, <1>3

\* A secret that was typed in is at home, one that is masked is not usable.
LEMMA TypedIsHome ==
  /\ \A c \in ServerRec : typed(c) \in ServerRec /\ (typed(c).secret # masked => AtHome(typed(c)))
  /\ \A c \in ArrRec : typed(c) \in ArrRec /\ (typed(c).secret # masked => AtHome(typed(c)))
  /\ \A c \in TautulliRec : typed(c) \in TautulliRec /\ (typed(c).secret # masked => AtHome(typed(c)))
  <1>1. ASSUME NEW c \in ServerRec PROVE typed(c) \in ServerRec /\ (typed(c).secret # masked => AtHome(typed(c)))
    <2> DEFINE s == [url |-> c.url, tls |-> c.tls]
    <2>1. s \in Secrets /\ s.url = c.url /\ s.tls = c.tls BY DEF ServerRec, Secrets
    <2> DEFINE x == [c EXCEPT !.secret = s]
    <2>2. x \in ServerRec /\ x.secret = s /\ x.url = c.url /\ x.tls = c.tls BY <2>1 DEF ServerRec
    <2>3. (typed(c) = c /\ c.secret = masked) \/ typed(c) = x BY DEF typed
    <2> HIDE DEF x, s
    <2> QED BY <2>1, <2>2, <2>3 DEF AtHome
  <1>2. ASSUME NEW c \in ArrRec PROVE typed(c) \in ArrRec /\ (typed(c).secret # masked => AtHome(typed(c)))
    <2> DEFINE s == [url |-> c.url, tls |-> c.tls]
    <2>1. s \in Secrets /\ s.url = c.url /\ s.tls = c.tls BY DEF ArrRec, Secrets
    <2> DEFINE x == [c EXCEPT !.secret = s]
    <2>2. x \in ArrRec /\ x.secret = s /\ x.url = c.url /\ x.tls = c.tls BY <2>1 DEF ArrRec
    <2>3. (typed(c) = c /\ c.secret = masked) \/ typed(c) = x BY DEF typed
    <2> HIDE DEF x, s
    <2> QED BY <2>1, <2>2, <2>3 DEF AtHome
  <1>3. ASSUME NEW c \in TautulliRec
        PROVE  typed(c) \in TautulliRec /\ (typed(c).secret # masked => AtHome(typed(c)))
    <2> DEFINE s == [url |-> c.url, tls |-> c.tls]
    <2>1. s \in Secrets /\ s.url = c.url /\ s.tls = c.tls BY DEF TautulliRec, Secrets
    <2> DEFINE x == [c EXCEPT !.secret = s]
    <2>2. x \in TautulliRec /\ x.secret = s /\ x.url = c.url /\ x.tls = c.tls BY <2>1 DEF TautulliRec
    <2>3. (typed(c) = c /\ c.secret = masked) \/ typed(c) = x BY DEF typed
    <2> HIDE DEF x, s
    <2> QED BY <2>1, <2>2, <2>3 DEF AtHome
  <1> QED BY <1>1, <1>2, <1>3

\* A stored secret is reused where it was at home: at the same endpoint, and
\* verified no less.
LEMMA RestoredIsHome ==
  /\ \A c \in ServerRec, was \in HomeServers \cup {None} :
       LET x == restoreSecret(typed(c), was) IN x \in ServerRec /\ (UsableConn(x) => x \in HomeServers)
  /\ \A c \in ArrRec, was \in HomeArrs \cup {None} :
       LET x == restoreSecret(typed(c), was) IN x \in ArrRec /\ (UsableConn(x) => x \in HomeArrs)
  /\ \A c \in TautulliRec, was \in HomeTautullis \cup {None} :
       LET x == restoreSecret(typed(c), was) IN x \in TautulliRec /\ (UsableConn(x) => x \in HomeTautullis)
  <1>1. ASSUME NEW c \in ServerRec, NEW was \in HomeServers \cup {None}, NEW x, x = restoreSecret(typed(c), was)
        PROVE  x \in ServerRec /\ (UsableConn(x) => x \in HomeServers)
    <2> PICK t : t = typed(c) OBVIOUS
    <2>1. t \in ServerRec /\ (t.secret # masked => AtHome(t)) BY TypedIsHome
    <2>2. CASE t.secret = masked /\ reusable(t, was)
      <3>1. was \in ServerRec /\ AtHome(was) BY <2>2, HereIsStored DEF reusable, HomeServers
      <3>2. x = [t EXCEPT !.secret = was.secret] BY <1>1, <2>2 DEF restoreSecret
      <3>3. x \in ServerRec /\ x.secret = was.secret /\ x.url = t.url /\ x.tls = t.tls BY <2>1, <3>1, <3>2 DEF ServerRec
      <3>4. AtHome(x) BY <2>2, <3>1, <3>3 DEF AtHome, reusable, sameEndpoint
      <3> QED BY <3>3, <3>4 DEF HomeServers
    <2>3. CASE ~(t.secret = masked /\ reusable(t, was))
      <3>1. x = t BY <1>1, <2>3 DEF restoreSecret
      <3> QED BY <2>1, <3>1 DEF UsableConn, HomeServers
    <2> QED BY <2>2, <2>3
  <1>2. ASSUME NEW c \in ArrRec, NEW was \in HomeArrs \cup {None}, NEW x, x = restoreSecret(typed(c), was)
        PROVE  x \in ArrRec /\ (UsableConn(x) => x \in HomeArrs)
    <2> PICK t : t = typed(c) OBVIOUS
    <2>1. t \in ArrRec /\ (t.secret # masked => AtHome(t)) BY TypedIsHome
    <2>2. CASE t.secret = masked /\ reusable(t, was)
      <3>1. was \in ArrRec /\ AtHome(was) BY <2>2, HereIsStored DEF reusable, HomeArrs
      <3>2. x = [t EXCEPT !.secret = was.secret] BY <1>2, <2>2 DEF restoreSecret
      <3>3. x \in ArrRec /\ x.secret = was.secret /\ x.url = t.url /\ x.tls = t.tls BY <2>1, <3>1, <3>2 DEF ArrRec
      <3>4. AtHome(x) BY <2>2, <3>1, <3>3 DEF AtHome, reusable, sameEndpoint
      <3> QED BY <3>3, <3>4 DEF HomeArrs
    <2>3. CASE ~(t.secret = masked /\ reusable(t, was))
      <3>1. x = t BY <1>2, <2>3 DEF restoreSecret
      <3> QED BY <2>1, <3>1 DEF UsableConn, HomeArrs
    <2> QED BY <2>2, <2>3
  <1>3. ASSUME NEW c \in TautulliRec, NEW was \in HomeTautullis \cup {None}, NEW x, x = restoreSecret(typed(c), was)
        PROVE  x \in TautulliRec /\ (UsableConn(x) => x \in HomeTautullis)
    <2> PICK t : t = typed(c) OBVIOUS
    <2>1. t \in TautulliRec /\ (t.secret # masked => AtHome(t)) BY TypedIsHome
    <2>2. CASE t.secret = masked /\ reusable(t, was)
      <3>1. was \in TautulliRec /\ AtHome(was) BY <2>2, HereIsStored DEF reusable, HomeTautullis
      <3>2. x = [t EXCEPT !.secret = was.secret] BY <1>3, <2>2 DEF restoreSecret
      <3>3. x \in TautulliRec /\ x.secret = was.secret /\ x.url = t.url /\ x.tls = t.tls
        BY <2>1, <3>1, <3>2 DEF TautulliRec
      <3>4. AtHome(x) BY <2>2, <3>1, <3>3 DEF AtHome, reusable, sameEndpoint
      <3> QED BY <3>3, <3>4 DEF HomeTautullis
    <2>3. CASE ~(t.secret = masked /\ reusable(t, was))
      <3>1. x = t BY <1>3, <2>3 DEF restoreSecret
      <3> QED BY <2>1, <3>1 DEF UsableConn, HomeTautullis
    <2> QED BY <2>2, <2>3
  <1> QED BY <1>1, <1>2, <1>3

\* A secret at home may be sent.
LEMMA SendsHome == \A c \in HomeServers \cup HomeArrs \cup HomeTautullis : Sends(c) => sent' \in SentRec
  <1> TAKE c \in HomeServers \cup HomeArrs \cup HomeTautullis
  <1>1. c.secret \in Secrets /\ c.url \in Urls /\ c.tls \in BOOLEAN /\ AtHome(c)
    BY DEF HomeServers, HomeArrs, HomeTautullis, ServerRec, ArrRec, TautulliRec
  <1> DEFINE x == [secret |-> c.secret, url |-> c.url, tls |-> c.tls]
  <1>2. x.secret = c.secret /\ x.url = c.url /\ x.tls = c.tls OBVIOUS
  <1>3. x \in [secret : Secrets, url : Urls, tls : BOOLEAN] BY <1>1
  <1> HIDE DEF x
  <1>4. AtHome(x) BY <1>1, <1>2 DEF AtHome
  <1>5. x \in SentRec BY <1>3, <1>4 DEF SentRec
  <1> QED BY <1>5 DEF Sends, x

\* Storing a server that is at home leaves what is stored at home.
LEMMA StoreServerHome ==
  ASSUME RecordsHome, NEW id \in ServerIds, NEW ms \in HomeServers, storeServer(id, ms)
  PROVE  servers' \in [ServerIds -> HomeServers \cup {None}] /\ arrs' \in [ArrIds -> HomeArrs \cup {None}]
  <1> PICK ss : ss = [servers EXCEPT ![id] = ms] OBVIOUS
  <1>1. servers' = ss /\ (arrs' = unconfirmArrLinks(ss, id) \/ arrs' = arrs) BY DEF storeServer
  <1>2. \A a \in ArrIds : arrs[a].here => [arrs[a] EXCEPT !.confirmed = FALSE] \in HomeArrs
    BY HereIsStored, StaysHome DEF RecordsHome
  <1>3. unconfirmArrLinks(ss, id) \in [ArrIds -> HomeArrs \cup {None}]
    BY <1>2 DEF unconfirmArrLinks, RecordsHome
  <1> QED BY <1>1, <1>3 DEF RecordsHome

\* What a scan knows of changes is a set of connections.
LEMMA ChangedAtKeeps ==
  ASSUME ScansTyped, ApprovedSinceChange, NEW c \in ConnNames, changedAt(c)
  PROVE  ScansTyped' /\ ApprovedSinceChange'
  <1> DEFINE g == [group EXCEPT !.changed = @ \cup {c},
                                !.status = IF c \in group.conns /\ @ \in {"queued", "failed"} THEN "review" ELSE @]
             w == [sweep EXCEPT !.changed = @ \cup {c}]
  <1>1. group \in GroupRec /\ sweep \in SweepRec BY DEF ScansTyped
  <1>2. w \in SweepRec BY <1>1 DEF SweepRec
  <1>3. g \in GroupRec /\ g.changed = group.changed \cup {c} /\ g.conns = group.conns
        /\ (g.status = "queued" => group.status = "queued" /\ c \notin group.conns)
    BY <1>1 DEF GroupRec
  <1>4. group' = g /\ (sweep' = w \/ sweep' = sweep) BY DEF changedAt
  <1> HIDE DEF g, w
  <1>5. ScansTyped' BY <1>1, <1>2, <1>3, <1>4 DEF ScansTyped
  <1>6. ApprovedSinceChange' BY <1>3, <1>4 DEF ApprovedSinceChange, checkEndpointsCurrent
  <1> QED BY <1>5, <1>6

(* Cancelling the group's removals when a connection is deleted
   (cancelPending) leaves nothing approved that rests on it. *)
LEMMA CancelPendingKeeps ==
  ASSUME ScansTyped, ApprovedSinceChange, NEW c, cancelPending(c), UNCHANGED sweep
  PROVE  ScansTyped' /\ ApprovedSinceChange'
  <1> DEFINE g == [group EXCEPT !.status = "pending"]
  <1>1. group \in GroupRec /\ sweep \in SweepRec BY DEF ScansTyped
  <1>2. g \in GroupRec /\ g.status = "pending" BY <1>1 DEF GroupRec
  <1>3. group' = g \/ group' = group BY DEF cancelPending
  <1> HIDE DEF g
  <1>4. ScansTyped' BY <1>1, <1>2, <1>3 DEF ScansTyped
  <1> QED BY <1>2, <1>3, <1>4 DEF ApprovedSinceChange, checkEndpointsCurrent

\* Neither a scan nor an approval goes on.
LEMMA ScansStay ==
  ASSUME ScansTyped, ApprovedSinceChange, UNCHANGED <<sweep, group>> PROVE ScansTyped' /\ ApprovedSinceChange'
  BY DEF ScansTyped, ApprovedSinceChange, checkEndpointsCurrent

-----------------------------------------------------------------------------
(* Connections: every step keeps the invariant.                            *)

(* The connections start in their invariant: every stored secret is at home. *)
LEMMA ConnInitially == ConnInit => ConnInv
  <1> SUFFICES ASSUME ConnInit PROVE ConnInv OBVIOUS
  <1>1. servers \in [ServerIds -> HomeServers \cup {None}] BY ConnectionConstants DEF ConnInit, HomeServers, ServerRec
  <1>2. arrs \in [ArrIds -> HomeArrs \cup {None}] BY ConnectionConstants DEF ConnInit, HomeArrs, ArrRec
  <1>3. tauts \in [ServerIds -> HomeTautullis \cup {None}]
    BY ConnectionConstants DEF ConnInit, HomeTautullis, TautulliRec
  <1>4. RequestsHome BY DEF ConnInit, RequestsHome, EditRec
  <1>5. ScansTyped BY DEF ConnInit, ScansTyped, NoSweep, SweepRec, GroupRec, ReadFrom
  <1>6. ApprovedSinceChange BY DEF ConnInit, ApprovedSinceChange
  <1> QED BY <1>1, <1>2, <1>3, <1>4, <1>5, <1>6 DEF ConnInv, RecordsHome

\* A request begins with what it asks for at home, and nothing else moves.
LEMMA BeginsKeeps ==
  ASSUME ConnInv, NEW e \in Editors, NEW r \in EditRec, Begins(e, r),
         UNCHANGED <<servers, arrs, tauts, sync, sweep, group, sent>>
  PROVE  ConnInv'
  <1>1. RecordsHome' BY DEF ConnInv, RecordsHome
  <1>2. RequestsHome' BY DEF ConnInv, RequestsHome, Begins
  <1> QED BY <1>1, <1>2, ScansStay DEF ConnInv

(* Beginning to save a media server keeps it: the token that is reused
   belongs to the machine that is asked. *)
LEMMA ServerBeginKeeps ==
  ASSUME ConnInv, NEW e \in Editors, NEW id \in ServerIds, NEW asked \in AskedServers, NEW f \in BOOLEAN,
         ServerCreate(e, id, asked, f) \/ ServerUpdate(e, id, asked, f)
  PROVE  ConnInv'
  <1>1. asked \in ServerRec BY ConnectionConstants
  <1>2. servers[id] \in HomeServers \cup {None} BY DEF ConnInv, RecordsHome
  <1>3. CASE ServerCreate(e, id, asked, f)
    <2> PICK in : in = typed(asked) OBVIOUS
    <2> PICK x : x = [in EXCEPT !.mid = Unknown] OBVIOUS
    <2>1. in \in HomeServers BY <1>1, <1>3, TypedIsHome DEF ServerCreate, validServer, UsableConn, HomeServers
    <2>2. Unknown \in Machines BY DEF Machines
    <2>3. x \in HomeServers BY <2>1, <2>2, StaysHome
    <2> DEFINE r == [step |-> "ask", kind |-> "server", id |-> id, was |-> None, force |-> f, in |-> x]
    <2>4. r \in EditRec BY <2>3 DEF EditRec, ServerEdit, Steps
    <2>5. Begins(e, r) BY <1>3 DEF ServerCreate
    <2> HIDE DEF r
    <2>6. UNCHANGED <<servers, arrs, tauts, sync, sweep, group, sent>> BY <1>3 DEF ServerCreate
    <2> QED BY <2>4, <2>5, <2>6, BeginsKeeps
  <1>4. CASE ServerUpdate(e, id, asked, f)
    <2> PICK was : was = servers[id] OBVIOUS
    <2> PICK in : in = restoreSecret(typed(asked), was) OBVIOUS
    <2> PICK x : x = [in EXCEPT !.mid = was.mid] OBVIOUS
    <2>1. in \in HomeServers BY <1>1, <1>2, <1>4, RestoredIsHome DEF ServerUpdate, validServer
    <2>2. was \in HomeServers /\ was.mid \in Machines
      BY <1>2, <1>4, HereIsStored DEF ServerUpdate, HomeServers, ServerRec
    <2>3. x \in HomeServers BY <2>1, <2>2, StaysHome
    <2> DEFINE r == [step |-> "ask", kind |-> "server", id |-> id, was |-> was, force |-> f, in |-> x]
    <2>4. was \in ServerRec \cup {None} BY <2>2 DEF HomeServers
    <2>5. r \in EditRec BY <2>3, <2>4 DEF EditRec, ServerEdit, Steps
    <2>6. Begins(e, r) BY <1>4 DEF ServerUpdate
    <2> HIDE DEF r
    <2>7. UNCHANGED <<servers, arrs, tauts, sync, sweep, group, sent>> BY <1>4 DEF ServerUpdate
    <2> QED BY <2>5, <2>6, <2>7, BeginsKeeps
  <1> QED BY <1>3, <1>4

\* The links of an application, completed or kept.
LEMMA ArrLinksHome ==
  ASSUME RecordsHome PROVE \A c \in HomeArrs : arrLinks(c) \in HomeArrs
  <1> TAKE c \in HomeArrs
  <1> PICK ids : ids = (IF c.links = {} THEN Enabled(servers) ELSE c.links) OBVIOUS
  <1> PICK auto : auto = (c.links = {} /\ Cardinality(Enabled(servers)) = 1) OBVIOUS
  <1> PICK l : l = (IF auto THEN ids ELSE c.links) OBVIOUS
  <1> PICK b : b = (auto \/ (c.links # {} /\ c.confirmed)) OBVIOUS
  <1>1. Enabled(servers) \subseteq ServerIds BY DEF Enabled, Here, RecordsHome
  <1>2. c.links \in SUBSET ServerIds BY DEF HomeArrs, ArrRec
  <1>3. l \in SUBSET ServerIds /\ b \in BOOLEAN BY <1>1, <1>2
  <1> PICK x : x = [c EXCEPT !.links = l] OBVIOUS
  <1>4. x \in HomeArrs BY <1>3, StaysHome
  <1>5. [x EXCEPT !.confirmed = b] \in HomeArrs BY <1>3, <1>4, StaysHome
  <1>6. arrLinks(c) = [x EXCEPT !.confirmed = b] BY DEF arrLinks
  <1> QED BY <1>5, <1>6

(* Working out the links of a Radarr or Sonarr connection leaves its secret
   alone. *)
LEMMA ArrLinksSecret == \A c \in ArrRec : arrLinks(c).secret = c.secret
  <1> TAKE c \in ArrRec
  <1> PICK l : l = (IF c.links = {} /\ Cardinality(Enabled(servers)) = 1
                    THEN IF c.links = {} THEN Enabled(servers) ELSE c.links ELSE c.links)
    OBVIOUS
  <1> PICK b : b = ((c.links = {} /\ Cardinality(Enabled(servers)) = 1) \/ (c.links # {} /\ c.confirmed)) OBVIOUS
  <1>1. arrLinks(c) = [c EXCEPT !.links = l, !.confirmed = b] BY DEF arrLinks
  <1> QED BY <1>1 DEF ArrRec

(* Beginning to save a Radarr or Sonarr connection keeps it. *)
LEMMA ArrBeginKeeps ==
  ASSUME ConnInv, NEW e \in Editors, NEW id \in ArrIds, NEW asked \in AskedArrs, NEW f \in BOOLEAN,
         ArrCreate(e, id, asked, f) \/ ArrUpdate(e, id, asked, f)
  PROVE  ConnInv'
  <1>1. asked \in ArrRec BY ConnectionConstants
  <1>2. arrs[id] \in HomeArrs \cup {None} /\ RecordsHome BY DEF ConnInv, RecordsHome
  <1>3. ASSUME NEW was \in HomeArrs \cup {None}, NEW x \in HomeArrs
        PROVE  ArrRequest(id, was, x, f) \in EditRec
    <2>1. was \in ArrRec \cup {None} BY <1>3 DEF HomeArrs
    <2> QED BY <1>3, <2>1 DEF ArrRequest, EditRec, ArrEdit, Steps
  <1>4. CASE ArrCreate(e, id, asked, f)
    <2> PICK y : y = typed(asked) OBVIOUS
    <2> PICK x : x = arrLinks(y) OBVIOUS
    <2>1. UsableConn(x) /\ Begins(e, ArrRequest(id, None, x, f)) BY <1>4 DEF ArrCreate, validArr
    <2>2. y \in ArrRec /\ x.secret = y.secret BY <1>1, TypedIsHome, ArrLinksSecret
    <2>3. y \in HomeArrs BY <1>1, <2>1, <2>2, TypedIsHome DEF UsableConn, HomeArrs
    <2>4. x \in HomeArrs BY <1>2, <2>3, ArrLinksHome
    <2>5. UNCHANGED <<servers, arrs, tauts, sync, sweep, group, sent>> BY <1>4 DEF ArrCreate
    <2> QED BY <1>3, <2>1, <2>4, <2>5, BeginsKeeps
  <1>5. CASE ArrUpdate(e, id, asked, f)
    <2> PICK was : was = arrs[id] OBVIOUS
    <2> PICK full : full = (IF asked.same
                            THEN [asked EXCEPT !.links = was.links, !.confirmed = was.confirmed] ELSE asked)
      OBVIOUS
    <2> PICK y : y = restoreSecret(typed(full), was) OBVIOUS
    <2> PICK x : x = arrLinks(y) OBVIOUS
    <2>1. was.here /\ UsableConn(x) /\ Begins(e, ArrRequest(id, was, x, f)) BY <1>5 DEF ArrUpdate, validArr
    <2>2. was \in HomeArrs /\ was.links \in SUBSET ServerIds /\ was.confirmed \in BOOLEAN
      BY <1>2, <2>1, HereIsStored DEF HomeArrs, ArrRec
    <2>3. full \in ArrRec BY <1>1, <2>2 DEF ArrRec
    <2>4. y \in ArrRec /\ (UsableConn(y) => y \in HomeArrs) BY <2>2, <2>3, RestoredIsHome
    <2>5. x.secret = y.secret BY <2>4, ArrLinksSecret
    <2>6. y \in HomeArrs BY <2>1, <2>4, <2>5 DEF UsableConn
    <2>7. x \in HomeArrs BY <1>2, <2>6, ArrLinksHome
    <2>8. UNCHANGED <<servers, arrs, tauts, sync, sweep, group, sent>> BY <1>5 DEF ArrUpdate
    <2> QED BY <1>3, <2>1, <2>2, <2>7, <2>8, BeginsKeeps
  <1> QED BY <1>4, <1>5

(* Beginning to save the Tautulli connection keeps it. *)
LEMMA TautulliBeginKeeps ==
  ASSUME ConnInv, NEW e \in Editors, NEW id \in ServerIds, NEW asked \in AskedTautullis, NEW f \in BOOLEAN,
         TautulliBegin(e, id, asked, f)
  PROVE  ConnInv'
  <1> PICK was : was = tauts[id] OBVIOUS
  <1> PICK x : x = restoreSecret(typed(asked), was) OBVIOUS
  <1> PICK r : r = [step |-> IF f THEN "save" ELSE "ask", kind |-> "tautulli", id |-> id,
                    was |-> was, force |-> f, in |-> x]
    OBVIOUS
  <1>1. asked \in TautulliRec BY ConnectionConstants
  <1>2. was \in HomeTautullis \cup {None} BY DEF ConnInv, RecordsHome
  <1>3. UsableConn(x) /\ Begins(e, r) BY DEF TautulliBegin, validTautulli
  <1>4. x \in HomeTautullis BY <1>1, <1>2, <1>3, RestoredIsHome
  <1>5. was \in TautulliRec \cup {None} BY <1>2 DEF HomeTautullis
  <1>6. r \in EditRec BY <1>4, <1>5 DEF EditRec, TautulliEdit, Steps
  <1>7. UNCHANGED <<servers, arrs, tauts, sync, sweep, group, sent>> BY DEF TautulliBegin
  <1> QED BY <1>3, <1>6, <1>7, BeginsKeeps

\* A request that goes on stays the request it is, or ends.
LEMMA EditTypes ==
  ASSUME ConnInv, NEW e \in Editors, edit[e].step # "idle"
  PROVE  /\ edit[e] \in ServerEdit \cup ArrEdit \cup TautulliEdit
         /\ edit[e].kind = "server" => edit[e] \in ServerEdit
         /\ edit[e].kind = "arr" => edit[e] \in ArrEdit
         /\ edit[e].kind = "tautulli" => edit[e] \in TautulliEdit
         /\ \A st \in Steps : [edit[e] EXCEPT !.step = st] \in EditRec
  <1>1. edit[e] \in EditRec /\ edit[e] # NoEdit0 BY DEF ConnInv, RequestsHome, NoEdit0
  <1>2. edit[e] \in ServerEdit \cup ArrEdit \cup TautulliEdit BY <1>1 DEF EditRec
  <1>3. ASSUME NEW st \in Steps PROVE [edit[e] EXCEPT !.step = st] \in EditRec
    <2>1. CASE edit[e] \in ServerEdit BY <2>1 DEF EditRec, ServerEdit
    <2>2. CASE edit[e] \in ArrEdit BY <2>2 DEF EditRec, ArrEdit
    <2>3. CASE edit[e] \in TautulliEdit BY <2>3 DEF EditRec, TautulliEdit
    <2> QED BY <1>2, <2>1, <2>2, <2>3
  <1> QED BY <1>2, <1>3 DEF ServerEdit, ArrEdit, TautulliEdit

\* A request asked with a secret at home, and goes on or ends.
LEMMA AnswerKeeps ==
  ASSUME ConnInv, NEW e \in Editors, NEW c \in HomeServers \cup HomeArrs \cup HomeTautullis, Sends(c),
         NEW x \in EditRec, edit' = [edit EXCEPT ![e] = x] \/ Ends(e),
         UNCHANGED <<servers, arrs, tauts, sync, sweep, group>>
  PROVE  ConnInv'
  <1>1. RecordsHome' BY DEF ConnInv, RecordsHome
  <1>2. NoEdit0 \in EditRec BY DEF EditRec
  <1>3. sent' \in SentRec BY SendsHome
  <1>4. RequestsHome' BY <1>2, <1>3 DEF ConnInv, RequestsHome, Ends
  <1> QED BY <1>1, <1>4, ScansStay DEF ConnInv

(* The answer of a media server, which stores the row, keeps it. *)
LEMMA ServerAnswerKeeps ==
  ASSUME ConnInv, NEW e \in Editors, ServerAnswers(e) \/ ServerSilent(e) PROVE ConnInv'
  <1> PICK r : r = edit[e] OBVIOUS
  <1> PICK mid : mid = MachineAt[r.in.url] OBVIOUS
  <1>1. r.step = "ask" /\ r.kind = "server" /\ Sends(r.in) BY DEF ServerAnswers, ServerSilent
  <1>2. r \in ServerEdit BY <1>1, EditTypes
  <1>3. r.in \in HomeServers /\ mid \in Machines BY <1>2 DEF ServerEdit, HomeServers, ServerRec, Machines
  <1>4. UNCHANGED <<servers, arrs, tauts, sync, sweep, group>> BY DEF ServerAnswers, ServerSilent
  <1>5. CASE ServerAnswers(e)
    <2> PICK in : in = [r.in EXCEPT !.mid = mid] OBVIOUS
    <2> PICK x : x = [r EXCEPT !.step = "save", !.in = in] OBVIOUS
    <2>1. in \in HomeServers BY <1>3, StaysHome
    <2>2. x \in ServerEdit BY <1>2, <2>1 DEF ServerEdit, Steps
    <2>3. edit \in [Editors -> EditRec] BY DEF ConnInv, RequestsHome
    <2>4. x = [r EXCEPT !.step = "save", !.in.mid = mid] BY <1>2 DEF ServerEdit
    <2>5. edit' = [edit EXCEPT ![e] = x] \/ Ends(e) BY <1>5, <2>3, <2>4 DEF ServerAnswers
    <2> QED BY <1>1, <1>3, <1>4, <2>2, <2>5, AnswerKeeps DEF EditRec
  <1>6. CASE ServerSilent(e)
    <2> PICK x : x = [r EXCEPT !.step = "save"] OBVIOUS
    <2>1. x \in EditRec BY <1>1, EditTypes DEF Steps
    <2>2. edit' = [edit EXCEPT ![e] = x] \/ Ends(e) BY <1>6 DEF ServerSilent
    <2> QED BY <1>1, <1>3, <1>4, <2>1, <2>2, AnswerKeeps
  <1> QED BY <1>5, <1>6

(* The answer of the other kinds of connection keeps it. *)
LEMMA OtherAnswerKeeps ==
  ASSUME ConnInv, NEW e \in Editors, (\E ok \in BOOLEAN : ArrAnswers(e, ok)) \/ TautulliAnswers(e) PROVE ConnInv'
  <1> PICK r : r = edit[e] OBVIOUS
  <1> PICK x : x = [r EXCEPT !.step = "save"] OBVIOUS
  <1>1. r.step = "ask" /\ r.kind \in {"arr", "tautulli"} /\ Sends(r.in) BY DEF ArrAnswers, TautulliAnswers
  <1>2. r \in ArrEdit \cup TautulliEdit BY <1>1, EditTypes
  <1>3. r.in \in HomeArrs \cup HomeTautullis BY <1>2 DEF ArrEdit, TautulliEdit
  <1>4. x \in EditRec BY <1>1, EditTypes DEF Steps
  <1>5. edit' = [edit EXCEPT ![e] = x] \/ Ends(e) BY DEF ArrAnswers, TautulliAnswers
  <1>6. UNCHANGED <<servers, arrs, tauts, sync, sweep, group>> BY DEF ArrAnswers, TautulliAnswers
  <1> QED BY <1>1, <1>3, <1>4, <1>5, <1>6, AnswerKeeps

(* Treating a new address as a repointing (endpointRepointed) before it is
   saved keeps it: the removals that rest on the old one go back to review. *)
LEMMA RepointKeeps == ASSUME ConnInv, NEW e \in Editors, Repoint(e) PROVE ConnInv'
  <1> PICK r : r = edit[e] OBVIOUS
  <1> PICK x : x = [r EXCEPT !.step = "locked"] OBVIOUS
  <1>1. r.step # "idle" /\ changedAt(Conn(r.kind, r.id)) BY DEF Repoint
  <1>2. r \in ServerEdit \cup ArrEdit \cup TautulliEdit /\ x \in EditRec BY <1>1, EditTypes DEF Steps
  <1>3. Conn(r.kind, r.id) \in ConnNames BY <1>2 DEF Conn, ConnNames, ServerEdit, ArrEdit, TautulliEdit
  <1>4. ScansTyped' /\ ApprovedSinceChange' BY <1>1, <1>3, ChangedAtKeeps DEF ConnInv
  <1>5. edit' = [edit EXCEPT ![e] = x] /\ UNCHANGED <<servers, arrs, tauts, sync, sent>> BY DEF Repoint
  <1>6. RequestsHome' BY <1>2, <1>5 DEF ConnInv, RequestsHome
  <1> QED BY <1>4, <1>5, <1>6 DEF ConnInv, RecordsHome

\* What a request saves is what it asked with.
LEMMA SaveKeeps ==
  ASSUME ConnInv, NEW e \in Editors, ServerSave(e) \/ ArrSave(e) \/ TautulliSave(e) PROVE ConnInv'
  <1> PICK r : r = edit[e] OBVIOUS
  <1>1. r.step # "idle" /\ Ends(e) /\ UNCHANGED <<sync, sent, sweep, group>>
    BY DEF ServerSave, ArrSave, TautulliSave
  <1>2. NoEdit0 \in EditRec BY DEF EditRec
  <1>3. RequestsHome' BY <1>1, <1>2 DEF ConnInv, RequestsHome, Ends
  <1>4. RecordsHome BY DEF ConnInv
  <1>5. RecordsHome'
    <2>1. CASE ServerSave(e)
      <3>1. r \in ServerEdit BY <1>1, <2>1, EditTypes DEF ServerSave
      <3>2. r.id \in ServerIds /\ r.in \in HomeServers BY <3>1 DEF ServerEdit
      <3>3. storeServer(r.id, r.in) \/ UNCHANGED <<servers, arrs>> BY <2>1 DEF ServerSave
      <3>4. UNCHANGED tauts BY <2>1 DEF ServerSave
      <3> QED BY <1>4, <3>2, <3>3, <3>4, StoreServerHome DEF RecordsHome
    <2>2. CASE ArrSave(e)
      <3>1. r \in ArrEdit BY <1>1, <2>2, EditTypes DEF ArrSave
      <3>2. r.id \in ArrIds /\ r.in \in HomeArrs BY <3>1 DEF ArrEdit
      <3>3. (arrs' = [arrs EXCEPT ![r.id] = r.in] \/ arrs' = arrs) /\ UNCHANGED <<servers, tauts>> BY <2>2 DEF ArrSave
      <3> QED BY <1>4, <3>2, <3>3 DEF RecordsHome
    <2>3. CASE TautulliSave(e)
      <3>1. r \in TautulliEdit BY <1>1, <2>3, EditTypes DEF TautulliSave
      <3>2. r.id \in ServerIds /\ r.in \in HomeTautullis BY <3>1 DEF TautulliEdit
      <3>3. (tauts' = [tauts EXCEPT ![r.id] = r.in] \/ tauts' = tauts) /\ UNCHANGED <<servers, arrs>>
        BY <2>3 DEF TautulliSave
      <3> QED BY <1>4, <3>2, <3>3 DEF RecordsHome
    <2> QED BY <2>1, <2>2, <2>3
  <1> QED BY <1>1, <1>3, <1>5, ScansStay DEF ConnInv

(* Deleting a connection keeps it: its row goes with its secret. *)
LEMMA DeleteKeeps ==
  ASSUME ConnInv,
         (\E id \in ServerIds : ServerDelete(id) \/ TautulliDelete(id)) \/ (\E id \in ArrIds : ArrDelete(id))
  PROVE  ConnInv'
  <1>1. RecordsHome BY DEF ConnInv
  <1>2. UNCHANGED <<edit, sync, sent, sweep>> BY DEF ServerDelete, TautulliDelete, ArrDelete
  <1>3. RequestsHome' BY <1>2 DEF ConnInv, RequestsHome
  <1>4. RecordsHome'
    <2>1. CASE \E id \in ServerIds : ServerDelete(id)
      <3> PICK id \in ServerIds : ServerDelete(id) BY <2>1
      <3>1. \A a \in ArrIds : arrs[a].here => [arrs[a] EXCEPT !.links = @ \ {id}] \in HomeArrs
        <4> SUFFICES ASSUME NEW a \in ArrIds, arrs[a].here PROVE [arrs[a] EXCEPT !.links = @ \ {id}] \in HomeArrs
          OBVIOUS
        <4>1. arrs[a] \in HomeArrs BY <1>1, HereIsStored DEF RecordsHome
        <4>2. arrs[a].links \ {id} \in SUBSET ServerIds BY <4>1 DEF HomeArrs, ArrRec
        <4> QED BY <4>1, <4>2, StaysHome
      <3>2. arrs' \in [ArrIds -> HomeArrs \cup {None}] BY <1>1, <3>1 DEF ServerDelete, RecordsHome
      <3> QED BY <1>1, <3>2 DEF ServerDelete, RecordsHome
    <2>2. CASE \E id \in ServerIds : TautulliDelete(id) BY <1>1, <2>2 DEF TautulliDelete, RecordsHome
    <2>3. CASE \E id \in ArrIds : ArrDelete(id) BY <1>1, <2>3 DEF ArrDelete, RecordsHome
    <2> QED BY <2>1, <2>2, <2>3
  <1>5. UNCHANGED group \/ \E c \in {Conn("server", id) : id \in ServerIds} \cup {Conn("arr", id) : id \in ArrIds} :
          cancelPending(c)
    BY DEF ServerDelete, TautulliDelete, ArrDelete
  <1>6. ScansTyped' /\ ApprovedSinceChange' BY <1>2, <1>5, ScansStay, CancelPendingKeeps DEF ConnInv
  <1> QED BY <1>3, <1>4, <1>6 DEF ConnInv

\* A test asks with what is at home; a server's may adopt its identity.
LEMMA TestKeeps ==
  ASSUME ConnInv,
         \/ \E id \in ServerIds, in \in AskedServers : ServerTest(id, in)
         \/ \E id \in ArrIds, in \in AskedArrs : ArrTest(id, in)
         \/ \E id \in ServerIds, in \in AskedTautullis : TautulliTest(id, in)
  PROVE  ConnInv'
  <1>1. RecordsHome BY DEF ConnInv
  <1>2. UNCHANGED <<tauts, edit, sync, sweep, group>> BY DEF ServerTest, ArrTest, TautulliTest
  <1>3. sent' \in SentRec /\ RecordsHome'
    <2>1. CASE \E id \in ServerIds, in \in AskedServers : ServerTest(id, in)
      <3> PICK id \in ServerIds, asked \in AskedServers : ServerTest(id, asked) BY <2>1
      <3> PICK was : was = servers[id] OBVIOUS
      <3> PICK x : x = restoreSecret(typed(asked), was) OBVIOUS
      <3> PICK mid : mid = MachineAt[x.url] OBVIOUS
      <3>1. UsableConn(x) /\ Sends(x) BY DEF ServerTest
      <3>2. was \in HomeServers \cup {None} BY <1>1 DEF RecordsHome
      <3>3. asked \in ServerRec BY ConnectionConstants
      <3>4. x \in HomeServers BY <3>1, <3>2, <3>3, RestoredIsHome
      <3>5. mid \in Machines BY <3>4 DEF HomeServers, ServerRec, Machines
      <3>6. was.here => [was EXCEPT !.mid = mid] \in HomeServers BY <3>2, <3>5, HereIsStored, StaysHome
      <3>7. (was.here /\ storeServer(id, [was EXCEPT !.mid = mid])) \/ UNCHANGED <<servers, arrs>>
        BY DEF ServerTest, adopts
      <3>8. RecordsHome' BY <1>1, <1>2, <3>6, <3>7, StoreServerHome DEF RecordsHome
      <3> QED BY <3>1, <3>4, <3>8, SendsHome
    <2>2. CASE \E id \in ArrIds, in \in AskedArrs : ArrTest(id, in)
      <3> PICK id \in ArrIds, asked \in AskedArrs : ArrTest(id, asked) BY <2>2
      <3> PICK was : was = arrs[id] OBVIOUS
      <3> PICK x : x = restoreSecret(typed(asked), was) OBVIOUS
      <3>1. UsableConn(x) /\ Sends(x) BY DEF ArrTest
      <3>2. was \in HomeArrs \cup {None} BY <1>1 DEF RecordsHome
      <3>3. asked \in ArrRec BY ConnectionConstants
      <3>4. x \in HomeArrs BY <3>1, <3>2, <3>3, RestoredIsHome
      <3>5. UNCHANGED <<servers, arrs, tauts>> BY DEF ArrTest
      <3> QED BY <1>1, <3>1, <3>4, <3>5, SendsHome DEF RecordsHome
    <2>3. CASE \E id \in ServerIds, in \in AskedTautullis : TautulliTest(id, in)
      <3> PICK id \in ServerIds, asked \in AskedTautullis : TautulliTest(id, asked) BY <2>3
      <3> PICK was : was = tauts[id] OBVIOUS
      <3> PICK x : x = restoreSecret(typed(asked), was) OBVIOUS
      <3>1. UsableConn(x) /\ Sends(x) BY DEF TautulliTest, validTautulli
      <3>2. was \in HomeTautullis \cup {None} BY <1>1 DEF RecordsHome
      <3>3. asked \in TautulliRec BY ConnectionConstants
      <3>4. x \in HomeTautullis BY <3>1, <3>2, <3>3, RestoredIsHome
      <3>5. UNCHANGED <<servers, arrs, tauts>> BY DEF TautulliTest
      <3> QED BY <1>1, <3>1, <3>4, <3>5, SendsHome DEF RecordsHome
    <2> QED BY <2>1, <2>2, <2>3
  <1>4. RequestsHome' BY <1>2, <1>3 DEF ConnInv, RequestsHome
  <1> QED BY <1>2, <1>3, <1>4, ScansStay DEF ConnInv

\* The library sync asks with the stored secret, and stores what it read.
LEMMA SyncKeeps ==
  ASSUME ConnInv, (\E id \in ServerIds : SyncAsks(id)) \/ SyncChecks \/ SyncAdopts \/ (\E l \in SUBSET ApiKeys : SyncSaves(l))
  PROVE  ConnInv'
  <1>1. RecordsHome /\ sync \in SyncRec \cup {NoSync} BY DEF ConnInv, RequestsHome
  <1>2. UNCHANGED <<tauts, edit, sweep, group>> BY DEF SyncAsks, SyncChecks, SyncAdopts, SyncSaves
  <1>3. sync.step # "idle" => sync \in SyncRec BY <1>1 DEF NoSync
  <1>4. sync' \in SyncRec \cup {NoSync} /\ sent' \in SentRec \cup {None} /\ RecordsHome'
    <2>1. CASE \E id \in ServerIds : SyncAsks(id)
      <3> PICK id \in ServerIds : SyncAsks(id) BY <2>1
      <3> PICK c : c = servers[id] OBVIOUS
      <3> PICK mid : mid = MachineAt[c.url] OBVIOUS
      <3>1. c \in HomeServers BY <1>1, HereIsStored DEF SyncAsks, RecordsHome
      <3>2. Sends(c) BY DEF SyncAsks, Sends
      <3>3. mid \in Machines BY <3>1 DEF HomeServers, ServerRec, Machines
      <3>4. sync' = NoSync \/ \E st \in {"check", "list"} : sync' = [step |-> st, id |-> id, srv |-> c, mid |-> mid]
        BY DEF SyncAsks
      <3>5. sync' \in SyncRec \cup {NoSync} BY <3>1, <3>3, <3>4 DEF SyncRec
      <3>6. UNCHANGED <<servers, arrs, tauts>> BY DEF SyncAsks
      <3> QED BY <1>1, <3>1, <3>2, <3>5, <3>6, SendsHome DEF RecordsHome
    <2>2. CASE SyncChecks
      <3> PICK cur : cur = servers[sync.id] OBVIOUS
      <3>1. sync \in SyncRec BY <1>3, <2>2 DEF SyncChecks
      <3>2. cur \in HomeServers \cup {None} BY <1>1, <3>1 DEF SyncRec, RecordsHome
      <3>3. \/ sync' = NoSync \/ sync' = [sync EXCEPT !.step = "list"]
            \/ cur.here /\ sync' = [sync EXCEPT !.step = "adopt", !.srv = cur]
        BY <2>2 DEF SyncChecks
      <3>4. cur.here => cur \in HomeServers BY <3>2, HereIsStored
      <3>5. sync' \in SyncRec \cup {NoSync} BY <3>1, <3>3, <3>4 DEF SyncRec
      <3> QED BY <1>1, <2>2, <3>5 DEF SyncChecks, RecordsHome, ConnInv, RequestsHome
    <2>3. CASE SyncAdopts
      <3>1. sync \in SyncRec BY <1>3, <2>3 DEF SyncAdopts
      <3>2. sync.id \in ServerIds /\ [sync.srv EXCEPT !.mid = sync.mid] \in HomeServers BY <3>1, StaysHome DEF SyncRec
      <3>3. storeServer(sync.id, [sync.srv EXCEPT !.mid = sync.mid]) \/ UNCHANGED <<servers, arrs>>
        BY <2>3 DEF SyncAdopts
      <3>4. RecordsHome' BY <1>1, <1>2, <3>2, <3>3, StoreServerHome DEF RecordsHome
      <3>5. sync' \in SyncRec \cup {NoSync} BY <2>3, <3>1 DEF SyncAdopts, SyncRec
      <3> QED BY <2>3, <3>4, <3>5 DEF SyncAdopts, ConnInv, RequestsHome
    <2>4. CASE \E l \in SUBSET ApiKeys : SyncSaves(l)
      BY <1>1, <2>4 DEF SyncSaves, RecordsHome, ConnInv, RequestsHome
    <2> QED BY <2>1, <2>2, <2>3, <2>4
  <1>5. RequestsHome' BY <1>2, <1>4 DEF ConnInv, RequestsHome
  <1> QED BY <1>2, <1>4, <1>5, ScansStay DEF ConnInv

\* Scans and approvals.
LEMMA ScanKeeps ==
  ASSUME ConnInv, ScanBegins \/ (\E st \in {"pending", "queued"} : ScanStores(st)) \/ Approve PROVE ConnInv'
  <1>1. UNCHANGED <<servers, arrs, tauts, edit, sync, sent>> BY DEF ScanBegins, ScanStores, Approve
  <1>2. RecordsHome' /\ RequestsHome' BY <1>1 DEF ConnInv, RecordsHome, RequestsHome
  <1>3. sweep \in SweepRec /\ group \in GroupRec BY DEF ConnInv, ScansTyped
  <1>4. ScansTyped' /\ ApprovedSinceChange'
    <2>1. CASE ScanBegins
      <3>1. Pointed("server", servers, GroupServer) \in ReadFrom
        <4>1. servers[GroupServer] \in HomeServers \cup {None} BY ConnectionConstants DEF ConnInv, RecordsHome
        <4>2. servers[GroupServer].here => servers[GroupServer].url \in Urls
          BY <4>1, HereIsStored DEF HomeServers, ServerRec
        <4>3. Conn("server", GroupServer) \in ConnNames BY ConnectionConstants DEF Conn, ConnNames
        <4> QED BY <4>2, <4>3 DEF Pointed, ReadFrom
      <3>2. Pointed("arr", arrs, GroupArr) \in ReadFrom
        <4>1. arrs[GroupArr] \in HomeArrs \cup {None} BY ConnectionConstants DEF ConnInv, RecordsHome
        <4>2. arrs[GroupArr].here => arrs[GroupArr].url \in Urls BY <4>1, HereIsStored DEF HomeArrs, ArrRec
        <4>3. Conn("arr", GroupArr) \in ConnNames BY ConnectionConstants DEF Conn, ConnNames
        <4> QED BY <4>2, <4>3 DEF Pointed, ReadFrom
      <3>3. Current \in ReadFrom BY <3>1, <3>2 DEF Current, ReadFrom
      <3>4. sweep' \in SweepRec BY <2>1, <3>3 DEF ScanBegins, SweepRec
      <3> QED BY <1>3, <2>1, <3>4 DEF ScanBegins, ScansTyped, ConnInv, ApprovedSinceChange, checkEndpointsCurrent
    <2>2. CASE \E st \in {"pending", "queued"} : ScanStores(st)
      <3> PICK st \in {"pending", "queued"} : ScanStores(st) BY <2>2
      <3> PICK cs : cs = {c[1] : c \in sweep.from} OBVIOUS
      <3>1. sweep.from \in ReadFrom /\ sweep.changed \in SUBSET ConnNames BY <1>3 DEF SweepRec
      <3>2. cs \in SUBSET ConnNames BY <3>1 DEF ReadFrom
      <3>3. group' = [status |-> st, from |-> sweep.from, changed |-> sweep.changed, conns |-> cs] BY DEF ScanStores
      <3>4. group' \in GroupRec BY <3>1, <3>2, <3>3 DEF GroupRec
      <3>5. NoSweep \in SweepRec BY DEF NoSweep, SweepRec, ReadFrom
      <3>6. ScansTyped' BY <3>4, <3>5 DEF ScanStores, ScansTyped
      <3>7. ApprovedSinceChange' BY <3>3 DEF ScanStores, ApprovedSinceChange
      <3> QED BY <3>6, <3>7
    <2>3. CASE Approve
      <3> PICK g : g = [group EXCEPT !.status = "queued"] OBVIOUS
      <3>1. g \in GroupRec /\ g.changed = group.changed /\ g.conns = group.conns BY <1>3 DEF GroupRec
      <3>2. group' = g /\ UNCHANGED sweep /\ checkEndpointsCurrent BY <2>3 DEF Approve
      <3>3. ScansTyped' BY <1>3, <3>1, <3>2 DEF ScansTyped
      <3> QED BY <3>1, <3>2, <3>3 DEF ApprovedSinceChange, checkEndpointsCurrent
    <2> QED BY <2>1, <2>2, <2>3
  <1> QED BY <1>2, <1>4 DEF ConnInv

\* Mappings and libraries, and a step of any other part.
LEMMA ConnStutters ==
  ASSUME ConnInv, UNCHANGED <<servers, arrs, tauts, edit, sync, sweep, group, sent>> PROVE ConnInv'
  <1>1. RecordsHome' /\ RequestsHome' BY DEF ConnInv, RecordsHome, RequestsHome
  <1> QED BY <1>1, ScansStay DEF ConnInv

(* Every step of the connections keeps their invariant. *)
LEMMA ConnStep == ASSUME ConnInv, ConnectionsNext PROVE ConnInv'
  <1>1. CASE \E e \in Editors, id \in ServerIds, in \in AskedServers, f \in BOOLEAN :
               ServerCreate(e, id, in, f) \/ ServerUpdate(e, id, in, f)
    BY <1>1, ServerBeginKeeps
  <1>2. CASE \E e \in Editors, id \in ArrIds, in \in AskedArrs, f \in BOOLEAN :
               ArrCreate(e, id, in, f) \/ ArrUpdate(e, id, in, f)
    BY <1>2, ArrBeginKeeps
  <1>3. CASE \E e \in Editors, id \in ServerIds, in \in AskedTautullis, f \in BOOLEAN : TautulliBegin(e, id, in, f)
    BY <1>3, TautulliBeginKeeps
  <1>4. CASE \E e \in Editors : ServerAnswers(e) \/ ServerSilent(e) BY <1>4, ServerAnswerKeeps
  <1>5. CASE \E e \in Editors : (\E ok \in BOOLEAN : ArrAnswers(e, ok)) \/ TautulliAnswers(e) BY <1>5, OtherAnswerKeeps
  <1>6. CASE \E e \in Editors : Repoint(e) BY <1>6, RepointKeeps
  <1>7. CASE \E e \in Editors : ServerSave(e) \/ ArrSave(e) \/ TautulliSave(e) BY <1>7, SaveKeeps
  <1>8. CASE (\E id \in ServerIds : ServerDelete(id) \/ TautulliDelete(id)) \/ (\E id \in ArrIds : ArrDelete(id))
    BY <1>8, DeleteKeeps
  <1>9. CASE \/ \E id \in ServerIds, in \in AskedServers : ServerTest(id, in)
             \/ \E id \in ArrIds, in \in AskedArrs : ArrTest(id, in)
             \/ \E id \in ServerIds, in \in AskedTautullis : TautulliTest(id, in)
    BY <1>9, TestKeeps
  <1>10. CASE (\E id \in ServerIds : SyncAsks(id)) \/ SyncChecks \/ SyncAdopts
              \/ (\E l \in SUBSET ApiKeys : SyncSaves(l))
    BY <1>10, SyncKeeps
  <1>11. CASE ScanBegins \/ (\E st \in {"pending", "queued"} : ScanStores(st)) \/ Approve BY <1>11, ScanKeeps
  <1>12. CASE \/ MappingSaved(Conn("server", 1)) \/ MappingDeleted(Conn("server", 1))
              \/ \E id \in ServerIds, k \in ApiKeys : LibraryUpdate(id, k)
    <2>1. UNCHANGED <<servers, arrs, tauts, edit, sync, sweep, group, sent>>
      BY <1>12 DEF MappingSaved, MappingDeleted, LibraryUpdate
    <2> QED BY <2>1, ConnStutters
  <1> QED BY <1>1, <1>2, <1>3, <1>4, <1>5, <1>6, <1>7, <1>8, <1>9, <1>10, <1>11, <1>12, Zenon DEF ConnectionsNext

\* The other parts of the service leave the connections alone.
LEMMA OthersLeaveConnections ==
  BackupNext \/ SessionsNext \/ HostNext \/ ScheduleNext \/ NoticesNext \/ HealthNext \/ ConfigNext
    => UNCHANGED connVars
  <1>1. BackupNext => UNCHANGED connVars BY Zenon DEF BackupNext, BackupOnly
  <1>2. SessionsNext => UNCHANGED connVars BY Zenon DEF SessionsNext, SessionsOnly
  <1>3. HostNext => UNCHANGED connVars BY Zenon DEF HostNext, HostOnly
  <1>4. ScheduleNext => UNCHANGED connVars BY Zenon DEF ScheduleNext, ScheduleOnly
  <1>5. NoticesNext => UNCHANGED connVars BY Zenon DEF NoticesNext, NoticesOnly
  <1>6. HealthNext => UNCHANGED connVars BY Zenon DEF HealthNext, HealthOnly
  <1>7. ConfigNext => UNCHANGED connVars BY Zenon DEF ConfigNext, ConfigOnly
  <1> QED BY <1>1, <1>2, <1>3, <1>4, <1>5, <1>6, <1>7

\* A stored secret is only ever sent to the endpoint it was entered for, with the
\* certificate checked if it was then; and what a person approved, and is still
\* queued, was read by a scan that began after every recorded change of its
\* endpoints: for any number of connections, addresses, requests side by side and
\* library keys, and whatever tests, syncs and scans run beside them
\* (restoreSecret, endpointRepointed, adoptServerIdentity, adoptIdentity).
THEOREM SecretsStayHome == ServicesSpec => []ConnectionsHold
  <1>1. ServicesInit => ConnInv BY ConnInitially DEF ServicesInit
  <1>2. ConnInv /\ [ServicesNext]_servicesVars => ConnInv'
    <2> SUFFICES ASSUME ConnInv, [ServicesNext]_servicesVars PROVE ConnInv' OBVIOUS
    <2>1. CASE ConnectionsNext BY <2>1, ConnStep
    <2>2. CASE UNCHANGED connVars BY <2>2, ConnStutters DEF connVars
    <2>3. CASE UNCHANGED servicesVars BY <2>2, <2>3 DEF servicesVars
    <2> QED BY <2>1, <2>2, <2>3, OthersLeaveConnections DEF ServicesNext
  <1>3. ConnInv => ConnectionsHold
    <2> SUFFICES ASSUME ConnInv PROVE SecretStaysHome BY DEF ConnInv, ConnectionsHold
    <2>1. sent \in SentRec \/ sent = None BY DEF ConnInv, RequestsHome
    <2>2. CASE sent \in SentRec BY <2>2 DEF SentRec, SecretStaysHome
    <2>3. CASE sent = None BY <2>3 DEF None, SecretStaysHome
    <2> QED BY <2>1, <2>2, <2>3
  <1> QED BY <1>1, <1>2, <1>3, PTL DEF ServicesSpec

-----------------------------------------------------------------------------
(* Health: what the checks report, and the inductive invariant.            *)

\* What is worth an error, by the check and the subject of the issue.
Grave(src, sub) ==
  \/ src \in {"MediaServerConnectivity", "ArrConnectivity", "TautulliConnectivity", "Database"}
  \/ src = "RecycleBin" /\ sub = ""
  \/ src = "JellyfinServer" /\ sub \in {"version", "paths"}
Severity(src, sub) == IF Grave(src, sub) THEN Error ELSE Warning
\* No issue is a warning at one time and an error at another.
Rated(r) == r.sev = Notice \/ r.sev = Severity(r.src, r.sub)
AllRated(rs) == \A r \in rs : Rated(r)

\* An issue made with the severity of its check is rated.
LEMMA OneRated ==
  /\ \A src, sub, n, sev : sev = Notice \/ sev = Severity(src, sub) => AllRated(issueOf(src, sub, n, sev))
  /\ \A src, sev : sev = Notice \/ sev = Severity(src, "") => AllRated(issue(src, sev))
  <1>1. ASSUME NEW src, NEW sub, NEW n, NEW sev, sev = Notice \/ sev = Severity(src, sub)
        PROVE  AllRated({[src |-> src, sub |-> sub, n |-> n, sev |-> sev]})
    <2> PICK r : r = [src |-> src, sub |-> sub, n |-> n, sev |-> sev] OBVIOUS
    <2>1. r.src = src /\ r.sub = sub /\ r.sev = sev OBVIOUS
    <2> QED BY <1>1, <2>1, Zenon DEF AllRated, Rated
  <1> QED BY <1>1, Zenon DEF issueOf, issue

\* What is put together from rated issues is rated.
LEMMA Rates ==
  /\ AllRated({})
  /\ \A c, rs : AllRated(rs) => AllRated(When(c, rs))
  /\ \A a, b : AllRated(a) /\ AllRated(b) => AllRated(a \cup b)
  /\ \A sets : (\A a \in sets : AllRated(a)) => AllRated(forEach(sets))
  BY DEF AllRated, When, forEach

\* The severity of every check, as the checks of checks.go give it.
LEMMA Severities ==
  /\ \A src \in {"MediaServerConnectivity", "ArrConnectivity", "TautulliConnectivity", "Database"} : \A sub :
       Severity(src, sub) = Error
  /\ \A src \in {"NoMediaServer", "PlexMediaDeletion", "PlexOwner", "WatchHistory", "PathMapping", "Authentication",
                 "ExternalAuth", "WebhookApiKey", "ReverseProxy", "LastScan", "ArrServerLinks", "MultiServerMapping",
                 "SeparateServer", "MediaServerIdentity"} : \A sub :
       Severity(src, sub) = Warning
  /\ Severity("RecycleBin", "") = Error
  /\ \A sub \in {"ignore", "plexignore"} : Severity("RecycleBin", sub) = Warning
  /\ \A sub \in {"version", "paths"} : Severity("JellyfinServer", sub) = Error
  /\ Severity("JellyfinServer", "admin") = Warning
  BY DEF Severity, Grave

\* Every check gives an issue the one severity it has, or tells of it as a notice.
LEMMA ChecksRate == ASSUME NEW s, NEW w PROVE AllRated(checks(s, w))
  <1>1. AllRated(checkNoMediaServer(s)) BY OneRated, Rates, Severities DEF checkNoMediaServer
  <1>2. AllRated(checkMediaServerConnectivity(s, w)) BY OneRated, Rates, Severities DEF checkMediaServerConnectivity
  <1>3. AllRated(checkPlexMediaDeletion(s, w)) BY OneRated, Rates, Severities DEF checkPlexMediaDeletion
  <1>4. AllRated(checkPlexOwner(s, w)) BY OneRated, Rates, Severities DEF checkPlexOwner
  <1>5. AllRated(checkArrConnectivity(s, w)) BY OneRated, Rates, Severities DEF checkArrConnectivity
  <1>6. AllRated(checkArrRecycleBin(s, w)) BY OneRated, Rates, Severities DEF checkArrRecycleBin
  <1>7. AllRated(checkTautulliConnectivity(s, w)) BY OneRated, Rates, Severities DEF checkTautulliConnectivity
  <1>8. AllRated(checkWatchHistory(s, w))
    <2>1. \A i : AllRated(issueOf("WatchHistory", "server", i, Warning)) BY OneRated, Severities
    <2>2. \A i : AllRated(issueOf("WatchHistory", "tautulli", i, Notice)) BY OneRated
    <2>3. \A S : AllRated(forEach({issueOf("WatchHistory", "server", i, Warning) : i \in S})) BY <2>1, Rates
    <2>4. \A S : AllRated(forEach({When(w.tautullis[i].up /\ ~w.tautullis[i].keeps,
                                       issueOf("WatchHistory", "tautulli", i, Notice)) : i \in S}))
      BY <2>2, Rates
    <2> QED BY <2>3, <2>4, Rates, Zenon DEF checkWatchHistory
  <1>9. AllRated(checkPathMapping(s, w)) BY OneRated, Rates, Severities DEF checkPathMapping, jellyfinPathMappingIssues
  <1>10. AllRated(checkDiscDetection(s)) BY OneRated, Rates, Severities DEF checkDiscDetection
  <1>11. AllRated(checkRecycleBin(s, w)) BY OneRated, Rates, Severities DEF checkRecycleBin, jellyfinBinIssues
  <1>12. AllRated(checkJellyfinServers(s, w))
    <2>1. \A i : AllRated(jellyfinServerIssues(w, i)) BY OneRated, Rates, Severities DEF jellyfinServerIssues
    <2>2. AllRated(jellyfinBinNotice(s, w)) BY OneRated, Rates DEF jellyfinBinNotice
    <2> QED BY <2>1, <2>2, Rates DEF checkJellyfinServers
  <1>13. AllRated(checkDryRun(s)) BY OneRated, Rates, Severities DEF checkDryRun
  <1>14. AllRated(checkAuthentication(s)) BY OneRated, Rates, Severities DEF checkAuthentication
  <1>15. AllRated(checkExternalAuth(s, w)) BY OneRated, Rates, Severities DEF checkExternalAuth
  <1>16. AllRated(checkWebhookAPIKey(w)) BY OneRated, Rates, Severities DEF checkWebhookAPIKey
  <1>17. AllRated(checkReverseProxy(w)) BY OneRated, Rates, Severities DEF checkReverseProxy
  <1>18. AllRated(checkLastScan(w)) BY OneRated, Rates, Severities DEF checkLastScan
  <1>19. AllRated(checkDatabase(w)) BY OneRated, Rates, Severities DEF checkDatabase
  <1>20. AllRated(checkMultiServerFolders(s)) BY OneRated, Rates, Severities DEF checkMultiServerFolders
  <1>21. AllRated(checkArrServerLinks(s)) BY OneRated, Rates, Severities DEF checkArrServerLinks
  <1>22. AllRated(checkMultiServerMapping(s)) BY OneRated, Rates, Severities DEF checkMultiServerMapping
  <1>23. AllRated(checkSeparateServer(s, w)) BY OneRated, Rates, Severities DEF checkSeparateServer
  <1>24. AllRated(checkMediaServerIdentity(s)) BY OneRated, Rates, Severities DEF checkMediaServerIdentity
  <1> QED
    BY <1>1, <1>2, <1>3, <1>4, <1>5, <1>6, <1>7, <1>8, <1>9, <1>10, <1>11, <1>12, <1>13, <1>14, <1>15, <1>16, <1>17,
       <1>18, <1>19, <1>20, <1>21, <1>22, <1>23, <1>24, Zenon DEF checks, AllRated

\* What a check that hangs reports is rated too (runOne).
LEMMA RunRates ==
  ASSUME NEW found, AllRated(found), NEW hung \in {"", "PlexMediaDeletion"}
  PROVE  AllRated(runOne(found, hung))
  <1>1. AllRated(issueOf("PlexMediaDeletion", "timeout", 0, Warning)) BY OneRated, Severities
  <1>2. AllRated({r \in found : r.src # hung}) BY DEF AllRated
  <1> QED BY <1>1, <1>2, Rates DEF runOne

\* An issue a person is told of, and whether a set has one about the same.
Firm(r) == Rated(r) /\ serious(r)
Has(rs, r) == \E x \in rs : SameKey(x, r)
Alerts(rs) == {r \in rs : serious(r)}
SameIssues(a, b) == (\A r \in a : Has(b, r)) /\ (\A r \in b : Has(a, r))

AllFirm(rs) == \A r \in rs : Firm(r)
\* What a run tells as new, and what was told after it.
newsOf(known, all) == IF starting THEN {} ELSE appearedOf(known, all)
toldBy(before, known, all) ==
  {t \in before : ~\E r \in restoredOf(known, all) \cup newsOf(known, all) : SameKey(r, t)} \cup newsOf(known, all)

\* What is remembered, in the store and by the checker, and what was told, are the
\* same issues, and after a run outside the grace period those it shows.
HealthInv ==
  /\ AllFirm(told \cup savedIssues \cup notified)
  /\ ~loaded => notified = {}
  /\ ~lost => /\ loaded => savedIssues = notified
              /\ SameIssues(told, savedIssues)
              /\ repeated = {}
              /\ fresh /\ ~starting => SameIssues(told, Alerts(shown))

\* Two issues about the same weigh the same.
LEMMA SameWeight == ASSUME NEW a, NEW b, Firm(a), Firm(b), SameKey(a, b) PROVE a.sev <= b.sev
  <1>1. a.sev = Severity(a.src, a.sub) /\ b.sev = Severity(b.src, b.sub)
    BY DEF Firm, Rated, serious, Notice, Warning
  <1>2. a.sev = b.sev BY <1>1 DEF SameKey
  <1>3. a.sev \in {Error, Warning} BY <1>1 DEF Severity
  <1> QED BY <1>2, <1>3 DEF Error, Warning

\* An issue appears when nothing about the same was known: none returns graver.
LEMMA Appears ==
  ASSUME NEW known, NEW all, \A n \in known : Firm(n), AllRated(all)
  PROVE  appearedOf(known, all) = {r \in Alerts(all) : ~Has(known, r)}
  <1>1. \A r \in Alerts(all) : Firm(r) BY DEF Alerts, Firm, AllRated
  <1>2. \A r \in Alerts(all), n \in known : SameKey(n, r) => SameKey(r, n) BY DEF SameKey
  <1>3. \A r \in Alerts(all), n \in known : SameKey(n, r) => r.sev <= n.sev BY <1>1, <1>2, SameWeight
  <1> QED BY <1>3, Zenon DEF appearedOf, Alerts, Has

\* What is known after a run, and what was told by then, are the same issues.
LEMMA ToldAfter ==
  ASSUME NEW known, NEW all, NEW before, AllFirm(known), AllRated(all), SameIssues(before, known)
  PROVE  /\ SameIssues(toldBy(before, known, all), recorded(known, all))
         /\ ~starting => recorded(known, all) = Alerts(all)
         /\ newsOf(known, all) \cap before = {}
  <1> DEFINE appeared == newsOf(known, all)
             after == toldBy(before, known, all)
             news == IF starting THEN appearedOf(known, all) ELSE {}
             now == {r \in Alerts(all) : r \notin news} \cup {n \in known : \E r \in news : SameKey(r, n)}
  <1>1. recorded(known, all) = now BY Zenon DEF recorded, Alerts
  <1>2. restoredOf(known, all) = {n \in known : ~Has(Alerts(all), n)} BY Zenon DEF restoredOf, Has, Alerts
  <1>3. /\ \A r : r \in appearedOf(known, all) <=> r \in Alerts(all) /\ ~Has(known, r)
        /\ \A r : r \in appeared <=> ~starting /\ r \in appearedOf(known, all)
    BY Appears DEF AllFirm, newsOf
  <1>4. \A a, b, c : SameKey(a, b) /\ SameKey(b, c) => SameKey(a, c) BY DEF SameKey
  <1>5. \A a, b : SameKey(a, b) => SameKey(b, a) BY DEF SameKey
  <1>6. \A a : SameKey(a, a) BY DEF SameKey
  <1>7. \A r : r \in now <=> (r \in Alerts(all) /\ r \notin news) \/ (r \in known /\ \E x \in news : SameKey(x, r))
    OBVIOUS
  <1>8. \A t : t \in after <=> (t \in before /\ ~\E r \in restoredOf(known, all) \cup appeared : SameKey(r, t)) \/ t \in appeared
    BY DEF toldBy
  <1>9. \A r : r \in restoredOf(known, all) <=> r \in known /\ ~Has(Alerts(all), r) BY <1>2
  <1> HIDE DEF now, after
  <1>10. ASSUME NEW t \in after PROVE Has(now, t)
    <2>1. CASE t \in appeared
      <3>1. ~starting /\ t \in Alerts(all) BY <1>3, <2>1
      <3> QED BY <1>6, <1>7, <3>1 DEF Has
    <2>2. CASE t \notin appeared
      <3>1. PICK x \in known : SameKey(x, t) BY <1>8, <2>2 DEF SameIssues, Has
      <3>2. x \notin restoredOf(known, all) BY <1>8, <2>2, <3>1
      <3>3. PICK r \in Alerts(all) : SameKey(r, x) BY <1>9, <3>2 DEF Has
      <3>4. SameKey(r, t) BY <1>4, <3>1, <3>3
      <3>5. CASE r \in news BY <1>7, <3>1, <3>3, <3>5 DEF Has
      <3>6. CASE r \notin news BY <1>7, <3>4, <3>6 DEF Has
      <3> QED BY <3>5, <3>6
    <2> QED BY <2>1, <2>2
  <1>11. ASSUME NEW r \in now PROVE Has(after, r)
    <2>1. PICK a \in Alerts(all) : SameKey(a, r)
      <3>1. CASE r \in Alerts(all) BY <1>6, <3>1
      <3>2. CASE r \notin Alerts(all)
        <4>1. PICK x \in news : SameKey(x, r) BY <1>7, <3>2
        <4>2. x \in Alerts(all) BY <1>3, <4>1
        <4> QED BY <4>1, <4>2
      <3> QED BY <3>1, <3>2
    <2>2. CASE Has(known, r)
      <3>1. PICK x \in known : SameKey(x, r) BY <2>2 DEF Has
      <3>2. PICK t \in before : SameKey(t, x) BY <3>1 DEF SameIssues, Has
      <3>3. SameKey(t, r) /\ SameKey(x, t) /\ SameKey(a, t) BY <1>4, <1>5, <2>1, <3>1, <3>2
      <3>4. ASSUME NEW y \in restoredOf(known, all), SameKey(y, t) PROVE FALSE
        <4>1. SameKey(a, y) BY <1>4, <1>5, <3>3, <3>4
        <4> QED BY <1>9, <4>1 DEF Has
      <3>5. ASSUME NEW y \in appeared, SameKey(y, t) PROVE FALSE
        <4>1. SameKey(x, y) BY <1>4, <1>5, <3>3, <3>5
        <4>2. Has(known, y) BY <4>1 DEF Has
        <4> QED BY <1>3, <4>2
      <3>6. t \in after BY <1>8, <3>4, <3>5
      <3> QED BY <3>3, <3>6 DEF Has
    <2>3. CASE ~Has(known, r)
      <3>1. r \notin known BY <1>6, <2>3 DEF Has
      <3>2. r \in Alerts(all) /\ r \notin news BY <1>7, <3>1
      <3>3. r \in appearedOf(known, all) /\ ~starting BY <1>3, <2>3, <3>2
      <3>4. r \in after BY <1>3, <1>8, <3>3
      <3> QED BY <1>6, <3>4 DEF Has
    <2> QED BY <2>2, <2>3
  <1>12. ~starting => recorded(known, all) = Alerts(all) BY <1>1, <1>7
  <1>13. ASSUME NEW r \in appeared, r \in before PROVE FALSE
    <2>1. PICK x \in known : SameKey(x, r) BY <1>13 DEF SameIssues, after, Has
    <2> QED BY <1>3, <2>1 DEF Has
  <1> QED BY <1>1, <1>10, <1>11, <1>12, <1>13 DEF SameIssues, after

\* A run of the checks tells, remembers and saves (processChanges).
LEMMA ProcessKeeps ==
  ASSUME HealthInv, NEW hung \in {"", "PlexMediaDeletion"}, NEW saves \in BOOLEAN, Process(hung, saves)
  PROVE  HealthInv'
  <1> DEFINE found == runOne(checks(load, Situations[situation]), hung)
             memory == loadNotified
             news == newsOf(memory, found)
             now == recorded(memory, found)
  <1>1. AllRated(found) BY ChecksRate, RunRates
  <1>2. AllFirm(memory) BY DEF loadNotified, HealthInv, AllFirm
  <1>3. /\ shown' = found /\ notified' = now /\ loaded' = TRUE /\ starting' = starting
        /\ savedIssues' = IF saves /\ Situations[situation].store /\ now # memory THEN now ELSE savedIssues
        /\ told' = toldBy(told, memory, found)
        /\ repeated' = repeated \cup {r \in news : \E t \in told : t = r /\ \E k \in shown : k = r}
        /\ lost' = (lost \/ ~saves \/ ~Situations[situation].store)
    BY Zenon DEF Process, toldBy, newsOf
  <1> HIDE DEF found, memory
  <1>4. \A r \in now : Firm(r) BY <1>1, <1>2, Zenon DEF recorded, AllRated, AllFirm, Firm
  <1>5. \A r \in news : Firm(r) BY <1>1, Zenon DEF newsOf, appearedOf, AllRated, Firm
  <1> HIDE DEF now
  <1>6. AllFirm(told' \cup savedIssues' \cup notified')
    <2>1. \A r \in told' : r \in told \/ r \in news BY <1>3 DEF toldBy
    <2>2. \A r \in savedIssues' : r \in savedIssues \/ r \in now BY <1>3
    <2> QED BY <1>3, <1>4, <1>5, <2>1, <2>2, Zenon DEF HealthInv, AllFirm
  <1>7. ASSUME ~lost'
        PROVE  /\ savedIssues' = notified' /\ SameIssues(told, savedIssues)' /\ repeated' = {}
               /\ fresh' /\ ~starting' => SameIssues(told, Alerts(shown))'
    <2>1. ~lost /\ saves /\ Situations[situation].store BY <1>3, <1>7
    <2>2. memory = savedIssues BY <2>1 DEF memory, loadNotified, HealthInv
    <2>3. savedIssues' = now BY <1>3, <2>1, <2>2
    <2>4. SameIssues(told, memory) BY <2>1, <2>2 DEF HealthInv
    <2>5. SameIssues(told', now) BY <1>1, <1>2, <1>3, <2>4, ToldAfter DEF now
    <2>6. ~starting => now = Alerts(found) BY <1>1, <1>2, <2>4, ToldAfter DEF now
    <2>7. news \cap told = {} BY <1>1, <1>2, <2>4, ToldAfter
    <2>8. SameIssues(told, savedIssues)' BY <2>3, <2>5 DEF SameIssues, Has
    <2>9. repeated' = {} BY <1>3, <2>1, <2>7 DEF HealthInv
    <2>10. ASSUME ~starting' PROVE SameIssues(told, Alerts(shown))'
      <3>1. now = Alerts(shown') BY <1>3, <2>6, <2>10
      <3> QED BY <2>5, <3>1 DEF SameIssues, Has, Alerts
    <2> QED BY <1>3, <2>3, <2>8, <2>9, <2>10
  <1>8. AllFirm(told \cup savedIssues \cup notified)' BY <1>6, Zenon DEF AllFirm
  <1>9. loaded' BY <1>3
  <1> QED BY <1>7, <1>8, <1>9, Zenon DEF HealthInv

\* Every other step leaves alone what was told.
LEMMA HealthStep == ASSUME HealthInv, HealthNext PROVE HealthInv'
  <1>1. CASE \E a \in BOOLEAN : Load(a) BY <1>1 DEF Load, HealthInv
  <1>2. CASE Cancelled BY <1>2 DEF Cancelled, HealthInv
  <1>3. CASE \E hung \in {"", "PlexMediaDeletion"}, saves \in BOOLEAN : Process(hung, saves)
    BY <1>3, ProcessKeeps
  <1>4. CASE \E i \in DOMAIN Situations : SituationTurns(i) BY <1>4 DEF SituationTurns, HealthInv
  <1>5. CASE GraceEnds BY <1>5 DEF GraceEnds, HealthInv
  <1>6. CASE Reboot BY <1>6 DEF Reboot, HealthInv, AllFirm
  <1> QED BY <1>1, <1>2, <1>3, <1>4, <1>5, <1>6, Zenon DEF HealthNext

\* The invariant gives the property, in the terms of Health.
LEMMA TellsRight == HealthInv => ToldRight
  <1> SUFFICES ASSUME HealthInv PROVE ToldRight OBVIOUS
  <1>1. ToldOnce BY DEF HealthInv, ToldOnce
  <1>2. ASSUME fresh, ~starting, ~lost, NEW src
        PROVE  {<<r.sub, r.n>> : r \in {x \in shown : x.src = src /\ serious(x)}}
                 = {<<t.sub, t.n>> : t \in {x \in told : x.src = src}}
    <2>1. SameIssues(told, Alerts(shown)) BY <1>2 DEF HealthInv
    <2>2. ASSUME NEW r \in shown, r.src = src, serious(r)
          PROVE  \E t \in told : t.src = src /\ <<t.sub, t.n>> = <<r.sub, r.n>>
      BY <2>1, <2>2 DEF SameIssues, Has, Alerts, SameKey
    <2>3. ASSUME NEW t \in told, t.src = src
          PROVE  \E r \in shown : r.src = src /\ serious(r) /\ <<r.sub, r.n>> = <<t.sub, t.n>>
      BY <2>1, <2>3 DEF SameIssues, Has, Alerts, SameKey
    <2> QED BY <2>2, <2>3
  <1>3. ToldWhatStands BY <1>2 DEF ToldWhatStands
  <1> QED BY <1>1, <1>3 DEF ToldRight

\* The other parts leave health alone.
LEMMA OthersLeaveHealth ==
  ASSUME BackupNext \/ SessionsNext \/ HostNext \/ ConnectionsNext \/ ScheduleNext \/ NoticesNext \/ ConfigNext
  PROVE  UNCHANGED healthVars
  <1>1. CASE BackupNext BY <1>1, Zenon DEF BackupNext, BackupOnly
  <1>2. CASE SessionsNext BY <1>2, Zenon DEF SessionsNext, SessionsOnly
  <1>3. CASE HostNext BY <1>3, Zenon DEF HostNext, HostOnly
  <1>4. CASE ConnectionsNext BY <1>4, Zenon DEF ConnectionsNext, ConnectionsOnly, Asking
  <1>5. CASE ScheduleNext BY <1>5, Zenon DEF ScheduleNext, ScheduleOnly
  <1>6. CASE NoticesNext BY <1>6, Zenon DEF NoticesNext, NoticesOnly
  <1>7. CASE ConfigNext BY <1>7, Zenon DEF ConfigNext, ConfigOnly
  <1> QED BY <1>1, <1>2, <1>3, <1>4, <1>5, <1>6, <1>7

\* In every behaviour of the service, for whatever situations it meets: unless the
\* store failed to keep what was told, the person was told of exactly what stands
\* after a run outside the grace period, and of nothing twice, restarts and held-back
\* notifications included (processChanges, saveNotified).
THEOREM HealthIsTold == ServicesSpec => []ToldRight
  <1>1. ServicesInit => HealthInv BY DEF ServicesInit, HealthInit, HealthInv, AllFirm, SameIssues
  <1>2. HealthInv /\ [ServicesNext]_servicesVars => HealthInv'
    <2> SUFFICES ASSUME HealthInv, [ServicesNext]_servicesVars PROVE HealthInv' OBVIOUS
    <2>1. CASE HealthNext BY <2>1, HealthStep
    <2>2. CASE UNCHANGED healthVars BY <2>2, Zenon DEF healthVars, HealthInv, AllFirm, SameIssues, Has, Alerts
    <2> QED BY <2>1, <2>2, OthersLeaveHealth, Zenon DEF ServicesNext, servicesVars
  <1> QED BY <1>1, <1>2, TellsRight, PTL DEF ServicesSpec

-----------------------------------------------------------------------------
(* Backups: the inductive invariant, types.                               *)

Gens == 1 .. MaxStagings
Stamps == Clock \cup {0}
StoredDB == {d \in DBRec : d.gen # -2}
StoredConfig == {c \in ConfigRec : c.gen # -2}
\* What a restore may bring: a staged database queues no removal.
NewDB == {d \in DBRec : d.gen \in Gens /\ ~d.removals /\ d.safe}
NewConfig == {c \in ConfigRec : c.gen \in Gens}
States == {<<>>} \cup (Int \X Int \X Int \X Int)

Swapping == {"swap db", "move db", "place db", "swap config", "place config"}
Phases == {"up", "down", "pending", "clear", "prune", "open"} \cup Swapping

LiveRec == [db : StoredDB \cup {Absent}, wal : Int, config : StoredConfig \cup {Absent}]
StagedRec == [there : BOOLEAN, db : NewDB \cup {Absent}, config : NewConfig \cup {Absent}, unconfirmed : BOOLEAN,
              security : BOOLEAN, state : States, applying : Stamps]
BuildingRec == [phase : {"idle", "built", "marked"}, db : NewDB \cup {Absent}, config : NewConfig \cup {Absent},
                security : BOOLEAN, state : States, confirmed : BOOLEAN]
BootRec == [phase : Phases, stamp : Stamps, bak : Nat]
ReplacedRec == [gen : Int, wal : Int, stamp : Stamps]
LeftRec == [stagings : 0 .. MaxStagings, deaths : Int, changes : Int, backups : Int]

BackupTypes ==
  /\ live \in LiveRec /\ staged \in StagedRec /\ building \in BuildingRec /\ boot \in BootRec
  /\ ghost \in [approved : SUBSET Gens, replaced : SUBSET ReplacedRec]
  /\ backupLeft \in LeftRec /\ clock \in Clock /\ IsFiniteSet(kept)
  /\ \A a \in archives : a.db \in DBRec /\ a.config \in ConfigRec
  /\ building.phase # "idle" => building.db # Absent /\ building.config # Absent /\ building.db.gen = building.config.gen

-----------------------------------------------------------------------------
(* The inductive invariant: what a restore has done so far.                *)

\* A restore is under way while its marker is there.
Applying == staged.there /\ staged.applying # 0

\* Where the start is, and what it found or did so far.
PhasesOK ==
  /\ building.phase # "idle" => boot.phase = "up"
  /\ boot.phase \in {"up", "prune", "open"} => staged.applying = 0
  /\ boot.phase \in Swapping => Applying /\ boot.stamp = staged.applying
  /\ boot.phase \in {"move db", "place db"} => staged.db # Absent
  /\ boot.phase \in {"swap config", "place config", "clear"} => staged.db = Absent
  /\ boot.phase = "place config" => staged.config # Absent /\ live.config = Absent
  /\ boot.phase = "move db" => live.wal = -2
  /\ boot.phase = "place db" => live.db = Absent
  /\ boot.phase = "clear" => staged.there /\ staged.config = Absent
  /\ boot.phase \in {"clear", "prune"} => \A r \in ghost.replaced : r.stamp = boot.stamp

\* Which files belong together: those staged; those live, before and after a
\* restore; and a database that is in place with the config.xml that is not yet.
\* A log is the live database's.
Matching ==
  /\ live.wal \in {-2, live.db.gen}
  /\ staged.db # Absent => staged.config # Absent /\ staged.db.gen = staged.config.gen
  /\ ~Applying \/ (staged.db = Absent /\ staged.config = Absent) =>
       live.db.gen = live.config.gen /\ live.db # Absent /\ live.config # Absent
  /\ Applying /\ staged.db = Absent /\ staged.config # Absent =>
       live.db # Absent /\ live.db.gen = staged.config.gen

\* What is applied, or would be at the next start, was asked for.
Asked ==
  /\ Applying => ~staged.unconfirmed
  /\ staged.there /\ ~staged.unconfirmed /\ staged.db # Absent => staged.db.gen \in ghost.approved

\* The first number of a kept file's name that is free.
Taken(name, stamp, n) == \E k \in kept : k.name = name /\ k.stamp = stamp /\ k.n = n
FirstFree(name, stamp, n) ==
  n \in Nat /\ ~Taken(name, stamp, n) /\ \A m \in Nat : m < n => Taken(name, stamp, m)

\* A replaced file is kept, the database with its log under one number.
KeptFile(name, r) == \E k \in kept : k.name = name /\ k.stamp = r.stamp /\ k.gen = r.gen
KeptLog(r) ==
  \E d, w \in kept : /\ d.name = "db" /\ w.name = "wal" /\ d.stamp = r.stamp /\ w.stamp = r.stamp
                     /\ d.n = w.n /\ d.gen = r.gen /\ w.gen = r.wal
KeptDB(r) == KeptFile("db", r) /\ (r.wal # -2 => KeptLog(r))
\* A database that is still to be moved away; its log may have gone ahead.
LogAhead(r) ==
  \E w \in kept : w.name = "wal" /\ w.stamp = r.stamp /\ w.gen = r.wal /\ FirstFree("db", r.stamp, w.n)
LiveDB(r) == live.db # Absent /\ live.db.gen = r.gen /\ (r.wal # -2 => live.wal = r.wal \/ LogAhead(r))
LiveConfig(r) == live.config # Absent /\ live.config.gen = r.gen

\* What the last restore replaced is kept, or is still to be replaced.
Undoable(r) ==
  /\ ~Applying => KeptDB(r) /\ KeptFile("config", r)
  /\ Applying => r.stamp = staged.applying
  /\ Applying /\ staged.db # Absent => (KeptDB(r) \/ LiveDB(r)) /\ LiveConfig(r)
  /\ Applying /\ staged.db = Absent =>
       KeptDB(r) /\ (KeptFile("config", r) \/ (staged.config # Absent /\ LiveConfig(r)))

BackupInv ==
  /\ BackupTypes /\ PhasesOK /\ Matching /\ Asked
  /\ boot.phase = "move db" => FirstFree("db", boot.stamp, boot.bak)
  /\ \A r \in ghost.replaced : Undoable(r)

-----------------------------------------------------------------------------
(* The names of the files that are kept.                                   *)

\* A set of natural numbers that is not empty has a smallest one.
LEMMA LeastNumber == ASSUME NEW S \in SUBSET Nat, S # {} PROVE \E x \in S : \A y \in S : x <= y
  <1> DEFINE R == OpToRel(<, Nat)
  <1>1. IsWellFoundedOn(R, Nat) BY NatLessThanWellFounded
  <1>2. \A x, y \in Nat : <<y, x>> \in R <=> y < x BY DEF OpToRel
  <1> HIDE DEF R
  <1>3. PICK x \in S : \A y \in S : ~(<<y, x>> \in R) BY <1>1, WFMin
  <1>4. \A y \in S : ~(y < x) BY <1>2, <1>3, Zenon
  <1> QED BY <1>4

\* One number more than there are files cannot all be taken (freeName).
LEMMA NumberLeft ==
  ASSUME IsFiniteSet(kept), NEW name, NEW stamp
  PROVE  \E n \in 0 .. Cardinality(kept) : ~Taken(name, stamp, n)
  <1> DEFINE c == Cardinality(kept)
             U == {k \in kept : k.name = name /\ k.stamp = stamp /\ k.n \in 0 .. c}
             f == [k \in U |-> k.n]
  <1>1. c \in Nat BY FS_CardinalityType
  <1>2. IsFiniteSet(U) /\ Cardinality(U) <= c BY FS_Subset
  <1> HIDE DEF c
  <1> SUFFICES ASSUME \A n \in 0 .. c : Taken(name, stamp, n) PROVE FALSE BY DEF c
  <1>3. f \in Surjection(U, 0 .. c)
    <2>1. f \in [U -> 0 .. c] OBVIOUS
    <2>2. \A n \in 0 .. c : \E k \in U : f[k] = n BY DEF Taken
    <2> HIDE DEF f, U
    <2> QED BY <2>1, <2>2 DEF Surjection
  <1> HIDE DEF f, U
  <1>4. Cardinality(0 .. c) <= Cardinality(U) BY <1>2, <1>3, FS_Surjection
  <1>5. Cardinality(0 .. c) = c + 1 BY <1>1, FS_Interval
  <1>6. Cardinality(U) \in Nat BY <1>2, FS_CardinalityType
  <1> QED BY <1>1, <1>2, <1>4, <1>5, <1>6

\* freeName gives the first free number.
LEMMA FreeNumber ==
  ASSUME IsFiniteSet(kept), NEW name, NEW stamp
  PROVE  FirstFree(name, stamp, freeName(name, stamp))
  <1> DEFINE c == Cardinality(kept)
             S == {n \in 0 .. c : ~Taken(name, stamp, n)}
  <1>1. c \in Nat BY FS_CardinalityType
  <1>2. S # {} BY NumberLeft
  <1>3. \E x \in S : \A y \in S : x <= y
    <2>1. S \in SUBSET Nat BY <1>1
    <2> HIDE DEF S
    <2> QED BY <1>2, <2>1, LeastNumber
  <1>4. freeName(name, stamp) = Min(S) BY DEF freeName, Taken
  <1>5. freeName(name, stamp) \in S /\ \A y \in S : freeName(name, stamp) <= y
    BY <1>3, <1>4 DEF Min
  <1> HIDE DEF c
  <1>6. ASSUME NEW m \in Nat, m < freeName(name, stamp) PROVE Taken(name, stamp, m)
    BY <1>1, <1>5, <1>6
  <1> QED BY <1>1, <1>5, <1>6 DEF FirstFree

\* There is one first free number.
LEMMA OneFirstFree ==
  ASSUME NEW name, NEW stamp, NEW n, NEW m, FirstFree(name, stamp, n), FirstFree(name, stamp, m)
  PROVE  n = m
  BY DEF FirstFree

-----------------------------------------------------------------------------
(* What a step leaves alone.                                               *)

\* More files kept are no file lost.
LEMMA KeptLonger ==
  ASSUME kept \subseteq kept'
  PROVE  /\ \A r : KeptDB(r) => KeptDB(r)'
         /\ \A name, r : KeptFile(name, r) => KeptFile(name, r)'
  BY DEF KeptDB, KeptFile, KeptLog

\* The files stay as they are.
LEMMA FilesStay ==
  ASSUME UNCHANGED <<live, kept>>
  PROVE  /\ \A r : (KeptDB(r)' = KeptDB(r)) /\ (LiveDB(r)' = LiveDB(r)) /\ (LiveConfig(r)' = LiveConfig(r))
         /\ \A name, r : KeptFile(name, r)' = KeptFile(name, r)
         /\ \A name, s, n : FirstFree(name, s, n)' = FirstFree(name, s, n)
  BY DEF KeptDB, KeptFile, KeptLog, LiveDB, LogAhead, FirstFree, Taken, LiveConfig

\* A step about archives, the staging in progress or the clock.
LEMMA QuietKeeps ==
  ASSUME BackupInv, UNCHANGED <<live, staged, kept, boot, ghost>>, BackupTypes',
         building'.phase # "idle" => boot.phase = "up"
  PROVE  BackupInv'
  <1>1. PhasesOK' /\ Matching' /\ Asked' /\ Applying' = Applying
    BY DEF BackupInv, PhasesOK, Matching, Asked, Applying
  <1>2. \A r \in ghost.replaced : Undoable(r)' BY <1>1, FilesStay DEF BackupInv, Undoable
  <1> QED BY <1>1, <1>2, FilesStay DEF BackupInv

\* While it runs, the program has its files, and no restore is under way.
LEMMA UpHasFiles ==
  ASSUME BackupInv, Up
  PROVE  /\ ~Applying /\ staged.applying = 0
         /\ live.db \in StoredDB /\ live.config \in StoredConfig /\ live.db.gen = live.config.gen
  BY DEF BackupInv, Up, PhasesOK, Matching, Applying, BackupTypes, LiveRec

-----------------------------------------------------------------------------
(* Backups and staging.                                                    *)

\* Making and deleting backups, and a clock that is set.
LEMMA ArchivesKeep ==
  ASSUME BackupInv,
         \/ \E kind \in {"manual", "scheduled"} : Create(kind)
         \/ (\E a \in archives : Delete(a)) \/ Cleanup
         \/ \E t \in Clock : ClockSet(t)
  PROVE  BackupInv'
  <1>1. BackupTypes BY DEF BackupInv
  <1>2. CASE \E kind \in {"manual", "scheduled"} : Create(kind)
    <2> PICK kind \in {"manual", "scheduled"} : Create(kind) BY <1>2
    <2>1. live.db \in DBRec /\ live.config \in ConfigRec
      BY UpHasFiles DEF Create, StoredDB, StoredConfig
    <2>2. PICK d \in DBRec : d = scrubSnapshot(live.db) BY <2>1 DEF scrubSnapshot, DBRec
    <2>3. \A a \in archives' : a.db \in DBRec /\ a.config \in ConfigRec BY <1>1, <2>1, <2>2 DEF Create, BackupTypes
    <2>4. backupLeft' \in LeftRec BY <1>1 DEF Create, BackupTypes, LeftRec
    <2>5. BackupTypes' BY <1>1, <2>3, <2>4 DEF Create, BackupTypes
    <2> QED BY <2>5, QuietKeeps DEF Create, Up
  <1>3. CASE (\E a \in archives : Delete(a)) \/ Cleanup
    <2>1. archives' \subseteq archives /\ UNCHANGED <<live, staged, kept, building, boot, clock, ghost, backupLeft>>
          /\ Up
      BY <1>3 DEF Delete, Cleanup
    <2>2. BackupTypes' BY <1>1, <2>1 DEF BackupTypes
    <2> QED BY <2>1, <2>2, QuietKeeps DEF Up
  <1>4. CASE \E t \in Clock : ClockSet(t)
    <2>1. backupLeft' \in LeftRec BY <1>1, <1>4 DEF ClockSet, BackupTypes, LeftRec
    <2>2. BackupTypes' BY <1>1, <1>4, <2>1 DEF ClockSet, BackupTypes
    <2> QED BY <1>4, <2>2, QuietKeeps DEF ClockSet, Up
  <1> QED BY <1>2, <1>3, <1>4

\* What is built from an archive belongs together and queues no removal
\* (RebuildInto, neutralizeRemovals).
LEMMA BuildsInert ==
  ASSUME NEW a, a.db \in DBRec, a.config \in ConfigRec, NEW security \in BOOLEAN, NEW gen \in Gens,
         live.db \in DBRec, live.config \in ConfigRec
  PROVE  /\ rebuildInto(a, security, gen).db \in NewDB
         /\ rebuildInto(a, security, gen).config \in NewConfig
         /\ rebuildInto(a, security, gen).db.gen = gen /\ rebuildInto(a, security, gen).config.gen = gen
  <1>1. gen \in Int BY BackupAssumption DEF Gens
  <1>2. PICK d : d = copyRows(a, security) OBVIOUS
  <1>3. d \in DBRec BY <1>2 DEF copyRows, DBRec
  <1>4. PICK e : e = [neutralizeRemovals(d) EXCEPT !.gen = gen] OBVIOUS
  <1>5. e \in NewDB /\ e.gen = gen BY <1>1, <1>3, <1>4 DEF neutralizeRemovals, NewDB, DBRec
  <1>6. PICK p : p = planRestore(a, security) OBVIOUS
  <1>7. p \in ConfigRec BY <1>6 DEF planRestore, ConfigRec
  <1>8. PICK q : q = [p EXCEPT !.gen = gen] OBVIOUS
  <1>9. q \in NewConfig /\ q.gen = gen BY <1>1, <1>7, <1>8 DEF NewConfig, ConfigRec
  <1> QED BY <1>2, <1>4, <1>5, <1>6, <1>8, <1>9 DEF rebuildInto

\* A staging that begins, or fails.
LEMMA BuildKeeps ==
  ASSUME BackupInv,
         \/ \E a \in Uploads \cup archives, security, confirmed \in BOOLEAN : StageBuild(a, security, confirmed)
         \/ StageMark \/ StageFails
  PROVE  BackupInv'
  <1>1. BackupTypes BY DEF BackupInv
  <1>2. CASE \E a \in Uploads \cup archives, security, confirmed \in BOOLEAN : StageBuild(a, security, confirmed)
    <2> PICK a \in Uploads \cup archives, security \in BOOLEAN, confirmed \in BOOLEAN : StageBuild(a, security, confirmed)
      BY <1>2
    <2>1. live.db \in DBRec /\ live.config \in ConfigRec
      BY UpHasFiles DEF StageBuild, StoredDB, StoredConfig
    <2>2. a.db \in DBRec /\ a.config \in ConfigRec BY <1>1, BackupAssumption DEF BackupTypes
    <2>3. PICK gen : gen = MaxStagings - backupLeft.stagings + 1 OBVIOUS
    <2>4. gen \in Gens BY <1>1, <2>3, BackupAssumption DEF StageBuild, Gens, BackupTypes, LeftRec
    <2>5. PICK new : new = rebuildInto(a, security, gen) OBVIOUS
    <2>6. new.db \in NewDB /\ new.config \in NewConfig /\ new.db.gen = new.config.gen
      BY <2>1, <2>2, <2>4, <2>5, BuildsInert
    <2>7. building' = [phase |-> IF confirmed THEN "marked" ELSE "built", confirmed |-> confirmed, security |-> security,
                       state |-> <<>>, db |-> new.db, config |-> new.config]
      BY <2>3, <2>5 DEF StageBuild
    <2>8. new.db # Absent /\ new.config # Absent
      BY <2>6, BackupAssumption DEF NewDB, NewConfig, DBRec, ConfigRec, Absent, Gens
    <2>9. building' \in BuildingRec BY <2>6, <2>7 DEF BuildingRec, States
    <2>10. backupLeft' \in LeftRec BY <1>1, BackupAssumption DEF StageBuild, BackupTypes, LeftRec
    <2>11. BackupTypes' BY <1>1, <2>6, <2>7, <2>8, <2>9, <2>10 DEF StageBuild, BackupTypes
    <2> QED BY <2>11, QuietKeeps DEF StageBuild, Up
  <1>3. CASE StageMark
    <2>1. live.db \in DBRec /\ live.config \in ConfigRec
      BY <1>3, UpHasFiles DEF StageMark, StoredDB, StoredConfig
    <2>2. PICK state : state = securityFingerprint(live) OBVIOUS
    <2>3. state \in States BY <2>1, <2>2 DEF securityFingerprint, States, DBRec, ConfigRec
    <2>4. building' = [building EXCEPT !.phase = "marked", !.state = state] BY <1>3, <2>2 DEF StageMark
    <2>5. building' \in BuildingRec /\ building'.db = building.db /\ building'.config = building.config
      BY <1>1, <2>3, <2>4 DEF BackupTypes, BuildingRec
    <2>6. BackupTypes' BY <1>1, <1>3, <2>5 DEF StageMark, BackupTypes
    <2> QED BY <1>3, <2>6, QuietKeeps DEF StageMark, Up
  <1>4. CASE StageFails
    <2>1. building' = NotBuilding /\ NotBuilding \in BuildingRec /\ NotBuilding.phase = "idle"
      BY <1>4 DEF StageFails, NotBuilding, BuildingRec, States
    <2>2. backupLeft' \in LeftRec BY <1>1, <1>4 DEF StageFails, BackupTypes, LeftRec
    <2>3. BackupTypes' BY <1>1, <1>4, <2>1, <2>2 DEF StageFails, BackupTypes
    <2> QED BY <1>4, <2>1, <2>3, QuietKeeps DEF StageFails
  <1> QED BY <1>2, <1>3, <1>4

\* A step that only changes what is staged, while the program runs.
LEMMA StagedChanges ==
  ASSUME BackupInv, Up, UNCHANGED <<live, kept, boot>>, BackupTypes',
         staged'.applying = 0, ghost'.replaced = ghost.replaced, Asked',
         staged'.db # Absent => staged'.config # Absent /\ staged'.db.gen = staged'.config.gen
  PROVE  BackupInv'
  <1>1. PhasesOK' BY DEF BackupInv, PhasesOK, Up, Swapping
  <1>2. ~Applying /\ ~Applying' BY UpHasFiles DEF Applying
  <1>3. Matching' BY <1>2 DEF BackupInv, Matching
  <1>4. \A r \in ghost'.replaced : Undoable(r)' BY <1>2, FilesStay DEF BackupInv, Undoable
  <1> QED BY <1>1, <1>3, <1>4 DEF BackupInv, Up

\* No restore is staged.
LEMMA NothingStaged ==
  /\ NoStaged \in StagedRec /\ ~NoStaged.there /\ NoStaged.applying = 0
  /\ NoStaged.db = Absent /\ NoStaged.config = Absent
  BY DEF NoStaged, StagedRec, Stamps, States

\* A restore is staged, confirmed, or dropped.
LEMMA StagingKeeps ==
  ASSUME BackupInv, StageAside \/ StageIn \/ ConfirmRestore \/ DiscardRestore
  PROVE  BackupInv'
  <1>1. BackupTypes /\ Asked /\ Matching /\ PhasesOK BY DEF BackupInv
  <1>2. ASSUME Up, staged' = NoStaged, UNCHANGED <<live, kept, archives, building, boot, clock, ghost, backupLeft>>
        PROVE  BackupInv'
    <2>1. BackupTypes' BY <1>1, <1>2, NothingStaged DEF BackupTypes
    <2>2. Asked' BY <1>2, NothingStaged DEF Asked, Applying
    <2> QED BY <1>2, <2>1, <2>2, NothingStaged, StagedChanges
  <1>3. CASE StageAside BY <1>2, <1>3 DEF StageAside
  <1>4. CASE DiscardRestore BY <1>2, <1>4 DEF DiscardRestore
  <1>5. CASE StageIn
    <2> DEFINE s == [there |-> TRUE, db |-> building.db, config |-> building.config, unconfirmed |-> ~building.confirmed,
                     security |-> building.security, state |-> building.state, applying |-> 0]
    <2>1. building.db # Absent /\ building.config # Absent /\ building.db.gen = building.config.gen
          /\ building.db \in NewDB
      BY <1>1, <1>5 DEF StageIn, BackupTypes, BuildingRec
    <2>2. s \in StagedRec BY <1>1 DEF BackupTypes, BuildingRec, StagedRec, Stamps
    <2>3. s.db = building.db /\ s.config = building.config /\ s.applying = 0 /\ s.unconfirmed = ~building.confirmed
      OBVIOUS
    <2>4. staged' = s BY <1>5 DEF StageIn
    <2> HIDE DEF s
    <2>5. building' \in BuildingRec /\ building'.phase = "idle"
      BY <1>5 DEF StageIn, NotBuilding, BuildingRec, States
    <2>6. PICK gs \in SUBSET Gens : gs = ghost.approved \cup {building.db.gen} BY <1>1, <2>1 DEF BackupTypes, NewDB
    <2>7. /\ ghost' \in [approved : SUBSET Gens, replaced : SUBSET ReplacedRec] /\ ghost'.replaced = ghost.replaced
          /\ building.confirmed => building.db.gen \in ghost'.approved
      <3>1. CASE building.confirmed
        <4>1. ghost' = [ghost EXCEPT !.approved = gs] BY <1>5, <2>6, <3>1 DEF StageIn
        <4> QED BY <1>1, <2>6, <4>1 DEF BackupTypes
      <3>2. CASE ~building.confirmed BY <1>1, <1>5, <3>2 DEF StageIn, BackupTypes
      <3> QED BY <3>1, <3>2
    <2>8. BackupTypes' BY <1>1, <1>5, <2>2, <2>4, <2>5, <2>7 DEF StageIn, BackupTypes
    <2>9. Asked'
      <3>1. building.confirmed \in BOOLEAN BY <1>1 DEF BackupTypes, BuildingRec
      <3> QED BY <2>3, <2>4, <2>7, <3>1 DEF Asked, Applying
    <2>10. staged'.db # Absent => staged'.config # Absent /\ staged'.db.gen = staged'.config.gen
      BY <2>1, <2>3, <2>4
    <2>11. staged'.applying = 0 BY <2>3, <2>4
    <2> QED BY <1>5, <2>7, <2>8, <2>9, <2>10, <2>11, StagedChanges DEF StageIn
  <1>6. CASE ConfirmRestore
    <2>1. CASE stillCurrent(staged)
      <3>1. staged.db # Absent /\ staged.db \in NewDB BY <1>1, <1>6 DEF ConfirmRestore, waiting, BackupTypes, StagedRec
      <3>2. PICK s : s = [staged EXCEPT !.unconfirmed = FALSE] OBVIOUS
      <3>3. staged' = s /\ s \in StagedRec /\ s.db = staged.db /\ s.config = staged.config /\ s.applying = staged.applying
            /\ s.there = staged.there
        BY <1>1, <1>6, <2>1, <3>2 DEF ConfirmRestore, BackupTypes, StagedRec
      <3>4. PICK gs \in SUBSET Gens : gs = ghost.approved \cup {staged.db.gen} BY <1>1, <3>1 DEF BackupTypes, NewDB
      <3>5. ghost' = [ghost EXCEPT !.approved = gs] BY <1>6, <2>1, <3>4 DEF ConfirmRestore
      <3>6. ghost' \in [approved : SUBSET Gens, replaced : SUBSET ReplacedRec] /\ ghost'.replaced = ghost.replaced
            /\ staged.db.gen \in ghost'.approved
        BY <1>1, <3>4, <3>5 DEF BackupTypes
      <3>7. BackupTypes' BY <1>1, <1>6, <3>3, <3>6 DEF ConfirmRestore, BackupTypes
      <3>8. staged'.applying = 0 BY <1>6, <3>3, UpHasFiles DEF ConfirmRestore
      <3>9. Asked' BY <3>3, <3>6, <3>8 DEF Asked, Applying
      <3>10. staged'.db # Absent => staged'.config # Absent /\ staged'.db.gen = staged'.config.gen
        BY <1>1, <3>3 DEF Matching
      <3> QED BY <1>6, <3>6, <3>7, <3>8, <3>9, <3>10, StagedChanges DEF ConfirmRestore
    <2>2. CASE ~stillCurrent(staged) BY <1>2, <1>6, <2>2 DEF ConfirmRestore
    <2> QED BY <2>1, <2>2
  <1> QED BY <1>3, <1>4, <1>5, <1>6

\* Settings change while the program runs: the files stay those of one restore.
LEMMA SettingsKeep ==
  ASSUME BackupInv, (\E v \in SettingValues : UserChanges(v) \/ KeyChanges(v)) \/ RemovalsQueued
  PROVE  BackupInv'
  <1>1. BackupTypes BY DEF BackupInv
  <1>2. PICK l : Up /\ SettingChanges(l)
                 /\ l \in LiveRec /\ l.db # Absent /\ l.config # Absent /\ l.wal = live.wal
                 /\ l.db.gen = live.db.gen /\ l.config.gen = live.config.gen
    <2>1. CASE \E v \in SettingValues : UserChanges(v)
      <3> PICK v \in SettingValues : UserChanges(v) BY <2>1
      <3>1. v \in Int BY BackupAssumption
      <3>2. live.db \in StoredDB /\ live.config \in StoredConfig BY UpHasFiles DEF UserChanges
      <3>3. PICK d : d = [live.db EXCEPT !.users = v] OBVIOUS
      <3>4. d \in StoredDB /\ d.gen = live.db.gen BY <3>1, <3>2, <3>3 DEF StoredDB, DBRec
      <3>5. PICK l : l = [live EXCEPT !.db = d] OBVIOUS
      <3>6. l \in LiveRec /\ l.db = d /\ l.config = live.config /\ l.wal = live.wal
        BY <1>1, <3>4, <3>5 DEF BackupTypes, LiveRec
      <3>7. SettingChanges(l) /\ Up BY <3>3, <3>5 DEF UserChanges
      <3>8. d # Absent /\ live.config # Absent BY <3>2, <3>4 DEF StoredDB, StoredConfig, Absent
      <3> QED BY <3>4, <3>6, <3>7, <3>8
    <2>2. CASE \E v \in SettingValues : KeyChanges(v)
      <3> PICK v \in SettingValues : KeyChanges(v) BY <2>2
      <3>1. v \in Int BY BackupAssumption
      <3>2. live.db \in StoredDB /\ live.config \in StoredConfig BY UpHasFiles DEF KeyChanges
      <3>3. PICK d : d = [live.config EXCEPT !.key = v] OBVIOUS
      <3>4. d \in StoredConfig /\ d.gen = live.config.gen BY <3>1, <3>2, <3>3 DEF StoredConfig, ConfigRec
      <3>5. PICK l : l = [live EXCEPT !.config = d] OBVIOUS
      <3>6. l \in LiveRec /\ l.db = live.db /\ l.config = d /\ l.wal = live.wal
        BY <1>1, <3>4, <3>5 DEF BackupTypes, LiveRec
      <3>7. SettingChanges(l) /\ Up BY <3>3, <3>5 DEF KeyChanges
      <3>8. live.db # Absent /\ d # Absent BY <3>2, <3>4 DEF StoredDB, StoredConfig, Absent
      <3> QED BY <3>4, <3>6, <3>7, <3>8
    <2>3. CASE RemovalsQueued
      <3>1. live.db \in StoredDB /\ live.config \in StoredConfig BY <2>3, UpHasFiles DEF RemovalsQueued
      <3>2. PICK d : d = [live.db EXCEPT !.removals = TRUE, !.safe = FALSE] OBVIOUS
      <3>3. d \in StoredDB /\ d.gen = live.db.gen BY <3>1, <3>2 DEF StoredDB, DBRec
      <3>4. PICK l : l = [live EXCEPT !.db = d] OBVIOUS
      <3>5. l \in LiveRec /\ l.db = d /\ l.config = live.config /\ l.wal = live.wal
        BY <1>1, <3>3, <3>4 DEF BackupTypes, LiveRec
      <3>6. live' = l /\ SettingChanges(l) /\ Up
        <4>1. [live EXCEPT !.db.removals = TRUE, !.db.safe = FALSE] = l BY <1>1, <3>1, <3>2, <3>4 DEF BackupTypes, LiveRec, StoredDB, DBRec
        <4> QED BY <2>3, <4>1 DEF RemovalsQueued, SettingChanges
      <3>7. d # Absent /\ live.config # Absent BY <3>1, <3>3 DEF StoredDB, StoredConfig, Absent
      <3> QED BY <3>3, <3>5, <3>6, <3>7
    <2> QED BY <2>1, <2>2, <2>3
  <1>3. live' = l /\ UNCHANGED <<staged, kept, archives, building, boot, clock, ghost>> /\ backupLeft' \in LeftRec
    BY <1>1, <1>2 DEF SettingChanges, BackupTypes, LeftRec
  <1>4. BackupTypes' BY <1>1, <1>2, <1>3 DEF BackupTypes
  <1>5. ~Applying /\ ~Applying' BY <1>2, <1>3, UpHasFiles DEF Applying
  <1>6. PhasesOK' /\ Asked' BY <1>2, <1>3 DEF BackupInv, PhasesOK, Asked, Applying, Up, Swapping
  <1>7. Matching' BY <1>2, <1>3, <1>5 DEF BackupInv, Matching
  <1>8. \A r : KeptDB(r)' = KeptDB(r) /\ KeptFile("config", r)' = KeptFile("config", r)
    BY <1>3 DEF KeptDB, KeptFile, KeptLog
  <1>9. \A r \in ghost'.replaced : Undoable(r)' BY <1>3, <1>5, <1>8 DEF BackupInv, Undoable
  <1> QED BY <1>2, <1>3, <1>4, <1>6, <1>7, <1>9 DEF BackupInv, Up

-----------------------------------------------------------------------------
(* The process stops, dies, and starts again.                              *)

\* The types of what a start changes; the rest stays.
LEMMA StartTypes ==
  ASSUME BackupTypes, live' \in LiveRec, staged' \in StagedRec, boot' \in BootRec,
         ghost' \in [approved : SUBSET Gens, replaced : SUBSET ReplacedRec], IsFiniteSet(kept'),
         UNCHANGED <<archives, building, clock, backupLeft>>
  PROVE  BackupTypes'
  BY DEF BackupTypes

\* The next phase of a start.
LEMMA GoesOn ==
  ASSUME boot \in BootRec, NEW phase \in Phases, Goes(phase)
  PROVE  boot' \in BootRec /\ boot'.phase = phase /\ boot'.stamp = boot.stamp /\ boot'.bak = boot.bak
  BY DEF Goes, BootRec

\* A stop, clean or not (Dies leaves the log of the live database).
LEMMA StopsKeep == ASSUME BackupInv, Stop \/ Dies PROVE BackupInv'
  <1>1. BackupTypes BY DEF BackupInv
  <1>2. NotStarting("down") \in BootRec /\ NotStarting("down").phase = "down"
    BY DEF NotStarting, BootRec, Phases, Stamps
  <1>3. NotBuilding \in BuildingRec /\ NotBuilding.phase = "idle" BY DEF NotBuilding, BuildingRec, States
  <1>4. CASE Stop
    <2>1. UNCHANGED <<live, staged, kept, archives, building, clock, ghost, backupLeft>> /\ building.phase = "idle"
          /\ boot' = NotStarting("down")
      BY <1>4 DEF Stop
    <2>2. BackupTypes' BY <1>1, <1>2, <2>1 DEF BackupTypes
    <2>3. PhasesOK' BY <1>2, <2>1 DEF PhasesOK, Swapping
    <2>4. Matching' /\ Asked' BY <2>1 DEF BackupInv, Matching, Asked, Applying
    <2>5. \A r \in ghost'.replaced : Undoable(r)' BY <2>1, FilesStay DEF BackupInv, Undoable, Applying
    <2> QED BY <1>2, <2>1, <2>2, <2>3, <2>4, <2>5 DEF BackupInv
  <1>5. CASE Dies
    <2>1. UNCHANGED <<staged, kept, archives, clock, ghost>> /\ building' = NotBuilding /\ boot' = NotStarting("down")
      BY <1>5 DEF Dies
    <2>2. live' \in LiveRec /\ live'.db = live.db /\ live'.config = live.config
          /\ live'.wal = IF Up THEN live.db.gen ELSE live.wal
      <3>1. CASE Up
        <4>1. live.db.gen \in Int BY <3>1, UpHasFiles DEF StoredDB, DBRec
        <4>2. PICK g \in Int : g = live.db.gen BY <4>1
        <4>3. live' = [live EXCEPT !.wal = g] BY <1>5, <3>1, <4>2 DEF Dies
        <4> QED BY <1>1, <3>1, <4>2, <4>3 DEF BackupTypes, LiveRec
      <3>2. CASE ~Up BY <1>1, <1>5, <3>2 DEF Dies, BackupTypes
      <3> QED BY <3>1, <3>2
    <2>3. backupLeft' \in LeftRec BY <1>1, <1>5 DEF Dies, BackupTypes, LeftRec
    <2>4. BackupTypes' BY <1>1, <1>2, <1>3, <2>1, <2>2, <2>3 DEF BackupTypes
    <2>5. PhasesOK' BY <1>2, <1>3, <2>1 DEF PhasesOK, Swapping
    <2>6. Matching' /\ Asked' BY <2>1, <2>2 DEF BackupInv, Matching, Asked, Applying
    <2>7. ASSUME NEW r \in ghost'.replaced PROVE Undoable(r)'
      <3>1. Undoable(r) /\ Applying' = Applying BY <2>1 DEF BackupInv, Applying
      <3>2. KeptDB(r)' = KeptDB(r) /\ KeptFile("config", r)' = KeptFile("config", r)
        BY <2>1 DEF KeptDB, KeptFile, KeptLog
      <3>3. CASE Up BY <2>1, <3>1, <3>2, <3>3, UpHasFiles DEF Undoable
      <3>4. CASE ~Up
        <4>1. live' = live BY <1>5, <3>4 DEF Dies
        <4> QED BY <2>1, <3>1, <4>1, FilesStay DEF Undoable
      <3> QED BY <3>3, <3>4
    <2> QED BY <1>2, <2>1, <2>4, <2>5, <2>6, <2>7 DEF BackupInv
  <1> QED BY <1>4, <1>5

\* config.xml is read, or created when a restore died before it had put its own
\* in place: then the one it replaced is already kept.
LEMMA LoadConfigKeeps == ASSUME BackupInv, LoadConfig PROVE BackupInv'
  <1>1. BackupTypes /\ Matching /\ PhasesOK BY DEF BackupInv
  <1>2. UNCHANGED <<staged, kept, archives, building, clock, ghost, backupLeft>> /\ Goes("pending")
    BY DEF LoadConfig
  <1>3. boot' \in BootRec /\ boot'.phase = "pending" BY <1>1, <1>2, GoesOn DEF BackupTypes, Phases
  <1>4. FreshConfig \in StoredConfig BY DEF FreshConfig, StoredConfig, ConfigRec
  <1>5. live' \in LiveRec /\ live'.db = live.db /\ live'.wal = live.wal /\ live'.config # Absent
        /\ (live.config # Absent => live' = live)
    <2>1. CASE live.config = Absent
      <3>1. live' = [live EXCEPT !.config = FreshConfig] BY <2>1 DEF LoadConfig
      <3>2. FreshConfig # Absent BY <1>4 DEF StoredConfig, Absent
      <3> QED BY <1>1, <1>4, <2>1, <3>1, <3>2 DEF BackupTypes, LiveRec
    <2>2. CASE live.config # Absent BY <1>1, <2>2 DEF LoadConfig, BackupTypes
    <2> QED BY <2>1, <2>2
  <1>6. BackupTypes' BY <1>1, <1>2, <1>3, <1>5, StartTypes DEF BackupTypes
  <1>7. PhasesOK'
    <2>1. building.phase = "idle" BY <1>1 DEF LoadConfig, PhasesOK
    <2> QED BY <1>2, <1>3, <2>1 DEF PhasesOK, Swapping
  <1>8. Asked' /\ Applying' = Applying BY <1>2 DEF BackupInv, Asked, Applying
  <1>9. Matching' BY <1>1, <1>2, <1>5, <1>8 DEF Matching
  <1>10. ASSUME NEW r \in ghost'.replaced PROVE Undoable(r)'
    <2>1. Undoable(r) BY <1>2 DEF BackupInv
    <2>2. KeptDB(r)' = KeptDB(r) /\ KeptFile("config", r)' = KeptFile("config", r)
      BY <1>2 DEF KeptDB, KeptFile, KeptLog
    <2>3. LiveDB(r)' = LiveDB(r) BY <1>2, <1>5 DEF LiveDB, LogAhead, FirstFree, Taken
    <2>4. LiveConfig(r) => LiveConfig(r)' BY <1>5 DEF LiveConfig
    <2> QED BY <1>2, <1>8, <2>1, <2>2, <2>3, <2>4 DEF Undoable
  <1> QED BY <1>3, <1>6, <1>7, <1>8, <1>9, <1>10 DEF BackupInv

\* The start finds a restore to go on with, one to begin, or none
\* (ApplyPendingRestore).
LEMMA ApplyPendingKeeps == ASSUME BackupInv, applyPendingRestore PROVE BackupInv'
  <1>1. BackupTypes /\ Matching /\ PhasesOK /\ Asked BY DEF BackupInv
  <1>2. UNCHANGED <<live, kept, archives, building, clock, backupLeft>> /\ building.phase = "idle"
    BY <1>1 DEF applyPendingRestore, PhasesOK
  <1>3. CASE resumes
    <2>1. UNCHANGED <<staged, ghost>> /\ boot' = [phase |-> "swap db", stamp |-> staged.applying, bak |-> 0] /\ Applying
      BY <1>3 DEF applyPendingRestore, resumes, Applying
    <2>2. boot' \in BootRec BY <1>1, <2>1 DEF BackupTypes, StagedRec, BootRec, Phases, Swapping
    <2>3. BackupTypes' BY <1>1, <1>2, <2>1, <2>2, StartTypes DEF BackupTypes
    <2>4. PhasesOK' /\ Matching' /\ Asked' /\ Applying' = Applying
      BY <1>1, <1>2, <2>1 DEF PhasesOK, Matching, Asked, Applying, Swapping
    <2>5. \A r \in ghost'.replaced : Undoable(r)' BY <1>2, <2>1, <2>4, FilesStay DEF BackupInv, Undoable
    <2> QED BY <2>1, <2>3, <2>4, <2>5 DEF BackupInv
  <1>4. CASE ~resumes /\ complete
    <2>1. boot' = [phase |-> "swap db", stamp |-> clock, bak |-> 0] /\ staged' = writeMarker(clock)
          /\ ghost' = [ghost EXCEPT !.replaced = {replacedNow}]
      BY <1>4 DEF applyPendingRestore
    <2>2. ~Applying /\ staged.there /\ ~staged.unconfirmed /\ staged.db # Absent
      BY <1>4 DEF resumes, complete, Applying
    <2>3. clock \in Nat \ {0} /\ clock \in Stamps BY <1>1, BackupAssumption DEF BackupTypes, Stamps
    <2>4. boot' \in BootRec BY <2>1, <2>3 DEF BootRec, Phases, Swapping
    <2>5. staged' \in StagedRec /\ staged'.there /\ staged'.db = staged.db /\ staged'.config = staged.config
          /\ ~staged'.unconfirmed /\ staged'.applying = clock
      BY <1>1, <2>1, <2>2, <2>3 DEF writeMarker, BackupTypes, StagedRec
    <2>6. live.db # Absent /\ live.config # Absent /\ live.db.gen = live.config.gen BY <1>1, <2>2 DEF Matching
    <2>7. live.config.gen \in Int /\ live.wal \in Int
      BY <1>1, <2>6 DEF BackupTypes, LiveRec, StoredConfig, ConfigRec
    <2>8. PICK rs : rs = {replacedNow} OBVIOUS
    <2>9. rs \in SUBSET ReplacedRec BY <2>3, <2>7, <2>8 DEF replacedNow, ReplacedRec
    <2>10. ghost' = [ghost EXCEPT !.replaced = rs] BY <2>1, <2>8
    <2>11. ghost' \in [approved : SUBSET Gens, replaced : SUBSET ReplacedRec] /\ ghost'.replaced = {replacedNow}
           /\ ghost'.approved = ghost.approved
      BY <1>1, <2>8, <2>9, <2>10 DEF BackupTypes
    <2>12. BackupTypes' BY <1>1, <1>2, <2>4, <2>5, <2>11, StartTypes DEF BackupTypes
    <2>13. Applying' BY <2>3, <2>5 DEF Applying
    <2>14. PhasesOK' BY <1>2, <2>1, <2>5, <2>13 DEF PhasesOK, Swapping
    <2>15. Matching' BY <1>1, <1>2, <2>2, <2>5, <2>13 DEF Matching
    <2>16. Asked' BY <1>1, <2>2, <2>5, <2>11, <2>13 DEF Asked
    <2>17. ASSUME NEW r \in ghost'.replaced PROVE Undoable(r)'
      <3>1. r.stamp = clock /\ r.gen = live.config.gen /\ r.wal = live.wal BY <2>11 DEF replacedNow
      <3>2. LiveDB(r)' /\ LiveConfig(r)' BY <1>2, <2>6, <3>1 DEF LiveDB, LiveConfig
      <3> QED BY <2>2, <2>5, <2>13, <3>1, <3>2 DEF Undoable
    <2> QED BY <2>1, <2>12, <2>14, <2>15, <2>16, <2>17 DEF BackupInv
  <1>5. CASE ~resumes /\ ~complete
    <2>1. Goes("open") /\ staged' = NoStaged /\ UNCHANGED ghost BY <1>5 DEF applyPendingRestore
    <2>2. boot' \in BootRec /\ boot'.phase = "open" BY <1>1, <2>1, GoesOn DEF BackupTypes, Phases
    <2>3. BackupTypes' BY <1>1, <1>2, <2>1, <2>2, NothingStaged, StartTypes DEF BackupTypes
    <2>4. ~Applying /\ ~Applying' BY <1>5, <2>1, NothingStaged DEF resumes, Applying
    <2>5. PhasesOK' BY <1>2, <2>1, <2>2, NothingStaged DEF PhasesOK, Swapping
    <2>6. Matching' /\ Asked' BY <1>1, <1>2, <2>1, <2>4, NothingStaged DEF Matching, Asked
    <2>7. \A r \in ghost'.replaced : Undoable(r)' BY <1>2, <2>1, <2>4, FilesStay DEF BackupInv, Undoable
    <2> QED BY <2>2, <2>3, <2>5, <2>6, <2>7 DEF BackupInv
  <1> QED BY <1>3, <1>4, <1>5

\* The database is opened: while no restore is under way it is there.
LEMMA OpenKeeps == ASSUME BackupInv, OpenDatabase PROVE BackupInv'
  <1>1. BackupTypes /\ Matching /\ PhasesOK BY DEF BackupInv
  <1>2. UNCHANGED <<staged, kept, archives, building, clock, ghost, backupLeft>> /\ boot' = NotStarting("up")
    BY DEF OpenDatabase
  <1>3. boot' \in BootRec /\ boot'.phase = "up" BY <1>2 DEF NotStarting, BootRec, Phases, Stamps
  <1>4. ~Applying /\ ~Applying' /\ staged.applying = 0 BY <1>1, <1>2 DEF OpenDatabase, PhasesOK, Applying
  <1>5. live.db \in StoredDB /\ live.config # Absent /\ live.db.gen = live.config.gen
    BY <1>1, <1>4 DEF Matching, BackupTypes, LiveRec
  <1>6. live' \in LiveRec /\ live'.config = live.config /\ live'.db \in StoredDB /\ live'.db.gen = live.db.gen
        /\ live'.wal = -2
    <2>1. PICK d : d = [live.db EXCEPT !.session = TRUE] OBVIOUS
    <2>2. d \in StoredDB /\ d.gen = live.db.gen BY <1>5, <2>1 DEF StoredDB, DBRec
    <2>3. live.db # Absent BY <1>1, <1>4 DEF Matching
    <2>4. live' = [live EXCEPT !.db = d, !.wal = -2] BY <2>1, <2>3 DEF OpenDatabase
    <2>5. live'.db = d /\ live'.wal = -2 /\ live'.config = live.config BY <1>1, <2>4 DEF BackupTypes, LiveRec
    <2>6. live' \in LiveRec
      <3>1. PICK l : l = [live EXCEPT !.db = d] OBVIOUS
      <3>2. l \in LiveRec BY <1>1, <2>2, <3>1 DEF BackupTypes, LiveRec
      <3>3. live' = [l EXCEPT !.wal = -2] BY <1>1, <2>4, <3>1 DEF BackupTypes, LiveRec
      <3> QED BY <3>2, <3>3 DEF LiveRec
    <2> QED BY <2>2, <2>5, <2>6
  <1>7. BackupTypes' BY <1>1, <1>2, <1>3, <1>6, StartTypes DEF BackupTypes
  <1>8. PhasesOK' BY <1>2, <1>3, <1>4 DEF PhasesOK, Swapping
  <1>9. live'.db # Absent BY <1>6 DEF StoredDB, Absent
  <1>10. Matching' BY <1>1, <1>2, <1>4, <1>5, <1>6, <1>9 DEF Matching
  <1>11. Asked' BY <1>2 DEF BackupInv, Asked, Applying
  <1>12. \A r : KeptDB(r)' = KeptDB(r) /\ KeptFile("config", r)' = KeptFile("config", r)
    BY <1>2 DEF KeptDB, KeptFile, KeptLog
  <1>13. \A r \in ghost'.replaced : Undoable(r)' BY <1>2, <1>4, <1>12 DEF BackupInv, Undoable
  <1> QED BY <1>3, <1>7, <1>8, <1>10, <1>11, <1>13 DEF BackupInv

-----------------------------------------------------------------------------
(* The swap, file by file (swapIn).                                        *)

\* The log goes under the number the database will get.
LEMMA SideFilesKeep == ASSUME BackupInv, SwapSideFiles PROVE BackupInv'
  <1>1. BackupTypes /\ Matching /\ PhasesOK /\ Asked BY DEF BackupInv
  <1>2. UNCHANGED <<staged, archives, building, clock, ghost, backupLeft>> /\ boot.phase = "swap db"
    BY DEF SwapSideFiles
  <1>3. Applying /\ Applying' /\ boot.stamp = staged.applying /\ building.phase = "idle"
    BY <1>1, <1>2 DEF PhasesOK, Swapping, Applying
  <1>4. boot \in BootRec /\ boot.stamp \in Stamps BY <1>1 DEF BackupTypes, BootRec
  <1>5. CASE staged.db = Absent
    <2>1. Goes("swap config") /\ UNCHANGED <<live, kept>> BY <1>5 DEF SwapSideFiles
    <2>2. boot' \in BootRec /\ boot'.phase = "swap config" /\ boot'.stamp = boot.stamp
      BY <1>4, <2>1, GoesOn DEF Phases, Swapping
    <2>3. BackupTypes' BY <1>1, <1>2, <2>1, <2>2, StartTypes DEF BackupTypes
    <2>4. PhasesOK' BY <1>1, <1>2, <1>3, <1>5, <2>1, <2>2 DEF PhasesOK, Swapping
    <2>5. Matching' /\ Asked' BY <1>1, <1>2, <1>3, <2>1 DEF Matching, Asked
    <2>6. \A r \in ghost'.replaced : Undoable(r)' BY <1>2, <1>3, <2>1, FilesStay DEF BackupInv, Undoable
    <2> QED BY <2>2, <2>3, <2>4, <2>5, <2>6 DEF BackupInv
  <1>6. CASE staged.db # Absent
    <2>1. PICK n : n = freeName("db", boot.stamp) OBVIOUS
    <2>2. FirstFree("db", boot.stamp, n) /\ n \in Nat BY <1>1, <2>1, FreeNumber DEF BackupTypes, FirstFree
    <2>3. boot' = [boot EXCEPT !.phase = "move db", !.bak = n] /\ live' = withSideFiles(live)
      BY <1>6, <2>1 DEF SwapSideFiles
    <2>4. kept' = IF live.wal = -2 THEN kept
                  ELSE kept \cup {[name |-> "wal", stamp |-> boot.stamp, n |-> n, gen |-> live.wal]}
      BY <1>6, <2>1 DEF SwapSideFiles
    <2>5. boot' \in BootRec /\ boot'.phase = "move db" /\ boot'.stamp = boot.stamp /\ boot'.bak = n
      BY <1>4, <2>2, <2>3 DEF BootRec, Phases, Swapping
    <2>6. live' \in LiveRec /\ live'.db = live.db /\ live'.config = live.config /\ live'.wal = -2
      BY <1>1, <2>3 DEF withSideFiles, BackupTypes, LiveRec
    <2>7. kept \subseteq kept' /\ IsFiniteSet(kept') BY <1>1, <2>4, FS_AddElement DEF BackupTypes
    <2>8. BackupTypes' BY <1>1, <1>2, <2>5, <2>6, <2>7, StartTypes DEF BackupTypes
    <2>9. PhasesOK' BY <1>2, <1>3, <1>6, <2>5, <2>6 DEF PhasesOK, Swapping
    <2>10. Matching' /\ Asked' BY <1>1, <1>2, <1>3, <1>6, <2>6 DEF Matching, Asked
    <2>11. \A s, m : FirstFree("db", s, m) => FirstFree("db", s, m)'
      <3>1. \A s, m : Taken("db", s, m)' <=> Taken("db", s, m) BY <2>4 DEF Taken
      <3> QED BY <3>1 DEF FirstFree
    <2>12. ASSUME NEW r \in ghost'.replaced PROVE Undoable(r)'
      <3>1. Undoable(r) /\ r.stamp = boot.stamp BY <1>2, <1>3 DEF BackupInv, Undoable
      <3>2. LiveConfig(r) /\ LiveConfig(r)' BY <1>3, <1>6, <2>6, <3>1 DEF Undoable, LiveConfig
      <3>3. CASE KeptDB(r)
        <4>1. KeptDB(r)' BY <2>7, <3>3, KeptLonger
        <4> QED BY <1>2, <1>3, <1>6, <3>1, <3>2, <4>1 DEF Undoable
      <3>4. CASE LiveDB(r)
        <4>1. ASSUME r.wal # -2, live.wal = r.wal PROVE LogAhead(r)'
          <5> DEFINE w == [name |-> "wal", stamp |-> boot.stamp, n |-> n, gen |-> live.wal]
          <5>1. w \in kept' BY <2>4, <4>1
          <5>2. FirstFree("db", r.stamp, w.n)' BY <2>2, <2>11, <3>1
          <5> QED BY <3>1, <4>1, <5>1, <5>2 DEF LogAhead
        <4>2. LogAhead(r) => LogAhead(r)' BY <2>7, <2>11 DEF LogAhead
        <4>3. LiveDB(r)' BY <2>6, <3>4, <4>1, <4>2 DEF LiveDB
        <4> QED BY <1>2, <1>3, <1>6, <3>1, <3>2, <4>3 DEF Undoable
      <3> QED BY <1>3, <1>6, <3>1, <3>3, <3>4 DEF Undoable
    <2>13. PICK s : s = boot.stamp OBVIOUS
    <2>14. FirstFree("db", s, n)' BY <2>2, <2>11, <2>13
    <2>15. FirstFree("db", boot.stamp, boot.bak)' BY <2>5, <2>13, <2>14
    <2> QED BY <2>8, <2>9, <2>10, <2>12, <2>15 DEF BackupInv
  <1> QED BY <1>5, <1>6

\* The database goes under the number its log has.
LEMMA MoveDBKeeps == ASSUME BackupInv, MoveLiveDB PROVE BackupInv'
  <1>1. BackupTypes /\ Matching /\ PhasesOK /\ Asked BY DEF BackupInv
  <1>2. UNCHANGED <<staged, archives, building, clock, ghost, backupLeft>> /\ boot.phase = "move db" /\ Goes("place db")
        /\ live' = [live EXCEPT !.db = Absent]
        /\ kept' = IF live.db = Absent THEN kept
                   ELSE kept \cup {[name |-> "db", stamp |-> boot.stamp, n |-> boot.bak, gen |-> live.db.gen]}
    BY DEF MoveLiveDB
  <1>3. Applying /\ Applying' /\ boot.stamp = staged.applying /\ building.phase = "idle" /\ staged.db # Absent
        /\ live.wal = -2
    BY <1>1, <1>2 DEF PhasesOK, Swapping, Applying
  <1>4. boot' \in BootRec /\ boot'.phase = "place db" /\ boot'.stamp = boot.stamp
    BY <1>1, <1>2, GoesOn DEF BackupTypes, Phases, Swapping
  <1>5. live' \in LiveRec /\ live'.db = Absent /\ live'.config = live.config /\ live'.wal = -2
    BY <1>1, <1>2, <1>3 DEF BackupTypes, LiveRec
  <1>6. kept \subseteq kept' /\ IsFiniteSet(kept')
    <2>1. PICK d : kept' = kept \/ kept' = kept \cup {d} BY <1>2
    <2> QED BY <1>1, <2>1, FS_AddElement DEF BackupTypes
  <1>7. BackupTypes' BY <1>1, <1>2, <1>4, <1>5, <1>6, StartTypes DEF BackupTypes
  <1>8. PhasesOK' BY <1>2, <1>3, <1>4, <1>5 DEF PhasesOK, Swapping
  <1>9. Matching' /\ Asked' BY <1>1, <1>2, <1>3, <1>5 DEF Matching, Asked
  <1>10. ASSUME NEW r \in ghost'.replaced PROVE Undoable(r)'
    <2>1. Undoable(r) /\ r.stamp = boot.stamp BY <1>2, <1>3 DEF BackupInv, Undoable
    <2>2. LiveConfig(r)' BY <1>3, <1>5, <2>1 DEF Undoable, LiveConfig
    <2>3. KeptDB(r)'
      <3>1. CASE KeptDB(r) BY <1>6, <3>1, KeptLonger
      <3>2. CASE LiveDB(r)
        <4> DEFINE d == [name |-> "db", stamp |-> boot.stamp, n |-> boot.bak, gen |-> live.db.gen]
        <4>1. d \in kept' /\ d.gen = r.gen /\ d.stamp = r.stamp BY <1>2, <2>1, <3>2 DEF LiveDB
        <4>2. d.name = "db" /\ d.n = boot.bak OBVIOUS
        <4> HIDE DEF d
        <4>3. ASSUME r.wal # -2 PROVE KeptLog(r)'
          <5>1. LogAhead(r) BY <1>3, <3>2, <4>3 DEF LiveDB
          <5>2. PICK w \in kept : w.name = "wal" /\ w.stamp = r.stamp /\ w.gen = r.wal /\ FirstFree("db", r.stamp, w.n)
            BY <5>1 DEF LogAhead
          <5>3. FirstFree("db", r.stamp, boot.bak) BY <1>2, <2>1 DEF BackupInv
          <5>4. w.n = boot.bak BY <5>2, <5>3, OneFirstFree
          <5> QED BY <1>6, <4>1, <4>2, <5>2, <5>4 DEF KeptLog
        <4> QED BY <4>1, <4>2, <4>3 DEF KeptDB, KeptFile
      <3> QED BY <1>3, <2>1, <3>1, <3>2 DEF Undoable
    <2> QED BY <1>2, <1>3, <2>1, <2>2, <2>3 DEF Undoable
  <1> QED BY <1>4, <1>7, <1>8, <1>9, <1>10 DEF BackupInv

\* The staged database is in place.
LEMMA PlaceDBKeeps == ASSUME BackupInv, PlaceDB PROVE BackupInv'
  <1>1. BackupTypes /\ Matching /\ PhasesOK /\ Asked BY DEF BackupInv
  <1>2. UNCHANGED <<kept, archives, building, clock, ghost, backupLeft>> /\ boot.phase = "place db" /\ Goes("swap config")
        /\ live' = [live EXCEPT !.db = staged.db] /\ staged' = [staged EXCEPT !.db = Absent]
    BY DEF PlaceDB
  <1>3. Applying /\ boot.stamp = staged.applying /\ building.phase = "idle" /\ staged.db # Absent /\ live.db = Absent
    BY <1>1, <1>2 DEF PhasesOK, Swapping
  <1>4. staged.config # Absent /\ staged.db.gen = staged.config.gen /\ live.wal = -2
    BY <1>1, <1>3 DEF Matching, Absent
  <1>5. boot' \in BootRec /\ boot'.phase = "swap config" /\ boot'.stamp = boot.stamp
    BY <1>1, <1>2, GoesOn DEF BackupTypes, Phases, Swapping
  <1>6. staged' \in StagedRec /\ staged'.db = Absent /\ staged'.config = staged.config /\ staged'.there = staged.there
        /\ staged'.applying = staged.applying /\ staged'.unconfirmed = staged.unconfirmed
    BY <1>1, <1>2 DEF BackupTypes, StagedRec
  <1>7. PICK d \in StoredDB : d = staged.db
    <2>1. staged.db \in NewDB BY <1>1, <1>3 DEF BackupTypes, StagedRec
    <2>2. staged.db \in StoredDB BY <2>1, BackupAssumption DEF NewDB, StoredDB, Gens
    <2> QED BY <2>2
  <1>8. live' \in LiveRec /\ live'.db = staged.db /\ live'.config = live.config /\ live'.wal = -2
    <2>1. live' = [live EXCEPT !.db = d] BY <1>2, <1>7
    <2> QED BY <1>1, <1>4, <1>7, <2>1 DEF BackupTypes, LiveRec
  <1>9. BackupTypes' BY <1>1, <1>2, <1>5, <1>6, <1>8, StartTypes DEF BackupTypes
  <1>10. Applying' BY <1>3, <1>6 DEF Applying
  <1>11. PhasesOK' BY <1>2, <1>3, <1>5, <1>6, <1>10 DEF PhasesOK, Swapping
  <1>12. Matching' BY <1>3, <1>4, <1>6, <1>8, <1>10 DEF Matching
  <1>13. Asked' BY <1>1, <1>2, <1>3, <1>6, <1>10 DEF Asked
  <1>14. ASSUME NEW r \in ghost'.replaced PROVE Undoable(r)'
    <2>1. Undoable(r) BY <1>2 DEF BackupInv
    <2>2. KeptDB(r) /\ LiveConfig(r) /\ r.stamp = staged.applying BY <1>3, <2>1 DEF Undoable, LiveDB
    <2>3. KeptDB(r)' BY <1>2, <2>2, KeptLonger
    <2>4. LiveConfig(r)' BY <1>8, <2>2 DEF LiveConfig
    <2> QED BY <1>4, <1>6, <1>10, <2>2, <2>3, <2>4 DEF Undoable
  <1> QED BY <1>5, <1>9, <1>11, <1>12, <1>13, <1>14 DEF BackupInv

\* config.xml is moved away.
LEMMA MoveConfigKeeps == ASSUME BackupInv, MoveLiveConfig PROVE BackupInv'
  <1>1. BackupTypes /\ Matching /\ PhasesOK /\ Asked BY DEF BackupInv
  <1>2. UNCHANGED <<staged, archives, building, clock, ghost, backupLeft>> /\ boot.phase = "swap config"
    BY DEF MoveLiveConfig
  <1>3. Applying /\ Applying' /\ boot.stamp = staged.applying /\ building.phase = "idle" /\ staged.db = Absent
    BY <1>1, <1>2 DEF PhasesOK, Swapping, Applying
  <1>4. CASE staged.config = Absent
    <2>1. Goes("clear") /\ UNCHANGED <<live, kept>> BY <1>4 DEF MoveLiveConfig
    <2>2. boot' \in BootRec /\ boot'.phase = "clear" /\ boot'.stamp = boot.stamp
      BY <1>1, <2>1, GoesOn DEF BackupTypes, Phases
    <2>3. BackupTypes' BY <1>1, <1>2, <2>1, <2>2, StartTypes DEF BackupTypes
    <2>4. \A r \in ghost.replaced : r.stamp = boot.stamp BY <1>3 DEF BackupInv, Undoable
    <2>5. PhasesOK' BY <1>2, <1>3, <1>4, <2>2, <2>4 DEF PhasesOK, Swapping, Applying
    <2>6. Matching' /\ Asked' BY <1>1, <1>2, <1>3, <2>1 DEF Matching, Asked
    <2>7. \A r \in ghost'.replaced : Undoable(r)' BY <1>2, <1>3, <2>1, FilesStay DEF BackupInv, Undoable
    <2> QED BY <2>2, <2>3, <2>5, <2>6, <2>7 DEF BackupInv
  <1>5. CASE staged.config # Absent
    <2>1. PICK n : n = freeName("config", boot.stamp) OBVIOUS
    <2>2. Goes("place config") /\ live' = [live EXCEPT !.config = Absent]
          /\ kept' = IF live.config = Absent THEN kept
                     ELSE kept \cup {[name |-> "config", stamp |-> boot.stamp, n |-> n, gen |-> live.config.gen]}
      BY <1>5, <2>1 DEF MoveLiveConfig
    <2>3. boot' \in BootRec /\ boot'.phase = "place config" /\ boot'.stamp = boot.stamp
      BY <1>1, <2>2, GoesOn DEF BackupTypes, Phases, Swapping
    <2>4. live' \in LiveRec /\ live'.config = Absent /\ live'.db = live.db /\ live'.wal = live.wal
      BY <1>1, <2>2 DEF BackupTypes, LiveRec
    <2>5. kept \subseteq kept' /\ IsFiniteSet(kept')
      <3>1. PICK k : kept' = kept \/ kept' = kept \cup {k} BY <2>2
      <3> QED BY <1>1, <3>1, FS_AddElement DEF BackupTypes
    <2>6. BackupTypes' BY <1>1, <1>2, <2>3, <2>4, <2>5, StartTypes DEF BackupTypes
    <2>7. PhasesOK' BY <1>2, <1>3, <1>5, <2>3, <2>4 DEF PhasesOK, Swapping
    <2>8. Matching' /\ Asked' BY <1>1, <1>2, <1>3, <1>5, <2>4 DEF Matching, Asked
    <2>9. ASSUME NEW r \in ghost'.replaced PROVE Undoable(r)'
      <3>1. Undoable(r) /\ r.stamp = boot.stamp BY <1>2, <1>3 DEF BackupInv, Undoable
      <3>2. KeptDB(r)' BY <1>3, <2>5, <3>1, KeptLonger DEF Undoable
      <3>3. KeptFile("config", r)'
        <4>1. CASE KeptFile("config", r) BY <2>5, <4>1, KeptLonger
        <4>2. CASE LiveConfig(r)
          <5> DEFINE k == [name |-> "config", stamp |-> boot.stamp, n |-> n, gen |-> live.config.gen]
          <5>1. k \in kept' /\ k.name = "config" /\ k.stamp = r.stamp /\ k.gen = r.gen
            BY <2>2, <3>1, <4>2 DEF LiveConfig
          <5> QED BY <5>1 DEF KeptFile
        <4> QED BY <1>3, <3>1, <4>1, <4>2 DEF Undoable
      <3> QED BY <1>2, <1>3, <3>1, <3>2, <3>3 DEF Undoable
    <2> QED BY <2>3, <2>6, <2>7, <2>8, <2>9 DEF BackupInv
  <1> QED BY <1>4, <1>5

\* The staged config.xml is in place, next to the database it belongs to.
LEMMA PlaceConfigKeeps == ASSUME BackupInv, PlaceConfig PROVE BackupInv'
  <1>1. BackupTypes /\ Matching /\ PhasesOK /\ Asked BY DEF BackupInv
  <1>2. UNCHANGED <<kept, archives, building, clock, ghost, backupLeft>> /\ boot.phase = "place config" /\ Goes("clear")
        /\ live' = [live EXCEPT !.config = staged.config] /\ staged' = [staged EXCEPT !.config = Absent]
    BY DEF PlaceConfig
  <1>3. Applying /\ boot.stamp = staged.applying /\ building.phase = "idle" /\ staged.db = Absent
        /\ staged.config # Absent /\ live.config = Absent
    BY <1>1, <1>2 DEF PhasesOK, Swapping
  <1>4. live.db # Absent /\ live.db.gen = staged.config.gen BY <1>1, <1>3 DEF Matching
  <1>5. boot' \in BootRec /\ boot'.phase = "clear" /\ boot'.stamp = boot.stamp
    BY <1>1, <1>2, GoesOn DEF BackupTypes, Phases
  <1>6. staged' \in StagedRec /\ staged'.db = Absent /\ staged'.config = Absent /\ staged'.there = staged.there
        /\ staged'.applying = staged.applying /\ staged'.unconfirmed = staged.unconfirmed
    BY <1>1, <1>2, <1>3 DEF BackupTypes, StagedRec
  <1>7. PICK c \in StoredConfig : c = staged.config
    <2>1. staged.config \in NewConfig BY <1>1, <1>3 DEF BackupTypes, StagedRec
    <2>2. staged.config \in StoredConfig BY <2>1, BackupAssumption DEF NewConfig, StoredConfig, Gens
    <2> QED BY <2>2
  <1>8. live' \in LiveRec /\ live'.config = staged.config /\ live'.db = live.db /\ live'.wal = live.wal
    <2>1. live' = [live EXCEPT !.config = c] BY <1>2, <1>7
    <2> QED BY <1>1, <1>7, <2>1 DEF BackupTypes, LiveRec
  <1>9. BackupTypes' BY <1>1, <1>2, <1>5, <1>6, <1>8, StartTypes DEF BackupTypes
  <1>10. Applying' BY <1>3, <1>6 DEF Applying
  <1>11. \A r \in ghost.replaced : r.stamp = boot.stamp BY <1>3 DEF BackupInv, Undoable
  <1>12. PhasesOK' BY <1>2, <1>3, <1>5, <1>6, <1>10, <1>11 DEF PhasesOK, Swapping, Applying
  <1>13. Matching' BY <1>1, <1>3, <1>4, <1>6, <1>8, <1>10 DEF Matching
  <1>14. Asked' BY <1>1, <1>2, <1>3, <1>6, <1>10 DEF Asked
  <1>15. ASSUME NEW r \in ghost'.replaced PROVE Undoable(r)'
    <2>1. Undoable(r) BY <1>2 DEF BackupInv
    <2>2. KeptDB(r) /\ KeptFile("config", r) /\ r.stamp = staged.applying BY <1>3, <2>1 DEF Undoable, LiveConfig
    <2>3. KeptDB(r)' /\ KeptFile("config", r)' BY <1>2, <2>2, KeptLonger
    <2> QED BY <1>6, <1>10, <2>2, <2>3 DEF Undoable
  <1> QED BY <1>5, <1>9, <1>12, <1>13, <1>14, <1>15 DEF BackupInv

\* The marker goes, then the folder (RemoveAll).
LEMMA ClearKeeps == ASSUME BackupInv, ClearMarker \/ ClearFolder PROVE BackupInv'
  <1>1. BackupTypes /\ Matching /\ PhasesOK /\ Asked BY DEF BackupInv
  <1>2. UNCHANGED <<live, kept, archives, building, clock, ghost, backupLeft>> /\ boot.phase = "clear"
    BY DEF ClearMarker, ClearFolder
  <1>3. staged.there /\ staged.db = Absent /\ staged.config = Absent /\ building.phase = "idle"
        /\ \A r \in ghost.replaced : r.stamp = boot.stamp
    BY <1>1, <1>2 DEF PhasesOK
  <1>4. \A r \in ghost.replaced : KeptDB(r) /\ KeptFile("config", r) BY <1>3 DEF BackupInv, Undoable
  <1>5. live.db.gen = live.config.gen /\ live.db # Absent /\ live.config # Absent BY <1>1, <1>3 DEF Matching
  <1>6. staged' \in StagedRec /\ staged'.db = Absent /\ staged'.config = Absent /\ staged'.applying = 0
        /\ boot' \in BootRec /\ boot'.stamp = boot.stamp
        /\ ((staged'.there /\ boot'.phase = "clear") \/ boot'.phase = "prune")
    <2>1. CASE ClearMarker
      BY <1>1, <1>2, <1>3, <2>1 DEF ClearMarker, BackupTypes, StagedRec, Stamps
    <2>2. CASE ClearFolder
      BY <1>1, <2>2, GoesOn, NothingStaged DEF ClearFolder, BackupTypes, Phases
    <2> QED BY <2>1, <2>2
  <1>7. BackupTypes' BY <1>1, <1>2, <1>6, StartTypes DEF BackupTypes
  <1>8. PhasesOK' BY <1>2, <1>3, <1>6 DEF PhasesOK, Swapping
  <1>9. ~Applying' BY <1>6 DEF Applying
  <1>10. Matching' /\ Asked' BY <1>1, <1>2, <1>5, <1>6, <1>9 DEF Matching, Asked
  <1>11. \A r \in ghost'.replaced : Undoable(r)' BY <1>2, <1>4, <1>9, FilesStay DEF Undoable
  <1> QED BY <1>6, <1>7, <1>8, <1>10, <1>11 DEF BackupInv

\* What this restore replaced is never pruned, whatever the clock says
\* (pruneRestoreBackups).
LEMMA CurrentStays ==
  ASSUME NEW files, NEW current, NEW k \in files, k.stamp = current
  PROVE  k \in pruneRestoreBackups(files, current)
  <1> DEFINE ahead == {s \in {f.stamp : f \in files} : s # k.stamp /\ (s = current \/ (s > k.stamp /\ k.stamp # current))}
  <1>1. ahead = {} OBVIOUS
  <1>2. Cardinality(ahead) = 0 BY <1>1, FS_EmptySet
  <1> QED BY <1>2 DEF pruneRestoreBackups, keepRestoreGenerations

\* Files of earlier restores are pruned.
LEMMA PruneKeeps == ASSUME BackupInv, Prune PROVE BackupInv'
  <1>1. BackupTypes /\ Matching /\ PhasesOK /\ Asked BY DEF BackupInv
  <1>2. UNCHANGED <<live, staged, archives, building, clock, ghost, backupLeft>> /\ boot.phase = "prune" /\ Goes("open")
        /\ kept' = pruneRestoreBackups(kept, boot.stamp)
    BY DEF Prune
  <1>3. staged.applying = 0 /\ building.phase = "idle" /\ ~Applying /\ ~Applying'
        /\ \A r \in ghost.replaced : r.stamp = boot.stamp
    BY <1>1, <1>2 DEF PhasesOK, Applying
  <1>4. boot' \in BootRec /\ boot'.phase = "open" BY <1>1, <1>2, GoesOn DEF BackupTypes, Phases
  <1>5. IsFiniteSet(kept')
    <2>1. kept' \subseteq kept BY <1>2 DEF pruneRestoreBackups
    <2> QED BY <1>1, <2>1, FS_Subset DEF BackupTypes
  <1>6. BackupTypes' BY <1>1, <1>2, <1>4, <1>5, StartTypes DEF BackupTypes
  <1>7. PhasesOK' BY <1>2, <1>3, <1>4 DEF PhasesOK, Swapping
  <1>8. Matching' /\ Asked' BY <1>1, <1>2, <1>3 DEF Matching, Asked
  <1>9. \A k \in kept : k.stamp = boot.stamp => k \in kept' BY <1>2, CurrentStays
  <1>10. ASSUME NEW r \in ghost'.replaced PROVE Undoable(r)'
    <2>1. KeptDB(r) /\ KeptFile("config", r) /\ r.stamp = boot.stamp BY <1>2, <1>3 DEF BackupInv, Undoable
    <2>2. KeptDB(r)' /\ KeptFile("config", r)' BY <1>9, <2>1 DEF KeptDB, KeptFile, KeptLog
    <2> QED BY <1>3, <2>2 DEF Undoable
  <1> QED BY <1>4, <1>6, <1>7, <1>8, <1>10 DEF BackupInv

-----------------------------------------------------------------------------
(* The theorem.                                                            *)

\* Whatever the earlier restores left, a first start finds one whole set of
\* files and no restore.
LEMMA BackupInitially == ASSUME BackupInit PROVE BackupInv
  <1>1. MaxStagings \in Nat BY BackupAssumption
  <1>2. live.db \in {d \in DBRec : d.gen = 0} /\ live.wal = -2 /\ live.config = [gen |-> 0, key |-> 1, hosts |-> 1]
        /\ live = [db |-> live.db, wal |-> live.wal, config |-> live.config]
    BY BackupAssumption DEF BackupInit
  <1>3. live.db \in StoredDB /\ live.config \in StoredConfig BY <1>2 DEF StoredDB, StoredConfig, ConfigRec
  <1>4. live \in LiveRec BY <1>2, <1>3 DEF LiveRec
  <1>5. staged \in StagedRec /\ ~staged.there /\ staged.applying = 0 /\ staged.db = Absent
    BY NothingStaged DEF BackupInit
  <1>6. building \in BuildingRec /\ building.phase = "idle" BY DEF BackupInit, NotBuilding, BuildingRec, States
  <1>7. boot \in BootRec /\ boot.phase = "up" BY DEF BackupInit, NotStarting, BootRec, Phases, Stamps
  <1>8. ghost \in [approved : SUBSET Gens, replaced : SUBSET ReplacedRec] /\ ghost.replaced = {} BY DEF BackupInit
  <1>9. backupLeft \in LeftRec BY <1>1, BackupAssumption DEF BackupInit, LeftRec
  <1>10. IsFiniteSet(kept) /\ clock \in Clock /\ archives = {} BY BackupAssumption DEF BackupInit
  <1>11. BackupTypes BY <1>4, <1>5, <1>6, <1>7, <1>8, <1>9, <1>10 DEF BackupTypes
  <1>12. PhasesOK BY <1>5, <1>6, <1>7 DEF PhasesOK, Swapping
  <1>13. live.db # Absent /\ live.config # Absent /\ live.db.gen = live.config.gen
    BY <1>2, <1>3 DEF StoredDB, StoredConfig, Absent
  <1>14. Matching BY <1>2, <1>5, <1>13 DEF Matching, Applying
  <1>15. Asked BY <1>5 DEF Asked, Applying
  <1> QED BY <1>7, <1>8, <1>11, <1>12, <1>14, <1>15 DEF BackupInv

\* A step of backups and restores keeps the invariant.
LEMMA BackupStep == ASSUME BackupInv, BackupNext PROVE BackupInv'
  <1>1. CASE \/ \E kind \in {"manual", "scheduled"} : Create(kind)
             \/ (\E a \in archives : Delete(a)) \/ Cleanup
             \/ \E t \in Clock : ClockSet(t)
    BY <1>1, ArchivesKeep
  <1>2. CASE \/ \E a \in Uploads \cup archives, security, confirmed \in BOOLEAN : StageBuild(a, security, confirmed)
             \/ StageMark \/ StageFails
    BY <1>2, BuildKeeps
  <1>3. CASE StageAside \/ StageIn \/ ConfirmRestore \/ DiscardRestore BY <1>3, StagingKeeps
  <1>4. CASE (\E v \in SettingValues : UserChanges(v) \/ KeyChanges(v)) \/ RemovalsQueued BY <1>4, SettingsKeep
  <1>5. CASE Stop \/ Dies BY <1>5, StopsKeep
  <1>6. CASE \E a \in Uploads \cup archives : StageRefused(a)
    <2>1. UNCHANGED backupVars BY <1>6 DEF StageRefused
    <2> QED BY <2>1, QuietKeeps DEF backupVars, BackupInv, BackupTypes, PhasesOK
  <1> QED
    BY <1>1, <1>2, <1>3, <1>4, <1>5, <1>6, LoadConfigKeeps, ApplyPendingKeeps, SideFilesKeep, MoveDBKeeps, PlaceDBKeeps,
       MoveConfigKeeps, PlaceConfigKeeps, ClearKeeps, PruneKeeps, OpenKeeps, Zenon DEF BackupNext

\* The other parts leave backups alone.
LEMMA OthersLeaveBackup ==
  ASSUME SessionsNext \/ HostNext \/ ConnectionsNext \/ ScheduleNext \/ NoticesNext \/ HealthNext \/ ConfigNext
  PROVE  UNCHANGED backupVars
  <1>1. CASE SessionsNext BY <1>1, Zenon DEF SessionsNext, SessionsOnly
  <1>2. CASE HostNext BY <1>2, Zenon DEF HostNext, HostOnly
  <1>3. CASE ConnectionsNext BY <1>3, Zenon DEF ConnectionsNext, ConnectionsOnly, Asking
  <1>4. CASE ScheduleNext BY <1>4, Zenon DEF ScheduleNext, ScheduleOnly
  <1>5. CASE NoticesNext BY <1>5, Zenon DEF NoticesNext, NoticesOnly
  <1>6. CASE HealthNext BY <1>6, Zenon DEF HealthNext, HealthOnly
  <1>7. CASE ConfigNext BY <1>7, Zenon DEF ConfigNext, ConfigOnly
  <1> QED BY <1>1, <1>2, <1>3, <1>4, <1>5, <1>6, <1>7

\* What the invariant says of a program that runs.
LEMMA WholeWhenUp == BackupInv => RestoreIsWhole
  <1> SUFFICES ASSUME BackupInv PROVE RestoreIsWhole OBVIOUS
  <1>1. Up => live.db.gen = live.config.gen BY UpHasFiles
  <1>2. live.wal \in {-2, live.db.gen} BY DEF BackupInv, Matching
  <1>3. ASSUME Up, NEW r \in ghost.replaced PROVE KeptDB(r) /\ KeptFile("config", r)
    BY <1>3, UpHasFiles DEF BackupInv, Undoable
  <1> QED BY <1>1, <1>2, <1>3 DEF RestoreIsWhole, KeptDB, KeptFile, KeptLog

\* Only a restore that was asked for brings a database of its own.
LEMMA OnlyPlaceDB ==
  ASSUME BackupInv, BackupNext, NEW g \in 1 .. MaxStagings, live'.db.gen = g, live.db.gen # g
  PROVE  g \in ghost.approved /\ ~live'.db.removals /\ live'.db.safe
  <1>1. BackupTypes BY DEF BackupInv
  <1>2. g \in Nat \ {0} BY BackupAssumption
  <1>3. ASSUME live' = live PROVE FALSE BY <1>3
  <1>4. CASE PlaceDB
    <2>1. Applying /\ staged.db # Absent /\ ~staged.unconfirmed /\ staged.there
      BY <1>4 DEF PlaceDB, BackupInv, PhasesOK, Swapping, Asked, Applying
    <2>2. staged.db \in NewDB BY <1>1, <2>1 DEF BackupTypes, StagedRec
    <2>3. live'.db = staged.db BY <1>1, <1>4 DEF PlaceDB, BackupTypes, LiveRec
    <2> QED BY <2>1, <2>2, <2>3 DEF BackupInv, Asked, NewDB
  <1>5. CASE (\E v \in SettingValues : UserChanges(v) \/ KeyChanges(v)) \/ RemovalsQueued
    <2>1. Up BY <1>5 DEF UserChanges, KeyChanges, RemovalsQueued
    <2>2. live.db \in StoredDB /\ live.config \in StoredConfig BY <2>1, UpHasFiles
    <2>3. live'.db.gen = live.db.gen
      <3>1. CASE \E v \in SettingValues : UserChanges(v)
        <4> PICK v \in SettingValues : live' = [live EXCEPT !.db.users = v] BY <3>1 DEF UserChanges, SettingChanges
        <4>1. PICK d : d = [live.db EXCEPT !.users = v] OBVIOUS
        <4>2. d.gen = live.db.gen BY <2>2, <4>1 DEF StoredDB, DBRec
        <4>3. live'.db = d BY <1>1, <4>1 DEF BackupTypes, LiveRec
        <4> QED BY <4>2, <4>3
      <3>2. CASE \E v \in SettingValues : KeyChanges(v)
        <4> PICK v \in SettingValues : live' = [live EXCEPT !.config.key = v] BY <3>2 DEF KeyChanges, SettingChanges
        <4>1. live'.db = live.db BY <1>1 DEF BackupTypes, LiveRec
        <4> QED BY <4>1
      <3>3. CASE RemovalsQueued
        <4>1. live' = [live EXCEPT !.db.removals = TRUE, !.db.safe = FALSE]
          BY <3>3 DEF RemovalsQueued, SettingChanges
        <4>2. PICK d : d = [live.db EXCEPT !.removals = TRUE, !.safe = FALSE] OBVIOUS
        <4>3. d.gen = live.db.gen BY <2>2, <4>2 DEF StoredDB, DBRec
        <4>4. live'.db = d BY <1>1, <2>2, <4>1, <4>2 DEF BackupTypes, LiveRec, StoredDB, DBRec
        <4> QED BY <4>3, <4>4
      <3> QED BY <1>5, <3>1, <3>2, <3>3
    <2> QED BY <2>3
  <1>6. CASE Dies
    <2>1. live'.db = live.db
      <3>1. CASE Up
        <4>1. live' = [live EXCEPT !.wal = live.db.gen] BY <1>6, <3>1 DEF Dies
        <4> QED BY <1>1, <4>1 DEF BackupTypes, LiveRec
      <3>2. CASE ~Up BY <1>6, <3>2 DEF Dies
      <3> QED BY <3>1, <3>2
    <2> QED BY <2>1
  <1>7. CASE LoadConfig \/ SwapSideFiles \/ MoveLiveConfig \/ PlaceConfig
    <2>1. live'.db = live.db
      <3>1. CASE LoadConfig BY <1>1, <3>1 DEF LoadConfig, BackupTypes, LiveRec
      <3>2. CASE SwapSideFiles BY <1>1, <3>2 DEF SwapSideFiles, withSideFiles, BackupTypes, LiveRec
      <3>3. CASE MoveLiveConfig BY <1>1, <3>3 DEF MoveLiveConfig, BackupTypes, LiveRec
      <3>4. CASE PlaceConfig BY <1>1, <3>4 DEF PlaceConfig, BackupTypes, LiveRec
      <3> QED BY <1>7, <3>1, <3>2, <3>3, <3>4
    <2> QED BY <2>1
  <1>8. CASE MoveLiveDB
    <2>1. live'.db = Absent BY <1>1, <1>8 DEF MoveLiveDB, BackupTypes, LiveRec
    <2> QED BY <1>2, <2>1 DEF Absent
  <1>9. CASE OpenDatabase
    <2>1. CASE live.db = Absent
      <3>1. live' = [live EXCEPT !.db = FreshDB, !.wal = -2] BY <1>9, <2>1 DEF OpenDatabase
      <3>2. live'.db = FreshDB BY <1>1, <3>1 DEF BackupTypes, LiveRec
      <3> QED BY <1>2, <3>2 DEF FreshDB
    <2>2. CASE live.db # Absent
      <3>1. live.db \in StoredDB BY <1>1, <2>2 DEF BackupTypes, LiveRec
      <3>2. PICK d : d = [live.db EXCEPT !.session = TRUE] OBVIOUS
      <3>3. d.gen = live.db.gen BY <3>1, <3>2 DEF StoredDB, DBRec
      <3>4. live' = [live EXCEPT !.db = d, !.wal = -2] BY <1>9, <2>2, <3>2 DEF OpenDatabase
      <3>5. live'.db = d BY <1>1, <3>4 DEF BackupTypes, LiveRec
      <3> QED BY <3>3, <3>5
    <2> QED BY <2>1, <2>2
  <1>10. CASE \/ \E kind \in {"manual", "scheduled"} : Create(kind)
              \/ (\E a \in archives : Delete(a)) \/ Cleanup
              \/ \E t \in Clock : ClockSet(t)
    <2>1. live' = live BY <1>10 DEF Create, Delete, Cleanup, ClockSet
    <2> QED BY <1>3, <2>1
  <1>11. CASE \/ \E a \in Uploads \cup archives : StageRefused(a)
              \/ \E a \in Uploads \cup archives, security, confirmed \in BOOLEAN : StageBuild(a, security, confirmed)
              \/ StageMark \/ StageAside \/ StageIn \/ StageFails \/ ConfirmRestore \/ DiscardRestore
    <2>1. live' = live
      BY <1>11 DEF StageRefused, StageBuild, StageMark, StageAside, StageIn, StageFails, ConfirmRestore, DiscardRestore,
                   backupVars
    <2> QED BY <1>3, <2>1
  <1>12. CASE Stop \/ applyPendingRestore \/ ClearMarker \/ ClearFolder \/ Prune
    <2>1. live' = live BY <1>12 DEF Stop, applyPendingRestore, ClearMarker, ClearFolder, Prune
    <2> QED BY <1>3, <2>1
  <1> QED BY <1>4, <1>5, <1>6, <1>7, <1>8, <1>9, <1>10, <1>11, <1>12, Zenon DEF BackupNext

\* A step of the service keeps the invariant, and brings no database that was not
\* asked for.
LEMMA ServicesKeepBackup ==
  ASSUME BackupInv, [ServicesNext]_servicesVars
  PROVE  /\ BackupInv'
         /\ [\A g \in 1 .. MaxStagings : (live'.db.gen = g /\ live.db.gen # g) =>
               g \in ghost.approved /\ ~live'.db.removals /\ live'.db.safe]_backupVars
  <1>1. CASE BackupNext BY <1>1, BackupStep, OnlyPlaceDB
  <1>2. CASE UNCHANGED backupVars
    <2>1. BackupTypes' BY <1>2 DEF backupVars, BackupInv, BackupTypes
    <2> QED BY <1>2, <2>1, QuietKeeps DEF backupVars, BackupInv, PhasesOK
  <1> QED BY <1>1, <1>2, OthersLeaveBackup, Zenon DEF ServicesNext, servicesVars

\* In every behaviour of the service, for whatever archives are uploaded, whatever
\* earlier restores left, however the clock is set and wherever the process dies:
\* the program runs on the files of one restore, nothing a restore replaced is
\* lost, and no restore brings in what was not asked for or a queued removal
\* (Stage, ConfirmRestore, ApplyPendingRestore).
THEOREM RestoresHold == ServicesSpec => RestoreHolds
  <1>1. ServicesInit => BackupInv BY BackupInitially DEF ServicesInit
  <1>2. BackupInv /\ [ServicesNext]_servicesVars =>
          /\ BackupInv'
          /\ [\A g \in 1 .. MaxStagings : (live'.db.gen = g /\ live.db.gen # g) =>
                g \in ghost.approved /\ ~live'.db.removals /\ live'.db.safe]_backupVars
    BY ServicesKeepBackup
  <1> QED BY <1>1, <1>2, WholeWhenUp, PTL DEF ServicesSpec, RestoreHolds, ApprovedAndInert

=============================================================================
