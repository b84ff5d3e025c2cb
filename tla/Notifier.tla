------------------------------ MODULE Notifier ------------------------------
(***************************************************************************)
(* The notification service (src/internal/notifications): messages are     *)
(* accepted without waiting, each is dispatched in the background to the   *)
(* connections that are enabled for it, a bounded number of sends runs at  *)
(* once, and a shutdown waits for all of them or cuts them off.            *)
(*                                                                         *)
(* A message is only a name: what a provider's payload looks like is left  *)
(* out, what makes a provider's answer a failure is not.                   *)
(***************************************************************************)
EXTENDS Naturals, FiniteSets

CONSTANTS
    Notices,        \* the messages the program may raise
    Sinks,       \* catalogue of connections: a sequence of records
                    \*   [kind, sound, encryption, user, local, on]
    MaxPending,     \* maxPendingDispatches
    MaxSends,       \* maxConcurrentSends
    MaxToggles      \* how often a person switches a connection

\* Settings are only well formed when each select holds one of its options.
ASSUME NotifierAssumption ==
    /\ DOMAIN Sinks \subseteq Nat \ {0}
    /\ \A c \in DOMAIN Sinks :
         Sinks[c].sound /\ Sinks[c].kind = "email" => Sinks[c].encryption \in {"none", "starttls", "tls"}

VARIABLES
    notice,     \* message -> what became of it: [st, todo]
    active,     \* the connections that are enabled, as stored
    sends,      \* sends in flight: records [m, c, at, again, tls]
    wire,       \* what reached a provider: records [m, c, tls, what]
    due, tried, \* pairs a dispatch found enabled, and pairs whose send ended
    closed,     \* no message is accepted any more
    cut,        \* the base context is cancelled
    stopping,   \* Shutdown: "no", "waits", "clean" or "late"
    toggles

noticeVars == <<notice, active, sends, wire, due, tried, closed, cut, stopping, toggles>>

Conns == DOMAIN Sinks
Email(c) == Sinks[c].kind = "email"

\* Settings that validateSettings accepts: well formed, no masked value left
\* in them, and no credentials without encryption except on this machine.
validateSettings(c) ==
    /\ Sinks[c].sound
    /\ Email(c) /\ Sinks[c].user => Sinks[c].encryption # "none" \/ Sinks[c].local

\* Messages on their way count against the limit until they are dispatched.
inFlight == Cardinality({m \in Notices : notice[m].st = "dispatching"})

\* Notify: dropped when the service is closed or too much is in flight.
Notify(m) ==
    /\ notice[m].st = "raised"
    /\ notice' = [notice EXCEPT ![m] =
          IF closed \/ inFlight + 1 > MaxPending THEN [@ EXCEPT !.st = "dropped"]
          ELSE [@ EXCEPT !.st = "dispatching"]]
    /\ UNCHANGED <<active, sends, wire, due, tried, closed, cut, stopping, toggles>>

-----------------------------------------------------------------------------
(* dispatch: list the connections, then one send each, as slots come free   *)

NotListed == {0}

List(m) ==
    /\ notice[m].st = "dispatching" /\ notice[m].todo = NotListed /\ ~cut
    /\ notice' = [notice EXCEPT ![m].todo = active]
    /\ due' = due \cup {<<m, c>> : c \in active}
    /\ UNCHANGED <<active, sends, wire, tried, closed, cut, stopping, toggles>>

\* The list fails (at once when the base context is cancelled).
ListFails(m) ==
    /\ notice[m].st = "dispatching" /\ notice[m].todo = NotListed
    /\ notice' = [notice EXCEPT ![m] = [st |-> "failed", todo |-> {}]]
    /\ UNCHANGED <<active, sends, wire, due, tried, closed, cut, stopping, toggles>>

\* The connections are gone through in the order they are listed in.
Spawn(m) ==
    /\ notice[m].st = "dispatching" /\ notice[m].todo \notin {NotListed, {}}
    /\ Cardinality(sends) < MaxSends
    /\ \E c \in notice[m].todo :
         /\ \A d \in notice[m].todo : c <= d
         /\ sends' = sends \cup {[m |-> m, c |-> c, at |-> "deliver", again |-> FALSE, tls |-> FALSE]}
         /\ notice' = [notice EXCEPT ![m].todo = @ \ {c}]
    /\ UNCHANGED <<active, wire, due, tried, closed, cut, stopping, toggles>>

\* Waiting for a slot while the base context is cancelled: the rest is dropped.
DropRest(m) ==
    /\ notice[m].st = "dispatching" /\ notice[m].todo \notin {NotListed, {}} /\ cut
    /\ notice' = [notice EXCEPT ![m] = [st |-> "failed", todo |-> {}]]
    /\ UNCHANGED <<active, sends, wire, due, tried, closed, cut, stopping, toggles>>

DispatchEnds(m) ==
    /\ notice[m].st = "dispatching" /\ notice[m].todo = {}
    /\ notice' = [notice EXCEPT ![m].st = "dispatched"]
    /\ UNCHANGED <<active, sends, wire, due, tried, closed, cut, stopping, toggles>>

-----------------------------------------------------------------------------
(* send and deliver                                                         *)

At(s, where) == sends' = (sends \ {s}) \cup {[s EXCEPT !.at = where]}

\* A send ends: logged, its slot given back, whatever came of it.
SendEnded(s) ==
    /\ sends' = sends \ {s} /\ tried' = tried \cup {<<s.m, s.c>>}
    /\ UNCHANGED <<notice, active, due, closed, cut, stopping, toggles>>

\* deliver: unknown kinds and settings that are no longer valid send nothing.
Deliver(s) ==
    /\ s \in sends /\ s.at = "deliver"
    /\ \/ ~validateSettings(s.c) /\ SendEnded(s) /\ UNCHANGED wire
       \/ /\ validateSettings(s.c) /\ ~cut
          /\ At(s, IF Email(s.c) THEN "connect" ELSE "request")
          /\ UNCHANGED <<notice, active, wire, due, tried, closed, cut, stopping, toggles>>

\* The context of a send is over: its time ran out or the service stopped.
CutOff(s) == s \in sends /\ SendEnded(s) /\ UNCHANGED wire

\* What an HTTP provider may answer; redirects are not followed.
Answers == {"ok", "no content", "refused", "soon", "later", "redirect", "error", "none"}
ok2xx(a) == a \in {"ok", "no content", "refused"}

sendDiscord(a) == ok2xx(a)
sendSlack(a) == ok2xx(a)
sendGotify(a) == ok2xx(a)
sendNtfy(a) == ok2xx(a)
sendWebhook(a) == ok2xx(a)
sendTelegram(a) == a = "ok"
sendPushover(a) == a = "ok"
sendApprise(a) == ok2xx(a) /\ a # "no content"

delivered(kind, a) ==
    CASE kind = "discord"  -> sendDiscord(a)
      [] kind = "slack"    -> sendSlack(a)
      [] kind = "gotify"   -> sendGotify(a)
      [] kind = "ntfy"     -> sendNtfy(a)
      [] kind = "webhook"  -> sendWebhook(a)
      [] kind = "telegram" -> sendTelegram(a)
      [] kind = "pushover" -> sendPushover(a)
      [] kind = "apprise"  -> sendApprise(a)

Reached(s, what) == [m |-> s.m, c |-> s.c, tls |-> s.tls, what |-> what]

\* do: one request, and once more when the provider asks for a short wait.
Do(s, a) ==
    /\ s \in sends /\ s.at = "request" /\ ~cut
    /\ IF a = "soon" /\ ~s.again
       THEN /\ sends' = (sends \ {s}) \cup {[s EXCEPT !.again = TRUE]}
            /\ UNCHANGED <<notice, active, wire, due, tried, closed, cut, stopping, toggles>>
       ELSE /\ SendEnded(s)
            /\ wire' = IF delivered(Sinks[s.c].kind, a) THEN wire \cup {Reached(s, "message")} ELSE wire

-----------------------------------------------------------------------------
(* sendEmail                                                                *)

Encryption(s) == Sinks[s.c].encryption

Quiet == UNCHANGED <<notice, active, due, tried, closed, cut, stopping, toggles>>

\* A connection over TLS from the start, or a plain one.
Connect(s) ==
    /\ s \in sends /\ s.at = "connect" /\ ~cut
    /\ sends' = (sends \ {s}) \cup {[s EXCEPT !.at = "hello", !.tls = Encryption(s) = "tls"]}
    /\ Quiet /\ UNCHANGED wire

\* EHLO, and STARTTLS when asked for: a server that does not offer it fails.
startTLS(s, offered) ==
    IF Encryption(s) # "starttls" THEN "plain" ELSE IF offered THEN "yes" ELSE "fails"

Hello(s, offered) ==
    /\ s \in sends /\ s.at = "hello" /\ ~cut
    /\ \/ startTLS(s, offered) = "fails" /\ SendEnded(s) /\ UNCHANGED wire
       \/ /\ startTLS(s, offered) # "fails"
          /\ sends' = (sends \ {s}) \cup
                {[s EXCEPT !.at = "auth", !.tls = @ \/ startTLS(s, offered) = "yes"]}
          /\ Quiet /\ UNCHANGED wire

\* chooseAuth: no credentials in the clear to another machine.
chooseAuth(s, offered) == (s.tls \/ Sinks[s.c].local) /\ offered

Auth(s, offered) ==
    /\ s \in sends /\ s.at = "auth" /\ ~cut
    /\ \/ ~Sinks[s.c].user /\ At(s, "data") /\ Quiet /\ UNCHANGED wire
       \/ Sinks[s.c].user /\ ~chooseAuth(s, offered) /\ SendEnded(s) /\ UNCHANGED wire
       \/ /\ Sinks[s.c].user /\ chooseAuth(s, offered)
          /\ At(s, "data") /\ wire' = wire \cup {Reached(s, "credentials")} /\ Quiet

\* MAIL, RCPT and DATA: the server takes the message or refuses it.
Data(s, taken) ==
    /\ s \in sends /\ s.at = "data" /\ ~cut
    /\ SendEnded(s)
    /\ wire' = IF taken THEN wire \cup {Reached(s, "message")} ELSE wire

-----------------------------------------------------------------------------
(* Shutdown and the person at the settings                                  *)

Shutdown ==
    /\ stopping = "no" /\ stopping' = "waits" /\ closed' = TRUE
    /\ UNCHANGED <<notice, active, sends, wire, due, tried, cut, toggles>>

\* As if only the dispatches were waited for.
onlyDispatches == \A m \in Notices : notice[m].st # "dispatching"

\* The wait group: every dispatch and every send.
allDone == (\A m \in Notices : notice[m].st # "dispatching") /\ sends = {}

ShutdownDone ==
    /\ stopping = "waits" /\ allDone
    /\ stopping' = "clean" /\ cut' = TRUE
    /\ UNCHANGED <<notice, active, sends, wire, due, tried, closed, toggles>>

ShutdownLate ==
    /\ stopping = "waits" /\ ~allDone
    /\ stopping' = "late" /\ cut' = TRUE
    /\ UNCHANGED <<notice, active, sends, wire, due, tried, closed, toggles>>

Toggle(c) ==
    /\ toggles < MaxToggles /\ toggles' = toggles + 1
    /\ active' = IF c \in active THEN active \ {c} ELSE active \cup {c}
    /\ UNCHANGED <<notice, sends, wire, due, tried, closed, cut, stopping>>

NotifierInit ==
    /\ notice = [m \in Notices |-> [st |-> "raised", todo |-> NotListed]]
    /\ active = {c \in Conns : Sinks[c].on}
    /\ sends = {} /\ wire = {} /\ due = {} /\ tried = {}
    /\ closed = FALSE /\ cut = FALSE /\ stopping = "no" /\ toggles = 0

-----------------------------------------------------------------------------
(* A shutdown that reports success has left nothing behind: every          *)
(* connection that was enabled when an accepted message was dispatched has *)
(* been tried (Notify, dispatch, Shutdown).                                *)
AcceptedIsTried ==
    stopping = "clean" => due \subseteq tried

(* What leaves the program leaves it the way the connection says: over TLS *)
(* when encryption is asked for, whatever the server offers, and           *)
(* credentials in the clear only to this machine (sendEmail).              *)
SentAsAsked ==
    \A w \in wire : Email(w.c) =>
        /\ Sinks[w.c].encryption # "none" => w.tls
        /\ w.what = "credentials" => w.tls \/ Sinks[w.c].local

(* What is accepted is sent, and as asked.                                 *)
SendsHold == AcceptedIsTried /\ SentAsAsked
=============================================================================
