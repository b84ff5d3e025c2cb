------------------------------- MODULE Config -------------------------------
(***************************************************************************)
(* config.xml (src/internal/config): reading it at the start, with what    *)
(* the environment overrides, and saving a change of the settings, across  *)
(* failed saves, deaths of the process and power cuts.  Four settings      *)
(* stand for the seventeen: a required one (key), a flag (ssl), an optional *)
(* one that the flag requires (cert) and one with several spellings        *)
(* (level).  A file is what the elements hold, by name, in the order they  *)
(* occur; comments and layout are left out.                                *)
(***************************************************************************)
EXTENDS Integers, Sequences, FiniteSets

CONSTANTS
  FirstFiles,       \* what config.xml may be before the first start
  Environments,     \* the overrides a start may find: setting -> value
  Pages,            \* the settings a request changes: setting -> value
  ArchivedFiles,    \* the config.xml of the backups to restore from
  MaxConfigSaves, MaxConfigDeaths

VARIABLES
  cfgFile,          \* config.xml
  cfgOlder,         \* what a power cut may bring back instead of it
  mgr,              \* the Manager of the process, and the save in progress
  cfgStaged,        \* the file a restore puts in place at the next start
  acked,            \* the settings that a start may find, once one was complete
  cfgFirst,         \* the problems and the other elements of the first file
  cfgLeft           \* what may still happen
configVars == <<cfgFile, cfgOlder, mgr, cfgStaged, acked, cfgFirst, cfgLeft>>

Settings == {"key", "ssl", "cert", "level"}
optional == {"cert"}
Default == [key |-> "", ssl |-> "False", cert |-> "", level |-> "info"]
Xml(t) == [kind |-> "xml", texts |-> t]
Empty == [kind |-> "empty", texts |-> <<>>]    \* missing or blank
Broken == [kind |-> "corrupt", texts |-> <<>>]

\* What the first names, and what only the second does.
over(top, c) == [f \in DOMAIN top \cup DOMAIN c |-> IF f \in DOMAIN top THEN top[f] ELSE c[f]]

-----------------------------------------------------------------------------
(* Parsing, normalising and validating.                                    *)
parseBool(s) == IF s \in {"True", "yes"} THEN "True" ELSE IF s \in {"False", "no"} THEN "False" ELSE "error"
parse(f, raw) == IF f = "ssl" THEN parseBool(raw) ELSE raw
canonicalLogLevel(s) == IF s = "warning" THEN "warn" ELSE s
Normalize(c) == [c EXCEPT !.level = canonicalLogLevel(@)]
apiKeyProblem(k) == k \in {"", "short"}
Validate(c) ==
  {f \in Settings : \/ f = "key" /\ apiKeyProblem(c.key)
                    \/ f = "cert" /\ c.ssl = "True" /\ c.cert = ""
                    \/ f = "level" /\ c.level \notin {"debug", "info", "warn"}}
NewProblems(current, next) == Validate(next) \ Validate(current)

\* A repeated element counts once: its first text that is not blank.
firstText(ts) ==
  IF \E i \in DOMAIN ts : ts[i] # ""
  THEN ts[CHOOSE i \in DOMAIN ts : ts[i] # "" /\ \A j \in DOMAIN ts : j < i => ts[j] = ""] ELSE ""
present(file) == Settings \cap DOMAIN file.texts
unknown(file) == [n \in DOMAIN file.texts \ Settings |-> <<file.texts[n][1]>>]
raws(file) == [f \in present(file) |-> firstText(file.texts[f])]
taken(raw, f) == f \in DOMAIN raw /\ (raw[f] # "" \/ f \in optional)
parsed(raw) == [f \in {g \in Settings : taken(raw, g)} |-> parse(f, raw[f])]
decodes(file) ==
  file.kind # "corrupt" /\ ("ssl" \in DOMAIN parsed(raws(file)) => parsed(raws(file)).ssl # "error")
\* GenerateAPIKey stands in for a key that is missing or blank.
decode(file, GenerateAPIKey) ==
  Normalize(over(parsed(raws(file)), [Default EXCEPT !.key = GenerateAPIKey]))
dirty(file, c) ==
  \/ file.kind # "xml" \/ present(file) # Settings
  \/ \E n \in DOMAIN file.texts : Len(file.texts[n]) > 1
  \/ \E f \in present(file) : raws(file)[f] # c[f]
render(c, others) == Xml(over([f \in Settings |-> <<c[f]>>], others))
apply(env, c) == Normalize([f \in Settings |-> IF f \in DOMAIN env THEN env[f] ELSE c[f]])

\* What the environment sets is told apart from what files and requests hold.
WithoutOverrides(c) == \A env \in Environments : \A f \in Settings \cap DOMAIN env : c[f] # env[f]
ASSUME ConfigAssumption ==
  /\ \A a \in FirstFiles \cup ArchivedFiles : WithoutOverrides(decode(a, "gen1"))
  /\ \A page \in Pages : \A f \in Settings \cap DOMAIN page :
       /\ f = "ssl" => page[f] \in {"True", "False"}
       /\ \A env \in Environments : f \in DOMAIN env =>
            env[f] # IF f = "level" THEN canonicalLogLevel(page[f]) ELSE page[f]
  /\ \A env \in Environments : "key" \in DOMAIN env => env.key \notin {"gen1", "gen2"}

-----------------------------------------------------------------------------
(* Load                                                                    *)
Down == [phase |-> "down"]
freshKey == IF acked = {} THEN "gen1" ELSE "gen2"
ConfigInit ==
  /\ cfgFile \in FirstFiles /\ cfgOlder = {} /\ mgr = Down /\ cfgStaged = Empty /\ acked = {}
  /\ cfgFirst = [problems |-> Validate(decode(cfgFile, "gen1")), others |-> unknown(cfgFile)]
  /\ cfgLeft = [saves |-> MaxConfigSaves, deaths |-> MaxConfigDeaths]

Manager(phase, env, c, others, next) ==
  [phase |-> phase, env |-> env, file |-> c, effective |-> apply(env, c), told |-> apply(env, c),
   others |-> others, next |-> next, from |-> IF phase = "up" THEN "none" ELSE "load"]
\* A file that does not parse, or that is invalid with the overrides, refuses the start.
loadWith(env, c) ==
  /\ Validate(apply(env, c)) = {}
  /\ IF dirty(cfgFile, c)
     THEN mgr' = Manager("saving", env, c, unknown(cfgFile), c) /\ UNCHANGED acked
     ELSE mgr' = Manager("up", env, c, unknown(cfgFile), c) /\ acked' = {c}
LoadFile(env) ==
  /\ mgr = Down /\ cfgStaged = Empty /\ decodes(cfgFile)
  /\ loadWith(env, decode(cfgFile, freshKey))
  /\ UNCHANGED <<cfgFile, cfgOlder, cfgStaged, cfgFirst, cfgLeft>>

-----------------------------------------------------------------------------
(* Update                                                                  *)
\* What the request asks for, except what the environment overrides.
updated(page, m) == Normalize([f \in Settings |-> IF f \in DOMAIN m.env THEN m.file[f] ELSE page[f]])
\* Mutated form: the file is only checked with the overrides in effect.
noFileProblems(m, next) == {}
newFileProblems(m, next) == IF DOMAIN m.env = {} THEN {} ELSE NewProblems(m.file, next)
updateTo(next) ==
  /\ Validate(apply(mgr.env, next)) = {} /\ newFileProblems(mgr, next) = {}
  /\ mgr' = [mgr EXCEPT !.phase = "saving", !.next = next, !.from = "update"]
\* The page holds the values in effect and what its user changed; a request
\* to the API may be made from what the file holds.
UpdateFile(page, shown) ==
  /\ mgr.phase = "up" /\ cfgLeft.saves > 0
  /\ updateTo(updated(over(page, IF shown THEN mgr.effective ELSE mgr.file), mgr))
  /\ cfgLeft' = [cfgLeft EXCEPT !.saves = @ - 1]
  /\ UNCHANGED <<cfgFile, cfgOlder, cfgStaged, acked, cfgFirst>>

\* writeFileAtomic: the new contents are written and synced beside the file,
\* which the rename replaces; the folder is synced last.
SaveWrites ==
  /\ mgr.phase = "saving" /\ mgr' = [mgr EXCEPT !.phase = "written"]
  /\ UNCHANGED <<cfgFile, cfgOlder, cfgStaged, acked, cfgFirst, cfgLeft>>
SaveAborts ==
  /\ mgr.phase \in {"saving", "written"}
  /\ mgr' = IF mgr.from = "load" THEN Down ELSE [mgr EXCEPT !.phase = "up", !.next = mgr.file]
  /\ UNCHANGED <<cfgFile, cfgOlder, cfgStaged, acked, cfgFirst, cfgLeft>>
SaveRenames ==
  /\ mgr.phase = "written"
  /\ cfgFile' = render(mgr.next, mgr.others) /\ cfgOlder' = {cfgFile}
  /\ acked' = IF mgr.from = "load" THEN acked ELSE acked \cup {mgr.next}
  /\ mgr' = [mgr EXCEPT !.phase = "renamed"]
  /\ UNCHANGED <<cfgStaged, cfgFirst, cfgLeft>>
SaveSyncs ==
  /\ mgr.phase = "renamed" /\ cfgOlder' = {} /\ acked' = {mgr.next}
  /\ mgr' = [mgr EXCEPT !.phase = IF mgr.from = "load" THEN "up" ELSE "swapped",
                        !.file = mgr.next, !.effective = apply(mgr.env, mgr.next)]
  /\ UNCHANGED <<cfgFile, cfgStaged, cfgFirst, cfgLeft>>
TellSubscribers ==
  /\ mgr.phase = "swapped" /\ mgr' = [mgr EXCEPT !.phase = "up", !.told = mgr.effective]
  /\ UNCHANGED <<cfgFile, cfgOlder, cfgStaged, acked, cfgFirst, cfgLeft>>

\* The process dies (the system still writes what it renamed), or the machine
\* loses its power.
ConfigDies(power) ==
  /\ mgr # Down /\ cfgLeft.deaths > 0 /\ mgr' = Down
  /\ cfgFile' \in {cfgFile} \cup (IF power THEN cfgOlder ELSE {}) /\ cfgOlder' = {}
  /\ cfgLeft' = [cfgLeft EXCEPT !.deaths = @ - 1]
  /\ UNCHANGED <<cfgStaged, acked, cfgFirst>>

-----------------------------------------------------------------------------
(* A restore: the settings of a backup on the document of the live file,   *)
(* staged while the process runs and put in place at the next start.       *)
RewriteFile(a, current, security) ==
  Normalize([decode(a, "gen2") EXCEPT !.key = IF security THEN @ ELSE current.key,
               !.ssl = IF security THEN @ ELSE current.ssl, !.cert = IF security THEN @ ELSE current.cert])
CheckFile(m, c) == Validate(apply(m.env, c)) = {} /\ NewProblems(m.file, c) = {}
RenderOnto(base, c) == render(c, unknown(base))
StageFile(a, security) ==
  /\ mgr.phase = "up" /\ cfgStaged = Empty /\ cfgLeft.saves > 0
  /\ a.kind = "xml" /\ decodes(a) /\ NewProblems(mgr.file, decode(a, "gen2")) = {}
  /\ CheckFile(mgr, RewriteFile(a, mgr.file, security))
  /\ cfgStaged' = RenderOnto(cfgFile, RewriteFile(a, mgr.file, security))
  /\ cfgLeft' = [cfgLeft EXCEPT !.saves = @ - 1]
  /\ UNCHANGED <<cfgFile, cfgOlder, mgr, acked, cfgFirst>>
PlaceStaged ==
  /\ mgr = Down /\ cfgStaged # Empty
  /\ cfgFile' = cfgStaged /\ cfgStaged' = Empty /\ acked' = {decode(cfgStaged, "")} /\ cfgOlder' = {}
  /\ UNCHANGED <<mgr, cfgFirst, cfgLeft>>

-----------------------------------------------------------------------------
(* Properties                                                              *)
OnDisk == {cfgFile} \cup cfgOlder
\* Once a start was complete, whatever failed, died or lost its power since:
\* config.xml parses, and holds what the last change that was answered left
\* or the change in progress (Update of config.go, writeFileAtomic of
\* xmlfile.go); in particular the key generated at the first start is kept.
NothingLost == acked # {} => \A d \in OnDisk : decodes(d) /\ decode(d, "") \in acked
\* No save brings config.xml a problem the first file did not have, so that
\* removing an override of the environment does not stop Dupearr from
\* starting (newFileProblems of config.go); and no value of the environment
\* is ever in it, nor is an element of it that is unknown dropped.
FileStandsAlone ==
  \A d \in OnDisk :
    /\ Validate(decode(d, "gen1")) \subseteq cfgFirst.problems
    /\ unknown(d) = cfgFirst.others
    /\ WithoutOverrides(decode(d, "gen1"))
\* Between two saves, the settings in effect, the ones the subscribers were
\* told and the ones in the file are the same (OnChange of config.go).
InStep ==
  mgr.phase = "up" => /\ mgr.effective = apply(mgr.env, decode(cfgFile, "")) /\ mgr.told = mgr.effective
                      /\ Validate(mgr.effective) = {}
ConfigHolds == NothingLost /\ FileStandsAlone /\ InStep
=============================================================================
