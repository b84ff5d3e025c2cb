---------------------------- MODULE CommandQueue ----------------------------
(***************************************************************************)
(* The command manager (internal/commands): requests queue commands, two   *)
(* lanes run them, a shutdown or a crash stops them, and the next process  *)
(* settles what the last one left in the commands table.                   *)
(*                                                                         *)
(* A kind is a command name with its canonical body: what makes two        *)
(* requests the same.  Each step is one critical section of the manager's  *)
(* mutex, one write of the store or one decision of a command's goroutine. *)
(* (_Fault: a definition with a seeded fault, used by no specification.)   *)
(***************************************************************************)
EXTENDS Integers, FiniteSets

CONSTANTS
  Kind,        \* command names with their canonical bodies
  Exclusive,   \* the kinds whose handler is registered as exclusive
  Reporting,   \* the kinds whose handler reports progress
  CommandId,   \* the ids of the commands table (AUTOINCREMENT)
  Workers,     \* how many commands that are not exclusive run at once
  MaxChanges,  \* bound: configuration changes
  MaxErrors,   \* bound: writes of the store that fail
  MaxBoots     \* bound: starts of the process

ASSUME CommandQueueAssumption ==
  /\ Kind # {} /\ Exclusive \subseteq Kind /\ Reporting \subseteq Kind
  /\ CommandId # {} /\ CommandId \subseteq Nat /\ IsFiniteSet(CommandId)
  /\ Workers \in Nat \ {0}
  /\ MaxChanges \in Nat /\ MaxErrors \in Nat /\ MaxBoots \in Nat

VARIABLES
  queue,         \* Manager.queue: FIFO, which is the order of the ids, as a
                 \* command's row is inserted and it is appended with enqMu held
  running,       \* Manager.running: dispatched and not released
  exclusiveBusy,
  sharedBusy,
  cmd,           \* each command: its row, its entry in memory, its goroutine
  enq,           \* the holder of enqMu and its locals
  mgr,           \* started, stopping, closed, recovered, and Start's loop
  ctxDone,       \* Start's context is cancelled
  proc,          \* the process
  config,        \* history: how often the configuration changed
  errors         \* how many writes failed

lanes == <<queue, running, exclusiveBusy, sharedBusy>>
vars  == <<queue, running, exclusiveBusy, sharedBusy, cmd, enq, mgr, ctxDone,
           proc, config, errors>>

-----------------------------------------------------------------------------
Final     == {"completed", "failed", "aborted"}
Unsettled == {"queued", "started"}
Status    == {"none"} \cup Unsettled \cup Final

\* row: the stored status; mem: entry.cmd.Status (an entry with a final status
\* is finished); pc: where its goroutine is; flush: a progress write holds
\* persistMu; seen: the configuration its handler worked from (-1: not
\* started); promised: the newest change a fresh request for it followed.
Command == [kind: Kind, row: Status, mem: Status,
            pc: {"none", "begin", "start", "check", "handler", "final", "release"},
            flush: BOOLEAN, seen: {-1} \cup Nat, promised: Nat]

\* A command that no goroutine runs.
Idle(k, row, mem) == [kind |-> k, row |-> row, mem |-> mem, pc |-> "none",
                      flush |-> FALSE, seen |-> -1, promised |-> 0]

AnyKind == CHOOSE k \in Kind : TRUE
AnyId   == CHOOSE i \in CommandId : TRUE

EnqFree == [pc |-> "free", kind |-> AnyKind, fresh |-> FALSE, id |-> AnyId]
NewManager == [started |-> FALSE, stopping |-> FALSE, closed |-> FALSE,
               recovered |-> FALSE, loop |-> "off", drain |-> {}]

Up == proc.pc = "up"
IsExclusive(i) == cmd[i].kind \in Exclusive

\* Any write may fail, MaxErrors times.
MayFail == errors < MaxErrors /\ errors' = errors + 1
Succeeds == UNCHANGED errors

-----------------------------------------------------------------------------
(* dispatchLocked.                                                         *)

\* A cancelled context is not noticed before the loop sets stopping.
MayDispatch_Fault(m) == m.started /\ ~m.stopping

MayDispatch(m) == m.started /\ ~m.stopping /\ ~ctxDone

Before(q, i) == {j \in q : j < i}

\* The lane is not looked at.
ExclusiveFits_Fault(q, i, busy) == \A j \in Before(q, i) : ~IsExclusive(j)

\* An exclusive command needs the empty exclusive lane and no exclusive one
\* before it; another one a free worker.
ExclusiveFits(q, i, busy) == ~busy /\ \A j \in Before(q, i) : ~IsExclusive(j)

SharedFits(q, i, busy) ==
  Cardinality({j \in Before(q, i) : ~IsExclusive(j)}) < Workers - busy

\* The commands of the queue q that start, with these lanes.
Starting(q, exBusy, shBusy, m) ==
  {i \in q : /\ MayDispatch(m)
             /\ IF IsExclusive(i) THEN ExclusiveFits(q, i, exBusy)
                                  ELSE SharedFits(q, i, shBusy)}

\* The queue q and the lanes after the commands in go started.
Dispatch(q, run, exBusy, shBusy, go) ==
  /\ queue' = q \ go
  /\ running' = run \cup go
  /\ exclusiveBusy' = (exBusy \/ \E i \in go : IsExclusive(i))
  /\ sharedBusy' = shBusy + Cardinality({i \in go : ~IsExclusive(i)})

Launch(c, go) == [i \in CommandId |-> IF i \in go THEN [c[i] EXCEPT !.pc = "begin"]
                                                  ELSE c[i]]

-----------------------------------------------------------------------------
(* enqueue, under enqMu.                                                   *)

\* FailRunning: the rows an earlier process left.
FailRunning(c) == [i \in CommandId |->
  IF c[i].row \in Unsettled THEN [c[i] EXCEPT !.row = "aborted"] ELSE c[i]]

\* recoverOrphansLocked: tried once.
RecoverOrphans ==
  /\ \/ cmd' = FailRunning(cmd) /\ Succeeds
     \/ UNCHANGED cmd /\ MayFail
  /\ mgr' = [mgr EXCEPT !.recovered = TRUE]

\* A running command absorbs every request of its kind.
Absorbs_Fault(i, k, fresh) ==
  /\ cmd[i].kind = k /\ cmd[i].mem \notin Final
  /\ i \in queue \cup running

\* findDuplicateLocked: a queued one, or a running one unless the request must
\* see a change just made; never one that is finished.
Absorbs(i, k, fresh) ==
  /\ cmd[i].kind = k /\ cmd[i].mem \notin Final
  /\ i \in queue \/ (~fresh /\ i \in running)

Promise(c, i, fresh, change) ==
  IF fresh THEN [c EXCEPT ![i].promised = change] ELSE c

\* The first request of the process recovers, with enqMu, before anything else.
EnqRecover ==
  /\ Up /\ enq.pc = "free" /\ ~mgr.recovered
  /\ RecoverOrphans
  /\ UNCHANGED <<lanes, enq, ctxDone, proc, config>>

\* A request for kind k takes enqMu; it is refused, absorbed, or about to insert
\* its row.  A fresh one follows a change of the configuration: the latest
\* moment of that change, just before the request, is the hardest one.
EnqCheck(k, fresh) ==
  /\ Up /\ enq.pc = "free" /\ mgr.recovered
  /\ ~mgr.stopping /\ ~mgr.closed
  /\ IF fresh THEN config < MaxChanges /\ config' = config + 1 ELSE UNCHANGED config
  /\ LET duplicates == {i \in CommandId : Absorbs(i, k, fresh)} IN
     \/ /\ \E i \in duplicates : cmd' = Promise(cmd, i, fresh, config')
        /\ UNCHANGED enq
     \/ /\ duplicates = {}
        /\ \E i \in CommandId : cmd[i].row = "none"     \* bound: the ids
        /\ enq' = [EnqFree EXCEPT !.pc = "create", !.kind = k, !.fresh = fresh]
        /\ UNCHANGED cmd
  /\ UNCHANGED <<lanes, mgr, ctxDone, proc, errors>>

IsNextId(i) == /\ cmd[i].row = "none"
               /\ \A j \in CommandId : cmd[j].row = "none" => i <= j

\* The row is inserted without the manager's mutex.
EnqCreate ==
  /\ Up /\ enq.pc = "create"
  /\ \/ /\ \E i \in CommandId :
             /\ IsNextId(i)
             /\ cmd' = Promise([cmd EXCEPT ![i] = Idle(enq.kind, "queued", "queued")],
                               i, enq.fresh, config)
             /\ enq' = [enq EXCEPT !.pc = "append", !.id = i]
        /\ Succeeds
     \/ enq' = EnqFree /\ UNCHANGED cmd /\ MayFail
  /\ UNCHANGED <<lanes, mgr, ctxDone, proc, config>>

\* A shutdown that happened since is not noticed.
EnqAppend_Fault ==
  /\ Up /\ enq.pc = "append"
  /\ LET q == queue \cup {enq.id}
         go == Starting(q, exclusiveBusy, sharedBusy, mgr) IN
     /\ Dispatch(q, running, exclusiveBusy, sharedBusy, go)
     /\ cmd' = Launch(cmd, go)
     /\ enq' = EnqFree
  /\ UNCHANGED <<mgr, ctxDone, proc, config, errors>>

EnqAppend ==
  /\ Up /\ enq.pc = "append"
  /\ \/ /\ ~mgr.stopping /\ ~mgr.closed
        /\ LET q == queue \cup {enq.id}
               go == Starting(q, exclusiveBusy, sharedBusy, mgr) IN
           /\ Dispatch(q, running, exclusiveBusy, sharedBusy, go)
           /\ cmd' = Launch(cmd, go)
        /\ enq' = EnqFree
     \/ /\ mgr.stopping \/ mgr.closed
        /\ enq' = [enq EXCEPT !.pc = "abort"]
        /\ UNCHANGED <<lanes, cmd>>
  /\ UNCHANGED <<mgr, ctxDone, proc, config, errors>>

\* abortQueued: the entry is finished and the row says so.
Abort(i) ==
  \/ cmd' = [cmd EXCEPT ![i].mem = "aborted", ![i].row = "aborted"] /\ Succeeds
  \/ cmd' = [cmd EXCEPT ![i].mem = "aborted"] /\ MayFail

EnqAbort ==
  /\ Up /\ enq.pc = "abort"
  /\ Abort(enq.id)
  /\ enq' = EnqFree
  /\ UNCHANGED <<lanes, mgr, ctxDone, proc, config>>

-----------------------------------------------------------------------------
(* Start, shutdown and Wait.                                               *)

StartBegin ==
  /\ Up /\ mgr.loop = "off" /\ ~mgr.started /\ ~mgr.closed
  /\ mgr' = [mgr EXCEPT !.started = TRUE, !.loop = "recover"]
  /\ UNCHANGED <<lanes, cmd, enq, ctxDone, proc, config, errors>>

\* Start recovers whatever a request has done before.
StartRecover_Fault ==
  /\ Up /\ mgr.loop = "recover" /\ enq.pc = "free"
  /\ cmd' = FailRunning(cmd)
  /\ mgr' = [mgr EXCEPT !.recovered = TRUE, !.loop = "dispatch"]
  /\ UNCHANGED <<lanes, enq, ctxDone, proc, config, errors>>

\* With enqMu: no request is between its check and its insert.
StartRecover ==
  /\ Up /\ mgr.loop = "recover" /\ enq.pc = "free"
  /\ mgr' = [mgr EXCEPT !.recovered = TRUE, !.loop = "dispatch"]
  /\ \/ mgr.recovered /\ UNCHANGED <<cmd, errors>>
     \/ ~mgr.recovered /\ cmd' = FailRunning(cmd) /\ Succeeds
     \/ ~mgr.recovered /\ UNCHANGED cmd /\ MayFail
  /\ UNCHANGED <<lanes, enq, ctxDone, proc, config>>

StartDispatch ==
  /\ Up /\ mgr.loop = "dispatch"
  /\ LET go == Starting(queue, exclusiveBusy, sharedBusy, mgr) IN
     /\ Dispatch(queue, running, exclusiveBusy, sharedBusy, go)
     /\ cmd' = Launch(cmd, go)
  /\ mgr' = [mgr EXCEPT !.loop = "select"]
  /\ UNCHANGED <<enq, ctxDone, proc, config, errors>>

\* stopBackground: cancelWork, then Wait.
Cancel ==
  /\ Up /\ ~ctxDone
  /\ ctxDone' = TRUE
  /\ UNCHANGED <<lanes, cmd, enq, mgr, proc, config, errors>>

\* shutdown: the loop has noticed the cancelled context.
Shutdown ==
  /\ Up /\ mgr.loop = "select" /\ ctxDone
  /\ mgr' = [mgr EXCEPT !.stopping = TRUE, !.loop = "drain", !.drain = queue]
  /\ queue' = {}
  /\ UNCHANGED <<running, exclusiveBusy, sharedBusy, cmd, enq, ctxDone, proc,
                 config, errors>>

\* Wait: a manager that never started is stopped here.
WaitCall ==
  /\ Up /\ ctxDone /\ ~mgr.closed
  /\ IF mgr.started
     THEN mgr' = [mgr EXCEPT !.closed = TRUE] /\ UNCHANGED queue
     ELSE /\ mgr' = [mgr EXCEPT !.closed = TRUE, !.stopping = TRUE,
                                !.loop = "drain", !.drain = queue]
          /\ queue' = {}
  /\ UNCHANGED <<running, exclusiveBusy, sharedBusy, cmd, enq, ctxDone, proc,
                 config, errors>>

DrainOne ==
  /\ Up /\ mgr.loop = "drain"
  /\ IF mgr.drain = {}
     THEN mgr' = [mgr EXCEPT !.loop = "done"] /\ UNCHANGED <<cmd, errors>>
     ELSE \E i \in mgr.drain :
            /\ \A j \in mgr.drain : i <= j
            /\ Abort(i)
            /\ mgr' = [mgr EXCEPT !.drain = @ \ {i}]
  /\ UNCHANGED <<lanes, enq, ctxDone, proc, config>>

\* Wait returns: the loop and every command's goroutine have ended.
WaitReturn ==
  /\ Up /\ mgr.closed /\ mgr.loop = "done" /\ running = {}
  /\ proc' = [proc EXCEPT !.pc = "exited"]
  /\ UNCHANGED <<lanes, cmd, enq, mgr, ctxDone, config, errors>>

\* What a process that ended leaves: the table.
LeftBehind == [i \in CommandId |-> Idle(cmd[i].kind, cmd[i].row, "none")]

Vanish ==
  /\ queue' = {} /\ running' = {} /\ exclusiveBusy' = FALSE /\ sharedBusy' = 0
  /\ enq' = EnqFree /\ mgr' = NewManager /\ ctxDone' = FALSE
  /\ UNCHANGED config

Crash ==
  /\ Up /\ proc' = [proc EXCEPT !.pc = "crashed"]
  /\ Vanish /\ cmd' = LeftBehind /\ Succeeds

\* The next process: main aborts the orphans before there is a manager; when
\* that fails, the manager's own recovery is left.
Boot ==
  /\ ~Up /\ proc.boots < MaxBoots
  /\ proc' = [pc |-> "up", boots |-> proc.boots + 1]
  /\ Vanish
  /\ \/ cmd' = FailRunning(LeftBehind) /\ Succeeds
     \/ cmd' = LeftBehind /\ MayFail

-----------------------------------------------------------------------------
(* run: the goroutine of a command.                                        *)

At(i, pc) == Up /\ cmd[i].pc = pc

RunBegin(i) ==
  /\ At(i, "begin")
  /\ IF ctxDone
     THEN \/ /\ cmd' = [cmd EXCEPT ![i].mem = "aborted", ![i].row = "aborted",
                                   ![i].pc = "release"]
             /\ Succeeds
          \/ cmd' = [cmd EXCEPT ![i].mem = "aborted", ![i].pc = "release"] /\ MayFail
     ELSE cmd' = [cmd EXCEPT ![i].mem = "started", ![i].pc = "start"] /\ Succeeds
  /\ UNCHANGED <<lanes, enq, mgr, ctxDone, proc, config>>

\* complete of a command that did not work: failed, or aborted by a shutdown.
NotCompleted == IF ctxDone THEN "aborted" ELSE "failed"

\* Nothing runs without a record of its start.
RunSaveStart(i) ==
  /\ At(i, "start")
  /\ \/ cmd' = [cmd EXCEPT ![i].row = "started", ![i].pc = "check"] /\ Succeeds
     \/ cmd' = [cmd EXCEPT ![i].mem = NotCompleted, ![i].pc = "final"] /\ MayFail
  /\ UNCHANGED <<lanes, enq, mgr, ctxDone, proc, config>>

RunCheck(i) ==
  /\ At(i, "check")
  /\ cmd' = IF ctxDone THEN [cmd EXCEPT ![i].mem = NotCompleted, ![i].pc = "final"]
                       ELSE [cmd EXCEPT ![i].pc = "handler", ![i].seen = config]
  /\ UNCHANGED <<lanes, enq, mgr, ctxDone, proc, config, errors>>

\* flushProgress: save with progressOnly, under persistMu.
ProgressBegin(i) ==
  /\ At(i, "handler") /\ cmd[i].kind \in Reporting /\ ~cmd[i].flush
  /\ cmd' = [cmd EXCEPT ![i].flush = TRUE]
  /\ UNCHANGED <<lanes, enq, mgr, ctxDone, proc, config, errors>>

ProgressWrite(i) ==
  /\ Up /\ cmd[i].flush
  /\ \/ cmd' = [cmd EXCEPT ![i].row = "started", ![i].flush = FALSE] /\ Succeeds
     \/ cmd' = [cmd EXCEPT ![i].flush = FALSE] /\ MayFail
  /\ UNCHANGED <<lanes, enq, mgr, ctxDone, proc, config>>

\* The handler returns (or panics), and complete marks the entry finished.
RunReturn(i) ==
  /\ At(i, "handler")
  /\ \E s \in {"completed", NotCompleted} :
       cmd' = [cmd EXCEPT ![i].mem = s, ![i].pc = "final"]
  /\ UNCHANGED <<lanes, enq, mgr, ctxDone, proc, config, errors>>

RunSaveFinal(i) ==
  /\ At(i, "final") /\ ~cmd[i].flush
  /\ \/ cmd' = [cmd EXCEPT ![i].row = cmd[i].mem, ![i].pc = "release"] /\ Succeeds
     \/ cmd' = [cmd EXCEPT ![i].pc = "release"] /\ MayFail
  /\ UNCHANGED <<lanes, enq, mgr, ctxDone, proc, config>>

\* The lane stays taken.
RunRelease_Fault(i) ==
  /\ At(i, "release")
  /\ running' = running \ {i}
  /\ cmd' = [cmd EXCEPT ![i].pc = "none"]
  /\ UNCHANGED <<queue, exclusiveBusy, sharedBusy, enq, mgr, ctxDone, proc, config,
                 errors>>

\* release frees the lane and dispatches.
RunRelease(i) ==
  /\ At(i, "release")
  /\ LET exBusy == exclusiveBusy /\ ~IsExclusive(i)
         shBusy == IF ~IsExclusive(i) /\ sharedBusy > 0 THEN sharedBusy - 1
                                                        ELSE sharedBusy
         go == Starting(queue, exBusy, shBusy, mgr) IN
     /\ Dispatch(queue, running \ {i}, exBusy, shBusy, go)
     /\ cmd' = Launch([cmd EXCEPT ![i].pc = "none", ![i].seen = -1, ![i].promised = 0], go)
  /\ UNCHANGED <<enq, mgr, ctxDone, proc, config, errors>>

-----------------------------------------------------------------------------
Init ==
  /\ queue = {} /\ running = {} /\ exclusiveBusy = FALSE /\ sharedBusy = 0
  /\ cmd = [i \in CommandId |-> Idle(AnyKind, "none", "none")]
  /\ enq = EnqFree /\ mgr = NewManager /\ ctxDone = FALSE
  /\ proc = [pc |-> "up", boots |-> 1]
  /\ config = 0 /\ errors = 0

EnqStep == EnqCreate \/ EnqAppend \/ EnqAbort

LoopStep == StartRecover \/ StartDispatch \/ Shutdown \/ DrainOne

RunStep(i) ==
  \/ RunBegin(i) \/ RunSaveStart(i) \/ RunCheck(i) \/ RunReturn(i)
  \/ RunSaveFinal(i) \/ RunRelease(i)

Next ==
  \/ EnqRecover
  \/ \E k \in Kind, fresh \in BOOLEAN : EnqCheck(k, fresh)
  \/ EnqStep
  \/ StartBegin \/ LoopStep
  \/ \E i \in CommandId : RunStep(i) \/ ProgressBegin(i) \/ ProgressWrite(i)
  \/ Cancel \/ WaitCall \/ WaitReturn
  \/ Crash \/ Boot

Spec == Init /\ [][Next]_vars

\* Goroutines run, handlers return, and main calls Start and, once the context
\* is cancelled, Wait.
Fairness ==
  /\ WF_vars(EnqStep) /\ SF_vars(LoopStep) /\ WF_vars(StartBegin)
  /\ \A i \in CommandId : WF_vars(RunStep(i)) /\ WF_vars(ProgressWrite(i))
  /\ WF_vars(WaitCall) /\ WF_vars(WaitReturn)

FairSpec == Spec /\ Fairness

-----------------------------------------------------------------------------
(* Properties.                                                             *)

TypeOK ==
  /\ queue \in SUBSET CommandId /\ running \in SUBSET CommandId
  /\ exclusiveBusy \in BOOLEAN /\ sharedBusy \in Nat
  /\ cmd \in [CommandId -> Command]
  /\ enq \in [pc: {"free", "create", "append", "abort"},
              kind: Kind, fresh: BOOLEAN, id: CommandId]
  /\ mgr \in [started: BOOLEAN, stopping: BOOLEAN, closed: BOOLEAN,
              recovered: BOOLEAN,
              loop: {"off", "recover", "dispatch", "select", "drain", "done"},
              drain: SUBSET CommandId]
  /\ ctxDone \in BOOLEAN
  /\ proc \in [pc: {"up", "exited", "crashed"}, boots: Nat]
  /\ config \in Nat /\ errors \in Nat

\* At most one exclusive command is between its dispatch and its release, so a
\* deletion run never overlaps a scan, whatever requests, releases and restarts
\* of the loop come together (dispatchLocked, release).
ExclusiveAlone ==
  \A i, j \in running : IsExclusive(i) /\ IsExclusive(j) => i = j

\* No command is handed a lane once the context is cancelled, even before the
\* loop has noticed (dispatchLocked).
NothingStartsLate == [][ctxDone /\ ctxDone' => running' \subseteq running]_vars

\* A command that absorbed a request made after a configuration change works
\* from that change or a later one (EnqueueFresh).
FreshReflects ==
  \A i \in CommandId : cmd[i].seen # -1 => cmd[i].seen >= cmd[i].promised

\* In the table, a command that ended stays as it ended: neither a late progress
\* write (persistMu) nor the recovery of a later process overwrites it; and the
\* recovery of orphans never aborts a command of this process: a row becomes
\* aborted only if the entry is (recoverOrphansLocked, enqMu).
RowsHold ==
  [][\A i \in CommandId :
       /\ cmd[i].row \in Final => cmd'[i].row = cmd[i].row
       /\ cmd'[i].row = "aborted" /\ cmd'[i].mem # "none" => cmd'[i].mem = "aborted"]_vars

\* When Wait has returned, every command of the table is settled, but the one
\* of a request still on its way and the ones whose last write failed.
ExitSettles ==
  proc.pc = "exited" /\ mgr.recovered /\ errors = 0 =>
    \A i \in CommandId :
      cmd[i].row \notin Unsettled \/ (enq.pc \in {"append", "abort"} /\ i = enq.id)

\* Every command that was queued ends, unless the process does.
QueuedEnds ==
  \A i \in CommandId :
    cmd[i].mem \in Unsettled ~> (cmd[i].mem \in Final \/ ~Up)

=============================================================================
