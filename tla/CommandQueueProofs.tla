------------------------- MODULE CommandQueueProofs -------------------------
(***************************************************************************)
(* Proofs about the command manager, for every set of kinds and ids, every *)
(* number of workers and every bound.                                      *)
(***************************************************************************)
EXTENDS CommandQueue, FiniteSetTheorems, TLAPS


\* The commands in the lanes and the queue have a row, so no insert reuses
\* their ids; the queue and the lanes share none; a goroutine holds a
\* lane, and has an outcome when it is about to record one.
Held(c, q, run) ==
  /\ \A i \in q \cup run : c[i].row # "none"
  /\ q \cap run = {}
  /\ \A i \in CommandId : c[i].pc # "none" => i \in run
  /\ \A i \in CommandId : c[i].pc = "final" => c[i].mem # "none"

\* The exclusive lane is taken by at most one command, and is marked so.
LaneTaken(run, busy) ==
  /\ \A i, j \in run : IsExclusive(i) /\ IsExclusive(j) => i = j
  /\ busy <=> \E i \in run : IsExclusive(i)

\* What is promised has happened, and only a command in a lane has read the
\* configuration: after all it promised.
Reflecting(c, run) ==
  \A i \in CommandId :
    /\ c[i].promised <= config
    /\ c[i].seen # -1 => i \in run /\ c[i].promised <= c[i].seen

\* The request between its insert and its append: its command is nowhere yet.
Inserted ==
  enq.pc \in {"append", "abort"} =>
    cmd[enq.id].row # "none" /\ enq.id \notin queue \cup running

\* The inductive invariant.
LaneInv ==
  /\ TypeOK
  /\ Held(cmd, queue, running)
  /\ LaneTaken(running, exclusiveBusy)
  /\ Reflecting(cmd, running)
  /\ Inserted

-----------------------------------------------------------------------------
(* Dispatch.                                                               *)

\* Of the exclusive commands in the queue dispatchLocked starts at most one, and
\* only if the exclusive lane is free.
LEMMA StartsOneExclusive ==
  ASSUME NEW q \in SUBSET CommandId, NEW exBusy, NEW shBusy, NEW m,
         NEW i \in Starting(q, exBusy, shBusy, m), IsExclusive(i)
  PROVE  /\ i \in q /\ ~exBusy
         /\ \A j \in Starting(q, exBusy, shBusy, m) : IsExclusive(j) => i = j
<1>1. i \in Nat /\ i \in q /\ ~exBusy
  BY CommandQueueAssumption DEF Starting, ExclusiveFits
<1>2. ASSUME NEW j \in Starting(q, exBusy, shBusy, m), IsExclusive(j) PROVE i = j
  <2>1. j \in Nat /\ j \in q
    BY CommandQueueAssumption DEF Starting
  <2>2. ~(i < j)
    BY <1>1, <1>2, <2>1 DEF Starting, ExclusiveFits, Before
  <2>3. ~(j < i)
    BY <1>1, <1>2, <2>1 DEF Starting, ExclusiveFits, Before
  <2> QED BY <1>1, <2>1, <2>2, <2>3
<1> QED BY <1>1, <1>2

\* A finite set of commands has a size, so the counter of the shared lane stays
\* a natural number.
LEMMA SharedCount ==
  ASSUME NEW go \in SUBSET CommandId
  PROVE  Cardinality({i \in go : ~IsExclusive(i)}) \in Nat
<1>1. IsFiniteSet({i \in go : ~IsExclusive(i)})
  BY FS_Subset, CommandQueueAssumption
<1> QED BY <1>1, FS_CardinalityType

\* Handing lanes to queued commands keeps the lanes as they must be, whatever
\* the queue q and the lanes run were before.
LEMMA DispatchSafe ==
  ASSUME NEW q \in SUBSET CommandId, NEW run \in SUBSET CommandId,
         NEW exBusy \in BOOLEAN, NEW shBusy \in Nat, NEW c \in [CommandId -> Command],
         NEW go, go = Starting(q, exBusy, shBusy, mgr),
         \A i \in CommandId : c[i].kind = cmd[i].kind,
         Held(c, q, run), LaneTaken(run, exBusy), Reflecting(c, run),
         Dispatch(q, run, exBusy, shBusy, go), cmd' = Launch(c, go),
         UNCHANGED config
  PROVE  /\ queue' \in SUBSET CommandId /\ running' \in SUBSET CommandId
         /\ exclusiveBusy' \in BOOLEAN /\ sharedBusy' \in Nat
         /\ cmd' \in [CommandId -> Command]
         /\ queue' \cup running' = q \cup run
         /\ \A i \in CommandId : cmd'[i].row = c[i].row
         /\ Held(cmd, queue, running)' /\ LaneTaken(running, exclusiveBusy)'
         /\ Reflecting(cmd, running)'
<1>1. go \in SUBSET q /\ go \in SUBSET CommandId
  BY DEF Starting
<1>2. /\ queue' = q \ go /\ running' = run \cup go
      /\ exclusiveBusy' = (exBusy \/ \E i \in go : IsExclusive(i))
      /\ sharedBusy' = shBusy + Cardinality({i \in go : ~IsExclusive(i)})
  BY DEF Dispatch
<1>3. sharedBusy' \in Nat
  <2>1. Cardinality({i \in go : ~IsExclusive(i)}) \in Nat
    BY <1>1, SharedCount
  <2> QED BY <1>2, <2>1
<1>4. exclusiveBusy' \in BOOLEAN
  BY <1>2
<1>5. /\ cmd' \in [CommandId -> Command]
      /\ \A i \in CommandId :
           /\ cmd'[i].row = c[i].row /\ cmd'[i].kind = c[i].kind
           /\ cmd'[i].seen = c[i].seen /\ cmd'[i].promised = c[i].promised
           /\ cmd'[i].mem = c[i].mem
           /\ cmd'[i].pc = IF i \in go THEN "begin" ELSE c[i].pc
  <2>1. \A i \in CommandId : cmd'[i] = IF i \in go THEN [c[i] EXCEPT !.pc = "begin"] ELSE c[i]
    BY DEF Launch
  <2>2. cmd' = [i \in CommandId |-> IF i \in go THEN [c[i] EXCEPT !.pc = "begin"] ELSE c[i]]
    BY DEF Launch
  <2> QED BY <2>1, <2>2 DEF Command
<1>6. Held(cmd, queue, running)'
  BY <1>1, <1>2, <1>5 DEF Held
<1>7. \A i \in CommandId : IsExclusive(i)' <=> IsExclusive(i)
  BY <1>5 DEF IsExclusive
<1>8. LaneTaken(running, exclusiveBusy)'
  <2>1. \A i, j \in go : IsExclusive(i) /\ IsExclusive(j) => i = j
    BY <1>1, StartsOneExclusive
  <2>2. \A i \in go : IsExclusive(i) => \A j \in run : ~IsExclusive(j)
    BY <1>1, StartsOneExclusive DEF LaneTaken
  <2>3. \A i, j \in run \cup go : IsExclusive(i) /\ IsExclusive(j) => i = j
    BY <2>1, <2>2 DEF LaneTaken
  <2>4. exclusiveBusy' <=> \E i \in run \cup go : IsExclusive(i)
    BY <1>2 DEF LaneTaken
  <2> QED BY <1>1, <1>2, <1>7, <2>3, <2>4 DEF LaneTaken
<1>9. Reflecting(cmd, running)'
  BY <1>2, <1>5 DEF Reflecting
<1> QED BY <1>1, <1>2, <1>3, <1>4, <1>5, <1>6, <1>8, <1>9

-----------------------------------------------------------------------------
(* The other steps.                                                        *)

\* A step that leaves the lanes and the requests alone and only moves commands
\* on keeps the invariant.
LEMMA MovedOn ==
  ASSUME LaneInv, UNCHANGED <<queue, running, exclusiveBusy, enq, config>>,
         \A i \in CommandId :
           /\ cmd'[i].kind = cmd[i].kind
           /\ cmd[i].row # "none" => cmd'[i].row # "none"
           /\ cmd'[i].pc # "none" => i \in running
           /\ cmd'[i].pc = "final" => cmd'[i].mem # "none"
           /\ cmd'[i].promised = cmd[i].promised
           /\ \/ cmd'[i].seen = cmd[i].seen
              \/ i \in running /\ cmd'[i].promised <= cmd'[i].seen
  PROVE  /\ Held(cmd, queue, running)' /\ LaneTaken(running, exclusiveBusy)'
         /\ Reflecting(cmd, running)' /\ Inserted'
<1> USE DEF LaneInv
<1>1. queue \in SUBSET CommandId /\ running \in SUBSET CommandId /\ enq.id \in CommandId
  BY DEF TypeOK
<1>2. Held(cmd, queue, running)'
  BY <1>1 DEF Held
<1>3. \A i \in CommandId : IsExclusive(i)' <=> IsExclusive(i)
  BY DEF IsExclusive
<1>4. LaneTaken(running, exclusiveBusy)'
  BY <1>1, <1>3 DEF LaneTaken
<1>5. Reflecting(cmd, running)'
  BY DEF Reflecting
<1>6. Inserted'
  BY <1>1 DEF Inserted
<1> QED BY <1>2, <1>4, <1>5, <1>6

\* So does one that only empties the queue.
LEMMA Emptied ==
  ASSUME LaneInv, queue' = {}, UNCHANGED <<running, exclusiveBusy, cmd, enq, config>>
  PROVE  /\ Held(cmd, queue, running)' /\ LaneTaken(running, exclusiveBusy)'
         /\ Reflecting(cmd, running)' /\ Inserted'
BY DEF LaneInv, TypeOK, Held, LaneTaken, Reflecting, Inserted, IsExclusive

\* A type-correct step of the counters and of the manager's flags.
LEMMA CountersOK ==
  ASSUME LaneInv, MayFail \/ Succeeds PROVE errors' \in Nat
BY DEF LaneInv, TypeOK, MayFail, Succeeds

\* recoverOrphansLocked: rows of any status but "none" keep one.
LEMMA FailRunningShape ==
  ASSUME LaneInv
  PROVE  /\ FailRunning(cmd) \in [CommandId -> Command]
         /\ \A i \in CommandId :
              /\ FailRunning(cmd)[i].kind = cmd[i].kind
              /\ cmd[i].row # "none" => FailRunning(cmd)[i].row # "none"
              /\ FailRunning(cmd)[i].pc = cmd[i].pc
              /\ FailRunning(cmd)[i].mem = cmd[i].mem
              /\ FailRunning(cmd)[i].promised = cmd[i].promised
              /\ FailRunning(cmd)[i].seen = cmd[i].seen
<1>1. cmd \in [CommandId -> Command]
  BY DEF LaneInv, TypeOK
<1> QED BY <1>1 DEF FailRunning, Command, Unsettled, Status, Final

\* The first request's recovery.
LEMMA EnqRecoverSafe ==
  ASSUME LaneInv, EnqRecover PROVE LaneInv'
<1>1. cmd' = FailRunning(cmd) \/ cmd' = cmd
  BY DEF EnqRecover, RecoverOrphans
<1>2. errors' \in Nat
  BY CountersOK DEF EnqRecover, RecoverOrphans
<1>3. TypeOK'
  BY <1>1, <1>2, FailRunningShape DEF LaneInv, TypeOK, EnqRecover, RecoverOrphans, lanes
<1>4. UNCHANGED <<queue, running, exclusiveBusy, enq, config>>
  BY DEF EnqRecover, lanes
<1>5. \A i \in CommandId :
        /\ cmd'[i].kind = cmd[i].kind
        /\ cmd[i].row # "none" => cmd'[i].row # "none"
        /\ cmd'[i].pc # "none" => i \in running
        /\ cmd'[i].pc = "final" => cmd'[i].mem # "none"
        /\ cmd'[i].promised = cmd[i].promised
        /\ cmd'[i].seen = cmd[i].seen
  BY <1>1, FailRunningShape DEF LaneInv, Held
<1> QED BY <1>3, <1>4, <1>5, MovedOn DEF LaneInv

\* Start's recovery.
LEMMA StartRecoverSafe ==
  ASSUME LaneInv, StartRecover PROVE LaneInv'
<1>1. cmd' = FailRunning(cmd) \/ cmd' = cmd
  BY DEF StartRecover
<1>2. errors' \in Nat
  BY CountersOK DEF StartRecover, Succeeds
<1>3. TypeOK'
  BY <1>1, <1>2, FailRunningShape DEF LaneInv, TypeOK, StartRecover, lanes
<1>4. UNCHANGED <<queue, running, exclusiveBusy, enq, config>>
  BY DEF StartRecover, lanes
<1>5. \A i \in CommandId :
        /\ cmd'[i].kind = cmd[i].kind
        /\ cmd[i].row # "none" => cmd'[i].row # "none"
        /\ cmd'[i].pc # "none" => i \in running
        /\ cmd'[i].pc = "final" => cmd'[i].mem # "none"
        /\ cmd'[i].promised = cmd[i].promised
        /\ cmd'[i].seen = cmd[i].seen
  BY <1>1, FailRunningShape DEF LaneInv, Held
<1> QED BY <1>3, <1>4, <1>5, MovedOn DEF LaneInv

\* A request is absorbed only by a command that has not read the configuration
\* if it must see a change: such a command waits in the queue.
LEMMA EnqCheckSafe ==
  ASSUME LaneInv, NEW k \in Kind, NEW fresh \in BOOLEAN, EnqCheck(k, fresh)
  PROVE  LaneInv'
<1> USE DEF LaneInv
<1>1. config' \in Nat /\ config <= config' /\ config \in Nat
  BY DEF EnqCheck, TypeOK
<1>2. UNCHANGED <<queue, running, exclusiveBusy, sharedBusy, mgr, ctxDone, proc, errors>>
  BY DEF EnqCheck, lanes
<1>3. CASE /\ \E i \in CommandId : Absorbs(i, k, fresh) /\ cmd' = Promise(cmd, i, fresh, config')
           /\ UNCHANGED enq
  <2>1. PICK i \in CommandId : Absorbs(i, k, fresh) /\ cmd' = Promise(cmd, i, fresh, config')
    BY <1>3
  <2>2. CASE ~fresh
    <3>1. cmd' = cmd
      BY <2>1, <2>2 DEF Promise
    <3>2. TypeOK'
      BY <1>1, <1>2, <1>3, <3>1 DEF TypeOK
    <3>3. Reflecting(cmd, running)'
      <4>1. \A j \in CommandId : cmd[j].promised \in Nat
        BY DEF TypeOK, Command
      <4> QED BY <1>1, <1>2, <3>1, <4>1 DEF Reflecting
    <3> QED BY <1>2, <1>3, <3>1, <3>2, <3>3 DEF Held, LaneTaken, Inserted, IsExclusive
  <2>3. CASE fresh
    <3>1. cmd' = [cmd EXCEPT ![i].promised = config']
      BY <2>1, <2>3 DEF Promise
    <3>2. cmd \in [CommandId -> Command]
      BY DEF TypeOK
    <3>3. cmd' \in [CommandId -> Command]
      BY <1>1, <3>1, <3>2 DEF Command
    <3>4. i \in queue /\ i \notin running
      BY <2>1, <2>3 DEF Absorbs, Held
    <3>5. cmd[i].seen = -1
      BY <3>4 DEF Reflecting
    <3>6. \A j \in CommandId :
            /\ cmd'[j].kind = cmd[j].kind /\ cmd'[j].row = cmd[j].row
            /\ cmd'[j].pc = cmd[j].pc /\ cmd'[j].seen = cmd[j].seen
            /\ cmd'[j].mem = cmd[j].mem
            /\ j # i => cmd'[j].promised = cmd[j].promised
            /\ j = i => cmd'[j].promised = config'
      BY <3>1, <3>2 DEF Command
    <3>7. TypeOK'
      BY <1>1, <1>2, <1>3, <3>3 DEF TypeOK
    <3>8. Reflecting(cmd, running)'
      <4>1. \A j \in CommandId : cmd[j].promised \in Nat
        BY DEF TypeOK, Command
      <4> QED BY <1>1, <1>2, <3>5, <3>6, <4>1 DEF Reflecting
    <3>9. \A j \in CommandId : IsExclusive(j)' <=> IsExclusive(j)
      BY <3>6 DEF IsExclusive
    <3>10. LaneTaken(running, exclusiveBusy)'
      BY <1>2, <3>9 DEF LaneTaken, TypeOK
    <3>11. Held(cmd, queue, running)'
      BY <1>2, <3>6 DEF Held, TypeOK
    <3>12. Inserted'
      BY <1>2, <1>3, <3>6 DEF Inserted, TypeOK
    <3> QED BY <3>7, <3>8, <3>10, <3>11, <3>12
  <2> QED BY <2>2, <2>3
<1>4. CASE /\ enq' = [EnqFree EXCEPT !.pc = "create", !.kind = k, !.fresh = fresh]
           /\ UNCHANGED cmd
  <2>1. enq' \in [pc: {"free", "create", "append", "abort"}, kind: Kind,
                  fresh: BOOLEAN, id: CommandId] /\ enq'.pc = "create"
    BY <1>4, CommandQueueAssumption DEF EnqFree, AnyKind, AnyId
  <2>2. TypeOK'
    BY <1>1, <1>2, <1>4, <2>1 DEF TypeOK
  <2>3. Reflecting(cmd, running)'
    <3>1. \A j \in CommandId : cmd[j].promised \in Nat
      BY DEF TypeOK, Command
    <3> QED BY <1>1, <1>2, <1>4, <3>1 DEF Reflecting
  <2> QED BY <1>2, <1>4, <2>1, <2>2, <2>3 DEF Held, LaneTaken, Inserted, IsExclusive
<1> QED BY <1>3, <1>4 DEF EnqCheck
\* A new row takes an id that no command in the queue or in a lane has.
LEMMA EnqCreateSafe ==
  ASSUME LaneInv, EnqCreate PROVE LaneInv'
<1> USE DEF LaneInv
<1>1. errors' \in Nat
  BY CountersOK DEF EnqCreate
<1>2. UNCHANGED <<queue, running, exclusiveBusy, sharedBusy, mgr, ctxDone, proc, config>>
  BY DEF EnqCreate, lanes
<1>3. cmd \in [CommandId -> Command] /\ config \in Nat
  BY DEF TypeOK
<1>4. CASE enq' = EnqFree /\ UNCHANGED cmd
  <2>1. enq' \in [pc: {"free", "create", "append", "abort"}, kind: Kind,
                  fresh: BOOLEAN, id: CommandId] /\ enq'.pc = "free"
    BY <1>4, CommandQueueAssumption DEF EnqFree, AnyKind, AnyId
  <2>2. TypeOK'
    BY <1>1, <1>2, <1>4, <2>1 DEF TypeOK
  <2> QED BY <1>2, <1>4, <2>1, <2>2 DEF Held, LaneTaken, Inserted, IsExclusive, Reflecting
<1>5. ASSUME NEW i \in CommandId, IsNextId(i),
             cmd' = Promise([cmd EXCEPT ![i] = Idle(enq.kind, "queued", "queued")],
                            i, enq.fresh, config),
             enq' = [enq EXCEPT !.pc = "append", !.id = i]
      PROVE  LaneInv'
  <2>1. cmd[i].row = "none"
    BY <1>5 DEF IsNextId
  <2>2. i \notin queue /\ i \notin running
    BY <2>1 DEF Held
  <2>3. enq.kind \in Kind /\ enq.fresh \in BOOLEAN
    BY DEF TypeOK
  <2>5. /\ cmd'[i] \in Command /\ cmd'[i].row = "queued" /\ cmd'[i].pc = "none"
        /\ cmd'[i].seen = -1 /\ cmd'[i].promised <= config
    <3> DEFINE new == Idle(enq.kind, "queued", "queued")
    <3>1. /\ new \in Command /\ new.row = "queued" /\ new.pc = "none"
          /\ new.seen = -1 /\ new.promised = 0
      BY <2>3 DEF Command, Status, Unsettled, Idle
    <3> HIDE DEF new
    <3>2. cmd' = Promise([cmd EXCEPT ![i] = new], i, enq.fresh, config)
      BY <1>5 DEF new
    <3>3. CASE enq.fresh
      <4>1. cmd'[i] = [new EXCEPT !.promised = config]
        BY <1>3, <3>2, <3>3 DEF Promise
      <4> QED BY <1>3, <3>1, <4>1 DEF Command
    <3>4. CASE ~enq.fresh
      <4>1. cmd'[i] = new
        BY <1>3, <3>2, <3>4 DEF Promise
      <4> QED BY <1>3, <3>1, <4>1
    <3> QED BY <3>3, <3>4
  <2>6. \A j \in CommandId : j # i => cmd'[j] = cmd[j]
    BY <1>3, <1>5, <2>3 DEF Promise
  <2>7. cmd' \in [CommandId -> Command]
    <3>1. \A j \in CommandId : cmd'[j] \in Command
      BY <1>3, <2>5, <2>6
    <3>2. cmd' = [j \in CommandId |-> cmd'[j]]
      BY <1>3, <1>5, <2>3 DEF Promise
    <3> QED BY <3>1, <3>2
  <2>8. /\ enq' \in [pc: {"free", "create", "append", "abort"}, kind: Kind,
                     fresh: BOOLEAN, id: CommandId]
        /\ enq'.id = i
    BY <1>5 DEF TypeOK
  <2>9. TypeOK'
    BY <1>1, <1>2, <2>7, <2>8 DEF TypeOK
  <2>10. Held(cmd, queue, running)'
    BY <1>2, <2>2, <2>5, <2>6 DEF Held, TypeOK
  <2>11. \A j \in running : IsExclusive(j)' <=> IsExclusive(j)
    BY <2>2, <2>6 DEF IsExclusive, TypeOK
  <2>12. LaneTaken(running, exclusiveBusy)'
    BY <1>2, <2>11 DEF LaneTaken
  <2>13. Reflecting(cmd, running)'
    BY <1>2, <2>5, <2>6 DEF Reflecting
  <2>14. Inserted'
    BY <1>2, <2>2, <2>5, <2>8 DEF Inserted
  <2> QED BY <2>9, <2>10, <2>12, <2>13, <2>14
<1> QED BY <1>4, <1>5 DEF EnqCreate

\* The command is appended, and with it all that fits a lane starts.
LEMMA EnqAppendSafe ==
  ASSUME LaneInv, EnqAppend PROVE LaneInv'
<1> USE DEF LaneInv
<1>1. /\ UNCHANGED <<mgr, ctxDone, proc, config, errors>>
      /\ enq.pc = "append"
  BY DEF EnqAppend
<1>2. /\ queue \in SUBSET CommandId /\ running \in SUBSET CommandId
      /\ exclusiveBusy \in BOOLEAN /\ sharedBusy \in Nat
      /\ cmd \in [CommandId -> Command] /\ enq.id \in CommandId
  BY DEF TypeOK
<1>3. CASE enq' = [enq EXCEPT !.pc = "abort"] /\ UNCHANGED <<lanes, cmd>>
  <2>1. /\ enq' \in [pc: {"free", "create", "append", "abort"}, kind: Kind,
                     fresh: BOOLEAN, id: CommandId]
        /\ enq'.id = enq.id
    BY <1>3 DEF TypeOK
  <2>2. TypeOK'
    BY <1>1, <1>3, <2>1 DEF TypeOK, lanes
  <2> QED BY <1>1, <1>3, <2>1, <2>2 DEF Held, LaneTaken, Inserted, IsExclusive, Reflecting, lanes
<1>4. CASE /\ LET q == queue \cup {enq.id}
                  go == Starting(q, exclusiveBusy, sharedBusy, mgr) IN
              /\ Dispatch(q, running, exclusiveBusy, sharedBusy, go)
              /\ cmd' = Launch(cmd, go)
           /\ enq' = EnqFree
  <2> DEFINE q == queue \cup {enq.id}
             go == Starting(q, exclusiveBusy, sharedBusy, mgr)
  <2>1. q \in SUBSET CommandId
    BY <1>2
  <2>2. Held(cmd, q, running)
    BY <1>1 DEF Held, Inserted
  <2>3. Dispatch(q, running, exclusiveBusy, sharedBusy, go) /\ cmd' = Launch(cmd, go)
    BY <1>4
  <2>4. enq' \in [pc: {"free", "create", "append", "abort"}, kind: Kind,
                  fresh: BOOLEAN, id: CommandId] /\ enq'.pc = "free"
    BY <1>4, CommandQueueAssumption DEF EnqFree, AnyKind, AnyId
  <2> HIDE DEF q, go
  <2>5. go = Starting(q, exclusiveBusy, sharedBusy, mgr)
    BY DEF go
  <2>6. /\ queue' \in SUBSET CommandId /\ running' \in SUBSET CommandId
        /\ exclusiveBusy' \in BOOLEAN /\ sharedBusy' \in Nat
        /\ cmd' \in [CommandId -> Command]
        /\ Held(cmd, queue, running)' /\ LaneTaken(running, exclusiveBusy)'
        /\ Reflecting(cmd, running)'
    BY <1>1, <1>2, <2>1, <2>2, <2>3, <2>5, DispatchSafe
  <2>7. TypeOK'
    BY <1>1, <2>4, <2>6 DEF TypeOK
  <2> QED BY <2>4, <2>6, <2>7 DEF Inserted
<1> QED BY <1>3, <1>4 DEF EnqAppend

\* Start dispatches what was queued before.
LEMMA StartDispatchSafe ==
  ASSUME LaneInv, StartDispatch PROVE LaneInv'
<1> USE DEF LaneInv
<1> DEFINE go == Starting(queue, exclusiveBusy, sharedBusy, mgr)
<1>1. UNCHANGED <<enq, ctxDone, proc, config, errors>>
  BY DEF StartDispatch
<1>2. /\ queue \in SUBSET CommandId /\ running \in SUBSET CommandId
      /\ exclusiveBusy \in BOOLEAN /\ sharedBusy \in Nat
      /\ cmd \in [CommandId -> Command] /\ enq.id \in CommandId
  BY DEF TypeOK
<1>3. Dispatch(queue, running, exclusiveBusy, sharedBusy, go) /\ cmd' = Launch(cmd, go)
  BY DEF StartDispatch
<1>4. mgr' = [mgr EXCEPT !.loop = "select"]
  BY DEF StartDispatch
<1> HIDE DEF go
<1>5. go = Starting(queue, exclusiveBusy, sharedBusy, mgr)
  BY DEF go
<1>6. /\ queue' \in SUBSET CommandId /\ running' \in SUBSET CommandId
      /\ exclusiveBusy' \in BOOLEAN /\ sharedBusy' \in Nat
      /\ cmd' \in [CommandId -> Command]
      /\ queue' \cup running' = queue \cup running
      /\ \A i \in CommandId : cmd'[i].row = cmd[i].row
      /\ Held(cmd, queue, running)' /\ LaneTaken(running, exclusiveBusy)'
      /\ Reflecting(cmd, running)'
  BY <1>1, <1>2, <1>3, <1>5, DispatchSafe
<1>7. TypeOK'
  BY <1>1, <1>4, <1>6 DEF TypeOK
<1>8. Inserted'
  BY <1>1, <1>2, <1>6 DEF Inserted
<1> QED BY <1>6, <1>7, <1>8

\* release takes the command out of its lane and hands the lane on.
LEMMA RunReleaseSafe ==
  ASSUME LaneInv, NEW i \in CommandId, RunRelease(i) PROVE LaneInv'
<1> USE DEF LaneInv
<1> DEFINE exBusy == exclusiveBusy /\ ~IsExclusive(i)
           shBusy == IF ~IsExclusive(i) /\ sharedBusy > 0 THEN sharedBusy - 1 ELSE sharedBusy
           run == running \ {i}
           c == [cmd EXCEPT ![i].pc = "none", ![i].seen = -1, ![i].promised = 0]
           go == Starting(queue, exBusy, shBusy, mgr)
<1>1. UNCHANGED <<enq, mgr, ctxDone, proc, config, errors>> /\ cmd[i].pc = "release"
  BY DEF RunRelease, At
<1>2. /\ queue \in SUBSET CommandId /\ running \in SUBSET CommandId
      /\ exclusiveBusy \in BOOLEAN /\ sharedBusy \in Nat
      /\ cmd \in [CommandId -> Command] /\ enq.id \in CommandId /\ config \in Nat
  BY DEF TypeOK
<1>3. Dispatch(queue, run, exBusy, shBusy, go) /\ cmd' = Launch(c, go)
  BY DEF RunRelease
<1>4. i \in running
  BY <1>1 DEF Held
<1>5. c \in [CommandId -> Command]
  <2>1. cmd[i] \in Command
    BY <1>2
  <2>2. [cmd[i] EXCEPT !.pc = "none", !.seen = -1, !.promised = 0] \in Command
    BY <2>1 DEF Command
  <2>3. c = [cmd EXCEPT ![i] = [cmd[i] EXCEPT !.pc = "none", !.seen = -1, !.promised = 0]]
    BY <1>2
  <2> QED BY <1>2, <2>2, <2>3
<1>6. /\ \A j \in CommandId : c[j].kind = cmd[j].kind
      /\ \A j \in CommandId : c[j].row = cmd[j].row
      /\ \A j \in CommandId : j # i => c[j] = cmd[j]
      /\ c[i].pc = "none" /\ c[i].seen = -1 /\ c[i].promised = 0
  BY <1>2 DEF Command
<1>7. run \in SUBSET CommandId /\ exBusy \in BOOLEAN
  BY <1>2
<1>8. shBusy \in Nat
  BY <1>2
<1>9. LaneTaken(run, exBusy)
  BY <1>4 DEF LaneTaken
<1> HIDE DEF c
<1>10. Held(c, queue, run)
  BY <1>2, <1>6 DEF Held
<1>11. Reflecting(c, run)
  BY <1>2, <1>6 DEF Reflecting
<1> HIDE DEF go, exBusy, shBusy, run
<1>12. go = Starting(queue, exBusy, shBusy, mgr) /\ run = running \ {i}
  BY DEF go, run
<1>13. /\ queue' \in SUBSET CommandId /\ running' \in SUBSET CommandId
       /\ exclusiveBusy' \in BOOLEAN /\ sharedBusy' \in Nat
       /\ cmd' \in [CommandId -> Command]
       /\ queue' \cup running' = queue \cup run
       /\ \A j \in CommandId : cmd'[j].row = c[j].row
       /\ Held(cmd, queue, running)' /\ LaneTaken(running, exclusiveBusy)'
       /\ Reflecting(cmd, running)'
  BY <1>1, <1>2, <1>3, <1>5, <1>6, <1>7, <1>8, <1>9, <1>10, <1>11, <1>12, DispatchSafe
<1>14. TypeOK'
  BY <1>1, <1>13 DEF TypeOK
<1>15. Inserted'
  BY <1>1, <1>2, <1>6, <1>12, <1>13 DEF Inserted
<1> QED BY <1>13, <1>14, <1>15
\* The command of a request that came too late, or of the queue at a shutdown.
LEMMA AbortSafe ==
  ASSUME LaneInv, NEW i \in CommandId, Abort(i)
  PROVE  /\ cmd' \in [CommandId -> Command] /\ errors' \in Nat
         /\ \A j \in CommandId :
              /\ cmd'[j].kind = cmd[j].kind
              /\ cmd[j].row # "none" => cmd'[j].row # "none"
              /\ cmd'[j].pc # "none" => j \in running
              /\ cmd'[j].pc = "final" => cmd'[j].mem # "none"
              /\ cmd'[j].promised = cmd[j].promised
              /\ cmd'[j].seen = cmd[j].seen
<1>1. cmd \in [CommandId -> Command] /\ \A j \in CommandId : cmd[j].pc # "none" => j \in running
  BY DEF LaneInv, TypeOK, Held
<1> \A j \in CommandId : cmd[j].pc = "final" => cmd[j].mem # "none"
  BY DEF LaneInv, Held
<1>2. errors' \in Nat
  BY CountersOK DEF Abort
<1>3. CASE cmd' = [cmd EXCEPT ![i].mem = "aborted", ![i].row = "aborted"]
  <2> DEFINE r == [cmd[i] EXCEPT !.mem = "aborted", !.row = "aborted"]
  <2>1. /\ r \in Command /\ r.kind = cmd[i].kind /\ r.row = "aborted"
        /\ r.pc = cmd[i].pc /\ r.promised = cmd[i].promised /\ r.seen = cmd[i].seen
    BY <1>1 DEF Command, Status, Final
  <2>2. cmd' = [cmd EXCEPT ![i] = r]
    BY <1>1, <1>3
  <2> QED BY <1>1, <1>2, <2>1, <2>2
<1>4. CASE cmd' = [cmd EXCEPT ![i].mem = "aborted"]
  BY <1>1, <1>2, <1>4 DEF Command, Status, Final
<1> QED BY <1>3, <1>4 DEF Abort

\* enqueue's late abort.
LEMMA EnqAbortSafe ==
  ASSUME LaneInv, EnqAbort PROVE LaneInv'
<1> USE DEF LaneInv
<1>1. /\ UNCHANGED <<queue, running, exclusiveBusy, sharedBusy, mgr, ctxDone, proc, config>>
      /\ Abort(enq.id) /\ enq' = EnqFree /\ enq.id \in CommandId
  BY DEF EnqAbort, lanes, TypeOK
<1>2. enq' \in [pc: {"free", "create", "append", "abort"}, kind: Kind,
                fresh: BOOLEAN, id: CommandId] /\ enq'.pc = "free"
  BY <1>1, CommandQueueAssumption DEF EnqFree, AnyKind, AnyId
<1>3. /\ cmd' \in [CommandId -> Command] /\ errors' \in Nat
      /\ \A j \in CommandId :
           /\ cmd'[j].kind = cmd[j].kind
           /\ cmd[j].row # "none" => cmd'[j].row # "none"
           /\ cmd'[j].pc # "none" => j \in running
           /\ cmd'[j].pc = "final" => cmd'[j].mem # "none"
           /\ cmd'[j].promised = cmd[j].promised
           /\ cmd'[j].seen = cmd[j].seen
  BY <1>1, AbortSafe
<1>4. TypeOK'
  BY <1>1, <1>2, <1>3 DEF TypeOK
<1>5. queue \in SUBSET CommandId /\ running \in SUBSET CommandId
  BY DEF TypeOK
<1>6. Held(cmd, queue, running)'
  BY <1>1, <1>3, <1>5 DEF Held
<1>7. \A j \in CommandId : IsExclusive(j)' <=> IsExclusive(j)
  BY <1>3 DEF IsExclusive
<1>8. LaneTaken(running, exclusiveBusy)'
  BY <1>1, <1>5, <1>7 DEF LaneTaken
<1>9. Reflecting(cmd, running)'
  BY <1>1, <1>3 DEF Reflecting
<1> QED BY <1>2, <1>4, <1>6, <1>8, <1>9 DEF Inserted

\* One command of the drained queue.
LEMMA DrainOneSafe ==
  ASSUME LaneInv, DrainOne PROVE LaneInv'
<1> USE DEF LaneInv
<1>1. UNCHANGED <<queue, running, exclusiveBusy, sharedBusy, enq, ctxDone, proc, config>>
  BY DEF DrainOne, lanes
<1>2. CASE mgr' = [mgr EXCEPT !.loop = "done"] /\ UNCHANGED <<cmd, errors>>
  <2>1. TypeOK'
    BY <1>1, <1>2 DEF TypeOK
  <2> QED BY <1>1, <1>2, <2>1 DEF Held, LaneTaken, Reflecting, Inserted, IsExclusive
<1>3. ASSUME NEW i \in mgr.drain, Abort(i), mgr' = [mgr EXCEPT !.drain = @ \ {i}]
      PROVE  LaneInv'
  <2>1. i \in CommandId
    BY <1>3 DEF TypeOK
  <2>2. /\ cmd' \in [CommandId -> Command] /\ errors' \in Nat
        /\ \A j \in CommandId :
             /\ cmd'[j].kind = cmd[j].kind
             /\ cmd[j].row # "none" => cmd'[j].row # "none"
             /\ cmd'[j].pc # "none" => j \in running
             /\ cmd'[j].pc = "final" => cmd'[j].mem # "none"
             /\ cmd'[j].promised = cmd[j].promised
             /\ cmd'[j].seen = cmd[j].seen
    BY <1>3, <2>1, AbortSafe
  <2>3. TypeOK'
    BY <1>1, <1>3, <2>2 DEF TypeOK
  <2> QED BY <1>1, <2>2, <2>3, MovedOn
<1> QED BY <1>2, <1>3 DEF DrainOne

\* The steps of Start, shutdown and Wait that touch flags and the queue only.
LEMMA FlagsSafe ==
  ASSUME LaneInv, StartBegin \/ Cancel \/ Shutdown \/ WaitCall \/ WaitReturn
  PROVE  LaneInv'
<1> USE DEF LaneInv
<1>1. UNCHANGED <<running, exclusiveBusy, sharedBusy, cmd, enq, config, errors>>
  BY DEF StartBegin, Cancel, Shutdown, WaitCall, WaitReturn, lanes
<1>2. queue' = queue \/ queue' = {}
  BY DEF StartBegin, Cancel, Shutdown, WaitCall, WaitReturn, lanes
<1>3. TypeOK'
  <2>1. mgr' \in [started: BOOLEAN, stopping: BOOLEAN, closed: BOOLEAN,
                  recovered: BOOLEAN,
                  loop: {"off", "recover", "dispatch", "select", "drain", "done"},
                  drain: SUBSET CommandId]
    BY DEF StartBegin, Cancel, Shutdown, WaitCall, WaitReturn, TypeOK
  <2>2. ctxDone' \in BOOLEAN /\ proc' \in [pc: {"up", "exited", "crashed"}, boots: Nat]
    BY DEF StartBegin, Cancel, Shutdown, WaitCall, WaitReturn, TypeOK
  <2> QED BY <1>1, <1>2, <2>1, <2>2 DEF TypeOK
<1>4. CASE queue' = queue
  BY <1>1, <1>3, <1>4 DEF Held, LaneTaken, Reflecting, Inserted, IsExclusive
<1>5. CASE queue' = {}
  BY <1>1, <1>3, <1>5, Emptied
<1> QED BY <1>2, <1>4, <1>5

\* The end of a process and the start of the next one leave rows only.
LEMMA VanishSafe ==
  ASSUME LaneInv, Crash \/ Boot PROVE LaneInv'
<1> USE DEF LaneInv
<1>1. Vanish /\ proc' \in [pc: {"up", "exited", "crashed"}, boots: Nat]
  BY DEF Crash, Boot, TypeOK
<1>2. enq' \in [pc: {"free", "create", "append", "abort"}, kind: Kind,
                fresh: BOOLEAN, id: CommandId] /\ enq'.pc = "free"
  BY <1>1, CommandQueueAssumption DEF Vanish, EnqFree, AnyKind, AnyId
<1>3. cmd \in [CommandId -> Command] /\ config \in Nat
  BY DEF TypeOK
<1>4. /\ LeftBehind \in [CommandId -> Command]
      /\ \A i \in CommandId : /\ LeftBehind[i].pc = "none" /\ LeftBehind[i].seen = -1
                                /\ LeftBehind[i].promised = 0
  BY <1>3 DEF LeftBehind, Idle, Command, Status
<1>5. /\ FailRunning(LeftBehind) \in [CommandId -> Command]
      /\ \A i \in CommandId : /\ FailRunning(LeftBehind)[i].pc = "none"
                                /\ FailRunning(LeftBehind)[i].seen = -1
                                /\ FailRunning(LeftBehind)[i].promised = 0
  BY <1>4 DEF FailRunning, Command, Unsettled, Status, Final
<1>6. cmd' = LeftBehind \/ cmd' = FailRunning(LeftBehind)
  BY DEF Crash, Boot
<1>7. /\ cmd' \in [CommandId -> Command]
      /\ \A i \in CommandId : cmd'[i].pc = "none" /\ cmd'[i].seen = -1 /\ cmd'[i].promised = 0
  BY <1>4, <1>5, <1>6
<1>8. errors' \in Nat
  BY CountersOK DEF Crash, Boot, Succeeds
<1>9. TypeOK'
  BY <1>1, <1>2, <1>7, <1>8 DEF TypeOK, Vanish, NewManager
<1>10. queue' = {} /\ running' = {} /\ ~exclusiveBusy' /\ config' = config
  BY <1>1 DEF Vanish
<1>11. Reflecting(cmd, running)'
  BY <1>3, <1>7, <1>10 DEF Reflecting
<1> QED BY <1>2, <1>7, <1>9, <1>10, <1>11 DEF Held, LaneTaken, Inserted
-----------------------------------------------------------------------------
(* The goroutine of a command.                                             *)

\* A step that writes one command, in memory or in the table, and keeps what
\* the invariant says of it.
LEMMA OneCommand ==
  ASSUME LaneInv, NEW i \in CommandId, NEW r \in Command,
         cmd' = [cmd EXCEPT ![i] = r],
         r.kind = cmd[i].kind, cmd[i].row # "none" => r.row # "none",
         r.pc # "none" => i \in running, r.pc = "final" => r.mem # "none",
         r.promised = cmd[i].promised,
         r.seen = cmd[i].seen \/ (i \in running /\ r.promised <= r.seen),
         UNCHANGED <<lanes, enq, mgr, ctxDone, proc, config>>, errors' \in Nat
  PROVE  LaneInv'
<1>1. UNCHANGED <<queue, running, exclusiveBusy, sharedBusy, enq, config>>
  BY DEF lanes
<1>2. cmd \in [CommandId -> Command] /\ \A j \in CommandId : cmd[j].pc # "none" => j \in running
  BY DEF LaneInv, TypeOK, Held
<1> \A j \in CommandId : cmd[j].pc = "final" => cmd[j].mem # "none"
  BY DEF LaneInv, Held
<1>3. TypeOK'
  BY <1>1, <1>2 DEF LaneInv, TypeOK
<1>4. \A j \in CommandId :
        /\ cmd'[j].kind = cmd[j].kind
        /\ cmd[j].row # "none" => cmd'[j].row # "none"
        /\ cmd'[j].pc # "none" => j \in running
        /\ cmd'[j].pc = "final" => cmd'[j].mem # "none"
        /\ cmd'[j].promised = cmd[j].promised
        /\ \/ cmd'[j].seen = cmd[j].seen
           \/ j \in running /\ cmd'[j].promised <= cmd'[j].seen
  BY <1>2
<1> QED BY <1>1, <1>3, <1>4, MovedOn DEF LaneInv

\* run's begin: aborted by a shutdown, or started in memory.
LEMMA RunBeginSafe ==
  ASSUME LaneInv, NEW i \in CommandId, RunBegin(i) PROVE LaneInv'
<1>1. /\ UNCHANGED <<lanes, enq, mgr, ctxDone, proc, config>>
      /\ cmd \in [CommandId -> Command] /\ cmd[i] \in Command /\ i \in running
  BY DEF RunBegin, At, LaneInv, TypeOK, Held
<1>2. errors' \in Nat
  BY CountersOK DEF RunBegin
<1> DEFINE Done(r) ==
      /\ r \in Command /\ r.kind = cmd[i].kind
      /\ cmd[i].row # "none" => r.row # "none"
      /\ r.promised = cmd[i].promised /\ r.seen = cmd[i].seen
      /\ r.pc # "final"
<1>3. CASE cmd' = [cmd EXCEPT ![i].mem = "aborted", ![i].row = "aborted", ![i].pc = "release"]
  <2>1. Done([cmd[i] EXCEPT !.mem = "aborted", !.row = "aborted", !.pc = "release"])
    BY <1>1 DEF Command, Status, Final
  <2>2. cmd' = [cmd EXCEPT ![i] = [cmd[i] EXCEPT !.mem = "aborted", !.row = "aborted", !.pc = "release"]]
    BY <1>1, <1>3
  <2> QED BY <1>1, <1>2, <2>1, <2>2, OneCommand
<1>4. CASE cmd' = [cmd EXCEPT ![i].mem = "aborted", ![i].pc = "release"]
  <2>1. Done([cmd[i] EXCEPT !.mem = "aborted", !.pc = "release"])
    BY <1>1 DEF Command, Status, Final
  <2>2. cmd' = [cmd EXCEPT ![i] = [cmd[i] EXCEPT !.mem = "aborted", !.pc = "release"]]
    BY <1>1, <1>4
  <2> QED BY <1>1, <1>2, <2>1, <2>2, OneCommand
<1>5. CASE cmd' = [cmd EXCEPT ![i].mem = "started", ![i].pc = "start"]
  <2>1. Done([cmd[i] EXCEPT !.mem = "started", !.pc = "start"])
    BY <1>1 DEF Command, Status, Unsettled
  <2>2. cmd' = [cmd EXCEPT ![i] = [cmd[i] EXCEPT !.mem = "started", !.pc = "start"]]
    BY <1>1, <1>5
  <2> QED BY <1>1, <1>2, <2>1, <2>2, OneCommand
<1> QED BY <1>3, <1>4, <1>5 DEF RunBegin

\* The record of the start, or the failure of that write.
LEMMA RunSaveStartSafe ==
  ASSUME LaneInv, NEW i \in CommandId, RunSaveStart(i) PROVE LaneInv'
<1>1. /\ UNCHANGED <<lanes, enq, mgr, ctxDone, proc, config>>
      /\ cmd \in [CommandId -> Command] /\ cmd[i] \in Command /\ i \in running
  BY DEF RunSaveStart, At, LaneInv, TypeOK, Held
<1>2. errors' \in Nat
  BY CountersOK DEF RunSaveStart
<1>3. CASE cmd' = [cmd EXCEPT ![i].row = "started", ![i].pc = "check"]
  <2> DEFINE r == [cmd[i] EXCEPT !.row = "started", !.pc = "check"]
  <2>1. /\ r \in Command /\ r.kind = cmd[i].kind /\ r.row # "none"
        /\ r.promised = cmd[i].promised /\ r.seen = cmd[i].seen /\ r.pc # "final"
    BY <1>1 DEF Command, Status, Unsettled
  <2>2. cmd' = [cmd EXCEPT ![i] = r]
    BY <1>1, <1>3
  <2> QED BY <1>1, <1>2, <2>1, <2>2, OneCommand
<1>4. CASE cmd' = [cmd EXCEPT ![i].mem = NotCompleted, ![i].pc = "final"]
  <2> DEFINE r == [cmd[i] EXCEPT !.mem = NotCompleted, !.pc = "final"]
  <2>1. /\ r \in Command /\ r.kind = cmd[i].kind /\ r.row = cmd[i].row
        /\ r.promised = cmd[i].promised /\ r.seen = cmd[i].seen /\ r.mem # "none"
    BY <1>1 DEF Command, Status, Final, NotCompleted
  <2>2. cmd' = [cmd EXCEPT ![i] = r]
    BY <1>1, <1>4
  <2> QED BY <1>1, <1>2, <2>1, <2>2, OneCommand
<1> QED BY <1>3, <1>4 DEF RunSaveStart

\* The handler starts, and reads the configuration as it is now.
LEMMA RunCheckSafe ==
  ASSUME LaneInv, NEW i \in CommandId, RunCheck(i) PROVE LaneInv'
<1>1. /\ UNCHANGED <<lanes, enq, mgr, ctxDone, proc, config>>
      /\ cmd \in [CommandId -> Command] /\ cmd[i] \in Command /\ i \in running
      /\ config \in Nat /\ cmd[i].promised <= config
  BY DEF RunCheck, At, LaneInv, TypeOK, Held, Reflecting
<1>2. errors' \in Nat
  BY DEF RunCheck, LaneInv, TypeOK
<1>3. CASE cmd' = [cmd EXCEPT ![i].mem = NotCompleted, ![i].pc = "final"]
  <2> DEFINE r == [cmd[i] EXCEPT !.mem = NotCompleted, !.pc = "final"]
  <2>1. /\ r \in Command /\ r.kind = cmd[i].kind /\ r.row = cmd[i].row
        /\ r.promised = cmd[i].promised /\ r.seen = cmd[i].seen /\ r.mem # "none"
    BY <1>1 DEF Command, Status, Final, NotCompleted
  <2>2. cmd' = [cmd EXCEPT ![i] = r]
    BY <1>1, <1>3
  <2> QED BY <1>1, <1>2, <2>1, <2>2, OneCommand
<1>4. CASE cmd' = [cmd EXCEPT ![i].pc = "handler", ![i].seen = config]
  <2> DEFINE r == [cmd[i] EXCEPT !.pc = "handler", !.seen = config]
  <2>1. /\ r \in Command /\ r.kind = cmd[i].kind /\ r.row = cmd[i].row
        /\ r.promised = cmd[i].promised /\ r.seen = config /\ r.pc # "final"
    BY <1>1 DEF Command
  <2>2. cmd' = [cmd EXCEPT ![i] = r]
    BY <1>1, <1>4
  <2> QED BY <1>1, <1>2, <2>1, <2>2, OneCommand
<1> QED BY <1>3, <1>4 DEF RunCheck

\* Progress, the handler's return and the final write.
LEMMA HandlerSafe ==
  ASSUME LaneInv, NEW i \in CommandId,
         ProgressBegin(i) \/ ProgressWrite(i) \/ RunReturn(i) \/ RunSaveFinal(i)
  PROVE  LaneInv'
<1>1. /\ UNCHANGED <<lanes, enq, mgr, ctxDone, proc, config>>
      /\ cmd \in [CommandId -> Command] /\ cmd[i] \in Command
      /\ cmd[i].pc # "none" => i \in running
      /\ cmd[i].pc = "final" => cmd[i].mem # "none"
  BY DEF ProgressBegin, ProgressWrite, RunReturn, RunSaveFinal, At, LaneInv, TypeOK, Held
<1>2. errors' \in Nat
  BY CountersOK DEF ProgressBegin, ProgressWrite, RunReturn, RunSaveFinal, Succeeds
<1>3. ASSUME NEW r \in Command, cmd' = [cmd EXCEPT ![i] = r], r.kind = cmd[i].kind,
             cmd[i].row # "none" => r.row # "none",
             r.pc = cmd[i].pc \/ cmd[i].pc # "none", r.pc = "final" => r.mem # "none",
             r.promised = cmd[i].promised, r.seen = cmd[i].seen
      PROVE  LaneInv'
  BY <1>1, <1>2, <1>3, OneCommand
<1>4. ASSUME ProgressBegin(i) \/ ProgressWrite(i) PROVE LaneInv'
  <2>1. PICK r \in Command :
          /\ cmd' = [cmd EXCEPT ![i] = r] /\ r.kind = cmd[i].kind
          /\ cmd[i].row # "none" => r.row # "none"
          /\ r.pc = cmd[i].pc /\ r.mem = cmd[i].mem
          /\ r.promised = cmd[i].promised /\ r.seen = cmd[i].seen
    <3>1. CASE cmd' = [cmd EXCEPT ![i].flush = TRUE]
      <4>1. [cmd[i] EXCEPT !.flush = TRUE] \in Command
        BY <1>1 DEF Command
      <4> QED BY <1>1, <3>1, <4>1 DEF Command
    <3>2. CASE cmd' = [cmd EXCEPT ![i].flush = FALSE]
      <4>1. [cmd[i] EXCEPT !.flush = FALSE] \in Command
        BY <1>1 DEF Command
      <4> QED BY <1>1, <3>2, <4>1 DEF Command
    <3>3. CASE cmd' = [cmd EXCEPT ![i].row = "started", ![i].flush = FALSE]
      <4> DEFINE r == [cmd[i] EXCEPT !.row = "started", !.flush = FALSE]
      <4>1. /\ r \in Command /\ r.kind = cmd[i].kind /\ r.row = "started"
            /\ r.pc = cmd[i].pc /\ r.mem = cmd[i].mem
            /\ r.promised = cmd[i].promised /\ r.seen = cmd[i].seen
        BY <1>1 DEF Command, Status, Unsettled
      <4>2. cmd' = [cmd EXCEPT ![i] = r]
        BY <1>1, <3>3
      <4> HIDE DEF r
      <4> QED BY <4>1, <4>2
    <3> QED BY <1>4, <3>1, <3>2, <3>3 DEF ProgressBegin, ProgressWrite
  <2> QED BY <1>1, <1>3, <2>1
<1>5. ASSUME RunReturn(i) PROVE LaneInv'
  <2>1. PICK s \in Final : cmd' = [cmd EXCEPT ![i].mem = s, ![i].pc = "final"]
    BY <1>5 DEF RunReturn, Final, NotCompleted
  <2> DEFINE r == [cmd[i] EXCEPT !.mem = s, !.pc = "final"]
  <2>2. /\ r \in Command /\ r.kind = cmd[i].kind /\ r.row = cmd[i].row
        /\ r.promised = cmd[i].promised /\ r.seen = cmd[i].seen /\ r.mem # "none"
    BY <1>1 DEF Command, Status, Final
  <2>3. cmd' = [cmd EXCEPT ![i] = r]
    BY <1>1, <2>1
  <2>4. cmd[i].pc # "none"
    BY <1>5 DEF RunReturn, At
  <2> HIDE DEF r
  <2> QED BY <1>3, <2>2, <2>3, <2>4
<1>6. ASSUME RunSaveFinal(i) PROVE LaneInv'
  <2>1. cmd[i].pc = "final"
    BY <1>6 DEF RunSaveFinal, At
  <2>2. CASE cmd' = [cmd EXCEPT ![i].row = cmd[i].mem, ![i].pc = "release"]
    <3> DEFINE r == [cmd[i] EXCEPT !.row = cmd[i].mem, !.pc = "release"]
    <3>1. /\ r \in Command /\ r.kind = cmd[i].kind /\ r.row # "none" /\ r.pc # "final"
          /\ r.promised = cmd[i].promised /\ r.seen = cmd[i].seen
      BY <1>1, <2>1 DEF Command
    <3>2. cmd' = [cmd EXCEPT ![i] = r]
      BY <1>1, <2>2
    <3> HIDE DEF r
    <3> QED BY <1>3, <2>1, <3>1, <3>2
  <2>3. CASE cmd' = [cmd EXCEPT ![i].pc = "release"]
    <3> DEFINE r == [cmd[i] EXCEPT !.pc = "release"]
    <3>1. /\ r \in Command /\ r.kind = cmd[i].kind /\ r.row = cmd[i].row /\ r.pc # "final"
          /\ r.promised = cmd[i].promised /\ r.seen = cmd[i].seen
      BY <1>1 DEF Command
    <3>2. cmd' = [cmd EXCEPT ![i] = r]
      BY <1>1, <2>3
    <3> HIDE DEF r
    <3> QED BY <1>3, <2>1, <3>1, <3>2
  <2> QED BY <1>6, <2>2, <2>3 DEF RunSaveFinal
<1> QED BY <1>4, <1>5, <1>6
-----------------------------------------------------------------------------
(* The theorems.                                                           *)

\* The invariant holds before the first request.
LEMMA LaneInvInit == Init => LaneInv
<1> SUFFICES ASSUME Init PROVE LaneInv
  OBVIOUS
<1>1. AnyKind \in Kind /\ AnyId \in CommandId
  BY CommandQueueAssumption DEF AnyKind, AnyId
<1>2. /\ cmd \in [CommandId -> Command]
      /\ \A i \in CommandId : cmd[i].pc = "none" /\ cmd[i].seen = -1 /\ cmd[i].promised = 0
  BY <1>1 DEF Init, Idle, Command, Status
<1>3. enq \in [pc: {"free", "create", "append", "abort"}, kind: Kind,
               fresh: BOOLEAN, id: CommandId] /\ enq.pc = "free"
  BY <1>1 DEF Init, EnqFree
<1>4. TypeOK
  BY <1>2, <1>3 DEF Init, TypeOK, NewManager
<1> QED BY <1>2, <1>3, <1>4 DEF Init, LaneInv, Held, LaneTaken, Reflecting, Inserted

\* Every step keeps it.
LEMMA LaneInvNext == LaneInv /\ [Next]_vars => LaneInv'
<1> SUFFICES ASSUME LaneInv, [Next]_vars PROVE LaneInv'
  OBVIOUS
<1>1. CASE EnqRecover
  BY <1>1, EnqRecoverSafe
<1>2. CASE \E k \in Kind, fresh \in BOOLEAN : EnqCheck(k, fresh)
  BY <1>2, EnqCheckSafe
<1>3. CASE EnqStep
  BY <1>3, EnqCreateSafe, EnqAppendSafe, EnqAbortSafe DEF EnqStep
<1>4. CASE StartBegin \/ Cancel \/ WaitCall \/ WaitReturn
  BY <1>4, FlagsSafe
<1>5. CASE LoopStep
  BY <1>5, StartRecoverSafe, StartDispatchSafe, FlagsSafe, DrainOneSafe DEF LoopStep
<1>6. CASE \E i \in CommandId : RunStep(i) \/ ProgressBegin(i) \/ ProgressWrite(i)
  BY <1>6, RunBeginSafe, RunSaveStartSafe, RunCheckSafe, HandlerSafe, RunReleaseSafe
     DEF RunStep
<1>7. CASE Crash \/ Boot
  BY <1>7, VanishSafe
<1>8. CASE UNCHANGED vars
  BY <1>8 DEF vars, LaneInv, TypeOK, Held, LaneTaken, Reflecting, Inserted, IsExclusive
<1> QED BY <1>1, <1>2, <1>3, <1>4, <1>5, <1>6, <1>7, <1>8 DEF Next

\* The manager keeps its types and runs at most one exclusive command at a time,
\* so a deletion run never overlaps a scan, whatever requests, releases and
\* restarts of the loop come together (dispatchLocked, release).
THEOREM LanesSafe == Spec => [](TypeOK /\ ExclusiveAlone)
<1>1. LaneInv => TypeOK /\ ExclusiveAlone
  BY DEF LaneInv, LaneTaken, ExclusiveAlone
<1> QED BY <1>1, LaneInvInit, LaneInvNext, PTL DEF Spec

\* A command that absorbed a request made after a configuration change has not
\* read the configuration before that change: a fresh request is answered by a
\* command that is still queued, never by a running one (findDuplicateLocked).
THEOREM FreshSeesItsChange == Spec => []FreshReflects
<1>1. LaneInv => FreshReflects
  <2>1. LaneInv => \A i \in CommandId : cmd[i].seen # -1 =>
          cmd[i].seen \in Nat /\ cmd[i].promised \in Nat /\ cmd[i].promised <= cmd[i].seen
    BY DEF LaneInv, Reflecting, TypeOK, Command
  <2> QED BY <2>1 DEF FreshReflects
<1> QED BY <1>1, LaneInvInit, LaneInvNext, PTL DEF Spec

\* No command is handed a lane once Start's context is cancelled, whatever frees
\* a lane or arrives meanwhile (the check of ctx in dispatchLocked).
THEOREM NoLateStart == Spec => NothingStartsLate
<1>1. ASSUME [Next]_vars, ctxDone, ctxDone' PROVE running' \subseteq running
  <2>1. \A q, exBusy, shBusy : Starting(q, exBusy, shBusy, mgr) = {}
    BY <1>1 DEF Starting, MayDispatch
  <2>2. CASE EnqAppend
    <3> DEFINE go == Starting(queue \cup {enq.id}, exclusiveBusy, sharedBusy, mgr)
    <3>1. go = {}
      BY <2>1
    <3> HIDE DEF go
    <3> QED BY <2>2, <3>1 DEF EnqAppend, Dispatch, go, lanes
  <2>3. CASE StartDispatch
    BY <2>1, <2>3 DEF StartDispatch, Dispatch
  <2>4. ASSUME NEW i \in CommandId, RunRelease(i) PROVE running' \subseteq running
    BY <2>1, <2>4 DEF RunRelease, Dispatch
  <2>5. CASE \/ EnqRecover \/ EnqCreate \/ EnqAbort \/ StartBegin \/ StartRecover
             \/ Shutdown \/ DrainOne \/ Cancel \/ WaitCall \/ WaitReturn
             \/ \E k \in Kind, fresh \in BOOLEAN : EnqCheck(k, fresh)
    BY <2>5 DEF EnqRecover, EnqCreate, EnqAbort, StartBegin, StartRecover, Shutdown,
                DrainOne, Cancel, WaitCall, WaitReturn, EnqCheck, lanes
  <2>6. ASSUME NEW i \in CommandId,
               \/ RunBegin(i) \/ RunSaveStart(i) \/ RunCheck(i) \/ RunReturn(i)
               \/ RunSaveFinal(i) \/ ProgressBegin(i) \/ ProgressWrite(i)
        PROVE  running' \subseteq running
    BY <2>6 DEF RunBegin, RunSaveStart, RunCheck, RunReturn, RunSaveFinal,
                ProgressBegin, ProgressWrite, lanes
  <2>7. CASE Crash \/ Boot
    BY <2>7 DEF Crash, Boot, Vanish
  <2>8. CASE UNCHANGED vars
    BY <2>8 DEF vars
  <2> QED BY <1>1, <2>2, <2>3, <2>4, <2>5, <2>6, <2>7, <2>8
          DEF Next, EnqStep, LoopStep, RunStep
<1>2. [Next]_vars => [ctxDone /\ ctxDone' => running' \subseteq running]_vars
  BY <1>1
<1> QED BY <1>2, PTL DEF Spec, NothingStartsLate

-----------------------------------------------------------------------------
(* The table and the entries in memory.                                    *)

\* A command no goroutine has been given: its row and its entry agree.
IsQueued(r) == r.row = "queued" /\ r.mem = "queued" /\ r.pc = "none"

\* What the row and the entry say at each point of a command's goroutine.  A row
\* is final only behind the goroutine's last write, and an entry whose row is
\* aborted is.
PhaseOK(r, err) ==
  /\ r.pc = "begin" => r.row = "queued" /\ r.mem = "queued"
  /\ r.pc = "start" => r.row = "queued" /\ r.mem = "started"
  /\ r.pc \in {"check", "handler"} => r.row = "started" /\ r.mem = "started"
  /\ r.pc = "final" => r.row \in Unsettled /\ r.mem \in Final
  /\ r.pc = "release" => r.mem \in Final /\ (err = 0 => r.row \in Final)
  /\ r.flush => r.pc \in {"handler", "final"}
  /\ r.row = "aborted" /\ r.mem # "none" => r.mem = "aborted"

\* Commands wait in the queue, in what Shutdown took from it, or in the hands
\* of the request that inserted them.
Waiting ==
  /\ \A i \in queue \cup mgr.drain : IsQueued(cmd[i])
  /\ enq.pc \in {"append", "abort"} => IsQueued(cmd[enq.id]) /\ enq.id \notin mgr.drain

\* Before the orphans are recovered, the process has no command of its own.
NoneYet == ~mgr.recovered => enq.pc = "free" /\ \A i \in CommandId : cmd[i].mem = "none"

\* A stopped manager has an empty queue, and what it took from it is gone when
\* its loop is done.
Stopped ==
  /\ mgr.stopping => queue = {}
  /\ mgr.loop \in {"drain", "done"} => mgr.stopping
  /\ mgr.loop # "drain" => mgr.drain = {}
  /\ ~mgr.started /\ ~mgr.closed => mgr.loop = "off"
  /\ proc.pc = "exited" => running = {} /\ queue = {} /\ mgr.drain = {}

\* Where the unsettled rows of a process without write errors are.
Accounted ==
  mgr.recovered /\ errors = 0 =>
    \A i \in CommandId : cmd[i].row \in Unsettled =>
      \/ i \in queue \cup running \cup mgr.drain
      \/ enq.pc \in {"append", "abort"} /\ i = enq.id

RowInv ==
  /\ \A i \in CommandId : PhaseOK(cmd[i], errors)
  /\ Waiting /\ NoneYet /\ Stopped /\ Accounted

\* A row that ended stays as it ended, in this step.
RowsKept ==
  \A i \in CommandId : cmd[i].row \in Final => cmd'[i].row = cmd[i].row

\* What the invariant says of a command is not lost with another write error.
LEMMA PhaseLater ==
  ASSUME NEW r, NEW err \in Nat, NEW later \in Nat, err <= later, PhaseOK(r, err)
  PROVE  PhaseOK(r, later)
BY DEF PhaseOK

\* The counter of errors, after a write or none.
LEMMA ErrorsGrow ==
  ASSUME LaneInv, MayFail \/ Succeeds
  PROVE  errors \in Nat /\ errors' \in Nat /\ errors <= errors'
BY DEF LaneInv, TypeOK, MayFail, Succeeds

\* A step of a command's goroutine: its command has left the queue, and the rest
\* is as it was.
LEMMA OneRow ==
  ASSUME LaneInv, RowInv, NEW i \in CommandId, NEW r, cmd' = [cmd EXCEPT ![i] = r],
         cmd[i].pc # "none", PhaseOK(r, errors'),
         cmd[i].row \in Final => r.row = cmd[i].row,
         UNCHANGED <<lanes, enq, mgr, proc>>, MayFail \/ Succeeds
  PROVE  RowInv' /\ RowsKept
<1>1. /\ cmd \in [CommandId -> Command] /\ cmd'[i] = r
      /\ \A j \in CommandId : j # i => cmd'[j] = cmd[j]
      /\ i \in running /\ enq.id \in CommandId
      /\ queue \in SUBSET CommandId /\ mgr.drain \in SUBSET CommandId
  BY DEF LaneInv, TypeOK, Held
<1>2. errors \in Nat /\ errors' \in Nat /\ errors <= errors'
  BY ErrorsGrow
<1>3. UNCHANGED <<queue, running, enq, mgr, proc>>
  BY DEF lanes
<1>4. \A j \in CommandId : PhaseOK(cmd'[j], errors')
  BY <1>1, <1>2, PhaseLater DEF RowInv
<1>5. Waiting'
  BY <1>1, <1>3 DEF RowInv, Waiting, IsQueued
<1>6. mgr.recovered
  BY <1>1 DEF RowInv, NoneYet, PhaseOK, LaneInv, TypeOK, Command, Unsettled, Final
<1>7. NoneYet' /\ Stopped'
  BY <1>3, <1>6 DEF RowInv, NoneYet, Stopped
<1>8. Accounted'
  BY <1>1, <1>2, <1>3 DEF RowInv, Accounted
<1>9. RowsKept
  BY <1>1 DEF RowsKept
<1> QED BY <1>4, <1>5, <1>7, <1>8, <1>9 DEF RowInv

\* Every step of a command's goroutine but its release, and its progress.
LEMMA GoroutineRows ==
  ASSUME LaneInv, RowInv, NEW i \in CommandId,
         \/ RunBegin(i) \/ RunSaveStart(i) \/ RunCheck(i) \/ RunReturn(i)
         \/ RunSaveFinal(i) \/ ProgressBegin(i) \/ ProgressWrite(i)
  PROVE  RowInv' /\ RowsKept
<1> DEFINE c == cmd[i]
<1>1. /\ cmd \in [CommandId -> Command] /\ c \in Command /\ PhaseOK(c, errors)
      /\ ctxDone \in BOOLEAN
  BY DEF LaneInv, TypeOK, RowInv
<1>2. UNCHANGED <<lanes, enq, mgr, proc>> /\ (MayFail \/ Succeeds)
  BY DEF RunBegin, RunSaveStart, RunCheck, RunReturn, RunSaveFinal, ProgressBegin,
         ProgressWrite, Succeeds
<1> DEFINE Good(r) == PhaseOK(r, errors') /\ (c.row \in Final => r.row = c.row)
<1>3. ASSUME NEW r, cmd' = [cmd EXCEPT ![i] = r], c.pc # "none", Good(r)
      PROVE  RowInv' /\ RowsKept
  BY <1>2, <1>3, OneRow
<1>4. errors \in Nat /\ errors' \in Nat /\ errors <= errors'
  BY <1>2, ErrorsGrow
<1>5. c.pc # "none"
  BY <1>1 DEF RunBegin, RunSaveStart, RunCheck, RunReturn, RunSaveFinal, ProgressBegin,
              ProgressWrite, At, PhaseOK
<1> USE DEF PhaseOK, Command, Status, Unsettled, Final
<1>6. CASE RunBegin(i)
  <2>1. c.pc = "begin"
    BY <1>6 DEF RunBegin, At
  <2>2. CASE cmd' = [cmd EXCEPT ![i].mem = "aborted", ![i].row = "aborted", ![i].pc = "release"]
    <3>1. Good([c EXCEPT !.mem = "aborted", !.row = "aborted", !.pc = "release"])
      BY <1>1, <2>1
    <3>2. cmd' = [cmd EXCEPT ![i] = [c EXCEPT !.mem = "aborted", !.row = "aborted", !.pc = "release"]]
      BY <1>1, <2>2
    <3> HIDE DEF Good
    <3> QED BY <1>3, <1>5, <3>1, <3>2
  <2>3. CASE cmd' = [cmd EXCEPT ![i].mem = "aborted", ![i].pc = "release"] /\ MayFail
    <3>1. Good([c EXCEPT !.mem = "aborted", !.pc = "release"])
      BY <1>1, <1>4, <2>1, <2>3 DEF MayFail
    <3>2. cmd' = [cmd EXCEPT ![i] = [c EXCEPT !.mem = "aborted", !.pc = "release"]]
      BY <1>1, <2>3
    <3> HIDE DEF Good
    <3> QED BY <1>3, <1>5, <3>1, <3>2
  <2>4. CASE cmd' = [cmd EXCEPT ![i].mem = "started", ![i].pc = "start"]
    <3>1. Good([c EXCEPT !.mem = "started", !.pc = "start"])
      BY <1>1, <2>1
    <3>2. cmd' = [cmd EXCEPT ![i] = [c EXCEPT !.mem = "started", !.pc = "start"]]
      BY <1>1, <2>4
    <3> HIDE DEF Good
    <3> QED BY <1>3, <1>5, <3>1, <3>2
  <2> QED BY <1>6, <2>2, <2>3, <2>4 DEF RunBegin
<1>7. CASE RunSaveStart(i) \/ RunCheck(i)
  <2>1. c.pc \in {"start", "check"}
    BY <1>7 DEF RunSaveStart, RunCheck, At
  <2>2. CASE cmd' = [cmd EXCEPT ![i].row = "started", ![i].pc = "check"] /\ c.pc = "start"
    <3>1. Good([c EXCEPT !.row = "started", !.pc = "check"])
      BY <1>1, <2>2
    <3>2. cmd' = [cmd EXCEPT ![i] = [c EXCEPT !.row = "started", !.pc = "check"]]
      BY <1>1, <2>2
    <3> HIDE DEF Good
    <3> QED BY <1>3, <1>5, <3>1, <3>2
  <2>3. CASE cmd' = [cmd EXCEPT ![i].mem = NotCompleted, ![i].pc = "final"]
    <3>1. NotCompleted \in Final
      BY DEF NotCompleted
    <3>2. Good([c EXCEPT !.mem = NotCompleted, !.pc = "final"])
      BY <1>1, <2>1, <3>1
    <3>3. cmd' = [cmd EXCEPT ![i] = [c EXCEPT !.mem = NotCompleted, !.pc = "final"]]
      BY <1>1, <2>3
    <3> HIDE DEF Good
    <3> QED BY <1>3, <1>5, <3>2, <3>3
  <2>4. CASE cmd' = [cmd EXCEPT ![i].pc = "handler", ![i].seen = config] /\ c.pc = "check"
    <3>1. Good([c EXCEPT !.pc = "handler", !.seen = config])
      BY <1>1, <2>4
    <3>2. cmd' = [cmd EXCEPT ![i] = [c EXCEPT !.pc = "handler", !.seen = config]]
      BY <1>1, <2>4
    <3> HIDE DEF Good
    <3> QED BY <1>3, <1>5, <3>1, <3>2
  <2> QED BY <1>7, <2>2, <2>3, <2>4 DEF RunSaveStart, RunCheck, At
<1>8. CASE ProgressBegin(i) \/ ProgressWrite(i)
  <2>1. c.pc \in {"handler", "final"}
    BY <1>1, <1>8 DEF ProgressBegin, ProgressWrite, At
  <2>2. CASE cmd' = [cmd EXCEPT ![i].flush = TRUE]
    <3>1. Good([c EXCEPT !.flush = TRUE])
      BY <1>1, <2>1
    <3>2. cmd' = [cmd EXCEPT ![i] = [c EXCEPT !.flush = TRUE]]
      BY <1>1, <2>2
    <3> HIDE DEF Good
    <3> QED BY <1>3, <1>5, <3>1, <3>2
  <2>3. CASE cmd' = [cmd EXCEPT ![i].row = "started", ![i].flush = FALSE]
    <3>1. Good([c EXCEPT !.row = "started", !.flush = FALSE])
      BY <1>1, <2>1
    <3>2. cmd' = [cmd EXCEPT ![i] = [c EXCEPT !.row = "started", !.flush = FALSE]]
      BY <1>1, <2>3
    <3> HIDE DEF Good
    <3> QED BY <1>3, <1>5, <3>1, <3>2
  <2>4. CASE cmd' = [cmd EXCEPT ![i].flush = FALSE]
    <3>1. Good([c EXCEPT !.flush = FALSE])
      BY <1>1, <2>1
    <3>2. cmd' = [cmd EXCEPT ![i] = [c EXCEPT !.flush = FALSE]]
      BY <1>1, <2>4
    <3> HIDE DEF Good
    <3> QED BY <1>3, <1>5, <3>1, <3>2
  <2> QED BY <1>8, <2>2, <2>3, <2>4 DEF ProgressBegin, ProgressWrite
<1>9. CASE RunReturn(i)
  <2>1. c.pc = "handler"
    BY <1>9 DEF RunReturn, At
  <2>2. PICK s \in Final : cmd' = [cmd EXCEPT ![i].mem = s, ![i].pc = "final"]
    BY <1>9 DEF RunReturn, NotCompleted
  <2>3. Good([c EXCEPT !.mem = s, !.pc = "final"])
    BY <1>1, <2>1
  <2>4. cmd' = [cmd EXCEPT ![i] = [c EXCEPT !.mem = s, !.pc = "final"]]
    BY <1>1, <2>2
  <2> HIDE DEF Good
  <2> QED BY <1>3, <1>5, <2>3, <2>4
<1>10. CASE RunSaveFinal(i)
  <2>1. c.pc = "final" /\ ~c.flush
    BY <1>10 DEF RunSaveFinal, At
  <2>2. CASE cmd' = [cmd EXCEPT ![i].row = cmd[i].mem, ![i].pc = "release"]
    <3>1. Good([c EXCEPT !.row = c.mem, !.pc = "release"])
      BY <1>1, <2>1
    <3>2. cmd' = [cmd EXCEPT ![i] = [c EXCEPT !.row = c.mem, !.pc = "release"]]
      BY <1>1, <2>2
    <3> HIDE DEF Good
    <3> QED BY <1>3, <1>5, <3>1, <3>2
  <2>3. CASE cmd' = [cmd EXCEPT ![i].pc = "release"] /\ MayFail
    <3>1. Good([c EXCEPT !.pc = "release"])
      BY <1>1, <1>4, <2>1, <2>3 DEF MayFail
    <3>2. cmd' = [cmd EXCEPT ![i] = [c EXCEPT !.pc = "release"]]
      BY <1>1, <2>3
    <3> HIDE DEF Good
    <3> QED BY <1>3, <1>5, <3>1, <3>2
  <2> QED BY <1>10, <2>2, <2>3 DEF RunSaveFinal
<1> QED BY <1>6, <1>7, <1>8, <1>9, <1>10

\* The commands c, the queue q, the lanes run and the request e when
\* dispatchLocked looks at them: as before, and with every unsettled row known.
DispatchReady(c, q, run, e) ==
  /\ c \in [CommandId -> Command] /\ q \in SUBSET CommandId /\ mgr.recovered
  /\ \A i \in CommandId : /\ c[i].row = cmd[i].row /\ c[i].mem = cmd[i].mem
                          /\ PhaseOK(c[i], errors)
  /\ \A i \in q \cup mgr.drain : IsQueued(c[i])
  /\ q \cap mgr.drain = {} /\ (mgr.stopping => q = {})
  /\ e.pc \in {"append", "abort"} =>
       /\ e.id = enq.id /\ enq.pc \in {"append", "abort"}
       /\ IsQueued(c[enq.id]) /\ enq.id \notin q
  /\ errors = 0 => \A i \in CommandId : cmd[i].row \in Unsettled =>
       i \in q \cup run \cup mgr.drain \/ (e.pc \in {"append", "abort"} /\ i = e.id)

\* dispatchLocked starts queued commands, whose rows and entries agree.
LEMMA DispatchRows ==
  ASSUME LaneInv, RowInv, NEW c, NEW q, NEW run, NEW go \in SUBSET q,
         DispatchReady(c, q, run, enq'),
         queue' = q \ go, running' = run \cup go, cmd' = Launch(c, go),
         mgr'.drain = mgr.drain, mgr'.recovered = mgr.recovered, UNCHANGED errors
  PROVE  /\ \A i \in CommandId : PhaseOK(cmd'[i], errors')
         /\ Waiting' /\ NoneYet' /\ Accounted' /\ RowsKept /\ (mgr.stopping => queue' = {})
<1> USE DEF DispatchReady
<1>1. go \in SUBSET q
  OBVIOUS
<1>2. queue' = q \ go /\ running' = run \cup go
  OBVIOUS
<1>3. /\ \A i \in CommandId : cmd'[i].row = c[i].row /\ cmd'[i].mem = c[i].mem
      /\ \A i \in CommandId : i \notin go => cmd'[i] = c[i]
      /\ \A i \in go : cmd'[i].pc = "begin" /\ cmd'[i].flush = c[i].flush
  BY <1>1 DEF Launch, Command
<1>4. ASSUME NEW i \in go PROVE PhaseOK(cmd'[i], errors)
  <2>1. i \in CommandId /\ i \in q /\ IsQueued(c[i]) /\ PhaseOK(c[i], errors)
    BY <1>1
  <2>2. ~c[i].flush /\ cmd'[i].row = "queued" /\ cmd'[i].mem = "queued"
    BY <1>3, <2>1 DEF IsQueued, PhaseOK
  <2> QED BY <1>3, <2>2 DEF PhaseOK
<1>5. \A i \in CommandId : PhaseOK(cmd'[i], errors')
  BY <1>3, <1>4
<1>6. enq.id \in CommandId /\ mgr.drain \in SUBSET CommandId
  BY DEF LaneInv, TypeOK
<1>7. Waiting'
  <2>1. \A i \in queue' \cup mgr'.drain : IsQueued(cmd'[i])
    BY <1>1, <1>2, <1>3, <1>6
  <2>2. enq'.pc \in {"append", "abort"} => IsQueued(cmd'[enq'.id]) /\ enq'.id \notin mgr'.drain
    BY <1>1, <1>3, <1>6 DEF RowInv, Waiting
  <2> QED BY <2>1, <2>2 DEF Waiting, IsQueued
<1>8. Accounted'
  BY <1>1, <1>2, <1>3 DEF Accounted
<1>9. RowsKept
  BY <1>3 DEF RowsKept
<1>10. NoneYet' /\ (mgr.stopping => queue' = {})
  BY <1>1, <1>2 DEF NoneYet
<1> QED BY <1>5, <1>7, <1>8, <1>9, <1>10

\* A command in the queue has been enqueued by a recovered process.
LEMMA QueuedRecovered ==
  ASSUME LaneInv, RowInv, enq.pc # "free" \/ queue # {} \/ \E i \in CommandId : cmd[i].mem # "none"
  PROVE  mgr.recovered
BY DEF LaneInv, TypeOK, RowInv, NoneYet, Waiting, IsQueued

\* The command of a request is appended, or has come too late.
LEMMA EnqAppendRows ==
  ASSUME LaneInv, RowInv, EnqAppend PROVE RowInv' /\ RowsKept
<1>1. UNCHANGED <<mgr, ctxDone, proc, config, errors>> /\ enq.pc = "append" /\ Up
  BY DEF EnqAppend
<1>2. /\ queue \in SUBSET CommandId /\ running \in SUBSET CommandId
      /\ cmd \in [CommandId -> Command] /\ enq.id \in CommandId
      /\ mgr.drain \in SUBSET CommandId
  BY DEF LaneInv, TypeOK
<1>3. mgr.recovered
  BY <1>1, QueuedRecovered
<1>4. CASE enq' = [enq EXCEPT !.pc = "abort"] /\ UNCHANGED <<lanes, cmd>>
  <2>1. enq'.pc = "abort" /\ enq'.id = enq.id
    BY <1>4 DEF LaneInv, TypeOK
  <2> QED BY <1>1, <1>3, <1>4, <2>1
       DEF RowInv, Waiting, NoneYet, Stopped, Accounted, RowsKept, lanes, IsQueued
<1>5. CASE /\ ~mgr.stopping /\ ~mgr.closed
           /\ LET q == queue \cup {enq.id}
                  go == Starting(q, exclusiveBusy, sharedBusy, mgr) IN
              /\ Dispatch(q, running, exclusiveBusy, sharedBusy, go)
              /\ cmd' = Launch(cmd, go)
           /\ enq' = EnqFree
  <2> DEFINE q == queue \cup {enq.id}
             go == Starting(q, exclusiveBusy, sharedBusy, mgr)
  <2>1. q \in SUBSET CommandId /\ enq'.pc = "free"
    BY <1>2, <1>5 DEF EnqFree
  <2>2. \A i \in q \cup mgr.drain : IsQueued(cmd[i])
    BY <1>1 DEF RowInv, Waiting
  <2>3. mgr.drain = {}
    BY <1>5 DEF RowInv, Stopped
  <2>4. errors = 0 => \A i \in CommandId : cmd[i].row \in Unsettled =>
          i \in q \cup running \cup mgr.drain
    BY <1>3 DEF RowInv, Accounted
  <2>5. Dispatch(q, running, exclusiveBusy, sharedBusy, go) /\ cmd' = Launch(cmd, go)
    BY <1>5
  <2> HIDE DEF q, go
  <2>6. go \in SUBSET q /\ queue' = q \ go /\ running' = running \cup go
    BY <2>5 DEF go, Starting, Dispatch
  <2>7. \A i \in CommandId : PhaseOK(cmd[i], errors)
    BY DEF RowInv
  <2>8. /\ \A i \in CommandId : PhaseOK(cmd'[i], errors')
        /\ Waiting' /\ NoneYet' /\ Accounted' /\ RowsKept
    <3>1. DispatchReady(cmd, q, running, enq')
      BY <1>2, <1>3, <1>5, <2>1, <2>2, <2>3, <2>4, <2>7 DEF DispatchReady
    <3> QED BY <1>1, <2>5, <2>6, <3>1, DispatchRows
  <2>9. Stopped'
    BY <1>1, <1>5 DEF RowInv, Stopped, Up
  <2> QED BY <2>8, <2>9 DEF RowInv
<1> QED BY <1>4, <1>5 DEF EnqAppend

\* Start's first dispatch.
LEMMA StartDispatchRows ==
  ASSUME LaneInv, RowInv, StartDispatch PROVE RowInv' /\ RowsKept
<1> DEFINE go == Starting(queue, exclusiveBusy, sharedBusy, mgr)
<1>1. /\ UNCHANGED <<enq, ctxDone, proc, config, errors>> /\ Up /\ mgr.loop = "dispatch"
      /\ Dispatch(queue, running, exclusiveBusy, sharedBusy, go) /\ cmd' = Launch(cmd, go)
      /\ mgr' = [mgr EXCEPT !.loop = "select"]
  BY DEF StartDispatch
<1>2. /\ queue \in SUBSET CommandId /\ running \in SUBSET CommandId
      /\ cmd \in [CommandId -> Command] /\ enq.id \in CommandId
      /\ mgr.drain \in SUBSET CommandId
  BY DEF LaneInv, TypeOK
<1>3. /\ mgr'.drain = mgr.drain /\ mgr'.recovered = mgr.recovered
      /\ mgr'.stopping = mgr.stopping /\ mgr'.started = mgr.started
      /\ mgr'.closed = mgr.closed /\ mgr'.loop = "select"
  BY <1>1 DEF LaneInv, TypeOK
<1> HIDE DEF go
<1>4. go \in SUBSET queue /\ queue' = queue \ go /\ running' = running \cup go
  BY <1>1 DEF go, Starting, Dispatch
<1>5. mgr.drain = {} /\ (~mgr.started => mgr.closed)
  BY <1>1 DEF RowInv, Stopped
<1>6. CASE mgr.recovered
  <2>1. \A i \in CommandId : PhaseOK(cmd[i], errors)
    BY DEF RowInv
  <2>2. \A i \in queue \cup mgr.drain : IsQueued(cmd[i])
    BY DEF RowInv, Waiting
  <2>3. enq'.pc \in {"append", "abort"} =>
          IsQueued(cmd[enq.id]) /\ enq.id \notin queue
    BY <1>1 DEF RowInv, Waiting, LaneInv, Inserted
  <2>4. errors = 0 => \A i \in CommandId : cmd[i].row \in Unsettled =>
          i \in queue \cup running \cup mgr.drain \/ (enq'.pc \in {"append", "abort"} /\ i = enq'.id)
    BY <1>1, <1>6 DEF RowInv, Accounted
  <2>5. mgr.stopping => queue = {}
    BY DEF RowInv, Stopped
  <2>6. /\ \A i \in CommandId : PhaseOK(cmd'[i], errors')
        /\ Waiting' /\ NoneYet' /\ Accounted' /\ RowsKept /\ (mgr.stopping => queue' = {})
    <3>1. DispatchReady(cmd, queue, running, enq')
      BY <1>1, <1>2, <1>5, <1>6, <2>1, <2>2, <2>3, <2>4, <2>5 DEF DispatchReady
    <3> QED BY <1>1, <1>3, <1>4, <3>1, DispatchRows
  <2>7. Stopped'
    BY <1>1, <1>3, <1>5, <2>6 DEF Stopped, Up
  <2> QED BY <2>6, <2>7 DEF RowInv
<1>7. CASE ~mgr.recovered
  <2>1. queue = {} /\ go = {}
    BY <1>4, <1>7, QueuedRecovered
  <2>2. cmd' = cmd /\ queue' = queue /\ running' = running
    BY <1>1, <1>2, <2>1 DEF Launch, Dispatch
  <2> QED BY <1>1, <1>3, <1>5, <1>7, <2>1, <2>2
       DEF RowInv, Waiting, NoneYet, Stopped, Accounted, RowsKept, Up
<1> QED BY <1>6, <1>7

\* release: the command has recorded how it ended, unless that write failed.
LEMMA RunReleaseRows ==
  ASSUME LaneInv, RowInv, NEW i \in CommandId, RunRelease(i) PROVE RowInv' /\ RowsKept
<1> DEFINE exBusy == exclusiveBusy /\ ~IsExclusive(i)
           shBusy == IF ~IsExclusive(i) /\ sharedBusy > 0 THEN sharedBusy - 1 ELSE sharedBusy
           run == running \ {i}
           c == [cmd EXCEPT ![i].pc = "none", ![i].seen = -1, ![i].promised = 0]
           go == Starting(queue, exBusy, shBusy, mgr)
<1>1. /\ UNCHANGED <<enq, mgr, ctxDone, proc, config, errors>> /\ Up /\ cmd[i].pc = "release"
      /\ Dispatch(queue, run, exBusy, shBusy, go) /\ cmd' = Launch(c, go)
  BY DEF RunRelease, At
<1>2. /\ queue \in SUBSET CommandId /\ running \in SUBSET CommandId
      /\ cmd \in [CommandId -> Command] /\ enq.id \in CommandId
      /\ mgr.drain \in SUBSET CommandId
  BY DEF LaneInv, TypeOK
<1>3. /\ c \in [CommandId -> Command]
      /\ \A j \in CommandId : /\ c[j].row = cmd[j].row /\ c[j].mem = cmd[j].mem
                              /\ c[j].flush = cmd[j].flush /\ (j # i => c[j] = cmd[j])
      /\ c[i].pc = "none"
  <2>1. cmd[i] \in Command
    BY <1>2
  <2>2. [cmd[i] EXCEPT !.pc = "none", !.seen = -1, !.promised = 0] \in Command
    BY <2>1 DEF Command
  <2>3. c = [cmd EXCEPT ![i] = [cmd[i] EXCEPT !.pc = "none", !.seen = -1, !.promised = 0]]
    BY <1>2
  <2> QED BY <1>2, <2>1, <2>2, <2>3 DEF Command
<1>4. run \in SUBSET CommandId
  BY <1>2
<1> HIDE DEF c
<1>5. /\ PhaseOK(cmd[i], errors) /\ cmd[i].mem \in Final
      /\ errors = 0 => cmd[i].row \in Final
  BY <1>1 DEF RowInv, PhaseOK
<1>6. \A j \in CommandId : PhaseOK(c[j], errors)
  BY <1>1, <1>3, <1>5 DEF RowInv, PhaseOK
<1>7. \A j \in queue \cup mgr.drain : IsQueued(c[j])
  BY <1>1, <1>2, <1>3 DEF RowInv, Waiting, IsQueued
<1>8. enq'.pc \in {"append", "abort"} => IsQueued(c[enq.id]) /\ enq.id \notin queue
  BY <1>1, <1>2, <1>3 DEF RowInv, Waiting, LaneInv, Inserted, IsQueued
<1>9. mgr.recovered
  BY <1>5, QueuedRecovered DEF Final
<1>10. errors = 0 => \A j \in CommandId : cmd[j].row \in Unsettled =>
         j \in queue \cup run \cup mgr.drain \/ (enq'.pc \in {"append", "abort"} /\ j = enq'.id)
  BY <1>1, <1>5, <1>9 DEF RowInv, Accounted, Unsettled, Final
<1>11. (mgr.stopping => queue = {}) /\ queue \cap mgr.drain = {}
  BY DEF RowInv, Stopped
<1> HIDE DEF go, exBusy, shBusy, run
<1>12. go \in SUBSET queue /\ queue' = queue \ go /\ running' = run \cup go
  BY <1>1 DEF go, Starting, Dispatch
<1>13. /\ \A j \in CommandId : PhaseOK(cmd'[j], errors')
       /\ Waiting' /\ NoneYet' /\ Accounted' /\ RowsKept /\ (mgr.stopping => queue' = {})
  <2>1. DispatchReady(c, queue, run, enq')
    BY <1>1, <1>2, <1>3, <1>6, <1>7, <1>8, <1>9, <1>10, <1>11 DEF DispatchReady
  <2> QED BY <1>1, <1>12, <2>1, DispatchRows
<1>14. Stopped'
  BY <1>1, <1>13 DEF RowInv, Stopped, Up
<1> QED BY <1>13, <1>14 DEF RowInv

\* The recovery of orphans meets rows of earlier processes only.
LEMMA RecoverRows ==
  ASSUME LaneInv, RowInv, EnqRecover \/ StartRecover PROVE RowInv' /\ RowsKept
<1>1. /\ UNCHANGED <<queue, running, enq, proc>> /\ enq.pc = "free" /\ Up
      /\ MayFail \/ Succeeds
  BY DEF EnqRecover, StartRecover, RecoverOrphans, lanes, Succeeds
<1>2. /\ mgr'.recovered /\ mgr'.drain = mgr.drain /\ mgr'.stopping = mgr.stopping
      /\ mgr'.started = mgr.started /\ mgr'.closed = mgr.closed
      /\ mgr'.loop = mgr.loop \/ (mgr.loop = "recover" /\ mgr'.loop = "dispatch")
  BY DEF EnqRecover, StartRecover, RecoverOrphans, LaneInv, TypeOK
<1>3. errors \in Nat /\ errors' \in Nat /\ errors <= errors'
  BY <1>1, ErrorsGrow
<1>4. Stopped'
  BY <1>1, <1>2 DEF RowInv, Stopped
<1>5. CASE cmd' = cmd /\ (mgr.recovered \/ MayFail)
  <2>1. \A i \in CommandId : PhaseOK(cmd'[i], errors')
    BY <1>3, <1>5, PhaseLater DEF RowInv
  <2>2. Waiting' /\ NoneYet' /\ RowsKept
    BY <1>1, <1>2, <1>5 DEF RowInv, Waiting, NoneYet, RowsKept, IsQueued
  <2>3. Accounted'
    BY <1>1, <1>2, <1>3, <1>5 DEF RowInv, Accounted, MayFail
  <2> QED BY <1>4, <2>1, <2>2, <2>3 DEF RowInv
<1>6. CASE cmd' = FailRunning(cmd) /\ ~mgr.recovered
  <2>1. \A i \in CommandId : cmd[i].mem = "none" /\ cmd[i].pc = "none" /\ ~cmd[i].flush
    BY <1>6 DEF RowInv, NoneYet, PhaseOK, Unsettled, Final, LaneInv, TypeOK, Command
  <2>2. queue = {} /\ mgr.drain = {}
    BY <2>1 DEF RowInv, Waiting, IsQueued, LaneInv, TypeOK
  <2>3. \A i \in CommandId :
          /\ cmd'[i].mem = "none" /\ cmd'[i].pc = "none" /\ ~cmd'[i].flush
          /\ cmd'[i].row \notin Unsettled
          /\ cmd[i].row \in Final => cmd'[i].row = cmd[i].row
    BY <1>6, <2>1 DEF FailRunning, LaneInv, TypeOK, Command, Unsettled, Final
  <2>4. \A i \in CommandId : PhaseOK(cmd'[i], errors')
    BY <2>3 DEF PhaseOK
  <2>5. Waiting' /\ NoneYet' /\ RowsKept /\ Accounted'
    BY <1>1, <1>2, <2>2, <2>3 DEF Waiting, NoneYet, RowsKept, Accounted
  <2> QED BY <1>4, <2>4, <2>5 DEF RowInv
<1> QED BY <1>5, <1>6 DEF EnqRecover, StartRecover, RecoverOrphans

\* A request that is absorbed writes no row.
LEMMA EnqCheckRows ==
  ASSUME LaneInv, RowInv, NEW k \in Kind, NEW fresh \in BOOLEAN, EnqCheck(k, fresh)
  PROVE  RowInv' /\ RowsKept
<1>1. /\ UNCHANGED <<queue, running, mgr, proc, errors>> /\ mgr.recovered /\ enq.pc = "free"
  BY DEF EnqCheck, lanes
<1>2. enq'.pc \notin {"append", "abort"}
  <2>1. CASE UNCHANGED enq
    BY <1>1, <2>1
  <2>2. CASE enq' = [EnqFree EXCEPT !.pc = "create", !.kind = k, !.fresh = fresh]
    BY <2>2 DEF EnqFree
  <2> QED BY <2>1, <2>2 DEF EnqCheck
<1>3. \A i \in CommandId :
        /\ cmd'[i].row = cmd[i].row /\ cmd'[i].mem = cmd[i].mem
        /\ cmd'[i].pc = cmd[i].pc /\ cmd'[i].flush = cmd[i].flush
  <2>1. CASE UNCHANGED cmd
    BY <2>1
  <2>2. CASE \E i \in CommandId : cmd' = Promise(cmd, i, fresh, config')
    <3>1. PICK i \in CommandId : cmd' = Promise(cmd, i, fresh, config')
      BY <2>2
    <3>2. cmd \in [CommandId -> Command]
      BY DEF LaneInv, TypeOK
    <3>3. CASE fresh
      <4>1. cmd' = [cmd EXCEPT ![i].promised = config']
        BY <3>1, <3>3 DEF Promise
      <4> QED BY <3>2, <4>1 DEF Command
    <3>4. CASE ~fresh
      BY <3>1, <3>4 DEF Promise
    <3> QED BY <3>3, <3>4
  <2> QED BY <2>1, <2>2 DEF EnqCheck
<1>4. \A i \in CommandId : PhaseOK(cmd'[i], errors')
  BY <1>1, <1>3 DEF RowInv, PhaseOK
<1>5. queue \in SUBSET CommandId /\ mgr.drain \in SUBSET CommandId
  BY DEF LaneInv, TypeOK
<1>6. Waiting' /\ NoneYet' /\ RowsKept
  BY <1>1, <1>2, <1>3, <1>5 DEF RowInv, Waiting, NoneYet, RowsKept, IsQueued
<1>7. Stopped' /\ Accounted'
  BY <1>1, <1>3 DEF RowInv, Stopped, Accounted
<1> QED BY <1>4, <1>6, <1>7 DEF RowInv

\* A new row takes an id without one.
LEMMA EnqCreateRows ==
  ASSUME LaneInv, RowInv, EnqCreate PROVE RowInv' /\ RowsKept
<1>1. /\ UNCHANGED <<queue, running, mgr, proc>> /\ enq.pc = "create"
      /\ MayFail \/ Succeeds
  BY DEF EnqCreate, lanes
<1>2. errors \in Nat /\ errors' \in Nat /\ errors <= errors'
  BY <1>1, ErrorsGrow
<1>3. /\ cmd \in [CommandId -> Command] /\ queue \in SUBSET CommandId
      /\ mgr.drain \in SUBSET CommandId
  BY DEF LaneInv, TypeOK
<1>4. mgr.recovered
  BY <1>1, QueuedRecovered
<1>5. CASE enq' = EnqFree /\ UNCHANGED cmd
  <2>1. enq'.pc = "free"
    BY <1>5 DEF EnqFree
  <2>2. \A i \in CommandId : PhaseOK(cmd'[i], errors')
    BY <1>2, <1>5, PhaseLater DEF RowInv
  <2> QED BY <1>1, <1>2, <1>4, <1>5, <2>1, <2>2
       DEF RowInv, Waiting, NoneYet, Stopped, Accounted, RowsKept, IsQueued
<1>6. ASSUME NEW i \in CommandId, IsNextId(i),
             cmd' = Promise([cmd EXCEPT ![i] = Idle(enq.kind, "queued", "queued")],
                            i, enq.fresh, config),
             enq' = [enq EXCEPT !.pc = "append", !.id = i]
      PROVE  RowInv' /\ RowsKept
  <2>1. cmd[i].row = "none"
    BY <1>6 DEF IsNextId
  <2>2. i \notin queue \cup mgr.drain
    BY <2>1 DEF RowInv, Waiting, IsQueued
  <2>3. enq'.id = i /\ enq'.pc = "append"
    BY <1>6 DEF LaneInv, TypeOK
  <2> DEFINE new == Idle(enq.kind, "queued", "queued")
  <2>4. new \in Command /\ IsQueued(new) /\ ~new.flush
    BY DEF LaneInv, TypeOK, Command, Status, Unsettled, Idle, IsQueued
  <2> HIDE DEF new
  <2>5. cmd' = Promise([cmd EXCEPT ![i] = new], i, enq.fresh, config)
    BY <1>6 DEF new
  <2>6. IsQueued(cmd'[i]) /\ ~cmd'[i].flush
    <3>1. CASE enq.fresh
      <4>1. cmd'[i] = [new EXCEPT !.promised = config]
        BY <1>3, <2>5, <3>1 DEF Promise
      <4> QED BY <2>4, <4>1 DEF Command, IsQueued
    <3>2. CASE ~enq.fresh
      <4>1. cmd'[i] = new
        BY <1>3, <2>5, <3>2 DEF Promise
      <4> QED BY <2>4, <4>1
    <3>3. enq.fresh \in BOOLEAN
      BY DEF LaneInv, TypeOK
    <3> QED BY <3>1, <3>2, <3>3
  <2>7. \A j \in CommandId : j # i => cmd'[j] = cmd[j]
    BY <1>3, <2>5 DEF Promise
  <2>8. \A j \in CommandId : PhaseOK(cmd'[j], errors')
    <3>1. PhaseOK(cmd'[i], errors')
      BY <2>6 DEF PhaseOK, IsQueued
    <3>2. \A j \in CommandId : j # i => PhaseOK(cmd'[j], errors')
      BY <1>2, <2>7, PhaseLater DEF RowInv
    <3> QED BY <3>1, <3>2
  <2>9. Waiting'
    <3>1. \A j \in queue \cup mgr.drain : IsQueued(cmd'[j])
      BY <1>3, <2>2, <2>7 DEF RowInv, Waiting
    <3> QED BY <1>1, <2>2, <2>3, <2>6, <3>1 DEF Waiting, IsQueued
  <2>10. NoneYet' /\ Stopped'
    BY <1>1, <1>4 DEF RowInv, NoneYet, Stopped
  <2>11. Accounted'
    BY <1>1, <1>2, <1>4, <2>3, <2>7 DEF RowInv, Accounted
  <2>12. RowsKept
    BY <2>1, <2>7 DEF RowsKept, Final
  <2> QED BY <2>8, <2>9, <2>10, <2>11, <2>12 DEF RowInv
<1> QED BY <1>5, <1>6 DEF EnqCreate

\* abortQueued finishes a command that waits: its row is not final before, and is
\* afterwards, unless that write failed.
LEMMA AbortRows ==
  ASSUME LaneInv, RowInv, NEW i \in CommandId, IsQueued(cmd[i]), Abort(i)
  PROVE  /\ RowsKept /\ errors \in Nat /\ errors' \in Nat /\ errors <= errors'
         /\ \A j \in CommandId : PhaseOK(cmd'[j], errors')
         /\ \A j \in CommandId : j # i => cmd'[j] = cmd[j]
         /\ errors' = 0 => cmd'[i].row = "aborted"
<1>1. cmd \in [CommandId -> Command] /\ cmd[i] \in Command /\ ~cmd[i].flush
  BY DEF LaneInv, TypeOK, RowInv, PhaseOK, IsQueued
<1>2. errors \in Nat /\ errors' \in Nat /\ errors <= errors'
  BY ErrorsGrow DEF Abort
<1>3. /\ \A j \in CommandId : j # i => cmd'[j] = cmd[j]
      /\ cmd'[i].mem = "aborted" /\ cmd'[i].pc = "none" /\ ~cmd'[i].flush
      /\ errors' = 0 => cmd'[i].row = "aborted"
  <2>1. CASE cmd' = [cmd EXCEPT ![i].mem = "aborted", ![i].row = "aborted"]
    <3>1. cmd'[i] = [cmd[i] EXCEPT !.mem = "aborted", !.row = "aborted"]
      BY <1>1, <2>1
    <3> QED BY <1>1, <2>1, <3>1 DEF Command, IsQueued
  <2>2. CASE cmd' = [cmd EXCEPT ![i].mem = "aborted"] /\ MayFail
    <3>1. cmd'[i] = [cmd[i] EXCEPT !.mem = "aborted"]
      BY <1>1, <2>2
    <3> QED BY <1>1, <1>2, <2>2, <3>1 DEF Command, IsQueued, MayFail
  <2> QED BY <2>1, <2>2 DEF Abort
<1>4. \A j \in CommandId : PhaseOK(cmd'[j], errors')
  <2>1. PhaseOK(cmd'[i], errors')
    BY <1>3 DEF PhaseOK
  <2>2. \A j \in CommandId : j # i => PhaseOK(cmd'[j], errors')
    BY <1>2, <1>3, PhaseLater DEF RowInv
  <2> QED BY <2>1, <2>2
<1>5. RowsKept
  BY <1>3 DEF RowsKept, IsQueued, Final
<1> QED BY <1>2, <1>3, <1>4, <1>5

\* The two places where commands are aborted before they started.
LEMMA AbortingRows ==
  ASSUME LaneInv, RowInv, EnqAbort \/ DrainOne PROVE RowInv' /\ RowsKept
<1>1. /\ queue \in SUBSET CommandId /\ mgr.drain \in SUBSET CommandId
      /\ enq.id \in CommandId
  BY DEF LaneInv, TypeOK
<1>2. CASE EnqAbort
  <2>1. /\ UNCHANGED <<queue, running, mgr, proc>> /\ enq.pc = "abort" /\ Abort(enq.id)
        /\ enq'.pc = "free"
    BY <1>2 DEF EnqAbort, lanes, EnqFree
  <2>2. IsQueued(cmd[enq.id]) /\ enq.id \notin queue \cup mgr.drain
    BY <2>1 DEF RowInv, Waiting, LaneInv, Inserted
  <2>3. /\ RowsKept /\ errors \in Nat /\ errors' \in Nat /\ errors <= errors'
        /\ \A j \in CommandId : PhaseOK(cmd'[j], errors')
        /\ \A j \in CommandId : j # enq.id => cmd'[j] = cmd[j]
        /\ errors' = 0 => cmd'[enq.id].row = "aborted"
    BY <1>1, <2>1, <2>2, AbortRows
  <2>4. mgr.recovered
    BY <2>1, QueuedRecovered
  <2>5. Waiting'
    BY <1>1, <2>1, <2>2, <2>3 DEF RowInv, Waiting, IsQueued
  <2>6. NoneYet' /\ Stopped'
    BY <2>1, <2>4 DEF RowInv, NoneYet, Stopped
  <2>7. Accounted'
    BY <2>1, <2>3, <2>4 DEF RowInv, Accounted, Unsettled
  <2> QED BY <2>3, <2>5, <2>6, <2>7 DEF RowInv
<1>3. CASE DrainOne
  <2>1. UNCHANGED <<queue, running, enq, proc>> /\ mgr.loop = "drain" /\ Up
    BY <1>3 DEF DrainOne, lanes
  <2>2. CASE mgr.drain = {} /\ mgr' = [mgr EXCEPT !.loop = "done"] /\ UNCHANGED <<cmd, errors>>
    <3>1. /\ mgr'.drain = mgr.drain /\ mgr'.recovered = mgr.recovered /\ mgr'.loop = "done"
          /\ mgr'.stopping = mgr.stopping /\ mgr'.started = mgr.started
          /\ mgr'.closed = mgr.closed
      BY <2>2 DEF LaneInv, TypeOK
    <3> QED BY <2>1, <2>2, <3>1
         DEF RowInv, Waiting, NoneYet, Stopped, Accounted, RowsKept, IsQueued, Up
  <2>3. ASSUME NEW i \in mgr.drain, Abort(i), mgr' = [mgr EXCEPT !.drain = @ \ {i}]
        PROVE  RowInv' /\ RowsKept
    <3>1. /\ mgr'.drain = mgr.drain \ {i} /\ mgr'.recovered = mgr.recovered
          /\ mgr'.loop = mgr.loop
          /\ mgr'.stopping = mgr.stopping /\ mgr'.started = mgr.started
          /\ mgr'.closed = mgr.closed
      BY <2>3 DEF LaneInv, TypeOK
    <3>2. i \in CommandId /\ IsQueued(cmd[i]) /\ mgr.stopping /\ queue = {}
      BY <1>1, <2>1, <2>3 DEF RowInv, Waiting, Stopped
    <3>3. /\ RowsKept /\ errors \in Nat /\ errors' \in Nat /\ errors <= errors'
          /\ \A j \in CommandId : PhaseOK(cmd'[j], errors')
          /\ \A j \in CommandId : j # i => cmd'[j] = cmd[j]
          /\ errors' = 0 => cmd'[i].row = "aborted"
      BY <2>3, <3>2, AbortRows
    <3>4. mgr.recovered
      BY <3>2, QueuedRecovered DEF IsQueued
    <3>5. Waiting'
      BY <1>1, <2>1, <2>3, <3>1, <3>2, <3>3 DEF RowInv, Waiting, IsQueued
    <3>6. NoneYet' /\ Stopped'
      BY <2>1, <3>1, <3>2, <3>4 DEF RowInv, NoneYet, Stopped, Up
    <3>7. Accounted'
      BY <2>1, <3>1, <3>3, <3>4 DEF RowInv, Accounted, Unsettled
    <3> QED BY <3>3, <3>5, <3>6, <3>7 DEF RowInv
  <2> QED BY <1>3, <2>2, <2>3 DEF DrainOne
<1> QED BY <1>2, <1>3

\* Start, the shutdown and Wait move the queue into the drain and set flags.
LEMMA FlagsRows ==
  ASSUME LaneInv, RowInv, StartBegin \/ Cancel \/ Shutdown \/ WaitCall \/ WaitReturn
  PROVE  RowInv' /\ RowsKept
<1>1. UNCHANGED <<running, cmd, enq, errors>>
  BY DEF StartBegin, Cancel, Shutdown, WaitCall, WaitReturn, lanes
<1>2. /\ mgr'.recovered = mgr.recovered
      /\ queue' \cup mgr'.drain = queue \cup mgr.drain
  <2>1. mgr.loop # "drain" => mgr.drain = {}
    BY DEF RowInv, Stopped
  <2>2. WaitCall /\ ~mgr.started => mgr.loop = "off"
    BY DEF RowInv, Stopped, WaitCall
  <2>3. CASE StartBegin
    BY <2>3 DEF StartBegin, LaneInv, TypeOK, lanes
  <2>4. CASE Cancel \/ WaitReturn
    BY <2>4 DEF Cancel, WaitReturn, lanes
  <2>5. CASE Shutdown
    BY <2>1, <2>5 DEF Shutdown, LaneInv, TypeOK
  <2>6. CASE WaitCall
    BY <2>1, <2>2, <2>6 DEF WaitCall, LaneInv, TypeOK
  <2> QED BY <2>3, <2>4, <2>5, <2>6
<1>3. enq.pc \in {"append", "abort"} => enq.id \notin queue \cup mgr.drain
  BY DEF RowInv, Waiting, LaneInv, Inserted
<1>4. Waiting' /\ NoneYet' /\ Accounted' /\ RowsKept
  BY <1>1, <1>2, <1>3 DEF RowInv, Waiting, NoneYet, Accounted, RowsKept, IsQueued
<1>5. Stopped'
  <2>1. CASE StartBegin
    BY <2>1 DEF StartBegin, RowInv, Stopped, LaneInv, TypeOK, lanes, Up
  <2>2. CASE Cancel
    BY <2>2 DEF Cancel, RowInv, Stopped, lanes
  <2>3. CASE Shutdown
    BY <2>3 DEF Shutdown, RowInv, Stopped, LaneInv, TypeOK, Up
  <2>4. CASE WaitCall
    BY <2>4 DEF WaitCall, RowInv, Stopped, LaneInv, TypeOK, Up
  <2>5. CASE WaitReturn
    BY <2>5 DEF WaitReturn, RowInv, Stopped, LaneInv, TypeOK, Up, lanes
  <2> QED BY <2>1, <2>2, <2>3, <2>4, <2>5
<1>6. \A i \in CommandId : PhaseOK(cmd'[i], errors')
  BY <1>1 DEF RowInv
<1> QED BY <1>4, <1>5, <1>6 DEF RowInv

\* A process that ended leaves its rows, and the next one has none of its own.
LEMMA VanishRows ==
  ASSUME LaneInv, RowInv, Crash \/ Boot PROVE RowInv' /\ RowsKept
<1>1. /\ queue' = {} /\ enq'.pc = "free" /\ mgr' = NewManager
      /\ proc' \in [pc: {"up", "crashed"}, boots: Nat]
  BY DEF Crash, Boot, Vanish, EnqFree, LaneInv, TypeOK
<1>2. cmd \in [CommandId -> Command]
  BY DEF LaneInv, TypeOK
<1>3. \A i \in CommandId :
        /\ LeftBehind[i] \in Command /\ LeftBehind[i].mem = "none"
        /\ LeftBehind[i].pc = "none" /\ ~LeftBehind[i].flush
        /\ LeftBehind[i].row = cmd[i].row
  BY <1>2 DEF LeftBehind, Idle, Command, Status
<1>4. \A i \in CommandId :
        /\ cmd'[i].mem = "none" /\ cmd'[i].pc = "none" /\ ~cmd'[i].flush
        /\ cmd[i].row \in Final => cmd'[i].row = cmd[i].row
  <2>1. CASE cmd' = LeftBehind
    BY <1>3, <2>1
  <2>2. CASE cmd' = FailRunning(LeftBehind)
    BY <1>3, <2>2 DEF FailRunning, Command, Unsettled, Final
  <2> QED BY <2>1, <2>2 DEF Crash, Boot
<1>5. \A i \in CommandId : PhaseOK(cmd'[i], errors')
  BY <1>4 DEF PhaseOK
<1> QED BY <1>1, <1>4, <1>5
     DEF RowInv, Waiting, NoneYet, Stopped, Accounted, RowsKept, NewManager

\* Nothing is in the table before the first request.
LEMMA RowInvInit == Init => RowInv
BY DEF Init, RowInv, PhaseOK, Waiting, NoneYet, Stopped, Accounted, Idle, EnqFree,
       NewManager, Unsettled

\* Every step keeps the invariant, and every row that ended.
LEMMA RowInvNext == LaneInv /\ RowInv /\ [Next]_vars => RowInv' /\ RowsKept
<1> SUFFICES ASSUME LaneInv, RowInv, [Next]_vars PROVE RowInv' /\ RowsKept
  OBVIOUS
<1>1. CASE EnqRecover \/ StartRecover
  BY <1>1, RecoverRows
<1>2. CASE \E k \in Kind, fresh \in BOOLEAN : EnqCheck(k, fresh)
  BY <1>2, EnqCheckRows
<1>3. CASE EnqStep
  BY <1>3, EnqCreateRows, EnqAppendRows, AbortingRows DEF EnqStep
<1>4. CASE StartBegin \/ Cancel \/ WaitCall \/ WaitReturn
  BY <1>4, FlagsRows
<1>5. CASE LoopStep
  BY <1>5, RecoverRows, StartDispatchRows, FlagsRows, AbortingRows DEF LoopStep
<1>6. CASE \E i \in CommandId : RunStep(i) \/ ProgressBegin(i) \/ ProgressWrite(i)
  BY <1>6, GoroutineRows, RunReleaseRows DEF RunStep
<1>7. CASE Crash \/ Boot
  BY <1>7, VanishRows
<1>8. CASE UNCHANGED vars
  BY <1>8 DEF vars, RowInv, Waiting, NoneYet, Stopped, Accounted, RowsKept
<1> QED BY <1>1, <1>2, <1>3, <1>4, <1>5, <1>6, <1>7, <1>8 DEF Next

\* A command's row stays as it ended, against late progress writes, late aborts
\* and the recovery of every later process; and a row becomes aborted only with
\* its entry: the recovery of orphans never aborts a command of its own process
\* (persistMu, enqMu, recoverOrphansLocked).
THEOREM EndedRowsStay == Spec => RowsHold
<1>1. LaneInv /\ RowInv /\ [Next]_vars => RowInv' /\ RowsKept
  BY RowInvNext
<1>2. RowInv' /\ RowsKept =>
        \A i \in CommandId :
          /\ cmd[i].row \in Final => cmd'[i].row = cmd[i].row
          /\ cmd'[i].row = "aborted" /\ cmd'[i].mem # "none" => cmd'[i].mem = "aborted"
  BY DEF RowInv, PhaseOK, RowsKept
<1> QED BY <1>1, <1>2, LaneInvInit, LaneInvNext, RowInvInit, PTL DEF Spec, RowsHold

\* When Wait has returned and no write failed, every row of the table says how
\* its command ended, but the row of a request that was still on its way: the
\* shutdown loses no queued command, and no goroutine ends before its last write.
THEOREM ExitLeavesNothingOpen == Spec => []ExitSettles
<1>1. RowInv => ExitSettles
  BY DEF RowInv, Stopped, Accounted, ExitSettles
<1> QED BY <1>1, LaneInvInit, LaneInvNext, RowInvInit, RowInvNext, PTL DEF Spec

=============================================================================
