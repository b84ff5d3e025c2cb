----------------------------- MODULE Scheduler -----------------------------
(***************************************************************************)
(* One scheduled task of the command manager                               *)
(* (src/internal/commands/scheduler.go): when it is due, what is stored   *)
(* about it, and what a changed interval, a changed clock and a restart do *)
(* to its next run.  The queue itself is CommandQueue.                     *)
(*                                                                         *)
(* Every time is kept relative to the wall clock: a minute passing takes   *)
(* one from each, setting the clock shifts them all.  The scheduler looks  *)
(* at the task at least once in every minute.                              *)
(***************************************************************************)
EXTENDS Integers

CONSTANTS
    Intervals,        \* the intervals the setting may take, 0: disabled
    Grace,            \* minutes after the start in which nothing runs
    ClockShifts,      \* by how much the clock may be set
    NoTime,           \* no time at all
    LongAgo,          \* older times are all alike
    MaxRestarts, MaxShifts, MaxChoices

ASSUME SchedulerConstants ==
    /\ Intervals \subseteq Nat /\ Grace \in Nat /\ LongAgo \in Nat
    /\ ClockShifts \subseteq Int
    /\ \A i \in Intervals : i < LongAgo
    /\ NoTime \notin Int

VARIABLES
    interval,   \* what IntervalFunc returns now
    task,       \* the manager's state of the task: [last, next, iv, loaded]
    row,        \* what is stored of it: [last, next, iv]
    bootUntil,  \* end of the start-up grace
    command,    \* the task's command: "none", "queued" or "running"
    checked,    \* the scheduler looked at the task in this minute
    up,         \* the process runs
    waited,     \* minutes waited since a run, or since something changed
    shifts, restarts, choices

schedVars == <<interval, task, row, bootUntil, command, checked, up, waited, shifts, restarts, choices>>

Fresh == [last |-> NoTime, next |-> NoTime, iv |-> 0]
NotLoaded == [loaded |-> FALSE, last |-> NoTime, next |-> NoTime, iv |-> 0]

Least(a, b) == IF a < b THEN a ELSE b

\* A stored time seen from a clock that moved on by d.
Later(t, d) == IF t = NoTime THEN NoTime ELSE IF t - d < -LongAgo THEN -LongAgo ELSE t - d
Shifted(st, d) == [st EXCEPT !.last = Later(@, d), !.next = Later(@, d)]

-----------------------------------------------------------------------------
\* As if the anchor of a task that never ran were taken anew at every look.
nextAnew(st, iv) ==
    IF iv = 0 THEN [st EXCEPT !.iv = iv, !.next = NoTime]
    ELSE IF st.last # NoTime
    THEN LET last == Least(st.last, 0) IN [st EXCEPT !.iv = iv, !.last = last, !.next = last + iv]
    ELSE [st EXCEPT !.iv = iv, !.next = iv]

\* The state with its next run: last run plus interval, a last run in the
\* future counting as now; else the anchor, at most an interval away.
nextExecution(st, iv) ==
    IF iv = 0 THEN [st EXCEPT !.iv = iv, !.next = NoTime]
    ELSE IF st.last # NoTime
    THEN LET last == Least(st.last, 0) IN [st EXCEPT !.iv = iv, !.last = last, !.next = last + iv]
    ELSE [st EXCEPT !.iv = iv, !.next = IF st.next = NoTime THEN iv ELSE Least(st.next, iv)]

\* Due now: not disabled, its time has come, the grace is over.
effectiveNext(st) == st.next # NoTime /\ st.next <= 0 /\ bootUntil <= 0

storedTask(st) == [last |-> st.last, next |-> st.next, iv |-> st.iv]

\* loadTasks: what is stored, read once.
loadTasks == IF task.loaded THEN task
             ELSE [loaded |-> TRUE, last |-> row.last, next |-> row.next, iv |-> row.iv]

\* checkSchedule: loads the task if needed, computes, saves and queues it.
CheckSchedule ==
    LET st == nextExecution(loadTasks, interval)
    IN  /\ up /\ ~checked
        /\ checked' = TRUE
        /\ task' = st
        /\ row' = IF storedTask(st) # storedTask(loadTasks) THEN storedTask(st) ELSE row
        /\ command' = IF effectiveNext(st) /\ command = "none" THEN "queued" ELSE command
        /\ UNCHANGED <<interval, bootUntil, up, waited, shifts, restarts, choices>>

\* The stored tasks cannot be read: nothing is looked at in this minute.
LoadFails ==
    /\ up /\ ~checked /\ ~task.loaded
    /\ checked' = TRUE /\ waited' = 0
    /\ UNCHANGED <<interval, task, row, bootUntil, command, up, shifts, restarts, choices>>

Starts ==
    /\ up /\ command = "queued" /\ command' = "running"
    /\ UNCHANGED <<interval, task, row, bootUntil, checked, up, waited, shifts, restarts, choices>>

\* A person queues the task by hand: the same command, without a body.
RunByHand ==
    /\ up /\ command = "none" /\ choices < MaxChoices
    /\ command' = "queued" /\ choices' = choices + 1
    /\ UNCHANGED <<interval, task, row, bootUntil, checked, up, waited, shifts, restarts>>

\* recordTaskRun of a command that ended, loading the task if needed; an
\* aborted one is not recorded and stays due.
recordTaskRun == nextExecution([loadTasks EXCEPT !.last = 0], interval)

RunEnds ==
    /\ up /\ command = "running" /\ command' = "none"
    /\ task' = recordTaskRun /\ row' = storedTask(recordTaskRun) /\ waited' = 0
    /\ UNCHANGED <<interval, bootUntil, checked, up, shifts, restarts, choices>>

RunAborted ==
    /\ up /\ command = "running" /\ choices < MaxChoices
    /\ command' = "none" /\ choices' = choices + 1 /\ waited' = 0
    /\ UNCHANGED <<interval, task, row, bootUntil, checked, up, shifts, restarts>>

\* The save of a recorded run fails: only the memory knows of it.
SaveFails ==
    /\ up /\ command = "running" /\ choices < MaxChoices
    /\ command' = "none" /\ choices' = choices + 1 /\ waited' = 0
    /\ task' = recordTaskRun
    /\ UNCHANGED <<interval, row, bootUntil, checked, up, shifts, restarts>>

-----------------------------------------------------------------------------
(* Time, settings and restarts                                              *)

\* A minute passes; while a command is queued or running nothing is waited for.
Minute ==
    /\ checked \/ ~up
    /\ checked' = FALSE
    /\ task' = Shifted(task, 1) /\ row' = Shifted(row, 1)
    /\ bootUntil' = Later(bootUntil, 1)
    /\ waited' = IF up /\ interval > 0 /\ command = "none" THEN Least(waited + 1, LongAgo) ELSE 0
    /\ UNCHANGED <<interval, command, up, shifts, restarts, choices>>

ClockTurned(d) ==
    /\ shifts < MaxShifts /\ shifts' = shifts + 1
    /\ task' = Shifted(task, d) /\ row' = Shifted(row, d)
    /\ bootUntil' = Later(bootUntil, d) /\ waited' = 0
    /\ UNCHANGED <<interval, command, checked, up, restarts, choices>>

IntervalChanges(i) ==
    /\ i # interval /\ choices < MaxChoices /\ choices' = choices + 1
    /\ interval' = i /\ waited' = 0
    /\ UNCHANGED <<task, row, bootUntil, command, checked, up, shifts, restarts>>

SchedulerDies ==
    /\ up /\ restarts < MaxRestarts /\ restarts' = restarts + 1
    /\ up' = FALSE /\ command' = "none" /\ waited' = 0 /\ checked' = TRUE
    /\ task' = NotLoaded
    /\ UNCHANGED <<interval, row, bootUntil, shifts, choices>>

Boots ==
    /\ ~up /\ up' = TRUE
    /\ bootUntil' = Grace /\ checked' = FALSE /\ waited' = 0
    /\ UNCHANGED <<interval, task, row, command, shifts, restarts, choices>>

SchedInit ==
    /\ interval \in Intervals /\ task = NotLoaded /\ row = Fresh
    /\ bootUntil = Grace /\ command = "none" /\ checked = FALSE /\ up = TRUE
    /\ waited = 0 /\ shifts = 0 /\ restarts = 0 /\ choices = 0

-----------------------------------------------------------------------------
(* The task is queued within its interval of the last run, restart or     *)
(* change of the interval or the clock, or by the end of the start-up      *)
(* grace if that is later, whatever the clock was set to and however often *)
(* the process restarted.  The grace ends by the wall clock: one that is   *)
(* set back to before the start brings it back, as long as it was set back *)
(* by (nextExecution, effectiveNext).                                      *)
OnTime ==
    up /\ checked /\ command = "none" /\ interval > 0
        => waited <= interval \/ bootUntil > 0
=============================================================================
