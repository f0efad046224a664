------------------------------ MODULE Schedule ------------------------------
(***************************************************************************)
(* The patrol calendar of the center.  The scheduler thread scans every    *)
(* ten seconds, so several times in each planned minute: it reads the      *)
(* schedules due, and then, robot by robot, records the skipped ones and   *)
(* triggers the selected one, each in a transaction of its own.  Operators *)
(* run a schedule by hand, enable, disable and delete schedules and change *)
(* the calendar between any two of these transactions.                     *)
(***************************************************************************)
EXTENDS Naturals, Sequences, FiniteSets, SequencesExt

CONSTANTS
    Schedules,      \* sequence of [id, robot, type], in the order of the query
    Minutes,        \* bound: planned minutes 1 .. Minutes at which all are due
    MaxExecs,       \* bound: executions created
    MaxEdits        \* bound: operator changes

Ids == {Schedules[i].id : i \in DOMAIN Schedules}
Robots == {Schedules[i].robot : i \in DOMAIN Schedules}
Of(id) == Schedules[CHOOSE i \in DOMAIN Schedules : Schedules[i].id = id]
Times == 1 .. Minutes

VARIABLES
    minute,     \* the wall clock, in minutes
    enabled,    \* enabled schedules
    holiday,    \* today is a holiday or an event day
    scan,       \* the scan under way: its planned minute and what is left to do
    scanned,    \* history: what a scan found due, per minute
    runs,       \* the ScheduleRun rows
    busy,       \* robots with an active execution
    gate,       \* per robot, what trigger finds on its way to the start
    created,    \* history: executions created, per schedule and minute
    edits

vars == <<minute, enabled, holiday, scan, scanned, runs, busy, gate, created, edits>>
rows == <<runs, busy, created>>
world == <<minute, enabled, holiday, gate, edits>>

NoScan == [minute |-> 0, todo |-> <<>>]

Init ==
    /\ minute = 1 /\ holiday = FALSE
    /\ enabled = Ids /\ scan = NoScan /\ scanned = [t \in Times |-> {}]
    /\ runs = [t \in Times |-> [s \in Ids |-> "none"]]
    /\ busy = {} /\ gate = [r \in Robots |-> "open"]
    /\ created = [t \in Times |-> [s \in Ids |-> 0]]
    /\ edits = 0

\* schedule_matches_date: a holiday schedule runs on holidays only.
Matches(s) == s.type = "holiday" => holiday

\* due_schedules, in the order of the query.
Due == SelectSeq(Schedules, LAMBDA s : s.id \in enabled /\ Matches(s))

\* The schedule of a robot that is triggered: a holiday schedule before the
\* others, then by priority, which is the order of the query.
Selected(group) ==
    LET feast == SelectSeq(group, LAMBDA s : s.type = "holiday")
    IN  Head(IF feast = <<>> THEN group ELSE feast)

\* What dispatch_due does for the robots in the order of their first schedule.
Plan(due) ==
    LET GroupOf(r) == SelectSeq(due, LAMBDA s : s.robot = r)
        Steps(group) ==
            LET others == SelectSeq(group, LAMBDA s : s # Selected(group))
            IN  [i \in DOMAIN others |-> [op |-> "skip", id |-> others[i].id]]
                \o <<[op |-> "trigger", id |-> Selected(group).id]>>
        firsts == SelectSeq(due, LAMBDA s : s = Head(GroupOf(s.robot)))
    IN  FlattenSeq([i \in DOMAIN firsts |-> Steps(GroupOf(firsts[i].robot))])

BeginScan ==
    /\ scan = NoScan /\ Due # <<>>
    /\ scan' = [minute |-> minute, todo |-> Plan(Due)]
    /\ scanned' = [scanned EXCEPT ![minute] = @ \cup {s.id : s \in ToSet(Due)}]
    /\ UNCHANGED <<rows, world>>

\* One step of dispatch_due is done; the planned minute was fixed by the scan.
AfterStep == IF Len(scan.todo) = 1 THEN NoScan ELSE [scan EXCEPT !.todo = Tail(@)]

\* record_skip: an existing run keeps its status.
Skipped(t, s) == IF runs[t][s] = "none" THEN [runs EXCEPT ![t][s] = "skipped"] ELSE runs

RecordSkip ==
    /\ scan # NoScan /\ Head(scan.todo).op = "skip"
    /\ runs' = Skipped(scan.minute, Head(scan.todo).id)
    /\ scan' = AfterStep
    /\ UNCHANGED <<scanned, busy, created, world>>

\* Wrong variant: only a run that was dispatched counts as settled.
SettledIfBusy(t, s) == runs[t][s] = "dispatched" /\ Of(s).robot \in busy

\* A run that exists is returned as it is.
Settled(t, s) == runs[t][s] # "none"

\* The statuses trigger records instead of a dispatch: the robot is offline or
\* the route differs, the task is disabled, create_execution raises
\* TaskStateError.
Gates == {"open", "offline", "disabled", "conflict", "denied"}
Before(r) == CASE gate[r] = "offline" -> "failed"
               [] gate[r] = "disabled" -> "skipped"
               [] gate[r] \notin {"offline", "disabled"} /\ r \in busy -> "skipped"
               [] gate[r] = "conflict" /\ r \notin busy -> "failed"
               [] OTHER -> "dispatched"

\* trigger: one transaction.
Trigger(t, s) ==
    LET r == Of(s).robot IN
    IF Settled(t, s) THEN UNCHANGED rows
    ELSE /\ runs' = [runs EXCEPT ![t][s] = Before(r)]
         /\ IF Before(r) = "dispatched"
            THEN busy' = busy \cup {r} /\ created' = [created EXCEPT ![t][s] = @ + 1]
            ELSE UNCHANGED <<busy, created>>

\* PermissionDenied of a robot that may not start, such as one with a latched
\* low battery, leaves trigger and rolls the run back.
Refused(t, s) ==
    ~Settled(t, s) /\ Of(s).robot \notin busy /\ gate[Of(s).robot] = "denied"

Executions == Cardinality({p \in Times \X Ids : created[p[1]][p[2]] > 0})

TriggerDue ==
    /\ scan # NoScan /\ Head(scan.todo).op = "trigger" /\ Executions < MaxExecs
    /\ LET s == Head(scan.todo).id IN
       IF Refused(scan.minute, s)
       THEN scan' = NoScan /\ UNCHANGED rows        \* the exception ends dispatch_due
       ELSE scan' = AfterStep /\ Trigger(scan.minute, s)
    /\ UNCHANGED <<scanned, world>>

----------------------------------------------------------------------------
(* The operator and the robots. *)

\* PatrolScheduleRunNowView: also for a schedule that is disabled or not due.
RunNow(s) ==
    /\ Executions < MaxExecs /\ edits < MaxEdits /\ edits' = edits + 1
    /\ ~Refused(minute, s) /\ Trigger(minute, s)
    /\ UNCHANGED <<minute, enabled, holiday, gate, scan, scanned>>

\* Enable, disable and the calendar.
Edit ==
    /\ edits < MaxEdits /\ edits' = edits + 1
    /\ \/ \E s \in Ids : enabled' = (enabled \ {s}) \cup ({s} \ enabled) /\ UNCHANGED holiday
       \/ holiday' = ~holiday /\ UNCHANGED enabled
    /\ UNCHANGED <<minute, gate, scan, scanned, rows>>

TaskEnds(r) == r \in busy /\ busy' = busy \ {r} /\ UNCHANGED <<runs, created, scan, scanned, world>>

RobotChanges(r) ==
    /\ \E g \in Gates \ {gate[r]} : gate' = [gate EXCEPT ![r] = g]
    /\ UNCHANGED <<minute, enabled, holiday, edits, rows, scan, scanned>>

Tick ==
    /\ minute < Minutes /\ minute' = minute + 1
    /\ UNCHANGED <<enabled, holiday, gate, edits, rows, scan, scanned>>

Next ==
    \/ BeginScan \/ RecordSkip \/ TriggerDue
    \/ \E s \in Ids : RunNow(s)
    \/ Edit \/ Tick
    \/ \E r \in Robots : TaskEnds(r) \/ RobotChanges(r)

Spec == Init /\ [][Next]_vars

----------------------------------------------------------------------------
(* Properties. *)

TypeOK ==
    /\ minute \in Times /\ enabled \subseteq Ids /\ busy \subseteq Robots
    /\ scan.minute \in 0 .. minute
    /\ \A t \in Times, s \in Ids : runs[t][s] \in {"none", "skipped", "failed", "dispatched"}

\* However often the minute is scanned and the schedule run by hand, one
\* execution at most comes of a schedule in a planned minute (trigger).
DispatchedOnce ==
    \A t \in Times, s \in Ids : created[t][s] = IF runs[t][s] = "dispatched" THEN 1 ELSE 0

\* A run is an audit record: what it says once is never changed, although the
\* next scan of the minute may select another schedule (record_skip, trigger).
KeepsRuns ==
    \A t \in Times, s \in Ids : runs[t][s] # "none" => runs'[t][s] = runs[t][s]

=============================================================================
