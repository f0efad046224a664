------------------------------ MODULE Catalog ------------------------------
(***************************************************************************)
(* The records an operator maintains through the web API of the center:    *)
(* maps, routes, tasks and calendar schedules, and the executions that     *)
(* refer to them.  A statement or an atomic block is one step, because     *)
(* SQLite transactions are IMMEDIATE; a view that checks first and writes  *)
(* afterwards outside a transaction is two, and requests interleave there. *)
(* Routes and tasks are told apart by identity; waypoints, files and names *)
(* are left out, and so are zones and tracks, which only ever follow.      *)
(***************************************************************************)
EXTENDS Naturals, FiniteSets, TLC, Functions

CONSTANTS
    Robots,     \* robots
    Requests,   \* request threads
    Maps, Routes, Tasks, Schedules, \* identities of rows
    Rounds,     \* loop rounds a client asks for
    MaxExecs,   \* bound: executions created
    MaxEdits,   \* bound: requests of an operator
    Kinds       \* the views that are called

VARIABLES
    maps,       \* id -> [robot, active, rtk]: MapData rows
    routes,     \* id -> [map, robot, rtk]
    tasks,      \* id -> [route, robot]
    scheds,     \* id -> [task, route, map]
    execs,      \* id -> [task, route, map, robot, round, active]; deleted references are "null"
    commands,   \* history: map.activate commands sent, the last map per robot
    req,        \* request threads
    made, edits

rows == <<maps, routes, tasks, scheds, execs>>
vars == <<rows, commands, req, made, edits>>

Resting == [op |-> "idle", id |-> "none", round |-> 0, routes |-> {}, tasks |-> {}, was |-> FALSE,
            tries |-> 0]

Init ==
    /\ maps = << >> /\ routes = << >> /\ tasks = << >> /\ scheds = << >> /\ execs = << >>
    /\ commands = [r \in Robots |-> "none"]
    /\ req = [q \in Requests |-> Resting] /\ made = 0 /\ edits = 0

\* The rows and their foreign keys.
MapRow(r, active, rtk) == [robot |-> r, active |-> active, rtk |-> rtk]
RouteRow(m, r, rtk) == [map |-> m, robot |-> r, rtk |-> rtk]
TaskRow(x) == [route |-> x, robot |-> routes[x].robot]
ScheduleRow(t) == [task |-> t, route |-> tasks[t].route, map |-> routes[tasks[t].route].map]
ExecutionRow(t, n) == ScheduleRow(t) @@ [robot |-> tasks[t].robot, round |-> n, active |-> TRUE]

Without(f, S) == Restrict(f, DOMAIN f \ S)
With(f, x, v) == (x :> v) @@ f
Edit(k) == k \in Kinds /\ edits < MaxEdits /\ edits' = edits + 1
NullRoute(S) == [e \in DOMAIN execs |-> IF execs[e].route \in S THEN [execs[e] EXCEPT !.route = "null"] ELSE execs[e]]
Deactivated(f, r) == [m \in DOMAIN f |-> IF f[m].robot = r THEN [f[m] EXCEPT !.active = FALSE] ELSE f[m]]

RoutesOf(m) == {x \in DOMAIN routes : routes[x].map = m}
TasksOf(R) == {t \in DOMAIN tasks : tasks[t].route \in R}
Active(r) == {e \in DOMAIN execs : execs[e].active /\ execs[e].robot = r}

(* Maps. *)

\* POST of a map.
CreateMap(m, r, rtk, active) ==
    /\ Edit("maps") /\ m \notin DOMAIN maps
    /\ maps' = With(maps, m, MapRow(r, active, rtk))
    /\ UNCHANGED <<routes, tasks, scheds, execs, commands, req, made>>

\* An upload of the Edge that activates the map it has built.
UploadMap(m, r, rtk) ==
    /\ Edit("maps") /\ m \notin DOMAIN maps
    /\ maps' = With(Deactivated(maps, r), m, MapRow(r, TRUE, rtk))
    /\ commands' = [commands EXCEPT ![r] = m]
    /\ UNCHANGED <<routes, tasks, scheds, execs, req, made>>

\* PUT of a map: the flag of the active map can be written like any other field.
PutMap(m, active) ==
    /\ Edit("maps") /\ m \in DOMAIN maps /\ maps' = [maps EXCEPT ![m].active = active]
    /\ UNCHANGED <<routes, tasks, scheds, execs, commands, req, made>>

\* A cleaned copy takes over the routes and schedules of its source.
ManualClean(m, new) ==
    LET r == maps[m].robot
    IN  /\ m \in DOMAIN maps /\ new \notin DOMAIN maps /\ Active(r) = {} /\ Edit("clean")
        /\ maps' = With(Deactivated(maps, r), new, [maps[m] EXCEPT !.active = TRUE])
        /\ routes' = [x \in DOMAIN routes |->
                          IF routes[x].map = m THEN [routes[x] EXCEPT !.map = new] ELSE routes[x]]
        /\ scheds' = [s \in DOMAIN scheds |->
                          IF scheds[s].map = m THEN [scheds[s] EXCEPT !.map = new] ELSE scheds[s]]
        /\ commands' = [commands EXCEPT ![r] = new]
        /\ UNCHANGED <<tasks, execs, req, made>>

\* set_active writes three times, each on its own.
SetActiveBegin(q, m) ==
    /\ req[q].op = "idle" /\ m \in DOMAIN maps /\ Edit("activate")
    /\ maps' = Deactivated(maps, maps[m].robot)
    /\ req' = [req EXCEPT ![q] = [Resting EXCEPT !.op = "activate", !.id = m]]
    /\ UNCHANGED <<routes, tasks, scheds, execs, commands, made>>

SetActiveEnd(q) ==
    LET m == req[q].id
    IN  /\ req[q].op = "activate" /\ req' = [req EXCEPT ![q] = Resting]
        /\ \/ /\ m \in DOMAIN maps /\ maps' = [maps EXCEPT ![m].active = TRUE]
              /\ commands' = [commands EXCEPT ![maps[m].robot] = m]
           \/ m \notin DOMAIN maps /\ UNCHANGED <<maps, commands>>
        /\ UNCHANGED <<routes, tasks, scheds, execs, made, edits>>

\* DELETE of a map looks for the flag and for references ...
Referenced(m) ==
    \/ RoutesOf(m) # {}
    \/ \E e \in DOMAIN execs : execs[e].map = m
    \/ \E s \in DOMAIN scheds : scheds[s].map = m

DeleteMapCheck(q, m) ==
    /\ req[q].op = "idle" /\ m \in DOMAIN maps /\ ~maps[m].active /\ ~Referenced(m)
    /\ Edit("delete") /\ req' = [req EXCEPT ![q] = [Resting EXCEPT !.op = "delete", !.id = m]]
    /\ UNCHANGED <<rows, commands, made>>

\* Wrong variant: with its map, a route takes its tasks and schedules along.
ProtectsNothing(m, R) == m = "none" /\ TasksOf(R) # {}

\* ... and deletes what it finds then.  Routes follow their map, but a task or a
\* schedule protects its route, and a schedule its map.
Protected(m, R) ==
    \/ TasksOf(R) # {}
    \/ \E s \in DOMAIN scheds : scheds[s].route \in R \/ scheds[s].map = m

DeleteMap(q) ==
    LET m == req[q].id
        R == RoutesOf(m)
    IN  /\ req[q].op = "delete" /\ req' = [req EXCEPT ![q] = Resting]
        /\ IF m \in DOMAIN maps /\ ~Protected(m, R)
           THEN /\ maps' = Without(maps, {m}) /\ routes' = Without(routes, R)
                /\ tasks' = Without(tasks, TasksOf(R))
                /\ scheds' = Without(scheds, {s \in DOMAIN scheds : scheds[s].route \in R})
                /\ execs' = [e \in DOMAIN execs |->
                               [NullRoute(R)[e] EXCEPT !.map = IF @ = m THEN "null" ELSE @]]
           ELSE UNCHANGED rows
        /\ UNCHANGED <<commands, made, edits>>

\* Executions, tasks and schedules a forced deletion of a map takes along.
ForcedExecs(m, R, T) ==
    {e \in DOMAIN execs : execs[e].map = m \/ execs[e].route \in R \/ execs[e].task \in T}
ForcedScheds(m, R, T) ==
    {s \in DOMAIN scheds : scheds[s].map = m \/ scheds[s].route \in R \/ scheds[s].task \in T}

\* force=true: none of them may be active, as of now.
ForceMapCheck(q, m) ==
    LET R == RoutesOf(m)
        T == TasksOf(R)
    IN  /\ req[q].op = "idle" /\ m \in DOMAIN maps /\ Edit("force")
        /\ ~\E e \in ForcedExecs(m, R, T) : execs[e].active
        /\ req' = [req EXCEPT ![q] = [Resting EXCEPT !.op = "force_map", !.id = m,
                                                     !.routes = R, !.tasks = T,
                                                     !.was = maps[m].active]]
        /\ UNCHANGED <<rows, commands, made>>

\* A remaining map of the robot (the newest) replaces a deleted active one; every
\* active map is deactivated for it, whichever robot it belongs to.
Fallbacks(f, r) ==
    LET mine == {m \in DOMAIN f : f[m].robot = r}
    IN  IF mine = {} THEN {f}
        ELSE {[m \in DOMAIN f |-> [f[m] EXCEPT !.active = (m = pick)]] : pick \in mine}

\* The deletions of one transaction; rows that protect the map or its routes by
\* then make it fail as a whole.
ForceMap(q) ==
    LET m == req[q].id
        R == req[q].routes
        T == TasksOf(R)
        S == ForcedScheds(m, R, req[q].tasks)
        E == ForcedExecs(m, R, req[q].tasks)
        gone == RoutesOf(m)
        held == \/ \E t \in DOMAIN tasks \ T : tasks[t].route \in gone
                \/ \E s \in DOMAIN scheds \ S : scheds[s].task \in T \/ scheds[s].route \in gone
                \/ \E e \in DOMAIN execs \ E : execs[e].task \in T
    IN  /\ req[q].op = "force_map" /\ req' = [req EXCEPT ![q] = Resting]
        /\ IF m \in DOMAIN maps /\ ~held
           THEN /\ maps' \in IF req[q].was THEN Fallbacks(Without(maps, {m}), maps[m].robot)
                             ELSE {Without(maps, {m})}
                /\ routes' = Without(routes, gone) /\ tasks' = Without(tasks, T)
                /\ scheds' = Without(scheds, S) /\ execs' = Without(NullRoute(gone), E)
           ELSE UNCHANGED rows
        /\ UNCHANGED <<commands, made, edits>>

(* Routes, tasks and schedules. *)

\* validate_route_against_map: RTK waypoints need a map with a global origin.
Fits(x) == maps[x.map].rtk \/ ~x.rtk

SaveRoute(x, m, r, rtk) ==
    /\ Edit("routes") /\ m \in DOMAIN maps /\ Fits(RouteRow(m, r, rtk))
    /\ routes' = With(routes, x, RouteRow(m, r, rtk))
    /\ UNCHANGED <<maps, tasks, scheds, execs, commands, req, made>>

DeleteRoute(x) ==
    /\ Edit("routes") /\ x \in DOMAIN routes /\ ~Protected("none", {x})
    /\ routes' = Without(routes, {x}) /\ execs' = NullRoute({x})
    /\ UNCHANGED <<maps, tasks, scheds, commands, req, made>>

SaveTask(t, x) ==
    /\ Edit("tasks") /\ x \in DOMAIN routes
    /\ tasks' = With(tasks, t, TaskRow(x))
    /\ UNCHANGED <<maps, routes, scheds, execs, commands, req, made>>

\* What protects a task.
TaskHeld(t) ==
    \/ \E e \in DOMAIN execs : execs[e].task = t
    \/ \E s \in DOMAIN scheds : scheds[s].task = t

DeleteTask(t) ==
    /\ Edit("tasks") /\ t \in DOMAIN tasks /\ ~TaskHeld(t)
    /\ tasks' = Without(tasks, {t})
    /\ UNCHANGED <<maps, routes, scheds, execs, commands, req, made>>

ForceTaskCheck(q, t) ==
    /\ req[q].op = "idle" /\ t \in DOMAIN tasks /\ Edit("force")
    /\ ~\E e \in DOMAIN execs : execs[e].task = t /\ execs[e].active
    /\ req' = [req EXCEPT ![q] = [Resting EXCEPT !.op = "force_task", !.id = t]]
    /\ UNCHANGED <<rows, commands, made>>

ForceTask(q) ==
    LET t == req[q].id
    IN  /\ req[q].op = "force_task" /\ req' = [req EXCEPT ![q] = Resting]
        /\ tasks' = Without(tasks, {t})
        /\ scheds' = Without(scheds, {s \in DOMAIN scheds : scheds[s].task = t})
        /\ execs' = Without(execs, {e \in DOMAIN execs : execs[e].task = t})
        /\ UNCHANGED <<maps, routes, commands, made, edits>>

\* The map of a schedule is that of its route, which is that of its task.
SaveSchedule(s, t) ==
    /\ Edit("schedules") /\ t \in DOMAIN tasks
    /\ scheds' = With(scheds, s, ScheduleRow(t))
    /\ UNCHANGED <<maps, routes, tasks, execs, commands, req, made>>

DeleteSchedule(s) ==
    /\ Edit("schedules") /\ s \in DOMAIN scheds /\ scheds' = Without(scheds, {s})
    /\ UNCHANGED <<maps, routes, tasks, execs, commands, req, made>>

(* Starts of a loop round, which a client repeats when it hears nothing. *)

OfRound(n) == {e \in DOMAIN execs : execs[e].round = n}
AnswerRow(q, op) == req' = [req EXCEPT ![q] = [Resting EXCEPT !.op = op, !.round = req[q].round]]

\* PatrolTaskExecuteView and PatrolRouteExecuteView look for the round first.
Execute(q, t, n) ==
    /\ req[q].op = "idle" /\ "execute" \in Kinds /\ t \in DOMAIN tasks
    /\ req' = [req EXCEPT ![q] = [Resting EXCEPT !.id = t, !.round = n,
                   !.op = IF OfRound(n) = {} THEN "create" ELSE "replayed"]]
    /\ UNCHANGED <<rows, commands, made, edits>>

\* After an error the round is looked for again.
AfterConflict(n) == IF OfRound(n) = {} THEN "refused" ELSE "replayed"

\* create_execution with its command in one transaction.
Create(q) ==
    LET t == req[q].id
        n == req[q].round
    IN  /\ req[q].op = "create" /\ made < MaxExecs
        /\ IF t \in DOMAIN tasks /\ Active(tasks[t].robot) = {} /\ OfRound(n) = {}
              /\ Fits(routes[tasks[t].route])
           THEN /\ made' = made + 1 /\ AnswerRow(q, "created")
                /\ execs' = With(execs, made + 1, ExecutionRow(t, n))
           ELSE AnswerRow(q, AfterConflict(n)) /\ UNCHANGED <<execs, made>>
        /\ UNCHANGED <<maps, routes, tasks, scheds, commands, edits>>

\* "database is locked": once more from the look for the round, then a 503.
Locked(q) ==
    /\ req[q].op = "create"
    /\ req' = [req EXCEPT ![q] =
           IF req[q].tries = 1 THEN [Resting EXCEPT !.op = "busy", !.round = req[q].round]
           ELSE [req[q] EXCEPT !.tries = 1, !.op = IF OfRound(req[q].round) = {} THEN @ ELSE "replayed"]]
    /\ UNCHANGED <<rows, commands, made, edits>>

\* The answer is sent and the thread is free.
Sent(q) ==
    /\ req[q].op \in {"created", "replayed", "refused", "busy"} /\ req' = [req EXCEPT ![q] = Resting]
    /\ UNCHANGED <<rows, commands, made, edits>>

EndExecution(e) ==
    /\ e \in DOMAIN execs /\ execs[e].active /\ execs' = [execs EXCEPT ![e].active = FALSE]
    /\ UNCHANGED <<maps, routes, tasks, scheds, commands, req, made, edits>>

Next ==
    \/ \E m \in Maps, r \in Robots, rtk \in BOOLEAN :
           UploadMap(m, r, rtk) \/ \E active \in BOOLEAN : CreateMap(m, r, rtk, active)
    \/ \E m \in Maps, active \in BOOLEAN : PutMap(m, active)
    \/ \E m, new \in Maps : ManualClean(m, new)
    \/ \E q \in Requests :
           \/ SetActiveEnd(q) \/ DeleteMap(q) \/ ForceMap(q) \/ ForceTask(q)
           \/ Create(q) \/ Locked(q) \/ Sent(q)
           \/ \E m \in Maps : SetActiveBegin(q, m) \/ DeleteMapCheck(q, m) \/ ForceMapCheck(q, m)
           \/ \E t \in Tasks : ForceTaskCheck(q, t) \/ \E n \in Rounds : Execute(q, t, n)
    \/ \E x \in Routes :
           DeleteRoute(x) \/ \E m \in Maps, r \in Robots, rtk \in BOOLEAN : SaveRoute(x, m, r, rtk)
    \/ \E t \in Tasks : DeleteTask(t) \/ \E x \in Routes : SaveTask(t, x)
    \/ \E s \in Schedules : DeleteSchedule(s) \/ \E t \in Tasks : SaveSchedule(s, t)
    \/ \E e \in 1 .. MaxExecs : EndExecution(e)

Spec == Init /\ [][Next]_vars

(* Properties. *)

\* Types, and no reference to a row that is gone: the foreign keys.
TypeOK ==
    /\ \A x \in DOMAIN routes : routes[x].map \in DOMAIN maps
    /\ \A t \in DOMAIN tasks : tasks[t].route \in DOMAIN routes
    /\ \A s \in DOMAIN scheds :
           /\ scheds[s].task \in DOMAIN tasks /\ scheds[s].route \in DOMAIN routes
           /\ scheds[s].map \in DOMAIN maps
    /\ \A e \in DOMAIN execs :
           /\ execs[e].task \in DOMAIN tasks /\ execs[e].route \in DOMAIN routes \cup {"null"}
           /\ execs[e].map \in DOMAIN maps \cup {"null"}
    /\ \A r \in Robots : Cardinality(Active(r)) <= 1

\* An ordinary deletion never takes history along: a task or a schedule goes
\* only when it is deleted itself and nothing refers to it, an execution not at
\* all, even when rows are added between the check of a DELETE and its writes.
\* Only a deletion with force=true does (_force_delete_map, _force_delete_patrol_task).
KeepsHistory ==
    LET forced == \E q \in Requests : req[q].op \in {"force_map", "force_task"} /\ req'[q] = Resting
    IN  forced \/ /\ DOMAIN execs \subseteq DOMAIN execs'
                  /\ \A t \in DOMAIN tasks \ DOMAIN tasks' : ~TaskHeld(t)
                  /\ \A q \in Requests : req[q].op = "delete" => DOMAIN scheds \subseteq DOMAIN scheds'
                                                                \/ req'[q] = req[q]
HistoryIsKept == [][KeepsHistory]_vars

\* A loop round is started once however often it is asked for: no two
\* executions have its number, and a request is told of a conflict only when
\* the round has no execution, although two requests may both have found none.
ReplaysRound ==
    /\ \A e, f \in DOMAIN execs' : execs'[e].round = execs'[f].round => e = f
    /\ \A q \in Requests :
           req[q].op # "refused" /\ req'[q].op = "refused" => OfRound(req[q].round) = {}

=============================================================================
