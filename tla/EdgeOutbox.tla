----------------------------- MODULE EdgeOutbox -----------------------------
(***************************************************************************)
(* How a robot's trajectory and events reach the center: TrajectoryBuffer, *)
(* the outbox of LocalStore, EdgeMqttClient.publish and replay_outbox, the *)
(* center's _handle_trajectory and _handle_mqtt_message_once, and the      *)
(* distance the center adds up from the points.                            *)
(*                                                                         *)
(* The MQTT client library keeps what it was handed until the broker has   *)
(* it; it forgets it when the process dies.  The connection, the process   *)
(* and the center's handler may fail at any point.                         *)
(***************************************************************************)
EXTENDS Integers, Sequences, FiniteSets, FiniteSetsExt, SequencesExt

CONSTANTS
    LastExec,     \* bound: the robot runs executions 1 .. LastExec
    Known,        \* the executions the center has a row for
    MaxSeq,       \* bound: points sampled per execution
    Pos, MapOf,   \* position and active map at each sample
    Jump,         \* longest segment that counts as distance (10 m)
    BatchSize,    \* trajectory_batch_size
    Limit,        \* trajectory_outbox_limit
    ReplayLimit,  \* trajectory_replay_batch_size
    MaxEvents,    \* bound: events the Edge emits
    MaxFaults     \* bound: disconnections, restarts and center failures

Executions == 1 .. LastExec
Loops == {"outbox", "trajectory"}     \* the threads that call replay_outbox

VARIABLES
    exec,       \* the execution the task executor is in
    points,     \* TrajectoryBuffer._points: the sequence numbers held
    holder,     \* TrajectoryBuffer._execution_id, or 0
    nextSeq,    \* table trajectory_sequence
    outbox,     \* table outbox in the order of its ids
    replaying,  \* the rows each loop still has to publish
    client,     \* messages the MQTT client holds
    connected,
    acks,       \* trajectory.ack messages on their way to the Edge
    stored,     \* table trajectory_point of the center
    receipts,   \* table trajectory_batch_receipt of the center
    total,      \* total_distance_m of the loop session; -1 when absent
    seen,       \* table inbound_message of the center
    events, faults

edgeVars == <<exec, points, holder, nextSeq, outbox, replaying>>
centerVars == <<stored, receipts, total, seen>>
vars == <<edgeVars, client, connected, acks, centerVars, events, faults>>

Batch(e, seqs) == [kind |-> "batch", exec |-> e, seqs |-> seqs]
Event(n) == [kind |-> "event", exec |-> n, seqs |-> {}]
IsBatch(m) == m.kind = "batch"

Init ==
    /\ exec = 1 /\ points = << >> /\ holder = 0
    /\ nextSeq = [e \in Executions |-> 0]
    /\ outbox = << >> /\ replaying = [l \in Loops |-> << >>]
    /\ client = {} /\ connected = TRUE /\ acks = {}
    /\ stored = {} /\ receipts = {} /\ total = -1 /\ seen = {}
    /\ events = 0 /\ faults = 0

----------------------------------------------------------------------------
(* The table outbox. *)

\* _prune_trajectory_outbox_locked: the newest Limit batches stay.
Prune(rows) ==
    IF Len(SelectSeq(rows, IsBatch)) > Limit THEN RemoveFirstMatch(rows, IsBatch) ELSE rows

\* enqueue_outbox: INSERT OR IGNORE on the dedupe key, then prune.
Enqueue(rows, m) == Prune(IF Contains(rows, m) THEN rows ELSE Append(rows, m))

\* list_pending_outbox: everything else before trajectory, each by id.
Pending ==
    LET ordered == SelectSeq(outbox, LAMBDA m : ~IsBatch(m)) \o SelectSeq(outbox, IsBatch)
    IN  SubSeq(ordered, 1, IF Len(ordered) < ReplayLimit THEN Len(ordered) ELSE ReplayLimit)

\* ack_outbox, by row id or by dedupe key.
AckOutbox(m) == outbox' = SelectSeq(outbox, LAMBDA r : r # m)

----------------------------------------------------------------------------
(* The trajectory buffer. *)

\* _flush_locked: the points become a batch under a new id.
Flushed(rows) == IF points = << >> THEN rows ELSE Enqueue(rows, Batch(holder, ToSet(points)))

\* next_trajectory_seq: read and advanced in the database.
SampleSeq(e) == nextSeq[e]

\* TrajectoryBuffer.sample from _trajectory_loop.  A change of the execution
\* or of the map flushes first; a full buffer or an old one flushes after.  A
\* flush after the sample makes the loop replay the outbox.
Sample ==
    LET seq == SampleSeq(exec)
        change == points # << >> /\ (holder # exec \/ MapOf[Last(points)] # MapOf[seq])
        before == IF change THEN Flushed(outbox) ELSE outbox
        held == IF change THEN <<seq>> ELSE Append(points, seq)
    IN
    /\ seq <= MaxSeq /\ replaying["trajectory"] = << >>
    /\ nextSeq' = [nextSeq EXCEPT ![exec] = seq + 1]
    /\ \/ /\ Len(held) < BatchSize
          /\ points' = held /\ holder' = exec /\ outbox' = before
          /\ UNCHANGED replaying
       \/ /\ points' = << >> /\ holder' = 0
          /\ outbox' = Enqueue(before, Batch(exec, ToSet(held)))
          /\ replaying' = [replaying EXCEPT !["trajectory"] = IF connected THEN Pending' ELSE << >>]
    /\ UNCHANGED <<exec, client, connected, acks, centerVars, events, faults>>

\* flush_active: the task is over, or the agent stops in an orderly way.
FlushActive ==
    /\ points # << >>
    /\ outbox' = Flushed(outbox) /\ points' = << >> /\ holder' = 0
    /\ UNCHANGED <<exec, nextSeq, replaying, client, connected, acks, centerVars, events, faults>>

\* The next task starts; the buffer may still hold points of the last one.
NextTask ==
    /\ exec < LastExec
    /\ exec' = exec + 1
    /\ UNCHANGED <<points, holder, nextSeq, outbox, replaying, client, connected, acks,
                   centerVars, events, faults>>

----------------------------------------------------------------------------
(* Publishing. *)

\* EdgeMqttClient.publish of a QoS 1 event: to the client when connected, to
\* the outbox otherwise, when the call fails and, for an ack that is waited
\* for, when the broker does not confirm within five seconds.
Publish ==
    LET m == Event(events) IN
    /\ events < MaxEvents
    /\ events' = events + 1
    /\ \/ connected /\ client' = client \cup {m} /\ UNCHANGED outbox
       \/ outbox' = Enqueue(outbox, m) /\ UNCHANGED client
       \/ connected /\ client' = client \cup {m} /\ outbox' = Enqueue(outbox, m)
    /\ UNCHANGED <<exec, points, holder, nextSeq, replaying, connected, acks, centerVars, faults>>

\* _outbox_loop: replay_outbox reads the first rows once.
StartReplay ==
    /\ connected /\ outbox # << >> /\ replaying["outbox"] = << >>
    /\ replaying' = [replaying EXCEPT !["outbox"] = Pending]
    /\ UNCHANGED <<exec, points, holder, nextSeq, outbox, client, connected, acks, centerVars,
                   events, faults>>

\* A row that is not a batch is deleted once the client took it.
AfterPublish(m) == IF IsBatch(m) THEN UNCHANGED outbox ELSE AckOutbox(m)

\* The body of replay_outbox for one row of the list it read.
ReplayRow(l) ==
    /\ replaying[l] # << >>
    /\ LET m == Head(replaying[l]) IN
       \/ client' = client \cup {m} /\ AfterPublish(m)
       \/ ~connected /\ UNCHANGED <<client, outbox>>       \* rc # SUCCESS
    /\ replaying' = [replaying EXCEPT ![l] = Tail(@)]
    /\ UNCHANGED <<exec, points, holder, nextSeq, connected, acks, centerVars, events, faults>>

----------------------------------------------------------------------------
(* The center. *)

StoredSeqs(e) == {p.seq : p \in {q \in stored : q.exec = e}}

Segment(a, b) ==
    LET d == IF Pos[a] > Pos[b] THEN Pos[a] - Pos[b] ELSE Pos[b] - Pos[a]
    IN  IF MapOf[a] # MapOf[b] \/ d > Jump THEN 0 ELSE d

\* trajectory_distance of a set of sequence numbers in order.
Distance(S) ==
    MapThenSumSet(LAMBDA a : LET after == {b \in S : b > a}
                             IN  IF after = {} THEN 0 ELSE Segment(a, Min(after)), S)

\* calculate_loop_total_distance: from all points of the session.
FullDistance(P) ==
    MapThenSumSet(LAMBDA e : Distance({p.seq : p \in {q \in P : q.exec = e}}), Executions)

\* Wrong variant: the segments to the neighbours of the batch are left out.
AffectedOfBatchOnly(e, new) == new

\* update_patrol_loop_distance: the slice from the last point before the new
\* ones to the first point after them.
Affected(e, new) ==
    LET before == {s \in StoredSeqs(e) : s < Min(new)}
        after == {s \in StoredSeqs(e) : s > Max(new)}
        low == IF before = {} THEN Min(new) ELSE Max(before)
        high == IF after = {} THEN Max(new) ELSE Min(after)
    IN  {s \in StoredSeqs(e) \cup new : low <= s /\ s <= high}

UpdatedTotal(m) ==
    LET new == m.seqs \ StoredSeqs(m.exec)     \* ignore_conflicts
        slice == Affected(m.exec, new)
        grown == total + Distance(slice) - Distance(slice \ new)
    IN  IF total = -1
        THEN FullDistance(stored \cup {[exec |-> m.exec, seq |-> s] : s \in m.seqs})
        ELSE IF new = {} THEN total ELSE IF grown < 0 THEN 0 ELSE grown

Verdicts == {"accepted", "duplicate", "dropped"}
Verdict(m, v) == [batch |-> m, verdict |-> v]

\* _handle_trajectory: a known batch is acknowledged again; a batch of an
\* unknown execution gets a drop ack; points and receipt are one transaction
\* and the ack leaves after its commit.
HandleTrajectory(m) ==
    \/ /\ m \in receipts
       /\ acks' = acks \cup {Verdict(m, "duplicate")}
       /\ UNCHANGED centerVars
    \/ /\ m \notin receipts /\ m.exec \notin Known
       /\ acks' = acks \cup {Verdict(m, "dropped")}
       /\ UNCHANGED centerVars
    \/ /\ m \notin receipts /\ m.exec \in Known
       /\ stored' = stored \cup {[exec |-> m.exec, seq |-> s] : s \in m.seqs}
       /\ receipts' = receipts \cup {m}
       /\ total' = UpdatedTotal(m)
       /\ acks' = acks \cup {Verdict(m, "accepted")}
       /\ UNCHANGED seen

\* _handle_mqtt_message_once: an event is processed once per message id.
HandleEvent(m) ==
    /\ seen' = seen \cup {m}
    /\ UNCHANGED <<stored, receipts, total, acks>>

\* The center takes a message from the broker; the client may or may not learn
\* of it before the connection breaks, and so may send it again.
Deliver(m) ==
    /\ connected /\ m \in client
    /\ IF IsBatch(m) THEN HandleTrajectory(m) ELSE HandleEvent(m)
    /\ client' = client \ {m} \/ UNCHANGED client
    /\ UNCHANGED <<edgeVars, connected, events, faults>>

\* The center is away, or its handler fails (a locked database after the last
\* retry): the broker has the message, the center has nothing of it.
DeliverFails(m) ==
    /\ connected /\ m \in client /\ faults < MaxFaults
    /\ client' = client \ {m} /\ faults' = faults + 1
    /\ UNCHANGED <<edgeVars, connected, acks, centerVars, events>>

----------------------------------------------------------------------------
(* Acknowledgements and faults. *)

\* Wrong variant: the ack of a repeated batch is ignored.
SettlesFirstTime(verdict) == verdict # "duplicate"

\* TrajectoryBuffer.handle_ack: accepted, duplicate, or refused for good.
Settles(verdict) == verdict \in Verdicts

HandleAck(a) ==
    /\ connected /\ a \in acks
    /\ acks' = acks \ {a}
    /\ IF Settles(a.verdict) THEN AckOutbox(a.batch) ELSE UNCHANGED outbox
    /\ UNCHANGED <<exec, points, holder, nextSeq, replaying, client, connected, centerVars,
                   events, faults>>

\* The connection breaks: with clean_start nothing is kept for the Edge.
Disconnect ==
    /\ connected /\ faults < MaxFaults
    /\ connected' = FALSE /\ acks' = {} /\ faults' = faults + 1
    /\ UNCHANGED <<edgeVars, client, centerVars, events>>

Connect ==
    /\ ~connected /\ connected' = TRUE
    /\ UNCHANGED <<edgeVars, client, acks, centerVars, events, faults>>

\* The process dies and starts again; only the tables remain.
Restart ==
    /\ faults < MaxFaults /\ faults' = faults + 1
    /\ points' = << >> /\ holder' = 0
    /\ replaying' = [l \in Loops |-> << >>]
    /\ client' = {} /\ acks' = {} /\ connected' = FALSE
    /\ UNCHANGED <<exec, nextSeq, outbox, centerVars, events>>

Next ==
    \/ Sample \/ FlushActive \/ NextTask \/ Publish \/ StartReplay
    \/ \E l \in Loops : ReplayRow(l)
    \/ \E m \in client : Deliver(m) \/ DeliverFails(m)
    \/ \E a \in acks : HandleAck(a)
    \/ Disconnect \/ Connect \/ Restart

Spec == Init /\ [][Next]_vars

Messages == {Event(n) : n \in 0 .. MaxEvents}
            \cup {Batch(e, lo .. hi) : e \in Executions, lo \in 0 .. MaxSeq, hi \in 0 .. MaxSeq}

\* The loops run every two seconds, the client reconnects by itself and
\* transmits what it holds, and the center handles what it gets.
Fairness ==
    /\ WF_vars(Connect) /\ WF_vars(StartReplay)
    /\ \A l \in Loops : WF_vars(ReplayRow(l))
    /\ \A m \in Messages : WF_vars(Deliver(m) /\ client' # client)
    /\ \A m \in Messages, v \in Verdicts : WF_vars(HandleAck(Verdict(m, v)))

FairSpec == Spec /\ Fairness

----------------------------------------------------------------------------
(* Properties. *)

Batches == ToSet(SelectSeq(outbox, IsBatch)) \cup {m \in client : IsBatch(m)} \cup receipts

TypeOK ==
    /\ exec \in Executions /\ holder \in Executions \cup {0}
    /\ Len(points) < BatchSize /\ (points = << >> <=> holder = 0)
    /\ nextSeq \in [Executions -> 0 .. MaxSeq + 1]
    /\ Len(SelectSeq(outbox, IsBatch)) <= Limit
    /\ \A l \in Loops : Len(replaying[l]) <= ReplayLimit
    /\ total \in Int /\ connected \in BOOLEAN

\* No sequence number of an execution is ever given to two points: batches in
\* flight or stored never overlap and never meet the buffer, so that the
\* center's unique key drops no point silently (next_trajectory_seq).
PointsAreDistinct ==
    /\ \A a, b \in Batches : a # b /\ a.exec = b.exec => a.seqs \cap b.seqs = {}
    /\ \A b \in Batches : b.exec = holder => b.seqs \cap ToSet(points) = {}

\* A batch leaves the outbox only when the center has stored it or will never
\* take it, or as the oldest of more than Limit (replay_outbox, handle_ack).
KeepsUnsettled ==
    \A m \in ToSet(outbox) \ ToSet(outbox') :
       IsBatch(m) =>
         \/ m \in receipts
         \/ m.exec \notin Known
         \/ /\ Len(SelectSeq(outbox', IsBatch)) = Limit
            /\ \A i, j \in DOMAIN outbox :
                  outbox[j] = m /\ i < j /\ IsBatch(outbox[i]) => ~Contains(outbox', outbox[i])

\* The distance kept incrementally is the distance of the stored points, in
\* whatever order batches arrive, are repeated or are missing
\* (update_patrol_loop_distance).
DistanceIsExact == total = IF receipts = {} THEN -1 ELSE FullDistance(stored)

\* Every row of the outbox leaves it in the end: a batch is stored or refused
\* and its ack arrives, whatever was lost on the way (replay_outbox).
OutboxDrains ==
    \A m \in Messages : Contains(outbox, m) ~> ~Contains(outbox, m)

=============================================================================
