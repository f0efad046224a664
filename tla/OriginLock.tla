----------------------------- MODULE OriginLock -----------------------------
(***************************************************************************)
(* Locking of the RTK anchor of an outdoor map: OriginLockMonitor, the     *)
(* cache of the latest RTK messages it samples, and the callers of the     *)
(* MappingAdapter that start, prepare, resume, cancel and confirm it, each *)
(* on a command thread of its own.                                         *)
(*                                                                         *)
(* The monitor has one worker thread.  stop() sets an event, bumps a       *)
(* generation and joins for two seconds only: a worker blocked in the      *)
(* sample provider is left behind and must find out that it was replaced.  *)
(* The generation is modelled by `newest', the worker it belongs to.       *)
(*                                                                         *)
(* Time is in sampling periods.  A sample is a position on a line and the  *)
(* two verdicts the window depends on.                                     *)
(***************************************************************************)
EXTENDS Naturals, Sequences, SequencesExt, FiniteSets

CONSTANTS
    Workers,     \* bound: monitor threads alive at once
    Callers,     \* command threads calling the monitor
    Ops,         \* what they may call
    Window,      \* duration_seconds
    NoSignal,    \* no_signal_timeout_seconds
    StaleAfter,  \* RtkOriginPayloadCache.stale_after_seconds
    MaxSpread,   \* max_spread_m
    Samples,     \* samples the receiver may report: position, position FIX, baseline FIX
    MaxCalls,    \* bound: calls
    MaxCrashes   \* bound: restarts of the Edge

None == "none"
NoFile == [sid |-> 0, conf |-> FALSE]
NotStarted == Window + 1          \* quality_started_at is None
NoSample == [p |-> 0, fix |-> FALSE, base |-> FALSE]
Off == [pc |-> "off", quiet |-> 0, seen |-> FALSE, smp |-> NoSample]
Idle == [op |-> None, pc |-> "idle", n |-> 0, joins |-> None]

VARIABLES
    st,       \* _status: origin_status, session id, quality window, review, origin
    window,   \* _samples: the positions held
    count,    \* number of samples held, as far as "at least two" goes
    fixSeen,  \* _position_fix_seen
    waited,   \* periods since the lock was started
    file,     \* gnss_origin.yaml
    stopped,  \* the _stop event
    newest,   \* the worker the generation belongs to
    thread,   \* _thread
    worker,   \* the threads
    age,      \* periods since the last RTK message reached the cache
    caller,   \* command threads
    log,      \* history: samples of this attempt ingested less than Window periods ago
    calls, crashes

vars == <<st, window, count, fixSeen, waited, file, stopped, newest, thread, worker,
          age, caller, log, calls, crashes>>

\* _empty_status
EmptyStatus == [status |-> "idle", sid |-> 0, since |-> NotStarted, review |-> "idle",
                conf |-> FALSE, origin |-> 0, error |-> None]

Init ==
    /\ st = EmptyStatus
    /\ window = {} /\ count = 0 /\ fixSeen = FALSE /\ waited = 0
    /\ file = NoFile
    /\ stopped = FALSE /\ newest = None /\ thread = None
    /\ worker = [w \in Workers |-> Off]
    /\ age = 0
    /\ caller = [c \in Callers |-> Idle]
    /\ log = <<>>
    /\ calls = 0 /\ crashes = 0

---------------------------------------------------------------------------
(* Samples                                                                 *)

Diff(a, b) == IF a > b THEN a - b ELSE b - a
\* _spread_m
Spread(ps) == IF ps = {} THEN 0 ELSE CHOOSE d \in {Diff(a, b) : a, b \in ps} :
                                        \A a, b \in ps : Diff(a, b) <= d

\* build_origin_sample, _position_sample_valid, _heading_baseline_valid
PositionValid(s) == s.fix
BaselineValid(s) == s.base

\* The loop condition of _run.
Current(w) == ~stopped /\ newest = w

\* Wrong variant: a sample too far from the window is added all the same.
NeverFar(s) == FALSE

\* The samples held, with the new one if its position is valid.
Grown(s) == IF PositionValid(s) THEN window \cup {s.p} ELSE {}
\* A window that spreads too far starts anew with this sample.
Far(s) == Spread(Grown(s)) > MaxSpread
NewCount(s) == IF ~PositionValid(s) THEN 0 ELSE IF Far(s) \/ count = 0 THEN 1 ELSE 2
Hold(s) == window' = (IF Far(s) THEN {s.p} ELSE Grown(s)) /\ count' = NewCount(s)

\* _lock_origin_locked, _write_origin_file_locked
LockOrigin(since) ==
    /\ st' = [st EXCEPT !.status = "locked", !.origin = st.sid, !.review = "idle", !.since = since]
    /\ file' = [sid |-> st.sid, conf |-> FALSE]

\* _fail_locked
Fail(why) ==
    /\ st' = [st EXCEPT !.status = "failed", !.since = NotStarted, !.error = why]
    /\ window' = {} /\ count' = 0
    /\ stopped' = TRUE

\* ingest while the lock is being earned.
IngestWindow(s) ==
    LET since == IF Far(s) THEN NotStarted ELSE st.since
        ready == PositionValid(s) /\ BaselineValid(s) /\ NewCount(s) = 2
        begun == IF since = NotStarted THEN 0 ELSE since
    IN /\ fixSeen' = (fixSeen \/ PositionValid(s))
       /\ \/ /\ ready /\ begun >= Window
             /\ Hold(s) /\ LockOrigin(begun) /\ UNCHANGED stopped
          \/ /\ ready /\ begun < Window
             /\ Hold(s)
             /\ st' = [st EXCEPT !.status = "holding", !.since = begun, !.error = None]
             /\ UNCHANGED <<stopped, file>>
          \/ /\ ~ready /\ ~fixSeen' /\ waited >= NoSignal
             /\ Fail("fix") /\ UNCHANGED file
          \/ /\ ~ready /\ (fixSeen' \/ waited < NoSignal)
             /\ Hold(s)
             /\ st' = [st EXCEPT !.status = "waiting", !.since = NotStarted, !.error = None]
             /\ UNCHANGED <<stopped, file>>

\* ingest during the preview; _update_preview_checks_locked, _update_live_enu_locked
\* and _update_heading_review_locked only report.
IngestOther(s) ==
    /\ IF st.status = "ready" THEN Hold(s) ELSE UNCHANGED <<window, count>>
    /\ st' = [st EXCEPT !.error = None]
    /\ UNCHANGED <<fixSeen, file, stopped>>

Ingest(w) ==
    LET s == worker[w].smp IN
    /\ worker[w].pc = "got"
    /\ IF st.status \in {"waiting", "holding"} THEN IngestWindow(s) ELSE IngestOther(s)
    /\ log' = IF st.status \in {"waiting", "holding"} THEN Append(log, [smp |-> s, age |-> 0]) ELSE <<>>
    /\ worker' = [worker EXCEPT ![w] = [pc |-> "sleep", quiet |-> 0, seen |-> TRUE, smp |-> NoSample]]
    /\ UNCHANGED <<waited, newest, thread, age, caller, calls, crashes>>

---------------------------------------------------------------------------
(* The worker: _run                                                        *)

Poll(w) ==
    /\ worker[w].pc = "poll"
    /\ worker' = [worker EXCEPT ![w] = IF Current(w) THEN [@ EXCEPT !.pc = "asked"] ELSE Off]
    /\ UNCHANGED <<st, window, count, fixSeen, waited, file, stopped, newest, thread, age,
                   caller, log, calls, crashes>>

\* RtkOriginPayloadCache.snapshot: no answer from data older than StaleAfter.
Answer(w) ==
    /\ worker[w].pc = "asked" /\ age <= StaleAfter
    /\ \E s \in Samples :
          worker' = [worker EXCEPT ![w] = IF Current(w) THEN [@ EXCEPT !.pc = "got", !.smp = s]
                                          ELSE Off]
    /\ UNCHANGED <<st, window, count, fixSeen, waited, file, stopped, newest, thread, age,
                   caller, log, calls, crashes>>

\* Wrong variant: silence is measured from the last poll.
SincePoll(w) == 0

\* last_sample_at: from the last answer, or as far back as that message was old.
Silence(w) == IF worker[w].seen /\ age > worker[w].quiet THEN age ELSE worker[w].quiet

\* The except branch of _run.
NoAnswer(w) ==
    /\ worker[w].pc = "asked" /\ age > StaleAfter
    /\ \/ /\ ~Current(w)
          /\ worker' = [worker EXCEPT ![w] = Off]
          /\ UNCHANGED <<st, window, count, stopped>>
       \/ /\ Current(w) /\ Silence(w) >= NoSignal
          /\ worker' = [worker EXCEPT ![w] = Off]
          /\ Fail("signal")
       \/ /\ Current(w) /\ Silence(w) < NoSignal
          /\ worker' = [worker EXCEPT ![w].pc = "sleep"]
          /\ UNCHANGED <<st, window, count, stopped>>
    /\ UNCHANGED <<fixSeen, waited, file, newest, thread, age, caller, log, calls, crashes>>

---------------------------------------------------------------------------
(* The callers                                                             *)

Call(c, op) ==
    /\ caller[c].pc = "idle" /\ calls < MaxCalls
    /\ calls' = calls + 1
    /\ caller' = [caller EXCEPT ![c] = [op |-> op, pc |-> "called", n |-> calls', joins |-> None]]
    /\ UNCHANGED <<st, window, count, fixSeen, waited, file, stopped, newest, thread, worker,
                   age, log, crashes>>

Return(c) == caller' = [caller EXCEPT ![c] = Idle]
Goto(c, pc) == caller' = [caller EXCEPT ![c].pc = pc]

\* stop up to the join.
StopWorker(c) ==
    /\ caller[c].pc = "called" /\ caller[c].op \in {"start", "prepare", "cancel"}
    /\ stopped' = TRUE /\ newest' = None
    /\ caller' = [caller EXCEPT ![c].pc = "joining", ![c].joins = thread]
    /\ UNCHANGED <<st, window, count, fixSeen, waited, file, thread, worker, age, log, calls, crashes>>

\* The join gives up on a worker that is blocked in the provider; the origin file goes.
Join(c) ==
    /\ caller[c].pc = "joining"
    /\ \A w \in Workers : w = caller[c].joins => worker[w].pc # "got"
    /\ worker' = [w \in Workers |-> IF w = caller[c].joins /\ worker[w].pc # "asked" THEN Off
                                    ELSE worker[w]]
    /\ thread' = None
    /\ file' = NoFile
    /\ Goto(c, "arming")
    /\ UNCHANGED <<st, window, count, fixSeen, waited, stopped, newest, age, log, calls, crashes>>

Spawn(w) ==
    /\ worker[w].pc = "off" /\ worker' = [worker EXCEPT ![w] = [Off EXCEPT !.pc = "poll"]]
    /\ newest' = w /\ thread' = w /\ stopped' = FALSE

\* start and prepare after the join.
Arm(c) ==
    /\ caller[c].pc = "arming" /\ caller[c].op \in {"start", "prepare"}
    /\ st' = IF caller[c].op = "start"
             THEN [EmptyStatus EXCEPT !.status = "waiting", !.sid = caller[c].n]
             ELSE [EmptyStatus EXCEPT !.status = "ready"]
    /\ window' = {} /\ count' = 0
    /\ fixSeen' = (caller[c].op = "prepare" /\ fixSeen)
    /\ waited' = IF caller[c].op = "start" THEN 0 ELSE waited
    /\ \E w \in Workers : Spawn(w)
    /\ log' = <<>>
    /\ Return(c)
    /\ UNCHANGED <<file, age, calls, crashes>>

\* cancel after the join: the rest of the status, the origin included, stays.
Cancelled(c) ==
    /\ caller[c].pc = "arming" /\ caller[c].op = "cancel"
    /\ st' = [st EXCEPT !.status = "cancelled"]
    /\ window' = {} /\ count' = 0
    /\ Return(c)
    /\ UNCHANGED <<fixSeen, waited, file, stopped, newest, thread, worker, age, log, calls, crashes>>

Alive == {w \in Workers : worker[w].pc # "off"}

\* start_slam_warmup on a locked origin: resume.
Resume(c) ==
    /\ caller[c].pc = "called" /\ caller[c].op = "resume"
    /\ \/ /\ st.status # "locked" \/ thread \in Alive
          /\ UNCHANGED <<stopped, newest, thread, worker>>
       \/ /\ st.status = "locked" /\ thread \notin Alive
          /\ \E w \in Workers : Spawn(w)
    /\ Return(c)
    /\ UNCHANGED <<st, window, count, fixSeen, waited, file, age, log, calls, crashes>>

\* begin_mapping up to the confirmation: the origin must be locked; SLAM is told to
\* start capturing before the heading is confirmed.
BeginMapping(c) ==
    /\ caller[c].pc = "called" /\ caller[c].op = "begin"
    /\ IF st.status = "locked" THEN Goto(c, "confirming") ELSE Return(c)
    /\ UNCHANGED <<st, window, count, fixSeen, waited, file, stopped, newest, thread, worker,
                   age, log, calls, crashes>>

Confirmable == st.review \in {"manual", "ready"}

\* confirm_heading_review
ConfirmHeading(c) ==
    /\ caller[c].pc = "confirming"
    /\ \/ /\ ~Confirmable /\ UNCHANGED <<st, file>>
       \/ /\ Confirmable
          /\ st' = [st EXCEPT !.review = "confirmed", !.conf = TRUE]
          /\ file' = IF st.origin # 0 THEN [sid |-> st.origin, conf |-> TRUE] ELSE file
    /\ Return(c)
    /\ UNCHANGED <<window, count, fixSeen, waited, stopped, newest, thread, worker,
                   age, log, calls, crashes>>

\* begin_heading_review, called by a status poll once the SLAM warm-up is ready.
BeginHeadingReview ==
    /\ st.status = "locked" /\ st.review \notin {"manual", "ready", "confirmed"}
    /\ st' = [st EXCEPT !.review = "manual"]
    /\ UNCHANGED <<window, count, fixSeen, waited, file, stopped, newest, thread, worker,
                   age, caller, log, calls, crashes>>

---------------------------------------------------------------------------
(* Time, the receiver and restarts                                         *)

\* RtkOriginPayloadCache.update
Message ==
    /\ age > 0 /\ age' = 0
    /\ UNCHANGED <<st, window, count, fixSeen, waited, file, stopped, newest, thread, worker,
                   caller, log, calls, crashes>>

Cap(n, top) == IF n < top THEN n + 1 ELSE top

\* A worker samples once a period; the provider blocks only for want of a message, and
\* a caller only in the join or, in begin_mapping, in the call of the SLAM service.
Tick ==
    /\ \A w \in Workers : \/ worker[w].pc \in {"off", "sleep"}
                          \/ worker[w].pc = "asked" /\ age > StaleAfter
    /\ \A c \in Callers : \/ caller[c].pc \in {"idle", "confirming"}
                          \/ /\ caller[c].pc = "joining"
                             /\ caller[c].joins \in {w \in Workers : worker[w].pc = "asked"}
    /\ age' = Cap(age, NoSignal)
    /\ waited' = Cap(waited, NoSignal)
    /\ st' = [st EXCEPT !.since = IF @ = NotStarted THEN @ ELSE Cap(@, Window)]
    /\ worker' = [w \in Workers |->
                    IF worker[w].pc = "off" THEN Off
                    ELSE [worker[w] EXCEPT !.quiet = Cap(@, NoSignal),
                                           !.pc = IF @ = "sleep" THEN "poll" ELSE @]]
    /\ log' = SelectSeq([i \in DOMAIN log |-> [log[i] EXCEPT !.age = @ + 1]],
                        LAMBDA e : e.age < Window)
    /\ UNCHANGED <<window, count, fixSeen, file, stopped, newest, thread, caller, calls, crashes>>

\* restore: a valid file is taken for a lock, unless it is older than the TTL.
Restore(expired) ==
    st' = IF file.sid = 0 \/ expired THEN EmptyStatus
          ELSE [EmptyStatus EXCEPT !.status = "locked", !.sid = file.sid, !.origin = file.sid,
                                   !.conf = file.conf]

Restart ==
    /\ crashes < MaxCrashes /\ crashes' = crashes + 1
    /\ \E expired \in BOOLEAN : Restore(expired)
    /\ window' = {} /\ count' = 0 /\ fixSeen' = FALSE /\ waited' = 0
    /\ stopped' = FALSE /\ newest' = None /\ thread' = None
    /\ worker' = [w \in Workers |-> Off]
    /\ caller' = [c \in Callers |-> Idle]
    /\ log' = <<>>
    /\ UNCHANGED <<file, age, calls>>

WorkerStep(w) == Poll(w) \/ Answer(w) \/ NoAnswer(w) \/ Ingest(w)
CallerStep(c) == StopWorker(c) \/ Join(c) \/ Arm(c) \/ Cancelled(c) \/ Resume(c)
                 \/ BeginMapping(c) \/ ConfirmHeading(c)

Next ==
    \/ \E w \in Workers : WorkerStep(w)
    \/ \E c \in Callers : CallerStep(c) \/ \E op \in Ops : Call(c, op)
    \/ BeginHeadingReview \/ Message \/ Tick \/ Restart

Spec == Init /\ [][Next]_vars

\* The interpreter runs every thread, and periods pass; messages owe us nothing.
Fairness ==
    /\ \A w \in Workers : WF_vars(WorkerStep(w))
    /\ \A c \in Callers : WF_vars(CallerStep(c))
    /\ WF_vars(Tick)

FairSpec == Spec /\ Fairness

---------------------------------------------------------------------------
(* Properties                                                              *)

TypeOK ==
    /\ st.status \in {"idle", "ready", "waiting", "holding", "locked", "failed", "cancelled"}
    /\ st.since \in 0..NotStarted /\ st.sid \in 0..MaxCalls /\ st.origin \in 0..MaxCalls
    /\ st.review \in {"idle", "manual", "confirmed"} /\ st.conf \in BOOLEAN
    /\ st.error \in {None, "signal", "fix"}
    /\ window \subseteq {s.p : s \in Samples} /\ count \in 0..2
    /\ fixSeen \in BOOLEAN /\ waited \in 0..NoSignal /\ age \in 0..NoSignal
    /\ file \in [sid : 0..MaxCalls, conf : BOOLEAN]
    /\ stopped \in BOOLEAN /\ newest \in Workers \cup {None} /\ thread \in Workers \cup {None}
    /\ \A w \in Workers : /\ worker[w].pc \in {"off", "poll", "asked", "got", "sleep"}
                          /\ worker[w].smp \in Samples \cup {NoSample}
    /\ \A c \in Callers :
          caller[c].pc \in {"idle", "called", "joining", "arming", "confirming"}

Quiet == \A c \in Callers : caller[c].pc = "idle"

\* The lock is earned: when ingest locks the origin, every sample taken within the last
\* duration_seconds had a fixed position and a fixed antenna baseline, and no two of
\* them are further apart than max_spread_m, whatever threads fed them.
EarnsLock ==
    st.status # "locked" /\ st'.status = "locked" =>
       /\ \A i \in DOMAIN log' : PositionValid(log'[i].smp) /\ BaselineValid(log'[i].smp)
       /\ \A i, j \in DOMAIN log' : Diff(log'[i].smp.p, log'[j].smp.p) <= MaxSpread
LockEarned == [][EarnsLock]_vars

\* A running lock is given up for want of signal only after no_signal_timeout_seconds
\* of that attempt, less what the last message had aged when it was sampled: a worker
\* of an earlier attempt that is still waiting for data cannot fail this one.
TimesSignalLoss ==
    st.status \in {"waiting", "holding"} /\ st'.status = "failed" /\ st'.error = "signal" =>
       waited + StaleAfter >= NoSignal

\* A locked status is backed by the file SLAM reads: outside a call of start, prepare
\* or cancel, gnss_origin.yaml exists and names the same lock session.
LockOnDisk == st.status = "locked" /\ Quiet => file.sid # 0 /\ file.sid = st.origin

\* Once the receiver stays silent no lock and no preview goes on for ever.
DeadStreamEnds ==
    <>[](age = NoSignal) => <>[](st.status \notin {"ready", "waiting", "holding"})

=============================================================================
