----------------------------- MODULE Validation -----------------------------
(***************************************************************************)
(* Replay validation: recordings, jobs with attempts and leases, artifacts *)
(* and golden baselines on the center, and the runners that claim jobs.    *)
(*                                                                         *)
(* Every method of ValidationJobService is one transaction and one step;   *)
(* the artifact views check the lease and write in separate steps.  A      *)
(* runner is a thread of work with a heartbeat beside it; a request of     *)
(* either may be lost, its answer may be lost, and one that was given up   *)
(* may be served later.  The mode of a job and the list of idle runners    *)
(* are left out: every runner here takes every job.                        *)
(***************************************************************************)
EXTENDS Naturals, Sequences, FiniteSets, FiniteSetsExt

CONSTANTS
    Runners, Recordings,
    Keys,           \* idempotency keys, beside requests without one
    Backend,        \* VALIDATION_OBJECT_STORE_BACKEND: "local" or "s3"
    Replays,        \* subset of BOOLEAN: the profile has a launch command
    MaxAttempts,    \* VALIDATION_MAX_ATTEMPTS
    MaxJobs, MaxLosses, MaxExpiries     \* bounds

VARIABLES
    recs,       \* recordings: state, content, digest declared or computed
    jobs,       \* rows of ValidationJob, by number
    atts,       \* per job: states of its attempts
    arts,       \* per job and role: the attempt that wrote the artifact, 0 for none
    golden,     \* per job: its GoldenBaseline, "none", "active" or "old"
    work,       \* runners: step, job, token, stage, cancel seen, artifacts to upload
    storing,    \* artifact requests that have passed the lease check
    late,       \* requests their client has given up
    losses, expiries

tables == <<recs, jobs, atts, arts, golden>>
vars == <<tables, work, storing, late, losses, expiries>>

Terminal == {"completed", "cancelled", "infra_error"}
Running == {"active", "cancelling"}
Roles == {"report", "mcap"}
Resting == [pc |-> "idle", job |-> 0, token |-> 0, stage |-> 0, cancel |-> FALSE, todo |-> <<>>]
NewJob(rec, key, base) ==
    [rec |-> rec, key |-> key, base |-> base, state |-> "queued", stage |-> 0, count |-> 0, holder |-> "none",
     token |-> 0, fresh |-> FALSE, verdict |-> "none", checks |-> 0]

Init ==
    /\ recs = [c \in Recordings |-> [state |-> "none", content |-> "good", sha |-> "none"]]
    /\ jobs = <<>> /\ atts = <<>> /\ arts = <<>> /\ golden = <<>>
    /\ work = [r \in Runners |-> Resting] /\ storing = {} /\ late = {} /\ losses = 0 /\ expiries = 0

Loss == losses < MaxLosses /\ losses' = losses + 1
Center == UNCHANGED <<work, storing, late, losses, expiries>>

(* Recordings. *)

\* Local upload: the digest is computed and compared with the declared one.
Upload(c, content, declared) ==
    /\ Backend = "local" /\ recs[c].state = "none" /\ declared \in {"none", "good"}
    /\ recs' = [recs EXCEPT ![c] = [state |-> IF declared \in {"none", content} THEN "ready" ELSE "invalid",
                                    content |-> content, sha |-> content]]
    /\ UNCHANGED <<jobs, atts, arts, golden>> /\ Center

\* Multipart upload to the object store: nobody computes the digest.
UploadInitiate(c, declared) ==
    /\ Backend = "s3" /\ recs[c].state = "none" /\ declared \in {"none", "good"}
    /\ recs' = [recs EXCEPT ![c].state = "uploading", ![c].sha = declared]
    /\ UNCHANGED <<jobs, atts, arts, golden>> /\ Center

UploadComplete(c, content) ==
    /\ recs[c].state = "uploading" /\ recs' = [recs EXCEPT ![c].state = "ready", ![c].content = content]
    /\ UNCHANGED <<jobs, atts, arts, golden>> /\ Center

(* Jobs: the methods of ValidationJobService. *)

Baseline == {j \in DOMAIN golden : golden[j] = "active"}

CreateJob(c, key) ==
    /\ recs[c].state = "ready" /\ Len(jobs) < MaxJobs
    /\ key = "none" \/ \A j \in DOMAIN jobs : jobs[j].key # key
    /\ \E base \in IF Baseline = {} THEN {0} ELSE Baseline :
           /\ base # 0 => jobs[base].verdict \in {"PASS", "WARN"}
           /\ jobs' = Append(jobs, NewJob(c, key, base))
    /\ atts' = Append(atts, <<>>) /\ arts' = Append(arts, [o \in Roles |-> 0]) /\ golden' = Append(golden, "none")
    /\ UNCHANGED recs /\ Center

Requeued(job) == [job EXCEPT !.state = "queued", !.holder = "none", !.token = 0, !.fresh = FALSE, !.stage = 0]
Closed(j, state) == [atts[j] EXCEPT ![jobs[j].count] = state]

\* reclaim_expired closes the attempt of a job whose lease has run out ...
Abandoned(j) == Closed(j, "infra_error")

\* ... and ends the job, or has it done again.
Reclaimed(j) ==
    CASE jobs[j].state = "cancelling" -> [jobs[j] EXCEPT !.state = "cancelled"]
      [] jobs[j].state = "active" /\ jobs[j].count < MaxAttempts -> Requeued(jobs[j])
      [] OTHER -> [jobs[j] EXCEPT !.state = "infra_error"]

Claimed(job, r) ==
    [job EXCEPT !.state = "active", !.stage = 0, !.count = @ + 1, !.holder = r, !.token = job.count + 1, !.fresh = TRUE]

\* claim: expired leases are taken back, then the oldest queued job is leased.
\* A runner that gets no answer ends and is started again.
Claim(r, answered) ==
    LET expired == {j \in DOMAIN jobs : jobs[j].state \in Running /\ ~jobs[j].fresh}
        back == [j \in DOMAIN jobs |-> IF j \in expired THEN Reclaimed(j) ELSE jobs[j]]
        ended == [j \in DOMAIN jobs |-> IF j \in expired THEN Abandoned(j) ELSE atts[j]]
        queued == {j \in DOMAIN jobs : back[j].state = "queued"}
        j == Min(queued)
    IN  /\ work[r].pc = "idle" /\ UNCHANGED <<recs, arts, golden, storing, late, expiries>>
        /\ IF answered THEN UNCHANGED losses ELSE Loss
        /\ \/ /\ queued = {} /\ expired # {} /\ jobs' = back /\ atts' = ended /\ UNCHANGED work
           \/ /\ queued # {}
              /\ jobs' = [back EXCEPT ![j] = Claimed(back[j], r)]
              /\ atts' = [ended EXCEPT ![j] = Append(@, "open")]
              /\ work' = IF answered
                         THEN [work EXCEPT ![r] = [Resting EXCEPT !.pc = "download", !.job = j, !.token = back[j].count + 1]]
                         ELSE work

\* Wrong variant: the lease belongs to the runner, whatever its token.
ValidRunner(j, r, token) == jobs[j].holder = r /\ jobs[j].state \notin Terminal

\* _validate_lease.
ValidLease(j, r, token) == jobs[j].holder = r /\ jobs[j].token = token /\ jobs[j].state \notin Terminal

\* heartbeat: a cancellation outlives what the runner reports; so does a stage
\* that is further on.
Beaten(job, stage) == [job EXCEPT !.stage = stage, !.fresh = TRUE]
Beats(q) == ValidLease(q.job, q.runner, q.token) /\ q.stage >= jobs[q.job].stage
AfterHeartbeat(q) == [jobs EXCEPT ![q.job] = IF Beats(q) THEN Beaten(@, q.stage) ELSE @]

\* compute_verdict.
Verdict(worst, base) == IF worst = "PASS" /\ base = 0 THEN "WARN" ELSE worst

\* complete: a cancelled job stays one, an infrastructure error is tried again.
Outcome(j, outcome) ==
    IF outcome = "cancelled" \/ jobs[j].state = "cancelling" THEN "cancelled" ELSE outcome
Finished(q) ==
    LET o == Outcome(q.job, q.outcome)
        job == jobs[q.job]
    IN  CASE o = "infra_error" /\ job.count < MaxAttempts -> Requeued(job)
          [] o = "completed" -> [job EXCEPT !.state = o, !.fresh = FALSE, !.checks = q.token,
                                            !.verdict = Verdict(q.worst, job.base)]
          [] OTHER -> [job EXCEPT !.state = o, !.fresh = FALSE]
AfterComplete(q) ==
    IF ValidLease(q.job, q.runner, q.token)
    THEN /\ jobs' = [jobs EXCEPT ![q.job] = Finished(q)]
         /\ atts' = [atts EXCEPT ![q.job] = Closed(q.job, Outcome(q.job, q.outcome))]
    ELSE UNCHANGED <<jobs, atts>>

RequestCancel(j) ==
    /\ jobs[j].state \notin Terminal \cup {"cancelling"} /\ UNCHANGED <<recs, atts, arts, golden>> /\ Center
    /\ jobs' = [jobs EXCEPT ![j].state = IF @ = "queued" THEN "cancelled" ELSE "cancelling"]

ApproveBaseline(j) ==
    /\ jobs[j].state = "completed" /\ jobs[j].verdict # "FAIL" /\ golden[j] # "active"
    /\ golden' = [k \in DOMAIN golden |-> IF k = j THEN "active" ELSE IF golden[k] = "active" THEN "old" ELSE golden[k]]
    /\ UNCHANGED <<recs, jobs, atts, arts>> /\ Center

\* The lease runs out: no heartbeat came through in its time.
Expire(j) ==
    /\ jobs[j].state \in Running /\ jobs[j].fresh /\ expiries < MaxExpiries /\ expiries' = expiries + 1
    /\ jobs' = [jobs EXCEPT ![j].fresh = FALSE]
    /\ UNCHANGED <<recs, atts, arts, golden, work, storing, late, losses>>

(* The runner. *)

Goto(r, pc) == work' = [work EXCEPT ![r].pc = pc]
Silent == UNCHANGED <<tables, storing, late, expiries>>
Request(r, kind, outcome, worst) ==
    [kind |-> kind, runner |-> r, job |-> work[r].job, token |-> work[r].token, stage |-> work[r].stage,
     outcome |-> outcome, worst |-> worst]

\* RunnerClient.download compares the digest when one is on record.
Verified(rec) == rec.sha \in {"none", rec.content}

Download(r) ==
    /\ work[r].pc = "download" /\ Silent
    /\ \/ /\ Verified(recs[jobs[work[r].job].rec]) /\ UNCHANGED losses
          /\ work' = [work EXCEPT ![r].stage = 1, ![r].pc = "replay"]
       \/ ~Verified(recs[jobs[work[r].job].rec]) /\ Goto(r, "infra_error") /\ UNCHANGED losses
       \/ Loss /\ Goto(r, "infra_error")

\* _run_trusted_replay: without a launch command there is none, and no look at
\* the cancellation either.
Skip(r) ==
    /\ work[r].pc = "replay" /\ FALSE \in Replays /\ Silent /\ UNCHANGED losses
    /\ work' = [work EXCEPT ![r].pc = "upload", ![r].stage = 4, ![r].todo = <<"report">>]

\* The processes are started; with a live bridge the runner reports it at once.
Launch(r, bridge) ==
    LET q == Request(r, "heartbeat", "none", "none")
        ok == ~bridge \/ Beats(q)
    IN  /\ work[r].pc = "replay" /\ TRUE \in Replays /\ UNCHANGED <<recs, atts, arts, golden, storing, late, expiries>>
        /\ jobs' = IF bridge THEN AfterHeartbeat(q) ELSE jobs
        /\ \/ /\ ok /\ UNCHANGED losses
              /\ work' = [work EXCEPT ![r].pc = "play", ![r].stage = 2,
                                      ![r].cancel = @ \/ (bridge /\ jobs[q.job].state = "cancelling")]
           \/ ~ok /\ UNCHANGED losses /\ Goto(r, "infra_error")
           \/ Loss /\ Goto(r, "infra_error")

\* The player ends, is interrupted by a cancellation or fails; the replay may
\* have recorded nothing.
Play(r) ==
    /\ work[r].pc = "play" /\ Silent
    /\ \/ /\ ~work[r].cancel /\ UNCHANGED losses
          /\ \E todo \in {<<"report">>, <<"report", "mcap">>} :
                 work' = [work EXCEPT ![r].pc = "upload", ![r].stage = 4, ![r].todo = todo]
       \/ work[r].cancel /\ UNCHANGED losses /\ Goto(r, "cancelled")
       \/ Loss /\ Goto(r, "infra_error")

\* The heartbeat thread; a request it gave up may still be served.
Heartbeat(r) ==
    LET q == Request(r, "heartbeat", "none", "none")
    IN  /\ work[r].pc # "idle" /\ UNCHANGED <<recs, atts, arts, golden, storing, expiries>>
        /\ \/ /\ jobs' = AfterHeartbeat(q) /\ UNCHANGED <<late, losses>>
              /\ work' = [work EXCEPT ![r].cancel = @ \/ (Beats(q) /\ jobs[q.job].state = "cancelling")]
           \/ Loss /\ late' = late \cup {q} /\ UNCHANGED <<jobs, work>>

\* upload_artifact: the view checks the lease (and makes a presigned row, for the
\* object store) and then writes; the runner may give up in between.
ArtifactCheck(r) ==
    LET w == work[r]
    IN  /\ w.pc = "upload" /\ UNCHANGED <<tables, late, losses, expiries>>
        /\ \/ /\ ValidLease(w.job, r, w.token) /\ Goto(r, "storing")
              /\ storing' = storing \cup {[job |-> w.job, role |-> Head(w.todo), token |-> w.token, runner |-> r]}
           \/ ~ValidLease(w.job, r, w.token) /\ Goto(r, "infra_error") /\ UNCHANGED storing

\* uniq_validation_artifact: a second row for job, role and name is refused.
Stored(s) == IF arts[s.job][s.role] = 0 THEN s.token ELSE arts[s.job][s.role]

\* One artifact less to upload.
Uploaded(r) ==
    [work EXCEPT ![r].todo = Tail(@), ![r].pc = IF Len(work[r].todo) = 1 THEN "completed" ELSE "upload"]

ArtifactStore(s) ==
    LET r == s.runner
        waits == work[r].pc = "storing" /\ work[r].job = s.job /\ work[r].token = s.token
    IN  /\ s \in storing /\ storing' = storing \ {s} /\ UNCHANGED <<recs, jobs, atts, golden, late, losses, expiries>>
        /\ arts' = [arts EXCEPT ![s.job][s.role] = Stored(s)]
        /\ \/ ~waits /\ UNCHANGED work
           \/ waits /\ Stored(s) # s.token /\ Goto(r, "infra_error")
           \/ waits /\ Stored(s) = s.token /\ IF Backend = "s3" THEN Goto(r, "finalize") ELSE work' = Uploaded(r)

ArtifactGiveUp(r) ==
    /\ work[r].pc = "storing" /\ Loss /\ Goto(r, "infra_error") /\ UNCHANGED <<tables, storing, late, expiries>>

\* The object is put with the signed URL, then the lease is checked once more.
ArtifactFinalize(r) ==
    /\ work[r].pc = "finalize" /\ Silent /\ UNCHANGED losses
    /\ IF ValidLease(work[r].job, r, work[r].token) THEN work' = Uploaded(r) ELSE Goto(r, "infra_error")

\* client.complete; without an answer, or refused, a completed job is reported
\* as an error, and an error ends the runner, which is started again.
Complete(r, worst) ==
    LET q == Request(r, "complete", work[r].pc, worst)
        ok == ValidLease(q.job, r, q.token)
        next == IF work[r].pc = "completed" THEN "infra_error" ELSE "idle"
        Ended(w) == IF w = "idle" THEN [work EXCEPT ![r] = Resting] ELSE [work EXCEPT ![r].pc = w]
    IN  /\ work[r].pc \in Terminal /\ (worst = "PASS" \/ work[r].pc = "completed")
        /\ UNCHANGED <<recs, arts, golden, storing, expiries>>
        /\ \/ AfterComplete(q) /\ UNCHANGED <<late, losses>> /\ work' = Ended(IF ok THEN "idle" ELSE next)
           \/ AfterComplete(q) /\ Loss /\ UNCHANGED late /\ work' = Ended(next)
           \/ Loss /\ late' = late \cup {q} /\ UNCHANGED <<jobs, atts>> /\ work' = Ended(next)

Serve(q) ==
    /\ q \in late /\ late' = late \ {q} /\ UNCHANGED <<recs, arts, golden, work, storing, losses, expiries>>
    /\ \/ q.kind = "complete" /\ AfterComplete(q)
       \/ q.kind = "heartbeat" /\ jobs' = AfterHeartbeat(q) /\ UNCHANGED atts

Crash(r) ==
    /\ work[r].pc # "idle" /\ Loss /\ work' = [work EXCEPT ![r] = Resting]
    /\ UNCHANGED <<tables, storing, late, expiries>>

Contents == {"good", "bad"}
Next ==
    \/ \E c \in Recordings :
           \/ \E d \in {"none", "good"} : UploadInitiate(c, d) \/ \E x \in Contents : Upload(c, x, d)
           \/ \E x \in Contents : UploadComplete(c, x)
           \/ \E k \in Keys \cup {"none"} : CreateJob(c, k)
    \/ \E j \in DOMAIN jobs : RequestCancel(j) \/ ApproveBaseline(j) \/ Expire(j)
    \/ \E r \in Runners :
           \/ \E a \in BOOLEAN : Claim(r, a)
           \/ Download(r) \/ Skip(r) \/ (\E b \in BOOLEAN : Launch(r, b)) \/ Play(r) \/ Heartbeat(r)
           \/ ArtifactCheck(r) \/ ArtifactGiveUp(r) \/ ArtifactFinalize(r)
           \/ (\E w \in {"PASS", "WARN", "FAIL"} : Complete(r, w)) \/ Crash(r)
    \/ \E s \in storing : ArtifactStore(s)
    \/ \E q \in late : Serve(q)

Spec == Init /\ [][Next]_vars

(* Properties. *)

TypeOK ==
    /\ \A j \in DOMAIN jobs : jobs[j].state \in {"queued"} \cup Running \cup Terminal
    /\ \A j \in DOMAIN jobs : Len(atts[j]) = jobs[j].count /\ jobs[j].count <= MaxAttempts
    /\ \A r \in Runners : work[r].job \in 0 .. Len(jobs)

\* The lease token: the results of a completed job, and the report and replay
\* stored with it, are those of its last attempt, although a runner that lost its
\* lease works on, its requests may be served late, and the artifact views write
\* after their check.
ResultOfLastAttempt ==
    \A j \in DOMAIN jobs : jobs[j].state = "completed" =>
        jobs[j].checks = jobs[j].count /\ \A o \in Roles : arts[j][o] \in {0, jobs[j].count}

\* reclaim_expired, complete and request_cancel: an attempt is open exactly
\* while its job is leased, so no runner is shown at work on a job that is over
\* or queued again.
OpenAttemptIsLeased ==
    \A j \in DOMAIN jobs : \A k \in DOMAIN atts[j] :
        atts[j][k] = "open" <=> k = jobs[j].count /\ jobs[j].state \in Running

\* request_cancel: a job the operator has cancelled ends cancelled, not
\* completed and not queued again, whatever its runner reports or fails at.
KeepsCancel ==
    \A j \in DOMAIN jobs : jobs[j].state = "cancelling" => jobs'[j].state \in {"cancelling", "cancelled"}

\* "Immutable input": what a verdict was given on is what the recording's
\* digest says, also where the upload did not pass through the center.
VerdictOnRecording ==
    \A j \in DOMAIN jobs : jobs[j].state = "completed" =>
        recs[jobs[j].rec].sha \in {"none", recs[jobs[j].rec].content}

=============================================================================
