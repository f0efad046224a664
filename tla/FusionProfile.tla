--------------------------- MODULE FusionProfile ---------------------------
(***************************************************************************)
(* The temporary fusion profile of the localizer.  The behaviour tree sets *)
(* it without condition, it expires by itself, and the Edge takes it over, *)
(* softens it and restores it from several threads, each time naming the   *)
(* generation it means.  What the Edge knows of the profile is the last    *)
(* status it received; a service call may time out and still take effect.  *)
(* No code path of this commit starts a LIO hold from the Edge: Activate   *)
(* and Soften are the lease operations the recovery worker has for it.     *)
(***************************************************************************)
EXTENDS Naturals

CONSTANTS
    Restorers,      \* threads: startup, shutdown, task events, the worker
    MaxGeneration   \* bound: changes of the profile

VARIABLES
    profile,        \* the localizer's profile and generation
    reported,       \* localization_decision as the Edge last received it
    owned,          \* _active_fusion_profile_generation
    thread,         \* per thread: step and generation meant
    pending         \* calls that timed out and are still to be served

vars == <<profile, reported, owned, thread, pending>>

Idle == [pc |-> "idle", gen |-> 0]

Init ==
    /\ profile = [name |-> "nominal", gen |-> 0] /\ reported = profile /\ owned = 0
    /\ thread = [t \in Restorers |-> Idle] /\ pending = {}

\* The localizer, set_localization_fusion_profile_callback: a generation that is
\* not the current one is refused, 0 stands for any.
Accepts(expected) == expected \in {0, profile.gen}
Applied(name) == [name |-> name, gen |-> profile.gen + 1]
Room == profile.gen < MaxGeneration

\* SetUkfWeight of the behaviour tree names no generation.
TreeSets(name) ==
    /\ Room /\ profile' = Applied(name) /\ UNCHANGED <<reported, owned, thread, pending>>

\* maybeExpireFusionProfile.
Expire ==
    /\ profile.name # "nominal" /\ Room /\ profile' = Applied("nominal")
    /\ UNCHANGED <<reported, owned, thread, pending>>

Report == reported # profile /\ reported' = profile /\ UNCHANGED <<profile, owned, thread, pending>>

\* _reported_temporary_fusion_generation.
ReportedTemporary == IF reported.name = "nominal" THEN 0 ELSE reported.gen
Meant == IF owned # 0 THEN owned ELSE ReportedTemporary

\* _activate_lio_hold, under the lock of the lease.
Activate ==
    /\ \/ /\ Accepts(Meant) /\ Room /\ profile' = Applied("hold") /\ owned' = profile.gen + 1
       \/ ~Accepts(Meant) /\ UNCHANGED <<profile, owned>>
    /\ UNCHANGED <<reported, thread, pending>>

\* _restore_temporary_fusion_profile picks the generation under the lock ...
RestoreRead(t) ==
    /\ thread[t].pc = "idle" /\ Meant # 0 /\ owned' = Meant
    /\ thread' = [thread EXCEPT ![t] = [pc |-> "nominal", gen |-> Meant]]
    /\ UNCHANGED <<profile, reported, pending>>

\* ... and _restore_fusion_when_absolute_recovers has the one of its hold.
SoftenBegin(t) ==
    /\ thread[t].pc = "idle" /\ owned # 0 /\ thread' = [thread EXCEPT ![t] = [pc |-> "balanced", gen |-> owned]]
    /\ UNCHANGED <<profile, reported, owned, pending>>

\* Wrong variant: the lease is compared in the Edge only.
NamesNone(t) == 0

\* The expected_generation of the request.
Expected(t) == thread[t].gen

\* _transition_temporary_fusion_profile takes the lock again, compares, calls
\* and takes the answer over; without an answer the lease stays as it was.
Transition(t) ==
    LET name == thread[t].pc
    IN  /\ name \in {"nominal", "balanced"} /\ UNCHANGED reported
        /\ \/ /\ owned # thread[t].gen /\ thread' = [thread EXCEPT ![t] = Idle]
              /\ UNCHANGED <<profile, owned, pending>>
           \/ /\ owned = thread[t].gen /\ Accepts(Expected(t)) /\ Room /\ profile' = Applied(name)
              /\ owned' = IF name = "nominal" THEN 0 ELSE profile.gen + 1
              /\ thread' = [thread EXCEPT ![t] = IF name = "nominal" THEN Idle
                                                 ELSE [pc |-> "forget", gen |-> profile.gen + 1]]
              /\ UNCHANGED pending
           \/ /\ owned = thread[t].gen /\ ~Accepts(Expected(t)) /\ owned' = 0
              /\ thread' = [thread EXCEPT ![t] = Idle] /\ UNCHANGED <<profile, pending>>
           \/ /\ owned = thread[t].gen /\ thread' = [thread EXCEPT ![t] = Idle]
              /\ pending' = pending \cup {[name |-> name, expected |-> Expected(t), meant |-> thread[t].gen]}
              /\ UNCHANGED <<profile, owned>>

\* A call the Edge gave up is served, or the localizer is gone.
Served(c) ==
    /\ c \in pending /\ pending' = pending \ {c}
    /\ \/ Accepts(c.expected) /\ Room /\ profile' = Applied(c.name)
       \/ UNCHANGED profile
    /\ UNCHANGED <<reported, owned, thread>>

\* _forget_expired_fusion_generation, once the softened profile has run out.
Forget(t) ==
    /\ thread[t].pc = "forget" /\ thread' = [thread EXCEPT ![t] = Idle]
    /\ owned' = IF owned = thread[t].gen /\ ReportedTemporary # thread[t].gen THEN 0 ELSE owned
    /\ UNCHANGED <<profile, reported, pending>>

Next ==
    \/ Expire \/ Report \/ Activate
    \/ \E name \in {"nominal", "hold", "balanced"} : TreeSets(name)
    \/ \E t \in Restorers : RestoreRead(t) \/ SoftenBegin(t) \/ Transition(t) \/ Forget(t)
    \/ \E c \in pending : Served(c)

Spec == Init /\ [][Next]_vars

\* The lease names a generation the localizer has given out.
TypeOK ==
    /\ owned \in 0 .. profile.gen /\ reported.gen <= profile.gen
    /\ \A t \in Restorers : thread[t].gen <= profile.gen

\* "Best-effort restore without ever overwriting a newer profile lease": a
\* restore or softening takes effect on the very generation it was meant for,
\* although it was chosen from a late status, in another critical section, and
\* may be served after its time.
SparesNewer ==
    \A t \in Restorers :
        /\ Transition(t) /\ profile' # profile => profile.gen = thread[t].gen
        /\ \A c \in pending : Served(c) /\ profile' # profile => profile.gen = c.meant
NewerIsSpared == [][SparesNewer]_vars

=============================================================================
