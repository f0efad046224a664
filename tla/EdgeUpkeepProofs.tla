-------------------------- MODULE EdgeUpkeepProofs --------------------------
(***************************************************************************)
(* Proofs for the services of EdgeUpkeep: the fusion profile, and, each    *)
(* for any record of its bounds, self healing, localization operations,    *)
(* charging and manual control.                                            *)
(*                                                                         *)
(* What the run checks is inductive for none of them alone.  A restore of  *)
(* the profile spares what is newer because the generation it means was    *)
(* given out; an open episode is the one in memory because no caller holds *)
(* another; a search undoes itself because the restored state was taken    *)
(* before its first candidate; a discharge alerts once because an episode  *)
(* stays latched while the battery has not recovered; and a follower or a  *)
(* skill may send once more only from where it had looked at its event.    *)
(***************************************************************************)
EXTENDS EdgeUpkeep, Sequences, FiniteSetTheorems, SequenceTheorems, TLAPS

(* The fusion profile, for any number of threads and generations. *)

Names == {"nominal", "hold", "balanced"}
Places == {"idle", "nominal", "balanced", "forget"}

\* Every generation the Edge knows has been given out, and a restore or
\* softening, in a thread or given up, means one of them and not just any.
ProfileInv ==
    /\ profile \in [name : Names, gen : Nat]
    /\ reported \in [name : Names, gen : 0 .. profile.gen]
    /\ owned \in 0 .. profile.gen
    /\ restorer \in [Restorers -> [pc : Places, gen : 0 .. profile.gen]]
    /\ \A t \in Restorers : restorer[t].pc \in {"nominal", "balanced"} => restorer[t].gen # 0
    /\ \A c \in calls : c.name \in Names /\ c.expected = c.meant /\ c.meant # 0

\* Generations only grow, and what the Edge knows of them stays known.
Grows ==
    \/ profile' = profile
    \/ \E name \in Names : profile' = [name |-> name, gen |-> profile.gen + 1]

LEMMA ProfileInit == Profile!Init => ProfileInv
  BY DEF Profile!Init, Profile!Idle, ProfileInv, Names, Places

\* A step that changes neither thread nor call, or one of them.
LEMMA ProfileStep ==
    ASSUME ProfileInv, [Profile!Next]_(Profile!vars)
    PROVE  ProfileInv'
<1>0. /\ profile.gen \in Nat /\ reported.gen \in 0 .. profile.gen /\ reported.name \in Names
      /\ owned \in 0 .. profile.gen
      /\ DOMAIN restorer = Restorers
      /\ \A t \in Restorers : restorer[t].gen \in 0 .. profile.gen /\ restorer[t].pc \in Places
  BY DEF ProfileInv
\* The profile stays or takes the next generation; those known remain so.
<1>1. ASSUME Grows, reported' \in {reported, profile}, owned' \in 0 .. profile'.gen,
             restorer' \in [Restorers -> [pc : Places, gen : 0 .. profile'.gen]],
             \A t \in Restorers : restorer'[t].pc \in {"nominal", "balanced"} => restorer'[t].gen # 0,
             \A c \in calls' : c.name \in Names /\ c.expected = c.meant /\ c.meant # 0
      PROVE  ProfileInv'
  <2>1. profile' \in [name : Names, gen : Nat] /\ profile.gen <= profile'.gen
    BY <1>0, <1>1 DEF Grows, ProfileInv
  <2>2. reported' \in [name : Names, gen : 0 .. profile'.gen]
    BY <1>0, <1>1, <2>1 DEF ProfileInv
  <2> QED
    BY <1>1, <2>1, <2>2 DEF ProfileInv
<1>2. ASSUME Grows
      PROVE  /\ profile'.gen \in Nat /\ 0 .. profile.gen \subseteq 0 .. profile'.gen
             /\ restorer \in [Restorers -> [pc : Places, gen : 0 .. profile'.gen]]
  <2>1. profile'.gen \in Nat /\ profile.gen <= profile'.gen
    BY <1>0, <1>2 DEF Grows
  <2>2. 0 .. profile.gen \subseteq 0 .. profile'.gen
    BY <1>0, <2>1
  <2> QED
    BY <2>1, <2>2 DEF ProfileInv
\* A thread t goes to a place with a generation that is known.
<1>3. ASSUME Grows, NEW t \in Restorers, NEW pc \in Places, NEW gen \in 0 .. profile'.gen,
             pc \in {"nominal", "balanced"} => gen # 0,
             restorer' = [restorer EXCEPT ![t] = [pc |-> pc, gen |-> gen]]
      PROVE  /\ restorer' \in [Restorers -> [pc : Places, gen : 0 .. profile'.gen]]
             /\ \A u \in Restorers : restorer'[u].pc \in {"nominal", "balanced"} => restorer'[u].gen # 0
  BY <1>2, <1>3 DEF ProfileInv
<1>4. CASE UNCHANGED Profile!vars
  BY <1>4 DEF Profile!vars, ProfileInv
<1>5. CASE Profile!Expire \/ \E name \in {"nominal", "hold", "balanced"} : Profile!TreeSets(name)
  <2>1. Grows /\ UNCHANGED <<reported, owned, restorer, calls>>
    BY <1>5 DEF Profile!Expire, Profile!TreeSets, Profile!Applied, Grows, Names
  <2> QED
    BY <1>0, <1>1, <1>2, <2>1 DEF ProfileInv
<1>6. CASE Profile!Report
  <2>1. Grows /\ reported' = profile /\ UNCHANGED <<owned, restorer, calls>> /\ profile' = profile
    BY <1>6 DEF Profile!Report, Grows
  <2> QED
    BY <1>1, <2>1 DEF ProfileInv
<1>7. CASE Profile!Activate
  <2>1. Grows /\ UNCHANGED <<reported, restorer, calls>>
    BY <1>7 DEF Profile!Activate, Profile!Applied, Grows, Names
  <2>2. owned' = owned \/ (owned' = profile.gen + 1 /\ profile'.gen = profile.gen + 1)
    BY <1>7 DEF Profile!Activate, Profile!Applied
  <2>3. owned' \in 0 .. profile'.gen
    BY <1>0, <1>2, <2>1, <2>2
  <2> QED
    BY <1>1, <1>2, <2>1, <2>3 DEF ProfileInv
<1>8. ASSUME NEW t \in Restorers, Profile!RestoreRead(t) \/ Profile!SoftenBegin(t)
      PROVE  ProfileInv'
  <2>1. PICK pc \in {"nominal", "balanced"}, gen \in 0 .. profile.gen :
            /\ gen # 0 /\ restorer' = [restorer EXCEPT ![t] = [pc |-> pc, gen |-> gen]]
            /\ owned' = gen
    BY <1>0, <1>8 DEF Profile!RestoreRead, Profile!SoftenBegin, Profile!Meant, Profile!ReportedTemporary
  <2>2. Grows /\ UNCHANGED <<profile, reported, calls>>
    BY <1>8 DEF Profile!RestoreRead, Profile!SoftenBegin, Grows
  <2> QED
    BY <1>1, <1>3, <2>1, <2>2 DEF ProfileInv, Places
<1>9. ASSUME NEW t \in Restorers, Profile!Transition(t)
      PROVE  ProfileInv'
  <2> DEFINE name == restorer[t].pc
  <2>1. name \in {"nominal", "balanced"} /\ restorer[t].gen # 0 /\ UNCHANGED reported
    BY <1>9 DEF Profile!Transition, ProfileInv
  <2>2. CASE UNCHANGED profile
    <3>1. /\ restorer' = [restorer EXCEPT ![t] = [pc |-> "idle", gen |-> 0]]
          /\ owned' = owned \/ owned' = 0
          /\ \A c \in calls' : c.name \in Names /\ c.expected = c.meant /\ c.meant # 0
      BY <1>0, <1>9, <2>1, <2>2
         DEF Profile!Transition, Profile!Idle, Profile!Expected, Profile!Applied, ProfileInv, Names
    <3>2. Grows /\ owned' \in 0 .. profile'.gen /\ 0 \in 0 .. profile'.gen
      BY <1>0, <2>2, <3>1 DEF Grows
    <3> QED
      BY <1>1, <1>3, <2>1, <3>1, <3>2 DEF Places
  <2>3. CASE profile' = [name |-> name, gen |-> profile.gen + 1] /\ UNCHANGED calls
    <3>1. Grows /\ profile'.gen = profile.gen + 1
      BY <2>1, <2>3 DEF Grows, Names
    <3>2. owned' \in {0, profile.gen + 1}
      BY <1>0, <1>9, <2>3 DEF Profile!Transition, Profile!Applied
    <3>3. PICK pc \in {"idle", "forget"}, gen \in {0, profile.gen + 1} :
              restorer' = [restorer EXCEPT ![t] = [pc |-> pc, gen |-> gen]]
      BY <1>0, <1>9, <2>3 DEF Profile!Transition, Profile!Applied, Profile!Idle
    <3>4. owned' \in 0 .. profile'.gen /\ gen \in 0 .. profile'.gen
      BY <1>0, <3>1, <3>2
    <3> QED
      BY <1>1, <1>3, <2>1, <2>3, <3>1, <3>3, <3>4 DEF ProfileInv, Places
  <2> QED
    BY <1>9, <2>2, <2>3 DEF Profile!Transition, Profile!Applied
<1>10. ASSUME NEW t \in Restorers, Profile!Forget(t)
       PROVE  ProfileInv'
  <2>1. /\ restorer' = [restorer EXCEPT ![t] = [pc |-> "idle", gen |-> 0]]
        /\ owned' \in {0, owned} /\ UNCHANGED <<profile, reported, calls>>
    BY <1>10 DEF Profile!Forget, Profile!Idle
  <2> QED
    BY <1>0, <1>1, <1>3, <2>1 DEF Grows, Places, ProfileInv
<1>11. ASSUME NEW c \in calls, Profile!Served(c)
       PROVE  ProfileInv'
  <2>1. Grows /\ UNCHANGED <<reported, owned, restorer>> /\ calls' \subseteq calls
    BY <1>11 DEF Profile!Served, Profile!Applied, Grows, ProfileInv
  <2> QED
    BY <1>0, <1>1, <1>2, <2>1 DEF ProfileInv
<1> QED
  BY <1>4, <1>5, <1>6, <1>7, <1>8, <1>9, <1>10, <1>11 DEF Profile!Next

LEMMA ProfileTyped == ProfileInv => Profile!TypeOK
  BY DEF ProfileInv, Profile!TypeOK

LEMMA ProfileSpares ==
    ASSUME ProfileInv, [Profile!Next]_(Profile!vars)
    PROVE  Profile!SparesNewer
<1>1. ASSUME NEW t \in Restorers, Profile!Transition(t), profile' # profile
      PROVE  profile.gen = restorer[t].gen
  BY <1>1 DEF Profile!Transition, Profile!Accepts, Profile!Expected, ProfileInv
<1>2. ASSUME NEW c \in calls, Profile!Served(c), profile' # profile
      PROVE  profile.gen = c.meant
  BY <1>2 DEF Profile!Served, Profile!Accepts, ProfileInv
<1> QED
  BY <1>1, <1>2 DEF Profile!SparesNewer
-----------------------------------------------------------------------------
(* Self healing, for any callers, evidence, samples and bounds. *)

Faults == {"lost", "ndt", "rtk", "stale", "stuck", "failed", "collision"}
Measures == {"none", "exit", "wait", "observe", "hold", "relocalize", "replan", "continue",
             "search", "spin", "reverse", "bypass", "global", "hold_safe"}
Verdicts == {"open", "success", "failed", "pruned"}
Episodes == [id : Nat, fault : Faults, level : 0 .. 3, active : Nat, allowed : SUBSET Measures,
             stable : Nat, finished : BOOLEAN]
Diagnoses == [ep : Nat, fault : Faults, level : 0 .. 3, action : Measures, recovered : BOOLEAN]
Actions == [ep : Nat, kind : Measures, state : {"open", "closed", "pruned"}]
Requests == [pc : {"idle", "finish", "diagnose", "advance", "authorize", "over", "select", "replace",
                   "replaced", "begin"},
             op : {"none", "diagnose", "started", "finished"}, ep : Nat, act : Nat, level : 0 .. 3,
             kind : Measures, before : Nat, from : 0 .. 3, diag : Diagnoses]
InProgress == ep.id # 0 /\ ~ep.finished

RowsTyped ==
    /\ ep \in Episodes /\ last \in Diagnoses
    /\ eps \in Seq(Verdicts) /\ acts \in Seq(Actions)
    /\ pruned \in [episodes : Nat, actions : Nat]
    /\ boot \in [pc : {"up", "reconcile", "prune"}, count : Nat]

\* The episode in memory and its action are rows; an action belongs to a row,
\* and one that was pruned went with its episode.
RowsAgree ==
    /\ ep.id \in 0 .. Len(eps) /\ ep.active \in 0 .. Len(acts)
    /\ ep.active # 0 => acts[ep.active].ep = ep.id /\ acts[ep.active].state = "open"
    /\ \A i \in DOMAIN acts : acts[i].ep \in DOMAIN eps
    /\ \A i \in DOMAIN acts : acts[i].state = "pruned" => eps[acts[i].ep] = "pruned"

\* The row that is open is the episode in memory; a start has none in memory,
\* and once it has reconciled the rows none is open.
OpenRows ==
    /\ boot.pc = "up" => \A i \in DOMAIN eps : eps[i] = "open" <=> InProgress /\ i = ep.id
    /\ boot.pc # "up" => ep.id = 0 /\ ep.active = 0
    /\ boot.pc = "prune" => /\ \A i \in DOMAIN eps : eps[i] # "open"
                            /\ \A i \in DOMAIN acts : acts[i].state # "open"

\* Outdoors no spin is allowed, selected or on record.
NoSpin ==
    scene = "outdoor" =>
        /\ "spin" \notin ep.allowed /\ last.action # "spin"
        /\ \A i \in DOMAIN acts : acts[i].kind # "spin"

\* The request of the behaviour tree carries a diagnosis, and outdoors a spin only
\* until it is authorized.
RequestSound ==
    /\ bt \in Requests
    /\ scene = "outdoor" =>
           /\ bt.diag.action # "spin"
           /\ bt.pc \in {"replace", "replaced", "begin"} => bt.kind # "spin"

CoreInv == RowsTyped /\ RowsAgree /\ OpenRows /\ NoSpin
HealInv == CoreInv /\ RequestSound

\* A step of the coordinator: the first verdict of every row stays.
KeptVerdicts == \A i \in DOMAIN eps : eps[i] \in {"success", "failed"} => eps'[i] \in {eps[i], "pruned"}
Kept == UNCHANGED <<scene, pruned, boot>>

\* Closing actions changes their state only.
LEMMA CloseShape ==
    ASSUME NEW k, acts \in Seq(Actions), NEW S
    PROVE  LET c == Heal(k)!Close(acts, S) IN
           /\ c \in Seq(Actions) /\ Len(c) = Len(acts) /\ DOMAIN c = DOMAIN acts
           /\ \A i \in DOMAIN acts :
                  /\ c[i].ep = acts[i].ep /\ c[i].kind = acts[i].kind
                  /\ c[i].state = IF i \in S THEN "closed" ELSE acts[i].state
<1> DEFINE c == Heal(k)!Close(acts, S)
<1>1. \A i \in DOMAIN acts : acts[i] \in Actions
  OBVIOUS
<1>2. \A i \in DOMAIN acts : [acts[i] EXCEPT !.state = "closed"] \in Actions
  BY <1>1, Zenon DEF Actions
<1>3. /\ DOMAIN c = DOMAIN acts
      /\ \A i \in DOMAIN acts : c[i] = IF i \in S THEN [acts[i] EXCEPT !.state = "closed"] ELSE acts[i]
  BY DEF Heal!Close
<1> HIDE DEF c
<1>4. c \in Seq(Actions) /\ Len(c) = Len(acts)
  <2>1. DOMAIN c = 1 .. Len(acts) /\ \A i \in 1 .. Len(acts) : c[i] \in Actions
    BY <1>1, <1>2, <1>3
  <2>2. c \in [1 .. Len(acts) -> Actions]
    <3>1. c = [i \in DOMAIN acts |-> c[i]]
      BY DEF c, Heal!Close
    <3> QED
      BY <2>1, <3>1
  <2> QED
    BY <2>2
<1>5. \A i \in DOMAIN acts :
          /\ c[i].ep = acts[i].ep /\ c[i].kind = acts[i].kind
          /\ c[i].state = IF i \in S THEN "closed" ELSE acts[i].state
  BY <1>1, <1>3 DEF Actions
<1> QED
  BY <1>3, <1>4, <1>5 DEF c

\* finish_action: whatever action a late caller names.
LEMMA FinishStep ==
    ASSUME NEW k, CoreInv, Kept, UNCHANGED <<eps, last>>, NEW a, Heal(k)!FinishAction(a)
    PROVE  CoreInv' /\ KeptVerdicts
<1> DEFINE id == IF a = 0 THEN ep.active ELSE a
           f == IF ep.active = id THEN 0 ELSE ep.active
<1>1. acts' = Heal(k)!Close(acts, {id}) /\ ep' = [ep EXCEPT !.active = f]
  BY DEF Heal!FinishAction
<1>2. f \in Nat /\ f \in 0 .. Len(acts) /\ (f = 0 \/ (f = ep.active /\ f # id))
  BY DEF CoreInv, RowsTyped, RowsAgree, Episodes
<1> HIDE DEF id, f
<1>3. /\ acts' \in Seq(Actions) /\ Len(acts') = Len(acts) /\ DOMAIN acts' = DOMAIN acts
      /\ \A i \in DOMAIN acts :
             /\ acts'[i].ep = acts[i].ep /\ acts'[i].kind = acts[i].kind
             /\ acts'[i].state = IF i = id THEN "closed" ELSE acts[i].state
  BY <1>1, CloseShape DEF CoreInv, RowsTyped
<1>4. ep' \in Episodes
  BY <1>1, <1>2, Zenon DEF CoreInv, RowsTyped, Episodes
<1>5. ep'.id = ep.id /\ ep'.allowed = ep.allowed /\ ep'.finished = ep.finished /\ ep'.active = f
  BY <1>1 DEF CoreInv, RowsTyped, Episodes
<1>6. RowsTyped'
  BY <1>3, <1>4 DEF CoreInv, RowsTyped, Kept
<1>7. RowsAgree'
  <2>1. ep'.id \in 0 .. Len(eps') /\ ep'.active \in 0 .. Len(acts')
    BY <1>2, <1>3, <1>5 DEF CoreInv, RowsAgree
  <2>2. f # 0 => f \in DOMAIN acts /\ f = ep.active /\ f # id
    BY <1>2 DEF CoreInv, RowsTyped
  <2>3. ep'.active # 0 => acts'[ep'.active].ep = ep'.id /\ acts'[ep'.active].state = "open"
    BY <1>3, <1>5, <2>2 DEF CoreInv, RowsAgree
  <2>4. /\ \A i \in DOMAIN acts' : acts'[i].ep \in DOMAIN eps'
        /\ \A i \in DOMAIN acts' : acts'[i].state = "pruned" => eps'[acts'[i].ep] = "pruned"
    BY <1>3 DEF CoreInv, RowsAgree
  <2> QED
    BY <2>1, <2>3, <2>4 DEF RowsAgree
<1>8. OpenRows'
  BY <1>2, <1>3, <1>5 DEF CoreInv, OpenRows, Kept, InProgress
<1>9. NoSpin'
  BY <1>3, <1>5 DEF CoreInv, NoSpin, Kept
<1> QED
  BY <1>6, <1>7, <1>8, <1>9 DEF CoreInv, KeptVerdicts, RowsTyped

\* complete: only the episode in memory, and once.
LEMMA CompleteStep ==
    ASSUME NEW k, CoreInv, boot.pc = "up", Kept, UNCHANGED last, NEW v \in {"success", "failed"},
           Heal(k)!Complete(v)
    PROVE  CoreInv' /\ KeptVerdicts
<1>1. CASE ~InProgress
  BY <1>1 DEF Heal!Complete, Heal!Active, InProgress, CoreInv, RowsTyped, RowsAgree, OpenRows, NoSpin, Kept,
     KeptVerdicts
<1>2. CASE InProgress
  <2>1. /\ eps' = [eps EXCEPT ![ep.id] = v] /\ acts' = Heal(k)!Close(acts, {ep.active})
        /\ ep' = [ep EXCEPT !.finished = TRUE, !.active = 0]
    BY <1>2 DEF Heal!Complete, Heal!Active, InProgress
  <2>2. /\ ep.id \in DOMAIN eps /\ eps[ep.id] = "open" /\ v \in Verdicts
    BY <1>2 DEF CoreInv, RowsTyped, RowsAgree, OpenRows, InProgress, Episodes, Verdicts
  <2>3. /\ eps' \in Seq(Verdicts) /\ Len(eps') = Len(eps) /\ DOMAIN eps' = DOMAIN eps
        /\ \A i \in DOMAIN eps : eps'[i] = IF i = ep.id THEN v ELSE eps[i]
    BY <2>1, <2>2 DEF CoreInv, RowsTyped
  <2>4. /\ acts' \in Seq(Actions) /\ Len(acts') = Len(acts) /\ DOMAIN acts' = DOMAIN acts
        /\ \A i \in DOMAIN acts :
               /\ acts'[i].ep = acts[i].ep /\ acts'[i].kind = acts[i].kind
               /\ acts'[i].state = IF i = ep.active THEN "closed" ELSE acts[i].state
    BY <2>1, CloseShape DEF CoreInv, RowsTyped
  <2>5. ep' \in Episodes
    BY <2>1, Zenon DEF CoreInv, RowsTyped, Episodes
  <2>6. ep'.id = ep.id /\ ep'.allowed = ep.allowed /\ ep'.finished = TRUE /\ ep'.active = 0
    BY <2>1 DEF CoreInv, RowsTyped, Episodes
  <2>7. RowsTyped'
    BY <2>3, <2>4, <2>5 DEF CoreInv, RowsTyped, Kept
  <2>8. RowsAgree'
    <3>1. ep'.id \in 0 .. Len(eps') /\ ep'.active = 0 /\ ep'.active \in 0 .. Len(acts')
      BY <2>3, <2>4, <2>6 DEF CoreInv, RowsTyped, RowsAgree
    <3>2. \A i \in DOMAIN acts' : acts'[i].ep \in DOMAIN eps'
      BY <2>3, <2>4 DEF CoreInv, RowsAgree
    <3>3. \A i \in DOMAIN acts' : acts'[i].state = "pruned" => eps'[acts'[i].ep] = "pruned"
      BY <2>2, <2>3, <2>4 DEF CoreInv, RowsAgree
    <3> QED
      BY <3>1, <3>2, <3>3 DEF RowsAgree
  <2>9. OpenRows'
    BY <2>3, <2>6 DEF CoreInv, OpenRows, Kept, InProgress
  <2>10. NoSpin'
    BY <2>4, <2>6 DEF CoreInv, NoSpin, Kept
  <2>11. KeptVerdicts
    BY <2>2, <2>3 DEF KeptVerdicts
  <2> QED
    BY <2>7, <2>8, <2>9, <2>10, <2>11 DEF CoreInv
<1> QED
  BY <1>1, <1>2

\* The higher of two levels is one of them.
LEMMA HigherLevel ==
    ASSUME NEW k, NEW x \in 0 .. 3, NEW y \in 0 .. 3
    PROVE  Heal(k)!Max({x, y}) \in 0 .. 3
<1>1. \E z \in {x, y} : \A w \in {x, y} : z >= w
  OBVIOUS
<1> QED
  BY <1>1 DEF Heal!Max

\* begin_action, of a kind that is no spin outdoors.
LEMMA BeginStep ==
    ASSUME NEW k, CoreInv, boot.pc = "up", Kept, UNCHANGED <<eps, last>>, NEW l \in 0 .. 3,
           NEW kind \in Measures,
           scene = "outdoor" => kind # "spin", Heal(k)!BeginAction(l, kind)
    PROVE  CoreInv' /\ KeptVerdicts
<1>1. CASE ~InProgress
  BY <1>1 DEF Heal!BeginAction, Heal!Active, InProgress, CoreInv, RowsTyped, RowsAgree, OpenRows, NoSpin,
     Kept, KeptVerdicts
<1>2. CASE InProgress
  <2> DEFINE a == [ep |-> ep.id, kind |-> kind, state |-> "open"]
             m == Heal(k)!Max({ep.level, l})
             n1 == Len(acts) + 1
  <2>1. acts' = Append(acts, a) /\ ep' = [ep EXCEPT !.level = m, !.active = n1]
    BY <1>2 DEF Heal!BeginAction, Heal!Active, InProgress
  <2>2. ep.level \in 0 .. 3 /\ ep.id \in Nat /\ ep.id \in DOMAIN eps /\ Len(acts) \in Nat
    BY <1>2 DEF CoreInv, RowsTyped, RowsAgree, Episodes, InProgress
  <2>3. m \in 0 .. 3 /\ n1 \in Nat
    <3> HIDE DEF m
    <3>1. m \in 0 .. 3
      BY <2>2, HigherLevel DEF m
    <3> QED
      BY <2>2, <3>1
  <2>4. a \in Actions /\ a.ep = ep.id /\ a.kind = kind /\ a.state = "open"
    BY <2>2 DEF Actions
  <2> HIDE DEF a, m
  <2>5. /\ acts' \in Seq(Actions) /\ Len(acts') = n1 /\ DOMAIN acts' = 1 .. n1
        /\ acts'[n1] = a /\ \A i \in DOMAIN acts : acts'[i] = acts[i]
        /\ \A i \in DOMAIN acts' : i = n1 \/ i \in DOMAIN acts
    BY <2>1, <2>4 DEF CoreInv, RowsTyped
  <2> HIDE DEF n1
  <2>6. ep' \in Episodes
    BY <2>1, <2>3, Zenon DEF CoreInv, RowsTyped, Episodes
  <2>7. ep'.id = ep.id /\ ep'.allowed = ep.allowed /\ ep'.finished = ep.finished /\ ep'.active = n1
    BY <2>1 DEF CoreInv, RowsTyped, Episodes
  <2>8. RowsTyped'
    BY <2>5, <2>6 DEF CoreInv, RowsTyped, Kept
  <2>9. RowsAgree'
    <3>1. ep'.id \in 0 .. Len(eps') /\ ep'.active \in 0 .. Len(acts') /\ ep'.active \in DOMAIN acts'
      BY <2>3, <2>5, <2>7 DEF CoreInv, RowsAgree, n1
    <3>2. acts'[ep'.active].ep = ep'.id /\ acts'[ep'.active].state = "open"
      BY <2>4, <2>5, <2>7
    <3>3. \A i \in DOMAIN acts' : acts'[i].ep \in DOMAIN eps'
      BY <2>2, <2>4, <2>5 DEF CoreInv, RowsAgree
    <3>4. \A i \in DOMAIN acts' : acts'[i].state = "pruned" => eps'[acts'[i].ep] = "pruned"
      BY <2>4, <2>5 DEF CoreInv, RowsAgree
    <3> QED
      BY <3>1, <3>2, <3>3, <3>4 DEF RowsAgree
  <2>10. OpenRows'
    BY <2>7 DEF CoreInv, OpenRows, Kept, InProgress
  <2>11. NoSpin'
    BY <2>4, <2>5, <2>7 DEF CoreInv, NoSpin, Kept
  <2> QED
    BY <2>8, <2>9, <2>10, <2>11 DEF CoreInv, KeptVerdicts, RowsTyped
<1> QED
  BY <1>1, <1>2

\* The decision matrix: faults, when they are over, and what is done about them.
LEMMA FaultKnown ==
    ASSUME NEW k, NEW requested \in Faults, NEW e
    PROVE  Heal(k)!NormalizeFault(requested, e) \in Faults
  BY DEF Heal!NormalizeFault, Faults

LEMMA RecoveredKnown ==
    ASSUME NEW k, NEW fault \in Faults, NEW e, NEW stable
    PROVE  Heal(k)!Recovered(fault, e, stable) \in BOOLEAN
  BY DEF Heal!Recovered, Faults

LEMMA MeasureKnown ==
    ASSUME NEW k, NEW fault \in Faults, NEW e, NEW l \in 0 .. 3
    PROVE  /\ Heal(k)!ActionOf(fault, e, l) \in Measures
           /\ scene = "outdoor" => Heal(k)!ActionOf(fault, e, l) # "spin"
<1>1. l = 0 \/ l = 1 \/ l = 2 \/ l = 3
  OBVIOUS
<1>2. CASE l = 0
  BY <1>2 DEF Heal!ActionOf, Measures
<1>3. CASE l = 1
  BY <1>3 DEF Heal!ActionOf, Measures
<1>4. CASE l = 2
  BY <1>4 DEF Heal!ActionOf, Measures, Heal!ForbidSpin, Heal!Outdoor
<1>5. CASE l = 3
  BY <1>5 DEF Heal!ActionOf, Measures
<1> QED
  BY <1>1, <1>2, <1>3, <1>4, <1>5

LEMMA AllowedKnown ==
    ASSUME NEW k, NEW fault, NEW action \in Measures, scene = "outdoor" => action # "spin", NEW l, NEW r
    PROVE  /\ Heal(k)!AllowedActions(fault, action, l, r) \in SUBSET Measures
           /\ scene = "outdoor" => "spin" \notin Heal(k)!AllowedActions(fault, action, l, r)
  BY DEF Heal!AllowedActions, Measures, Heal!ForbidSpin, Heal!Outdoor

\* The episode a diagnosis is about: the one in memory or the next.
LEMMA StartedShape ==
    ASSUME NEW k, CoreInv, NEW requested \in Faults, NEW e
    PROVE  LET s == Heal(k)!Started(requested, e) IN
           /\ s \in Episodes
           /\ InProgress => s = ep
           /\ ~InProgress => s.id = Len(eps) + 1 /\ s.active = 0
<1>1. CASE InProgress
  BY <1>1 DEF Heal!Started, Heal!Active, InProgress, CoreInv, RowsTyped
<1>2. CASE ~InProgress
  <2> DEFINE f == Heal(k)!NormalizeFault(requested, e)
             n1 == Len(eps) + 1
  <2>1. f \in Faults /\ n1 \in Nat
    BY FaultKnown DEF CoreInv, RowsTyped
  <2>2. Heal(k)!Started(requested, e) = [Heal(k)!NoEpisode EXCEPT !.id = n1, !.fault = f]
    BY <1>2 DEF Heal!Started, Heal!Active, InProgress
  <2>3. Heal(k)!NoEpisode = [id |-> 0, fault |-> "failed", level |-> 0, active |-> 0, allowed |-> {},
                             stable |-> 0, finished |-> FALSE]
    BY DEF Heal!NoEpisode
  <2> HIDE DEF f, n1
  <2>4. Heal(k)!NoEpisode \in Episodes
    BY <2>3 DEF Episodes, Faults
  <2>5. Heal(k)!Started(requested, e) \in Episodes
    BY <2>1, <2>2, <2>4, Zenon DEF Episodes
  <2>6. Heal(k)!Started(requested, e).id = n1 /\ Heal(k)!Started(requested, e).active = 0
    BY <2>2, <2>3, <2>4 DEF Episodes
  <2> QED
    BY <1>2, <2>5, <2>6 DEF n1
<1> QED
  BY <1>1, <1>2

LEMMA DiagnosisShape ==
    ASSUME NEW k, CoreInv, NEW requested \in Faults, NEW e, NEW l \in 0 .. 3
    PROVE  LET d == Heal(k)!Diagnosis(requested, e, l) IN
           /\ d \in Diagnoses /\ d.ep = Heal(k)!Started(requested, e).id
           /\ scene = "outdoor" => d.action # "spin"
<1> DEFINE s == Heal(k)!Started(requested, e)
           f == Heal(k)!NormalizeFault(s.fault, e)
           m == Heal(k)!Max({s.level, l})
           stable == IF e.rtk THEN s.stable + 1 ELSE 0
           r == Heal(k)!Recovered(f, e, stable)
           act == IF r THEN "exit" ELSE Heal(k)!ActionOf(f, e, m)
           d == Heal(k)!Diagnosis(requested, e, l)
<1>1. d = [ep |-> s.id, fault |-> f, level |-> m, action |-> act, recovered |-> r]
  BY DEF Heal!Diagnosis
<1>2. s.id \in Nat /\ s.fault \in Faults /\ s.level \in 0 .. 3
  <2>1. s \in Episodes
    BY StartedShape
  <2> HIDE DEF s
  <2> QED
    BY <2>1 DEF Episodes
<1> HIDE DEF s, stable, d
<1>3. f \in Faults /\ m \in 0 .. 3
  BY <1>2, FaultKnown, HigherLevel
<1> HIDE DEF f, m
<1>4. r \in BOOLEAN
  BY <1>3, RecoveredKnown
<1> HIDE DEF r
<1>5. act \in Measures /\ (scene = "outdoor" => act # "spin")
  BY <1>3, MeasureKnown DEF Measures
<1> HIDE DEF act
<1>6. d \in Diagnoses
  BY <1>1, <1>2, <1>3, <1>4, <1>5, Zenon DEF Diagnoses
<1>7. d.ep = s.id /\ d.action = act
  BY <1>1
<1> QED
  BY <1>5, <1>6, <1>7 DEF d, s

LEMMA DiagnoseStep ==
    ASSUME NEW k, CoreInv, boot.pc = "up", Kept, Samples \in Nat, NEW requested \in Faults, NEW e,
           NEW l \in 0 .. 3, Heal(k)!Diagnose(requested, e, l)
    PROVE  CoreInv' /\ KeptVerdicts
<1> DEFINE s == Heal(k)!Started(requested, e)
           d == Heal(k)!Diagnosis(requested, e, l)
           st == IF e.rtk THEN Heal(k)!Min({s.stable + 1, Samples}) ELSE 0
           al == Heal(k)!AllowedActions(d.fault, d.action, d.level, d.recovered)
           ac == IF d.recovered THEN 0 ELSE s.active
           all == IF InProgress THEN eps ELSE Append(eps, "open")
<1>1. /\ last' = d
      /\ ep' = [s EXCEPT !.fault = d.fault, !.level = d.level, !.stable = st, !.allowed = al,
                         !.active = ac, !.finished = d.recovered]
      /\ eps' = IF d.recovered THEN [all EXCEPT ![s.id] = "success"] ELSE all
      /\ acts' = IF d.recovered THEN Heal(k)!Close(acts, {s.active}) ELSE acts
  BY DEF Heal!Diagnose, Heal!Active, InProgress
<1>2. /\ s \in Episodes
      /\ InProgress => s = ep
      /\ ~InProgress => s.id = Len(eps) + 1 /\ s.active = 0
  BY StartedShape
<1>3. d \in Diagnoses /\ d.ep = s.id /\ (scene = "outdoor" => d.action # "spin")
  BY DiagnosisShape
<1> HIDE DEF s, d
<1>4. s.id \in Nat /\ s.active \in Nat /\ s.stable \in Nat
  BY <1>2 DEF Episodes
<1>5. d.fault \in Faults /\ d.level \in 0 .. 3 /\ d.action \in Measures /\ d.recovered \in BOOLEAN
  BY <1>3 DEF Diagnoses
<1>6. st \in Nat
  <2> DEFINE t == s.stable + 1
  <2>1. t \in Nat
    BY <1>4
  <2> HIDE DEF t
  <2>2. \E z \in {t, Samples} : \A w \in {t, Samples} : z <= w
    BY <2>1
  <2>3. Heal(k)!Min({t, Samples}) \in Nat
    BY <2>1, <2>2 DEF Heal!Min
  <2> QED
    BY <2>3 DEF t
<1>7. al \in SUBSET Measures /\ (scene = "outdoor" => "spin" \notin al)
  BY <1>3, <1>5, AllowedKnown
<1> HIDE DEF st, al
<1>8. ac \in Nat
  BY <1>4
<1>9. ep' \in Episodes
  <2> HIDE DEF ac
  <2> QED
    BY <1>1, <1>2, <1>5, <1>6, <1>7, <1>8, Zenon DEF Episodes
<1>10. ep'.id = s.id /\ ep'.allowed = al /\ ep'.finished = d.recovered /\ ep'.active = ac
  BY <1>1, <1>2 DEF Episodes
\* The row of the episode, old or new.
<1>11. /\ all \in Seq(Verdicts) /\ s.id \in DOMAIN all /\ s.id # 0
       /\ Len(eps) <= Len(all) /\ \A i \in DOMAIN eps : i \in DOMAIN all /\ all[i] = eps[i]
       /\ \A i \in DOMAIN all : all[i] = "open" <=> i = s.id
  <2>1. CASE InProgress
    BY <1>2, <2>1 DEF CoreInv, RowsTyped, RowsAgree, OpenRows, InProgress
  <2>2. CASE ~InProgress
    BY <1>2, <2>2 DEF CoreInv, RowsTyped, RowsAgree, OpenRows, Verdicts
  <2> QED
    BY <2>1, <2>2
<1> HIDE DEF all
<1>12. /\ eps' \in Seq(Verdicts) /\ DOMAIN eps' = DOMAIN all /\ Len(eps') = Len(all)
       /\ \A i \in DOMAIN all : eps'[i] = IF d.recovered /\ i = s.id THEN "success" ELSE all[i]
  BY <1>1, <1>5, <1>11 DEF Verdicts
<1>13. /\ acts' \in Seq(Actions) /\ Len(acts') = Len(acts) /\ DOMAIN acts' = DOMAIN acts
       /\ \A i \in DOMAIN acts :
             /\ acts'[i].ep = acts[i].ep /\ acts'[i].kind = acts[i].kind
             /\ acts'[i].state = IF d.recovered /\ i = s.active THEN "closed" ELSE acts[i].state
  <2>1. CASE d.recovered
    BY <1>1, <2>1, CloseShape DEF CoreInv, RowsTyped
  <2>2. CASE ~d.recovered
    BY <1>1, <2>2 DEF CoreInv, RowsTyped
  <2> QED
    BY <2>1, <2>2
<1>14. RowsTyped'
  BY <1>1, <1>3, <1>9, <1>12, <1>13 DEF CoreInv, RowsTyped, Kept
<1>15. RowsAgree'
  <2>1. ep'.id \in 0 .. Len(eps')
    BY <1>10, <1>11, <1>12
  <2>2. ac # 0 => InProgress /\ s = ep /\ ~d.recovered /\ ac = ep.active /\ ac \in DOMAIN acts
    BY <1>2 DEF CoreInv, RowsTyped, RowsAgree
  <2>3. ac \in 0 .. Len(acts')
    BY <1>13, <2>2 DEF CoreInv, RowsTyped
  <2>4. ep'.active # 0 => acts'[ep'.active].ep = ep'.id /\ acts'[ep'.active].state = "open"
    BY <1>10, <1>13, <2>2 DEF CoreInv, RowsAgree
  <2>5. \A i \in DOMAIN acts' : acts'[i].ep \in DOMAIN eps'
    BY <1>11, <1>12, <1>13 DEF CoreInv, RowsAgree
  <2>6. \A i \in DOMAIN acts' : acts'[i].state = "pruned" => eps'[acts'[i].ep] = "pruned"
    <3> SUFFICES ASSUME NEW i \in DOMAIN acts, acts'[i].state = "pruned"
                 PROVE  eps'[acts[i].ep] = "pruned"
      BY <1>13
    <3>1. acts[i].state = "pruned" /\ acts[i].ep \in DOMAIN eps
      BY <1>13 DEF CoreInv, RowsAgree
    <3>2. eps[acts[i].ep] = "pruned"
      BY <3>1 DEF CoreInv, RowsAgree
    <3> QED
      BY <1>11, <1>12, <3>1, <3>2
  <2> QED
    BY <1>10, <2>1, <2>3, <2>4, <2>5, <2>6 DEF RowsAgree
<1>16. OpenRows'
  <2>1. \A i \in DOMAIN eps' : eps'[i] = "open" <=> ~d.recovered /\ i = s.id
    BY <1>11, <1>12
  <2> QED
    BY <1>10, <1>11, <2>1 DEF OpenRows, InProgress, Kept
<1>17. NoSpin'
  BY <1>1, <1>3, <1>7, <1>10, <1>13 DEF CoreInv, NoSpin, Kept
<1>18. KeptVerdicts
  BY <1>11, <1>12 DEF KeptVerdicts
<1> QED
  BY <1>14, <1>15, <1>16, <1>17, <1>18 DEF CoreInv

LEMMA BlankRecords ==
    ASSUME NEW k
    PROVE  /\ Heal(k)!NoEpisode \in Episodes /\ Heal(k)!NoEpisode.id = 0
           /\ Heal(k)!NoEpisode.active = 0 /\ Heal(k)!NoEpisode.allowed = {}
           /\ Heal(k)!NoDiagnosis \in Diagnoses /\ Heal(k)!NoDiagnosis.action = "none"
           /\ Heal(k)!NoRequest \in Requests /\ Heal(k)!NoRequest.pc = "idle"
           /\ Heal(k)!NoRequest.diag.action = "none"
<1>1. /\ Heal(k)!NoEpisode \in Episodes /\ Heal(k)!NoEpisode.id = 0
      /\ Heal(k)!NoEpisode.active = 0 /\ Heal(k)!NoEpisode.allowed = {}
  BY DEF Heal!NoEpisode, Episodes, Faults
<1>2. Heal(k)!NoDiagnosis \in Diagnoses /\ Heal(k)!NoDiagnosis.action = "none"
  BY DEF Heal!NoDiagnosis, Diagnoses, Faults, Measures
<1>3. /\ Heal(k)!NoRequest \in Requests /\ Heal(k)!NoRequest.pc = "idle"
      /\ Heal(k)!NoRequest.diag = Heal(k)!NoDiagnosis
  BY <1>2 DEF Heal!NoRequest, Requests, Measures
<1> QED
  BY <1>1, <1>2, <1>3

\* A crash leaves the rows as they are and nothing in memory.
LEMMA CrashStep ==
    ASSUME NEW k, HealInv, Heal(k)!Crash
    PROVE  HealInv' /\ KeptVerdicts
<1>1. /\ ep' = Heal(k)!NoEpisode /\ last' = Heal(k)!NoDiagnosis /\ bt' = Heal(k)!NoRequest
      /\ UNCHANGED <<scene, eps, acts, pruned>>
      /\ boot' = [pc |-> "reconcile", count |-> boot.count + 1]
  BY DEF Heal!Crash, Heal!rows
<1>2. boot' \in [pc : {"up", "reconcile", "prune"}, count : Nat] /\ boot'.pc = "reconcile"
  BY <1>1 DEF HealInv, CoreInv, RowsTyped
<1>3. RowsTyped'
  BY <1>1, <1>2, BlankRecords DEF HealInv, CoreInv, RowsTyped
<1>4. RowsAgree'
  BY <1>1, BlankRecords DEF HealInv, CoreInv, RowsTyped, RowsAgree
<1>5. OpenRows'
  BY <1>1, <1>2, BlankRecords DEF OpenRows
<1>6. NoSpin'
  BY <1>1, BlankRecords DEF HealInv, CoreInv, NoSpin
<1>7. RequestSound'
  BY <1>1, BlankRecords DEF RequestSound
<1> QED
  BY <1>1, <1>3, <1>4, <1>5, <1>6, <1>7 DEF HealInv, CoreInv, KeptVerdicts, RowsTyped

\* reconcile_unfinished_self_healing closes what is open.
LEMMA ReconcileStep ==
    ASSUME NEW k, HealInv, Heal(k)!Reconcile
    PROVE  HealInv' /\ KeptVerdicts
<1> DEFINE S == Heal(k)!Unfinished(DOMAIN acts)
<1>1. /\ boot.pc = "reconcile" /\ boot' = [boot EXCEPT !.pc = "prune"]
      /\ acts' = Heal(k)!Close(acts, S) /\ eps' = [i \in DOMAIN eps |-> Heal(k)!Interrupted(eps[i])]
      /\ UNCHANGED <<scene, ep, last, pruned, bt>>
  BY DEF Heal!Reconcile, Heal!coordinator, Heal!callers
<1>2. \A i \in DOMAIN acts : i \in S <=> acts[i].state = "open"
  BY DEF Heal!Unfinished
<1> HIDE DEF S
<1>3. /\ acts' \in Seq(Actions) /\ Len(acts') = Len(acts) /\ DOMAIN acts' = DOMAIN acts
      /\ \A i \in DOMAIN acts :
             /\ acts'[i].ep = acts[i].ep /\ acts'[i].kind = acts[i].kind
             /\ acts'[i].state = IF i \in S THEN "closed" ELSE acts[i].state
  BY <1>1, CloseShape DEF HealInv, CoreInv, RowsTyped
<1>4. /\ eps' \in Seq(Verdicts) /\ Len(eps') = Len(eps) /\ DOMAIN eps' = DOMAIN eps
      /\ \A i \in DOMAIN eps : eps'[i] = IF eps[i] = "open" THEN "failed" ELSE eps[i]
  <2>1. \A i \in DOMAIN eps : eps[i] \in Verdicts
    BY DEF HealInv, CoreInv, RowsTyped
  <2>2. /\ eps' = [i \in DOMAIN eps |-> eps'[i]]
        /\ \A i \in DOMAIN eps : eps'[i] = IF eps[i] = "open" THEN "failed" ELSE eps[i]
    BY <1>1 DEF Heal!Interrupted
  <2>3. DOMAIN eps = 1 .. Len(eps) /\ Len(eps) \in Nat
    BY DEF HealInv, CoreInv, RowsTyped
  <2>4. \A i \in DOMAIN eps : eps'[i] \in Verdicts
    BY <2>1, <2>2 DEF Verdicts
  <2>5. eps' \in [1 .. Len(eps) -> Verdicts]
    BY <2>2, <2>3, <2>4
  <2> QED
    BY <2>2, <2>3, <2>5
<1>5. boot' \in [pc : {"up", "reconcile", "prune"}, count : Nat] /\ boot'.pc = "prune"
  BY <1>1 DEF HealInv, CoreInv, RowsTyped
<1>6. RowsTyped'
  BY <1>1, <1>3, <1>4, <1>5 DEF HealInv, CoreInv, RowsTyped
<1>7. RowsAgree'
  <2>1. ep'.id = 0 /\ ep'.active = 0
    BY <1>1 DEF HealInv, CoreInv, OpenRows
  <2>2. \A i \in DOMAIN acts' : acts'[i].ep \in DOMAIN eps'
    BY <1>3, <1>4 DEF HealInv, CoreInv, RowsAgree
  <2>3. \A i \in DOMAIN acts' : acts'[i].state = "pruned" => eps'[acts'[i].ep] = "pruned"
    BY <1>2, <1>3, <1>4 DEF HealInv, CoreInv, RowsAgree
  <2> QED
    BY <1>3, <1>4, <2>1, <2>2, <2>3 DEF RowsAgree
<1>8. OpenRows'
  BY <1>1, <1>2, <1>3, <1>4, <1>5 DEF HealInv, CoreInv, OpenRows
<1>9. NoSpin' /\ RequestSound'
  BY <1>1, <1>3 DEF HealInv, CoreInv, NoSpin, RequestSound
<1> QED
  BY <1>4, <1>6, <1>7, <1>8, <1>9 DEF HealInv, CoreInv, KeptVerdicts

\* The module counts with the Cardinality of FiniteSets.
LEMMA SameCount == ASSUME NEW k, NEW S PROVE Heal(k)!Cardinality(S) = Cardinality(S)
  BY Zenon DEF Heal!Cardinality, Cardinality

\* Parts of a set of rows are counted together.
LEMMA CountParts ==
    ASSUME NEW N \in Nat, NEW A \in SUBSET (1 .. N), NEW B \in SUBSET (1 .. N), A \cap B = {}
    PROVE  /\ Cardinality(A) \in Nat /\ Cardinality(B) \in Nat
           /\ Cardinality(A \cup B) = Cardinality(A) + Cardinality(B)
<1>1. IsFiniteSet(1 .. N)
  BY FS_Interval
<1>2. IsFiniteSet(A) /\ IsFiniteSet(B)
  BY <1>1, FS_Subset
<1>3. Cardinality(A) \in Nat /\ Cardinality(B) \in Nat
  BY <1>2, FS_CardinalityType
<1>4. Cardinality(A \cup B) = Cardinality(A) + Cardinality(B) - Cardinality(A \cap B)
  BY <1>2, FS_Union
<1> QED
  <2>1. Cardinality(A \cap B) = 0
    BY FS_EmptySet
  <2> QED
    BY <1>3, <1>4, <2>1

\* prune_self_healing counts what it deletes.
LEMMA PruneStep ==
    ASSUME NEW k, HealInv, NEW cutoff \in 0 .. Len(eps), Heal(k)!Prune(cutoff)
    PROVE  HealInv' /\ KeptVerdicts /\ Heal(k)!KeepsTotals
<1> DEFINE gone == {i \in 1 .. cutoff : eps[i] \in {"success", "failed"}}
           with == {i \in DOMAIN acts : acts[i].ep \in gone}
<1>1. /\ boot.pc = "prune" /\ boot' = [boot EXCEPT !.pc = "up"]
      /\ eps' = [i \in DOMAIN eps |-> IF i \in gone THEN "pruned" ELSE eps[i]]
      /\ acts' = [i \in DOMAIN acts |-> IF i \in with THEN [acts[i] EXCEPT !.state = "pruned"] ELSE acts[i]]
      /\ pruned' = [episodes |-> pruned.episodes + Cardinality(gone), actions |-> pruned.actions + Cardinality(with)]
      /\ UNCHANGED <<scene, ep, last, bt>>
  BY SameCount, Zenon DEF Heal!Prune, Heal!coordinator, Heal!callers
<1>2. gone \subseteq DOMAIN eps /\ \A i \in gone : eps[i] \in {"success", "failed"}
  BY DEF HealInv, CoreInv, RowsTyped
<1>3. with \subseteq DOMAIN acts /\ \A i \in DOMAIN acts : i \in with <=> acts[i].ep \in gone
  OBVIOUS
<1> HIDE DEF gone, with
<1>4. /\ eps' \in Seq(Verdicts) /\ Len(eps') = Len(eps) /\ DOMAIN eps' = DOMAIN eps
      /\ \A i \in DOMAIN eps : eps'[i] = IF i \in gone THEN "pruned" ELSE eps[i]
  BY <1>1 DEF HealInv, CoreInv, RowsTyped, Verdicts
<1>5. /\ acts' \in Seq(Actions) /\ Len(acts') = Len(acts) /\ DOMAIN acts' = DOMAIN acts
      /\ \A i \in DOMAIN acts :
             /\ acts'[i].ep = acts[i].ep /\ acts'[i].kind = acts[i].kind
             /\ acts'[i].state = IF i \in with THEN "pruned" ELSE acts[i].state
  <2>1. \A i \in DOMAIN acts : acts[i] \in Actions
    BY DEF HealInv, CoreInv, RowsTyped
  <2>2. \A i \in DOMAIN acts : [acts[i] EXCEPT !.state = "pruned"] \in Actions
    BY <2>1, Zenon DEF Actions
  <2>3. acts' \in [1 .. Len(acts) -> Actions]
    BY <1>1, <2>1, <2>2 DEF HealInv, CoreInv, RowsTyped
  <2> QED
    BY <1>1, <2>1, <2>3 DEF Actions, HealInv, CoreInv, RowsTyped
<1>6. boot' \in [pc : {"up", "reconcile", "prune"}, count : Nat] /\ boot'.pc = "up"
  BY <1>1 DEF HealInv, CoreInv, RowsTyped
\* What goes had a verdict, and its actions were closed.
<1>7. \A i \in DOMAIN eps : eps[i] # "open"
  BY <1>1 DEF HealInv, CoreInv, OpenRows
<1>8. \A i \in with : acts[i].state = "closed"
  <2> SUFFICES ASSUME NEW i \in with PROVE acts[i].state = "closed"
    OBVIOUS
  <2>1. i \in DOMAIN acts /\ acts[i].ep \in gone /\ eps[acts[i].ep] # "pruned"
    BY <1>2, <1>3
  <2>2. acts[i].state \in {"open", "closed", "pruned"}
    <3>1. acts[i] \in Actions
      BY <2>1 DEF HealInv, CoreInv, RowsTyped
    <3> QED
      BY <3>1 DEF Actions
  <2> QED
    BY <1>1, <2>1, <2>2 DEF HealInv, CoreInv, RowsAgree, OpenRows
<1>9. /\ Cardinality(gone) \in Nat
      /\ Cardinality({i \in DOMAIN eps : eps'[i] \in {"success", "failed"}}) \in Nat
      /\ Cardinality({i \in DOMAIN eps : eps[i] \in {"success", "failed"}})
           = Cardinality(gone) + Cardinality({i \in DOMAIN eps : eps'[i] \in {"success", "failed"}})
  <2> DEFINE B == {i \in DOMAIN eps : eps'[i] \in {"success", "failed"}}
             C == {i \in DOMAIN eps : eps[i] \in {"success", "failed"}}
  <2>1. Len(eps) \in Nat /\ DOMAIN eps = 1 .. Len(eps)
    BY DEF HealInv, CoreInv, RowsTyped
  <2>2. gone \in SUBSET (1 .. Len(eps)) /\ B \in SUBSET (1 .. Len(eps)) /\ gone \cap B = {}
    BY <1>2, <1>4, <2>1
  <2>3. C = gone \cup B
    BY <1>2, <1>4
  <2> HIDE DEF B, C
  <2>4. /\ Cardinality(gone) \in Nat /\ Cardinality(B) \in Nat
        /\ Cardinality(gone \cup B) = Cardinality(gone) + Cardinality(B)
    BY <2>1, <2>2, CountParts
  <2> QED
    BY <2>3, <2>4 DEF B, C
<1>10. /\ Cardinality(with) \in Nat
       /\ Cardinality({i \in DOMAIN acts : acts'[i].state = "closed"}) \in Nat
       /\ Cardinality({i \in DOMAIN acts : acts[i].state = "closed"})
            = Cardinality(with) + Cardinality({i \in DOMAIN acts : acts'[i].state = "closed"})
  <2> DEFINE B == {i \in DOMAIN acts : acts'[i].state = "closed"}
             C == {i \in DOMAIN acts : acts[i].state = "closed"}
  <2>1. Len(acts) \in Nat /\ DOMAIN acts = 1 .. Len(acts)
    BY DEF HealInv, CoreInv, RowsTyped
  <2>2. with \in SUBSET (1 .. Len(acts)) /\ B \in SUBSET (1 .. Len(acts)) /\ with \cap B = {}
    BY <1>3, <1>5, <2>1
  <2>3. C = with \cup B
    BY <1>3, <1>5, <1>8
  <2> HIDE DEF B, C
  <2>4. /\ Cardinality(with) \in Nat /\ Cardinality(B) \in Nat
        /\ Cardinality(with \cup B) = Cardinality(with) + Cardinality(B)
    BY <2>1, <2>2, CountParts
  <2> QED
    BY <2>3, <2>4 DEF B, C
<1>11. /\ pruned.episodes \in Nat /\ pruned.actions \in Nat
       /\ pruned'.episodes = pruned.episodes + Cardinality(gone)
       /\ pruned'.actions = pruned.actions + Cardinality(with)
  BY <1>1 DEF HealInv, CoreInv, RowsTyped
<1>12. Heal(k)!KeepsTotals
  <2> DEFINE g == Cardinality(gone)
             e1 == Cardinality({i \in DOMAIN eps : eps'[i] \in {"success", "failed"}})
             e0 == Cardinality({i \in DOMAIN eps : eps[i] \in {"success", "failed"}})
             w == Cardinality(with)
             a1 == Cardinality({i \in DOMAIN acts : acts'[i].state = "closed"})
             a0 == Cardinality({i \in DOMAIN acts : acts[i].state = "closed"})
  <2>1. /\ g \in Nat /\ e1 \in Nat /\ e0 = g + e1 /\ w \in Nat /\ a1 \in Nat /\ a0 = w + a1
        /\ pruned'.episodes = pruned.episodes + g /\ pruned'.actions = pruned.actions + w
    BY <1>9, <1>10, <1>11
  <2> SUFFICES pruned'.episodes + e1 = pruned.episodes + e0 /\ pruned'.actions + a1 = pruned.actions + a0
    BY SameCount, Zenon DEF Heal!KeepsTotals
  <2> HIDE DEF g, e1, e0, w, a1, a0
  <2> QED
    BY <1>11, <2>1
<1>13. RowsTyped'
  <2>1. pruned' \in [episodes : Nat, actions : Nat]
    BY <1>1, <1>9, <1>10, <1>11
  <2> QED
    BY <1>1, <1>4, <1>5, <1>6, <2>1 DEF HealInv, CoreInv, RowsTyped
<1>14. RowsAgree'
  <2>1. ep'.id = 0 /\ ep'.active = 0
    BY <1>1 DEF HealInv, CoreInv, OpenRows
  <2>2. \A i \in DOMAIN acts' : acts'[i].ep \in DOMAIN eps'
    BY <1>4, <1>5 DEF HealInv, CoreInv, RowsAgree
  <2>3. \A i \in DOMAIN acts' : acts'[i].state = "pruned" => eps'[acts'[i].ep] = "pruned"
    BY <1>3, <1>4, <1>5 DEF HealInv, CoreInv, RowsAgree
  <2> QED
    BY <1>4, <1>5, <2>1, <2>2, <2>3, <1>13 DEF RowsAgree, RowsTyped
<1>15. OpenRows'
  <2>1. ~InProgress'
    BY <1>1 DEF HealInv, CoreInv, OpenRows, InProgress
  <2> QED
    BY <1>4, <1>6, <1>7, <2>1 DEF OpenRows
<1>16. NoSpin' /\ RequestSound'
  BY <1>1, <1>5 DEF HealInv, CoreInv, NoSpin, RequestSound
<1> QED
  BY <1>4, <1>12, <1>13, <1>14, <1>15, <1>16 DEF HealInv, CoreInv, KeptVerdicts

\* A step of the behaviour tree's service changes its request only by what the
\* coordinator answered, so the request stays sound.
LEMMA NextRequest ==
    ASSUME RequestSound, UNCHANGED scene, NEW r \in Requests, bt' = r,
           scene = "outdoor" => r.diag.action # "spin",
           scene = "outdoor" /\ r.pc \in {"replace", "replaced", "begin"} => r.kind # "spin"
    PROVE  RequestSound'
  BY DEF RequestSound

LEMMA RequestStep ==
    ASSUME NEW k, HealInv,
           NEW o \in {"diagnose", "started", "finished"}, NEW id \in 0 .. Len(eps), NEW l \in 0 .. 3,
           NEW a \in 0 .. Len(acts),
           NEW kind \in (IF o = "started" THEN ep.allowed \cup {"spin"} ELSE {"none"}),
           Heal(k)!BtRequest(o, id, a, l, kind)
    PROVE  HealInv' /\ KeptVerdicts /\ Kept /\ boot.pc = "up"
<1> DEFINE pc == IF o = "finished" THEN "finish" ELSE "diagnose"
           r == [Heal(k)!NoRequest EXCEPT !.pc = pc, !.op = o, !.ep = id, !.act = a, !.level = l, !.kind = kind,
                     !.before = ep.active, !.from = ep.level]
<1>1. bt' = r /\ UNCHANGED <<ep, last, eps, acts>> /\ Kept /\ boot.pc = "up"
  BY DEF Heal!BtRequest, Heal!coordinator, Heal!BT, Heal!Up, Kept
<1>2. ep \in Episodes /\ ep.active \in Nat /\ ep.level \in 0 .. 3 /\ ep.allowed \subseteq Measures
  BY DEF HealInv, CoreInv, RowsTyped, Episodes
<1>3. kind \in Measures /\ a \in Nat /\ id \in Nat
  BY <1>2 DEF Measures, HealInv, CoreInv, RowsTyped
<1>4. pc \in {"finish", "diagnose"}
  OBVIOUS
<1> HIDE DEF pc
<1>5. r \in Requests
  BY <1>2, <1>3, <1>4, BlankRecords, Zenon DEF Requests
<1>6. r.pc = pc /\ r.diag = Heal(k)!NoRequest.diag
  BY BlankRecords DEF Requests
<1> HIDE DEF r
<1>7. r.diag.action # "spin" /\ r.pc \notin {"replace", "replaced", "begin"}
  BY <1>4, <1>6, BlankRecords
<1>8. RequestSound'
  BY <1>1, <1>5, <1>7, NextRequest DEF HealInv, Kept
<1>9. CoreInv'
  BY <1>1 DEF HealInv, CoreInv, RowsTyped, RowsAgree, OpenRows, InProgress, NoSpin, Kept
<1> QED
  BY <1>1, <1>8, <1>9 DEF HealInv, KeptVerdicts

LEMMA BtDiagnoseStep ==
    ASSUME NEW k, HealInv, Samples \in Nat, NEW e, Heal(k)!BtDiagnose(e)
    PROVE  HealInv' /\ KeptVerdicts /\ Kept /\ boot.pc = "up"
<1>0. Kept /\ boot.pc = "up"
  BY DEF Heal!BtDiagnose, Heal!BT, Heal!Up, Kept
<1>1. bt \in Requests /\ bt.level \in 0 .. 3 /\ "stuck" \in Faults
  BY DEF HealInv, RequestSound, Requests, Faults
<1>2. ASSUME NEW d \in Diagnoses, scene = "outdoor" => d.action # "spin",
             bt' = [bt EXCEPT !.pc = Heal(k)!After(d), !.diag = d]
      PROVE  RequestSound'
  <2> DEFINE pc == Heal(k)!After(d)
             r == [bt EXCEPT !.pc = pc, !.diag = d]
  <2>1. pc \in {"advance", "authorize", "over", "select", "idle"}
    BY DEF Heal!After
  <2> HIDE DEF pc
  <2>2. r \in Requests
    BY <1>1, <2>1, Zenon DEF Requests
  <2>3. r.pc = pc /\ r.diag = d
    BY <1>1 DEF Requests
  <2>4. bt' = r
    BY <1>2 DEF pc
  <2> HIDE DEF r
  <2> QED
    BY <1>0, <1>2, <2>1, <2>2, <2>3, <2>4, NextRequest DEF HealInv, Kept
<1>3. CASE Heal(k)!BtDone /\ UNCHANGED <<ep, last, eps, acts>>
  <2>1. RequestSound'
    BY <1>0, <1>3, BlankRecords DEF Heal!BtDone, RequestSound
  <2> QED
    BY <1>0, <1>3, <2>1
       DEF HealInv, CoreInv, RowsTyped, RowsAgree, OpenRows, InProgress, NoSpin, Kept, KeptVerdicts
<1>4. CASE /\ UNCHANGED <<ep, last, eps, acts>>
           /\ bt' = [bt EXCEPT !.pc = Heal(k)!After(last), !.diag = last]
  <2>1. RequestSound'
    BY <1>2, <1>4 DEF HealInv, CoreInv, RowsTyped, NoSpin
  <2> QED
    BY <1>0, <1>4, <2>1
       DEF HealInv, CoreInv, RowsTyped, RowsAgree, OpenRows, InProgress, NoSpin, Kept, KeptVerdicts
<1>5. CASE /\ Heal(k)!Diagnose("stuck", e, bt.level)
           /\ bt' = [bt EXCEPT !.pc = Heal(k)!After(Heal(k)!Diagnosis("stuck", e, bt.level)),
                               !.diag = Heal(k)!Diagnosis("stuck", e, bt.level)]
  <2>1. CoreInv' /\ KeptVerdicts
    BY <1>0, <1>1, <1>5, DiagnoseStep DEF HealInv
  <2> DEFINE d == Heal(k)!Diagnosis("stuck", e, bt.level)
  <2>2. d \in Diagnoses /\ (scene = "outdoor" => d.action # "spin")
    BY <1>1, DiagnosisShape DEF HealInv
  <2>3. bt' = [bt EXCEPT !.pc = Heal(k)!After(d), !.diag = d]
    BY <1>5
  <2> HIDE DEF d
  <2>4. RequestSound'
    BY <1>2, <2>2, <2>3
  <2> QED
    BY <1>0, <2>1, <2>4 DEF HealInv
<1> QED
  BY <1>0, <1>3, <1>4, <1>5 DEF Heal!BtDiagnose, Heal!coordinator

\* The other steps of the service.
LEMMA BtStep ==
    ASSUME NEW k, HealInv,
           \/ Heal(k)!BtFinish \/ Heal(k)!BtAdvance \/ Heal(k)!BtAuthorize \/ Heal(k)!BtReplace
           \/ Heal(k)!BtReplaced \/ Heal(k)!BtSelect \/ Heal(k)!BtBegin \/ Heal(k)!BtOver
    PROVE  HealInv' /\ KeptVerdicts /\ Kept /\ boot.pc = "up"
<1>0. Kept /\ boot.pc = "up"
  BY DEF Heal!BtFinish, Heal!BtAdvance, Heal!BtAuthorize, Heal!BtReplace, Heal!BtReplaced,
         Heal!BtSelect, Heal!BtBegin, Heal!BtOver, Heal!BT, Heal!Up, Kept
<1>1. /\ bt \in Requests /\ bt.level \in 0 .. 3 /\ bt.kind \in Measures
      /\ bt.diag \in Diagnoses /\ bt.diag.level \in 0 .. 3 /\ bt.diag.action \in Measures
  BY DEF HealInv, RequestSound, Requests, Diagnoses
<1>2. ep.active \in Nat /\ ep.allowed \subseteq Measures
  BY DEF HealInv, CoreInv, RowsTyped, Episodes
\* Requests that end, or go on with another step.
<1>3. ASSUME bt' = Heal(k)!NoRequest PROVE RequestSound'
  BY <1>0, <1>3, BlankRecords DEF RequestSound
<1>4. ASSUME NEW pc \in {"diagnose", "over", "select", "replace", "replaced", "begin"}, NEW x \in Nat,
             bt' = [bt EXCEPT !.pc = pc, !.act = x],
             scene = "outdoor" /\ pc \in {"replace", "replaced", "begin"} => bt.kind # "spin"
      PROVE  RequestSound'
  <2> DEFINE r == [bt EXCEPT !.pc = pc, !.act = x]
  <2>1. r \in Requests
    BY <1>1, Zenon DEF Requests
  <2>2. r.pc = pc /\ r.diag = bt.diag /\ r.kind = bt.kind
    BY <1>1 DEF Requests
  <2> HIDE DEF r
  <2>3. bt' = r
    BY <1>4 DEF r
  <2> QED
    BY <1>0, <1>4, <2>1, <2>2, <2>3, NextRequest DEF HealInv, RequestSound, Kept
<1>5. ASSUME NEW pc, bt' = [bt EXCEPT !.pc = pc]
      PROVE  bt' = [bt EXCEPT !.pc = pc, !.act = bt.act] /\ bt.act \in Nat
  BY <1>1, <1>5 DEF Requests
<1>6. ASSUME UNCHANGED <<ep, last, eps, acts>> PROVE CoreInv' /\ KeptVerdicts
  BY <1>0, <1>6 DEF HealInv, CoreInv, RowsTyped, RowsAgree, OpenRows, InProgress, NoSpin, Kept, KeptVerdicts
<1>7. CASE Heal(k)!BtFinish
  <2>1. CoreInv' /\ KeptVerdicts
    BY <1>0, <1>7, FinishStep DEF Heal!BtFinish, HealInv
  <2>2. RequestSound'
    BY <1>4, <1>5, <1>7 DEF Heal!BtFinish, Heal!BtGoto
  <2> QED
    BY <1>0, <2>1, <2>2 DEF HealInv
<1>8. CASE Heal(k)!BtAdvance
  <2>1. CoreInv' /\ KeptVerdicts
    BY <1>0, <1>8, FinishStep DEF Heal!BtAdvance, HealInv
  <2>2. RequestSound'
    <3>1. CASE bt' = [bt EXCEPT !.pc = "over"]
      BY <1>4, <1>5, <3>1
    <3>2. CASE bt' = [bt EXCEPT !.pc = "select"]
      BY <1>4, <1>5, <3>2
    <3> QED
      BY <1>8, <3>1, <3>2 DEF Heal!BtAdvance, Heal!BtGoto
  <2> QED
    BY <1>0, <2>1, <2>2 DEF HealInv
<1>9. CASE Heal(k)!BtAuthorize
  <2>1. UNCHANGED <<ep, last, eps, acts>>
    BY <1>9 DEF Heal!BtAuthorize, Heal!coordinator
  <2>2. ASSUME bt.kind \in ep.allowed, bt' = [bt EXCEPT !.pc = "replace"] PROVE RequestSound'
    BY <1>4, <1>5, <2>2 DEF HealInv, CoreInv, NoSpin
  <2>3. ASSUME bt' = Heal(k)!NoRequest PROVE RequestSound'
    BY <1>3, <2>3
  <2>4. RequestSound'
    BY <1>9, <2>2, <2>3 DEF Heal!BtAuthorize, Heal!Authorized
  <2> QED
    BY <1>0, <1>6, <2>1, <2>4 DEF HealInv
<1>10. CASE Heal(k)!BtReplace
  <2>1. UNCHANGED <<ep, last, eps, acts>>
    BY <1>10 DEF Heal!BtReplace, Heal!coordinator
  <2>2. scene = "outdoor" => bt.kind # "spin"
    BY <1>10 DEF Heal!BtReplace, HealInv, RequestSound
  <2>3. ASSUME bt' = [bt EXCEPT !.act = ep.active, !.pc = "replaced"] PROVE RequestSound'
    <3>1. bt' = [bt EXCEPT !.pc = "replaced", !.act = ep.active]
      BY <1>1, <2>3 DEF Requests
    <3> QED
      BY <1>2, <1>4, <2>2, <3>1
  <2>4. ASSUME bt' = [bt EXCEPT !.act = ep.active, !.pc = "begin"] PROVE RequestSound'
    <3>1. bt' = [bt EXCEPT !.pc = "begin", !.act = ep.active]
      BY <1>1, <2>4 DEF Requests
    <3> QED
      BY <1>2, <1>4, <2>2, <3>1
  <2>5. RequestSound'
    BY <1>10, <2>3, <2>4 DEF Heal!BtReplace
  <2> QED
    BY <1>0, <1>6, <2>1, <2>5 DEF HealInv
<1>11. CASE Heal(k)!BtReplaced
  <2>1. CoreInv' /\ KeptVerdicts
    BY <1>0, <1>11, FinishStep DEF Heal!BtReplaced, HealInv
  <2>2. scene = "outdoor" => bt.kind # "spin"
    BY <1>11 DEF Heal!BtReplaced, HealInv, RequestSound
  <2>3. RequestSound'
    BY <1>4, <1>5, <1>11, <2>2 DEF Heal!BtReplaced, Heal!BtGoto
  <2> QED
    BY <1>0, <2>1, <2>3 DEF HealInv
<1>12. CASE Heal(k)!BtSelect
  <2>1. UNCHANGED <<ep, last, eps, acts>>
    BY <1>12 DEF Heal!BtSelect, Heal!coordinator
  <2>2. ASSUME bt' = [bt EXCEPT !.pc = "begin", !.level = bt.diag.level, !.kind = bt.diag.action] PROVE RequestSound'
    <3> DEFINE r == [bt EXCEPT !.pc = "begin", !.level = bt.diag.level, !.kind = bt.diag.action]
    <3>1. r \in Requests
      BY <1>1, Zenon DEF Requests
    <3>2. r.diag = bt.diag /\ r.kind = bt.diag.action
      BY <1>1 DEF Requests
    <3> HIDE DEF r
    <3>3. bt' = r
      BY <2>2 DEF r
    <3> QED
      BY <1>0, <3>1, <3>2, <3>3, NextRequest DEF HealInv, RequestSound, Kept
  <2>3. ASSUME bt' = Heal(k)!NoRequest PROVE RequestSound'
    BY <1>3, <2>3
  <2>4. RequestSound'
    BY <1>12, <2>2, <2>3 DEF Heal!BtSelect
  <2> QED
    BY <1>0, <1>6, <2>1, <2>4 DEF HealInv
<1>13. CASE Heal(k)!BtBegin
  <2>1. scene = "outdoor" => bt.kind # "spin"
    BY <1>13 DEF Heal!BtBegin, HealInv, RequestSound
  <2>2. CoreInv' /\ KeptVerdicts
    BY <1>0, <1>1, <1>13, <2>1, BeginStep DEF Heal!BtBegin, HealInv
  <2>3. Heal(k)!Begun \in Nat
    BY DEF Heal!Begun, HealInv, CoreInv, RowsTyped
  <2>4. ASSUME bt' = [bt EXCEPT !.pc = "over", !.act = Heal(k)!Begun] PROVE RequestSound'
    BY <1>4, <2>3, <2>4
  <2>5. ASSUME bt' = Heal(k)!NoRequest PROVE RequestSound'
    BY <1>3, <2>5
  <2>6. RequestSound'
    BY <1>13, <2>4, <2>5 DEF Heal!BtBegin
  <2> QED
    BY <1>0, <2>2, <2>6 DEF HealInv
<1>14. CASE Heal(k)!BtOver
  <2>1. CoreInv' /\ KeptVerdicts
    BY <1>0, <1>14, FinishStep DEF Heal!BtOver, HealInv
  <2>2. RequestSound'
    BY <1>3, <1>14 DEF Heal!BtOver, Heal!BtDone
  <2> QED
    BY <1>0, <2>1, <2>2 DEF HealInv
<1> QED
  BY <1>7, <1>8, <1>9, <1>10, <1>11, <1>12, <1>13, <1>14

\* The localization callback, the recovery worker and the task events leave the
\* request of the behaviour tree alone.
LEMMA WorkerStep ==
    ASSUME NEW k, HealInv, Samples \in Nat,
           \/ \E e \in k.evidence : Heal(k)!LossDiagnose(e) \/ Heal(k)!WorkerDiagnose(e)
                                    \/ Heal(k)!WorkerLevelTwo(e)
           \/ Heal(k)!LossDecide \/ Heal(k)!BeginLevelZero \/ Heal(k)!BeginRelocalize
           \/ Heal(k)!BeginSearch \/ Heal(k)!BeginGlobal
           \/ Heal(k)!EndLevelZero \/ Heal(k)!EndRelocalize \/ Heal(k)!EndSearch \/ Heal(k)!EndGlobal
           \/ Heal(k)!WorkerComplete
    PROVE  HealInv' /\ KeptVerdicts /\ Kept /\ boot.pc = "up"
<1>0. Kept /\ boot.pc = "up" /\ UNCHANGED bt
  BY DEF Heal!LossDiagnose, Heal!WorkerDiagnose, Heal!WorkerLevelTwo, Heal!LossDecide, Heal!BeginLevelZero,
         Heal!BeginRelocalize, Heal!BeginSearch, Heal!BeginGlobal, Heal!WorkerBegin, Heal!EndLevelZero,
         Heal!EndRelocalize, Heal!EndSearch, Heal!EndGlobal, Heal!WorkerEnd, Heal!WorkerComplete,
         Heal!Edge, Heal!Up, Kept
<1>1. RequestSound'
  BY <1>0 DEF HealInv, RequestSound, Kept
<1>2. ASSUME UNCHANGED <<ep, last, eps, acts>> PROVE CoreInv' /\ KeptVerdicts
  BY <1>0, <1>2 DEF HealInv, CoreInv, RowsTyped, RowsAgree, OpenRows, InProgress, NoSpin, Kept, KeptVerdicts
<1>3. "lost" \in Faults /\ 0 \in 0 .. 3 /\ 1 \in 0 .. 3 /\ 2 \in 0 .. 3 /\ 3 \in 0 .. 3
  BY DEF Faults
<1>4. ASSUME NEW e, Heal(k)!LossDiagnose(e) \/ Heal(k)!WorkerDiagnose(e) \/ Heal(k)!WorkerLevelTwo(e)
      PROVE  CoreInv' /\ KeptVerdicts
  <2>1. CASE Heal(k)!Diagnose("lost", e, 0) \/ Heal(k)!Diagnose("lost", e, 2)
    BY <1>0, <1>3, <2>1, DiagnoseStep DEF HealInv
  <2>2. CASE UNCHANGED <<ep, last, eps, acts>>
    BY <1>2, <2>2
  <2> QED
    BY <1>4, <2>1, <2>2 DEF Heal!LossDiagnose, Heal!WorkerDiagnose, Heal!WorkerLevelTwo, Heal!coordinator
<1>5. CASE Heal(k)!LossDecide \/ Heal(k)!WorkerComplete
  <2>1. ASSUME UNCHANGED last, Heal(k)!Complete("failed") \/ Heal(k)!Complete("success")
        PROVE  CoreInv' /\ KeptVerdicts
    BY <1>0, <2>1, CompleteStep DEF HealInv
  <2>2. CoreInv' /\ KeptVerdicts
    BY <1>2, <1>5, <2>1 DEF Heal!LossDecide, Heal!WorkerComplete
  <2> QED
    BY <1>0, <1>1, <2>2 DEF HealInv
<1>6. CASE Heal(k)!BeginLevelZero \/ Heal(k)!BeginRelocalize \/ Heal(k)!BeginSearch \/ Heal(k)!BeginGlobal
  <2>1. last.action \in Measures /\ (scene = "outdoor" => last.action # "spin")
    BY DEF HealInv, CoreInv, RowsTyped, NoSpin, Diagnoses
  <2>2. UNCHANGED <<eps, last>>
    BY <1>6
       DEF Heal!BeginLevelZero, Heal!BeginRelocalize, Heal!BeginSearch, Heal!BeginGlobal, Heal!WorkerBegin
  <2>3. \E l \in 0 .. 3, kind \in Measures :
            (scene = "outdoor" => kind # "spin") /\ Heal(k)!BeginAction(l, kind)
    <3>1. {"relocalize", "search", "global"} \subseteq Measures
      BY DEF Measures
    <3> QED
      BY <1>3, <1>6, <2>1, <3>1 DEF Heal!BeginLevelZero, Heal!BeginRelocalize, Heal!BeginSearch,
                                    Heal!BeginGlobal, Heal!WorkerBegin
  <2>4. CoreInv' /\ KeptVerdicts
    BY <1>0, <2>2, <2>3, BeginStep DEF HealInv
  <2> QED
    BY <1>0, <1>1, <2>4 DEF HealInv
<1>7. CASE Heal(k)!EndLevelZero \/ Heal(k)!EndRelocalize \/ Heal(k)!EndSearch \/ Heal(k)!EndGlobal
  <2>1. ASSUME UNCHANGED <<eps, last>>, Heal(k)!FinishAction(edge.act) PROVE CoreInv' /\ KeptVerdicts
    BY <1>0, <2>1, FinishStep DEF HealInv
  <2>2. CoreInv' /\ KeptVerdicts
    BY <1>2, <1>7, <2>1
       DEF Heal!EndLevelZero, Heal!EndRelocalize, Heal!EndSearch, Heal!EndGlobal, Heal!WorkerEnd
  <2> QED
    BY <1>0, <1>1, <2>2 DEF HealInv
<1> QED
  BY <1>0, <1>1, <1>4, <1>5, <1>6, <1>7 DEF HealInv

LEMMA EventStep ==
    ASSUME NEW k, HealInv,
           Heal(k)!EventSnapshot \/ Heal(k)!EventFinish \/ \E v \in {"success", "failed"} : Heal(k)!EventComplete(v)
    PROVE  HealInv' /\ KeptVerdicts /\ Kept /\ boot.pc = "up"
<1>0. Kept /\ boot.pc = "up" /\ UNCHANGED <<bt, last>>
  BY DEF Heal!EventSnapshot, Heal!EventFinish, Heal!EventComplete, Heal!Events, Heal!Up, Kept
<1>1. RequestSound'
  BY <1>0 DEF HealInv, RequestSound, Kept
<1>2. CASE Heal(k)!EventSnapshot
  BY <1>0, <1>1, <1>2 DEF Heal!EventSnapshot, HealInv, CoreInv, RowsTyped, RowsAgree, OpenRows, InProgress,
                          NoSpin, Kept, KeptVerdicts
<1>3. CASE Heal(k)!EventFinish
  BY <1>0, <1>1, <1>3, FinishStep DEF Heal!EventFinish, HealInv
<1>4. CASE \E v \in {"success", "failed"} : Heal(k)!EventComplete(v)
  BY <1>0, <1>1, <1>4, CompleteStep DEF Heal!EventComplete, HealInv
<1> QED
  BY <1>2, <1>3, <1>4

LEMMA HealInit == ASSUME NEW k, Heal(k)!Init PROVE HealInv
<1>1. /\ ep = Heal(k)!NoEpisode /\ last = Heal(k)!NoDiagnosis /\ eps = << >> /\ acts = << >>
      /\ pruned = [episodes |-> 0, actions |-> 0] /\ bt = Heal(k)!NoRequest
      /\ boot = [pc |-> "up", count |-> 0]
  BY DEF Heal!Init
<1>2. RowsTyped
  BY <1>1, BlankRecords DEF RowsTyped
<1>3. RowsAgree /\ OpenRows /\ NoSpin
  BY <1>1, BlankRecords DEF RowsAgree, OpenRows, NoSpin, InProgress
<1>4. RequestSound
  BY <1>1, BlankRecords DEF RequestSound
<1> QED
  BY <1>2, <1>3, <1>4 DEF HealInv, CoreInv

\* Every step of self healing keeps the invariant, the verdicts and the totals.
LEMMA HealStep ==
    ASSUME NEW k, HealInv, Samples \in Nat, [Heal(k)!Next]_(Heal(k)!vars)
    PROVE  HealInv' /\ Heal(k)!KeepsVerdict /\ Heal(k)!KeepsTotals
<1>1. KeptVerdicts => Heal(k)!KeepsVerdict
  BY DEF KeptVerdicts, Heal!KeepsVerdict
<1>2. boot.pc = "up" => Heal(k)!KeepsTotals
  BY DEF Heal!KeepsTotals
<1>3. CASE \E o \in {"diagnose", "started", "finished"}, id \in 0 .. Len(eps), l \in 0 .. 3 :
               \E a \in 0 .. Len(acts), kind \in (IF o = "started" THEN ep.allowed \cup {"spin"} ELSE {"none"}) :
                   Heal(k)!BtRequest(o, id, a, l, kind)
  BY <1>1, <1>2, <1>3, RequestStep
<1>4. CASE \E e \in k.evidence : Heal(k)!BtDiagnose(e)
  BY <1>1, <1>2, <1>4, BtDiagnoseStep
<1>5. CASE \/ Heal(k)!BtFinish \/ Heal(k)!BtAdvance \/ Heal(k)!BtAuthorize \/ Heal(k)!BtReplace
           \/ Heal(k)!BtReplaced \/ Heal(k)!BtSelect \/ Heal(k)!BtBegin \/ Heal(k)!BtOver
  BY <1>1, <1>2, <1>5, BtStep
<1>6. CASE \/ \E e \in k.evidence : Heal(k)!LossDiagnose(e) \/ Heal(k)!WorkerDiagnose(e)
                                    \/ Heal(k)!WorkerLevelTwo(e)
           \/ Heal(k)!LossDecide \/ Heal(k)!BeginLevelZero \/ Heal(k)!BeginRelocalize
           \/ Heal(k)!BeginSearch \/ Heal(k)!BeginGlobal
           \/ Heal(k)!EndLevelZero \/ Heal(k)!EndRelocalize \/ Heal(k)!EndSearch \/ Heal(k)!EndGlobal
           \/ Heal(k)!WorkerComplete
  BY <1>1, <1>2, <1>6, WorkerStep
<1>7. CASE Heal(k)!EventSnapshot \/ Heal(k)!EventFinish
           \/ \E v \in {"success", "failed"} : Heal(k)!EventComplete(v)
  BY <1>1, <1>2, <1>7, EventStep
<1>8. CASE Heal(k)!Crash
  <2>1. UNCHANGED <<eps, acts, pruned>>
    BY <1>8 DEF Heal!Crash, Heal!rows
  <2> QED
    BY <1>1, <1>8, <2>1, CrashStep DEF Heal!KeepsTotals
<1>9. CASE Heal(k)!Reconcile
  <2>1. Heal(k)!KeepsTotals
    BY <1>9 DEF Heal!Reconcile, Heal!KeepsTotals
  <2> QED
    BY <1>1, <1>9, <2>1, ReconcileStep
<1>10. CASE \E cutoff \in 0 .. Len(eps) : Heal(k)!Prune(cutoff)
  BY <1>1, <1>10, PruneStep
<1>11. CASE UNCHANGED Heal(k)!vars
  <2>1. UNCHANGED <<scene, ep, last, eps, acts, pruned, bt, boot>>
    BY <1>11 DEF Heal!vars, Heal!coordinator, Heal!rows, Heal!callers
  <2>2. HealInv'
    BY <2>1 DEF HealInv, CoreInv, RowsTyped, RowsAgree, OpenRows, InProgress, NoSpin, RequestSound
  <2> QED
    BY <2>1, <2>2, <1>1 DEF Heal!KeepsTotals, KeptVerdicts
<1> QED
  BY <1>3, <1>4, <1>5, <1>6, <1>7, <1>8, <1>9, <1>10, <1>11 DEF Heal!Next

\* The invariant says what is promised of the rows.
LEMMA HealSound ==
    ASSUME NEW k, HealInv
    PROVE  Heal(k)!TypeOK /\ Heal(k)!OneOpenEpisode /\ Heal(k)!NoSpinOutdoors
<1>1. Heal(k)!TypeOK
  BY DEF HealInv, CoreInv, RowsTyped, RowsAgree, Episodes, Heal!TypeOK
<1>2. Heal(k)!OneOpenEpisode
  BY DEF HealInv, CoreInv, OpenRows, InProgress, Heal!OneOpenEpisode, Heal!Active
<1>3. Heal(k)!NoSpinOutdoors
  BY DEF HealInv, CoreInv, NoSpin, Heal!NoSpinOutdoors, Heal!Outdoor
<1> QED
  BY <1>1, <1>2, <1>3
-----------------------------------------------------------------------------
(* Localization operations, for any record k of their bounds. *)

\* Arithmetic that the bounds on the number of candidates need.
LEMMA OneLess == \A a1, b1, c1 \in Nat : a1 + 1 = b1 + c1 + 1 => a1 = b1 + c1
  OBVIOUS
LEMMA FitsWithin == \A a, b, c, d, e \in Nat : a <= b + c /\ c <= d /\ b + d <= e => a <= e
  OBVIOUS
LEMMA StillFits == \A a, b, c, d, e, f \in Nat : a <= b + c /\ c + d <= e /\ b + e <= f => a + d <= f
  OBVIOUS

Poses == {"none", "official", "probe", "global"}
Searching == {"loop", "armed", "probing", "rank", "restore", "restoring", "restored"}
Looping == {"loop", "armed", "probing"}
Committing == {"commit", "carmed", "committing"}
Steps == {"none", "begin", "globalwait", "rtkprobe", "rtkcall", "rtkwait", "ended"} \cup Searching \cup Committing
Closed == {"skipped", "failed", "rejected", "accepted"}
Marks == Closed \cup {"waiting", "verifying", "qualified", "committing"}
Outcomes == {"none", "accepted", "failed", "handoff_failed", "superseded"}
\* Where a caller is.
Posts == {"idle", "scoped", "running", "spawned", "search", "seed", "seeding", "global", "globaling", "retry", "leaving",
          "starting", "reused", "correcting", "gate", "released", "failed"}
SearchStages == {"trusted", "origin", "route", "quick", "bounded"}
Stages == SearchStages \cup {"global", "pose", "rtk"}

\* The plans of the code: what a search still has to do is one of them too.
Planned(k) == Locate(k)!Progressive \cup {<<"pose">>, <<"rtk">>, <<"bounded">>, <<"quick", "global">>}

\* Bounds of a scenario: a stage has candidates, and the plans are the code's.
LocateLimits(k) ==
    /\ k.threads \subseteq {"oper", "auto", "start"} /\ k.n \in Nat \ {0}
    /\ k.oper \subseteq Planned(k) /\ k.search \subseteq Planned(k)

Attempts(k) == [st : Marks, elig : BOOLEAN, mat : k.matches \cup {Locate(k)!NoMatch}]
Operations(k) ==
    [pc : Steps, plan : Planned(k) \cup {<< >>}, many : BOOLEAN, att : Seq(Attempts(k)), base : Nat,
     i : Nat, win : Nat, snap : Poses, saved : BOOLEAN, res : Outcomes]

\* Candidates of a stage, and of it and the stages after it.
StageSize(k, s) == IF s \in {"trusted", "pose"} THEN 1 ELSE k.n
Needed(k, s) ==
    IF s = "trusted" THEN 1 + 2 * k.n ELSE IF s = "origin" THEN 2 * k.n
    ELSE IF s \in {"global", "rtk"} THEN 0 ELSE StageSize(k, s)

AllClosed(att) == \A j \in DOMAIN att : att[j].st \in Closed

\* Between two stages nothing is open; within one only its own candidates, and the
\* one being verified or committed is the one the operation is at.
OpenCandidates(o) ==
    /\ \/ o.pc \in {"none", "begin", "restore", "restoring", "restored", "globalwait", "rtkprobe", "rtkcall", "rtkwait"}
       \/ o.pc = "ended" /\ o.res # "superseded"
       => AllClosed(o.att)
    /\ o.pc \in Looping \cup {"rank"} => \A j \in DOMAIN o.att :
           \/ o.att[j].st \in Closed
           \/ j > o.base /\ o.att[j].st = "waiting"
           \/ j > o.base /\ o.att[j].st = "qualified" /\ o.att[j].elig
           \/ o.pc \in {"armed", "probing"} /\ j = o.base + o.i /\ o.att[j].st = "verifying"
    /\ o.pc \in Committing =>
           /\ o.win \in DOMAIN o.att /\ o.win > o.base
           /\ \A j \in DOMAIN o.att : j # o.win => o.att[j].st \in Closed

\* The list of candidates has room for those of the stages to come, and the
\* operation is at one of its stage.
RoomLeft(k, o) ==
    LET s == o.plan[1] IN
    /\ o.pc # "none" => o.plan \in Planned(k)
    /\ o.pc \in Searching => s \in SearchStages
    /\ o.pc \in Committing => s \in SearchStages \cup {"pose"}
    /\ Len(o.att) <= 1 + 2 * k.n
    /\ o.pc = "begin" => Len(o.att) + Needed(k, s) <= 1 + 2 * k.n
    /\ o.pc = "begin" /\ s = "pose" => o.base = 0
    /\ o.pc \in Searching \cup Committing =>
           o.base + Needed(k, s) <= 1 + 2 * k.n /\ Len(o.att) <= o.base + StageSize(k, s)
    /\ o.pc \in Looping =>
           /\ o.i \in 1 .. StageSize(k, s)
           /\ s # "route" => Len(o.att) = o.base + StageSize(k, s)
           /\ s = "route" => Len(o.att) + 1 = o.base + o.i + (IF o.pc = "loop" THEN 0 ELSE 1)

OperationSound(k, o) == o \in Operations(k) /\ OpenCandidates(o) /\ RoomLeft(k, o)

LocateTyped(k) ==
    /\ newest \in k.threads \cup {"nobody"}
    /\ frozen \in BOOLEAN /\ lost \in BOOLEAN /\ latch \in BOOLEAN /\ task \in BOOLEAN
    /\ trusted \in Poses /\ belief \in Poses
    /\ drv \in [k.threads -> Posts]
    /\ depth = IF "oper" \in k.threads /\ drv["oper"] # "idle" THEN 1 ELSE 0

OperationsSound(k) ==
    /\ op \in [k.threads -> Operations(k)]
    /\ \A t \in k.threads : OperationSound(k, op[t])

\* A superseded operation that has moved the pose is at a check, or has ended.
StrayStops(k) ==
    /\ stray \in [k.threads -> 0 .. 1]
    /\ \A t \in k.threads : stray[t] = 1 =>
           /\ newest # t
           /\ op[t].pc \in {"probing", "restored", "committing", "globalwait", "rtkwait", "ended"}

\* An operator's bounded search, without another thread, keeps the trusted pose
\* frozen where it found it until the pose is back.
SearchRestores(k) ==
    k.threads = {"oper"} =>
        LET o == op["oper"] IN
        o.pc # "none" /\ o.plan[1] = "bounded" =>
            /\ o.pc \notin {"globalwait", "rtkprobe", "rtkcall", "rtkwait"}
            /\ o.pc \in Searching => frozen /\ trusted = o.snap
            /\ o.pc \in {"restore", "restoring", "restored"} => o.snap # "none"
            /\ o.pc = "restored" => belief = o.snap
            /\ o.pc = "ended" /\ o.res = "failed" /\ o.snap # "none" =>
                   belief \in {o.snap, "none"} /\ trusted = o.snap

LocateInv(k) == LocateTyped(k) /\ OperationsSound(k) /\ StrayStops(k) /\ SearchRestores(k)

\* The rest of a plan is a plan, with fewer candidates to come.
LEMMA PlanShape ==
    ASSUME NEW k, k.n \in Nat \ {0}, NEW p \in Planned(k)
    PROVE  /\ p # << >> /\ p[1] \in Stages /\ Len(p) > 0
           /\ p[1] \in SearchStages \ {"bounded"} =>
                  /\ Tail(p) \in Planned(k) /\ Tail(p)[1] # "pose"
                  /\ StageSize(k, p[1]) + Needed(k, Tail(p)[1]) <= Needed(k, p[1])
<1>1. CASE p = <<"pose">>
  BY <1>1 DEF Stages, SearchStages
<1>2. CASE p = <<"rtk">>
  BY <1>2 DEF Stages, SearchStages
<1>3. CASE p = <<"bounded">>
  BY <1>3 DEF Stages, SearchStages
<1>4. CASE p = <<"global">>
  BY <1>4 DEF Stages, SearchStages
<1>5. CASE p = <<"quick", "global">>
  <2>1. Tail(p) = <<"global">>
    BY <1>5
  <2> QED
    BY <1>5, <2>1 DEF Stages, SearchStages, StageSize, Needed, Planned, Locate!Progressive
<1>6. CASE p = <<"route", "global">>
  <2>1. Tail(p) = <<"global">>
    BY <1>6
  <2> QED
    BY <1>6, <2>1 DEF Stages, SearchStages, StageSize, Needed, Planned, Locate!Progressive
<1>7. CASE p = <<"origin", "global">>
  <2>1. Tail(p) = <<"global">>
    BY <1>7
  <2> QED
    BY <1>7, <2>1 DEF Stages, SearchStages, StageSize, Needed, Planned, Locate!Progressive
<1>8. CASE p = <<"trusted", "global">>
  <2>1. Tail(p) = <<"global">>
    BY <1>8
  <2> QED
    BY <1>8, <2>1 DEF Stages, SearchStages, StageSize, Needed, Planned, Locate!Progressive
<1>9. CASE p = <<"origin", "route", "global">>
  <2>1. Tail(p) = <<"route", "global">>
    BY <1>9
  <2> QED
    BY <1>9, <2>1 DEF Stages, SearchStages, StageSize, Needed, Planned, Locate!Progressive
<1>10. CASE p = <<"trusted", "route", "global">>
  <2>1. Tail(p) = <<"route", "global">>
    BY <1>10
  <2> QED
    BY <1>10, <2>1 DEF Stages, SearchStages, StageSize, Needed, Planned, Locate!Progressive
<1>11. CASE p = <<"trusted", "origin", "global">>
  <2>1. Tail(p) = <<"origin", "global">>
    BY <1>11
  <2> QED
    BY <1>11, <2>1 DEF Stages, SearchStages, StageSize, Needed, Planned, Locate!Progressive
<1>12. CASE p = <<"trusted", "origin", "route", "global">>
  <2>1. Tail(p) = <<"origin", "route", "global">>
    BY <1>12
  <2> QED
    BY <1>12, <2>1 DEF Stages, SearchStages, StageSize, Needed, Planned, Locate!Progressive
<1> QED
  BY <1>1, <1>2, <1>3, <1>4, <1>5, <1>6, <1>7, <1>8, <1>9, <1>10, <1>11, <1>12 DEF Planned, Locate!Progressive
\* One thread's operation moves on.
LEMMA OneMoves ==
    ASSUME NEW k, OperationsSound(k), NEW t \in k.threads, NEW o, OperationSound(k, o),
           op' = [op EXCEPT ![t] = o]
    PROVE  OperationsSound(k)'
<1>1. op' \in [k.threads -> Operations(k)]
  BY DEF OperationsSound, OperationSound
<1>2. \A u \in k.threads : op'[u] = IF u = t THEN o ELSE op[u]
  BY DEF OperationsSound
<1> QED
  BY <1>1, <1>2 DEF OperationsSound

\* A candidate is entered where the operation is.
LEMMA EnterCandidate ==
    ASSUME NEW k, k.n \in Nat \ {0}, NEW o, OperationSound(k, o), o.pc = "loop", NEW a \in Attempts(k)
    PROVE  LET att == IF o.plan[1] = "route" THEN Append(o.att, a) ELSE [o.att EXCEPT ![o.base + o.i] = a] IN
           /\ att \in Seq(Attempts(k)) /\ DOMAIN att = DOMAIN o.att \cup {o.base + o.i}
           /\ Len(att) = o.base + (IF o.plan[1] = "route" THEN o.i ELSE StageSize(k, o.plan[1]))
           /\ att[o.base + o.i] = a /\ \A j \in DOMAIN o.att \ {o.base + o.i} : att[j] = o.att[j]
<1> DEFINE here == o.base + o.i
<1>1. /\ o.att \in Seq(Attempts(k)) /\ here \in Nat /\ here > 0
      /\ o.plan[1] = "route" => Len(o.att) + 1 = here
      /\ o.plan[1] # "route" => Len(o.att) = o.base + StageSize(k, o.plan[1]) /\ here <= Len(o.att)
  BY DEF OperationSound, RoomLeft, Operations, Looping, StageSize
<1>2. CASE o.plan[1] = "route"
  BY <1>1, <1>2
<1>3. CASE o.plan[1] # "route"
  BY <1>1, <1>3
<1> QED
  BY <1>2, <1>3

\* A stage has room for its candidates.
LEMMA StageFits ==
    ASSUME NEW k, k.n \in Nat \ {0}, NEW s
    PROVE  /\ StageSize(k, s) \in Nat \ {0} /\ Needed(k, s) \in Nat
           /\ s \in SearchStages \cup {"pose"} => StageSize(k, s) <= Needed(k, s)
  BY DEF StageSize, Needed, SearchStages

\* An operation that stays within its stage.
LEMMA RoomWithin ==
    ASSUME NEW k, k.n \in Nat \ {0}, NEW o, OperationSound(k, o), o.pc \in Searching \cup Committing,
           NEW m \in Operations(k), m.plan = o.plan, m.base = o.base,
           m.pc \in Searching \cup Committing \cup {"ended"}, o.pc \in Committing => m.pc \notin Searching,
           Len(m.att) <= m.base + StageSize(k, m.plan[1]),
           m.pc \in Looping =>
               /\ m.i \in 1 .. StageSize(k, m.plan[1])
               /\ m.plan[1] # "route" => Len(m.att) = m.base + StageSize(k, m.plan[1])
               /\ m.plan[1] = "route" => Len(m.att) + 1 = m.base + m.i + (IF m.pc = "loop" THEN 0 ELSE 1)
    PROVE  RoomLeft(k, m)
<1> DEFINE s == o.plan[1]
<1>1. /\ o.plan \in Planned(k) /\ s \in SearchStages \cup {"pose"} /\ (o.pc \in Searching => s \in SearchStages)
      /\ o.base + Needed(k, s) <= 1 + 2 * k.n
  BY DEF OperationSound, RoomLeft, Searching, Committing
<1>2. /\ StageSize(k, s) \in Nat /\ Needed(k, s) \in Nat /\ StageSize(k, s) <= Needed(k, s)
      /\ m.base \in Nat /\ Len(m.att) \in Nat
  BY <1>1, StageFits DEF Operations
<1>3. Len(m.att) <= 1 + 2 * k.n
  BY <1>1, <1>2
<1>4. m.pc \notin {"begin", "none"} /\ (m.pc \in Searching => o.pc \in Searching)
  BY DEF Searching, Committing
<1> QED
  BY <1>1, <1>3, <1>4 DEF RoomLeft

LEMMA ProbeArmStep ==
    ASSUME NEW k, LocateLimits(k), OperationsSound(k), NEW t \in k.threads, Locate(k)!ProbeArm(t)
    PROVE  OperationsSound(k)'
<1> DEFINE o == op[t]
           a == Locate(k)!Attempt("verifying")
           att == IF o.plan[1] = "route" THEN Append(o.att, a) ELSE [o.att EXCEPT ![o.base + o.i] = a]
           m == [o EXCEPT !.pc = "armed", !.att = att]
<1>1. OperationSound(k, o) /\ o.pc = "loop" /\ o \in Operations(k)
  BY DEF Locate!ProbeArm, Locate!Pc, OperationsSound, OperationSound
<1>2. op' = [op EXCEPT ![t] = m]
  BY <1>1 DEF Locate!ProbeArm, Locate!Put, Locate!Stage, OperationsSound
<1>3. a \in Attempts(k) /\ a.st = "verifying"
  BY DEF Attempts, Locate!Attempt, Marks, Closed
<1> HIDE DEF a
<1>4. /\ att \in Seq(Attempts(k)) /\ DOMAIN att = DOMAIN o.att \cup {o.base + o.i}
      /\ Len(att) = o.base + (IF o.plan[1] = "route" THEN o.i ELSE StageSize(k, o.plan[1]))
      /\ att[o.base + o.i] = a /\ \A j \in DOMAIN o.att \ {o.base + o.i} : att[j] = o.att[j]
  BY <1>1, <1>3, EnterCandidate DEF LocateLimits
<1> HIDE DEF att
<1>5. m \in Operations(k)
  BY <1>1, <1>4, Zenon DEF Operations, Steps, Searching
<1>6. m.pc = "armed" /\ m.att = att /\ m.plan = o.plan /\ m.base = o.base /\ m.i = o.i
  BY <1>1 DEF Operations
<1> HIDE DEF m
<1>7. OpenCandidates(m)
  BY <1>1, <1>3, <1>4, <1>6 DEF OpenCandidates, OperationSound, Looping, Committing
<1>8. RoomLeft(k, m)
  <2>1. o.i \in 1 .. StageSize(k, o.plan[1])
    BY <1>1 DEF OperationSound, RoomLeft, Looping
  <2>2. o.base \in Nat /\ k.n \in Nat \ {0} /\ StageSize(k, o.plan[1]) \in Nat
    BY <1>1, StageFits DEF Operations, LocateLimits
  <2>3. Len(m.att) <= m.base + StageSize(k, m.plan[1])
    BY <1>4, <1>6, <2>1, <2>2
  <2> QED
    BY <1>1, <1>4, <1>5, <1>6, <2>1, <2>2, <2>3, RoomWithin DEF Searching, Committing
<1>9. OperationSound(k, m)
  BY <1>5, <1>7, <1>8 DEF OperationSound
<1> QED
  BY <1>2, <1>9, OneMoves

\* A step that only goes to the next place, or remembers the frozen flag.
LEMMA PlaceSound ==
    ASSUME NEW k, k.n \in Nat \ {0}, NEW o, OperationSound(k, o), NEW m \in Operations(k),
           m.att = o.att, m.plan = o.plan, m.base = o.base, m.i = o.i, m.win = o.win,
           \/ o.pc = "armed" /\ m.pc = "probing"
           \/ o.pc = "loop" /\ m.pc = "rank"
           \/ o.pc = "restore" /\ m.pc = "restoring"
           \/ o.pc = "restoring" /\ m.pc = "restored"
           \/ o.pc = "commit" /\ m.pc = "carmed"
           \/ o.pc = "carmed" /\ m.pc = "committing"
           \/ o.pc \in {"begin", "rtkprobe", "rtkcall"} /\ m.pc \in {"globalwait", "rtkprobe", "rtkcall", "rtkwait"}
    PROVE  OperationSound(k, m)
<1>1. OpenCandidates(m)
  BY DEF OpenCandidates, OperationSound, Looping, Committing
<1>2. CASE o.pc \in Searching \cup Committing
  <2>1. Len(o.att) <= o.base + StageSize(k, o.plan[1])
    BY <1>2 DEF OperationSound, RoomLeft
  <2>2. m.pc \in Searching \cup Committing /\ (o.pc \in Committing => m.pc \notin Searching)
    BY <1>2 DEF Searching, Committing
  <2>3. m.pc \in Looping =>
               /\ m.i \in 1 .. StageSize(k, m.plan[1])
               /\ m.plan[1] # "route" => Len(m.att) = m.base + StageSize(k, m.plan[1])
               /\ m.plan[1] = "route" => Len(m.att) + 1 = m.base + m.i + (IF m.pc = "loop" THEN 0 ELSE 1)
    BY DEF OperationSound, RoomLeft, Looping
  <2> QED
    BY <1>1, <1>2, <2>1, <2>2, <2>3, RoomWithin DEF OperationSound
<1>3. CASE o.pc \notin Searching \cup Committing
  <2>1. m.pc \notin Searching \cup Committing \cup Looping \cup {"begin", "none"} /\ o.pc # "none"
    BY <1>3 DEF Searching, Committing, Looping
  <2> QED
    BY <1>1, <2>1 DEF OperationSound, RoomLeft
<1> QED
  BY <1>2, <1>3

\* The operation ends.
LEMMA EndSound ==
    ASSUME NEW k, NEW o, OperationSound(k, o), o.pc # "none", NEW m \in Operations(k),
           m.plan = o.plan, m.pc = "ended", Len(m.att) = Len(o.att),
           m.res # "superseded" => AllClosed(m.att)
    PROVE  OperationSound(k, m)
<1>1. OpenCandidates(m)
  BY DEF OpenCandidates, Looping, Committing
<1>2. RoomLeft(k, m)
  BY DEF RoomLeft, OperationSound, Searching, Committing, Looping
<1> QED
  BY <1>1, <1>2 DEF OperationSound

\* The next stage of a plan of several begins.
LEMMA NextStageSound ==
    ASSUME NEW k, k.n \in Nat \ {0}, NEW o, OperationSound(k, o), o.pc \in Searching \cup Committing,
           o.plan[1] \in SearchStages \ {"bounded"},
           NEW m \in Operations(k), m.plan = Tail(o.plan), m.pc = "begin", Len(m.att) = Len(o.att),
           AllClosed(m.att)
    PROVE  OperationSound(k, m)
<1>1. OpenCandidates(m)
  BY DEF OpenCandidates, Looping, Committing
<1> DEFINE s == o.plan[1]
           r == m.plan[1]
<1>2. /\ o.plan \in Planned(k) /\ o.base + Needed(k, s) <= 1 + 2 * k.n
      /\ Len(m.att) <= o.base + StageSize(k, s) /\ o.base \in Nat /\ Len(m.att) \in Nat /\ 2 * k.n \in Nat
  BY DEF OperationSound, RoomLeft, Searching, Committing, Operations
<1>3. m.plan \in Planned(k) /\ r # "pose" /\ StageSize(k, s) + Needed(k, r) <= Needed(k, s)
  BY <1>2, PlanShape
<1>4. StageSize(k, s) \in Nat /\ Needed(k, s) \in Nat /\ Needed(k, r) \in Nat
  BY StageFits
<1> HIDE DEF s, r
<1>5. Len(m.att) + Needed(k, r) <= 1 + 2 * k.n
  <2>1. \A a, b, c, d, e, f \in Nat : a <= b + c /\ c + d <= e /\ b + e <= f => a + d <= f
    BY StillFits
  <2>2. 1 + 2 * k.n \in Nat
    OBVIOUS
  <2> QED
    BY <1>2, <1>3, <1>4, <2>1, <2>2
<1>6. Len(m.att) <= 1 + 2 * k.n
  BY <1>2, <1>4, <1>5
<1> QED
  BY <1>1, <1>3, <1>5, <1>6 DEF OperationSound, RoomLeft, Searching, Committing, Looping, r

\* A candidate is decided and the loop goes on, or is over.
LEMMA AdvanceSound ==
    ASSUME NEW k, k.n \in Nat \ {0}, NEW o, OperationSound(k, o), o.pc \in {"loop", "probing"},
           NEW m \in Operations(k), m.plan = o.plan, m.base = o.base, m.i = o.i + 1,
           DOMAIN m.att = DOMAIN o.att \cup {o.base + o.i},
           Len(m.att) = o.base + (IF o.plan[1] = "route" THEN o.i ELSE StageSize(k, o.plan[1])),
           \A j \in DOMAIN o.att \ {o.base + o.i} : m.att[j] = o.att[j],
           \/ m.att[o.base + o.i].st \in Closed
           \/ m.att[o.base + o.i].st = "qualified" /\ m.att[o.base + o.i].elig,
           m.pc = "rank" \/ m.pc = (IF o.i = StageSize(k, o.plan[1]) THEN "rank" ELSE "loop")
    PROVE  OperationSound(k, m)
<1>1. o.i \in 1 .. StageSize(k, o.plan[1]) /\ o.base \in Nat /\ StageSize(k, o.plan[1]) \in Nat
  BY StageFits DEF OperationSound, RoomLeft, Looping, Operations
<1>2. OpenCandidates(m)
  <2>1. \A j \in DOMAIN o.att \ {o.base + o.i} :
           \/ o.att[j].st \in Closed
           \/ j > o.base /\ o.att[j].st = "waiting"
           \/ j > o.base /\ o.att[j].st = "qualified" /\ o.att[j].elig
    BY DEF OperationSound, OpenCandidates, Looping
  <2>2. o.base + o.i > o.base /\ m.pc \in {"rank", "loop"}
    BY <1>1
  <2> QED
    BY <2>1, <2>2 DEF OpenCandidates, Committing
<1>3. RoomLeft(k, m)
  <2>1. m.pc = "loop" => m.i \in 1 .. StageSize(k, m.plan[1])
    BY <1>1
  <2>2. Len(m.att) <= m.base + StageSize(k, m.plan[1])
    BY <1>1
  <2>3. m.pc \in Searching /\ o.pc \in Searching /\ o.pc \notin Committing /\ m.pc \notin {"armed", "probing"}
    BY DEF Searching, Committing
  <2>4. m.pc \in Looping =>
               /\ m.i \in 1 .. StageSize(k, m.plan[1])
               /\ m.plan[1] # "route" => Len(m.att) = m.base + StageSize(k, m.plan[1])
               /\ m.plan[1] = "route" => Len(m.att) + 1 = m.base + m.i + (IF m.pc = "loop" THEN 0 ELSE 1)
    <3>1. m.i \in Nat /\ o.i \in Nat /\ (m.pc \in Looping => m.pc = "loop")
      BY <1>1, <2>3 DEF Looping
    <3>2. m.plan[1] = "route" => Len(m.att) + 1 = m.base + m.i
      BY <1>1, <3>1
    <3> QED
      BY <2>1, <3>1, <3>2
  <2> QED
    BY <2>2, <2>3, <2>4, RoomWithin
<1> QED
  BY <1>2, <1>3 DEF OperationSound

\* Skipping what still waits.
LEMMA SkipShape ==
    ASSUME NEW k, NEW att \in Seq(Attempts(k))
    PROVE  LET s == Locate(k)!SkipWaiting(att) IN
           /\ s \in Seq(Attempts(k)) /\ Len(s) = Len(att) /\ DOMAIN s = DOMAIN att
           /\ \A j \in DOMAIN att : /\ s[j].elig = att[j].elig /\ s[j] \in Attempts(k)
                                    /\ s[j].st = IF att[j].st = "waiting" THEN "skipped" ELSE att[j].st
<1> DEFINE s == Locate(k)!SkipWaiting(att)
<1>1. \A j \in DOMAIN att : att[j] \in Attempts(k)
  OBVIOUS
<1>2. \A j \in DOMAIN att : [att[j] EXCEPT !.st = "skipped"] \in Attempts(k)
  BY <1>1, Zenon DEF Attempts, Marks, Closed
<1>3. s = [j \in 1 .. Len(att) |-> IF att[j].st = "waiting" THEN [att[j] EXCEPT !.st = "skipped"] ELSE att[j]]
  BY DEF Locate!SkipWaiting
<1> HIDE DEF s
<1>4. s \in [1 .. Len(att) -> Attempts(k)]
  BY <1>1, <1>2, <1>3
<1>5. \A j \in DOMAIN att : /\ s[j].elig = att[j].elig
                            /\ s[j].st = IF att[j].st = "waiting" THEN "skipped" ELSE att[j].st
  BY <1>1, <1>3 DEF Attempts
<1> QED
  BY <1>4, <1>5 DEF s

\* A search stage begins: its candidates are listed as waiting.
LEMMA StageBeginStep ==
    ASSUME NEW k, LocateLimits(k), OperationsSound(k), trusted \in Poses, NEW t \in k.threads,
           Locate(k)!StageBegin(t)
    PROVE  OperationsSound(k)'
<1> DEFINE o == op[t]
           s == o.plan[1]
<1>1. OperationSound(k, o) /\ o.pc = "begin" /\ o \in Operations(k) /\ s \in SearchStages
  BY DEF Locate!StageBegin, Locate!Pc, Locate!Stage, Locate!Search, OperationsSound, OperationSound,
     SearchStages
<1>2. PICK seeds \in Locate(k)!SeedCounts(t) :
         op' = [op EXCEPT ![t] =
                  [o EXCEPT !.pc = IF seeds = 0 THEN "rank" ELSE "loop", !.i = 1, !.snap = trusted, !.base = Len(o.att),
                            !.att = IF s = "route" THEN o.att ELSE o.att \o Locate(k)!Waiting(seeds)]]
  BY Zenon DEF Locate!StageBegin, Locate!Stage
<1>3. /\ seeds \in Nat /\ seeds <= StageSize(k, s) /\ (seeds # 0 => seeds = StageSize(k, s)) /\ StageSize(k, s) \in Nat \ {0}
      /\ s = "route" => seeds # 0
  BY <1>1 DEF Locate!SeedCounts, Locate!Size, Locate!Stage, LocateLimits, StageSize, SearchStages
<1> DEFINE w == Locate(k)!Waiting(seeds)
           att == IF s = "route" THEN o.att ELSE o.att \o w
           m == [o EXCEPT !.pc = IF seeds = 0 THEN "rank" ELSE "loop", !.i = 1, !.snap = trusted, !.base = Len(o.att), !.att = att]
<1>4. w \in Seq(Attempts(k)) /\ Len(w) = seeds /\ \A j \in 1 .. seeds : w[j].st = "waiting"
  <2>1. Locate(k)!Attempt("waiting") \in Attempts(k) /\ Locate(k)!Attempt("waiting").st = "waiting"
    BY DEF Locate!Attempt, Attempts, Marks, Closed
  <2>2. w = [j \in 1 .. seeds |-> Locate(k)!Attempt("waiting")]
    BY DEF Locate!Waiting
  <2> HIDE DEF w
  <2> QED
    BY <1>3, <2>1, <2>2
<1> HIDE DEF w
<1>5. o.att \in Seq(Attempts(k)) /\ AllClosed(o.att) /\ Len(o.att) \in Nat
  BY <1>1 DEF Operations, OperationSound, OpenCandidates
<1>6. /\ att \in Seq(Attempts(k)) /\ Len(att) = Len(o.att) + (IF s = "route" THEN 0 ELSE seeds)
      /\ \A j \in DOMAIN att : att[j].st \in Closed \/ (j > Len(o.att) /\ att[j].st = "waiting")
  <2>1. CASE s = "route"
    BY <1>5, <2>1 DEF AllClosed
  <2>2. CASE s # "route"
    <3>1. att = o.att \o w
      BY <2>2
    <3> HIDE DEF att
    <3>2. att \in Seq(Attempts(k)) /\ Len(att) = Len(o.att) + seeds
      BY <1>4, <1>5, <3>1, ConcatProperties
    <3>3. \A j \in 1 .. Len(o.att) + seeds : att[j] = IF j <= Len(o.att) THEN o.att[j] ELSE w[j - Len(o.att)]
      BY <1>4, <1>5, <3>1, ConcatProperties
    <3>4. \A j \in 1 .. Len(att) : j > Len(o.att) => j - Len(o.att) \in 1 .. seeds
      BY <1>3, <1>5, <3>2
    <3> QED
      BY <1>4, <1>5, <2>2, <3>2, <3>3, <3>4 DEF AllClosed
  <2> QED
    BY <2>1, <2>2
<1> HIDE DEF att
<1>7. m \in Operations(k)
  BY <1>1, <1>5, <1>6, Zenon DEF Operations, Steps, Searching
<1>8. /\ m.pc = (IF seeds = 0 THEN "rank" ELSE "loop") /\ m.att = att /\ m.plan = o.plan
      /\ m.base = Len(o.att) /\ m.i = 1
  BY <1>1 DEF Operations
<1>9. op' = [op EXCEPT ![t] = m]
  BY <1>2 DEF att, w
<1> HIDE DEF m
<1>10. OpenCandidates(m)
  BY <1>6, <1>8 DEF OpenCandidates, Looping, Committing
<1>11. RoomLeft(k, m)
  <2>1. /\ o.plan \in Planned(k) /\ Len(o.att) + Needed(k, s) <= 1 + 2 * k.n /\ 1 + 2 * k.n \in Nat
    BY <1>1 DEF OperationSound, RoomLeft, LocateLimits
  <2>2. Needed(k, s) \in Nat /\ StageSize(k, s) \in Nat /\ StageSize(k, s) <= Needed(k, s)
    BY <1>1, StageFits DEF LocateLimits
  <2>3. Len(att) <= Len(o.att) + StageSize(k, s) /\ Len(att) \in Nat
    <3>1. Len(o.att) \in Nat /\ StageSize(k, s) \in Nat
      BY <1>5, <2>2
    <3>2. CASE s = "route"
      BY <1>6, <3>1, <3>2
    <3>3. CASE s # "route"
      BY <1>3, <1>6, <3>1, <3>3
    <3> QED
      BY <3>2, <3>3
  <2>4. Len(att) <= 1 + 2 * k.n
    <3>1. \A a, b, c, d, e \in Nat : a <= b + c /\ c <= d /\ b + d <= e => a <= e
      BY FitsWithin
    <3> QED
      BY <1>5, <2>1, <2>2, <2>3, <3>1
  <2>5. m.pc \in {"rank", "loop"} /\ (m.pc = "loop" => seeds # 0)
    BY <1>8
  <2>6. 1 \in 1 .. StageSize(k, s)
    BY <1>3
  <2>7. m.pc = "loop" /\ s # "route" => Len(att) = Len(o.att) + StageSize(k, s)
    BY <1>3, <1>6, <2>5
  <2>8. s = "route" => Len(att) + 1 = Len(o.att) + 1
    BY <1>6, <1>5
  <2> QED
    BY <1>1, <1>8, <2>1, <2>3, <2>4, <2>5, <2>6, <2>7, <2>8 DEF RoomLeft, Searching, Committing, Looping
<1>12. OperationSound(k, m)
  BY <1>7, <1>10, <1>11 DEF OperationSound
<1> QED
  BY <1>9, <1>12, OneMoves

\* Places only.
LEMMA PlaceStep ==
    ASSUME NEW k, LocateLimits(k), OperationsSound(k), frozen \in BOOLEAN, NEW t \in k.threads,
           \/ Locate(k)!ProbePublish(t) \/ Locate(k)!RestoreArm(t) \/ Locate(k)!RestorePublish(t)
           \/ Locate(k)!CommitArm(t) \/ Locate(k)!CommitPublish(t) \/ Locate(k)!GlobalCall(t)
           \/ Locate(k)!RtkProbe(t) \/ Locate(k)!RtkCall(t)
    PROVE  OperationsSound(k)'
<1> DEFINE o == op[t]
<1>1. OperationSound(k, o) /\ o \in Operations(k)
  BY DEF OperationsSound, OperationSound
<1>2. ASSUME NEW m \in Operations(k), op' = [op EXCEPT ![t] = m],
             m.att = o.att, m.plan = o.plan, m.base = o.base, m.i = o.i, m.win = o.win,
             \/ o.pc = "armed" /\ m.pc = "probing"
             \/ o.pc = "restore" /\ m.pc = "restoring"
             \/ o.pc = "restoring" /\ m.pc = "restored"
             \/ o.pc = "commit" /\ m.pc = "carmed"
             \/ o.pc = "carmed" /\ m.pc = "committing"
             \/ o.pc \in {"begin", "rtkcall"} /\ m.pc \in {"globalwait", "rtkprobe", "rtkwait"}
      PROVE  OperationsSound(k)'
  <2>1. OperationSound(k, m)
    BY <1>1, <1>2, PlaceSound DEF LocateLimits
  <2> QED
    BY <1>2, <2>1, OneMoves
<1>3. ASSUME NEW p \in Steps
      PROVE  LET m == [o EXCEPT !.pc = p] IN
             /\ m \in Operations(k) /\ m.att = o.att /\ m.plan = o.plan /\ m.base = o.base /\ m.i = o.i
             /\ m.win = o.win /\ m.pc = p
  <2>1. [o EXCEPT !.pc = p] \in Operations(k)
    BY <1>1, Zenon DEF Operations
  <2> QED
    BY <1>1, <2>1 DEF Operations
<1>4. {"probing", "restoring", "restored", "carmed", "committing", "globalwait", "rtkprobe", "rtkwait"} \subseteq Steps
  BY DEF Steps, Searching, Committing
<1>5. CASE Locate(k)!ProbePublish(t)
  BY <1>2, <1>3, <1>4, <1>5 DEF Locate!ProbePublish, Locate!Pc
<1>6. CASE Locate(k)!RestoreArm(t) \/ Locate(k)!RestorePublish(t)
  BY <1>2, <1>3, <1>4, <1>6 DEF Locate!RestoreArm, Locate!RestorePublish, Locate!Pc
<1>7. CASE Locate(k)!CommitArm(t) \/ Locate(k)!CommitPublish(t)
  BY <1>2, <1>3, <1>4, <1>7 DEF Locate!CommitArm, Locate!CommitPublish, Locate!Pc
<1>8. CASE Locate(k)!GlobalCall(t) \/ Locate(k)!RtkCall(t)
  BY <1>2, <1>3, <1>4, <1>8 DEF Locate!GlobalCall, Locate!RtkCall, Locate!Pc
<1>9. CASE Locate(k)!RtkProbe(t)
  <2> DEFINE m == [o EXCEPT !.pc = "rtkprobe", !.saved = frozen]
  <2>1. op' = [op EXCEPT ![t] = m] /\ o.pc = "begin"
    BY <1>1, <1>9 DEF Locate!RtkProbe, Locate!Pc, OperationsSound
  <2>2. m \in Operations(k)
    BY <1>1, <1>4, Zenon DEF Operations
  <2>3. m.att = o.att /\ m.plan = o.plan /\ m.base = o.base /\ m.i = o.i /\ m.win = o.win /\ m.pc = "rtkprobe"
    BY <1>1 DEF Operations
  <2> HIDE DEF m
  <2> QED
    BY <1>2, <2>1, <2>2, <2>3
<1> QED
  BY <1>5, <1>6, <1>7, <1>8, <1>9

\* A candidate is recorded without a probe.
LEMMA LoopStep ==
    ASSUME NEW k, LocateLimits(k), OperationsSound(k), NEW t \in k.threads,
           Locate(k)!BudgetSpent(t) \/ Locate(k)!NoSubscriber(t)
    PROVE  OperationsSound(k)'
<1> DEFINE o == op[t]
<1>1. OperationSound(k, o) /\ o \in Operations(k) /\ o.pc = "loop" /\ o.plan[1] \in SearchStages
  BY DEF OperationsSound, OperationSound, RoomLeft, Searching, Locate!BudgetSpent, Locate!NoSubscriber,
     Locate!Pc
<1>2. CASE op' = [op EXCEPT ![t] = [o EXCEPT !.pc = "rank"]]
  <2> DEFINE m == [o EXCEPT !.pc = "rank"]
  <2>1. m \in Operations(k)
    BY <1>1, Zenon DEF Operations, Steps, Searching
  <2>2. m.att = o.att /\ m.plan = o.plan /\ m.base = o.base /\ m.i = o.i /\ m.win = o.win /\ m.pc = "rank"
    BY <1>1 DEF Operations
  <2> HIDE DEF m
  <2>3. OperationSound(k, m)
    BY <1>1, <2>1, <2>2, PlaceSound DEF LocateLimits
  <2> QED
    BY <1>2, <2>3, OneMoves DEF m
<1>3. ASSUME NEW a \in Attempts(k), a.st \in Closed,
             op' = [op EXCEPT ![t] = [o EXCEPT !.att = Locate(k)!Put(t, a), !.i = o.i + 1, !.pc = Locate(k)!AfterLoop(t)]]
      PROVE  OperationsSound(k)'
  <2> DEFINE att == IF o.plan[1] = "route" THEN Append(o.att, a) ELSE [o.att EXCEPT ![o.base + o.i] = a]
             pc == IF o.i = StageSize(k, o.plan[1]) THEN "rank" ELSE "loop"
             m == [o EXCEPT !.att = att, !.i = o.i + 1, !.pc = pc]
  <2>1. Locate(k)!Put(t, a) = att
    BY DEF Locate!Put, Locate!Stage
  <2>2. Locate(k)!AfterLoop(t) = pc
    BY <1>1 DEF Locate!AfterLoop, Locate!Size, Locate!Stage, StageSize, SearchStages
  <2>3. /\ att \in Seq(Attempts(k)) /\ DOMAIN att = DOMAIN o.att \cup {o.base + o.i}
        /\ Len(att) = o.base + (IF o.plan[1] = "route" THEN o.i ELSE StageSize(k, o.plan[1]))
        /\ att[o.base + o.i] = a /\ \A j \in DOMAIN o.att \ {o.base + o.i} : att[j] = o.att[j]
    BY <1>1, EnterCandidate DEF LocateLimits
  <2>4. pc \in {"rank", "loop"} /\ o.i + 1 \in Nat
    BY <1>1 DEF Operations
  <2>5. op' = [op EXCEPT ![t] = m]
    BY <1>3, <2>1, <2>2
  <2> HIDE DEF att, pc
  <2>6. m \in Operations(k)
    BY <1>1, <2>3, <2>4, Zenon DEF Operations, Steps, Searching
  <2>7. m.att = att /\ m.plan = o.plan /\ m.base = o.base /\ m.i = o.i + 1 /\ m.pc = pc
    BY <1>1 DEF Operations
  <2> HIDE DEF m
  <2>8. OperationSound(k, m)
    BY <1>1, <1>3, <2>3, <2>6, <2>7, AdvanceSound DEF LocateLimits, pc
  <2> QED
    BY <2>5, <2>8, OneMoves
<1>4. \A st \in {"failed", "rejected"} : Locate(k)!Attempt(st) \in Attempts(k) /\ Locate(k)!Attempt(st).st \in Closed
  BY DEF Locate!Attempt, Attempts, Marks, Closed
<1>5. CASE Locate(k)!NoSubscriber(t)
  BY <1>3, <1>4, <1>5 DEF Locate!NoSubscriber
<1>6. CASE Locate(k)!BudgetSpent(t)
  BY <1>2, <1>3, <1>4, <1>6 DEF Locate!BudgetSpent
<1> QED
  BY <1>5, <1>6

LEMMA ProbeResultShape ==
    ASSUME NEW k, NEW r \in Locate(k)!ProbeResults
    PROVE  r.elig \in BOOLEAN /\ r.mat \in k.matches \cup {Locate(k)!NoMatch}
<1> DEFINE S == {[elig |-> FALSE, opt |-> FALSE, mat |-> x] : x \in k.matches \cup {Locate(k)!NoMatch}}
           T == {[elig |-> TRUE, opt |-> b, mat |-> x] : b \in BOOLEAN, x \in k.matches}
<1>1. r \in S \/ r \in T
  BY DEF Locate!ProbeResults
<1>2. CASE r \in S
  <2>1. PICK x \in k.matches \cup {Locate(k)!NoMatch} : r = [elig |-> FALSE, opt |-> FALSE, mat |-> x]
    BY <1>2
  <2> QED
    BY <2>1
<1>3. CASE r \in T
  <2>1. PICK b \in BOOLEAN, x \in k.matches : r = [elig |-> TRUE, opt |-> b, mat |-> x]
    BY <1>3
  <2> QED
    BY <2>1
<1> QED
  BY <1>1, <1>2, <1>3

\* A probe is answered.
LEMMA ProbeDoneStep ==
    ASSUME NEW k, LocateLimits(k), OperationsSound(k), NEW t \in k.threads, Locate(k)!ProbeDone(t)
    PROVE  OperationsSound(k)'
<1> DEFINE o == op[t]
           s == o.plan[1]
           q == o.base + o.i
<1>1. OperationSound(k, o) /\ o \in Operations(k) /\ o.pc = "probing" /\ s \in SearchStages
  BY DEF OperationsSound, OperationSound, RoomLeft, Searching, Locate!ProbeDone, Locate!Pc
<1>2. PICK r \in Locate(k)!ProbeResults :
         op' = [op EXCEPT ![t] =
                  [o EXCEPT !.att[q] = [st |-> IF r.elig THEN "qualified" ELSE "rejected", elig |-> r.elig, mat |-> r.mat],
                            !.i = o.i + 1,
                            !.pc = IF r.opt /\ Locate(k)!Stage(t) # "route" THEN "rank" ELSE Locate(k)!AfterLoop(t)]]
  BY DEF Locate!ProbeDone
<1> DEFINE a == [st |-> IF r.elig THEN "qualified" ELSE "rejected", elig |-> r.elig, mat |-> r.mat]
           att == [o.att EXCEPT ![q] = a]
           pc == IF r.opt /\ Locate(k)!Stage(t) # "route" THEN "rank" ELSE Locate(k)!AfterLoop(t)
           m == [o EXCEPT !.att = att, !.i = o.i + 1, !.pc = pc]
<1>3. a \in Attempts(k) /\ (a.st \in Closed \/ (a.st = "qualified" /\ a.elig))
  <2>1. r.elig \in BOOLEAN /\ r.mat \in k.matches \cup {Locate(k)!NoMatch}
    BY ProbeResultShape
  <2> QED
    BY <2>1 DEF Attempts, Marks, Closed
<1>4. pc \in {"rank", "loop"} /\ (pc = "rank" \/ pc = (IF o.i = StageSize(k, s) THEN "rank" ELSE "loop"))
  BY <1>1 DEF Locate!AfterLoop, Locate!Size, Locate!Stage, StageSize, SearchStages
<1>5. op' = [op EXCEPT ![t] = m]
  BY <1>2
<1> HIDE DEF a, pc
<1>6. /\ o.att \in Seq(Attempts(k)) /\ Len(o.att) \in Nat /\ o.i \in 1 .. StageSize(k, s) /\ o.base \in Nat /\ StageSize(k, s) \in Nat
      /\ s # "route" => Len(o.att) = o.base + StageSize(k, s)
      /\ s = "route" => Len(o.att) + 1 = o.base + o.i + 1
  BY <1>1, StageFits DEF OperationSound, RoomLeft, Looping, Operations, LocateLimits
<1>7. q \in 1 .. Len(o.att) /\ Len(o.att) = o.base + (IF s = "route" THEN o.i ELSE StageSize(k, s))
  <2>1. CASE s = "route"
    <3>1. \A a1, b1, c1 \in Nat : a1 + 1 = b1 + c1 + 1 => a1 = b1 + c1
      BY OneLess
    <3>2. Len(o.att) \in Nat /\ o.base \in Nat /\ o.i \in Nat
      BY <1>6
    <3>3. Len(o.att) + 1 = o.base + o.i + 1
      BY <1>6, <2>1
    <3>4. Len(o.att) = o.base + o.i
      BY <3>1, <3>2, <3>3
    <3> QED
      BY <1>6, <2>1, <3>4
  <2>2. CASE s # "route"
    BY <1>6, <2>2
  <2> QED
    BY <2>1, <2>2
<1>8. /\ att \in Seq(Attempts(k)) /\ DOMAIN att = DOMAIN o.att /\ Len(att) = Len(o.att) /\ q \in DOMAIN o.att
      /\ att[q] = a /\ \A j \in DOMAIN o.att \ {q} : att[j] = o.att[j]
  BY <1>3, <1>6, <1>7
<1> HIDE DEF att
<1>9. m \in Operations(k)
  <2>1. o.i + 1 \in Nat /\ pc \in Steps
    BY <1>4, <1>6 DEF Steps, Searching
  <2> QED
    BY <1>1, <1>8, <2>1, Zenon DEF Operations
<1>10. m.att = att /\ m.plan = o.plan /\ m.base = o.base /\ m.i = o.i + 1 /\ m.pc = pc
  BY <1>1 DEF Operations
<1> HIDE DEF m
<1>11. DOMAIN m.att = DOMAIN o.att \cup {o.base + o.i} /\ Len(m.att) = o.base + (IF s = "route" THEN o.i ELSE StageSize(k, s))
  BY <1>7, <1>8, <1>10
<1>12. OperationSound(k, m)
  BY <1>1, <1>3, <1>4, <1>8, <1>9, <1>10, <1>11, AdvanceSound DEF LocateLimits
<1> QED
  BY <1>5, <1>12, OneMoves

\* A stage without a result: the next one of the plan, or the end.
LEMMA FailStage ==
    ASSUME NEW k, LocateLimits(k), OperationsSound(k), NEW t \in k.threads,
           op[t].pc \in Searching \cup Committing, op[t].plan[1] \in SearchStages,
           NEW att \in Seq(Attempts(k)), Len(att) = Len(op[t].att), AllClosed(att),
           op' = [op EXCEPT ![t] = Locate(k)!StageFailed(t, att)]
    PROVE  OperationsSound(k)'
<1> DEFINE o == op[t]
<1>1. OperationSound(k, o) /\ o \in Operations(k) /\ o.plan \in Planned(k) /\ o.pc # "none"
  BY DEF OperationsSound, OperationSound, RoomLeft, Searching, Committing
<1>2. CASE o.plan[1] = "bounded"
  <2> DEFINE m == [[o EXCEPT !.pc = "ended", !.res = "failed"] EXCEPT !.att = att]
  <2>1. op' = [op EXCEPT ![t] = m]
    BY <1>2 DEF Locate!StageFailed, Locate!Stage, Locate!Ended
  <2>2. m \in Operations(k)
    <3>1. [o EXCEPT !.pc = "ended", !.res = "failed"] \in Operations(k)
      BY <1>1, Zenon DEF Operations, Steps, Outcomes
    <3> QED
      BY <3>1, Zenon DEF Operations
  <2>3. m.plan = o.plan /\ m.pc = "ended" /\ m.att = att
    BY <1>1 DEF Operations
  <2> HIDE DEF m
  <2>4. OperationSound(k, m)
    BY <1>1, <2>2, <2>3, EndSound
  <2> QED
    BY <2>1, <2>4, OneMoves
<1>3. CASE o.plan[1] # "bounded"
  <2> DEFINE m == [o EXCEPT !.pc = "begin", !.plan = Tail(o.plan), !.att = att]
  <2>1. op' = [op EXCEPT ![t] = m]
    BY <1>3 DEF Locate!StageFailed, Locate!Stage, Locate!NextStage
  <2>2. Tail(o.plan) \in Planned(k)
    BY <1>1, <1>3, PlanShape DEF LocateLimits
  <2>3. m \in Operations(k)
    BY <1>1, <2>2, Zenon DEF Operations, Steps
  <2>4. m.plan = Tail(o.plan) /\ m.pc = "begin" /\ m.att = att
    BY <1>1 DEF Operations
  <2> HIDE DEF m
  <2>5. OperationSound(k, m)
    BY <1>1, <1>3, <2>3, <2>4, NextStageSound DEF LocateLimits
  <2> QED
    BY <2>1, <2>5, OneMoves
<1> QED
  BY <1>2, <1>3

LEMMA RestoredStep ==
    ASSUME NEW k, LocateLimits(k), OperationsSound(k), NEW t \in k.threads,
           Locate(k)!RestoreDone(t) \/ Locate(k)!RestoreGone(t)
    PROVE  OperationsSound(k)'
<1> DEFINE o == op[t]
<1>1. OperationSound(k, o) /\ o \in Operations(k) /\ o.pc \in {"restored", "restore"}
      /\ op' = [op EXCEPT ![t] = Locate(k)!StageFailed(t, o.att)]
  BY DEF OperationsSound, OperationSound, Locate!RestoreDone, Locate!RestoreGone, Locate!AfterRestore,
     Locate!Pc
<1>2. o.pc \in Searching /\ o.plan[1] \in SearchStages /\ AllClosed(o.att) /\ o.att \in Seq(Attempts(k))
  BY <1>1 DEF OperationSound, RoomLeft, OpenCandidates, Operations, Searching
<1> QED
  BY <1>1, <1>2, FailStage

\* No candidate qualified.
LEMMA RankNoneStep ==
    ASSUME NEW k, LocateLimits(k), OperationsSound(k), NEW t \in k.threads, Locate(k)!RankNone(t)
    PROVE  OperationsSound(k)'
<1> DEFINE o == op[t]
           att == Locate(k)!SkipWaiting(o.att)
<1>1. /\ OperationSound(k, o) /\ o \in Operations(k) /\ o.pc = "rank" /\ o.plan[1] \in SearchStages
      /\ o.att \in Seq(Attempts(k))
  BY DEF OperationsSound, OperationSound, RoomLeft, Searching, Operations, Locate!RankNone, Locate!Pc
<1>2. /\ Locate(k)!Best(t, att) = {}
      /\ op' = [op EXCEPT ![t] = IF Locate(k)!Restores(t) THEN [o EXCEPT !.att = att, !.pc = "restore"]
                                 ELSE Locate(k)!StageFailed(t, att)]
  BY DEF Locate!RankNone
<1>3. /\ att \in Seq(Attempts(k)) /\ Len(att) = Len(o.att) /\ DOMAIN att = DOMAIN o.att
      /\ \A j \in DOMAIN o.att : /\ att[j].elig = o.att[j].elig /\ att[j] \in Attempts(k)
                                 /\ att[j].st = IF o.att[j].st = "waiting" THEN "skipped" ELSE o.att[j].st
  BY <1>1, SkipShape
<1> HIDE DEF att
<1>4. AllClosed(att)
  <2>1. \A j \in DOMAIN o.att : j > o.base => ~att[j].elig
    BY <1>1, <1>2 DEF Locate!Best, Locate!Segment, Operations
  <2>2. \A j \in DOMAIN o.att : o.att[j].st \in Closed \cup {"waiting"}
    BY <1>1, <1>3, <2>1 DEF OperationSound, OpenCandidates
  <2> QED
    BY <1>3, <2>2 DEF AllClosed, Closed
<1>5. CASE Locate(k)!Restores(t)
  <2> DEFINE m == [o EXCEPT !.att = att, !.pc = "restore"]
  <2>1. m \in Operations(k)
    BY <1>1, <1>3, Zenon DEF Operations, Steps, Searching
  <2>2. m.att = att /\ m.plan = o.plan /\ m.base = o.base /\ m.pc = "restore"
    BY <1>1 DEF Operations
  <2>3. op' = [op EXCEPT ![t] = m]
    BY <1>2, <1>5
  <2> HIDE DEF m
  <2>4. OpenCandidates(m)
    BY <1>4, <2>2 DEF OpenCandidates, Looping, Committing
  <2>5. Len(o.att) <= o.base + StageSize(k, o.plan[1])
    BY <1>1 DEF OperationSound, RoomLeft, Searching
  <2>6. m.pc \in Searching /\ m.pc \notin Looping /\ o.pc \in Searching /\ o.pc \notin Committing
    BY <1>1, <2>2 DEF Searching, Looping, Committing
  <2>7. RoomLeft(k, m)
    BY <1>1, <1>3, <2>1, <2>2, <2>5, <2>6, RoomWithin DEF LocateLimits
  <2>8. OperationSound(k, m)
    BY <2>1, <2>4, <2>7 DEF OperationSound
  <2> QED
    BY <2>3, <2>8, OneMoves
<1>6. CASE ~Locate(k)!Restores(t)
  BY <1>1, <1>2, <1>3, <1>4, <1>6, FailStage DEF Searching
<1> QED
  BY <1>5, <1>6

\* The best candidate is to be committed, the others are out.
LEMMA RankBestStep ==
    ASSUME NEW k, LocateLimits(k), OperationsSound(k), NEW t \in k.threads, Locate(k)!RankBest(t)
    PROVE  OperationsSound(k)'
<1> DEFINE o == op[t]
           att == Locate(k)!SkipWaiting(o.att)
<1>1. /\ OperationSound(k, o) /\ o \in Operations(k) /\ o.pc = "rank" /\ o.plan[1] \in SearchStages
      /\ o.att \in Seq(Attempts(k))
  BY DEF OperationsSound, OperationSound, RoomLeft, Searching, Operations, Locate!RankBest, Locate!Pc
<1>2. PICK w \in Locate(k)!Best(t, att) :
          op' = [op EXCEPT ![t] = [o EXCEPT !.pc = "commit", !.win = w, !.att = Locate(k)!MarkOutRanked(t, w, att)]]
  BY DEF Locate!RankBest
<1>3. /\ att \in Seq(Attempts(k)) /\ Len(att) = Len(o.att) /\ DOMAIN att = DOMAIN o.att
      /\ \A j \in DOMAIN o.att : /\ att[j].elig = o.att[j].elig /\ att[j] \in Attempts(k)
                                 /\ att[j].st = IF o.att[j].st = "waiting" THEN "skipped" ELSE o.att[j].st
  BY <1>1, SkipShape
<1> HIDE DEF att
<1> DEFINE c == Locate(k)!MarkOutRanked(t, w, att)
           m == [o EXCEPT !.pc = "commit", !.win = w, !.att = c]
<1>4. w \in DOMAIN o.att /\ w > o.base /\ w \in Nat /\ \A j \in DOMAIN o.att : j > o.base => j \in Locate(k)!Scope(t)
  BY <1>1 DEF Locate!Best, Locate!Segment, Locate!Scope, Operations
<1>5. \A j \in DOMAIN o.att : o.att[j].st \in Closed \cup {"waiting"} \/ (j > o.base /\ o.att[j].elig)
  BY <1>1 DEF OperationSound, OpenCandidates
<1>6. c = [j \in 1 .. Len(o.att) |->
             IF j = w THEN [att[j] EXCEPT !.st = "committing"]
             ELSE IF j \in Locate(k)!Scope(t) /\ att[j].elig THEN [att[j] EXCEPT !.st = "rejected"] ELSE att[j]]
  BY <1>1, <1>3 DEF Locate!MarkOutRanked
<1>7. \A a \in Attempts(k) : \A st \in Marks : [a EXCEPT !.st = st] \in Attempts(k)
  BY Zenon DEF Attempts
<1>8. c \in Seq(Attempts(k)) /\ Len(c) = Len(o.att) /\ DOMAIN c = DOMAIN o.att
  <2>1. c \in [1 .. Len(o.att) -> Attempts(k)]
    <3>1. {"committing", "rejected"} \subseteq Marks
      BY DEF Marks, Closed
    <3> QED
      BY <1>1, <1>3, <1>6, <1>7, <3>1
  <2> HIDE DEF c
  <2> QED
    BY <1>1, <2>1
<1>9. \A j \in DOMAIN o.att : j # w => c[j].st \in Closed
  <2> SUFFICES ASSUME NEW j \in DOMAIN o.att, j # w PROVE c[j].st \in Closed
    OBVIOUS
  <2>1. c[j] = IF j \in Locate(k)!Scope(t) /\ att[j].elig THEN [att[j] EXCEPT !.st = "rejected"] ELSE att[j]
    BY <1>1, <1>6
  <2>2. CASE j \in Locate(k)!Scope(t) /\ att[j].elig
    BY <1>3, <2>1, <2>2 DEF Attempts, Closed
  <2>3. CASE ~(j \in Locate(k)!Scope(t) /\ att[j].elig)
    BY <1>3, <1>4, <1>5, <2>1, <2>3 DEF Closed
  <2> QED
    BY <2>2, <2>3
<1> HIDE DEF c
<1>10. m \in Operations(k)
  BY <1>1, <1>4, <1>8, Zenon DEF Operations, Steps, Committing
<1>11. m.att = c /\ m.plan = o.plan /\ m.base = o.base /\ m.pc = "commit" /\ m.win = w
  BY <1>1 DEF Operations
<1>12. op' = [op EXCEPT ![t] = m]
  BY <1>2 DEF c
<1> HIDE DEF m
<1>13. OpenCandidates(m)
  BY <1>4, <1>8, <1>9, <1>11 DEF OpenCandidates, Looping, Committing
<1>14. RoomLeft(k, m)
  <2>1. Len(o.att) <= o.base + StageSize(k, o.plan[1])
    BY <1>1 DEF OperationSound, RoomLeft, Searching
  <2>2. m.pc \in Committing /\ m.pc \notin Looping /\ o.pc \in Searching /\ o.pc \notin Committing
    BY <1>1, <1>11 DEF Searching, Looping, Committing
  <2> QED
    BY <1>1, <1>8, <1>10, <1>11, <2>1, <2>2, RoomWithin DEF LocateLimits
<1>15. OperationSound(k, m)
  BY <1>10, <1>13, <1>14 DEF OperationSound
<1> QED
  BY <1>12, <1>15, OneMoves

\* The operator's pose is the only candidate.
LEMMA PoseBeginStep ==
    ASSUME NEW k, LocateLimits(k), OperationsSound(k), NEW t \in k.threads, Locate(k)!PoseBegin(t)
    PROVE  OperationsSound(k)'
<1> DEFINE o == op[t]
           a == Locate(k)!Attempt("committing")
           m == [o EXCEPT !.pc = "commit", !.att = <<a>>, !.win = 1]
<1>1. OperationSound(k, o) /\ o \in Operations(k) /\ o.pc = "begin" /\ o.plan[1] = "pose" /\ o.base = 0 /\ o.plan \in Planned(k)
  BY DEF OperationsSound, OperationSound, RoomLeft, Locate!PoseBegin, Locate!Pc, Locate!Stage
<1>2. a \in Attempts(k)
  BY DEF Locate!Attempt, Attempts, Marks
<1>3. op' = [op EXCEPT ![t] = m]
  BY <1>1 DEF Locate!PoseBegin, OperationsSound
<1> HIDE DEF a
<1>4. m \in Operations(k)
  <2>1. <<a>> \in Seq(Attempts(k)) /\ 1 \in Nat
    BY <1>2
  <2> QED
    BY <1>1, <2>1, Zenon DEF Operations, Steps, Committing
<1>5. m.att = <<a>> /\ m.plan = o.plan /\ m.base = 0 /\ m.pc = "commit" /\ m.win = 1
  BY <1>1 DEF Operations
<1> HIDE DEF m
<1>6. OpenCandidates(m)
  BY <1>5 DEF OpenCandidates, Looping, Committing
<1>7. RoomLeft(k, m)
  <2>1. Len(m.att) = 1 /\ StageSize(k, "pose") = 1 /\ Needed(k, "pose") = 1 /\ k.n \in Nat /\ 1 <= 1 + 2 * k.n
    BY <1>5 DEF StageSize, Needed, LocateLimits
  <2> QED
    BY <1>1, <1>5, <2>1 DEF RoomLeft, Searching, Committing, Looping
<1>8. OperationSound(k, m)
  BY <1>4, <1>6, <1>7 DEF OperationSound
<1> QED
  BY <1>3, <1>8, OneMoves

\* An operation ends as it is.
LEMMA EndedStep ==
    ASSUME NEW k, OperationsSound(k), NEW t \in k.threads, op[t].pc # "none", NEW res \in Outcomes,
           res # "superseded" => AllClosed(op[t].att), op' = [op EXCEPT ![t] = Locate(k)!Ended(t, res)]
    PROVE  OperationsSound(k)'
<1> DEFINE o == op[t]
           m == [o EXCEPT !.pc = "ended", !.res = res]
<1>1. OperationSound(k, o) /\ o \in Operations(k)
  BY DEF OperationsSound, OperationSound
<1>2. op' = [op EXCEPT ![t] = m]
  BY DEF Locate!Ended
<1>3. m \in Operations(k)
  BY <1>1, Zenon DEF Operations, Steps
<1>4. m.att = o.att /\ m.plan = o.plan /\ m.pc = "ended" /\ m.res = res
  BY <1>1 DEF Operations
<1> HIDE DEF m
<1>5. OperationSound(k, m)
  BY <1>1, <1>3, <1>4, EndSound
<1> QED
  BY <1>2, <1>5, OneMoves

\* An operation ends with its candidates decided.
LEMMA DecidedStep ==
    ASSUME NEW k, OperationsSound(k), NEW t \in k.threads, op[t].pc # "none", NEW res \in Outcomes,
           NEW att \in Seq(Attempts(k)), Len(att) = Len(op[t].att), AllClosed(att),
           op' = [op EXCEPT ![t] = [Locate(k)!Ended(t, res) EXCEPT !.att = att]]
    PROVE  OperationsSound(k)'
<1> DEFINE o == op[t]
           m == [[o EXCEPT !.pc = "ended", !.res = res] EXCEPT !.att = att]
<1>1. OperationSound(k, o) /\ o \in Operations(k)
  BY DEF OperationsSound, OperationSound
<1>2. op' = [op EXCEPT ![t] = m]
  BY DEF Locate!Ended
<1>3. m \in Operations(k)
  <2>1. [o EXCEPT !.pc = "ended", !.res = res] \in Operations(k)
    BY <1>1, Zenon DEF Operations, Steps
  <2> QED
    BY <2>1, Zenon DEF Operations
<1>4. m.att = att /\ m.plan = o.plan /\ m.pc = "ended" /\ m.res = res
  BY <1>1 DEF Operations
<1> HIDE DEF m
<1>5. OperationSound(k, m)
  BY <1>1, <1>3, <1>4, EndSound
<1> QED
  BY <1>2, <1>5, OneMoves

\* Stages that list no candidate of their own, and superseded operations.
LEMMA EndStep ==
    ASSUME NEW k, LocateLimits(k), OperationsSound(k), NEW t \in k.threads,
           \/ Locate(k)!GlobalDone(t) \/ Locate(k)!GlobalFail(t) \/ Locate(k)!RtkDone(t)
           \/ Locate(k)!RtkFail(t) \/ Locate(k)!Supersede(t)
    PROVE  OperationsSound(k)'
<1> DEFINE o == op[t]
<1>1. OperationSound(k, o) /\ o \in Operations(k)
  BY DEF OperationsSound, OperationSound
<1>2. CASE Locate(k)!GlobalDone(t) \/ Locate(k)!GlobalFail(t) \/ Locate(k)!RtkDone(t) \/ Locate(k)!RtkFail(t)
  <2>1. /\ o.pc \in {"begin", "globalwait", "rtkwait"}
        /\ \E res \in {"accepted", "failed"} : op' = [op EXCEPT ![t] = Locate(k)!Ended(t, res)]
    BY <1>2 DEF Locate!GlobalDone, Locate!GlobalFail, Locate!RtkDone, Locate!RtkFail, Locate!Pc
  <2>2. AllClosed(o.att)
    BY <1>1, <2>1 DEF OperationSound, OpenCandidates
  <2> QED
    BY <2>1, <2>2, EndedStep DEF Outcomes
<1>3. CASE Locate(k)!Supersede(t)
  <2>1. PICK res \in {"failed", "superseded"} :
           /\ op' = [op EXCEPT ![t] = Locate(k)!Ended(t, res)]
           /\ res = "failed" => o.plan[1] = "global"
    BY <1>3 DEF Locate!Supersede, Locate!Stage
  <2>2. o.pc \in {"begin", "loop", "probing", "restore", "restored", "commit", "committing", "globalwait", "rtkprobe", "rtkwait"}
    BY <1>3 DEF Locate!Supersede, Locate!Pc
  <2>3. res = "failed" => o.pc \in {"begin", "globalwait", "rtkprobe", "rtkwait"}
    BY <1>1, <2>1, <2>2 DEF OperationSound, RoomLeft, Searching, Committing, SearchStages
  <2>4. res # "superseded" => AllClosed(o.att)
    BY <1>1, <2>1, <2>3 DEF OperationSound, OpenCandidates
  <2> QED
    BY <2>1, <2>2, <2>4, EndedStep DEF Outcomes
<1> QED
  BY <1>2, <1>3

LEMMA RtkProbedStep ==
    ASSUME NEW k, LocateLimits(k), OperationsSound(k), NEW t \in k.threads, Locate(k)!RtkProbed(t)
    PROVE  OperationsSound(k)'
<1> DEFINE o == op[t]
           m == [o EXCEPT !.pc = "rtkcall"]
<1>1. OperationSound(k, o) /\ o \in Operations(k) /\ o.pc = "rtkprobe"
  BY DEF OperationsSound, OperationSound, Locate!RtkProbed, Locate!Pc
<1>2. CASE op' = [op EXCEPT ![t] = m]
  <2>1. m \in Operations(k)
    BY <1>1, Zenon DEF Operations, Steps
  <2>2. m.att = o.att /\ m.plan = o.plan /\ m.base = o.base /\ m.i = o.i /\ m.win = o.win /\ m.pc = "rtkcall"
    BY <1>1 DEF Operations
  <2> HIDE DEF m
  <2>3. OperationSound(k, m)
    BY <1>1, <2>1, <2>2, PlaceSound DEF LocateLimits
  <2> QED
    BY <1>2, <2>3, OneMoves
<1>3. CASE op' = [op EXCEPT ![t] = Locate(k)!Ended(t, "failed")]
  <2>1. AllClosed(o.att)
    BY <1>1 DEF OperationSound, OpenCandidates
  <2> QED
    BY <1>1, <1>3, <2>1, EndedStep DEF Outcomes
<1> QED
  BY <1>2, <1>3 DEF Locate!RtkProbed

\* The commit stands: the winner is accepted, the others are decided.
LEMMA CommitDoneStep ==
    ASSUME NEW k, LocateLimits(k), OperationsSound(k), NEW t \in k.threads, Locate(k)!CommitDone(t)
    PROVE  OperationsSound(k)'
<1> DEFINE o == op[t]
           att == Locate(k)!Accepted(t)
<1>1. /\ OperationSound(k, o) /\ o \in Operations(k) /\ o.pc = "committing" /\ o.att \in Seq(Attempts(k))
      /\ op' = [op EXCEPT ![t] = [Locate(k)!Ended(t, "accepted") EXCEPT !.att = att]]
  BY DEF OperationsSound, OperationSound, Operations, Locate!CommitDone, Locate!Pc
<1>2. /\ o.win \in DOMAIN o.att /\ o.win \in Locate(k)!Scope(t)
      /\ \A j \in DOMAIN o.att : j # o.win => o.att[j].st \in Closed
  BY <1>1 DEF OperationSound, OpenCandidates, Committing, Operations, Locate!Scope, Locate!Segment
<1>3. \A a \in Attempts(k) : \A st \in Marks : [a EXCEPT !.st = st] \in Attempts(k) /\ [a EXCEPT !.st = st].st = st
  <2>1. \A a \in Attempts(k) : \A st \in Marks : [a EXCEPT !.st = st] \in Attempts(k)
    BY Zenon DEF Attempts
  <2>2. \A a \in Attempts(k) : \A st \in Marks : [a EXCEPT !.st = st].st = st
    BY DEF Attempts
  <2> QED
    BY <2>1, <2>2
<1>4. ASSUME NEW j \in DOMAIN o.att
      PROVE  att[j] \in Attempts(k) /\ att[j].st \in Closed
  <2> DEFINE a == o.att[j]
             mark == IF j \notin Locate(k)!Scope(t) THEN a
                  ELSE IF a.mat = o.att[o.win].mat /\ (a.mat # Locate(k)!NoMatch \/ j = o.win)
                  THEN [a EXCEPT !.st = "accepted"]
                  ELSE IF a.st \in {"rejected", "failed", "waiting"} THEN a
                  ELSE [a EXCEPT !.st = "rejected"]
  <2>1. att[j] = mark
    BY DEF Locate!Accepted
  <2>2. a \in Attempts(k) /\ {"accepted", "rejected"} \subseteq Marks /\ {"accepted", "rejected"} \subseteq Closed
    BY <1>1 DEF Marks, Closed
  <2>3. CASE j = o.win
    BY <1>2, <1>3, <2>1, <2>2, <2>3
  <2>4. CASE j # o.win
    BY <1>2, <1>3, <1>4, <2>1, <2>2, <2>4
  <2> QED
    BY <2>3, <2>4
<1>5. att \in [1 .. Len(o.att) -> Attempts(k)]
  <2>1. DOMAIN att = 1 .. Len(o.att) /\ att = [j \in DOMAIN att |-> att[j]]
    BY <1>1 DEF Locate!Accepted
  <2> HIDE DEF att
  <2> QED
    BY <1>1, <1>4, <2>1
<1> HIDE DEF att
<1>6. att \in Seq(Attempts(k)) /\ Len(att) = Len(o.att) /\ AllClosed(att)
  BY <1>1, <1>4, <1>5 DEF AllClosed
<1> QED
  BY <1>1, <1>6, DecidedStep DEF Outcomes

\* The handoff failed: the next stage, the end, or the operator's pose again.
LEMMA CommitFailStep ==
    ASSUME NEW k, LocateLimits(k), OperationsSound(k), NEW t \in k.threads, Locate(k)!CommitFail(t)
    PROVE  OperationsSound(k)'
<1> DEFINE o == op[t]
           att == [o.att EXCEPT ![o.win].st = "failed"]
<1>1. /\ OperationSound(k, o) /\ o \in Operations(k) /\ o.pc = "committing" /\ o.att \in Seq(Attempts(k))
      /\ o.plan[1] \in SearchStages \cup {"pose"} /\ o.pc \in Committing
  BY DEF OperationsSound, OperationSound, Operations, RoomLeft, Committing, Locate!CommitFail, Locate!Pc
<1>2. /\ o.win \in DOMAIN o.att /\ o.win > o.base
      /\ \A j \in DOMAIN o.att : j # o.win => o.att[j].st \in Closed
  BY <1>1 DEF OperationSound, OpenCandidates
<1>3. \A a \in Attempts(k) : [a EXCEPT !.st = "failed"] \in Attempts(k) /\ [a EXCEPT !.st = "failed"].st = "failed"
  <2>1. \A a \in Attempts(k) : [a EXCEPT !.st = "failed"] \in Attempts(k)
    BY Zenon DEF Attempts, Marks, Closed
  <2>2. \A a \in Attempts(k) : [a EXCEPT !.st = "failed"].st = "failed"
    BY DEF Attempts
  <2> QED
    BY <2>1, <2>2
<1>4. att \in Seq(Attempts(k)) /\ Len(att) = Len(o.att) /\ AllClosed(att)
  <2> DEFINE b == [o.att[o.win] EXCEPT !.st = "failed"]
  <2>1. att = [o.att EXCEPT ![o.win] = b]
    BY <1>1, <1>2
  <2>2. b \in Attempts(k) /\ b.st = "failed"
    BY <1>1, <1>2, <1>3
  <2> HIDE DEF att, b
  <2>3. att \in Seq(Attempts(k)) /\ Len(att) = Len(o.att) /\ DOMAIN att = DOMAIN o.att
        /\ att[o.win].st = "failed" /\ \A j \in DOMAIN o.att \ {o.win} : att[j] = o.att[j]
    BY <1>1, <1>2, <2>1, <2>2
  <2> QED
    BY <1>2, <2>3 DEF AllClosed, Closed
<1>5. \/ op' = [op EXCEPT ![t] = Locate(k)!NextStage(t, att)] /\ o.plan[1] \in {"trusted", "origin"}
      \/ \E res \in {"handoff_failed", "failed"} : op' = [op EXCEPT ![t] = [Locate(k)!Ended(t, res) EXCEPT !.att = att]]
      \/ op' = [op EXCEPT ![t].pc = "commit", ![t].att[1].elig = TRUE]
  BY DEF Locate!CommitFail, Locate!Stage
<1>6. CASE op' = [op EXCEPT ![t] = Locate(k)!NextStage(t, att)] /\ o.plan[1] \in {"trusted", "origin"}
  <2> HIDE DEF att
  <2>1. op' = [op EXCEPT ![t] = Locate(k)!StageFailed(t, att)]
    BY <1>6 DEF Locate!StageFailed, Locate!Stage
  <2> QED
    BY <1>1, <1>4, <1>6, <2>1, FailStage DEF SearchStages
<1>7. CASE \E res \in {"handoff_failed", "failed"} : op' = [op EXCEPT ![t] = [Locate(k)!Ended(t, res) EXCEPT !.att = att]]
  <2> HIDE DEF att
  <2> QED
    BY <1>1, <1>4, <1>7, DecidedStep DEF Outcomes
<1>8. CASE op' = [op EXCEPT ![t].pc = "commit", ![t].att[1].elig = TRUE]
  <2> DEFINE c == [o.att EXCEPT ![1].elig = TRUE]
             m == [o EXCEPT !.pc = "commit", !.att = c]
  <2>1. op' = [op EXCEPT ![t] = m]
    BY <1>1, <1>8 DEF OperationsSound
  <2>2. 1 \in DOMAIN o.att /\ o.att[1] \in Attempts(k)
    BY <1>1, <1>2
  <2>3. c = [o.att EXCEPT ![1] = [o.att[1] EXCEPT !.elig = TRUE]]
    BY <2>2
  <2>4. [o.att[1] EXCEPT !.elig = TRUE] \in Attempts(k) /\ [o.att[1] EXCEPT !.elig = TRUE].st = o.att[1].st
    <3>1. [o.att[1] EXCEPT !.elig = TRUE] \in Attempts(k)
      BY <2>2, Zenon DEF Attempts
    <3> QED
      BY <2>2, <3>1 DEF Attempts
  <2> HIDE DEF c
  <2>5. /\ c \in Seq(Attempts(k)) /\ Len(c) = Len(o.att) /\ DOMAIN c = DOMAIN o.att
        /\ \A j \in DOMAIN o.att : c[j].st = o.att[j].st
    BY <1>1, <2>2, <2>3, <2>4
  <2>6. m \in Operations(k)
    BY <1>1, <2>5, Zenon DEF Operations, Steps, Committing
  <2>7. m.att = c /\ m.plan = o.plan /\ m.base = o.base /\ m.pc = "commit" /\ m.win = o.win
    BY <1>1 DEF Operations
  <2> HIDE DEF m
  <2>8. OpenCandidates(m)
    BY <1>2, <2>5, <2>7 DEF OpenCandidates, Looping, Committing
  <2>9. RoomLeft(k, m)
    <3>1. Len(o.att) <= o.base + StageSize(k, o.plan[1])
      BY <1>1 DEF OperationSound, RoomLeft
    <3>2. m.pc \in Committing /\ m.pc \notin Looping /\ m.pc \notin Searching
      BY <2>7 DEF Searching, Looping, Committing
    <3> QED
      BY <1>1, <2>5, <2>6, <2>7, <3>1, <3>2, RoomWithin DEF LocateLimits
  <2>10. OperationSound(k, m)
    BY <2>6, <2>8, <2>9 DEF OperationSound
  <2> QED
    BY <2>1, <2>10, OneMoves
<1> QED
  BY <1>5, <1>6, <1>7, <1>8

\* Every step of an operation keeps all of them sound.
LEMMA OperationStep ==
    ASSUME NEW k, LocateLimits(k), LocateTyped(k), OperationsSound(k), NEW t \in k.threads,
           Locate(k)!Operation(t)
    PROVE  OperationsSound(k)'
<1>1. trusted \in Poses /\ frozen \in BOOLEAN
  BY DEF LocateTyped
<1>2. CASE Locate(k)!StageBegin(t) \/ Locate(k)!ProbeArm(t) \/ Locate(k)!BudgetSpent(t)
           \/ Locate(k)!ProbePublish(t)
           \/ Locate(k)!ProbeDone(t) \/ Locate(k)!NoSubscriber(t) \/ Locate(k)!RankNone(t)
           \/ Locate(k)!RankBest(t)
  BY <1>1, <1>2, StageBeginStep, ProbeArmStep, LoopStep, PlaceStep, ProbeDoneStep, RankNoneStep, RankBestStep
<1>3. CASE Locate(k)!RestoreArm(t) \/ Locate(k)!RestorePublish(t) \/ Locate(k)!RestoreDone(t)
           \/ Locate(k)!RestoreGone(t)
           \/ Locate(k)!PoseBegin(t) \/ Locate(k)!CommitArm(t) \/ Locate(k)!CommitPublish(t)
           \/ Locate(k)!CommitDone(t)
           \/ Locate(k)!CommitFail(t)
  BY <1>1, <1>3, PlaceStep, RestoredStep, PoseBeginStep, CommitDoneStep, CommitFailStep
<1>4. CASE Locate(k)!GlobalCall(t) \/ Locate(k)!GlobalDone(t) \/ Locate(k)!GlobalFail(t)
           \/ Locate(k)!RtkProbe(t)
           \/ Locate(k)!RtkProbed(t) \/ Locate(k)!RtkCall(t) \/ Locate(k)!RtkDone(t) \/ Locate(k)!RtkFail(t)
           \/ Locate(k)!Supersede(t)
  BY <1>1, <1>4, PlaceStep, EndStep, RtkProbedStep
<1> QED
  BY <1>2, <1>3, <1>4 DEF Locate!Operation

\* Its other effects: the belief, the trusted pose and the flags.
LEMMA OperationTyped ==
    ASSUME NEW k, LocateTyped(k), OperationsSound(k), NEW t \in k.threads, Locate(k)!Operation(t)
    PROVE  LocateTyped(k)' /\ newest' = newest
<1>1. op[t].snap \in Poses /\ op[t].saved \in BOOLEAN
  BY DEF OperationsSound, Operations
<1>2. UNCHANGED <<newest, depth, drv, task>>
  <2>1. CASE Locate(k)!StageBegin(t) \/ Locate(k)!ProbeArm(t) \/ Locate(k)!BudgetSpent(t)
             \/ Locate(k)!ProbePublish(t)
             \/ Locate(k)!ProbeDone(t) \/ Locate(k)!NoSubscriber(t) \/ Locate(k)!RankNone(t)
             \/ Locate(k)!RankBest(t)
    BY <2>1 DEF Locate!StageBegin, Locate!ProbeArm, Locate!BudgetSpent, Locate!ProbePublish, Locate!ProbeDone,
                Locate!NoSubscriber, Locate!RankNone, Locate!RankBest, Locate!callers
  <2>2. CASE Locate(k)!RestoreArm(t) \/ Locate(k)!RestorePublish(t) \/ Locate(k)!RestoreDone(t)
             \/ Locate(k)!RestoreGone(t)
             \/ Locate(k)!PoseBegin(t) \/ Locate(k)!CommitArm(t) \/ Locate(k)!CommitPublish(t)
             \/ Locate(k)!CommitDone(t)
             \/ Locate(k)!CommitFail(t)
    BY <2>2 DEF Locate!RestoreArm, Locate!RestorePublish, Locate!RestoreDone, Locate!RestoreGone,
       Locate!PoseBegin,
                Locate!CommitArm, Locate!CommitPublish, Locate!CommitDone, Locate!CommitFail, Locate!callers
  <2>3. CASE Locate(k)!GlobalCall(t) \/ Locate(k)!GlobalDone(t) \/ Locate(k)!GlobalFail(t)
             \/ Locate(k)!RtkProbe(t)
             \/ Locate(k)!RtkProbed(t) \/ Locate(k)!RtkCall(t) \/ Locate(k)!RtkDone(t) \/ Locate(k)!RtkFail(t)
             \/ Locate(k)!Supersede(t)
    BY <2>3 DEF Locate!GlobalCall, Locate!GlobalDone, Locate!GlobalFail, Locate!RtkProbe, Locate!RtkProbed,
       Locate!RtkCall,
                Locate!RtkDone, Locate!RtkFail, Locate!Supersede, Locate!callers
  <2> QED
    BY <2>1, <2>2, <2>3 DEF Locate!Operation
<1>3. trusted' \in Poses /\ belief' \in Poses
  <2>0. trusted \in Poses /\ belief \in Poses /\ {"none", "official", "probe", "global"} \subseteq Poses
    BY DEF LocateTyped, Poses
  <2>1. CASE Locate(k)!StageBegin(t) \/ Locate(k)!ProbeArm(t) \/ Locate(k)!BudgetSpent(t)
             \/ Locate(k)!ProbePublish(t)
             \/ Locate(k)!ProbeDone(t) \/ Locate(k)!NoSubscriber(t) \/ Locate(k)!RankNone(t)
             \/ Locate(k)!RankBest(t)
    BY <2>0, <2>1
       DEF Locate!StageBegin, Locate!ProbeArm, Locate!BudgetSpent, Locate!ProbePublish, Locate!ProbeDone,
                Locate!NoSubscriber, Locate!RankNone, Locate!RankBest, Locate!node, Locate!Seeds
  <2>2. CASE Locate(k)!RestoreArm(t) \/ Locate(k)!RestorePublish(t) \/ Locate(k)!RestoreDone(t)
             \/ Locate(k)!RestoreGone(t)
             \/ Locate(k)!PoseBegin(t) \/ Locate(k)!CommitArm(t) \/ Locate(k)!CommitPublish(t)
             \/ Locate(k)!CommitDone(t)
             \/ Locate(k)!CommitFail(t)
    BY <1>1, <2>0, <2>2 DEF Locate!RestoreArm, Locate!RestorePublish, Locate!RestoreDone, Locate!RestoreGone,
                Locate!PoseBegin, Locate!CommitArm, Locate!CommitPublish, Locate!CommitDone,
                Locate!CommitFail,
                Locate!node, Locate!Seeds
  <2>3. CASE Locate(k)!GlobalCall(t) \/ Locate(k)!GlobalDone(t) \/ Locate(k)!GlobalFail(t)
             \/ Locate(k)!RtkProbe(t)
             \/ Locate(k)!RtkProbed(t) \/ Locate(k)!RtkCall(t) \/ Locate(k)!RtkDone(t) \/ Locate(k)!RtkFail(t)
             \/ Locate(k)!Supersede(t)
    BY <2>0, <2>3
       DEF Locate!GlobalCall, Locate!GlobalDone, Locate!GlobalFail, Locate!RtkProbe, Locate!RtkProbed,
                Locate!RtkCall, Locate!RtkDone, Locate!RtkFail, Locate!Supersede, Locate!node, Locate!Seeds
  <2> QED
    BY <2>1, <2>2, <2>3 DEF Locate!Operation
<1>4. frozen' \in BOOLEAN /\ lost' \in BOOLEAN /\ latch' \in BOOLEAN
  <2>0. frozen \in BOOLEAN /\ lost \in BOOLEAN /\ latch \in BOOLEAN
    BY DEF LocateTyped
  <2>1. CASE Locate(k)!StageBegin(t) \/ Locate(k)!ProbeArm(t) \/ Locate(k)!BudgetSpent(t)
             \/ Locate(k)!ProbePublish(t)
             \/ Locate(k)!ProbeDone(t) \/ Locate(k)!NoSubscriber(t) \/ Locate(k)!RankNone(t)
             \/ Locate(k)!RankBest(t)
    BY <2>0, <2>1
       DEF Locate!StageBegin, Locate!ProbeArm, Locate!BudgetSpent, Locate!ProbePublish, Locate!ProbeDone,
                Locate!NoSubscriber, Locate!RankNone, Locate!RankBest, Locate!node, Locate!Restores
  <2>2. CASE Locate(k)!RestoreArm(t) \/ Locate(k)!RestorePublish(t) \/ Locate(k)!RestoreDone(t)
             \/ Locate(k)!RestoreGone(t)
             \/ Locate(k)!PoseBegin(t) \/ Locate(k)!CommitArm(t) \/ Locate(k)!CommitPublish(t)
             \/ Locate(k)!CommitDone(t)
             \/ Locate(k)!CommitFail(t)
    BY <2>0, <2>2 DEF Locate!RestoreArm, Locate!RestorePublish, Locate!RestoreDone, Locate!RestoreGone,
                Locate!PoseBegin, Locate!CommitArm, Locate!CommitPublish, Locate!CommitDone,
                Locate!CommitFail,
                Locate!node, Locate!AfterRestore
  <2>3. CASE Locate(k)!GlobalCall(t) \/ Locate(k)!GlobalDone(t) \/ Locate(k)!GlobalFail(t)
             \/ Locate(k)!RtkProbe(t)
             \/ Locate(k)!RtkProbed(t) \/ Locate(k)!RtkCall(t) \/ Locate(k)!RtkDone(t) \/ Locate(k)!RtkFail(t)
             \/ Locate(k)!Supersede(t)
    BY <1>1, <2>0, <2>3
       DEF Locate!GlobalCall, Locate!GlobalDone, Locate!GlobalFail, Locate!RtkProbe, Locate!RtkProbed,
                Locate!RtkCall, Locate!RtkDone, Locate!RtkFail, Locate!Supersede, Locate!node
  <2> QED
    BY <2>1, <2>2, <2>3 DEF Locate!Operation
<1> QED
  BY <1>2, <1>3, <1>4 DEF LocateTyped

\* An operation that moves the pose is, afterwards, at a check or has ended.
LEMMA OperationStray ==
    ASSUME NEW k, LocateTyped(k), OperationsSound(k), StrayStops(k), NEW t \in k.threads,
           Locate(k)!Operation(t)
    PROVE  StrayStops(k)'
<1> DEFINE S == {"probing", "restored", "committing", "globalwait", "rtkwait", "ended"}
<1>0. newest' = newest
  BY OperationTyped
<1>1. op[t] \in Operations(k) /\ op \in [k.threads -> Operations(k)]
  BY DEF OperationsSound
<1>2. ASSUME NEW o, op' = [op EXCEPT ![t] = o], stray' = stray, stray[t] = 1 => o.pc \in S
      PROVE  StrayStops(k)'
  BY <1>0, <1>1, <1>2 DEF StrayStops
<1>3. ASSUME NEW o, op' = [op EXCEPT ![t] = o], o.pc \in S, op[t].pc \notin S,
             stray' = IF newest = t THEN stray ELSE [stray EXCEPT ![t] = @ + 1]
      PROVE  StrayStops(k)'
  <2>1. stray[t] = 0
    BY <1>3 DEF StrayStops
  <2>2. stray' \in [k.threads -> 0 .. 1] /\ \A u \in k.threads \ {t} : stray'[u] = stray[u]
    BY <1>3, <2>1 DEF StrayStops
  <2>3. stray'[t] = 1 => newest # t
    BY <1>3, <2>1
  <2>4. op'[t] = o /\ \A u \in k.threads \ {t} : op'[u] = op[u]
    BY <1>1, <1>3
  <2> QED
    BY <1>0, <1>3, <2>2, <2>3, <2>4 DEF StrayStops
<1>4. CASE Locate(k)!ProbePublish(t) \/ Locate(k)!RestorePublish(t) \/ Locate(k)!CommitPublish(t)
           \/ Locate(k)!GlobalCall(t) \/ Locate(k)!RtkCall(t)
  <2>1. PICK p \in S : op' = [op EXCEPT ![t] = [op[t] EXCEPT !.pc = p]]
    BY <1>4 DEF Locate!ProbePublish, Locate!RestorePublish, Locate!CommitPublish, Locate!GlobalCall,
       Locate!RtkCall
  <2>2. op[t].pc \notin S /\ stray' = IF newest = t THEN stray ELSE [stray EXCEPT ![t] = @ + 1]
    BY <1>4 DEF Locate!ProbePublish, Locate!RestorePublish, Locate!CommitPublish, Locate!GlobalCall,
       Locate!RtkCall,
                Locate!Pc, Locate!Seeds
  <2>3. [op[t] EXCEPT !.pc = p].pc \in S
    BY <1>1 DEF Operations
  <2> QED
    BY <1>3, <2>1, <2>2, <2>3
<1>5. CASE Locate(k)!GlobalFail(t) \/ Locate(k)!RtkFail(t) \/ Locate(k)!Supersede(t)
  <2>1. PICK res : op' = [op EXCEPT ![t] = [op[t] EXCEPT !.pc = "ended", !.res = res]]
    BY <1>5 DEF Locate!GlobalFail, Locate!RtkFail, Locate!Supersede, Locate!Ended
  <2>2. [op[t] EXCEPT !.pc = "ended", !.res = res].pc = "ended"
    BY <1>1 DEF Operations
  <2>3. stray' = stray
    BY <1>5 DEF Locate!GlobalFail, Locate!RtkFail, Locate!Supersede
  <2> QED
    BY <1>2, <2>1, <2>2, <2>3
\* The others follow a check of the generation, or are not at such a place.
<1>6. ASSUME newest = t \/ op[t].pc \notin S, stray' = stray, \A u \in k.threads \ {t} : op'[u] = op[u]
      PROVE  StrayStops(k)'
  <2>1. stray[t] # 1
    BY <1>6 DEF StrayStops
  <2> QED
    BY <1>0, <1>6, <2>1 DEF StrayStops
<1>7. CASE Locate(k)!StageBegin(t) \/ Locate(k)!BudgetSpent(t) \/ Locate(k)!ProbeDone(t)
           \/ Locate(k)!NoSubscriber(t) \/ Locate(k)!RankNone(t) \/ Locate(k)!RankBest(t)
           \/ Locate(k)!RestoreDone(t)
           \/ Locate(k)!RestoreGone(t) \/ Locate(k)!CommitDone(t) \/ Locate(k)!GlobalDone(t)
           \/ Locate(k)!RtkDone(t)
  <2>1. newest = t \/ op[t].pc \notin S
    BY <1>7 DEF Locate!StageBegin, Locate!BudgetSpent, Locate!ProbeDone, Locate!NoSubscriber,
             Locate!RankNone, Locate!RankBest, Locate!RestoreDone, Locate!RestoreGone, Locate!CommitDone,
             Locate!GlobalDone, Locate!RtkDone, Locate!Pc, Locate!Live, Locate!Settled
  <2>2. stray' = stray /\ \A u \in k.threads \ {t} : op'[u] = op[u]
    BY <1>1, <1>7 DEF Locate!StageBegin, Locate!BudgetSpent, Locate!ProbeDone, Locate!NoSubscriber,
             Locate!RankNone, Locate!RankBest, Locate!RestoreDone, Locate!RestoreGone, Locate!CommitDone,
             Locate!GlobalDone, Locate!RtkDone, Locate!AfterRestore
  <2> QED
    BY <1>6, <2>1, <2>2
<1>8. CASE Locate(k)!ProbeArm(t) \/ Locate(k)!RestoreArm(t) \/ Locate(k)!PoseBegin(t)
           \/ Locate(k)!CommitArm(t)
           \/ Locate(k)!CommitFail(t) \/ Locate(k)!RtkProbe(t) \/ Locate(k)!RtkProbed(t)
  <2>1. newest = t
    BY <1>8 DEF Locate!ProbeArm, Locate!RestoreArm, Locate!PoseBegin, Locate!CommitArm, Locate!CommitFail,
             Locate!RtkProbe, Locate!RtkProbed, Locate!Live
  <2>2. stray' = stray
    BY <1>8, <2>1
       DEF Locate!ProbeArm, Locate!RestoreArm, Locate!PoseBegin, Locate!CommitArm, Locate!CommitFail,
             Locate!RtkProbe, Locate!RtkProbed, Locate!Seeds
  <2>3. \A u \in k.threads \ {t} : op'[u] = op[u]
    BY <1>1, <1>8 DEF Locate!ProbeArm, Locate!RestoreArm, Locate!PoseBegin, Locate!CommitArm,
               Locate!CommitFail, Locate!RtkProbe, Locate!RtkProbed
  <2> QED
    BY <1>6, <2>1, <2>2, <2>3
<1> QED
  BY <1>4, <1>5, <1>7, <1>8 DEF Locate!Operation

\* A bounded search keeps the trusted pose until the pose it found is back.
LEMMA OperationRestores ==
    ASSUME NEW k, LocateTyped(k), OperationsSound(k), SearchRestores(k), k.threads = {"oper"},
           Locate(k)!Operation("oper")
    PROVE  SearchRestores(k)'
<1> DEFINE o == op["oper"]
           m == op'["oper"]
<1>1. o \in Operations(k) /\ op \in [{"oper"} -> Operations(k)]
  BY DEF OperationsSound
<1>2. ASSUME m.pc \notin Searching, m.pc \notin {"globalwait", "rtkprobe", "rtkcall", "rtkwait"},
             m.pc = "ended" => m.res # "failed"
      PROVE  SearchRestores(k)'
  BY <1>2 DEF SearchRestores, Searching
<1>3. ASSUME m.plan[1] # "bounded"
      PROVE  SearchRestores(k)'
  BY <1>3 DEF SearchRestores
<1>4. CASE Locate(k)!StageBegin("oper")
  <2>1. frozen' = TRUE /\ trusted' = trusted /\ m.snap = trusted /\ m.pc \in {"rank", "loop"}
    BY <1>1, <1>4 DEF Locate!StageBegin, Locate!node, Operations
  <2> QED
    BY <2>1 DEF SearchRestores
<1>5. CASE Locate(k)!ProbeArm("oper") \/ Locate(k)!BudgetSpent("oper") \/ Locate(k)!ProbePublish("oper")
           \/ Locate(k)!ProbeDone("oper") \/ Locate(k)!NoSubscriber("oper")
  <2>1. frozen' = frozen /\ trusted' = trusted
    BY <1>5 DEF Locate!ProbeArm, Locate!BudgetSpent, Locate!ProbePublish, Locate!ProbeDone,
       Locate!NoSubscriber, Locate!node
  <2>2. o.pc \in {"loop", "armed", "probing"}
    BY <1>5 DEF Locate!ProbeArm, Locate!BudgetSpent, Locate!ProbePublish, Locate!ProbeDone,
       Locate!NoSubscriber, Locate!Pc
  <2>3. m.snap = o.snap /\ m.plan = o.plan /\ m.pc \in {"loop", "armed", "probing", "rank"}
    <3>1. CASE Locate(k)!ProbeArm("oper")
      BY <1>1, <3>1 DEF Locate!ProbeArm, Operations
    <3>2. CASE Locate(k)!BudgetSpent("oper")
      <4>1. Locate(k)!AfterLoop("oper") \in {"rank", "loop"}
        BY DEF Locate!AfterLoop
      <4> QED
        BY <1>1, <3>2, <4>1 DEF Locate!BudgetSpent, Operations
    <3>3. CASE Locate(k)!ProbePublish("oper")
      BY <1>1, <3>3 DEF Locate!ProbePublish, Operations
    <3>4. CASE Locate(k)!ProbeDone("oper")
      <4>1. PICK r \in Locate(k)!ProbeResults :
               op' = [op EXCEPT !["oper"] =
                        [o EXCEPT !.att[o.base + o.i] =
                                    [st |-> IF r.elig THEN "qualified" ELSE "rejected", elig |-> r.elig, mat |-> r.mat],
                                  !.i = o.i + 1,
                                  !.pc = IF r.opt /\ Locate(k)!Stage("oper") # "route" THEN "rank"
                                         ELSE Locate(k)!AfterLoop("oper")]]
        BY <3>4 DEF Locate!ProbeDone
      <4>2. Locate(k)!AfterLoop("oper") \in {"rank", "loop"}
        BY DEF Locate!AfterLoop
      <4> QED
        BY <1>1, <4>1, <4>2 DEF Operations
    <3>5. CASE Locate(k)!NoSubscriber("oper")
      <4>1. PICK a, j, p : p \in {"rank", "loop"} /\ m = [o EXCEPT !.att = a, !.i = j, !.pc = p]
        BY <1>1, <3>5 DEF Locate!NoSubscriber, Locate!AfterLoop
      <4> QED
        BY <1>1, <4>1 DEF Operations
    <3> QED
      BY <1>5, <3>1, <3>2, <3>3, <3>4, <3>5
  <2> QED
    BY <2>1, <2>2, <2>3 DEF SearchRestores, Searching
<1>6. CASE Locate(k)!RankNone("oper")
  <2>1. o.pc = "rank" /\ trusted' = trusted /\ frozen' = Locate(k)!Restores("oper")
    BY <1>6 DEF Locate!RankNone, Locate!Pc, Locate!node
  <2>2. CASE Locate(k)!Restores("oper")
    <3>1. m.plan = o.plan /\ m.snap = o.snap /\ m.pc = "restore" /\ o.snap # "none" /\ frozen'
      BY <1>1, <1>6, <2>1, <2>2 DEF Locate!RankNone, Locate!Restores, Operations
    <3> QED
      BY <2>1, <3>1 DEF SearchRestores, Searching
  <2>3. CASE ~Locate(k)!Restores("oper")
    <3>1. o.plan[1] = "bounded" => o.snap = "none"
      BY <2>3 DEF Locate!Restores, Locate!Stage, Locate!Bounded
    <3>2. o.plan[1] = "bounded" => m.pc = "ended" /\ m.snap = o.snap /\ m.plan = o.plan
      BY <1>1, <1>6, <2>3 DEF Locate!RankNone, Locate!StageFailed, Locate!Stage, Locate!Ended, Operations
    <3>3. o.plan[1] # "bounded" => m.pc = "begin"
      BY <1>1, <1>6, <2>3 DEF Locate!RankNone, Locate!StageFailed, Locate!Stage, Locate!NextStage, Operations
    <3> QED
      BY <3>1, <3>2, <3>3, <1>2 DEF SearchRestores, Searching
  <2> QED
    BY <2>2, <2>3
<1>7. CASE Locate(k)!RestoreArm("oper")
  <2>1. /\ o.pc = "restore" /\ UNCHANGED <<frozen, trusted>> /\ m.plan = o.plan /\ m.snap = o.snap /\ m.pc = "restoring"
    BY <1>1, <1>7 DEF Locate!RestoreArm, Locate!Pc, Locate!node, Operations
  <2> QED
    BY <2>1 DEF SearchRestores, Searching
<1>8. CASE Locate(k)!RestorePublish("oper")
  <2>1. /\ o.pc = "restoring" /\ UNCHANGED <<frozen, trusted>> /\ m.plan = o.plan /\ m.snap = o.snap /\ m.pc = "restored"
        /\ belief' = o.snap
    BY <1>1, <1>8 DEF Locate!RestorePublish, Locate!Pc, Locate!Seeds, Operations
  <2> QED
    BY <2>1 DEF SearchRestores, Searching
<1>9. CASE Locate(k)!RestoreDone("oper") \/ Locate(k)!RestoreGone("oper")
  <2>1. /\ o.pc \in {"restore", "restored"} /\ trusted' = trusted
        /\ belief' = "none" \/ (o.pc = "restored" /\ belief' = belief)
    BY <1>9 DEF Locate!RestoreDone, Locate!RestoreGone, Locate!Pc, Locate!node
  <2>2. CASE o.plan[1] = "bounded"
    <3>1. m.pc = "ended" /\ m.snap = o.snap /\ m.plan = o.plan
      <4>1. m = [[o EXCEPT !.pc = "ended", !.res = "failed"] EXCEPT !.att = o.att]
        BY <1>1, <1>9, <2>2
           DEF Locate!RestoreDone, Locate!RestoreGone, Locate!AfterRestore, Locate!StageFailed,
                                Locate!Stage, Locate!Ended
      <4>2. m = [o EXCEPT !.pc = "ended", !.res = "failed", !.att = o.att]
        BY <4>1
      <4> QED
        BY <1>1, <4>2 DEF Operations
    <3> QED
      BY <2>1, <2>2, <3>1 DEF SearchRestores, Searching
  <2>3. CASE o.plan[1] # "bounded"
    <3>1. m.pc = "begin"
      BY <1>1, <1>9, <2>3 DEF Locate!RestoreDone, Locate!RestoreGone, Locate!AfterRestore,
         Locate!StageFailed, Locate!Stage, Locate!NextStage, Operations
    <3> QED
      BY <1>2, <3>1 DEF Searching
  <2> QED
    BY <2>2, <2>3
<1>10. CASE Locate(k)!RankBest("oper") \/ Locate(k)!PoseBegin("oper") \/ Locate(k)!CommitArm("oper")
            \/ Locate(k)!CommitPublish("oper")
            \/ Locate(k)!CommitDone("oper")
  <2>1. m.pc \in {"commit", "carmed", "committing"} \/ (m.pc = "ended" /\ m.res = "accepted")
    <3>1. CASE Locate(k)!RankBest("oper")
      <4> DEFINE skipped == Locate(k)!SkipWaiting(o.att)
      <4>1. PICK w \in Locate(k)!Best("oper", skipped) :
                op' = [op EXCEPT !["oper"] = [o EXCEPT !.pc = "commit", !.win = w,
                                                       !.att = Locate(k)!MarkOutRanked("oper", w, skipped)]]
        BY <3>1 DEF Locate!RankBest
      <4> QED
        BY <1>1, <4>1 DEF Operations
    <3>2. CASE Locate(k)!PoseBegin("oper")
      <4>1. PICK a : m = [o EXCEPT !.pc = "commit", !.att = a, !.win = 1]
        BY <1>1, <3>2 DEF Locate!PoseBegin
      <4> QED
        BY <1>1, <4>1 DEF Operations
    <3>3. CASE Locate(k)!CommitArm("oper")
      BY <1>1, <3>3 DEF Locate!CommitArm, Operations
    <3>4. CASE Locate(k)!CommitPublish("oper")
      BY <1>1, <3>4 DEF Locate!CommitPublish, Operations
    <3>5. CASE Locate(k)!CommitDone("oper")
      <4>1. PICK a : m = [[o EXCEPT !.pc = "ended", !.res = "accepted"] EXCEPT !.att = a]
        BY <1>1, <3>5 DEF Locate!CommitDone, Locate!Ended
      <4>2. m = [o EXCEPT !.pc = "ended", !.res = "accepted", !.att = a]
        BY <4>1
      <4> QED
        BY <1>1, <4>2 DEF Operations
    <3> QED
      BY <1>10, <3>1, <3>2, <3>3, <3>4, <3>5
  <2> QED
    BY <1>2, <2>1 DEF Searching
<1>11. CASE Locate(k)!CommitFail("oper")
  <2>1. \/ m.pc \in {"commit", "begin"} \/ (m.pc = "ended" /\ m.res = "handoff_failed")
        \/ m.plan = o.plan /\ o.plan[1] = "pose"
    <3> DEFINE att == [o.att EXCEPT ![o.win].st = "failed"]
    <3>1. \/ m = [o EXCEPT !.pc = "begin", !.plan = Tail(o.plan), !.att = att]
          \/ m = [[o EXCEPT !.pc = "ended", !.res = "handoff_failed"] EXCEPT !.att = att]
          \/ o.plan[1] = "pose" /\ m = [[o EXCEPT !.pc = "ended", !.res = "failed"] EXCEPT !.att = att]
          \/ \E a : m = [o EXCEPT !.pc = "commit", !.att = a]
      BY <1>1, <1>11 DEF Locate!CommitFail, Locate!Stage, Locate!NextStage, Locate!Ended
    <3> HIDE DEF att
    <3>2. CASE m = [o EXCEPT !.pc = "begin", !.plan = Tail(o.plan), !.att = att]
      BY <1>1, <3>2 DEF Operations
    <3>3. CASE m = [[o EXCEPT !.pc = "ended", !.res = "handoff_failed"] EXCEPT !.att = att]
      <4>1. m = [o EXCEPT !.pc = "ended", !.res = "handoff_failed", !.att = att]
        BY <3>3
      <4> QED
        BY <1>1, <4>1 DEF Operations
    <3>4. CASE o.plan[1] = "pose" /\ m = [[o EXCEPT !.pc = "ended", !.res = "failed"] EXCEPT !.att = att]
      <4>1. m = [o EXCEPT !.pc = "ended", !.res = "failed", !.att = att]
        BY <3>4
      <4> QED
        BY <1>1, <3>4, <4>1 DEF Operations
    <3>5. CASE \E a : m = [o EXCEPT !.pc = "commit", !.att = a]
      BY <1>1, <3>5 DEF Operations
    <3> QED
      BY <3>1, <3>2, <3>3, <3>4, <3>5
  <2> QED
    BY <1>2, <1>3, <2>1 DEF Searching
<1>12. CASE Locate(k)!GlobalCall("oper") \/ Locate(k)!GlobalDone("oper") \/ Locate(k)!GlobalFail("oper")
            \/ Locate(k)!RtkProbe("oper")
            \/ Locate(k)!RtkProbed("oper") \/ Locate(k)!RtkCall("oper") \/ Locate(k)!RtkDone("oper")
            \/ Locate(k)!RtkFail("oper")
  <2>1. o.plan[1] \in {"global", "rtk"} \/ o.pc \in {"globalwait", "rtkprobe", "rtkcall", "rtkwait"}
    BY <1>12 DEF Locate!GlobalCall, Locate!GlobalDone, Locate!GlobalFail, Locate!RtkProbe, Locate!RtkProbed,
       Locate!RtkCall,
                 Locate!RtkDone, Locate!RtkFail, Locate!Pc, Locate!Stage
  <2>2. o.plan[1] # "bounded"
    BY <2>1 DEF SearchRestores
  <2>3. m.plan = o.plan
    BY <1>1, <1>12 DEF Locate!GlobalCall, Locate!GlobalDone, Locate!GlobalFail, Locate!RtkProbe,
       Locate!RtkProbed, Locate!RtkCall,
                 Locate!RtkDone, Locate!RtkFail, Locate!Ended, Operations
  <2> QED
    BY <1>3, <2>2, <2>3
<1>13. CASE Locate(k)!Supersede("oper")
  <2>1. m.plan = o.plan /\ m.pc = "ended" /\ (m.res = "superseded" \/ o.plan[1] = "global")
    BY <1>1, <1>13 DEF Locate!Supersede, Locate!Stage, Locate!Ended, Operations
  <2> QED
    BY <1>2, <1>3, <2>1 DEF Searching
<1> QED
  BY <1>4, <1>5, <1>6, <1>7, <1>8, <1>9, <1>10, <1>11, <1>12, <1>13 DEF Locate!Operation

\* A new operation has an empty list, with room for all its stages.
LEMMA LaunchStep ==
    ASSUME NEW k, LocateLimits(k), OperationsSound(k), StrayStops(k), NEW t \in k.threads,
           NEW plan \in Planned(k),
           Locate(k)!Launch(t, plan)
    PROVE  OperationsSound(k)' /\ StrayStops(k)' /\ newest' = t /\ op'[t].pc = "begin"
<1> DEFINE m == [Locate(k)!NoOp EXCEPT !.pc = "begin", !.plan = plan, !.many = Len(plan) > 1]
           s == plan[1]
<1>2. op' = [op EXCEPT ![t] = m] /\ newest' = t /\ stray' = [stray EXCEPT ![t] = 0]
  BY DEF Locate!Launch
<1>3. << >> \in Seq(Attempts(k)) /\ Len(<< >>) = 0 /\ DOMAIN << >> = {}
  BY EmptySeq
<1>4. m \in Operations(k)
  <2>1. "begin" \in Steps /\ "none" \in Poses /\ "none" \in Outcomes /\ (Len(plan) > 1) \in BOOLEAN
    BY DEF Steps, Poses, Outcomes
  <2>2. "none" \in Steps /\ 0 \in Nat /\ << >> \in Planned(k) \cup {<< >>} /\ plan \in Planned(k) \cup {<< >>}
    BY DEF Steps
  <2>3. Locate(k)!NoOp \in Operations(k)
    BY <1>3, <2>1, <2>2, Zenon DEF Operations, Locate!NoOp
  <2> QED
    BY <2>1, <2>2, <2>3, Zenon DEF Operations
<1>5. m.pc = "begin" /\ m.plan = plan /\ m.att = << >> /\ m.base = 0
  BY DEF Locate!NoOp
<1> HIDE DEF m
<1>6. Needed(k, s) <= 1 + 2 * k.n
  BY DEF LocateLimits, Needed, StageSize
<1>7. OpenCandidates(m)
  BY <1>3, <1>5 DEF OpenCandidates, AllClosed, Looping, Committing
<1>8. RoomLeft(k, m)
  <2>1. Needed(k, s) \in Nat /\ k.n \in Nat
    BY StageFits DEF LocateLimits
  <2>2. Len(m.att) = 0 /\ m.plan[1] = s
    BY <1>3, <1>5
  <2>3. 0 <= 1 + 2 * k.n /\ 0 + Needed(k, s) <= 1 + 2 * k.n
    BY <1>6, <2>1
  <2> QED
    BY <1>5, <2>2, <2>3 DEF RoomLeft, Searching, Looping, Committing
<1>9. OperationSound(k, m)
  BY <1>4, <1>7, <1>8 DEF OperationSound
<1>10. OperationsSound(k)'
  BY <1>2, <1>9, OneMoves
<1>11. op'[t] = m /\ \A u \in k.threads \ {t} : op'[u] = op[u]
  BY <1>2 DEF OperationsSound
<1>12. stray' \in [k.threads -> 0 .. 1] /\ stray'[t] = 0 /\ \A u \in k.threads \ {t} : stray'[u] = stray[u]
  BY <1>2 DEF StrayStops
<1>13. StrayStops(k)'
  BY <1>2, <1>11, <1>12 DEF StrayStops
<1> QED
  BY <1>2, <1>5, <1>10, <1>11, <1>13

\* A caller that starts no operation, and may cancel the newest.
LEMMA QuietStep ==
    ASSUME NEW k, OperationsSound(k), StrayStops(k), op' = op, stray' = stray, newest' \in {newest, "nobody"},
           k.threads \subseteq {"oper", "auto", "start"}
    PROVE  OperationsSound(k)' /\ StrayStops(k)'
<1>1. OperationsSound(k)'
  BY DEF OperationsSound
<1>2. \A t \in k.threads : t # "nobody"
  OBVIOUS
<1> QED
  BY <1>1, <1>2 DEF StrayStops

\* A worker other than the operator's moves on.
LEMMA WorkerMoves ==
    ASSUME NEW k, LocateTyped(k), NEW t \in {"auto", "start"}, NEW where \in Posts, Locate(k)!Go(t, where),
           depth' = depth
    PROVE  /\ drv' \in [k.threads -> Posts]
           /\ depth' = IF "oper" \in k.threads /\ drv'["oper"] # "idle" THEN 1 ELSE 0
<1>1. drv' = [drv EXCEPT ![t] = where] /\ drv \in [k.threads -> Posts]
  BY DEF Locate!Go, LocateTyped
<1>2. drv' \in [k.threads -> Posts]
  BY <1>1
<1>3. "oper" \in k.threads => drv'["oper"] = drv["oper"]
  BY <1>1
<1> QED
  BY <1>2, <1>3 DEF LocateTyped

\* Nothing but the place of a worker changes.
LEMMA WorkerGoes ==
    ASSUME NEW k, LocateLimits(k), LocateInv(k), NEW t \in {"auto", "start"}, t \in k.threads,
           NEW where \in Posts,
           Locate(k)!Go(t, where), UNCHANGED <<newest, frozen, trusted, belief, lost, latch, depth, task, op, stray>>
    PROVE  LocateInv(k)'
<1>1. LocateTyped(k)'
  BY WorkerMoves DEF LocateInv, LocateTyped
<1>2. OperationsSound(k)' /\ StrayStops(k)'
  BY QuietStep DEF LocateInv, LocateLimits
<1>3. SearchRestores(k)'
  BY DEF SearchRestores
<1> QED
  BY <1>1, <1>2, <1>3 DEF LocateInv

\* A worker starts an operation.
LEMMA WorkerLaunches ==
    ASSUME NEW k, LocateLimits(k), LocateInv(k), NEW t \in {"auto", "start"}, t \in k.threads,
           NEW where \in Posts,
           Locate(k)!Go(t, where), NEW plan \in Planned(k), Locate(k)!Launch(t, plan),
           UNCHANGED <<frozen, trusted, belief, lost, latch, depth, task>>
    PROVE  LocateInv(k)'
<1>1. OperationsSound(k)' /\ StrayStops(k)' /\ newest' = t
  BY LaunchStep DEF LocateInv
<1>2. LocateTyped(k)'
  BY <1>1, WorkerMoves DEF LocateInv, LocateTyped
<1>3. SearchRestores(k)'
  BY DEF SearchRestores
<1> QED
  BY <1>1, <1>2, <1>3 DEF LocateInv


\* The operator's scope: its depth is the operator's being anywhere but idle.
LEMMA OperatorStep ==
    ASSUME NEW k, LocateLimits(k), LocateInv(k), Locate(k)!OperBegin \/ Locate(k)!OperRun \/ Locate(k)!OperEnd
    PROVE  LocateInv(k)'
<1>1. /\ "oper" \in k.threads /\ LocateTyped(k) /\ drv \in [k.threads -> Posts]
      /\ depth = IF drv["oper"] # "idle" THEN 1 ELSE 0
  BY DEF LocateInv, LocateTyped, Locate!OperBegin, Locate!OperRun, Locate!OperEnd
<1>2. CASE Locate(k)!OperBegin \/ Locate(k)!OperEnd
  <2>1. UNCHANGED <<newest, frozen, trusted, belief, task, op, stray>>
    BY <1>2 DEF Locate!OperBegin, Locate!OperEnd, Locate!node
  <2>2. PICK where \in Posts :
            drv' = [drv EXCEPT !["oper"] = where] /\ depth' = IF where # "idle" THEN 1 ELSE 0
    BY <1>1, <1>2 DEF Locate!OperBegin, Locate!OperEnd, Locate!Go, Locate!Finished, Posts
  <2>3. lost' \in BOOLEAN /\ latch' \in BOOLEAN
    BY <1>1, <1>2 DEF Locate!OperBegin, Locate!OperEnd, Locate!node, Locate!LatchAfterOperator, LocateTyped
  <2>4. drv' \in [k.threads -> Posts] /\ drv'["oper"] = where
    BY <1>1, <2>2
  <2>5. LocateTyped(k)'
    BY <1>1, <2>1, <2>2, <2>3, <2>4 DEF LocateTyped
  <2>6. OperationsSound(k)' /\ StrayStops(k)'
    BY <2>1, QuietStep DEF LocateInv, LocateLimits
  <2>7. SearchRestores(k)'
    BY <2>1 DEF LocateInv, SearchRestores
  <2> QED
    BY <2>5, <2>6, <2>7 DEF LocateInv
<1>3. CASE Locate(k)!OperRun
  <2>1. PICK plan \in k.oper : Locate(k)!Launch("oper", plan)
    BY <1>3 DEF Locate!OperRun
  <2>2. OperationsSound(k)' /\ StrayStops(k)' /\ newest' = "oper" /\ op'["oper"].pc = "begin"
    BY <1>1, <2>1, LaunchStep DEF LocateInv, LocateLimits
  <2>3. /\ UNCHANGED <<frozen, trusted, belief, lost, latch, depth, task>> /\ depth = 1
        /\ drv' = [drv EXCEPT !["oper"] = "running"]
    BY <1>1, <1>3 DEF Locate!OperRun, Locate!node, Locate!Go
  <2>4. drv' \in [k.threads -> Posts] /\ drv'["oper"] = "running"
    BY <1>1, <2>3 DEF Posts
  <2>5. LocateTyped(k)'
    BY <1>1, <2>2, <2>3, <2>4 DEF LocateTyped
  <2>6. SearchRestores(k)'
    BY <2>2 DEF SearchRestores, Searching
  <2> QED
    BY <2>2, <2>5, <2>6 DEF LocateInv
<1> QED
  BY <1>2, <1>3

\* The automatic recovery: it moves on, starts an operation, or its task is over.
LEMMA AutoStep ==
    ASSUME NEW k, LocateLimits(k), LocateInv(k),
           \/ Locate(k)!AutoEnter \/ Locate(k)!AutoSearch \/ Locate(k)!AutoSeed \/ Locate(k)!AutoGlobal
           \/ Locate(k)!AutoSearched \/ Locate(k)!AutoSeeded \/ Locate(k)!AutoGlobaled \/ Locate(k)!AutoRetry
           \/ Locate(k)!AutoExhausted \/ Locate(k)!AutoCancelled \/ Locate(k)!AutoLeave \/ Locate(k)!Teardown
    PROVE  LocateInv(k)'
<1>1. "auto" \in k.threads
  BY DEF Locate!AutoEnter, Locate!AutoSearch, Locate!AutoSeed, Locate!AutoGlobal, Locate!AutoSearched,
     Locate!AutoSeeded,
         Locate!AutoGlobaled, Locate!AutoRetry, Locate!AutoExhausted, Locate!AutoCancelled, Locate!AutoLeave,
         Locate!Teardown, Locate!AutoAt, Locate!AutoNext, Locate!AutoAfter
<1>2. SearchRestores(k)'
  BY <1>1 DEF SearchRestores
<1>3. ASSUME NEW where \in Posts, Locate(k)!AutoGoes(where)
      PROVE  LocateInv(k)'
  <2>1. Locate(k)!Go("auto", where) /\ UNCHANGED <<newest, frozen, trusted, belief, lost, latch, depth, task, op, stray>>
    BY <1>3 DEF Locate!AutoGoes, Locate!node
  <2> QED
    BY <1>1, <2>1, WorkerGoes
<1>4. CASE \/ Locate(k)!AutoEnter \/ Locate(k)!AutoSearched \/ Locate(k)!AutoSeeded \/ Locate(k)!AutoGlobaled
           \/ Locate(k)!AutoRetry \/ Locate(k)!AutoCancelled \/ Locate(k)!AutoLeave
  <2>1. \E where \in Posts : Locate(k)!AutoGoes(where)
    BY <1>4
       DEF Locate!AutoEnter, Locate!AutoSearched, Locate!AutoSeeded, Locate!AutoGlobaled, Locate!AutoRetry,
                Locate!AutoCancelled, Locate!AutoLeave, Locate!AutoAfter, Posts
  <2> QED
    BY <1>3, <2>1
<1>5. CASE Locate(k)!AutoSearch
  <2>1. PICK plan \in k.search : Locate(k)!Launch("auto", plan)
    BY <1>5 DEF Locate!AutoSearch
  <2>2. Locate(k)!Go("auto", "running") /\ UNCHANGED <<frozen, trusted, belief, lost, latch, depth, task>>
    BY <1>5 DEF Locate!AutoSearch, Locate!node
  <2> QED
    BY <1>1, <2>1, <2>2, WorkerLaunches DEF LocateLimits, Posts
<1>6. CASE Locate(k)!AutoSeed \/ Locate(k)!AutoGlobal
  <2>1. <<"bounded">> \in Planned(k) /\ <<"global">> \in Planned(k)
    BY DEF Planned, Locate!Progressive
  <2>2. PICK plan \in Planned(k), then \in Posts :
            \/ /\ Locate(k)!Launch("auto", plan) /\ Locate(k)!Go("auto", then)
               /\ UNCHANGED <<frozen, trusted, belief, lost, latch, depth, task>>
            \/ Locate(k)!AutoGoes("leaving")
    BY <1>6, <2>1 DEF Locate!AutoSeed, Locate!AutoGlobal, Locate!AutoNext, Locate!node, Posts
  <2> QED
    BY <1>1, <1>3, <2>2, WorkerLaunches DEF Posts
<1>7. CASE Locate(k)!AutoExhausted
  <2>1. /\ task' = FALSE /\ Locate(k)!Go("auto", "leaving")
        /\ UNCHANGED <<newest, frozen, trusted, belief, lost, latch, depth, op, stray>>
    BY <1>7 DEF Locate!AutoExhausted, Locate!node
  <2>2. LocateTyped(k)'
    BY <2>1, WorkerMoves DEF LocateInv, LocateTyped, Posts
  <2>3. OperationsSound(k)' /\ StrayStops(k)'
    BY <2>1, QuietStep DEF LocateInv, LocateLimits
  <2> QED
    BY <1>2, <2>2, <2>3 DEF LocateInv
<1>8. CASE Locate(k)!Teardown
  <2>1. /\ task' = FALSE /\ newest' = "nobody" /\ latch' = FALSE
        /\ UNCHANGED <<frozen, trusted, belief, lost, depth, drv, op, stray>>
    BY <1>8 DEF Locate!Teardown, Locate!Nobody
  <2>2. LocateTyped(k)'
    BY <2>1 DEF LocateInv, LocateTyped
  <2>3. OperationsSound(k)' /\ StrayStops(k)'
    BY <2>1, QuietStep DEF LocateInv, LocateLimits
  <2> QED
    BY <1>2, <2>2, <2>3 DEF LocateInv
<1> QED
  BY <1>4, <1>5, <1>6, <1>7, <1>8

\* The startup of a task.
LEMMA StartupStep ==
    ASSUME NEW k, LocateLimits(k), LocateInv(k),
           \/ Locate(k)!StartBegin \/ Locate(k)!StartReuse \/ Locate(k)!StartSearch \/ Locate(k)!StartSearched
           \/ Locate(k)!StartCorrected \/ Locate(k)!StartReleaseReused \/ Locate(k)!StartAccept
           \/ Locate(k)!StartFail
           \/ Locate(k)!StartOver
    PROVE  LocateInv(k)'
<1>1. "start" \in k.threads
  BY DEF Locate!StartBegin, Locate!StartReuse, Locate!StartSearch, Locate!StartSearched,
     Locate!StartCorrected,
         Locate!StartReleaseReused, Locate!StartAccept, Locate!StartFail, Locate!StartOver, Locate!StartAt
<1>2. SearchRestores(k)'
  BY <1>1 DEF SearchRestores
<1>3. CASE \/ Locate(k)!StartReuse \/ Locate(k)!StartSearched \/ Locate(k)!StartCorrected
           \/ Locate(k)!StartReleaseReused \/ Locate(k)!StartFail
  <2>1. PICK where \in Posts : Locate(k)!StartGoes(where)
    BY <1>3 DEF Locate!StartReuse, Locate!StartSearched, Locate!StartCorrected, Locate!StartReleaseReused,
       Locate!StartFail, Posts
  <2>2. Locate(k)!Go("start", where) /\ UNCHANGED <<newest, frozen, trusted, belief, lost, latch, depth, task, op, stray>>
    BY <2>1 DEF Locate!StartGoes, Locate!node
  <2> QED
    BY <1>1, <2>2, WorkerGoes
<1>4. CASE Locate(k)!StartSearch
  <2>1. PICK plan \in k.search : Locate(k)!Launch("start", plan)
    BY <1>4 DEF Locate!StartSearch
  <2>2. Locate(k)!Go("start", "running") /\ UNCHANGED <<frozen, trusted, belief, lost, latch, depth, task>>
    BY <1>4 DEF Locate!StartSearch, Locate!node
  <2> QED
    BY <1>1, <2>1, <2>2, WorkerLaunches DEF LocateLimits, Posts
<1>5. CASE Locate(k)!StartBegin \/ Locate(k)!StartAccept \/ Locate(k)!StartOver
  <2>0. "none" \in Poses /\ trusted \in Poses /\ belief \in Poses /\ task \in BOOLEAN /\ frozen \in BOOLEAN /\ latch \in BOOLEAN
    BY DEF Poses, LocateInv, LocateTyped
  <2>1. /\ UNCHANGED <<belief, lost, depth, op, stray>> /\ newest' \in {newest, "nobody"}
        /\ \E where \in Posts : Locate(k)!Go("start", where)
    BY <1>5 DEF Locate!StartBegin, Locate!StartAccept, Locate!StartOver, Locate!Nobody, Posts
  <2>2. trusted' \in Poses
    BY <1>5, <2>0 DEF Locate!StartBegin, Locate!StartAccept, Locate!StartOver
  <2>3. frozen' \in BOOLEAN /\ latch' \in BOOLEAN /\ task' \in BOOLEAN
    BY <1>5, <2>0 DEF Locate!StartBegin, Locate!StartAccept, Locate!StartOver
  <2>4. LocateTyped(k)'
    BY <2>1, <2>2, <2>3, WorkerMoves DEF LocateInv, LocateTyped
  <2>5. OperationsSound(k)' /\ StrayStops(k)'
    BY <2>1, QuietStep DEF LocateInv, LocateLimits
  <2> QED
    BY <1>2, <2>4, <2>5 DEF LocateInv
<1> QED
  BY <1>3, <1>4, <1>5

\* A localization sample: the trusted pose follows the belief only while it is
\* not frozen, and after a bounded search the belief is where it began.
LEMMA SampleStep ==
    ASSUME NEW k, LocateLimits(k), LocateInv(k), Locate(k)!SampleNormal \/ Locate(k)!SampleLost
    PROVE  LocateInv(k)'
<1>1. CASE Locate(k)!SampleNormal
  <2>1. /\ belief # "none" /\ lost' = FALSE /\ latch' = FALSE
        /\ UNCHANGED <<newest, frozen, belief, depth, task, drv, op, stray>>
        /\ trusted' = trusted \/ (~frozen /\ trusted' = belief)
    BY <1>1 DEF Locate!SampleNormal, Locate!callers, LocateInv, LocateTyped
  <2>2. LocateTyped(k)'
    BY <2>1 DEF LocateInv, LocateTyped
  <2>3. OperationsSound(k)' /\ StrayStops(k)'
    BY <2>1, QuietStep DEF LocateInv, LocateLimits
  <2>4. SearchRestores(k)'
    BY <2>1 DEF LocateInv, SearchRestores
  <2> QED
    BY <2>2, <2>3, <2>4 DEF LocateInv
<1>2. CASE Locate(k)!SampleLost
  <2>1. lost' = TRUE /\ UNCHANGED <<newest, frozen, trusted, belief, depth, task, op, stray>>
    BY <1>2 DEF Locate!SampleLost
  <2>2. /\ latch' = latch \/ latch' = TRUE
        /\ drv' = drv \/ (\E where \in Posts : Locate(k)!Go("auto", where))
    BY <1>2 DEF Locate!SampleLost, Posts
  <2>3. /\ drv' \in [k.threads -> Posts]
        /\ depth' = IF "oper" \in k.threads /\ drv'["oper"] # "idle" THEN 1 ELSE 0
    BY <2>1, <2>2, WorkerMoves DEF LocateInv, LocateTyped
  <2>4. LocateTyped(k)'
    BY <2>1, <2>2, <2>3 DEF LocateInv, LocateTyped
  <2>5. OperationsSound(k)' /\ StrayStops(k)'
    BY <2>1, QuietStep DEF LocateInv, LocateLimits
  <2>6. SearchRestores(k)'
    BY <2>1 DEF LocateInv, SearchRestores
  <2> QED
    BY <2>4, <2>5, <2>6 DEF LocateInv
<1> QED
  BY <1>1, <1>2

\* No operation, no caller and no sample breaks it.
LEMMA LocateStep ==
    ASSUME NEW k, LocateLimits(k), LocateInv(k), Locate(k)!Next
    PROVE  LocateInv(k)'
<1>1. ASSUME NEW t \in k.threads, Locate(k)!Operation(t)
      PROVE  LocateInv(k)'
  <2>1. OperationsSound(k)' /\ LocateTyped(k)' /\ StrayStops(k)'
    BY <1>1, OperationStep, OperationTyped, OperationStray DEF LocateInv
  <2>2. SearchRestores(k)'
    <3>1. CASE k.threads = {"oper"}
      BY <1>1, <3>1, OperationRestores DEF LocateInv
    <3>2. CASE k.threads # {"oper"}
      BY <3>2 DEF SearchRestores
    <3> QED
      BY <3>1, <3>2
  <2> QED
    BY <2>1, <2>2 DEF LocateInv
<1>2. CASE Locate(k)!Callers
  BY <1>2, OperatorStep, AutoStep, StartupStep DEF Locate!Callers
<1>3. CASE Locate(k)!SampleNormal \/ Locate(k)!SampleLost
  BY <1>3, SampleStep
<1> QED
  BY <1>1, <1>2, <1>3 DEF Locate!Next

LEMMA LocateInit ==
    ASSUME NEW k, LocateLimits(k), Locate(k)!Init
    PROVE  LocateInv(k)
<1> DEFINE m == Locate(k)!NoOp
<1>1. /\ newest = "nobody" /\ depth = 0 /\ frozen = FALSE /\ trusted = "official" /\ belief = "official"
      /\ lost = FALSE /\ latch = FALSE /\ task \in BOOLEAN
      /\ drv = [t \in k.threads |-> "idle"] /\ op = [t \in k.threads |-> m] /\ stray = [t \in k.threads |-> 0]
  BY DEF Locate!Init, Locate!Nobody
<1>2. LocateTyped(k)
  BY <1>1 DEF LocateTyped, Poses, Posts
<1>3. << >> \in Seq(Attempts(k)) /\ Len(<< >>) = 0 /\ DOMAIN << >> = {}
  BY EmptySeq
<1>4. m \in Operations(k)
  <2>1. "none" \in Steps /\ "none" \in Poses /\ "none" \in Outcomes /\ 0 \in Nat /\ << >> \in Planned(k) \cup {<< >>}
    BY DEF Steps, Poses, Outcomes
  <2> QED
    BY <1>3, <2>1, Zenon DEF Operations, Locate!NoOp
<1>5. m.pc = "none" /\ m.att = << >>
  BY DEF Locate!NoOp
<1> HIDE DEF m
<1>6. OpenCandidates(m)
  BY <1>3, <1>5 DEF OpenCandidates, AllClosed, Looping, Committing
<1>7. RoomLeft(k, m)
  <2>1. 0 <= 1 + 2 * k.n /\ Len(m.att) = 0
    BY <1>3, <1>5 DEF LocateLimits
  <2> QED
    BY <1>5, <2>1 DEF RoomLeft, Searching, Looping, Committing
<1>8. OperationsSound(k)
  BY <1>1, <1>4, <1>6, <1>7 DEF OperationsSound, OperationSound
<1>9. StrayStops(k)
  BY <1>1 DEF StrayStops
<1>10. SearchRestores(k)
  BY <1>1, <1>5 DEF SearchRestores
<1> QED
  BY <1>2, <1>8, <1>9, <1>10 DEF LocateInv

\* What the invariant says of a localization operation.
LEMMA LocateSound ==
    ASSUME NEW k, LocateLimits(k), LocateInv(k)
    PROVE  /\ Locate(k)!TypeOK /\ Locate(k)!NothingPending /\ Locate(k)!StrayBounded
           /\ k.threads = {"oper"} => Locate(k)!FailedSearchRestores
<1>1. Locate(k)!TypeOK
  <2>1. \A t \in k.threads : Len(op[t].att) <= 1 + 2 * k.n
    BY DEF LocateInv, OperationsSound, OperationSound, RoomLeft
  <2>2. depth \in 0 .. 1
    BY DEF LocateInv, LocateTyped
  <2> QED
    BY <2>1, <2>2 DEF LocateInv, LocateTyped, Poses, Locate!TypeOK, Locate!Nobody
<1>2. Locate(k)!NothingPending
  BY DEF LocateInv, OperationsSound, OperationSound, OpenCandidates, AllClosed, Closed,
     Locate!NothingPending, Locate!Pc
<1>3. Locate(k)!StrayBounded
  BY DEF LocateInv, StrayStops, Locate!StrayBounded
<1>4. k.threads = {"oper"} => Locate(k)!FailedSearchRestores
  BY DEF LocateInv, SearchRestores, Locate!FailedSearchRestores, Locate!Pc, Locate!Stage
<1> QED
  BY <1>1, <1>2, <1>3, <1>4

LEMMA LocateKeeps ==
    ASSUME NEW k, LocateLimits(k), LocateInv(k), [Locate(k)!Next]_(Locate(k)!vars)
    PROVE  LocateInv(k)'
<1>1. CASE Locate(k)!Next
  BY <1>1, LocateStep
<1>2. CASE UNCHANGED Locate(k)!vars
  BY <1>2 DEF Locate!vars, LocateInv, LocateTyped, OperationsSound, StrayStops, SearchRestores
<1> QED
  BY <1>1, <1>2

\* A superseded operation moves the pose at most once more, an operation that
\* ended by itself leaves no candidate open (_assert_localization_operation,
\* _skip_waiting_attempts), and where only the operator localizes a bounded
\* search without a result puts back the pose it found (_restore_official_pose).
THEOREM SearchesEverEndCleanly ==
    ASSUME NEW k, LocateLimits(k)
    PROVE  Locate(k)!Spec =>
               [](/\ Locate(k)!NothingPending /\ Locate(k)!StrayBounded
                  /\ k.threads = {"oper"} => Locate(k)!FailedSearchRestores)
<1>1. Locate(k)!Init => LocateInv(k)
  BY LocateInit
<1>2. LocateInv(k) /\ [Locate(k)!Next]_(Locate(k)!vars) => LocateInv(k)'
  BY LocateKeeps
<1>3. LocateInv(k) => /\ Locate(k)!NothingPending /\ Locate(k)!StrayBounded
                      /\ k.threads = {"oper"} => Locate(k)!FailedSearchRestores
  BY LocateSound
<1> QED
  BY <1>1, <1>2, <1>3, PTL DEF Locate!Spec

-----------------------------------------------------------------------------
(* Charging, for any record k of its bounds. *)

\* That a request begins one charge is inductive with its types.  That a
\* discharge raises one alert is not: it needs that the episode stays latched as
\* long as the battery has not recovered, and that no observer still holds a
\* sample of the recovered battery when another sees it low.

\* The confirmation samples are a count (_low_battery_samples, _full_samples).
ChargeLimits == Samples \in Nat

PowerModes == {"normal", "cooling"}
PowerTransitions == {"ready", "entering", "restoring", "error"}
ChargeStages == {"idle", "waiting", "starting", "current", "charging", "thermal", "stopping", "error"}
Powers == [mode : PowerModes, trans : PowerTransitions, auto : BOOLEAN, stage : ChargeStages]
Counters == [full : 0 .. Samples, low : 0 .. Samples, hot : BOOLEAN]
InHand(k) == {o \in k.observers : obs[o].pc = "act"}

\* The persisted power state, the counters, the request and the history.
ChargeTyped(k) ==
    /\ pm \in Powers /\ count \in Counters
    /\ charge \in BOOLEAN /\ low \in BOOLEAN
    /\ wanted \in Nat /\ begun \in Nat /\ alerts \in Nat
    /\ level \in 1 .. 4
    /\ DOMAIN obs = k.observers /\ \A o \in InHand(k) : obs[o].level \in 1 .. 4

\* A sample in hand is at most one band from the battery.
SamplesAreFresh(k) ==
    \A o \in InHand(k) : obs[o].level <= level + 1 /\ level <= obs[o].level + 1

\* Nobody holds a sample above the rearm level while another holds a low one.
SamplesAgree(k) ==
    \A o, p \in InHand(k) : obs[o].level = 1 => obs[p].level <= 2

\* An alert of this discharge stays latched, and nobody holds a sample that
\* could release it.
AlertIsLatched(k) ==
    alerts > 0 => low /\ level <= 2 /\ \A o \in InHand(k) : obs[o].level <= 2

ChargeInv(k) == ChargeTyped(k) /\ Charge(k)!BegunPerRequest /\ SamplesAreFresh(k) /\ SamplesAgree(k) /\ AlertIsLatched(k)
        /\ Charge(k)!OneAlertPerDischarge
-----------------------------------------------------------------------------
(* What steps have in common. *)

\* No new sample: those in hand are used up or stay as they are.
SamplesKept(k) ==
    DOMAIN obs' = k.observers /\ \A o \in k.observers : obs'[o].pc = "act" => obs'[o] = obs[o]

LEMMA KeptSamples ==
    ASSUME NEW k, ChargeTyped(k), SamplesAreFresh(k), SamplesAgree(k), SamplesKept(k), level' = level
    PROVE  /\ \A o \in InHand(k)' : obs'[o].level \in 1 .. 4
           /\ SamplesAreFresh(k)' /\ SamplesAgree(k)'
           /\ (\A o \in InHand(k) : obs[o].level <= 2) => \A o \in InHand(k)' : obs'[o].level <= 2
<1>1. \A o \in InHand(k)' : o \in InHand(k) /\ obs'[o] = obs[o]
  BY DEF InHand, SamplesKept
<1> QED
  BY <1>1 DEF ChargeTyped, SamplesAreFresh, SamplesAgree

\* The budget of requests after a step that begins no charge.
LEMMA NothingBegun ==
    ASSUME NEW k, ChargeTyped(k), Charge(k)!BegunPerRequest, begun' = begun,
           charge' = FALSE \/ charge' = charge,
           wanted' = wanted
    PROVE  Charge(k)!BegunPerRequest' /\ charge' \in BOOLEAN
<1>1. CASE charge' = charge
  BY <1>1 DEF ChargeTyped, Charge!BegunPerRequest
<1>2. CASE charge' = FALSE
  <2>1. begun + 0 <= wanted
    BY DEF ChargeTyped, Charge!BegunPerRequest
  <2>2. (IF charge' THEN 1 ELSE 0) = 0
    BY <1>2
  <2> QED
    BY <1>2, <2>1, <2>2 DEF Charge!BegunPerRequest
<1> QED
  BY <1>1, <1>2

\* A step of a worker or of the surroundings that leaves the request, the
\* counters, the episode and the samples alone.
ChargeQuiet ==
    pm' \in Powers /\ UNCHANGED <<charge, count, low, level, obs, wanted, begun, alerts>>

LEMMA ChargeQuietKeeps ==
    ASSUME NEW k, ChargeInv(k), ChargeQuiet
    PROVE  ChargeInv(k)'
<1>1. ChargeTyped(k)' /\ InHand(k)' = InHand(k)
  BY DEF ChargeInv, ChargeQuiet, ChargeTyped, InHand
<1>2. Charge(k)!BegunPerRequest'
  BY DEF ChargeInv, ChargeQuiet, Charge!BegunPerRequest
<1>3. SamplesAreFresh(k)' /\ SamplesAgree(k)' /\ AlertIsLatched(k)' /\ Charge(k)!OneAlertPerDischarge'
  BY <1>1
     DEF ChargeInv, ChargeQuiet, SamplesAreFresh, SamplesAgree, AlertIsLatched, Charge!OneAlertPerDischarge
<1> QED
  BY <1>1, <1>2, <1>3 DEF ChargeInv

\* A step that may withdraw a request, forget samples and reset counters.
Withdrawing(k) ==
    /\ pm' \in Powers /\ count' \in Counters /\ SamplesKept(k)
    /\ charge' = FALSE \/ charge' = charge
    /\ UNCHANGED <<low, level, wanted, begun, alerts>>

LEMMA WithdrawingKeeps ==
    ASSUME NEW k, ChargeInv(k), Withdrawing(k)
    PROVE  ChargeInv(k)'
<1>1. /\ \A o \in InHand(k)' : obs'[o].level \in 1 .. 4
      /\ SamplesAreFresh(k)' /\ SamplesAgree(k)'
      /\ (\A o \in InHand(k) : obs[o].level <= 2) => \A o \in InHand(k)' : obs'[o].level <= 2
  BY KeptSamples DEF ChargeInv, Withdrawing
<1>2. Charge(k)!BegunPerRequest' /\ charge' \in BOOLEAN
  BY NothingBegun DEF ChargeInv, Withdrawing
<1>3. ChargeTyped(k)'
  BY <1>1, <1>2 DEF ChargeInv, Withdrawing, ChargeTyped, SamplesKept
<1>4. AlertIsLatched(k)' /\ Charge(k)!OneAlertPerDischarge'
  BY <1>1 DEF ChargeInv, Withdrawing, AlertIsLatched, Charge!OneAlertPerDischarge
<1> QED
  BY <1>1, <1>2, <1>3, <1>4 DEF ChargeInv

\* What is shown of the power state is typed.
LEMMA PowersTyped ==
    ASSUME NEW k, pm \in Powers, NEW s \in ChargeStages
    PROVE  Charge(k)!Stage(s) \in Powers
BY DEF Powers, Charge!Stage
-----------------------------------------------------------------------------
(* The actions, by what they touch. *)

\* The command, the pile, the motion components and the surroundings.
LEMMA MovingIsQuiet ==
    ASSUME NEW k, ChargeTyped(k),
           \/ \E c \in k.commands : Charge(k)!Command(c)
           \/ Charge(k)!StartPile \/ Charge(k)!Undock \/ Charge(k)!MotionStop \/ Charge(k)!RetryPile
           \/ Charge(k)!Alert \/ Charge(k)!Touch \/ Charge(k)!Heat \/ Charge(k)!InhibitEnds
           \/ \E w \in {"cmd", "begin"} : Charge(k)!BeginMotion(w)
           \/ \E w \in {"cmd", "complete"} : Charge(k)!MotionCheck(w) \/ Charge(k)!MotionStart(w)
    PROVE  ChargeQuiet
<1> USE DEF ChargeQuiet, ChargeTyped, Charge!flags, Charge!robot, Charge!history
<1>1. CASE \E c \in k.commands : Charge(k)!Command(c)
  BY <1>1 DEF Charge!Command
<1>2. CASE Charge(k)!StartPile \/ Charge(k)!Undock \/ Charge(k)!MotionStop \/ Charge(k)!RetryPile
           \/ Charge(k)!Alert
  BY <1>2 DEF Charge!StartPile, Charge!Undock, Charge!MotionStop, Charge!RetryPile, Charge!Alert
<1>3. CASE Charge(k)!Touch \/ Charge(k)!Heat \/ Charge(k)!InhibitEnds
  BY <1>3 DEF Charge!Touch, Charge!Heat, Charge!InhibitEnds
<1>4. CASE \E w \in {"cmd", "begin"} : Charge(k)!BeginMotion(w)
  BY <1>4 DEF Charge!BeginMotion
<1>5. CASE \E w \in {"cmd", "complete"} : Charge(k)!MotionCheck(w) \/ Charge(k)!MotionStart(w)
  BY <1>5 DEF Charge!MotionCheck, Charge!MotionStart
<1> QED
  BY <1>1, <1>2, <1>3, <1>4, <1>5

\* The steps of a charge and of its end that persist a power state.
LEMMA PersistingIsQuiet ==
    ASSUME NEW k, ChargeTyped(k),
           \/ \E w \in {"cmd", "begin"} : Charge(k)!BeginCool(w) \/ Charge(k)!BeginServices(w)
                                          \/ Charge(k)!BeginConfirm(w)
           \/ \E w \in {"cmd", "complete"} : Charge(k)!StopReturn(w) \/ Charge(k)!StopClear(w)
           \/ \E w \in {"cmd", "complete", "stale"} : Charge(k)!Restore(w) \/ Charge(k)!StartNormalServices(w)
    PROVE  ChargeQuiet
<1>1. CASE \E w \in {"cmd", "begin"} : Charge(k)!BeginCool(w) \/ Charge(k)!BeginServices(w)
                                           \/ Charge(k)!BeginConfirm(w)
  <2>1. UNCHANGED <<charge, count, low, level, obs, wanted, begun, alerts>>
    BY <1>1 DEF Charge!BeginCool, Charge!BeginServices, Charge!BeginConfirm, Charge!flags, Charge!robot,
       Charge!history
  <2>2. pm' \in Powers
    BY <1>1 DEF Charge!BeginCool, Charge!BeginServices, Charge!BeginConfirm, ChargeTyped, Powers, PowerModes,
       PowerTransitions, ChargeStages
  <2> QED
    BY <2>1, <2>2 DEF ChargeQuiet
<1>2. CASE \E w \in {"cmd", "complete"} : Charge(k)!StopReturn(w) \/ Charge(k)!StopClear(w)
  <2>1. UNCHANGED <<charge, count, low, level, obs, wanted, begun, alerts>>
    BY <1>2 DEF Charge!StopReturn, Charge!StopClear, Charge!flags, Charge!robot, Charge!history
  <2>2. pm' \in Powers
    BY <1>2 DEF Charge!StopReturn, Charge!StopClear, Charge!Stage, ChargeTyped, Powers, ChargeStages
  <2> QED
    BY <2>1, <2>2 DEF ChargeQuiet
<1>3. CASE \E w \in {"cmd", "complete", "stale"} : Charge(k)!Restore(w) \/ Charge(k)!StartNormalServices(w)
  <2>1. UNCHANGED <<charge, count, low, level, obs, wanted, begun, alerts>>
    BY <1>3 DEF Charge!Restore, Charge!StartNormalServices, Charge!flags, Charge!robot, Charge!history
  <2>2. pm' \in Powers
    BY <1>3 DEF Charge!Restore, Charge!StartNormalServices, ChargeTyped, Powers, PowerModes, PowerTransitions
  <2> QED
    BY <2>1, <2>2 DEF ChargeQuiet
<1> QED
  BY <1>1, <1>2, <1>3

\* A stop, the end of the monitor, a stale state, the wait for contact and a
\* restart begin no charge and see no new sample.
LEMMA StoppingWithdraws ==
    ASSUME NEW k, ChargeLimits, ChargeTyped(k),
           \/ Charge(k)!StartWait \/ Charge(k)!MonitorEnd \/ Charge(k)!Restart
           \/ \E w \in {"cmd", "complete"} : Charge(k)!StopBegin(w)
           \/ \E o \in k.observers : Charge(k)!ObserveStale(o)
    PROVE  Withdrawing(k)
<1> USE DEF Charge!flags, Charge!robot, Charge!history, ChargeTyped, Charge!NoSample
<1>1. CASE Charge(k)!StartWait
  <2>1. pm' \in Powers
    BY <1>1, PowersTyped DEF Charge!StartWait, ChargeStages
  <2>2. SamplesKept(k)
    BY <1>1 DEF Charge!StartWait, SamplesKept
  <2> QED
    BY <1>1, <2>1, <2>2 DEF Charge!StartWait, Withdrawing
<1>2. CASE Charge(k)!MonitorEnd
  <2>1. pm' \in Powers
    BY <1>2, PowersTyped DEF Charge!MonitorEnd, ChargeStages
  <2>2. SamplesKept(k)
    BY <1>2 DEF Charge!MonitorEnd, SamplesKept
  <2> QED
    BY <1>2, <2>1, <2>2 DEF Charge!MonitorEnd, Withdrawing
<1>3. CASE Charge(k)!Restart
  <2>1. pm' \in Powers
    BY <1>3 DEF Charge!Restart, Powers, PowerTransitions
  <2>2. count' \in Counters
    BY <1>3 DEF Charge!Restart, Charge!NoCount, Counters, ChargeLimits
  <2>3. SamplesKept(k)
    BY <1>3 DEF Charge!Restart, SamplesKept
  <2> QED
    BY <1>3, <2>1, <2>2, <2>3 DEF Charge!Restart, Withdrawing
<1>4. CASE \E w \in {"cmd", "complete"} : Charge(k)!StopBegin(w)
  <2>1. pm' \in Powers
    BY <1>4 DEF Charge!StopBegin, Powers, ChargeStages
  <2>2. count' \in Counters
    BY <1>4 DEF Charge!StopBegin, Counters, ChargeLimits
  <2>3. SamplesKept(k)
    BY <1>4 DEF Charge!StopBegin, SamplesKept
  <2> QED
    BY <1>4, <2>1, <2>2, <2>3 DEF Charge!StopBegin, Withdrawing
<1>5. CASE \E o \in k.observers : Charge(k)!ObserveStale(o)
  <2>1. pm' \in Powers
    BY <1>5 DEF Charge!ObserveStale, Powers, ChargeStages
  <2>2. SamplesKept(k)
    BY <1>5 DEF Charge!ObserveStale, SamplesKept
  <2> QED
    BY <1>5, <2>1, <2>2 DEF Charge!ObserveStale, Withdrawing
<1> QED
  BY <1>1, <1>2, <1>3, <1>4, <1>5
\* _start_charge: a request more, and a charge may begin for it.
LEMMA StartBeginKeeps ==
    ASSUME NEW k, ChargeInv(k), Charge(k)!StartBegin
    PROVE  ChargeInv(k)'
<1>1. /\ charge' = TRUE /\ wanted' = wanted + 1
      /\ count' = [count EXCEPT !.hot = FALSE]
      /\ UNCHANGED <<pm, low, level, obs, begun, alerts>>
  BY DEF Charge!StartBegin, Charge!robot
<1>2. ChargeTyped(k)' /\ InHand(k)' = InHand(k)
  <2>1. count' \in Counters
    BY <1>1 DEF ChargeInv, ChargeTyped, Counters
  <2>2. charge' \in BOOLEAN /\ wanted' \in Nat
    BY <1>1 DEF ChargeInv, ChargeTyped
  <2> QED
    BY <1>1, <2>1, <2>2 DEF ChargeInv, ChargeTyped, InHand
<1>3. Charge(k)!BegunPerRequest'
  <2>1. begun <= wanted
    BY DEF ChargeInv, ChargeTyped, Charge!BegunPerRequest
  <2> QED
    BY <1>1, <2>1 DEF ChargeInv, ChargeTyped, Charge!BegunPerRequest
<1>4. SamplesAreFresh(k)' /\ SamplesAgree(k)' /\ AlertIsLatched(k)' /\ Charge(k)!OneAlertPerDischarge'
  BY <1>1, <1>2 DEF ChargeInv, SamplesAreFresh, SamplesAgree, AlertIsLatched, Charge!OneAlertPerDischarge
<1> QED
  BY <1>2, <1>3, <1>4 DEF ChargeInv

\* _begin_charge: whoever comes first takes the request, and it is gone.
LEMMA BeginTakeKeeps ==
    ASSUME NEW k, ChargeInv(k), NEW w \in {"cmd", "begin"}, Charge(k)!BeginTake(w)
    PROVE  ChargeInv(k)'
<1>1. /\ charge' = FALSE
      /\ \/ charge /\ pm' = Charge(k)!Stage("starting") /\ begun' = begun + 1
         \/ ~charge /\ UNCHANGED <<pm, begun>>
      /\ UNCHANGED <<count, low, level, obs, wanted, alerts>>
  BY DEF Charge!BeginTake, Charge!Take, Charge!robot
<1>2. pm' \in Powers /\ begun' \in Nat
  BY <1>1, PowersTyped DEF ChargeInv, ChargeTyped, ChargeStages
<1>3. ChargeTyped(k)' /\ InHand(k)' = InHand(k)
  BY <1>1, <1>2 DEF ChargeInv, ChargeTyped, InHand
<1>4. Charge(k)!BegunPerRequest'
  BY <1>1 DEF ChargeInv, ChargeTyped, Charge!BegunPerRequest
<1>5. SamplesAreFresh(k)' /\ SamplesAgree(k)' /\ AlertIsLatched(k)' /\ Charge(k)!OneAlertPerDischarge'
  BY <1>1, <1>3 DEF ChargeInv, SamplesAreFresh, SamplesAgree, AlertIsLatched, Charge!OneAlertPerDischarge
<1> QED
  BY <1>3, <1>4, <1>5 DEF ChargeInv

\* A new sample shows the battery as it is.
LEMMA PollKeeps ==
    ASSUME NEW k, ChargeInv(k), NEW o \in k.observers, Charge(k)!Poll(o)
    PROVE  ChargeInv(k)'
<1>1. /\ obs' = [obs EXCEPT ![o] = Charge(k)!Power]
      /\ UNCHANGED <<pm, charge, count, low, level, wanted, begun, alerts>>
  BY DEF Charge!Poll, Charge!flags, Charge!robot, Charge!history
<1>2. /\ DOMAIN obs' = k.observers /\ obs'[o] = Charge(k)!Power /\ Charge(k)!Power.level = level
      /\ \A p \in k.observers \ {o} : obs'[p] = obs[p]
  BY <1>1 DEF ChargeInv, ChargeTyped, Charge!Power
<1>3. \A p \in InHand(k)' :
         (p = o /\ obs'[p].level = level) \/ (p \in InHand(k) /\ obs'[p] = obs[p])
  <2> SUFFICES ASSUME NEW p \in InHand(k)', p # o
               PROVE  p \in InHand(k) /\ obs'[p] = obs[p]
    BY <1>2
  <2>1. p \in k.observers /\ obs'[p].pc = "act"
    BY DEF InHand
  <2> QED
    BY <1>2, <2>1 DEF InHand
<1>4. ChargeTyped(k)'
  BY <1>1, <1>2, <1>3 DEF ChargeInv, ChargeTyped
<1>5. SamplesAreFresh(k)'
  BY <1>1, <1>3 DEF ChargeInv, ChargeTyped, SamplesAreFresh
<1>6. SamplesAgree(k)'
  <2> SUFFICES ASSUME NEW p \in InHand(k)', NEW q \in InHand(k)', obs'[p].level = 1
               PROVE  obs'[q].level <= 2
    BY DEF SamplesAgree
  <2>1. CASE p \in InHand(k) /\ obs'[p] = obs[p] /\ q \in InHand(k) /\ obs'[q] = obs[q]
    BY <2>1 DEF ChargeInv, SamplesAgree
  <2>2. CASE obs'[p].level = level
    BY <1>3, <2>2 DEF ChargeInv, ChargeTyped, SamplesAreFresh
  <2>3. CASE obs'[q].level = level
    BY <1>3, <2>3 DEF ChargeInv, ChargeTyped, SamplesAreFresh
  <2> QED
    BY <1>3, <2>1, <2>2, <2>3
<1>7. AlertIsLatched(k)' /\ Charge(k)!OneAlertPerDischarge' /\ Charge(k)!BegunPerRequest'
  BY <1>1, <1>3 DEF ChargeInv, AlertIsLatched, Charge!OneAlertPerDischarge, Charge!BegunPerRequest
<1> QED
  BY <1>4, <1>5, <1>6, <1>7 DEF ChargeInv

\* The battery recovers or runs down by one band, and not past a sample.
LEMMA BatteryKeeps ==
    ASSUME NEW k, ChargeInv(k), NEW l \in 1 .. 4, Charge(k)!Battery(l)
    PROVE  ChargeInv(k)'
<1>1. /\ level' = l /\ alerts' = IF l >= 3 THEN 0 ELSE alerts
      /\ UNCHANGED <<pm, charge, count, low, obs, wanted, begun>>
  BY DEF Charge!Battery, Charge!flags
<1>2. \A o \in InHand(k) : obs[o].level <= l + 1 /\ l <= obs[o].level + 1
  BY DEF Charge!Battery, InHand
<1>3. ChargeTyped(k)' /\ InHand(k)' = InHand(k)
  BY <1>1 DEF ChargeInv, ChargeTyped, InHand
<1>4. SamplesAreFresh(k)' /\ SamplesAgree(k)' /\ Charge(k)!BegunPerRequest'
  BY <1>1, <1>2, <1>3 DEF ChargeInv, SamplesAreFresh, SamplesAgree, Charge!BegunPerRequest
<1>5. AlertIsLatched(k)' /\ Charge(k)!OneAlertPerDischarge'
  <2>1. CASE l >= 3
    BY <1>1, <2>1 DEF AlertIsLatched, Charge!OneAlertPerDischarge
  <2>2. CASE ~(l >= 3)
    BY <1>1, <1>3, <2>2 DEF ChargeInv, AlertIsLatched, Charge!OneAlertPerDischarge
  <2> QED
    BY <2>1, <2>2
<1> QED
  BY <1>3, <1>4, <1>5 DEF ChargeInv

\* A sample judged while a charge runs: the full and thermal counters move.
LEMMA ObserveChargeWithdraws ==
    ASSUME NEW k, ChargeLimits, ChargeTyped(k), NEW o \in k.observers, NEW due \in BOOLEAN,
           Charge(k)!ObserveCharge(o, due)
    PROVE  Withdrawing(k)
<1> DEFINE s == obs[o]
           full == IF s.level = 4 /\ s.pile = "lying" THEN count.full + 1 ELSE 0
           done == full >= Samples /\ Charge(k)!At("complete", "idle")
           retries == due /\ count.hot /\ ~s.thermal /\ ~s.charging /\ Charge(k)!At("retry", "idle")
           auto == pm.auto /\ ~done
           hot == s.thermal \/ (count.hot /\ ~s.charging /\ ~retries)
           kept == IF done THEN 0 ELSE IF full > Samples THEN Samples ELSE full
<1>1. /\ pm' = [pm EXCEPT !.stage = Charge(k)!Seen(s), !.auto = auto]
      /\ count' = [count EXCEPT !.full = kept, !.hot = hot]
      /\ obs' = [obs EXCEPT ![o] = Charge(k)!NoSample]
      /\ UNCHANGED <<charge, low, level, wanted, begun, alerts>>
  BY DEF Charge!ObserveCharge, Charge!robot, Charge!history
<1>2. Charge(k)!Seen(s) \in ChargeStages
  BY DEF Charge!Seen, ChargeTyped, Powers, ChargeStages
<1>3. pm' \in Powers
  <2>1. auto \in BOOLEAN
    OBVIOUS
  <2> HIDE DEF auto, s
  <2> QED
    BY <1>1, <1>2, <2>1 DEF ChargeTyped, Powers
<1>4. kept \in 0 .. Samples
  <2>1. full \in Nat
    BY DEF ChargeTyped, Counters
  <2> HIDE DEF full
  <2> QED
    BY <2>1 DEF ChargeLimits
<1>5. count' \in Counters
  <2>1. hot \in BOOLEAN
    OBVIOUS
  <2> HIDE DEF hot, kept
  <2> QED
    BY <1>1, <1>4, <2>1 DEF ChargeTyped, Counters
<1>6. SamplesKept(k)
  BY <1>1 DEF SamplesKept, ChargeTyped, Charge!NoSample
<1> QED
  BY <1>1, <1>3, <1>5, <1>6 DEF Withdrawing
\* A sample judged at rest: it may raise the alert of this discharge.
LEMMA ObserveIdleKeeps ==
    ASSUME NEW k, ChargeLimits, ChargeInv(k), NEW o \in k.observers, NEW elapsed \in BOOLEAN,
           Charge(k)!ObserveIdle(o, elapsed)
    PROVE  ChargeInv(k)'
<1> DEFINE s == obs[o]
<1>0. ChargeTyped(k) /\ o \in InHand(k) /\ s.level \in 1 .. 4
  BY DEF ChargeInv, Charge!ObserveIdle, InHand, ChargeTyped
<1>1. /\ obs' = [obs EXCEPT ![o] = Charge(k)!NoSample]
      /\ \E st \in {"idle", Charge(k)!Seen(s)} : pm' = Charge(k)!Stage(st)
      /\ count' = [full |-> 0, low |-> Charge(k)!LowSamples(s, elapsed), hot |-> FALSE]
      /\ low' = Charge(k)!Latched(s, elapsed)
      /\ alerts' = IF Charge(k)!Alarms(s, elapsed) THEN alerts + 1 ELSE alerts
      /\ UNCHANGED <<charge, level, wanted, begun>>
  BY DEF Charge!ObserveIdle, Charge!robot
<1>2. pm' \in Powers
  <2>1. "idle" \in ChargeStages /\ Charge(k)!Seen(s) \in ChargeStages
    BY <1>0 DEF Charge!Seen, ChargeTyped, Powers, ChargeStages
  <2> QED
    BY <1>0, <1>1, <2>1, PowersTyped DEF ChargeTyped
<1>3. count' \in Counters
  <2>1. Charge(k)!LowSamples(s, elapsed) \in 0 .. Samples
    BY <1>0 DEF Charge!LowSamples, ChargeLimits, ChargeTyped, Counters
  <2> QED
    BY <1>1, <2>1 DEF Counters, ChargeLimits
<1>4. low' \in BOOLEAN
  BY <1>1 DEF Charge!Latched
<1>5. SamplesKept(k)
  BY <1>0, <1>1 DEF SamplesKept, ChargeTyped, Charge!NoSample
<1>6. /\ \A p \in InHand(k)' : obs'[p].level \in 1 .. 4
      /\ SamplesAreFresh(k)' /\ SamplesAgree(k)'
      /\ (\A p \in InHand(k) : obs[p].level <= 2) => \A p \in InHand(k)' : obs'[p].level <= 2
  BY <1>1, <1>5, KeptSamples DEF ChargeInv
<1>7. ChargeTyped(k)'
  BY <1>1, <1>2, <1>3, <1>4, <1>5, <1>6 DEF ChargeTyped, ChargeInv, SamplesKept
<1>8. Charge(k)!BegunPerRequest'
  BY <1>1 DEF ChargeInv, Charge!BegunPerRequest
<1>9. AlertIsLatched(k)' /\ Charge(k)!OneAlertPerDischarge'
  <2>1. CASE Charge(k)!Alarms(s, elapsed)
    <3>1. s.level = 1 /\ ~low
      BY <2>1 DEF Charge!Alarms, Charge!Counts
    <3>2. alerts = 0
      BY <3>1 DEF ChargeInv, AlertIsLatched, ChargeTyped
    <3>3. low' /\ alerts' = 1
      <4>1. Charge(k)!Latched(s, elapsed)
        BY <2>1 DEF Charge!Latched
      <4>2. low'
        BY <1>1, <4>1, Zenon
      <4> QED
        BY <1>1, <2>1, <3>2, <4>2
    <3>4. level <= 2 /\ \A p \in InHand(k) : obs[p].level <= 2
      BY <1>0, <3>1 DEF ChargeInv, SamplesAreFresh, SamplesAgree
    <3> QED
      BY <1>1, <1>6, <3>3, <3>4 DEF AlertIsLatched, Charge!OneAlertPerDischarge
  <2>2. CASE ~Charge(k)!Alarms(s, elapsed)
    <3>1. alerts' = alerts /\ alerts <= 1
      BY <1>1, <2>2 DEF ChargeInv, Charge!OneAlertPerDischarge
    <3>2. ASSUME alerts > 0 PROVE low' /\ level' <= 2 /\ \A p \in InHand(k)' : obs'[p].level <= 2
      <4>1. low /\ level <= 2 /\ \A p \in InHand(k) : obs[p].level <= 2
        BY <3>2 DEF ChargeInv, AlertIsLatched
      <4>2. ~(s.level >= 3)
        BY <1>0, <4>1
      <4> QED
        BY <1>1, <1>6, <4>1, <4>2 DEF Charge!Latched
    <3> QED
      BY <3>1, <3>2 DEF AlertIsLatched, Charge!OneAlertPerDischarge
  <2> QED
    BY <2>1, <2>2
<1> QED
  BY <1>6, <1>7, <1>8, <1>9 DEF ChargeInv

-----------------------------------------------------------------------------
(* The theorems. *)

\* The initial state satisfies the inductive invariant.
LEMMA ChargeInit ==
    ASSUME NEW k, ChargeLimits, Charge(k)!Init
    PROVE  ChargeInv(k)
<1>1. pm \in Powers /\ count \in Counters
  BY DEF Charge!Init, ChargeLimits, Powers, Counters, Charge!NoCount, PowerModes, PowerTransitions,
     ChargeStages
<1>2. InHand(k) = {}
  BY DEF Charge!Init, InHand
<1>3. ChargeTyped(k)
  <2>1. DOMAIN obs = k.observers /\ level \in 1 .. 4
    BY DEF Charge!Init
  <2>2. charge \in BOOLEAN /\ low \in BOOLEAN /\ wanted \in Nat /\ begun \in Nat /\ alerts \in Nat
    BY DEF Charge!Init
  <2> QED
    BY <1>1, <1>2, <2>1, <2>2 DEF ChargeTyped
<1> QED
  BY <1>2, <1>3
     DEF Charge!Init, ChargeInv, Charge!BegunPerRequest, SamplesAreFresh, SamplesAgree, AlertIsLatched,
                    Charge!OneAlertPerDischarge

\* Every step keeps it.
LEMMA ChargeStep ==
    ASSUME NEW k, ChargeLimits, ChargeInv(k), [Charge(k)!Next]_(Charge(k)!vars)
    PROVE  ChargeInv(k)'
<1>0. ChargeTyped(k)
  BY DEF ChargeInv
<1>1. CASE \/ \E c \in k.commands : Charge(k)!Command(c)
           \/ Charge(k)!StartPile \/ Charge(k)!Undock \/ Charge(k)!MotionStop \/ Charge(k)!RetryPile
           \/ Charge(k)!Alert \/ Charge(k)!Touch \/ Charge(k)!Heat \/ Charge(k)!InhibitEnds
           \/ \E w \in {"cmd", "begin"} : Charge(k)!BeginMotion(w)
           \/ \E w \in {"cmd", "complete"} : Charge(k)!MotionCheck(w) \/ Charge(k)!MotionStart(w)
  BY <1>0, <1>1, MovingIsQuiet, ChargeQuietKeeps
<1>2. CASE \/ \E w \in {"cmd", "begin"} : Charge(k)!BeginCool(w) \/ Charge(k)!BeginServices(w)
                                           \/ Charge(k)!BeginConfirm(w)
           \/ \E w \in {"cmd", "complete"} : Charge(k)!StopReturn(w) \/ Charge(k)!StopClear(w)
           \/ \E w \in {"cmd", "complete", "stale"} : Charge(k)!Restore(w) \/ Charge(k)!StartNormalServices(w)
  BY <1>0, <1>2, PersistingIsQuiet, ChargeQuietKeeps
<1>3. CASE \/ Charge(k)!StartWait \/ Charge(k)!MonitorEnd \/ Charge(k)!Restart
           \/ \E w \in {"cmd", "complete"} : Charge(k)!StopBegin(w)
           \/ \E o \in k.observers : Charge(k)!ObserveStale(o)
  BY <1>0, <1>3, StoppingWithdraws, WithdrawingKeeps
<1>4. CASE Charge(k)!StartBegin
  BY <1>4, StartBeginKeeps
<1>5. CASE \E w \in {"cmd", "begin"} : Charge(k)!BeginTake(w)
  BY <1>5, BeginTakeKeeps
<1>6. CASE \E o \in k.observers : Charge(k)!Poll(o)
  BY <1>6, PollKeeps
<1>7. CASE \E o \in k.observers, due \in BOOLEAN : Charge(k)!ObserveCharge(o, due)
  BY <1>0, <1>7, ObserveChargeWithdraws, WithdrawingKeeps
<1>8. CASE \E o \in k.observers, elapsed \in BOOLEAN : Charge(k)!ObserveIdle(o, elapsed)
  BY <1>8, ObserveIdleKeeps
<1>9. CASE \E l \in 1 .. 4 : Charge(k)!Battery(l)
  BY <1>9, BatteryKeeps
<1>10. CASE UNCHANGED Charge(k)!vars
  <2>1. ChargeQuiet
    BY <1>0, <1>10 DEF Charge!vars, Charge!flags, Charge!robot, Charge!history, ChargeQuiet, ChargeTyped
  <2> QED
    BY <2>1, ChargeQuietKeeps
<1> QED
  BY <1>1, <1>2, <1>3, <1>4, <1>5, <1>6, <1>7, <1>8, <1>9, <1>10 DEF Charge!Next

\* It contains the type invariant that is checked.
LEMMA ChargeInvTyped ==
    ASSUME NEW k, ChargeInv(k)
    PROVE  Charge(k)!TypeOK
BY DEF ChargeInv, ChargeTyped, Powers, PowerModes, PowerTransitions, ChargeStages, Counters, Charge!TypeOK

\* The invariant of charging holds throughout.
THEOREM ChargeInvariance ==
    ASSUME NEW k, ChargeLimits
    PROVE  Charge(k)!Spec => []ChargeInv(k)
<1>1. Charge(k)!Init => ChargeInv(k)
  BY ChargeInit
<1>2. ChargeInv(k) /\ [Charge(k)!Next]_(Charge(k)!vars) => ChargeInv(k)'
  BY ChargeStep
<1> QED
  BY <1>1, <1>2, PTL DEF Charge!Spec

\* However many observers see the contact, and whatever fails, charges are begun
\* at most once per request (_begin_charge).
THEOREM BegunAlwaysPerRequest ==
    ASSUME NEW k, ChargeLimits
    PROVE  Charge(k)!Spec => []Charge(k)!BegunPerRequest
<1>1. ChargeInv(k) => Charge(k)!BegunPerRequest
  BY DEF ChargeInv
<1> QED
  BY <1>1, ChargeInvariance, PTL

\* A discharge raises one alert, for any number of observers and across restarts
\* (_observe_low_battery, the persisted episode).
THEOREM AlertsAlwaysOnce ==
    ASSUME NEW k, ChargeLimits
    PROVE  Charge(k)!Spec => []Charge(k)!OneAlertPerDischarge
<1>1. ChargeInv(k) => Charge(k)!OneAlertPerDischarge
  BY DEF ChargeInv
<1> QED
  BY <1>1, ChargeInvariance, PTL

-----------------------------------------------------------------------------
(* Manual control, for any record b of its bounds. *)

\* What is told to stop may send once more only from where it had already
\* looked at its event, so the number of samples that a thread has sent since is
\* bounded by the place the thread is at.  A skill that runs holds the slot, and
\* one that frees it has ended.

SkillSteps == {"act", "drive", "avoid"}

\* A plan is a list of the steps the executor knows (_normalize_plan).
OperateLimits(b) == b.plans \subseteq Seq(SkillSteps)

Acts(b) == Operate(b)!ConsoleActs \cup Operate(b)!McpActs \cup {"task_start"}
Words(b) ==
    Acts(b) \cup {"ready", "unfollow", "zero", "busy", "idle", "valid", "assist", "confirm", "takeover", "exit",
              "autonomous", "velocity", "limp", "follow", "handback", "sample", "assist_sample", "release",
              "assist_zero", "start"}
Commands(b) == [moves : BOOLEAN, todo : Seq(Words(b))]
FollowPlaces == {"check", "send", "end", "mark", "over"}
Followers(b) == [track : b.tracks, stop : BOOLEAN, pc : FollowPlaces, after : Nat]
MovingPlaces == {"drive", "avoid", "turn", "send", "turn_send"}
SkillPlaces == MovingPlaces \cup {"step", "report", "end", "free", "over"}
SkillVerdicts == {"succeeded", "cancelled", "failed"}
SkillRuns ==
    [status : SkillVerdicts \cup {"running"}, cancel : BOOLEAN, pc : SkillPlaces, steps : Seq(SkillSteps),
     after : Nat, result : SkillVerdicts \cup {"none"}]

\* The state of the controller.
OperateTyped(b) ==
    /\ mode \in Operate(b)!Modes /\ busy \in BOOLEAN /\ assist \in BOOLEAN
    /\ follow.status \in {"idle", "running", "stopped"}
    /\ cmds \in Seq(Commands(b)) /\ follows \in Seq(Followers(b)) /\ skills \in Seq(SkillRuns)
    /\ active \in 0 .. Len(skills)

\* Who moves the robot is a thread that has still to send its zero.
Driven ==
    /\ drive.by \in {"none", "operator", "follow", "skill"}
    /\ drive.by = "follow" => /\ drive.n \in DOMAIN follows
                              /\ follows[drive.n].pc \in {"check", "send", "end"}
    /\ drive.by = "skill" => /\ drive.n \in DOMAIN skills
                             /\ skills[drive.n].pc \notin {"free", "over"}

\* A follower that has sent a sample after its stop has looked at it since.
HeedfulFollow(f) == f.after > 0 => f.stop /\ f.after = 1 /\ f.pc # "send"
HeedfulFollows == \A g \in DOMAIN follows : HeedfulFollow(follows[g])

\* A skill in a motion is at a step of its plan that moves, ...
AtStep(s) == s.pc \in MovingPlaces => s.steps # <<>> /\ Head(s.steps) # "act"

\* ... and has sent at most one sample after its cancellation where it may send
\* another, and none in the loop of a turn.
HeedfulSkill(s) ==
    /\ s.after > 0 => s.cancel
    /\ s.pc = "turn_send" => s.after = 0
    /\ s.pc \in {"turn", "send"} => s.after <= 1
    /\ s.after <= 2

\* A skill is over only when its status says so.
SkillSettled(s) == s.pc \in {"report", "end", "free", "over"} => s.status # "running"

SoundSkill(s) == AtStep(s) /\ HeedfulSkill(s) /\ SkillSettled(s)
SoundSkills == \A k \in DOMAIN skills : SoundSkill(skills[k])

\* The running skill has the slot.
SlotOfRunning == \A k \in DOMAIN skills : skills[k].status = "running" => active = k

OperateInv(b) == OperateTyped(b) /\ Driven /\ HeedfulFollows /\ SoundSkills /\ SlotOfRunning
-----------------------------------------------------------------------------
(* The commands. *)

\* Every program is a list of steps.
LEMMA ProgramTyped ==
    ASSUME NEW b, NEW act \in Acts(b), NEW help \in BOOLEAN
    PROVE  Operate(b)!Program(act, help) \in Seq(Words(b))
<1> DEFINE start ==
        (IF act \in {"move", "move_stop", "skill_cancel", "person_follow_stop"} THEN <<>> ELSE <<"ready">>)
        \o (IF act \in Operate(b)!Overrides THEN Operate(b)!Stop ELSE <<>>) \o Operate(b)!Checks(help)
<1>0. <<>> \in Seq(Words(b)) /\ <<"ready">> \in Seq(Words(b)) /\ Operate(b)!Stop \in Seq(Words(b))
  BY DEF Operate!Stop, Words
<1>1. Operate(b)!Checks(help) \in Seq(Words(b))
  <2>1. <<"busy", "valid">> \in Seq(Words(b))
    BY DEF Words
  <2> QED
    BY <1>0, <2>1, Zenon DEF Operate!Checks
<1>2. start \in Seq(Words(b))
  BY <1>0, <1>1, ConcatProperties, Zenon
<1>3. ASSUME NEW other \in Words(b)
      PROVE  Operate(b)!Ends(help, other) \in Seq(Words(b))
  <2>1. <<"valid", "assist">> \in Seq(Words(b)) /\ <<other>> \in Seq(Words(b))
    BY DEF Words
  <2> QED
    BY <2>1, Zenon DEF Operate!Ends
<1>4. act \in Words(b)
  BY DEF Words
<1> HIDE DEF start
<1>5. Operate(b)!Program(act, help) =
          CASE act = "takeover_enter" ->
                 start \o IF help THEN Operate(b)!Checks(help) \o <<"assist">> ELSE <<"confirm", "takeover">>
          [] act = "takeover_exit" -> start \o <<"exit">>
          [] act \in {"stand_up", "shake_hand"} -> start \o <<"confirm">> \o Operate(b)!Ends(help, "takeover")
          [] act = "lie_down" -> start \o Operate(b)!Stop \o <<"zero">> \o Operate(b)!Ends(help, "autonomous")
          [] act = "move_stop" -> start \o Operate(b)!Stop \o <<"velocity">>
          [] act = "move" -> start \o <<"velocity">>
          [] act = "passive" -> start \o Operate(b)!Stop \o <<"confirm", "limp", "autonomous">>
          [] act = "person_follow_start" -> start \o <<"idle", "confirm", "follow", "takeover">>
          [] act = "person_follow_stop" -> start \o Operate(b)!Stop
          [] act = "task_start" -> <<"idle", "handback">>
          [] OTHER -> start \o <<act>>
  BY DEF Operate!Program, start
<1> QED
  <2>1. /\ <<"assist">> \in Seq(Words(b)) /\ <<"confirm", "takeover">> \in Seq(Words(b))
        /\ <<"exit">> \in Seq(Words(b)) /\ <<"confirm">> \in Seq(Words(b)) /\ <<"zero">> \in Seq(Words(b))
        /\ <<"velocity">> \in Seq(Words(b)) /\ <<"confirm", "limp", "autonomous">> \in Seq(Words(b))
        /\ <<"idle", "confirm", "follow", "takeover">> \in Seq(Words(b))
        /\ <<"idle", "handback">> \in Seq(Words(b)) /\ <<act>> \in Seq(Words(b))
    BY <1>4 DEF Words
  <2>2. Operate(b)!Ends(help, "takeover") \in Seq(Words(b)) /\ Operate(b)!Ends(help, "autonomous") \in Seq(Words(b))
    BY <1>3 DEF Words
  <2>3. (IF help THEN Operate(b)!Checks(help) \o <<"assist">> ELSE <<"confirm", "takeover">>) \in Seq(Words(b))
    BY <1>1, <2>1, ConcatProperties, Zenon
    <2> QED
    BY <1>0, <1>2, <1>5, <2>1, <2>2, <2>3, SMTT(30)

\* A command that goes on or is refused.
LEMMA ThenTyped ==
    ASSUME NEW b, OperateTyped(b), NEW c \in DOMAIN cmds, cmds[c].todo # <<>>, NEW steps \in Seq(Words(b)),
           Operate(b)!Then(c, steps)
    PROVE  cmds' \in Seq(Commands(b))
<1>1. cmds[c] \in Commands(b)
  BY DEF OperateTyped
<1>2. steps \o Tail(cmds[c].todo) \in Seq(Words(b))
  BY <1>1 DEF Commands
<1>3. [cmds[c] EXCEPT !.todo = steps \o Tail(cmds[c].todo)] \in Commands(b)
  BY <1>1, <1>2, Zenon DEF Commands
<1>4. cmds' = [cmds EXCEPT ![c] = [cmds[c] EXCEPT !.todo = steps \o Tail(cmds[c].todo)]]
  BY DEF Operate!Then
<1> QED
  BY <1>3, <1>4 DEF OperateTyped

LEMMA RefuseTyped ==
    ASSUME NEW b, OperateTyped(b), NEW c \in DOMAIN cmds, Operate(b)!Refuse(c)
    PROVE  cmds' \in Seq(Commands(b))
<1>1. cmds[c] \in Commands(b)
  BY DEF OperateTyped
<1>2. <<>> \in Seq(Words(b))
  OBVIOUS
<1>3. [cmds[c] EXCEPT !.todo = <<>>] \in Commands(b)
  BY <1>1, <1>2, Zenon DEF Commands
<1>4. cmds' = [cmds EXCEPT ![c] = [cmds[c] EXCEPT !.todo = <<>>]]
  BY DEF Operate!Refuse
<1> QED
  BY <1>3, <1>4 DEF OperateTyped

\* A step of a command that leaves the followers and skills alone sends a zero
\* or the operator's sample.
Commanding(b) ==
    /\ Operate(b)!Others /\ cmds' \in Seq(Commands(b))
    /\ mode' \in Operate(b)!Modes /\ busy' \in BOOLEAN /\ assist' \in BOOLEAN
    /\ drive' = drive \/ drive'.by \in {"none", "operator"}

LEMMA CommandingKeeps ==
    ASSUME NEW b, OperateInv(b), Commanding(b)
    PROVE  OperateInv(b)'
<1>1. UNCHANGED <<follow, follows, skills, active>>
  BY DEF Commanding, Operate!Others
<1>2. OperateTyped(b)'
  BY <1>1 DEF OperateInv, OperateTyped, Commanding
<1>3. Driven'
  BY <1>1 DEF OperateInv, Driven, Commanding
<1>4. HeedfulFollows' /\ SoundSkills' /\ SlotOfRunning'
  BY <1>1 DEF OperateInv, HeedfulFollows, SoundSkills, SlotOfRunning
<1> QED
  BY <1>2, <1>3, <1>4 DEF OperateInv

LEMMA ArriveCommands ==
    ASSUME NEW b, OperateInv(b), NEW act \in Acts(b), NEW help \in BOOLEAN,
           Operate(b)!Arrive(act, help)
    PROVE  Commanding(b)
<1>1. [moves |-> act = "move", todo |-> Operate(b)!Program(act, help)] \in Commands(b)
  BY ProgramTyped DEF Commands
<1>2. cmds' \in Seq(Commands(b))
  BY <1>1, AppendProperties DEF Operate!Arrive, OperateInv, OperateTyped
<1> QED
  BY <1>2 DEF Operate!Arrive, Commanding, Operate!Others, OperateInv, OperateTyped

\* The steps of a command beside those that start or stop a follower or skill.
LEMMA PlainCommands ==
    ASSUME NEW b, OperateInv(b), NEW c \in DOMAIN cmds,
           \/ Operate(b)!EnsureReady(c) \/ Operate(b)!Confirm(c) \/ Operate(b)!Release(c)
           \/ Operate(b)!Speed(c) \/ Operate(b)!Check(c) \/ Operate(b)!SetMode(c)
           \/ Operate(b)!Velocity(c) \/ Operate(b)!Sample(c) \/ Operate(b)!AssistSample(c)
           \/ Operate(b)!Exit(c) \/ Operate(b)!HandBack(c) \/ Operate(b)!TaskStart(c)
    PROVE  Commanding(b)
<1>1. OperateTyped(b)
  BY DEF OperateInv
<1>2. mode \in Operate(b)!Modes /\ busy \in BOOLEAN /\ assist \in BOOLEAN
  BY <1>1 DEF OperateTyped
<1>3. cmds[c].moves \in BOOLEAN
  <2>1. cmds[c] \in Commands(b)
    BY <1>1 DEF OperateTyped
  <2> QED
    BY <2>1, Zenon DEF Commands
<1>4. Operate(b)!Refuse(c) => cmds' \in Seq(Commands(b))
  BY <1>1, RefuseTyped
<1>5. ASSUME NEW step, Operate(b)!At(c, step), NEW steps \in Seq(Words(b)), Operate(b)!Then(c, steps)
      PROVE  cmds' \in Seq(Commands(b))
  BY <1>1, <1>5, ThenTyped DEF Operate!At
<1>6. <<>> \in Seq(Words(b))
  OBVIOUS
<1>7. CASE Operate(b)!EnsureReady(c) \/ Operate(b)!Confirm(c) \/ Operate(b)!Release(c)
  BY <1>2, <1>4, <1>5, <1>6, <1>7
     DEF Operate!EnsureReady, Operate!Confirm, Operate!Release, Operate!Answered, Commanding
<1>8. CASE Operate(b)!Speed(c) \/ Operate(b)!Check(c)
  BY <1>2, <1>4, <1>5, <1>6, <1>8 DEF Operate!Speed, Operate!Check, Commanding
<1>9. CASE Operate(b)!SetMode(c)
  BY <1>2, <1>5, <1>6, <1>9 DEF Operate!SetMode, Commanding, Operate!Modes
<1>10. CASE Operate(b)!Velocity(c)
  <2>1. <<"sample">> \in Seq(Words(b)) /\ <<"valid", "assist_sample">> \in Seq(Words(b))
    BY DEF Words
  <2>2. cmds' \in Seq(Commands(b))
    BY <1>5, <1>10, <2>1 DEF Operate!Velocity
  <2> QED
    BY <1>2, <1>10, <2>2 DEF Operate!Velocity, Commanding, Operate!Modes
<1>11. CASE Operate(b)!Sample(c)
  <2>1. cmds' \in Seq(Commands(b))
    BY <1>5, <1>6, <1>11 DEF Operate!Sample
  <2>2. drive' \in {[by |-> "operator", n |-> c], Operate(b)!Zero}
    BY <1>11, Zenon DEF Operate!Sample
  <2>3. drive'.by \in {"none", "operator"}
    BY <2>2 DEF Operate!Zero
  <2> QED
    BY <1>2, <1>11, <2>1, <2>3 DEF Operate!Sample, Commanding
<1>12. CASE Operate(b)!AssistSample(c)
  BY <1>2, <1>3, <1>5, <1>6, <1>12 DEF Operate!AssistSample, Commanding
<1>13. CASE Operate(b)!Exit(c)
  <2>1. <<"velocity", "autonomous">> \in Seq(Words(b)) /\ <<"zero", "release", "autonomous">> \in Seq(Words(b))
    BY DEF Words
  <2>2. cmds' \in Seq(Commands(b))
    BY <1>5, <1>13, <2>1 DEF Operate!Exit
  <2> QED
    BY <1>2, <1>13, <2>2 DEF Operate!Exit, Commanding
<1>14. CASE Operate(b)!HandBack(c)
  <2>1. /\ <<"assist_zero", "autonomous", "start">> \in Seq(Words(b))
        /\ <<"zero", "release", "autonomous", "start">> \in Seq(Words(b))
        /\ <<"start">> \in Seq(Words(b))
    BY DEF Words
  <2>2. cmds' \in Seq(Commands(b))
    BY <1>5, <1>14, <2>1 DEF Operate!HandBack
  <2> QED
    BY <1>2, <1>14, <2>2 DEF Operate!HandBack, Commanding
<1>15. CASE Operate(b)!TaskStart(c)
  BY <1>2, <1>5, <1>6, <1>15 DEF Operate!TaskStart, Commanding
<1> QED
  BY <1>7, <1>8, <1>9, <1>10, <1>11, <1>12, <1>13, <1>14, <1>15
-----------------------------------------------------------------------------
(* The followers. *)

\* A step of follower g, which is f after it.
Following(b, g, f) ==
    /\ f \in Followers(b) /\ HeedfulFollow(f) /\ follows' = [follows EXCEPT ![g] = f]
    /\ follow'.status \in {"idle", "running", "stopped"}
    /\ UNCHANGED <<mode, busy, assist, cmds, skills, active>>
    /\ \/ drive' = drive /\ (f.pc \in {"check", "send", "end"} \/ ~(drive.by = "follow" /\ drive.n = g))
       \/ drive' = Operate(b)!Zero
       \/ drive' = [by |-> "follow", n |-> g] /\ f.pc = "check"

LEMMA FollowingKeeps ==
    ASSUME NEW b, OperateInv(b), NEW g \in DOMAIN follows, NEW f, Following(b, g, f)
    PROVE  OperateInv(b)'
<1>1. UNCHANGED <<mode, busy, assist, cmds, skills, active>>
  BY DEF Following
<1>2. follows' \in Seq(Followers(b)) /\ DOMAIN follows' = DOMAIN follows /\ follows'[g] = f
  BY DEF OperateInv, OperateTyped, Following
<1>3. \A h \in DOMAIN follows : h # g => follows'[h] = follows[h]
  BY DEF OperateInv, OperateTyped, Following
<1>4. OperateTyped(b)'
  BY <1>1, <1>2 DEF OperateInv, OperateTyped, Following
<1>5. Driven'
  <2>1. CASE drive' = drive
    <3>1. drive.by = "follow" => follows'[drive.n].pc \in {"check", "send", "end"}
      <4>1. CASE drive.n = g
        BY <2>1, <4>1, <1>2 DEF OperateInv, Driven, Following, Operate!Zero
      <4>2. CASE drive.n # g
        BY <4>2, <1>3 DEF OperateInv, Driven
      <4> QED
        BY <4>1, <4>2
    <3> QED
      BY <1>1, <1>2, <2>1, <3>1 DEF OperateInv, Driven
  <2>2. CASE drive' = Operate(b)!Zero
    BY <2>2 DEF Driven, Operate!Zero
  <2>3. CASE drive' = [by |-> "follow", n |-> g] /\ f.pc = "check"
    BY <1>2, <2>3 DEF Driven
  <2> QED
    BY <2>1, <2>2, <2>3 DEF Following
<1>6. HeedfulFollows'
  BY <1>2, <1>3 DEF OperateInv, HeedfulFollows, Following
<1>7. SoundSkills' /\ SlotOfRunning'
  BY <1>1 DEF OperateInv, SoundSkills, SlotOfRunning
<1> QED
  BY <1>4, <1>5, <1>6, <1>7 DEF OperateInv

LEMMA FollowerKeeps ==
    ASSUME NEW b, OperateInv(b), NEW g \in DOMAIN follows,
           Operate(b)!FollowCheck(g) \/ Operate(b)!FollowSend(g) \/ Operate(b)!FollowEnd(g) \/ Operate(b)!FollowMark(g)
    PROVE  OperateInv(b)'
<1> DEFINE f == follows[g]
<1>0. f \in Followers(b) /\ HeedfulFollow(f) /\ follow.status \in {"idle", "running", "stopped"}
  BY DEF OperateInv, OperateTyped, HeedfulFollows
<1>1. f.stop \in BOOLEAN /\ f.pc \in FollowPlaces /\ f.after \in Nat /\ f.track \in b.tracks
  BY <1>0, Zenon DEF Followers
<1>2. \A pc \in FollowPlaces : [f EXCEPT !.pc = pc] \in Followers(b)
  BY <1>0, Zenon DEF Followers
<1>3. \A pc : Operate(b)!FollowGoto(g, pc) => follows' = [follows EXCEPT ![g] = [f EXCEPT !.pc = pc]]
  BY DEF Operate!FollowGoto
<1>4. \A pc \in FollowPlaces \ {"send"} : HeedfulFollow([f EXCEPT !.pc = pc])
  BY <1>0 DEF HeedfulFollow, Followers, FollowPlaces
<1> HIDE DEF f
<1>5. CASE Operate(b)!FollowCheck(g)
  <2>1. CASE Operate(b)!FollowGoto(g, "end")
    <3>1. Following(b, g, [f EXCEPT !.pc = "end"])
      BY <1>0, <1>2, <1>3, <1>4, <1>5, <2>1
         DEF Operate!FollowCheck, Following, Operate!Unfollowed, FollowPlaces, Followers
    <3> QED
      BY <3>1, FollowingKeeps
  <2>2. CASE Operate(b)!FollowsStill(g) /\ Operate(b)!FollowGoto(g, "send")
    <3>1. ~f.stop
      BY <2>2 DEF Operate!FollowsStill, f
    <3>2. HeedfulFollow([f EXCEPT !.pc = "send"])
      BY <1>0, <3>1 DEF HeedfulFollow, Followers
    <3>3. Following(b, g, [f EXCEPT !.pc = "send"])
      BY <1>0, <1>2, <1>3, <1>5, <2>2, <3>2
         DEF Operate!FollowCheck, Following, Operate!Unfollowed, FollowPlaces, Followers
    <3> QED
      BY <3>3, FollowingKeeps
  <2> QED
    BY <1>5, <2>1, <2>2 DEF Operate!FollowCheck
<1>6. CASE Operate(b)!FollowSend(g)
  <2> DEFINE later == IF f.stop THEN f.after + 1 ELSE f.after
             next == [f EXCEPT !.pc = "check", !.after = later]
  <2>1. later \in Nat /\ (later > 0 => f.stop /\ later = 1)
    BY <1>0, <1>1, <1>6 DEF HeedfulFollow, Operate!FollowSend, f
  <2> HIDE DEF later
  <2>2. next \in Followers(b) /\ next.pc = "check" /\ next.stop = f.stop /\ next.after = later
    BY <1>0, <1>1, <2>1, Zenon DEF Followers, FollowPlaces
  <2>3. follows' = [follows EXCEPT ![g] = next]
    BY <1>6 DEF Operate!FollowSend, later, f
  <2>4. Following(b, g, next)
    BY <1>0, <1>6, <2>1, <2>2, <2>3 DEF Operate!FollowSend, Following, Operate!Unfollowed, HeedfulFollow
  <2> QED
    BY <2>4, FollowingKeeps
<1>7. CASE Operate(b)!FollowEnd(g)
  <2>1. Following(b, g, [f EXCEPT !.pc = "mark"])
    BY <1>0, <1>2, <1>3, <1>4, <1>7
       DEF Operate!FollowEnd, Following, Operate!Unfollowed, FollowPlaces, Followers, Operate!LastSample
  <2> QED
    BY <2>1, FollowingKeeps
<1>8. CASE Operate(b)!FollowMark(g)
  <2>1. follow'.status \in {"idle", "running", "stopped"}
    BY <1>0, <1>8 DEF Operate!FollowMark
  <2>2. ~(drive.by = "follow" /\ drive.n = g)
    BY <1>8 DEF OperateInv, Driven, Operate!FollowMark
  <2>3. Following(b, g, [f EXCEPT !.pc = "over"])
    BY <1>2, <1>3, <1>4, <1>8, <2>1, <2>2 DEF Operate!FollowMark, Following, Operate!Unfollowed, FollowPlaces
  <2> QED
    BY <2>3, FollowingKeeps
<1> QED
  BY <1>5, <1>6, <1>7, <1>8

\* The command that starts a follower.
LEMMA FollowStartKeeps ==
    ASSUME NEW b, OperateInv(b), NEW c \in DOMAIN cmds, NEW t \in b.tracks, Operate(b)!FollowStart(c, t)
    PROVE  OperateInv(b)'
<1>0. OperateTyped(b) /\ Operate(b)!At(c, "follow") /\ UNCHANGED <<mode, busy, drive, assist, skills, active>>
  BY DEF Operate!FollowStart, OperateInv
<1>1. CASE Operate(b)!Refuse(c) /\ UNCHANGED <<follow, follows>>
  <2>1. Commanding(b)
    BY <1>0, <1>1, RefuseTyped DEF Commanding, Operate!Others, OperateTyped
  <2> QED
    BY <2>1, CommandingKeeps
<1>2. CASE Operate(b)!Then(c, <<>>) /\ follow' = [track |-> t, status |-> "running"]
           /\ follows' = Append(follows, Operate(b)!Follower(t))
  <2>1. cmds' \in Seq(Commands(b))
    <3>1. <<>> \in Seq(Words(b))
      OBVIOUS
    <3> QED
      BY <1>0, <1>2, <3>1, ThenTyped DEF Operate!At
  <2>2. Operate(b)!Follower(t) \in Followers(b) /\ HeedfulFollow(Operate(b)!Follower(t))
    BY DEF Operate!Follower, Followers, FollowPlaces, HeedfulFollow
  <2>3. /\ follows' \in Seq(Followers(b)) /\ DOMAIN follows \subseteq DOMAIN follows'
        /\ \A g \in DOMAIN follows : follows'[g] = follows[g]
        /\ \A g \in DOMAIN follows' : g \in DOMAIN follows \/ follows'[g] = Operate(b)!Follower(t)
    BY <1>0, <1>2, <2>2 DEF OperateTyped
  <2>4. OperateTyped(b)' /\ Driven'
    BY <1>0, <1>2, <2>1, <2>3 DEF OperateTyped, Driven, OperateInv
  <2>5. HeedfulFollows'
    BY <2>2, <2>3 DEF HeedfulFollows, OperateInv
  <2>6. SoundSkills' /\ SlotOfRunning'
    BY <1>0 DEF SoundSkills, SlotOfRunning, OperateInv
  <2> QED
    BY <2>4, <2>5, <2>6 DEF OperateInv
<1> QED
  BY <1>1, <1>2 DEF Operate!FollowStart

\* The command that stops it sets the event of the last thread.
LEMMA FollowStopKeeps ==
    ASSUME NEW b, OperateInv(b), NEW c \in DOMAIN cmds, Operate(b)!FollowStop(c)
    PROVE  OperateInv(b)'
<1>0. OperateTyped(b) /\ Operate(b)!At(c, "unfollow") /\ UNCHANGED <<mode, busy, drive, assist, skills, active>>
  BY DEF Operate!FollowStop, OperateInv
<1>1. cmds' \in Seq(Commands(b))
  <2>1. <<>> \in Seq(Words(b))
    OBVIOUS
  <2> QED
    BY <1>0, <2>1, ThenTyped DEF Operate!At, Operate!FollowStop
<1>2. follow'.status \in {"idle", "running", "stopped"}
  BY DEF Operate!FollowStop, OperateInv, OperateTyped
<1>3. /\ follows' \in Seq(Followers(b)) /\ DOMAIN follows' = DOMAIN follows
      /\ \A g \in DOMAIN follows : follows'[g].pc = follows[g].pc /\ HeedfulFollow(follows'[g])
  <2>1. CASE follows = <<>>
    BY <1>0, <2>1 DEF Operate!FollowStop, OperateTyped
  <2>2. CASE follows # <<>>
    <3> DEFINE g == Len(follows)
               f == [follows[g] EXCEPT !.stop = TRUE]
    <3>1. g \in DOMAIN follows /\ follows[g] \in Followers(b) /\ HeedfulFollow(follows[g])
      BY <1>0, <2>2 DEF OperateTyped, OperateInv, HeedfulFollows
    <3>2. f \in Followers(b)
      BY <3>1, Zenon DEF Followers
    <3>3. HeedfulFollow(f) /\ f.pc = follows[g].pc
      BY <3>1 DEF Followers, HeedfulFollow
    <3>4. follows' = [follows EXCEPT ![g] = f]
      BY <2>2 DEF Operate!FollowStop
    <3> HIDE DEF g, f
    <3> QED
      BY <1>0, <3>1, <3>2, <3>3, <3>4 DEF OperateTyped, OperateInv, HeedfulFollows
  <2> QED
    BY <2>1, <2>2
<1>4. OperateTyped(b)' /\ Driven'
  BY <1>0, <1>1, <1>2, <1>3 DEF OperateTyped, Driven, OperateInv
<1>5. HeedfulFollows' /\ SoundSkills' /\ SlotOfRunning'
  BY <1>0, <1>3 DEF HeedfulFollows, SoundSkills, SlotOfRunning, OperateInv
<1> QED
  BY <1>4, <1>5 DEF OperateInv
-----------------------------------------------------------------------------
(* The skills. *)

LEMMA SkillStartKeeps ==
    ASSUME NEW b, OperateLimits(b), OperateInv(b), NEW c \in DOMAIN cmds, NEW plan \in b.plans,
           Operate(b)!SkillStart(c, plan)
    PROVE  OperateInv(b)'
<1>0. OperateTyped(b) /\ Operate(b)!At(c, "skill") /\ UNCHANGED <<mode, busy, drive, assist, follow, follows>>
  BY DEF Operate!SkillStart, OperateInv
<1>1. CASE Operate(b)!Refuse(c) /\ UNCHANGED <<skills, active>>
  <2>1. Commanding(b)
    BY <1>0, <1>1, RefuseTyped DEF Commanding, Operate!Others, OperateTyped
  <2> QED
    BY <2>1, CommandingKeeps
<1>2. CASE ~Operate(b)!SkillBusy /\ Operate(b)!Then(c, <<>>) /\ skills' = Append(skills, Operate(b)!Skill(plan)) /\ active' = Len(skills) + 1
  <2>1. cmds' \in Seq(Commands(b))
    <3>1. <<>> \in Seq(Words(b))
      OBVIOUS
    <3> QED
      BY <1>0, <1>2, <3>1, ThenTyped DEF Operate!At
  <2>2. plan \in Seq(SkillSteps)
    BY DEF OperateLimits
  <2>3. Operate(b)!Skill(plan) \in SkillRuns
    BY <2>2 DEF Operate!Skill, SkillRuns, SkillPlaces
  <2>4. SoundSkill(Operate(b)!Skill(plan))
    BY DEF Operate!Skill, SoundSkill, AtStep, HeedfulSkill, SkillSettled, MovingPlaces
  <2>5. /\ skills' \in Seq(SkillRuns) /\ DOMAIN skills \subseteq DOMAIN skills'
        /\ Len(skills') = Len(skills) + 1 /\ Len(skills) \in Nat
        /\ \A k \in DOMAIN skills : skills'[k] = skills[k]
        /\ \A k \in DOMAIN skills' : k \in DOMAIN skills \/ (k = active' /\ skills'[k] = Operate(b)!Skill(plan))
    BY <1>0, <1>2, <2>3 DEF OperateTyped
  <2>6. OperateTyped(b)' /\ Driven'
    BY <1>0, <1>2, <2>1, <2>5 DEF OperateTyped, Driven, OperateInv
  <2>7. SoundSkills'
    BY <2>4, <2>5 DEF SoundSkills, OperateInv
  <2>8. \A k \in DOMAIN skills : skills[k].status # "running"
    BY <1>0, <1>2 DEF Operate!SkillBusy, SlotOfRunning, OperateTyped, OperateInv
  <2>9. SlotOfRunning'
    BY <2>5, <2>8 DEF SlotOfRunning
  <2>10. HeedfulFollows'
    BY <1>0 DEF HeedfulFollows, OperateInv
  <2> QED
    BY <2>6, <2>7, <2>9, <2>10 DEF OperateInv
<1> QED
  BY <1>1, <1>2 DEF Operate!SkillStart

\* Skill k becomes s; the slot stays, or is freed by a skill that has ended.
Skilling(b, k, s) ==
    /\ s \in SkillRuns /\ SoundSkill(s) /\ skills' = [skills EXCEPT ![k] = s]
    /\ s.status = "running" => skills[k].status = "running"
    /\ UNCHANGED <<mode, busy, assist, follow, follows>> /\ cmds' \in Seq(Commands(b))
    /\ active' = active \/ (active' = 0 /\ active = k /\ s.status # "running")
    /\ \/ drive' = drive /\ (s.pc \notin {"free", "over"} \/ ~(drive.by = "skill" /\ drive.n = k))
       \/ drive' = Operate(b)!Zero
       \/ drive' = [by |-> "skill", n |-> k] /\ s.pc \notin {"free", "over"}

LEMMA SkillingKeeps ==
    ASSUME NEW b, OperateInv(b), NEW k \in DOMAIN skills, NEW s, Skilling(b, k, s)
    PROVE  OperateInv(b)'
<1>1. UNCHANGED <<mode, busy, assist, follow, follows>>
  BY DEF Skilling
<1>2. /\ skills' \in Seq(SkillRuns) /\ DOMAIN skills' = DOMAIN skills /\ Len(skills') = Len(skills)
      /\ skills'[k] = s /\ \A j \in DOMAIN skills : j # k => skills'[j] = skills[j]
  BY DEF OperateInv, OperateTyped, Skilling
<1>3. OperateTyped(b)'
  BY <1>1, <1>2 DEF OperateInv, OperateTyped, Skilling
<1>4. Driven'
  <2>1. CASE drive' = drive
    <3>1. drive.by = "skill" => skills'[drive.n].pc \notin {"free", "over"}
      <4>1. CASE drive.n = k
        BY <2>1, <4>1, <1>2 DEF OperateInv, Driven, Skilling, Operate!Zero
      <4>2. CASE drive.n # k
        BY <4>2, <1>2 DEF OperateInv, Driven
      <4> QED
        BY <4>1, <4>2
    <3> QED
      BY <1>1, <1>2, <2>1, <3>1 DEF OperateInv, Driven
  <2>2. CASE drive' = Operate(b)!Zero
    BY <2>2 DEF Driven, Operate!Zero
  <2>3. CASE drive' = [by |-> "skill", n |-> k] /\ s.pc \notin {"free", "over"}
    BY <1>2, <2>3 DEF Driven
  <2> QED
    BY <2>1, <2>2, <2>3 DEF Skilling
<1>5. HeedfulFollows'
  BY <1>1 DEF OperateInv, HeedfulFollows
<1>6. SoundSkills'
  BY <1>2 DEF OperateInv, SoundSkills, Skilling
<1>7. SlotOfRunning'
  BY <1>2 DEF OperateInv, SlotOfRunning, Skilling
<1> QED
  BY <1>3, <1>4, <1>5, <1>6, <1>7 DEF OperateInv

\* What the fields of a skill may become.
LEMMA SkillFields ==
    ASSUME NEW s \in SkillRuns
    PROVE  /\ s.cancel \in BOOLEAN /\ s.pc \in SkillPlaces /\ s.steps \in Seq(SkillSteps) /\ s.after \in Nat
           /\ s.status \in SkillVerdicts \cup {"running"}
           /\ \A pc \in SkillPlaces : [s EXCEPT !.pc = pc] \in SkillRuns
           /\ \A pc \in SkillPlaces, m \in Nat : [s EXCEPT !.pc = pc, !.after = m] \in SkillRuns
           /\ \A status \in SkillVerdicts : [s EXCEPT !.status = status, !.pc = "report"] \in SkillRuns
           /\ \A status \in SkillVerdicts : [s EXCEPT !.result = status, !.pc = "end"] \in SkillRuns
           /\ \A steps \in Seq(SkillSteps) : [s EXCEPT !.steps = steps, !.pc = "step"] \in SkillRuns
           /\ [s EXCEPT !.cancel = TRUE] \in SkillRuns
  BY Zenon DEF SkillRuns, SkillPlaces

\* A cancellation stops nothing by itself.
LEMMA SkillCancelKeeps ==
    ASSUME NEW b, OperateInv(b), NEW c \in DOMAIN cmds, Operate(b)!SkillCancel(c)
    PROVE  OperateInv(b)'
<1>0. OperateTyped(b) /\ Operate(b)!At(c, "skill_cancel") /\ UNCHANGED <<mode, busy, drive, assist, follow, follows, active>>
  BY DEF Operate!SkillCancel, OperateInv
<1>1. CASE Operate(b)!Refuse(c) /\ UNCHANGED skills
  <2>1. Commanding(b)
    BY <1>0, <1>1, RefuseTyped DEF Commanding, Operate!Others, OperateTyped
  <2> QED
    BY <2>1, CommandingKeeps
<1>2. ASSUME Operate(b)!Then(c, <<>>), NEW k \in DOMAIN skills, skills' = [skills EXCEPT ![k].cancel = TRUE]
      PROVE  OperateInv(b)'
  <2> DEFINE s == [skills[k] EXCEPT !.cancel = TRUE]
  <2>1. cmds' \in Seq(Commands(b))
    <3>1. <<>> \in Seq(Words(b))
      OBVIOUS
    <3> QED
      BY <1>0, <1>2, <3>1, ThenTyped DEF Operate!At
  <2>2. skills[k] \in SkillRuns /\ SoundSkill(skills[k])
    BY <1>0 DEF OperateTyped, OperateInv, SoundSkills
  <2>3. s \in SkillRuns
    BY <2>2, SkillFields
  <2>4. SoundSkill(s) /\ s.status = skills[k].status /\ s.pc = skills[k].pc
    BY <2>2 DEF SkillRuns, SoundSkill, AtStep, HeedfulSkill, SkillSettled
  <2>5. skills' = [skills EXCEPT ![k] = s]
    BY <1>2
  <2> HIDE DEF s
  <2>6. Skilling(b, k, s)
    BY <1>0, <1>2, <2>1, <2>3, <2>4, <2>5 DEF Skilling, Driven, OperateInv
  <2> QED
    BY <2>6, SkillingKeeps
<1> QED
  BY <1>1, <1>2 DEF Operate!SkillCancel

\* The steps of skill k, from s to a new value of it.
LEMMA SkillKeeps ==
    ASSUME NEW b, OperateInv(b), NEW k \in DOMAIN skills,
           \/ Operate(b)!SkillStep(k) \/ Operate(b)!SkillDrive(k) \/ Operate(b)!SkillAvoid(k)
           \/ Operate(b)!SkillTurn(k) \/ Operate(b)!SkillSend(k)
           \/ Operate(b)!SkillReport(k) \/ Operate(b)!SkillEnd(k) \/ Operate(b)!SkillFree(k)
    PROVE  OperateInv(b)'
<1> DEFINE s == skills[k]
           over(status) == [s EXCEPT !.status = status, !.pc = "report"]
           goto(pc) == [s EXCEPT !.pc = pc]
           next == [s EXCEPT !.steps = Tail(s.steps), !.pc = "step"]
<1>0. OperateTyped(b) /\ s \in SkillRuns /\ SoundSkill(s) /\ cmds \in Seq(Commands(b))
  BY DEF OperateInv, OperateTyped, SoundSkills
<1>1. /\ s.cancel \in BOOLEAN /\ s.pc \in SkillPlaces /\ s.steps \in Seq(SkillSteps) /\ s.after \in Nat
      /\ s.status \in SkillVerdicts \cup {"running"}
  BY <1>0, SkillFields
<1>2. DOMAIN s = DOMAIN [status |-> 0, cancel |-> 0, pc |-> 0, steps |-> 0, after |-> 0, result |-> 0]
  BY <1>0 DEF SkillRuns
\* The slot and the velocity topic as they are.
<1>3. ASSUME NEW t \in SkillRuns, SoundSkill(t), skills' = [skills EXCEPT ![k] = t],
             t.status = "running" => s.status = "running", t.pc \notin {"free", "over"},
             UNCHANGED <<drive, active>>, Operate(b)!Unskilled
      PROVE  OperateInv(b)'
  <2>1. Skilling(b, k, t)
    BY <1>0, <1>3 DEF Skilling, Operate!Unskilled
  <2> QED
    BY <2>1, SkillingKeeps
\* An end of the run.
<1>4. ASSUME NEW status \in SkillVerdicts, Operate(b)!SkillOver(k, status), UNCHANGED <<drive, active>>,
             Operate(b)!Unskilled
      PROVE  OperateInv(b)'
  <2>1. over(status) \in SkillRuns
    BY <1>0, SkillFields
  <2>2. SoundSkill(over(status)) /\ over(status).pc = "report" /\ over(status).status = status
    BY <1>0, <1>1, <1>2 DEF SoundSkill, AtStep, HeedfulSkill, SkillSettled, MovingPlaces, SkillVerdicts
  <2>3. skills' = [skills EXCEPT ![k] = over(status)]
    BY <1>4 DEF Operate!SkillOver
  <2>4. status # "running"
    BY DEF SkillVerdicts
  <2> HIDE DEF over, s
  <2> QED
    BY <1>3, <1>4, <2>1, <2>2, <2>3, <2>4
\* The next step of the plan.
<1>5. ASSUME s.steps # <<>>, skills' = [skills EXCEPT ![k] = next], UNCHANGED <<drive, active>>,
             Operate(b)!Unskilled,
             s.pc \in {"step", "drive", "avoid"}
      PROVE  OperateInv(b)'
  <2>1. Tail(s.steps) \in Seq(SkillSteps)
    BY <1>1, <1>5
  <2>2. next \in SkillRuns
    BY <1>0, <2>1, SkillFields
  <2>3. SoundSkill(next) /\ next.pc = "step" /\ next.status = s.status
    BY <1>0, <1>1, <1>2, <1>5 DEF SoundSkill, AtStep, HeedfulSkill, SkillSettled, MovingPlaces
  <2> HIDE DEF next, s
  <2> QED
    BY <1>3, <1>5, <2>2, <2>3
\* A place of the loops of a motion, sound with what was sent so far.
<1>6. ASSUME NEW pc \in {"drive", "avoid", "turn", "send", "turn_send"}, Operate(b)!SkillGoto(k, pc),
             s.steps # <<>>, Head(s.steps) # "act", UNCHANGED active, Operate(b)!Unskilled,
             pc \in {"drive", "avoid"} \/ (s.after = 0 \/ (s.after = 1 /\ pc = "send")),
             drive' = drive \/ drive' = Operate(b)!Zero
      PROVE  OperateInv(b)'
  <2>1. pc \in SkillPlaces
    BY DEF SkillPlaces, MovingPlaces
  <2>2. goto(pc) \in SkillRuns
    BY <1>0, <2>1, SkillFields
  <2>3. SoundSkill(goto(pc)) /\ goto(pc).pc = pc /\ goto(pc).status = s.status
    BY <1>0, <1>1, <1>2, <1>6 DEF SoundSkill, AtStep, HeedfulSkill, SkillSettled, MovingPlaces
  <2>4. skills' = [skills EXCEPT ![k] = goto(pc)]
    BY <1>6 DEF Operate!SkillGoto
  <2>5. pc \notin {"free", "over"}
    OBVIOUS
  <2> HIDE DEF goto
  <2>6. Skilling(b, k, goto(pc))
    BY <1>0, <1>6, <2>2, <2>3, <2>4, <2>5 DEF Skilling, Operate!Unskilled
  <2> QED
    BY <2>6, SkillingKeeps
<1>7. s.pc \in MovingPlaces => s.steps # <<>> /\ Head(s.steps) # "act"
  BY <1>0 DEF SoundSkill, AtStep
<1>8. s.after \in {0, 1, 2} /\ (s.pc = "turn_send" => s.after = 0)
      /\ (s.pc \in {"turn", "send"} => s.after \in {0, 1}) /\ (s.after > 0 => s.cancel)
  BY <1>0, <1>1 DEF SoundSkill, HeedfulSkill
<1>9. CASE Operate(b)!SkillStep(k)
  <2>1. CASE s.steps = <<>> /\ Operate(b)!SkillOver(k, "succeeded")
    BY <1>4, <1>9, <2>1 DEF Operate!SkillStep, SkillVerdicts
  <2>2. CASE s.steps # <<>> /\ Operate(b)!SkillOver(k, "cancelled")
    BY <1>4, <1>9, <2>2 DEF Operate!SkillStep, SkillVerdicts
  <2>3. CASE s.steps # <<>> /\ skills' = [skills EXCEPT ![k].steps = Tail(@)]
    <3>1. s.pc = "step"
      BY <1>9 DEF Operate!SkillStep
    <3>2. [s EXCEPT !.steps = Tail(s.steps)] = next
      BY <1>0, <3>1 DEF SkillRuns
    <3>3. skills' = [skills EXCEPT ![k] = next]
      BY <2>3, <3>2
    <3> QED
      BY <1>5, <1>9, <2>3, <3>1, <3>3 DEF Operate!SkillStep
  <2>4. CASE s.steps # <<>> /\ Head(s.steps) # "act" /\ ~Operate(b)!Cancelled(k) /\ Operate(b)!SkillGoto(k, Head(s.steps))
    <3>1. Head(s.steps) \in {"drive", "avoid"}
      BY <1>1, <2>4 DEF SkillSteps
    <3> QED
      BY <1>6, <1>9, <2>4, <3>1 DEF Operate!SkillStep
  <2>5. CASE Operate(b)!SkillOver(k, "failed")
    BY <1>4, <1>9, <2>5 DEF Operate!SkillStep, SkillVerdicts
  <2> QED
    BY <1>9, <2>1, <2>2, <2>3, <2>4, <2>5 DEF Operate!SkillStep
<1>10. CASE Operate(b)!SkillDrive(k)
  <2>1. s.pc = "drive" /\ s.steps # <<>> /\ Head(s.steps) # "act" /\ UNCHANGED <<drive, active>> /\ Operate(b)!Unskilled
    BY <1>7, <1>10 DEF Operate!SkillDrive, MovingPlaces
  <2>2. CASE skills' = [skills EXCEPT ![k].steps = Tail(@), ![k].pc = "step"]
    BY <1>5, <2>1, <2>2
  <2>3. CASE Operate(b)!SkillOver(k, "cancelled") \/ Operate(b)!SkillOver(k, "failed")
    BY <1>4, <2>1, <2>3 DEF SkillVerdicts
  <2>4. CASE ~Operate(b)!Cancelled(k) /\ Operate(b)!SkillGoto(k, "send")
    BY <1>6, <1>8, <2>1, <2>4 DEF Operate!Cancelled
  <2> QED
    BY <1>10, <2>2, <2>3, <2>4 DEF Operate!SkillDrive
<1>11. CASE Operate(b)!SkillAvoid(k)
  <2>1. s.pc = "avoid" /\ s.steps # <<>> /\ Head(s.steps) # "act" /\ UNCHANGED active /\ Operate(b)!Unskilled
    BY <1>7, <1>11 DEF Operate!SkillAvoid, MovingPlaces
  <2>2. CASE UNCHANGED drive /\ skills' = [skills EXCEPT ![k].steps = Tail(@), ![k].pc = "step"]
    BY <1>5, <2>1, <2>2
  <2>3. CASE UNCHANGED drive /\ Operate(b)!SkillOver(k, "cancelled")
    BY <1>4, <2>1, <2>3 DEF SkillVerdicts
  <2>4. CASE ~Operate(b)!Cancelled(k) /\ UNCHANGED drive /\ Operate(b)!SkillGoto(k, "send")
    BY <1>6, <1>8, <2>1, <2>4 DEF Operate!Cancelled
  <2>5. CASE ~Operate(b)!Cancelled(k) /\ drive' = Operate(b)!Zero /\ Operate(b)!SkillGoto(k, "turn")
    BY <1>6, <1>8, <2>1, <2>5 DEF Operate!Cancelled
  <2> QED
    BY <1>11, <2>2, <2>3, <2>4, <2>5 DEF Operate!SkillAvoid
<1>12. CASE Operate(b)!SkillTurn(k)
  <2>1. s.pc = "turn" /\ s.steps # <<>> /\ Head(s.steps) # "act" /\ UNCHANGED <<drive, active>> /\ Operate(b)!Unskilled
    BY <1>7, <1>12 DEF Operate!SkillTurn, MovingPlaces
  <2>2. CASE Operate(b)!SkillGoto(k, "send")
    BY <1>6, <1>8, <2>1, <2>2
  <2>3. CASE Operate(b)!SkillOver(k, "cancelled") \/ Operate(b)!SkillOver(k, "failed")
    BY <1>4, <2>1, <2>3 DEF SkillVerdicts
  <2>4. CASE ~Operate(b)!Cancelled(k) /\ Operate(b)!SkillGoto(k, "turn_send")
    BY <1>6, <1>8, <2>1, <2>4 DEF Operate!Cancelled
  <2> QED
    BY <1>12, <2>2, <2>3, <2>4 DEF Operate!SkillTurn
<1>13. CASE Operate(b)!SkillSend(k)
  <2> DEFINE later == IF s.cancel THEN s.after + 1 ELSE s.after
             to == IF s.pc = "send" THEN Head(s.steps) ELSE "turn"
             sent == [s EXCEPT !.pc = to, !.after = later]
  <2>1. /\ s.pc \in {"send", "turn_send"} /\ s.steps # <<>> /\ Head(s.steps) # "act"
        /\ UNCHANGED active /\ Operate(b)!Unskilled /\ drive' = [by |-> "skill", n |-> k]
    BY <1>7, <1>13 DEF Operate!SkillSend, MovingPlaces
  <2>2. later \in Nat /\ (later > 0 => s.cancel) /\ later <= 2 /\ (to = "turn" => later <= 1)
    <3>1. Head(s.steps) \in {"drive", "avoid"}
      BY <1>1, <2>1 DEF SkillSteps
    <3>2. later = s.after \/ (later = s.after + 1 /\ s.cancel)
      OBVIOUS
    <3>3. to = "turn" => s.pc = "turn_send"
      BY <2>1, <3>1
    <3>4. s.after \in {0, 1} /\ (to = "turn" => s.after = 0)
      BY <1>8, <2>1, <3>3
    <3>5. later > 0 => s.cancel
      <4>1. CASE s.cancel
        BY <4>1
      <4>2. CASE ~s.cancel
        BY <1>8, <4>2
      <4> QED
        BY <4>1, <4>2
    <3> HIDE DEF later, to
    <3> QED
      BY <3>2, <3>4, <3>5
  <2>3. to \in {"drive", "avoid", "turn"} /\ to \in SkillPlaces
    BY <1>1, <2>1 DEF SkillSteps, SkillPlaces, MovingPlaces
  <2>4. skills' = [skills EXCEPT ![k] = sent]
    BY <1>0, <1>13 DEF Operate!SkillSend, SkillRuns
  <2> HIDE DEF later, to
  <2>5. sent \in SkillRuns
    BY <1>0, <2>2, <2>3, SkillFields
  <2>6. sent.pc = to /\ sent.after = later /\ sent.cancel = s.cancel /\ sent.steps = s.steps /\ sent.status = s.status
    BY <1>2
  <2>7. SoundSkill(sent)
    BY <2>1, <2>2, <2>3, <2>6 DEF SoundSkill, AtStep, HeedfulSkill, SkillSettled
  <2> HIDE DEF sent
  <2>8. Skilling(b, k, sent)
    BY <1>0, <2>1, <2>3, <2>4, <2>5, <2>6, <2>7 DEF Skilling, Operate!Unskilled
  <2> QED
    BY <2>8, SkillingKeeps
<1>14. CASE Operate(b)!SkillReport(k)
  <2>1. s.pc = "report" /\ s.status \in SkillVerdicts /\ UNCHANGED <<drive, active>> /\ Operate(b)!Unskilled
    BY <1>0, <1>1, <1>14 DEF Operate!SkillReport, SoundSkill, SkillSettled
  <2>2. CASE skills' = [skills EXCEPT ![k].result = skills[k].status, ![k].pc = "end"]
    <3> DEFINE t == [s EXCEPT !.result = s.status, !.pc = "end"]
    <3>1. t \in SkillRuns
      BY <1>0, <2>1, SkillFields
    <3>2. t.pc = "end" /\ t.status = s.status /\ SoundSkill(t)
      BY <1>0, <1>1, <1>2, <2>1
         DEF SoundSkill, AtStep, HeedfulSkill, SkillSettled, MovingPlaces, SkillVerdicts
    <3>3. skills' = [skills EXCEPT ![k] = t]
      BY <2>2
    <3> HIDE DEF t, s
    <3> QED
      BY <1>3, <2>1, <3>1, <3>2, <3>3
  <2>3. CASE Operate(b)!SkillOver(k, "failed")
    BY <1>4, <2>1, <2>3 DEF SkillVerdicts
  <2>4. CASE Operate(b)!SkillGoto(k, "end")
    <3>1. goto("end") \in SkillRuns
      BY <1>0, SkillFields DEF SkillPlaces
    <3>2. goto("end").pc = "end" /\ goto("end").status = s.status /\ SoundSkill(goto("end"))
      BY <1>0, <1>1, <1>2, <2>1
         DEF SoundSkill, AtStep, HeedfulSkill, SkillSettled, MovingPlaces, SkillVerdicts
    <3>3. skills' = [skills EXCEPT ![k] = goto("end")]
      BY <2>4 DEF Operate!SkillGoto
    <3> HIDE DEF goto, s
    <3> QED
      BY <1>3, <2>1, <3>1, <3>2, <3>3
  <2> QED
    BY <1>14, <2>2, <2>3, <2>4 DEF Operate!SkillReport
\* The "finally" of the run: what has sent its zero and frees only its own slot.
<1>15. CASE Operate(b)!SkillEnd(k) \/ Operate(b)!SkillFree(k)
  <2> DEFINE pc == IF s.pc = "end" THEN "free" ELSE "over"
  <2>1. s.pc \in {"end", "free"} /\ s.status # "running" /\ Operate(b)!Unskilled /\ Operate(b)!SkillGoto(k, pc)
    BY <1>0, <1>15 DEF Operate!SkillEnd, Operate!SkillFree, SoundSkill, SkillSettled
  <2>2. active' = active \/ (active' = 0 /\ active = k)
    BY <1>15 DEF Operate!SkillEnd, Operate!SkillFree, Operate!Freed
  <2>3. drive' = Operate(b)!Zero \/ (drive' = drive /\ ~(drive.by = "skill" /\ drive.n = k))
    BY <1>15 DEF Operate!SkillEnd, Operate!SkillFree, Operate!LastSample, Driven, OperateInv
  <2>4. pc \in {"free", "over"} /\ pc \in SkillPlaces
    BY DEF SkillPlaces
  <2> HIDE DEF pc
  <2>5. goto(pc) \in SkillRuns
    BY <1>0, <2>4, SkillFields
  <2>6. SoundSkill(goto(pc)) /\ goto(pc).status = s.status
    BY <1>0, <1>1, <1>2, <2>1, <2>4 DEF SoundSkill, AtStep, HeedfulSkill, SkillSettled, MovingPlaces
  <2>7. skills' = [skills EXCEPT ![k] = goto(pc)]
    BY <2>1 DEF Operate!SkillGoto
  <2> HIDE DEF goto
  <2>8. Skilling(b, k, goto(pc))
    BY <1>0, <2>1, <2>2, <2>3, <2>5, <2>6, <2>7 DEF Skilling, Operate!Unskilled
  <2> QED
    BY <2>8, SkillingKeeps
<1> QED
  BY <1>9, <1>10, <1>11, <1>12, <1>13, <1>14, <1>15
-----------------------------------------------------------------------------
(* The specification. *)

LEMMA OperateInit ==
    ASSUME NEW b, Operate(b)!Init
    PROVE  OperateInv(b)
<1>1. OperateTyped(b)
  <2>1. /\ cmds \in Seq(Commands(b)) /\ follows \in Seq(Followers(b)) /\ skills \in Seq(SkillRuns)
        /\ active \in 0 .. Len(skills)
    BY DEF Operate!Init
  <2>2. mode \in Operate(b)!Modes /\ follow.status \in {"idle", "running", "stopped"}
    BY DEF Operate!Init, Operate!Modes
  <2>3. busy \in BOOLEAN /\ assist \in BOOLEAN
    BY Zenon DEF Operate!Init
  <2> QED
    BY <2>1, <2>2, <2>3 DEF OperateTyped
<1>2. Driven /\ HeedfulFollows /\ SoundSkills /\ SlotOfRunning
  BY DEF Operate!Init, Driven, Operate!Zero, HeedfulFollows, SoundSkills, SlotOfRunning
<1> QED
  BY <1>1, <1>2 DEF OperateInv

LEMMA OperateStep ==
    ASSUME NEW b, OperateLimits(b), OperateInv(b), [Operate(b)!Next]_(Operate(b)!vars)
    PROVE  OperateInv(b)'
<1>1. CASE UNCHANGED Operate(b)!vars
  <2>1. Commanding(b)
    BY <1>1 DEF Operate!vars, Commanding, Operate!Others, OperateInv, OperateTyped
  <2> QED
    BY <2>1, CommandingKeeps
<1>2. ASSUME NEW act \in b.kinds,
             Operate(b)!McpTool(act) \/ \E help \in BOOLEAN : Operate(b)!Console(act, help)
      PROVE  OperateInv(b)'
  <2>1. PICK help \in BOOLEAN : act \in Acts(b) /\ Operate(b)!Arrive(act, help)
    BY <1>2, Zenon DEF Operate!McpTool, Operate!Console, Acts
  <2> QED
    BY <2>1, ArriveCommands, CommandingKeeps
<1>3. CASE Operate(b)!TaskCommand
  BY <1>3, ArriveCommands, CommandingKeeps DEF Operate!TaskCommand, Acts
<1>4. ASSUME NEW c \in DOMAIN cmds,
             \/ Operate(b)!EnsureReady(c) \/ Operate(b)!Confirm(c) \/ Operate(b)!Release(c)
             \/ Operate(b)!Speed(c) \/ Operate(b)!Check(c) \/ Operate(b)!SetMode(c)
             \/ Operate(b)!Velocity(c) \/ Operate(b)!Sample(c) \/ Operate(b)!AssistSample(c)
             \/ Operate(b)!Exit(c) \/ Operate(b)!HandBack(c) \/ Operate(b)!TaskStart(c)
      PROVE  OperateInv(b)'
  BY <1>4, PlainCommands, CommandingKeeps
<1>5. ASSUME NEW c \in DOMAIN cmds,
             (\E t \in b.tracks : Operate(b)!FollowStart(c, t)) \/ Operate(b)!FollowStop(c)
      PROVE  OperateInv(b)'
  BY <1>5, FollowStartKeeps, FollowStopKeeps
<1>6. ASSUME NEW c \in DOMAIN cmds,
             (\E p \in b.plans : Operate(b)!SkillStart(c, p)) \/ Operate(b)!SkillCancel(c)
      PROVE  OperateInv(b)'
  BY <1>6, SkillStartKeeps, SkillCancelKeeps
<1>7. CASE Operate(b)!TaskEnd
  <2>1. Commanding(b)
    BY <1>7 DEF Operate!TaskEnd, Commanding, OperateInv, OperateTyped
  <2> QED
    BY <2>1, CommandingKeeps
<1>8. ASSUME NEW g \in DOMAIN follows,
             Operate(b)!FollowCheck(g) \/ Operate(b)!FollowSend(g) \/ Operate(b)!FollowEnd(g) \/ Operate(b)!FollowMark(g)
      PROVE  OperateInv(b)'
  BY <1>8, FollowerKeeps
<1>9. ASSUME NEW k \in DOMAIN skills,
             \/ Operate(b)!SkillStep(k) \/ Operate(b)!SkillDrive(k) \/ Operate(b)!SkillAvoid(k)
             \/ Operate(b)!SkillTurn(k) \/ Operate(b)!SkillSend(k)
             \/ Operate(b)!SkillReport(k) \/ Operate(b)!SkillEnd(k) \/ Operate(b)!SkillFree(k)
      PROVE  OperateInv(b)'
  BY <1>9, SkillKeeps
<1> QED
  BY <1>1, <1>2, <1>3, <1>4, <1>5, <1>6, <1>7, <1>8, <1>9 DEF Operate!Next

LEMMA OperateInvTyped ==
    ASSUME NEW b, OperateInv(b)
    PROVE  Operate(b)!TypeOK
  BY DEF OperateInv, OperateTyped, Driven, Operate!TypeOK

\* At most the skill in the slot runs.
LEMMA InvOneSkill ==
    ASSUME NEW b, OperateInv(b)
    PROVE  Operate(b)!OneSkill
<1> DEFINE running == {k \in DOMAIN skills : skills[k].status = "running"}
<1>0. Operate(b)!Cardinality(running) = Cardinality(running)
  BY Zenon DEF Operate!Cardinality, Cardinality
<1> SUFFICES Cardinality(running) <= 1
  BY <1>0 DEF Operate!OneSkill
<1>1. running \subseteq {active}
  BY DEF OperateInv, SlotOfRunning
<1> HIDE DEF running
<1>2. IsFiniteSet({active}) /\ Cardinality({active}) = 1
  BY FS_Singleton
<1>3. Cardinality(running) \in Nat /\ Cardinality(running) <= Cardinality({active})
  BY <1>1, <1>2, FS_Subset, FS_CardinalityType
<1> QED
  BY <1>2, <1>3

LEMMA InvHeeded ==
    ASSUME NEW b, OperateInv(b)
    PROVE  Operate(b)!NothingRetained /\ Operate(b)!StopIsHeeded
<1>1. Operate(b)!NothingRetained
  BY DEF OperateInv, Driven, Operate!NothingRetained
<1>2. ASSUME NEW g \in DOMAIN follows PROVE follows[g].after <= 1
  <2>1. follows[g] \in Followers(b)
    BY DEF OperateInv, OperateTyped
  <2>2. follows[g].after \in Nat
    BY <2>1, Zenon DEF Followers
  <2> QED
    BY <2>2 DEF OperateInv, HeedfulFollows, HeedfulFollow
<1>3. ASSUME NEW k \in DOMAIN skills PROVE skills[k].after <= 2
  BY DEF OperateInv, SoundSkills, SoundSkill, HeedfulSkill
<1> QED
  BY <1>1, <1>2, <1>3 DEF Operate!StopIsHeeded

\* The invariant of manual control holds throughout.
THEOREM OperateInvariance ==
    ASSUME NEW b, OperateLimits(b)
    PROVE  Operate(b)!Spec => []OperateInv(b)
<1>1. Operate(b)!Init => OperateInv(b)
  BY OperateInit
<1>2. OperateInv(b) /\ [Operate(b)!Next]_(Operate(b)!vars) => OperateInv(b)'
  BY OperateStep
<1> QED
  BY <1>1, <1>2, PTL DEF Operate!Spec

\* What moves the robot is never a follower or a skill that has ended: each
\* sends its zero before it is over (the "finally" of _run_loop and _run).  A
\* follower told to stop sends at most one more sample, a skill at most two
\* (_stop_event, cancel_event).
THEOREM StopAlwaysHeeded ==
    ASSUME NEW b, OperateLimits(b)
    PROVE  Operate(b)!Spec => [](Operate(b)!NothingRetained /\ Operate(b)!StopIsHeeded)
<1>1. OperateInv(b) => Operate(b)!NothingRetained /\ Operate(b)!StopIsHeeded
  BY InvHeeded
<1> QED
  BY <1>1, OperateInvariance, PTL

\* Two skills never run together, although a skill frees its slot after the
\* next may have begun (start, _run).
THEOREM AlwaysOneSkill ==
    ASSUME NEW b, OperateLimits(b)
    PROVE  Operate(b)!Spec => []Operate(b)!OneSkill
<1>1. OperateInv(b) => Operate(b)!OneSkill
  BY InvOneSkill
<1> QED
  BY <1>1, OperateInvariance, PTL

=============================================================================
