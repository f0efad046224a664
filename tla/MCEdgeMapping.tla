--------------------------- MODULE MCEdgeMapping ---------------------------
(* The origin lock and the mapping workflow of the Edge agent, as bounded    *)
(* instances for TLC.  A behaviour explores one scenario, an instance of one *)
(* of the modules; the mapping module has its own abstraction of the lock.   *)
EXTENDS Naturals

VARIABLES
    scenario,
    st, window, count, fixSeen, waited, file, stopped, newest, thread, worker, age, caller, log,
    lockCalls, lockCrashes,
    session, mtype, origin, ofile, slam, bag, saved, dir, order, links, val, checks, call, calls,
    crashes

lockVars == <<st, window, count, fixSeen, waited, file, stopped, newest, thread, worker, age,
              caller, log, lockCalls, lockCrashes>>
mappingVars == <<session, mtype, origin, ofile, slam, bag, saved, dir, order, links, val, checks,
                 call, calls, crashes>>

\* Three good positions, of which the outer two are too far apart, one sample
\* without a baseline and one without a position.
FiveSamples == {[p |-> x, fix |-> TRUE, base |-> TRUE] : x \in 0..2}
               \cup {[p |-> 1, fix |-> TRUE, base |-> FALSE], [p |-> 1, fix |-> FALSE, base |-> TRUE]}
Lock == INSTANCE OriginLock WITH
    Workers <- {"w1", "w2", "w3"}, Callers <- {"c1", "c2"}, Ops <- {"start", "prepare", "cancel"},
    Window <- 2, NoSignal <- 3, StaleAfter <- 1, MaxSpread <- 1, Samples <- FiveSamples, MaxCalls <- 2, MaxCrashes <- 0,
    calls <- lockCalls, crashes <- lockCrashes

\* One caller, one good sample and one without a position, and a restart.
TwoSamples == {[p |-> 1, fix |-> x, base |-> TRUE] : x \in BOOLEAN}
Disk == INSTANCE OriginLock WITH
    Workers <- {"w1", "w2"}, Callers <- {"c1"},
    Ops <- {"start", "prepare", "cancel", "resume", "begin"}, Window <- 2, NoSignal <- 3,
    StaleAfter <- 1, MaxSpread <- 1, Samples <- TwoSamples, MaxCalls <- 4, MaxCrashes <- 1,
    calls <- lockCalls, crashes <- lockCrashes

\* Indoor and outdoor sessions with every way out of them.
Sessions == INSTANCE Mapping WITH
    Callers <- {"c1"}, Ops <- {"start", "lock", "warmup", "begin", "save", "cancel", "rescue"},
    Types <- {"indoor", "outdoor"}, Stops <- {TRUE, FALSE}, Quality <- {"ok"}, MaxCalls <- 4,
    MaxDirs <- 2, MaxCrashes <- 0

\* An outdoor session and a restart.
Outdoor == INSTANCE Mapping WITH
    Callers <- {"c1"},
    Ops <- {"start", "prepare", "lock", "unlock", "warmup", "begin", "save", "cancel"},
    Types <- {"outdoor"}, Stops <- {TRUE}, Quality <- {"ok"}, MaxCalls <- 4, MaxDirs <- 2,
    MaxCrashes <- 1

\* Saves that keep mapping, rescues and optimisations that may be rejected.
Results == INSTANCE Mapping WITH
    Callers <- {"c1"}, Ops <- {"start", "save", "rescue", "optimize"}, Types <- {"indoor"},
    Stops <- {TRUE, FALSE}, Quality <- {"ok", "rejected"}, MaxCalls <- 4, MaxDirs <- 3,
    MaxCrashes <- 0

\* Two commands at once, the rescue of a diverged map among them.
Threads == INSTANCE Mapping WITH
    Callers <- {"c1", "c2"}, Ops <- {"warmup", "begin", "save", "cancel", "rescue"},
    Types <- {"indoor"}, Stops <- {TRUE}, Quality <- {"ok"}, MaxCalls <- 3, MaxDirs <- 2,
    MaxCrashes <- 0

Init ==
    \/ scenario = "lock" /\ Lock!Init /\ Results!Init
    \/ scenario = "disk" /\ Disk!Init /\ Results!Init
    \/ scenario = "sessions" /\ Disk!Init /\ Sessions!Init
    \/ scenario = "outdoor" /\ Disk!Init /\ Outdoor!Init
    \/ scenario = "results" /\ Disk!Init /\ Results!Init
    \/ scenario = "threads" /\ Disk!Init /\ Threads!Init

Next ==
    /\ UNCHANGED scenario
    /\ \/ scenario = "lock" /\ Lock!Next /\ UNCHANGED mappingVars
       \/ scenario = "disk" /\ Disk!Next /\ UNCHANGED mappingVars
       \/ scenario = "sessions" /\ Sessions!Next /\ UNCHANGED lockVars
       \/ scenario = "outdoor" /\ Outdoor!Next /\ UNCHANGED lockVars
       \/ scenario = "results" /\ Results!Next /\ UNCHANGED lockVars
       \/ scenario = "threads" /\ Threads!Next /\ UNCHANGED lockVars

Spec == Init /\ [][Next]_<<scenario, lockVars, mappingVars>>

\* The origin: it is locked only on samples that earn it, given up for want of
\* signal only after its own time, and backed by the file SLAM reads (ingest,
\* no_signal, _write_origin_file_locked).
LockEarned ==
    /\ [](scenario = "lock" => Lock!TypeOK)
    /\ [](scenario = "disk" => Disk!TypeOK /\ Disk!LockOnDisk)
    /\ [][/\ scenario = "lock" => Lock!EarnsLock /\ Lock!TimesSignalLoss
          /\ scenario = "disk" => Disk!EarnsLock]_lockVars

\* No command, whichever of its steps failed, leaves SLAM capturing behind an ended
\* session, unless a save that was to keep the process failed (_save_active_mapping).
NoLeak ==
    /\ [](/\ scenario = "sessions" => Sessions!TypeOK
         /\ scenario = "threads" => Threads!TypeOK)
    /\ [][/\ scenario = "sessions" => Sessions!NoLeak
          /\ scenario = "outdoor" => Outdoor!NoLeak
          /\ scenario = "results" => Results!NoLeak
          /\ scenario = "threads" => Threads!NoLeak]_mappingVars

\* What is saved and used: an outdoor session captures and packages on its own
\* origin, the verdict shown is of the map saved last, and the current map is
\* never switched to a rescued or rejected one.
OnlySoundMapsActivated ==
    /\ [](scenario = "outdoor" => Outdoor!TypeOK /\ Outdoor!CaptureOnOrigin)
    /\ [](scenario = "results" => Results!TypeOK /\ Results!VerdictOfLastSave)
    /\ [][/\ scenario = "sessions" => Sessions!KeepsOrigin
          /\ scenario = "outdoor" => Outdoor!KeepsOrigin
          /\ scenario = "results" => Results!ActivatesSound]_mappingVars

=============================================================================
