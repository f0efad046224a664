--------------------------- MODULE ExchangeProofs ---------------------------
(***************************************************************************)
(* Proofs for what center and Edge exchange: the boundaries of maps, for   *)
(* any number of revisions, orders, edits, moves and restarts.             *)
(*                                                                         *)
(* A task runs inside the revision it was checked with because a revision  *)
(* is one body everywhere, in the orders under way, in the Edge's memory   *)
(* and in its table.  An edit of a zone changes the draft without a new    *)
(* revision, so this is so only while no zone was edited.                  *)
(***************************************************************************)
EXTENDS MCExchange, SequenceTheorems, TLAPS

\* The bounds are counts.
Limits == MaxRev \in Nat /\ MaxOrders \in Nat

AnyBody == Bodies \cup {Map!Open}
Orders ==
    [kind : {"apply", "activate", "start"}, map : Map!Maps, rev : 0 .. MaxRev, body : AnyBody,
     route : SUBSET {1, 2}, answer : {"none", "succeeded", "failed"}, told : BOOLEAN]
Busy == {"raster", "store", "reload", "clear", "open", "valid", "running"}
Appliers == [pc : Busy \cup {"idle", "done"}, raster : AnyBody]
Drafts ==
    [rev : 0 .. MaxRev, activeRev : 0 .. MaxRev, body : AnyBody, active : AnyBody,
     cmd : 0 .. MaxOrders, status : {"unconfigured", "draft", "applying", "active", "failed"}]
Watches ==
    [pc : {"idle", "speed", "stop"}, violation : BOOLEAN, speed : {"none", "slow", "retry"},
     act : BOOLEAN, stopped : BOOLEAN]

Typed ==
    /\ bound \in Drafts /\ saved \in Seq(Bodies) /\ Len(saved) = bound.rev
    /\ robotMap \in Map!Maps /\ emap \in Map!Maps
    /\ task \in 0 .. MaxOrders /\ etask \in 0 .. MaxOrders
    /\ orders \in Seq(Orders) /\ Len(orders) <= MaxOrders
    /\ mem \in Map!Payloads /\ disk \in Map!Payloads /\ mask \in AnyBody
    /\ applier \in [1 .. MaxOrders -> Appliers] /\ watch \in Watches /\ edits \in Nat

\* A thread at work belongs to an order without an answer, and what the center
\* was told has one; a task on the Edge is the start in whose thread it runs.
OrdersOpen ==
    /\ \A i \in 1 .. MaxOrders : applier[i].pc \in Busy => i \in DOMAIN orders /\ orders[i].answer = "none"
    /\ \A i \in DOMAIN orders : orders[i].told => orders[i].answer # "none"
    /\ etask # 0 => applier[etask].pc = "running"

\* The body of a revision, as long as no zone was edited.
IsRevision(rev, body) == rev \in 1 .. bound.rev /\ (edits = 0 => body = saved[rev])
Holds(copy) == copy = Map!None \/ (copy.map = "m1" /\ IsRevision(copy.rev, copy.body))

\* Every copy of a boundary is the body saved as its revision.
RevisionsAgree ==
    /\ bound.rev > 0 => IsRevision(bound.rev, bound.body)
    /\ bound.activeRev <= bound.rev
    /\ \A i \in DOMAIN orders :
           orders[i].kind = "apply" => orders[i].map = "m1" /\ IsRevision(orders[i].rev, orders[i].body)
    /\ Holds(mem) /\ Holds(disk)

\* A start that was found valid stays inside the revision of its snapshot.
StartsInside ==
    \A i \in DOMAIN orders :
        orders[i].kind = "start" =>
            /\ orders[i].rev <= bound.rev /\ (orders[i].rev > 0 => orders[i].map = "m1")
            /\ edits = 0 /\ orders[i].rev > 0 /\ applier[i].pc \in {"valid", "running"}
                   => orders[i].route \subseteq saved[orders[i].rev].allowed
RunsStart == \A i \in DOMAIN orders : applier[i].pc \in {"valid", "running"} => orders[i].kind = "start"

\* What the watchdog holds for dealt with is on its way to the stop or stopped.
WatchInv == watch.violation /\ watch.pc # "stop" /\ ~watch.act => watch.stopped
WatchRests == watch.pc = "idle" => ~watch.act

MapInv ==
    /\ Typed /\ OrdersOpen /\ RevisionsAgree /\ StartsInside /\ RunsStart /\ WatchInv /\ WatchRests
    /\ Map!ActiveIsAcknowledged
-----------------------------------------------------------------------------
(* The threads of the Edge. *)

Center == <<bound, saved, robotMap, task, edits>>

\* Thread i goes on, or answers its order and is done.
Applying(i) ==
    /\ UNCHANGED Center
    /\ orders' \in Seq(Orders) /\ DOMAIN orders' = DOMAIN orders /\ Len(orders') = Len(orders)
    /\ applier' \in [1 .. MaxOrders -> Appliers]
    /\ i \in DOMAIN orders
    /\ \A j \in DOMAIN orders :
           /\ orders'[j].kind = orders[j].kind /\ orders'[j].map = orders[j].map
           /\ orders'[j].rev = orders[j].rev /\ orders'[j].body = orders[j].body
           /\ orders'[j].route = orders[j].route /\ orders'[j].told = orders[j].told
           /\ j # i => orders'[j] = orders[j]
    /\ \A j \in 1 .. MaxOrders : j # i => applier'[j] = applier[j]
    /\ orders[i].answer = "none"
    /\ \/ orders' = orders /\ applier'[i].pc \in Busy
       \/ applier'[i].pc = "done" /\ orders'[i].answer \in {"succeeded", "failed"}

LEMMA AtOrder ==
    ASSUME Limits, Typed, OrdersOpen, NEW i \in DOMAIN orders,
           applier[i].pc \in Busy \/ orders[i].answer = "none"
    PROVE  /\ i \in 1 .. MaxOrders /\ orders[i] \in Orders /\ applier[i] \in Appliers
           /\ orders[i].answer = "none"
<1>1. i \in 1 .. MaxOrders
  BY DEF Typed, Limits
<1> QED
  BY <1>1 DEF Typed, OrdersOpen

LEMMA GoesOn ==
    ASSUME Typed, NEW i \in DOMAIN orders, i \in 1 .. MaxOrders, orders[i].answer = "none",
           UNCHANGED orders, UNCHANGED Center, NEW t \in Appliers, t.pc \in Busy,
           applier' = [applier EXCEPT ![i] = t]
    PROVE  Applying(i) /\ applier'[i] = t
  BY DEF Typed, Applying

LEMMA Answers ==
    ASSUME Limits, Typed, NEW i \in DOMAIN orders, i \in 1 .. MaxOrders, orders[i].answer = "none",
           UNCHANGED Center, NEW a \in {"succeeded", "failed"}, Map!Answer(i, a)
    PROVE  Applying(i) /\ applier'[i].pc = "done"
<1> DEFINE o == [orders[i] EXCEPT !.answer = a]
           t == [applier[i] EXCEPT !.pc = "done"]
<1>1. orders' = [orders EXCEPT ![i] = o] /\ applier' = [applier EXCEPT ![i] = t]
  BY DEF Map!Answer, Map!Goto
<1>2. orders[i] \in Orders /\ applier[i] \in Appliers
  BY DEF Typed, Limits
<1>3. o \in Orders /\ t \in Appliers
  BY <1>2, Zenon DEF Orders, Appliers
<1>4. /\ o.kind = orders[i].kind /\ o.map = orders[i].map /\ o.rev = orders[i].rev
      /\ o.body = orders[i].body /\ o.route = orders[i].route /\ o.told = orders[i].told
      /\ o.answer = a /\ t.pc = "done"
  BY <1>2 DEF Orders, Appliers
<1> HIDE DEF o, t
<1>5. orders' \in Seq(Orders) /\ DOMAIN orders' = DOMAIN orders /\ Len(orders') = Len(orders)
      /\ orders'[i] = o /\ \A j \in DOMAIN orders : j # i => orders'[j] = orders[j]
  BY <1>1, <1>3 DEF Typed
<1>6. applier' \in [1 .. MaxOrders -> Appliers] /\ applier'[i] = t
      /\ \A j \in 1 .. MaxOrders : j # i => applier'[j] = applier[j]
  BY <1>1, <1>3 DEF Typed
<1> QED
  BY <1>4, <1>5, <1>6 DEF Applying

\* What a step of a thread leaves to show: its copies of the boundary, the task
\* it begins or ends, and the note of the watchdog.
LEMMA ApplyingKeeps ==
    ASSUME Limits, MapInv, NEW i, Applying(i),
           emap' \in Map!Maps, mem' \in Map!Payloads, disk' \in Map!Payloads, mask' \in AnyBody,
           Holds(mem)', Holds(disk)',
           etask' = etask \/ (etask' = i /\ applier'[i].pc = "running") \/ etask' = 0,
           etask = i /\ etask' = i => applier'[i].pc = "running",
           applier'[i].pc \in {"valid", "running"} =>
               \/ applier[i].pc \in {"valid", "running"}
               \/ /\ orders[i].kind = "start"
                  /\ edits = 0 /\ orders[i].rev > 0 => orders[i].route \subseteq saved[orders[i].rev].allowed,
           watch' \in Watches, WatchInv', WatchRests'
    PROVE  MapInv'
<1>0. Typed /\ OrdersOpen /\ RevisionsAgree /\ StartsInside /\ RunsStart
  BY DEF MapInv
<1>a. etask' = etask \/ (etask' = i /\ applier'[i].pc = "running") \/ etask' = 0
  OBVIOUS
<1>b. etask = i /\ etask' = i => applier'[i].pc = "running"
  OBVIOUS
<1>c. applier'[i].pc \in {"valid", "running"} =>
          \/ applier[i].pc \in {"valid", "running"}
          \/ /\ orders[i].kind = "start"
             /\ edits = 0 /\ orders[i].rev > 0 => orders[i].route \subseteq saved[orders[i].rev].allowed
  OBVIOUS
<1>1. UNCHANGED Center /\ i \in DOMAIN orders /\ i \in 1 .. MaxOrders /\ DOMAIN orders' = DOMAIN orders
  BY <1>0 DEF Applying, Typed, Limits
<1>2. Typed'
  <2>1. /\ bound' \in Drafts /\ saved' \in Seq(Bodies) /\ Len(saved') = bound'.rev
        /\ robotMap' \in Map!Maps /\ task' \in 0 .. MaxOrders /\ edits' \in Nat
    BY <1>0, <1>1 DEF Typed, Center
  <2>2. orders' \in Seq(Orders) /\ Len(orders') <= MaxOrders /\ applier' \in [1 .. MaxOrders -> Appliers]
    BY <1>0 DEF Typed, Applying
  <2>3. etask' \in 0 .. MaxOrders
    BY <1>0, <1>1, <1>a DEF Typed, Limits
  <2> QED
    BY <2>1, <2>2, <2>3 DEF Typed
<1>3. OrdersOpen'
  <2>1. ASSUME NEW j \in 1 .. MaxOrders, applier'[j].pc \in Busy
        PROVE  j \in DOMAIN orders' /\ orders'[j].answer = "none"
    <3>1. CASE j = i
      BY <1>1, <2>1, <3>1 DEF Applying, Busy
    <3>2. CASE j # i
      BY <1>0, <1>1, <2>1, <3>2 DEF Applying, OrdersOpen
    <3> QED
      BY <3>1, <3>2
  <2>2. ASSUME NEW j \in DOMAIN orders', orders'[j].told
        PROVE  orders'[j].answer # "none"
    <3>1. orders[j].told /\ orders[j].answer # "none" /\ j # i
      BY <1>0, <1>1, <2>2 DEF Applying, OrdersOpen
    <3> QED
      BY <1>1, <2>2, <3>1 DEF Applying
  <2>3. etask' # 0 => applier'[etask'].pc = "running"
    <3>1. CASE etask' = i
      BY <1>0, <1>1, <3>1, <1>a, <1>b DEF OrdersOpen
    <3>2. CASE etask' = etask /\ etask # i
      BY <1>0, <1>1, <3>2 DEF OrdersOpen, Applying, Typed
    <3> QED
      BY <1>0, <1>1, <3>1, <3>2, <1>a
  <2> QED
    BY <2>1, <2>2, <2>3 DEF OrdersOpen
<1>4. RevisionsAgree'
  BY <1>0, <1>1 DEF RevisionsAgree, Applying, Center, IsRevision
<1>5. StartsInside'
  <2> SUFFICES ASSUME NEW j \in DOMAIN orders, orders[j].kind = "start"
               PROVE  /\ orders[j].rev <= bound.rev /\ (orders[j].rev > 0 => orders[j].map = "m1")
                      /\ edits = 0 /\ orders[j].rev > 0 /\ applier'[j].pc \in {"valid", "running"}
                             => orders[j].route \subseteq saved[orders[j].rev].allowed
    BY <1>1 DEF StartsInside, Applying, Center
  <2>1. j \in 1 .. MaxOrders
    BY <1>0 DEF Typed, Limits
  <2>2. applier'[j].pc \in {"valid", "running"} =>
            \/ applier[j].pc \in {"valid", "running"}
            \/ edits = 0 /\ orders[j].rev > 0 => orders[j].route \subseteq saved[orders[j].rev].allowed
    BY <1>c, <2>1 DEF Applying
  <2> QED
    BY <1>0, <2>2 DEF StartsInside
<1>6. RunsStart'
  <2> SUFFICES ASSUME NEW j \in DOMAIN orders, applier'[j].pc \in {"valid", "running"}
               PROVE  orders[j].kind = "start"
    BY <1>1 DEF RunsStart, Applying
  <2>1. j \in 1 .. MaxOrders
    BY <1>0 DEF Typed, Limits
  <2>2. applier[j].pc \in {"valid", "running"} \/ orders[j].kind = "start"
    BY <1>c, <2>1 DEF Applying
  <2> QED
    BY <1>0, <2>2 DEF RunsStart
<1>7. Map!ActiveIsAcknowledged'
  BY <1>0, <1>1 DEF MapInv, Map!ActiveIsAcknowledged, Applying, Center
<1> QED
  BY <1>2, <1>3, <1>4, <1>5, <1>6, <1>7 DEF MapInv

\* What the state of a thread may become.
LEMMA ApplierMoves ==
    ASSUME Typed, NEW i \in 1 .. MaxOrders, NEW pc \in Busy
    PROVE  [applier[i] EXCEPT !.pc = pc] \in Appliers /\ [applier[i] EXCEPT !.pc = pc].pc = pc
<1>1. applier[i] \in Appliers
  BY DEF Typed
<1>2. [applier[i] EXCEPT !.pc = pc] \in Appliers
  BY <1>1, Zenon DEF Appliers
<1> QED
  BY <1>1, <1>2 DEF Appliers

LEMMA MovesOn ==
    ASSUME Limits, MapInv, NEW i \in DOMAIN orders, NEW pc \in Busy, Map!Goto(i, pc),
           applier[i].pc \in Busy \/ orders[i].answer = "none", UNCHANGED <<orders, Center>>
    PROVE  Applying(i) /\ applier'[i].pc = pc /\ i \in 1 .. MaxOrders
<1> DEFINE t == [applier[i] EXCEPT !.pc = pc]
<1>1. i \in 1 .. MaxOrders /\ orders[i].answer = "none"
  BY AtOrder DEF MapInv
<1>2. t \in Appliers /\ t.pc = pc
  BY <1>1, ApplierMoves DEF MapInv
<1>3. applier' = [applier EXCEPT ![i] = t]
  BY DEF Map!Goto
<1> HIDE DEF t
<1> QED
  BY <1>1, <1>2, <1>3, GoesOn DEF MapInv

LEMMA Refuses ==
    ASSUME Limits, MapInv, NEW i \in DOMAIN orders, NEW a \in {"succeeded", "failed"}, Map!Answer(i, a),
           applier[i].pc \in Busy \/ orders[i].answer = "none", UNCHANGED Center
    PROVE  Applying(i) /\ applier'[i].pc = "done" /\ i \in 1 .. MaxOrders
<1>1. i \in 1 .. MaxOrders /\ orders[i].answer = "none"
  BY AtOrder DEF MapInv
<1> QED
  BY <1>1, Answers DEF MapInv

\* A thread that answers without a trace, or only moves on.
LEMMA NoTrace ==
    ASSUME Limits, MapInv, NEW i, Applying(i), UNCHANGED <<emap, mem, disk, etask, watch>>,
           mask' \in AnyBody, i # etask,
           applier'[i].pc \notin {"valid", "running"}
    PROVE  MapInv'
<1>1. Holds(mem)' /\ Holds(disk)' /\ WatchInv' /\ WatchRests'
  BY DEF MapInv, RevisionsAgree, Holds, IsRevision, Applying, Center, WatchInv, WatchRests
<1>2. emap' \in Map!Maps /\ mem' \in Map!Payloads /\ disk' \in Map!Payloads /\ watch' \in Watches
  BY DEF MapInv, Typed
<1> QED
  BY <1>1, <1>2, ApplyingKeeps

\* map.boundary_apply.
LEMMA ApplyBeginKeeps ==
    ASSUME Limits, MapInv, NEW i \in DOMAIN orders, Map!ApplyBegin(i) PROVE MapInv'
<1>1. /\ orders[i].kind = "apply" /\ orders[i].answer = "none" /\ applier[i].pc = "idle"
      /\ UNCHANGED Center /\ UNCHANGED watch
  BY DEF Map!ApplyBegin, Map!Fresh, Map!center, Map!motion, Center
<1>2. i \in 1 .. MaxOrders /\ orders[i] \in Orders /\ i # etask
  BY <1>1, AtOrder DEF MapInv, OrdersOpen
<1>3. CASE Map!Answer(i, "failed") /\ UNCHANGED <<emap, mem, disk, mask, etask>>
  BY <1>1, <1>2, <1>3, Refuses, NoTrace DEF MapInv, Typed
<1>4. CASE /\ mem' = [map |-> orders[i].map, rev |-> orders[i].rev, body |-> orders[i].body]
           /\ applier' = [applier EXCEPT ![i] = [pc |-> "raster", raster |-> orders[i].body]]
           /\ UNCHANGED <<emap, disk, mask, etask, orders>>
  <2>1. orders[i].map = "m1" /\ IsRevision(orders[i].rev, orders[i].body)
    BY <1>1 DEF MapInv, RevisionsAgree
  <2>2. orders[i].map \in Map!Maps /\ orders[i].rev \in 0 .. MaxRev /\ orders[i].body \in AnyBody
    BY <1>2 DEF Orders
  <2>3. [pc |-> "raster", raster |-> orders[i].body] \in Appliers
    BY <2>2 DEF Appliers, Busy
  <2>4. Applying(i) /\ applier'[i].pc = "raster"
    <3> DEFINE t == [pc |-> "raster", raster |-> orders[i].body]
    <3>1. t.pc = "raster" /\ t.pc \in Busy /\ t \in Appliers /\ applier' = [applier EXCEPT ![i] = t]
      BY <1>4, <2>3 DEF Busy
    <3> HIDE DEF t
    <3> QED
      BY <1>1, <1>2, <1>4, <3>1, GoesOn DEF MapInv
  <2>5. mem' \in Map!Payloads
    BY <1>4, <2>2 DEF Map!Payloads, AnyBody
  <2>6. Holds(mem)' /\ Holds(disk)' /\ WatchInv' /\ WatchRests'
    BY <1>1, <1>4, <2>1 DEF Holds, IsRevision, Center, MapInv, RevisionsAgree, WatchInv, WatchRests
  <2>7. emap' \in Map!Maps /\ disk' \in Map!Payloads /\ mask' \in AnyBody /\ watch' \in Watches
    BY <1>1, <1>4 DEF MapInv, Typed
  <2> QED
    BY <1>2, <1>4, <2>4, <2>5, <2>6, <2>7, ApplyingKeeps
<1> QED
  BY <1>3, <1>4 DEF Map!ApplyBegin, Map!edge

LEMMA ApplyMaskKeeps ==
    ASSUME Limits, MapInv, NEW i \in DOMAIN orders, Map!ApplyMask(i) PROVE MapInv'
<1>1. /\ applier[i].pc = "raster" /\ UNCHANGED <<emap, mem, disk, etask, watch>> /\ UNCHANGED Center
  BY DEF Map!ApplyMask, Map!AtPc, Map!center, Map!motion, Center
<1>2. i \in 1 .. MaxOrders /\ applier[i] \in Appliers /\ i # etask /\ applier[i].pc \in Busy
  BY <1>1, AtOrder DEF MapInv, OrdersOpen, Busy
<1>3. CASE Map!Answer(i, "failed") /\ UNCHANGED mask
  BY <1>1, <1>2, <1>3, Refuses, NoTrace DEF MapInv, Typed
<1>4. CASE mask' = applier[i].raster /\ Map!Goto(i, "store") /\ UNCHANGED orders
  <2>1. mask' \in AnyBody
    BY <1>2, <1>4 DEF Appliers
  <2>2. Applying(i) /\ applier'[i].pc = "store"
    BY <1>1, <1>2, <1>4, MovesOn DEF Busy
  <2> QED
    BY <1>1, <1>2, <2>1, <2>2, NoTrace
<1> QED
  BY <1>3, <1>4 DEF Map!ApplyMask

LEMMA ApplyStoreKeeps ==
    ASSUME Limits, MapInv, NEW i \in DOMAIN orders, Map!ApplyStore(i) PROVE MapInv'
<1>1. /\ applier[i].pc = "store" /\ disk' = mem /\ Map!Goto(i, "reload")
      /\ UNCHANGED <<orders, emap, mem, mask, etask, watch>> /\ UNCHANGED Center
  BY DEF Map!ApplyStore, Map!AtPc, Map!center, Map!motion, Center
<1>2. i \in 1 .. MaxOrders /\ i # etask /\ applier[i].pc \in Busy
  BY <1>1, AtOrder DEF MapInv, OrdersOpen, Busy
<1>3. Applying(i) /\ applier'[i].pc = "reload"
  BY <1>1, <1>2, MovesOn DEF Busy
<1>4. Holds(mem)' /\ Holds(disk)' /\ WatchInv' /\ WatchRests'
  BY <1>1 DEF Holds, IsRevision, Center, MapInv, RevisionsAgree, WatchInv, WatchRests
<1>5. /\ emap' \in Map!Maps /\ mem' \in Map!Payloads /\ disk' \in Map!Payloads
      /\ mask' \in AnyBody /\ watch' \in Watches
  BY <1>1 DEF MapInv, Typed
<1> QED
  BY <1>1, <1>2, <1>3, <1>4, <1>5, ApplyingKeeps

LEMMA ReloadKeeps ==
    ASSUME Limits, MapInv, NEW i \in DOMAIN orders, Map!Reload(i) PROVE MapInv'
<1>1. /\ applier[i].pc = "reload" /\ UNCHANGED <<emap, mem, disk, mask, etask, watch>> /\ UNCHANGED Center
      /\ \E a \in {"succeeded", "failed"} : Map!Answer(i, a)
  BY DEF Map!Reload, Map!AtPc, Map!center, Map!edge, Map!motion, Center
<1>2. i \in 1 .. MaxOrders /\ i # etask /\ applier[i].pc \in Busy
  BY <1>1, AtOrder DEF MapInv, OrdersOpen, Busy
<1> QED
  BY <1>1, <1>2, Refuses, NoTrace DEF MapInv, Typed

\* map.activate.
LEMMA ActivateBeginKeeps ==
    ASSUME Limits, MapInv, NEW i \in DOMAIN orders, Map!ActivateBegin(i) PROVE MapInv'
<1>1. /\ orders[i].kind = "activate" /\ orders[i].answer = "none" /\ applier[i].pc = "idle"
      /\ UNCHANGED Center /\ UNCHANGED watch
  BY DEF Map!ActivateBegin, Map!Fresh, Map!center, Map!motion, Center
<1>2. i \in 1 .. MaxOrders /\ orders[i] \in Orders /\ i # etask
  BY <1>1, AtOrder DEF MapInv, OrdersOpen
<1>3. CASE Map!Answer(i, "failed") /\ UNCHANGED Map!edge
  BY <1>1, <1>2, <1>3, Refuses, NoTrace DEF MapInv, Typed, Map!edge
<1>4. CASE emap' = orders[i].map /\ Map!Goto(i, "clear") /\ UNCHANGED <<mem, disk, mask, etask, orders>>
  <2>1. Applying(i) /\ applier'[i].pc = "clear"
    BY <1>1, <1>4, MovesOn DEF Busy
  <2>2. Holds(mem)' /\ Holds(disk)' /\ WatchInv' /\ WatchRests'
    BY <1>1, <1>4 DEF Holds, IsRevision, Center, MapInv, RevisionsAgree, WatchInv, WatchRests
  <2>3. emap' \in Map!Maps
    BY <1>2, <1>4 DEF Orders
  <2>4. mem' \in Map!Payloads /\ disk' \in Map!Payloads /\ mask' \in AnyBody /\ watch' \in Watches
    BY <1>1, <1>4 DEF MapInv, Typed
  <2> QED
    BY <1>2, <1>4, <2>1, <2>2, <2>3, <2>4, ApplyingKeeps
<1> QED
  BY <1>3, <1>4 DEF Map!ActivateBegin

LEMMA ActivateClearKeeps ==
    ASSUME Limits, MapInv, NEW i \in DOMAIN orders, Map!ActivateClear(i) PROVE MapInv'
<1>1. applier[i].pc = "clear" /\ UNCHANGED <<orders, emap, mask, etask>> /\ UNCHANGED Center
  BY DEF Map!ActivateClear, Map!AtPc, Map!center, Center
<1>2. i \in 1 .. MaxOrders /\ i # etask /\ applier[i].pc \in Busy
  BY <1>1, AtOrder DEF MapInv, OrdersOpen, Busy
<1>3. CASE Map!Goto(i, "reload") /\ UNCHANGED <<mem, disk, watch>>
  BY <1>1, <1>2, <1>3, MovesOn, NoTrace DEF Busy, MapInv, Typed
<1>4. CASE /\ Map!Goto(i, "open") /\ mem' = Map!None /\ disk' = Map!None
           /\ watch' = [watch EXCEPT !.violation = FALSE, !.speed = "none"]
  <2>1. Applying(i) /\ applier'[i].pc = "open"
    BY <1>1, <1>2, <1>4, MovesOn DEF Busy
  <2>2. Map!None \in Map!Payloads
    BY DEF Map!None, Map!Payloads, Map!Open, Limits
  <2>3. watch \in Watches /\ WatchRests
    BY DEF MapInv, Typed
  <2>4. watch' \in Watches
    BY <1>4, <2>3, Zenon DEF Watches
  <2>5. ~watch'.violation /\ watch'.act = watch.act /\ watch'.pc = watch.pc
    BY <1>4, <2>3 DEF Watches
  <2>6. WatchInv' /\ WatchRests'
    BY <2>3, <2>5 DEF WatchInv, WatchRests
  <2>7. Holds(mem)' /\ Holds(disk)'
    BY <1>4 DEF Holds
  <2>8. emap' \in Map!Maps /\ mask' \in AnyBody
    BY <1>1 DEF MapInv, Typed
  <2> QED
    BY <1>1, <1>2, <1>4, <2>1, <2>2, <2>4, <2>6, <2>7, <2>8, ApplyingKeeps
<1> QED
  BY <1>3, <1>4 DEF Map!ActivateClear

LEMMA ActivateOpenKeeps ==
    ASSUME Limits, MapInv, NEW i \in DOMAIN orders, Map!ActivateOpen(i) PROVE MapInv'
<1>1. /\ applier[i].pc = "open" /\ UNCHANGED <<emap, mem, disk, etask, watch>> /\ UNCHANGED Center
  BY DEF Map!ActivateOpen, Map!AtPc, Map!center, Map!motion, Center
<1>2. i \in 1 .. MaxOrders /\ i # etask /\ applier[i].pc \in Busy
  BY <1>1, AtOrder DEF MapInv, OrdersOpen, Busy
<1>3. CASE Map!Answer(i, "failed") /\ UNCHANGED mask
  BY <1>1, <1>2, <1>3, Refuses, NoTrace DEF MapInv, Typed
<1>4. CASE mask' = Map!Open /\ Map!Goto(i, "reload") /\ UNCHANGED orders
  <2>1. Applying(i) /\ applier'[i].pc = "reload"
    BY <1>1, <1>2, <1>4, MovesOn DEF Busy
  <2> QED
    BY <1>1, <1>2, <1>4, <2>1, NoTrace DEF AnyBody
<1> QED
  BY <1>3, <1>4 DEF Map!ActivateOpen

\* task.start: the route is checked against the revision that the memory holds.
LEMMA StartValidateKeeps ==
    ASSUME Limits, MapInv, NEW i \in DOMAIN orders, Map!StartValidate(i) PROVE MapInv'
<1>1. /\ orders[i].kind = "start" /\ orders[i].answer = "none" /\ applier[i].pc = "idle"
      /\ UNCHANGED <<emap, mem, disk, mask, etask, watch>> /\ UNCHANGED Center
  BY DEF Map!StartValidate, Map!Fresh, Map!center, Map!edge, Map!motion, Center
<1>2. i \in 1 .. MaxOrders /\ orders[i] \in Orders /\ i # etask
  BY <1>1, AtOrder DEF MapInv, OrdersOpen
<1>3. CASE Map!Answer(i, "failed")
  BY <1>1, <1>2, <1>3, Refuses, NoTrace DEF MapInv, Typed
<1>4. CASE /\ Map!Expected(orders[i]) /\ Map!Inside(orders[i]) /\ Map!Goto(i, "valid")
           /\ UNCHANGED orders
  <2>1. Applying(i) /\ applier'[i].pc = "valid"
    BY <1>1, <1>4, MovesOn DEF Busy
  <2>2. ASSUME edits = 0, orders[i].rev > 0
        PROVE  orders[i].route \subseteq saved[orders[i].rev].allowed
    <3>1. orders[i].rev # 0
      BY <1>2, <2>2 DEF Orders, Limits
    <3>2. mem.map = orders[i].map /\ mem.rev = orders[i].rev /\ orders[i].route \subseteq mem.body.allowed
      BY <1>4, <3>1 DEF Map!Expected, Map!Inside
    <3>3. mem # Map!None
      BY <3>1, <3>2 DEF Map!None
    <3>4. mem.body = saved[mem.rev]
      BY <2>2, <3>3 DEF MapInv, RevisionsAgree, Holds, IsRevision
    <3> QED
      BY <3>2, <3>4
  <2>3. Holds(mem)' /\ Holds(disk)' /\ WatchInv' /\ WatchRests'
    BY <1>1 DEF Holds, IsRevision, Center, MapInv, RevisionsAgree, WatchInv, WatchRests
  <2>4. /\ emap' \in Map!Maps /\ mem' \in Map!Payloads /\ disk' \in Map!Payloads
        /\ mask' \in AnyBody /\ watch' \in Watches /\ etask' = etask
    BY <1>1 DEF MapInv, Typed
  <2> QED
    BY <1>1, <1>2, <2>1, <2>2, <2>3, <2>4, ApplyingKeeps
<1> QED
  BY <1>3, <1>4 DEF Map!StartValidate

LEMMA StartPrepareKeeps ==
    ASSUME Limits, MapInv, NEW i \in DOMAIN orders, Map!StartPrepare(i) PROVE MapInv'
<1>1. applier[i].pc = "valid" /\ UNCHANGED <<emap, mem, disk, mask, watch>> /\ UNCHANGED Center
  BY DEF Map!StartPrepare, Map!AtPc, Map!center, Map!motion, Center
<1>2. i \in 1 .. MaxOrders /\ i # etask /\ applier[i].pc \in Busy
  BY <1>1, AtOrder DEF MapInv, OrdersOpen, Busy
<1>3. CASE Map!Answer(i, "failed") /\ UNCHANGED etask
  BY <1>1, <1>2, <1>3, Refuses, NoTrace DEF MapInv, Typed
<1>4. CASE etask' = i /\ Map!Goto(i, "running") /\ UNCHANGED orders
  <2>1. Applying(i) /\ applier'[i].pc = "running"
    BY <1>1, <1>2, <1>4, MovesOn DEF Busy
  <2>2. Holds(mem)' /\ Holds(disk)' /\ WatchInv' /\ WatchRests'
    BY <1>1 DEF Holds, IsRevision, Center, MapInv, RevisionsAgree, WatchInv, WatchRests
  <2>3. /\ emap' \in Map!Maps /\ mem' \in Map!Payloads /\ disk' \in Map!Payloads
        /\ mask' \in AnyBody /\ watch' \in Watches
    BY <1>1 DEF MapInv, Typed
  <2> QED
    BY <1>1, <1>2, <1>4, <2>1, <2>2, <2>3, ApplyingKeeps
<1> QED
  BY <1>3, <1>4 DEF Map!StartPrepare

LEMMA TaskEndsKeeps ==
    ASSUME Limits, MapInv, Map!TaskEnds PROVE MapInv'
<1>1. /\ etask # 0 /\ Map!Answer(etask, "succeeded") /\ etask' = 0
      /\ UNCHANGED <<emap, mem, disk, mask, watch>> /\ UNCHANGED Center
  BY DEF Map!TaskEnds, Map!center, Map!motion, Center
<1>2. etask \in 1 .. MaxOrders /\ applier[etask].pc = "running"
  BY <1>1 DEF MapInv, Typed, OrdersOpen, Limits
<1>3. etask \in DOMAIN orders /\ applier[etask].pc \in Busy
  BY <1>2 DEF MapInv, OrdersOpen, Busy
<1>4. Applying(etask) /\ applier'[etask].pc = "done"
  BY <1>1, <1>3, Refuses
<1>5. Holds(mem)' /\ Holds(disk)' /\ WatchInv' /\ WatchRests'
  BY <1>1 DEF Holds, IsRevision, Center, MapInv, RevisionsAgree, WatchInv, WatchRests
<1>6. /\ emap' \in Map!Maps /\ mem' \in Map!Payloads /\ disk' \in Map!Payloads
      /\ mask' \in AnyBody /\ watch' \in Watches
  BY <1>1 DEF MapInv, Typed
<1> QED
  BY <1>1, <1>4, <1>5, <1>6, ApplyingKeeps
-----------------------------------------------------------------------------
(* The watchdog. *)

\* What only the watchdog writes.
LEMMA WatchKeeps ==
    ASSUME MapInv, UNCHANGED <<Center, orders, emap, mem, disk, mask, applier, etask>>,
           watch' \in Watches, WatchInv', WatchRests'
    PROVE  MapInv'
<1>1. Typed'
  BY DEF MapInv, Typed, Center
<1>2. OrdersOpen' /\ RevisionsAgree' /\ StartsInside' /\ RunsStart'
  BY DEF MapInv, OrdersOpen, RevisionsAgree, StartsInside, RunsStart, Holds, IsRevision, Center
<1>3. Map!ActiveIsAcknowledged'
  BY DEF MapInv, Map!ActiveIsAcknowledged, Center
<1> QED
  BY <1>1, <1>2, <1>3 DEF MapInv

LEMMA WatchdogKeeps ==
    ASSUME MapInv, Map!Observe \/ Map!ApplySpeed \/ Map!Stop \/ \E p \in {1, 2} : Map!Move(p)
    PROVE  MapInv'
<1>1. UNCHANGED <<Center, orders, emap, mem, disk, mask, applier, etask>>
  BY DEF Map!Observe, Map!ApplySpeed, Map!Stop, Map!Move, Map!center, Map!edge, Center
<1>2. watch \in Watches /\ WatchInv /\ WatchRests
  BY DEF MapInv, Typed
<1>3. CASE Map!Observe
  <2>1. PICK out \in BOOLEAN, limit \in {"none", "slow"} :
            watch' = [pc |-> IF limit # watch.speed THEN "speed"
                             ELSE IF out /\ ~watch.violation THEN "stop" ELSE "idle",
                      violation |-> out, speed |-> limit, act |-> out /\ ~watch.violation,
                      stopped |-> watch.stopped /\ out]
    BY <1>3 DEF Map!Observe
  <2>2. watch.pc = "idle"
    BY <1>3 DEF Map!Observe
  <2>3. watch' \in Watches
    BY <1>2, <2>1 DEF Watches
  <2>4. WatchInv'
    BY <1>2, <2>1, <2>2 DEF WatchInv, WatchRests, Watches
  <2>5. WatchRests'
    BY <1>2, <2>1, <2>2 DEF WatchRests, Watches
  <2> QED
    BY <1>1, <2>3, <2>4, <2>5, WatchKeeps
<1>4. CASE Map!ApplySpeed
  <2>1. PICK ok \in BOOLEAN :
            watch' = [watch EXCEPT !.pc = IF watch.act THEN "stop" ELSE "idle",
                                   !.speed = IF ok THEN @ ELSE "retry"]
    BY <1>4 DEF Map!ApplySpeed
  <2>2. watch' \in Watches
    BY <1>2, <2>1 DEF Watches
  <2>3. watch.pc = "speed"
    BY <1>4 DEF Map!ApplySpeed
  <2>4. WatchInv' /\ WatchRests'
    BY <1>2, <2>1, <2>3 DEF WatchInv, WatchRests, Watches
  <2> QED
    BY <1>1, <2>2, <2>4, WatchKeeps
<1>5. CASE Map!Stop
  <2>1. PICK ok \in BOOLEAN : watch' = Map!AfterStop(ok)
    BY <1>5 DEF Map!Stop
  <2>2. watch' = [watch EXCEPT !.pc = "idle", !.act = FALSE, !.stopped = ok, !.violation = @ /\ ok]
    BY <2>1 DEF Map!AfterStop
  <2>3. watch' \in Watches
    BY <1>2, <2>2 DEF Watches
  <2>4. WatchInv' /\ WatchRests'
    BY <1>2, <2>2 DEF WatchInv, WatchRests, Watches
  <2> QED
    BY <1>1, <2>3, <2>4, WatchKeeps
<1>6. CASE \E p \in {1, 2} : Map!Move(p)
  <2>1. watch' = watch
    BY <1>6 DEF Map!Move
  <2>2. WatchInv' /\ WatchRests'
    BY <1>2, <2>1 DEF WatchInv, WatchRests
  <2> QED
    BY <1>1, <1>2, <2>1, <2>2, WatchKeeps
<1> QED
  BY <1>3, <1>4, <1>5, <1>6

\* The Edge comes back with its table, or with nothing, and without its threads.
LEMMA RestartKeeps ==
    ASSUME Limits, MapInv, Map!Restart PROVE MapInv'
<1>1. /\ UNCHANGED <<bound, saved, robotMap, edits, orders, emap>>
      /\ watch' = Map!NoWatch /\ etask' = 0
  BY DEF Map!Restart
<1>2. \/ mem' = disk /\ disk' = disk /\ mask' = disk.body
      \/ mem' = Map!None /\ disk' = Map!None /\ mask' = Map!Open
  BY DEF Map!Restart
<1>3. task' = 0 \/ task' = task
  BY DEF Map!Restart
<1>4. applier' \in [1 .. MaxOrders -> Appliers] /\ \A i \in 1 .. MaxOrders : applier'[i].pc \in {"idle", "done"}
  <2>1. applier' = [i \in 1 .. MaxOrders |->
                        [Map!Idle EXCEPT !.pc = IF applier[i].pc = "idle" THEN "idle" ELSE "done"]]
    BY DEF Map!Restart, MapInv, Typed
  <2>2. \A pc \in {"idle", "done"} :
            [Map!Idle EXCEPT !.pc = pc] \in Appliers /\ [Map!Idle EXCEPT !.pc = pc].pc = pc
    BY DEF Map!Idle, Appliers, AnyBody
  <2> QED
    BY <2>1, <2>2
<1>5. Typed'
  <2>1. mem' \in Map!Payloads /\ disk' \in Map!Payloads /\ mask' \in AnyBody
    BY <1>2 DEF MapInv, Typed, Map!Payloads, Map!None, AnyBody, Limits, Map!Open
  <2>2. watch' \in Watches
    BY <1>1 DEF Map!NoWatch, Watches
  <2> QED
    BY <1>1, <1>3, <1>4, <2>1, <2>2 DEF MapInv, Typed, Limits
<1>6. \A i \in 1 .. MaxOrders : applier'[i].pc \notin Busy /\ applier'[i].pc \notin {"valid", "running"}
  BY <1>4 DEF Busy
<1>7. OrdersOpen'
  BY <1>1, <1>6 DEF MapInv, OrdersOpen
<1>8. RevisionsAgree'
  BY <1>1, <1>2 DEF MapInv, RevisionsAgree, Holds, IsRevision
<1>9. \A i \in DOMAIN orders : i \in 1 .. MaxOrders
  BY DEF MapInv, Typed, Limits
<1>10. StartsInside' /\ RunsStart'
  BY <1>1, <1>6, <1>9 DEF MapInv, StartsInside, RunsStart
<1>11. WatchInv' /\ WatchRests'
  BY <1>1 DEF Map!NoWatch, WatchInv, WatchRests
<1>12. Map!ActiveIsAcknowledged'
  BY <1>1 DEF MapInv, Map!ActiveIsAcknowledged
<1> QED
  BY <1>5, <1>7, <1>8, <1>10, <1>11, <1>12 DEF MapInv
-----------------------------------------------------------------------------
(* The center. *)

\* What the center's steps leave alone.
Edge == <<emap, mem, disk, mask, applier, etask, watch>>

\* A draft is saved as the next revision.
LEMMA SaveDraftKeeps ==
    ASSUME Limits, MapInv, NEW b \in Bodies, Map!SaveDraft(b) PROVE MapInv'
<1>1. /\ bound.rev < MaxRev
      /\ bound' = [bound EXCEPT !.rev = @ + 1, !.body = b, !.status = "draft"]
      /\ saved' = Append(saved, b)
      /\ UNCHANGED <<robotMap, task, edits, orders, Edge>>
  BY DEF Map!SaveDraft, Map!edge, Map!motion, Edge
<1>2. bound \in Drafts /\ saved \in Seq(Bodies) /\ Len(saved) = bound.rev /\ bound.rev \in Nat
  BY DEF MapInv, Typed, Drafts, Limits
<1>3. /\ bound' \in Drafts /\ bound'.rev = bound.rev + 1 /\ bound'.body = b /\ bound'.status = "draft"
      /\ bound'.activeRev = bound.activeRev /\ bound'.active = bound.active
  <2>1. bound.rev + 1 \in 0 .. MaxRev /\ bound.rev \in 0 .. MaxRev /\ b \in AnyBody
    BY <1>1, <1>2 DEF Drafts, AnyBody, Limits
  <2>2. PICK r \in 0 .. MaxRev : r = bound.rev + 1
    BY <2>1
  <2>3. bound' = [bound EXCEPT !.rev = r, !.body = b, !.status = "draft"]
    BY <1>1, <2>2
  <2>4. bound' \in Drafts
    BY <1>2, <2>1, <2>3, Zenon DEF Drafts
  <2> QED
    BY <1>2, <2>2, <2>3, <2>4 DEF Drafts
<1>4. /\ saved' \in Seq(Bodies) /\ Len(saved') = bound'.rev /\ saved'[bound'.rev] = b
      /\ \A r \in 1 .. bound.rev : saved'[r] = saved[r]
  BY <1>1, <1>2, <1>3
<1>5. Typed'
  BY <1>1, <1>3, <1>4 DEF MapInv, Typed, Edge
<1>6. OrdersOpen' /\ RunsStart' /\ WatchInv' /\ WatchRests'
  BY <1>1 DEF MapInv, OrdersOpen, RunsStart, WatchInv, WatchRests, Edge
<1>7. \A r, x : IsRevision(r, x) => IsRevision(r, x)'
  BY <1>1, <1>2, <1>3, <1>4 DEF IsRevision
<1>8. RevisionsAgree'
  <2>1. IsRevision(bound.rev, bound.body)'
    BY <1>2, <1>3, <1>4 DEF IsRevision
  <2>2. bound'.activeRev <= bound'.rev
    BY <1>2, <1>3 DEF MapInv, RevisionsAgree, Drafts, Limits
  <2>3. Holds(mem)' /\ Holds(disk)'
    BY <1>1, <1>7 DEF MapInv, RevisionsAgree, Holds, Edge
  <2> QED
    BY <1>1, <1>7, <2>1, <2>2, <2>3 DEF MapInv, RevisionsAgree
<1>9. StartsInside'
  <2> SUFFICES ASSUME NEW j \in DOMAIN orders, orders[j].kind = "start"
               PROVE  /\ orders[j].rev <= bound'.rev /\ (orders[j].rev > 0 => orders[j].map = "m1")
                      /\ edits = 0 /\ orders[j].rev > 0 /\ applier[j].pc \in {"valid", "running"}
                             => orders[j].route \subseteq saved'[orders[j].rev].allowed
    BY <1>1 DEF StartsInside, Edge
  <2>1. orders[j].rev \in Nat /\ orders[j].rev <= bound.rev
    <3>1. orders[j] \in Orders
      BY DEF MapInv, Typed
    <3>2. orders[j].rev \in Nat
      BY <3>1 DEF Orders, Limits
    <3> QED
      BY <3>2 DEF MapInv, StartsInside
  <2>2. orders[j].rev > 0 => saved'[orders[j].rev] = saved[orders[j].rev]
    BY <1>2, <1>4, <2>1
  <2> QED
    BY <1>2, <1>3, <2>1, <2>2 DEF MapInv, StartsInside
<1>10. Map!ActiveIsAcknowledged'
  BY <1>1, <1>3 DEF MapInv, Map!ActiveIsAcknowledged
<1> QED
  BY <1>5, <1>6, <1>8, <1>9, <1>10 DEF MapInv

\* An edit of a zone ends the agreement of the revisions.
LEMMA EditZoneKeeps ==
    ASSUME Limits, MapInv, NEW b \in Bodies, Map!EditZone(b) PROVE MapInv'
<1>1. /\ edits' = edits + 1 /\ bound' = [bound EXCEPT !.body = b]
      /\ UNCHANGED <<saved, robotMap, task, orders, Edge>>
  BY DEF Map!EditZone, Map!edge, Map!motion, Edge
<1>2. bound \in Drafts /\ bound.rev \in Nat /\ edits' \in Nat /\ edits' # 0
  BY <1>1 DEF MapInv, Typed, Drafts, Limits
<1>3. /\ bound' \in Drafts /\ bound'.rev = bound.rev /\ bound'.status = bound.status
      /\ bound'.activeRev = bound.activeRev /\ bound'.active = bound.active
  BY <1>1, <1>2 DEF Drafts, AnyBody
<1>4. Typed'
  BY <1>1, <1>2, <1>3 DEF MapInv, Typed, Edge
<1>5. OrdersOpen' /\ RunsStart' /\ WatchInv' /\ WatchRests'
  BY <1>1 DEF MapInv, OrdersOpen, RunsStart, WatchInv, WatchRests, Edge
<1>6. \A r, x : IsRevision(r, x) => IsRevision(r, x)'
  BY <1>2, <1>3 DEF IsRevision
<1>7. RevisionsAgree'
  <2>1. bound'.rev > 0 => IsRevision(bound.rev, bound.body)'
    BY <1>2, <1>3 DEF IsRevision
  <2>2. Holds(mem)' /\ Holds(disk)'
    BY <1>1, <1>6 DEF MapInv, RevisionsAgree, Holds, Edge
  <2> QED
    BY <1>1, <1>3, <1>6, <2>1, <2>2 DEF MapInv, RevisionsAgree
<1>8. StartsInside'
  BY <1>1, <1>2, <1>3 DEF MapInv, StartsInside, Edge
<1>9. Map!ActiveIsAcknowledged'
  BY <1>1, <1>3 DEF MapInv, Map!ActiveIsAcknowledged
<1> QED
  BY <1>4, <1>5, <1>7, <1>8, <1>9 DEF MapInv

\* Another order is sent: a boundary of a revision, a map, or a start whose
\* snapshot names a revision.
LEMMA SendKeeps ==
    ASSUME Limits, MapInv, NEW kind \in {"apply", "activate", "start"}, NEW c \in Map!Payloads,
           NEW route \in SUBSET {1, 2}, Map!Send(kind, c, route),
           UNCHANGED <<saved, robotMap, edits, Edge>>,
           bound' \in Drafts, bound'.rev = bound.rev, bound'.body = bound.body,
           bound'.activeRev = bound.activeRev, bound'.active = bound.active,
           bound'.status \in {bound.status, "applying"},
           task' \in 0 .. MaxOrders, c.map \in Map!Maps,
           kind = "apply" => c.map = "m1" /\ IsRevision(c.rev, c.body),
           kind = "start" => c.rev <= bound.rev /\ (c.rev > 0 => c.map = "m1")
    PROVE  MapInv'
<1> DEFINE o == [kind |-> kind, map |-> c.map, rev |-> c.rev, body |-> c.body,
                 route |-> route, answer |-> "none", told |-> FALSE]
           n == Len(orders) + 1
<1>1. orders' = Append(orders, o) /\ Len(orders) < MaxOrders
  BY DEF Map!Send
<1>2. orders \in Seq(Orders) /\ Len(orders) \in Nat /\ applier \in [1 .. MaxOrders -> Appliers]
  BY DEF MapInv, Typed
<1>3. c.rev \in 0 .. MaxRev /\ c.body \in AnyBody
  BY DEF Map!Payloads, AnyBody
<1>4. o \in Orders
  BY <1>3, Zenon DEF Orders
<1>5. /\ o.kind = kind /\ o.map = c.map /\ o.rev = c.rev /\ o.body = c.body
      /\ o.answer = "none" /\ ~o.told
  OBVIOUS
<1> HIDE DEF o
<1>6. /\ orders' \in Seq(Orders) /\ Len(orders') = n /\ DOMAIN orders' = 1 .. n
      /\ orders'[n] = o /\ DOMAIN orders = 1 .. Len(orders)
      /\ \A j \in DOMAIN orders : j \in DOMAIN orders' /\ j # n /\ orders'[j] = orders[j]
      /\ \A j \in DOMAIN orders' : j \in DOMAIN orders \/ j = n
  BY <1>1, <1>2, <1>4
<1>7. n \in 1 .. MaxOrders /\ n \notin DOMAIN orders /\ applier[n].pc \notin Busy
  BY <1>1, <1>2, <1>6 DEF MapInv, OrdersOpen, Limits
<1>8. Typed'
  BY <1>1, <1>2, <1>6 DEF MapInv, Typed, Edge, Limits
<1>9. OrdersOpen'
  BY <1>5, <1>6, <1>7 DEF MapInv, OrdersOpen, Edge
<1>10. RevisionsAgree'
  <2>1. \A r, x : IsRevision(r, x) => IsRevision(r, x)'
    BY DEF IsRevision
  <2>2. Holds(mem)' /\ Holds(disk)'
    BY <2>1 DEF MapInv, RevisionsAgree, Holds, Edge
  <2>3. \A j \in DOMAIN orders' :
            orders'[j].kind = "apply" =>
                /\ orders'[j].map = "m1" /\ orders'[j].rev \in 1 .. bound'.rev
                /\ edits' = 0 => orders'[j].body = saved'[orders'[j].rev]
    BY <1>5, <1>6 DEF MapInv, RevisionsAgree, IsRevision
  <2>4. bound'.rev > 0 => IsRevision(bound.rev, bound.body)'
    BY <2>1 DEF MapInv, RevisionsAgree
  <2> QED
    BY <2>2, <2>3, <2>4 DEF MapInv, RevisionsAgree, IsRevision
<1>11. StartsInside'
  BY <1>5, <1>6, <1>7 DEF MapInv, StartsInside, Edge, Busy
<1>12. RunsStart'
  BY <1>6, <1>7 DEF MapInv, RunsStart, Edge, Busy
<1>13. WatchInv' /\ WatchRests'
  BY DEF MapInv, WatchInv, WatchRests, Edge
<1>14. Map!ActiveIsAcknowledged'
  <2>1. bound'.status = "active" => bound.status = "active"
    OBVIOUS
  <2> QED
    BY <1>6, <2>1 DEF MapInv, Map!ActiveIsAcknowledged
<1> QED
  BY <1>8, <1>9, <1>10, <1>11, <1>12, <1>13, <1>14 DEF MapInv

LEMMA PublishKeeps ==
    ASSUME Limits, MapInv, Map!Publish PROVE MapInv'
<1>1. /\ bound.rev > 0 /\ Map!Send("apply", Map!DraftPayload, {})
      /\ bound' = [bound EXCEPT !.status = "applying", !.cmd = Len(orders) + 1]
      /\ UNCHANGED <<saved, robotMap, task, edits, Edge>>
  BY DEF Map!Publish, Map!edge, Map!motion, Edge
<1>2. bound \in Drafts /\ Len(orders) \in Nat /\ Len(orders) < MaxOrders /\ task \in 0 .. MaxOrders
  BY <1>1 DEF MapInv, Typed, Map!Send
<1>3. Map!DraftPayload \in Map!Payloads
  BY <1>2 DEF Map!DraftPayload, Map!Payloads, Map!Maps, Drafts, AnyBody
<1>4. /\ Map!DraftPayload.map = "m1" /\ Map!DraftPayload.rev = bound.rev
      /\ Map!DraftPayload.body = bound.body
  BY DEF Map!DraftPayload
<1>5. PICK k \in 0 .. MaxOrders : k = Len(orders) + 1
  BY <1>2 DEF Limits
<1>6. bound' = [bound EXCEPT !.status = "applying", !.cmd = k]
  BY <1>1, <1>5
<1>7. bound' \in Drafts
  BY <1>2, <1>6, Zenon DEF Drafts
<1>8. /\ bound'.rev = bound.rev /\ bound'.body = bound.body /\ bound'.status = "applying"
      /\ bound'.activeRev = bound.activeRev /\ bound'.active = bound.active
  BY <1>2, <1>6 DEF Drafts
<1>9. IsRevision(bound.rev, bound.body)
  BY <1>1 DEF MapInv, RevisionsAgree
<1> QED
  BY <1>1, <1>2, <1>3, <1>4, <1>7, <1>8, <1>9, SendKeeps DEF Map!Maps

LEMMA SwitchMapKeeps ==
    ASSUME Limits, MapInv, NEW m \in Map!Maps, Map!SwitchMap(m) PROVE MapInv'
<1> DEFINE c == [Map!None EXCEPT !.map = m]
<1>1. Map!Send("activate", c, {}) /\ UNCHANGED <<bound, saved, robotMap, task, edits, Edge>>
  BY DEF Map!SwitchMap, Map!center, Map!edge, Map!motion, Edge
<1>2. c \in Map!Payloads /\ c.map = m
  BY DEF Map!None, Map!Payloads, Map!Open, Limits
<1>3. bound \in Drafts /\ task \in 0 .. MaxOrders
  BY DEF MapInv, Typed
<1> HIDE DEF c
<1> QED
  BY <1>1, <1>2, <1>3, SendKeeps

LEMMA StartTaskKeeps ==
    ASSUME Limits, MapInv, NEW m \in Map!Maps, NEW p \in {1, 2}, Map!StartTask(m, {p}) PROVE MapInv'
<1> DEFINE c == [Map!None EXCEPT !.map = m, !.rev = Map!SnapshotRevision(m)]
<1>1. /\ Map!Send("start", c, {p}) /\ task' = Len(orders) + 1
      /\ UNCHANGED <<bound, saved, robotMap, edits, Edge>>
  BY DEF Map!StartTask, Map!edge, Map!motion, Edge
<1>2. bound \in Drafts /\ Len(orders) \in Nat /\ Len(orders) < MaxOrders
  BY <1>1 DEF MapInv, Typed, Map!Send
<1>3. task' \in 0 .. MaxOrders
  BY <1>1, <1>2 DEF Limits
<1>4. Map!SnapshotRevision(m) \in 0 .. MaxRev
  BY <1>2 DEF Map!SnapshotRevision, Drafts, Limits
<1>5. c \in Map!Payloads /\ c.map = m /\ c.rev = Map!SnapshotRevision(m)
  BY <1>4 DEF Map!None, Map!Payloads, Map!Open
<1>6. c.rev <= bound.rev /\ (c.rev > 0 => c.map = "m1")
  BY <1>2, <1>5 DEF Map!SnapshotRevision, MapInv, RevisionsAgree, Drafts, Limits
<1> HIDE DEF c
<1> QED
  BY <1>1, <1>2, <1>3, <1>5, <1>6, SendKeeps

\* The answer to an order reaches the center.
LEMMA ResultKeeps ==
    ASSUME Limits, MapInv, NEW i \in DOMAIN orders, Map!Result(i) PROVE MapInv'
<1> DEFINE o == [orders[i] EXCEPT !.told = TRUE]
<1>1. /\ orders[i].answer # "none" /\ orders' = [orders EXCEPT ![i] = o]
      /\ UNCHANGED <<saved, edits, Edge>>
  BY DEF Map!Result, Map!edge, Map!motion, Edge
<1>2. orders \in Seq(Orders) /\ orders[i] \in Orders /\ bound \in Drafts
  BY DEF MapInv, Typed
<1>3. o \in Orders
  BY <1>2, Zenon DEF Orders
<1>4. /\ o.kind = orders[i].kind /\ o.map = orders[i].map /\ o.rev = orders[i].rev
      /\ o.body = orders[i].body /\ o.route = orders[i].route /\ o.answer = orders[i].answer /\ o.told
  BY <1>2 DEF Orders
<1> HIDE DEF o
<1>5. /\ orders' \in Seq(Orders) /\ DOMAIN orders' = DOMAIN orders /\ Len(orders') = Len(orders)
      /\ orders'[i] = o /\ \A j \in DOMAIN orders : j # i => orders'[j] = orders[j]
  BY <1>1, <1>2, <1>3
<1>6. \A j \in DOMAIN orders :
          /\ orders'[j].kind = orders[j].kind /\ orders'[j].map = orders[j].map
          /\ orders'[j].rev = orders[j].rev /\ orders'[j].body = orders[j].body
          /\ orders'[j].route = orders[j].route /\ orders'[j].answer = orders[j].answer
          /\ orders[j].told => orders'[j].told
          /\ orders'[j].told => orders[j].told \/ j = i
  BY <1>4, <1>5
<1>7. robotMap' \in Map!Maps
  <2>1. robotMap' = robotMap \/ robotMap' = orders[i].map
    BY DEF Map!Result
  <2> QED
    BY <1>2, <2>1 DEF MapInv, Typed, Orders
<1>8. task' \in 0 .. MaxOrders
  BY DEF Map!Result, MapInv, Typed, Limits
<1>9. \/ bound' = bound
      \/ bound' = [bound EXCEPT !.status = "failed"]
      \/ /\ orders[i].kind = "apply" /\ orders[i].answer = "succeeded"
         /\ bound' = [bound EXCEPT !.activeRev = orders[i].rev, !.active = orders[i].body,
                                   !.status = IF orders[i].rev = bound.rev THEN "active" ELSE "draft"]
  BY DEF Map!Result, Map!Applied
<1>10. /\ bound' \in Drafts /\ bound'.rev = bound.rev /\ bound'.body = bound.body
       /\ \/ bound'.activeRev = bound.activeRev /\ bound'.active = bound.active
             /\ (bound'.status = "active" => bound.status = "active")
          \/ /\ orders[i].kind = "apply" /\ orders[i].answer = "succeeded"
             /\ bound'.activeRev = orders[i].rev /\ bound'.active = orders[i].body
             /\ (bound'.status = "active" => orders[i].rev = bound.rev)
  <2>1. CASE bound' = bound
    BY <1>2, <2>1
  <2>2. CASE bound' = [bound EXCEPT !.status = "failed"]
    BY <1>2, <2>2 DEF Drafts
  <2>3. CASE /\ orders[i].kind = "apply" /\ orders[i].answer = "succeeded"
             /\ bound' = [bound EXCEPT !.activeRev = orders[i].rev, !.active = orders[i].body,
                                       !.status = IF orders[i].rev = bound.rev THEN "active" ELSE "draft"]
    <3>1. orders[i].rev \in 0 .. MaxRev /\ orders[i].body \in AnyBody
      BY <1>2 DEF Orders
    <3>2. PICK s \in {"active", "draft"} : s = IF orders[i].rev = bound.rev THEN "active" ELSE "draft"
      OBVIOUS
    <3>3. bound' = [bound EXCEPT !.activeRev = orders[i].rev, !.active = orders[i].body, !.status = s]
      BY <2>3, <3>2
    <3>4. bound' \in Drafts
      BY <1>2, <3>1, <3>3, Zenon DEF Drafts
    <3>5. /\ bound'.rev = bound.rev /\ bound'.body = bound.body /\ bound'.status = s
          /\ bound'.activeRev = orders[i].rev /\ bound'.active = orders[i].body
      BY <1>2, <3>3 DEF Drafts
    <3> QED
      BY <2>3, <3>2, <3>4, <3>5
  <2> QED
    BY <1>9, <2>1, <2>2, <2>3
<1>11. orders[i].kind = "apply" => IsRevision(orders[i].rev, orders[i].body)
  BY DEF MapInv, RevisionsAgree
<1>12. Typed'
  BY <1>1, <1>5, <1>7, <1>8, <1>10 DEF MapInv, Typed, Edge
<1>13. OrdersOpen'
  BY <1>1, <1>5, <1>6 DEF MapInv, OrdersOpen, Edge
<1>14. \A r, x : IsRevision(r, x) => IsRevision(r, x)'
  BY <1>1, <1>10 DEF IsRevision
<1>15. RevisionsAgree'
  <2>1. Holds(mem)' /\ Holds(disk)'
    BY <1>1, <1>14 DEF MapInv, RevisionsAgree, Holds, Edge
  <2>2. bound'.activeRev <= bound'.rev
    BY <1>2, <1>10, <1>11 DEF MapInv, RevisionsAgree, IsRevision, Drafts, Limits
  <2>3. \A j \in DOMAIN orders' :
            orders'[j].kind = "apply" =>
                /\ orders'[j].map = "m1" /\ orders'[j].rev \in 1 .. bound'.rev
                /\ edits' = 0 => orders'[j].body = saved'[orders'[j].rev]
    BY <1>1, <1>5, <1>6, <1>10 DEF MapInv, RevisionsAgree, IsRevision
  <2>4. bound'.rev > 0 => IsRevision(bound.rev, bound.body)'
    BY <1>10, <1>14 DEF MapInv, RevisionsAgree
  <2> QED
    BY <2>1, <2>2, <2>3, <2>4 DEF RevisionsAgree, IsRevision
<1>16. StartsInside' /\ RunsStart'
  BY <1>1, <1>5, <1>6, <1>10 DEF MapInv, StartsInside, RunsStart, Edge
<1>17. WatchInv' /\ WatchRests'
  BY <1>1 DEF MapInv, WatchInv, WatchRests, Edge
<1>18. Map!ActiveIsAcknowledged'
  <2>1. CASE /\ bound'.activeRev = bound.activeRev /\ bound'.active = bound.active
             /\ (bound'.status = "active" => bound.status = "active")
    BY <1>5, <1>6, <1>10, <2>1 DEF MapInv, Map!ActiveIsAcknowledged
  <2>2. CASE /\ orders[i].kind = "apply" /\ orders[i].answer = "succeeded"
             /\ bound'.activeRev = orders[i].rev /\ bound'.active = orders[i].body
             /\ (bound'.status = "active" => orders[i].rev = bound.rev)
    BY <1>4, <1>5, <1>10, <2>2 DEF Map!ActiveIsAcknowledged
  <2> QED
    BY <1>10, <2>1, <2>2
<1> QED
  BY <1>12, <1>13, <1>15, <1>16, <1>17, <1>18 DEF MapInv

-----------------------------------------------------------------------------
(* All of it. *)

LEMMA MapInit == ASSUME Limits, Map!Init PROVE MapInv
<1>1. /\ bound = Map!NoBoundary /\ saved = <<>> /\ robotMap = "m1" /\ task = 0 /\ orders = <<>>
      /\ emap = "m1" /\ mem = Map!None /\ disk = Map!None /\ mask = Map!Open
      /\ applier = [i \in 1 .. MaxOrders |-> Map!Idle] /\ etask = 0 /\ watch = Map!NoWatch /\ edits = 0
  BY DEF Map!Init
<1>2. /\ bound.rev = 0 /\ bound.activeRev = 0 /\ bound.status = "unconfigured"
      /\ bound \in Drafts
  BY <1>1 DEF Map!NoBoundary, Drafts, AnyBody, Limits
<1>3. Map!None \in Map!Payloads /\ Map!Idle \in Appliers /\ Map!NoWatch \in Watches /\ Map!Idle.pc = "idle"
  BY DEF Map!None, Map!Payloads, Map!Open, Map!Idle, Appliers, AnyBody, Map!NoWatch, Watches, Limits
<1>4. Typed
  BY <1>1, <1>2, <1>3 DEF Typed, Map!Maps, AnyBody, Limits
<1>5. DOMAIN orders = {}
  BY <1>1
<1>6. OrdersOpen
  BY <1>1, <1>3, <1>5 DEF OrdersOpen, Busy
<1>7. RevisionsAgree
  BY <1>1, <1>2, <1>5 DEF RevisionsAgree, Holds
<1>8. StartsInside /\ RunsStart /\ Map!ActiveIsAcknowledged
  BY <1>2, <1>5 DEF StartsInside, RunsStart, Map!ActiveIsAcknowledged
<1>9. WatchInv /\ WatchRests
  BY <1>1 DEF WatchInv, WatchRests, Map!NoWatch
<1> QED
  BY <1>4, <1>6, <1>7, <1>8, <1>9 DEF MapInv

LEMMA MapRests == ASSUME MapInv, UNCHANGED boundaryVars PROVE MapInv'
  BY DEF MapInv, Typed, OrdersOpen, RevisionsAgree, StartsInside, RunsStart, WatchInv, WatchRests,
         Map!ActiveIsAcknowledged, Holds, IsRevision, boundaryVars

LEMMA MapStep == ASSUME Limits, MapInv, Map!Next PROVE MapInv'
<1>1. CASE \E b \in Bodies : Map!SaveDraft(b) \/ Map!EditZone(b)
  BY <1>1, SaveDraftKeeps, EditZoneKeeps
<1>2. CASE Map!Publish
  BY <1>2, PublishKeeps
<1>3. CASE \E m \in Map!Maps : Map!SwitchMap(m) \/ \E p \in {1, 2} : Map!StartTask(m, {p})
  BY <1>3, SwitchMapKeeps, StartTaskKeeps
<1>4. CASE \E i \in DOMAIN orders :
              \/ Map!Result(i) \/ Map!ApplyBegin(i) \/ Map!ApplyMask(i) \/ Map!ApplyStore(i)
              \/ Map!Reload(i) \/ Map!ActivateBegin(i) \/ Map!ActivateClear(i) \/ Map!ActivateOpen(i)
              \/ Map!StartValidate(i) \/ Map!StartPrepare(i)
  BY <1>4, ResultKeeps, ApplyBeginKeeps, ApplyMaskKeeps, ApplyStoreKeeps, ReloadKeeps,
     ActivateBeginKeeps, ActivateClearKeeps, ActivateOpenKeeps, StartValidateKeeps, StartPrepareKeeps
<1>5. CASE Map!TaskEnds
  BY <1>5, TaskEndsKeeps
<1>6. CASE Map!Observe \/ Map!ApplySpeed \/ Map!Stop \/ \E p \in {1, 2} : Map!Move(p)
  BY <1>6, WatchdogKeeps
<1>7. CASE Map!Restart
  BY <1>7, RestartKeeps
<1> QED
  BY <1>1, <1>2, <1>3, <1>4, <1>5, <1>6, <1>7 DEF Map!Next

\* While no zone was edited, a task stays inside the revision it was checked with.
LEMMA TaskStaysInside == ASSUME Limits, MapInv, edits = 0 PROVE Map!TaskInsideItsRevision
<1> SUFFICES ASSUME etask # 0, orders[etask].rev > 0
             PROVE  orders[etask].route \subseteq saved[orders[etask].rev].allowed
  BY DEF Map!TaskInsideItsRevision
<1>1. etask \in 1 .. MaxOrders /\ applier[etask].pc = "running"
  BY DEF MapInv, Typed, OrdersOpen, Limits
<1>2. etask \in DOMAIN orders
  BY <1>1 DEF MapInv, OrdersOpen, Busy
<1> QED
  BY <1>1, <1>2 DEF MapInv, StartsInside, RunsStart

LEMMA MapInvSuffices ==
    ASSUME Limits, MapInv
    PROVE  /\ Map!TypeOK /\ Map!ActiveIsAcknowledged /\ Map!ViolationIsStopped
           /\ edits = 0 => Map!TaskInsideItsRevision
<1>1. Map!TypeOK
  BY DEF MapInv, Typed, Map!TypeOK, Drafts, AnyBody
<1>2. Map!ViolationIsStopped
  BY DEF MapInv, WatchInv, WatchRests, Map!ViolationIsStopped
<1> QED
  BY <1>1, <1>2, TaskStaysInside DEF MapInv

\* The boundary by itself, with all its actors at once and for any number of
\* revisions, orders, edits, moves and restarts: the boundary called active was
\* acknowledged, a violation dealt with was stopped, and while no zone is edited a
\* task stays inside the revision it was checked with (_handle_command_result,
\* _boundary_loop, validate_route).
THEOREM MapAlwaysKept ==
    ASSUME Limits
    PROVE  Map!Spec => []( /\ Map!TypeOK /\ Map!ActiveIsAcknowledged /\ Map!ViolationIsStopped
                           /\ edits = 0 => Map!TaskInsideItsRevision )
<1>1. Map!Init => MapInv
  BY MapInit
<1>2. MapInv /\ UNCHANGED Map!vars => UNCHANGED boundaryVars
  BY DEF Map!vars, Map!center, Map!edge, Map!motion, boundaryVars
<1>3. MapInv /\ [Map!Next]_(Map!vars) => MapInv'
  BY <1>2, MapStep, MapRests
<1> QED
  BY <1>1, <1>3, MapInvSuffices, PTL DEF Map!Spec

\* Map boundaries: what the center calls active was acknowledged by the Edge, a
\* task runs inside the revision its start was checked with, and a robot found
\* outside was stopped, in every scenario of the exchange
\* (_handle_command_result, validate_expected, _boundary_loop).
THEOREM BoundaryAlwaysKept == ASSUME Limits PROVE Spec => []BoundaryIsKept
<1>1. Init => MapInv
  BY MapInit DEF Init, BoundaryRests
<1>2. MapInv /\ [Next]_<<scenario, commandVars, outboxVars, boundaryVars, speechVars>> => MapInv'
  BY MapStep, MapRests DEF Next, CommandNext, OutboxNext, BoundaryNext, SpeechNext
<1>3. MapInv => BoundaryIsKept
  BY MapInvSuffices DEF BoundaryIsKept
<1> QED
  BY <1>1, <1>2, <1>3, PTL DEF Spec

=============================================================================
