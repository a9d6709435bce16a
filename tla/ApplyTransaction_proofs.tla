----------------------- MODULE ApplyTransaction_proofs -----------------------
(***************************************************************************)
(* Proofs about ApplyTransaction: the extension with its apply commands,   *)
(* for any profiles, Wants, saves and deliveries, without disconnects and  *)
(* network resets.                                                         *)
(*                                                                         *)
(* The invariant, in layers:                                               *)
(*   Typed    the variables the argument needs                             *)
(*   Counted  generations do not run out                                   *)
(*   Single   one run at a time; the teardown, and who resumes, is its own *)
(*   Kernel   the kernel against the place of that run                     *)
(*   Wish     nothing is built before a profile was asked for              *)
(*   Promise  what the run that an apply waits for reads, and starts       *)
(* then what settles in agreement:                                         *)
(*   Meant    the profile that is built is the one asked for last          *)
(*   Built    what a start prepares is its own                             *)
(*   Session  so is what a session has                                     *)
(*   Told     what is published, and kept for the UI process               *)
(* and, if the kernel and the system answer in time,                       *)
(*   Pins     pins stand while the kernel does                             *)
(*   Tunnel   a tunnel has somebody to destroy it                          *)
(***************************************************************************)
EXTENDS ApplyTransaction, FiniteSetTheorems, TLAPS

(***************************************************************************)
(* The variables the argument needs.                                       *)
(***************************************************************************)

Place == {"new", "refresh", "decide", "replay", "switch", "load", "write",
          "gate", "clean", "auth", "protect", "core", "record", "announce",
          "clear", "failed", "rollback", "done"}

\* No two coroutines wait in one line.
RunLine == {<<RunToken(r)>> : r \in Runs}
ApplyLine == {<<ApplyToken(d)>> : d \in Deliveries}

TypedRuns ==
    /\ lifecycleGeneration \in Runs \cup {0}
    /\ starting \in BOOLEAN /\ restartRequested \in BOOLEAN
    /\ pc \in [Runs -> Place]
    /\ rev \in [Runs -> Nat]
    /\ startReply \in [Runs -> {"none", "ok", "err"}]
    /\ callers \in [Runs -> ApplyLine \cup {<<>>}]
    /\ micro \in RunLine \cup ApplyLine \cup {<<>>}

TypedWorld ==
    /\ saved \in Nat /\ cache \in Nat /\ cache <= saved
    /\ coreRun \in Runs \cup {None}
    /\ core \in {"stopped", "starting", "running", "stopping"}
    /\ tdPc \in {"idle", "stop", "destroy", "persist"}
    /\ wants \in 0..MaxWants /\ cuts = 0 /\ nets = 0

TypedApplies ==
    /\ aPc \in [Deliveries -> {"new", "refresh", "check", "restart", "done"}]
    /\ revision \in [Deliveries -> Nat]
    /\ ran \in [Deliveries -> BOOLEAN]
    /\ ack \in [Deliveries -> {"none", "ok", "failed", "refused", "replayed",
                               "ignored"}]

Typed == TypedRuns /\ TypedWorld /\ TypedApplies

\* Each call of tryStart that is still owed has a generation left.
Called == {d \in Deliveries : aPc[d] \in {"restart", "done"}}
RestartOwed == IF restartRequested THEN 1 ELSE 0
Counted == lifecycleGeneration + RestartOwed <= wants + Cardinality(Called)

(***************************************************************************)
(* One run at a time.                                                      *)
(***************************************************************************)

\* Where the last run is.
Here == IF lifecycleGeneration = 0 THEN "done" ELSE pc[lifecycleGeneration]
Asleep == {"switch", "rollback"}

Single ==
    /\ netPc = "idle"
    /\ \A r \in Runs : /\ r < lifecycleGeneration => pc[r] = "done"
                       /\ r > lifecycleGeneration => pc[r] = "new" /\ startReply[r] = "none"
    /\ Here # "new"
    /\ starting => Here # "done"
    /\ Here # "done" => starting \/ micro = <<RunToken(lifecycleGeneration)>>
    /\ \A r \in Runs : micro = <<RunToken(r)>> =>
           r = lifecycleGeneration /\ Here \in Asleep /\ tdPc = "idle" /\ ~starting
    /\ tdPc # "idle" => /\ Here \in Asleep /\ tdSilent
                        /\ waiters = <<RunToken(lifecycleGeneration)>>
    /\ Here \in Asleep /\ tdPc = "idle" => micro = <<RunToken(lifecycleGeneration)>>

(***************************************************************************)
(* The kernel.                                                             *)
(***************************************************************************)

Preparing == {"load", "write", "gate", "clean", "auth", "protect"}
Up == {"record", "announce", "clear"}

Kernel ==
    /\ core # "stopped" => coreRun \in Runs
    /\ coreRun \in Runs => coreRun <= lifecycleGeneration
    /\ Here \in {"refresh", "decide", "replay", "switch"} \cup Preparing =>
           coreRun # lifecycleGeneration /\ startReply[lifecycleGeneration] = "none"
    /\ Here = "core" =>
           /\ coreRun = lifecycleGeneration
           /\ \/ core = "starting" /\ ~coreCancelled /\ startReply[coreRun] = "none"
              \/ core = "running" /\ startReply[coreRun] = "ok"
              \/ core = "stopped" /\ startReply[coreRun] = "err"
    /\ Here \in Up => started /\ coreRun = lifecycleGeneration
    /\ started => Here \notin Preparing \cup {"core"}
    /\ started /\ tdPc = "idle" => core = "running" /\ Here \notin Asleep
    /\ core = "running" => tdPc = "idle" /\ (started \/ Here \in {"core", "failed"})
    /\ core = "starting" => coreCancelled \/ Here \in {"core", "failed"}

(***************************************************************************)
(* What an apply waits for.                                                *)
(***************************************************************************)

\* There is a session, or one being built, only for a profile that was asked for.
Wish ==
    /\ pendingPref # None => latestRequested # None
    /\ started \/ Here \in Preparing \cup Up \cup {"switch", "core"}
           => latestRequested # None

\* The run an apply waits for reads settings at least as new as its revision.
Reads(d) ==
    Here # "done" /\ callers[lifecycleGeneration] = <<ApplyToken(d)>> =>
        /\ Here # "replay"
        /\ Here \in {"refresh", "decide"} => forceRestart
        /\ Here \in {"refresh", "decide", "switch", "load"} => cache >= revision[d]
        /\ Here \in Preparing \cup Up \cup {"core"} =>
               Here = "load" \/ rev[lifecycleGeneration] >= revision[d]

\* When its run has returned, the kernel is that of this run, or none is up.
Returned(d) ==
    micro = <<ApplyToken(d)>> /\ ran[d] =>
        /\ tdPc = "idle"
        /\ started => rev[coreRun] >= revision[d]

Promise ==
    /\ \A r \in Runs, d \in Deliveries : callers[r] = <<ApplyToken(d)>> => aPc[d] # "new"
    /\ \A d \in Deliveries : Reads(d) /\ Returned(d)

Inv == Typed /\ Counted /\ Single /\ Kernel /\ Wish /\ Promise

(***************************************************************************)
(* What settles in agreement.                                              *)
(***************************************************************************)

\* The run builds, and the session is, what was asked for last, or a restart is
\* noted, which a run at work will see.
Meant ==
    /\ restartRequested => Here # "done"
    /\ Here \in Preparing \cup {"switch", "core"} =>
           restartRequested \/ target[lifecycleGeneration] = latestRequested
    /\ Here \in {"replay", "done"} \cup Up /\ started =>
           restartRequested \/ currentRunId = latestRequested

\* Config, tunnel and profile of a start are its own.
Built ==
    /\ Here \in {"gate", "clean", "auth", "protect", "core"} =>
           configFile = lifecycleGeneration
    /\ Here \in {"protect", "core"} => tunnel = lifecycleGeneration
    /\ Here = "core" /\ core = "running" => coreConf = lifecycleGeneration
    /\ Here \in Preparing \cup {"switch", "core"} => target[lifecycleGeneration] # None

\* Those of a session are of the run that made it.
Session ==
    /\ started /\ tdPc = "idle" =>
           /\ coreConf = coreRun /\ tunnel = coreRun
           /\ target[coreRun] = currentRunId /\ currentRunId # None
    /\ ~started \/ tdPc = "persist" => currentRunId = None

\* Published is what runs, once a run has come so far, and kept for the UI as well.
Told ==
    /\ Here = "replay" => started
    /\ Here \in {"replay", "clear", "done"} /\ started =>
           \/ restartRequested
           \/ status.text = "connected" /\ status.profile = currentRunId
    /\ Here \in {"refresh", "decide", "done"} /\ ~started => status.text # "connected"
    /\ Here \notin {"record", "failed"} \cup Asleep /\ started => runningPref = currentRunId
    /\ ~started => runningPref = None

Agree == DOMAIN target = Runs /\ Meant /\ Built /\ Session /\ Told
AgreeInv == Inv /\ Agree

(***************************************************************************)
(* Pins and tunnel, if stopCore, startCore and destroy answer in time.     *)
(***************************************************************************)

\* Pins stand while the kernel does, and it is down where a run prepares.
Pins ==
    /\ core # "stopped" => pinned = coreRun
    /\ Here \in {"gate", "clean", "auth", "protect"} => pinned = lifecycleGeneration
    /\ Here \in Preparing => core = "stopped"
    /\ core # "stopped" => started \/ Here \in {"core", "failed", "rollback"}
    /\ tdPc = "stop" /\ tdStopped => core = "stopped"
    /\ tdPc \in {"destroy", "persist"} => core = "stopped"
    /\ Here \in Asleep /\ tdPc = "idle" => core = "stopped"

\* A tunnel has somebody to destroy it.
Tunnel ==
    /\ tunnel # None => connection
    /\ tunnel # None => started \/ Here \in {"protect", "core", "failed", "rollback"}
    /\ Here \in {"clean", "auth", "protect", "core"} => connection
    /\ tdPc = "persist" => tunnel = None
    /\ Here \in Asleep /\ tdPc = "idle" => tunnel = None

PromptInv == Inv /\ Pins /\ Tunnel

(***************************************************************************)
(* Numbers and lines.                                                      *)
(***************************************************************************)

LEMMA Numbers ==
    /\ MaxWants \in Nat /\ MaxCuts \in Nat /\ MaxNets \in Nat /\ MaxApplies \in Nat
    /\ Runs \subseteq Nat \ {0}
    /\ None \notin Nat
  BY LifecycleAssumption DEF Runs

LEMMA Lines ==
    /\ \A r, q : <<RunToken(r)>> = <<RunToken(q)>> => r = q
    /\ \A d, e : <<ApplyToken(d)>> = <<ApplyToken(e)>> => d = e
    /\ \A r, d : RunToken(r) # ApplyToken(d)
    /\ \A r : RunToken(r) # NetToken
    /\ \A d : ApplyToken(d) # NetToken
    /\ \A t : <<t>> # <<>> /\ Head(<<t>>) = t /\ Tail(<<t>>) = <<>>
  BY DEF RunToken, ApplyToken, NetToken

LEMMA LineKinds ==
    /\ \A s \in RunLine : s # <<>> /\ \A d : s # <<ApplyToken(d)>>
    /\ \A s \in ApplyLine : s # <<>> /\ \A r : s # <<RunToken(r)>>
  BY Lines DEF RunLine, ApplyLine

LEMMA JoinLine ==
    ASSUME NEW s \in ApplyLine \cup {<<>>}
    PROVE  <<>> \o s = s
  <1>1. CASE s = <<>>
    BY <1>1
  <1>2. ASSUME NEW d \in Deliveries, s = <<ApplyToken(d)>> PROVE <<>> \o s = s
    BY <1>2
  <1> QED
    BY <1>1, <1>2 DEF ApplyLine

LEMMA CalledSize ==
    ASSUME Typed
    PROVE  /\ IsFiniteSet(Called) /\ Cardinality(Called) \in Nat
           /\ Cardinality(Called) <= MaxApplies
           /\ \A d \in Deliveries : aPc[d] = "check" => Cardinality(Called) < MaxApplies
  <1>1. IsFiniteSet(Deliveries) /\ Cardinality(Deliveries) = MaxApplies
    BY Numbers, FS_Interval DEF Deliveries
  <1>2. Called \subseteq Deliveries
    BY DEF Called
  <1>3. /\ IsFiniteSet(Called) /\ Cardinality(Called) \in Nat
        /\ Cardinality(Called) <= MaxApplies
    BY <1>1, <1>2, FS_Subset, FS_CardinalityType
  <1>4. ASSUME NEW d \in Deliveries, aPc[d] = "check"
        PROVE  Cardinality(Called) < MaxApplies
    <2>1. d \notin Called
      BY <1>4 DEF Called
    <2>2. Cardinality(Called \cup {d}) = Cardinality(Called) + 1
      BY <1>3, <2>1, FS_AddElement
    <2>3. Cardinality(Called \cup {d}) <= MaxApplies
      BY <1>1, <1>2, FS_Subset
    <2> QED
      BY <1>3, <2>2, <2>3, Numbers
  <1> QED
    BY <1>3, <1>4

LEMMA CalledGrows ==
    ASSUME Typed, Typed', NEW d \in Deliveries, NEW place,
           aPc' = [aPc EXCEPT ![d] = place],
           aPc[d] \in {"restart", "done"} => place \in {"restart", "done"}
    PROVE  /\ Cardinality(Called) <= Cardinality(Called')
           /\ Cardinality(Called) \in Nat /\ Cardinality(Called') \in Nat
           /\ aPc[d] = "check" /\ place = "restart" =>
                  Cardinality(Called') = Cardinality(Called) + 1
  <1>1. IsFiniteSet(Called)
    BY CalledSize
  <1>2. /\ Called' = Called \/ Called' = Called \cup {d}
        /\ aPc[d] = "check" /\ place = "restart" => Called' = Called \cup {d} /\ d \notin Called
    BY DEF Called, Typed, TypedApplies
  <1>3. d \notin Called => Cardinality(Called \cup {d}) = Cardinality(Called) + 1
    BY <1>1, FS_AddElement
  <1>4. d \in Called => Called \cup {d} = Called
    OBVIOUS
  <1>5. Cardinality(Called) \in Nat
    BY <1>1, FS_CardinalityType
  <1>6. \/ Cardinality(Called') = Cardinality(Called)
        \/ Cardinality(Called') = Cardinality(Called) + 1
    BY <1>2, <1>3, <1>4
  <1>7. aPc[d] = "check" /\ place = "restart" =>
            Cardinality(Called') = Cardinality(Called) + 1
    BY <1>2, <1>3
  <1> QED
    BY <1>5, <1>6, <1>7

LEMMA OneMore ==
    ASSUME NEW g \in Nat, NEW h \in Nat, NEW a \in {0, 1}, NEW b \in {0, 1},
           NEW m \in Nat, g + a <= m, h + b <= g + a + 1
    PROVE  h + b <= m + 1
  OBVIOUS

\* The next generation is that of a run.
LEMMA Room ==
    ASSUME MaxCuts = 0, MaxNets = 0, Typed, Counted,
           \/ restartRequested \/ wants < MaxWants
           \/ \E d \in Deliveries : aPc[d] = "check"
    PROVE  lifecycleGeneration + 1 \in Runs
  <1>1. /\ lifecycleGeneration \in Nat /\ restartRequested \in BOOLEAN
        /\ wants \in 0..MaxWants
    BY Numbers DEF Typed, TypedRuns, TypedWorld
  <1>2. lifecycleGeneration + 1 <= MaxWants + MaxApplies
    <2>1. CASE restartRequested
      BY <1>1, <2>1, CalledSize, Numbers DEF Counted, RestartOwed
    <2>2. CASE wants < MaxWants
      BY <1>1, <2>2, CalledSize, Numbers DEF Counted, RestartOwed
    <2>3. CASE \E d \in Deliveries : aPc[d] = "check"
      BY <1>1, <2>3, CalledSize, Numbers DEF Counted, RestartOwed
    <2> QED
      BY <2>1, <2>2, <2>3
  <1> QED
    BY <1>1, <1>2, Numbers DEF Runs

(***************************************************************************)
(* The shapes of a step.                                                   *)
(***************************************************************************)

\* The run that is at work is the last one, and nothing is being torn down.
LEMMA Awake ==
    ASSUME Inv, NEW r \in Runs, micro = <<>>, pc[r] \notin {"new", "done"} \cup Asleep
    PROVE  /\ r = lifecycleGeneration /\ lifecycleGeneration \in Runs
           /\ lifecycleGeneration \in Nat /\ lifecycleGeneration # 0
           /\ Here = pc[r] /\ starting /\ tdPc = "idle"
  <1>1. lifecycleGeneration \in Nat /\ r \in Nat /\ r # 0
    BY Numbers DEF Inv, Typed, TypedRuns
  <1>2. r = lifecycleGeneration
    BY <1>1 DEF Inv, Single
  <1>3. Here = pc[r]
    BY <1>1, <1>2 DEF Here
  <1>4. starting /\ tdPc = "idle"
    BY <1>3, Lines DEF Inv, Single
  <1> QED
    BY <1>1, <1>2, <1>3, <1>4

\* It goes to another place.
LEMMA Moves ==
    ASSUME Inv, NEW r \in Runs, micro = <<>>, pc[r] \notin {"new", "done"} \cup Asleep,
           NEW b \in Place \ ({"new", "done"} \cup Asleep),
           pc' = [pc EXCEPT ![r] = b],
           UNCHANGED <<lifecycleGeneration, starting, micro, tdPc, tdSilent, waiters,
                       netPc, startReply>>
    PROVE  /\ r = lifecycleGeneration /\ lifecycleGeneration \in Runs
           /\ lifecycleGeneration \in Nat
           /\ Here = pc[r] /\ Here' = b /\ starting /\ tdPc = "idle"
           /\ Single' /\ pc' \in [Runs -> Place]
  <1>1. /\ r = lifecycleGeneration /\ lifecycleGeneration \in Nat /\ r # 0
        /\ Here = pc[r] /\ starting /\ tdPc = "idle"
    BY Awake
  <1>2. pc \in [Runs -> Place]
    BY DEF Inv, Typed, TypedRuns
  <1>3. /\ pc'[r] = b /\ pc' \in [Runs -> Place]
        /\ \A q \in Runs : q # r => pc'[q] = pc[q]
    BY <1>2
  <1>4. Here' = b
    BY <1>1, <1>3 DEF Here
  <1>5. Single'
    <2>1. \A q \in Runs :
              /\ q < lifecycleGeneration => pc'[q] = "done"
              /\ q > lifecycleGeneration => pc'[q] = "new" /\ startReply'[q] = "none"
      BY <1>1, <1>3, Numbers DEF Inv, Single
    <2>2. \A q \in Runs : micro' # <<RunToken(q)>>
      BY Lines
    <2> QED
      BY <1>1, <1>4, <2>1, <2>2 DEF Inv, Single
  <1> QED
    BY <1>1, <1>3, <1>4, <1>5

\* It calls the teardown and waits for it.
LEMMA Sleeps ==
    ASSUME Inv, NEW r \in Runs, micro = <<>>, pc[r] \notin {"new", "done"} \cup Asleep,
           NEW b \in Asleep, pc' = [pc EXCEPT ![r] = b],
           Teardown(TRUE, <<RunToken(r)>>),
           UNCHANGED <<lifecycleGeneration, starting, micro, netPc>>
    PROVE  /\ r = lifecycleGeneration /\ lifecycleGeneration \in Runs
           /\ lifecycleGeneration \in Nat
           /\ Here = pc[r] /\ Here' = b /\ starting /\ tdPc = "idle"
           /\ tdPc' = "stop" /\ tdStopped' = (core = "stopped")
           /\ core' = IF core = "running" THEN "stopping" ELSE core
           /\ coreCancelled' = (coreCancelled \/ core = "starting")
           /\ UNCHANGED <<coreRun, coreConf, startReply>>
           /\ Single' /\ pc' \in [Runs -> Place]
  <1>1. /\ r = lifecycleGeneration /\ lifecycleGeneration \in Nat /\ r # 0
        /\ lifecycleGeneration \in Runs
        /\ Here = pc[r] /\ starting /\ tdPc = "idle"
    BY Awake
  <1>2. pc \in [Runs -> Place] /\ b \in Place
    BY DEF Inv, Typed, TypedRuns, Place, Asleep
  <1>3. /\ pc'[r] = b /\ pc' \in [Runs -> Place]
        /\ \A q \in Runs : q # r => pc'[q] = pc[q]
    BY <1>2
  <1>4. Here' = b
    BY <1>1, <1>3 DEF Here
  <1>5. /\ tdPc' = "stop" /\ tdSilent' = TRUE /\ waiters' = <<RunToken(r)>>
        /\ core' = IF core = "running" THEN "stopping" ELSE core
        /\ UNCHANGED <<coreRun, coreConf, startReply>>
    BY <1>1 DEF Teardown
  <1>6. tdStopped' = (core = "stopped")
    BY <1>1, Zenon DEF Teardown
  <1>7. coreCancelled' = (coreCancelled \/ core = "starting")
    BY <1>1, Zenon DEF Teardown
  <1>8. Single'
    <2>1. \A q \in Runs :
              /\ q < lifecycleGeneration => pc'[q] = "done"
              /\ q > lifecycleGeneration => pc'[q] = "new" /\ startReply'[q] = "none"
      BY <1>1, <1>3, <1>5, Numbers DEF Inv, Single
    <2>2. \A q \in Runs : micro' # <<RunToken(q)>>
      BY Lines
    <2>3. Here' # "new" /\ Here' # "done"
      BY <1>4 DEF Asleep
    <2> QED
      BY <1>1, <1>4, <1>5, <2>1, <2>2, <2>3 DEF Inv, Single
  <1> QED
    BY <1>1, <1>3, <1>4, <1>5, <1>6, <1>7, <1>8

\* It ends, and the next run begins if one is wanted; who waited for it resumes.
LEMMA Ends ==
    ASSUME MaxCuts = 0, MaxNets = 0, Inv, NEW r \in Runs, r = lifecycleGeneration,
           Here # "done", tdPc = "idle", Finally(r, <<>>),
           UNCHANGED <<netPc, tdPc, tdSilent, waiters, startReply>>
    PROVE  /\ micro' = callers[r] /\ micro' \in ApplyLine \cup {<<>>}
           /\ restartRequested' = FALSE /\ starting' \in BOOLEAN
           /\ lifecycleGeneration' \in Runs
           /\ \/ /\ lifecycleGeneration' = lifecycleGeneration + 1
                 /\ Here' = "refresh" /\ callers'[lifecycleGeneration'] = <<>>
              \/ lifecycleGeneration' = lifecycleGeneration /\ Here' = "done"
           /\ lifecycleGeneration' + RestartOwed' <= lifecycleGeneration + RestartOwed
           /\ pc' \in [Runs -> Place]
           /\ callers' \in [Runs -> ApplyLine \cup {<<>>}]
           /\ \A q \in Runs : callers'[q] \in {callers[q], <<>>}
           /\ Single'
  <1>1. /\ lifecycleGeneration \in Nat /\ r \in Nat /\ r # 0 /\ Here = pc[r]
        /\ pc \in [Runs -> Place] /\ callers \in [Runs -> ApplyLine \cup {<<>>}]
        /\ restartRequested \in BOOLEAN
    BY Numbers DEF Inv, Typed, TypedRuns, Here
  <1>2. micro' = callers[r] /\ callers[r] \in ApplyLine \cup {<<>>}
    <2>1. callers[r] \in ApplyLine \cup {<<>>} /\ micro' = <<>> \o callers[r]
      BY <1>1 DEF Finally, End
    <2> QED
      BY <2>1, JoinLine
  <1>3. \A q \in Runs : micro' # <<RunToken(q)>>
    BY <1>2, LineKinds, Lines
  <1>4. CASE restartRequested
    <2>1. lifecycleGeneration + 1 \in Runs
      BY <1>4, Room DEF Inv
    <2>2. /\ starting' = TRUE /\ restartRequested' = FALSE
          /\ lifecycleGeneration' = lifecycleGeneration + 1
          /\ pc' = [pc EXCEPT ![r] = "done", ![lifecycleGeneration + 1] = "refresh"]
          /\ callers' = [callers EXCEPT ![lifecycleGeneration + 1] = <<>>]
      BY <1>4 DEF Finally, End
    <2>3. /\ callers' \in [Runs -> ApplyLine \cup {<<>>}]
          /\ callers'[lifecycleGeneration'] = <<>>
          /\ \A q \in Runs : callers'[q] \in {callers[q], <<>>}
      BY <1>1, <2>1, <2>2
    <2>4. /\ pc' \in [Runs -> Place] /\ pc'[lifecycleGeneration'] = "refresh"
          /\ pc'[r] = "done"
          /\ \A q \in Runs : q # r /\ q # lifecycleGeneration' => pc'[q] = pc[q]
      BY <1>1, <2>1, <2>2 DEF Place
    <2>5. RestartOwed = 1 /\ RestartOwed' = 0
      BY <1>4, <2>2 DEF RestartOwed
    <2>6. lifecycleGeneration' # 0 /\ Here' = "refresh"
      BY <1>1, <2>2, <2>4 DEF Here
    <2>7. \A q \in Runs : /\ q < lifecycleGeneration' => pc'[q] = "done"
                          /\ q > lifecycleGeneration' =>
                                 pc'[q] = "new" /\ startReply'[q] = "none"
      BY <1>1, <2>1, <2>2, <2>4, Numbers DEF Inv, Single
    <2>8. Single'
      BY <1>3, <2>2, <2>6, <2>7 DEF Inv, Single, Asleep
    <2> QED
      BY <1>1, <1>2, <2>1, <2>2, <2>3, <2>4, <2>5, <2>6, <2>8
  <1>5. CASE ~restartRequested
    <2>1. /\ starting' = FALSE /\ restartRequested' = FALSE
          /\ lifecycleGeneration' = lifecycleGeneration
          /\ pc' = [pc EXCEPT ![r] = "done"] /\ callers' = callers
      BY <1>5 DEF Finally, End
    <2>2. RestartOwed = 0 /\ RestartOwed' = 0
      BY <1>5, <2>1 DEF RestartOwed
    <2>3. /\ pc' \in [Runs -> Place] /\ pc'[r] = "done"
          /\ \A q \in Runs : q # r => pc'[q] = pc[q]
      BY <1>1, <2>1 DEF Place
    <2>4. Here' = "done"
      BY <1>1, <2>1, <2>3 DEF Here
    <2>5. \A q \in Runs : /\ q < lifecycleGeneration' => pc'[q] = "done"
                          /\ q > lifecycleGeneration' =>
                                 pc'[q] = "new" /\ startReply'[q] = "none"
      BY <1>1, <2>1, <2>3, Numbers DEF Inv, Single
    <2>6. Single'
      BY <1>3, <2>1, <2>4, <2>5 DEF Inv, Single, Asleep
    <2>7. lifecycleGeneration' + RestartOwed' <= lifecycleGeneration + RestartOwed
      BY <1>1, <2>1, <2>2
    <2>8. \A q \in Runs : callers'[q] \in {callers[q], <<>>}
      BY <2>1
    <2> QED
      BY <1>1, <1>2, <2>1, <2>3, <2>4, <2>6, <2>7, <2>8
  <1> QED
    BY <1>4, <1>5

\* tryStart is called: a run begins, or the wish is noted.
LEMMA Enters ==
    ASSUME MaxCuts = 0, MaxNets = 0, Inv, micro = <<>>,
           wants < MaxWants \/ \E d \in Deliveries : aPc[d] = "check",
           NEW tokens \in ApplyLine \cup {<<>>}, Enter(pc, tokens),
           micro' \in ApplyLine \cup {<<>>},
           UNCHANGED <<netPc, tdPc, tdSilent, waiters, startReply>>
    PROVE  /\ restartRequested' \in BOOLEAN /\ starting' \in BOOLEAN
           /\ lifecycleGeneration' \in Runs \cup {0}
           /\ \/ /\ ~starting /\ Here = "done" /\ tdPc = "idle"
                 /\ lifecycleGeneration' = lifecycleGeneration + 1
                 /\ lifecycleGeneration' \in Runs
                 /\ Here' = "refresh" /\ callers'[lifecycleGeneration'] = tokens
                 /\ \A q \in Runs : q # lifecycleGeneration' => callers'[q] = callers[q]
              \/ /\ starting /\ callers' = callers
                 /\ lifecycleGeneration' = lifecycleGeneration /\ Here' = Here
           /\ lifecycleGeneration' + RestartOwed' <= lifecycleGeneration + RestartOwed + 1
           /\ pc' \in [Runs -> Place]
           /\ callers' \in [Runs -> ApplyLine \cup {<<>>}]
           /\ Single'
  <1>1. /\ lifecycleGeneration \in Nat /\ lifecycleGeneration \in Runs \cup {0}
        /\ pc \in [Runs -> Place] /\ callers \in [Runs -> ApplyLine \cup {<<>>}]
        /\ restartRequested \in BOOLEAN /\ starting \in BOOLEAN
    BY Numbers DEF Inv, Typed, TypedRuns
  <1>2. \A q \in Runs : micro' # <<RunToken(q)>>
    BY LineKinds, Lines
  <1>3. CASE starting
    <2>1. /\ restartRequested' = TRUE /\ pc' = pc
          /\ UNCHANGED <<starting, lifecycleGeneration, callers>>
      BY <1>3 DEF Enter, EnterUnless
    <2>2. Here' = Here
      BY <2>1 DEF Here
    <2>3. RestartOwed \in {0, 1} /\ RestartOwed' = 1
      BY <2>1 DEF RestartOwed
    <2>4. Here \in Asleep => tdPc # "idle"
      BY Lines DEF Inv, Single
    <2>5. Single'
      BY <1>2, <1>3, <2>1, <2>2, <2>4 DEF Inv, Single
    <2> QED
      BY <1>1, <1>3, <2>1, <2>2, <2>3, <2>5
  <1>4. CASE ~starting
    <2>1. Here = "done" /\ tdPc = "idle"
      BY <1>4, Lines DEF Inv, Single, Asleep
    <2>2. lifecycleGeneration + 1 \in Runs
      BY Room DEF Inv
    <2>3. /\ starting' = TRUE /\ restartRequested' = FALSE
          /\ lifecycleGeneration' = lifecycleGeneration + 1
          /\ pc' = [pc EXCEPT ![lifecycleGeneration + 1] = "refresh"]
          /\ callers' = [callers EXCEPT ![lifecycleGeneration + 1] = tokens]
      BY <1>4 DEF Enter, EnterUnless
    <2>4. /\ callers' \in [Runs -> ApplyLine \cup {<<>>}]
          /\ callers'[lifecycleGeneration'] = tokens
          /\ \A q \in Runs : q # lifecycleGeneration' => callers'[q] = callers[q]
      BY <1>1, <2>2, <2>3
    <2>5. /\ pc' \in [Runs -> Place] /\ pc'[lifecycleGeneration'] = "refresh"
          /\ \A q \in Runs : q # lifecycleGeneration' => pc'[q] = pc[q]
      BY <1>1, <2>2, <2>3 DEF Place
    <2>6. RestartOwed \in {0, 1} /\ RestartOwed' = 0
      BY <2>3 DEF RestartOwed
    <2>7. lifecycleGeneration' # 0 /\ Here' = "refresh"
      BY <1>1, <2>3, <2>5 DEF Here
    <2>8. \A q \in Runs : /\ q < lifecycleGeneration' => pc'[q] = "done"
                          /\ q > lifecycleGeneration' =>
                                 pc'[q] = "new" /\ startReply'[q] = "none"
      <3>1. lifecycleGeneration # 0 => pc[lifecycleGeneration] = "done"
        BY <2>1 DEF Here
      <3> QED
        BY <1>1, <2>2, <2>3, <2>5, <3>1, Numbers DEF Inv, Single
    <2>9. Single'
      BY <1>2, <2>1, <2>3, <2>7, <2>8 DEF Inv, Single, Asleep
    <2>10. lifecycleGeneration' + RestartOwed' <= lifecycleGeneration + RestartOwed + 1
      BY <1>1, <2>3, <2>6
    <2>11. restartRequested' \in BOOLEAN /\ starting' \in BOOLEAN
      BY <2>3
    <2> QED
      BY <1>4, <2>1, <2>2, <2>3, <2>4, <2>5, <2>7, <2>9, <2>10, <2>11
  <1> QED
    BY <1>1, <1>3, <1>4

(***************************************************************************)
(* The steps of a run.                                                     *)
(***************************************************************************)

LEMMA MoveTyped ==
    ASSUME Inv, pc' \in [Runs -> Place], rev' \in [Runs -> Nat],
           startReply' \in [Runs -> {"none", "ok", "err"}],
           saved' \in Nat, cache' \in Nat, cache' <= saved',
           coreRun' \in Runs \cup {None},
           core' \in {"stopped", "starting", "running", "stopping"},
           tdPc' \in {"idle", "stop", "destroy", "persist"},
           starting' \in BOOLEAN, micro' \in RunLine \cup ApplyLine \cup {<<>>},
           UNCHANGED <<lifecycleGeneration, restartRequested, callers, wants, cuts,
                       nets, applyVars>>
    PROVE  Typed' /\ Counted'
  <1>1. UNCHANGED <<aPc, revision, ran, ack>>
    BY DEF applyVars, commandVars
  <1>2. Typed'
    <2>1. TypedRuns'
      BY DEF Inv, Typed, TypedRuns
    <2>2. TypedWorld'
      BY DEF Inv, Typed, TypedWorld
    <2>3. TypedApplies'
      BY <1>1 DEF Inv, Typed, TypedApplies
    <2> QED
      BY <2>1, <2>2, <2>3 DEF Typed
  <1>3. Called' = Called /\ RestartOwed' = RestartOwed
    BY <1>1 DEF Called, RestartOwed
  <1>4. Counted'
    BY <1>3 DEF Inv, Counted
  <1> QED
    BY <1>2, <1>4

\* A move that leaves the kernel and the session alone.
LEMMA PlainKeeps ==
    ASSUME Inv, NEW r \in Runs, micro = <<>>, pc[r] \notin {"new", "done"} \cup Asleep,
           NEW b, pc' = [pc EXCEPT ![r] = b],
           \/ pc[r] = "refresh" /\ b = "decide"
           \/ pc[r] = "decide" /\ b = "replay" /\ ~forceRestart
           \/ pc[r] = "decide" /\ b = "load" /\ ~started /\ latestRequested # None
           \/ pc[r] = "load" /\ b = "write" /\ rev' = [rev EXCEPT ![r] = cache]
           \/ pc[r] = "write" /\ b = "gate"
           \/ pc[r] = "gate" /\ b = "clean"
           \/ pc[r] = "clean" /\ b = "auth"
           \/ pc[r] = "auth" /\ b = "protect"
           \/ pc[r] = "record" /\ b = "announce"
           \/ pc[r] = "announce" /\ b = "clear"
           \/ b = "failed",
           cache' = cache \/ cache' = saved,
           b # "write" => rev' = rev,
           UNCHANGED <<lifecycleGeneration, starting, restartRequested, callers, micro,
                       tdPc, tdSilent, waiters, netPc, wants, cuts, nets, core,
                       coreRun, coreCancelled, startReply, started, latestRequested,
                       pendingPref, forceRestart, saved, applyVars>>
    PROVE  Inv'
  <1>1. b \in Place \ ({"new", "done"} \cup Asleep)
    BY DEF Place, Asleep
  <1>2. /\ r = lifecycleGeneration /\ lifecycleGeneration \in Runs
        /\ lifecycleGeneration \in Nat
        /\ Here = pc[r] /\ Here' = b /\ starting /\ tdPc = "idle"
        /\ Single' /\ pc' \in [Runs -> Place]
    BY <1>1, Moves
  <1>3. /\ rev \in [Runs -> Nat] /\ cache \in Nat /\ saved \in Nat /\ cache <= saved
        /\ startReply \in [Runs -> {"none", "ok", "err"}]
    BY DEF Inv, Typed, TypedRuns, TypedWorld
  <1>4. /\ rev' \in [Runs -> Nat] /\ cache' \in Nat /\ cache <= cache' /\ cache' <= saved'
        /\ b = "write" => rev'[r] = cache
    <2>1. cache' \in Nat /\ cache <= cache' /\ cache' <= saved'
      BY <1>3
    <2>2. rev' = rev \/ rev' = [rev EXCEPT ![r] = cache]
      OBVIOUS
    <2>3. rev' \in [Runs -> Nat]
      BY <1>3, <2>2
    <2>4. b = "write" => rev' = [rev EXCEPT ![r] = cache]
      OBVIOUS
    <2>5. b = "write" => rev'[r] = cache
      BY <1>3, <2>4
    <2> QED
      BY <2>1, <2>3, <2>5
  <1>5. Typed' /\ Counted'
    BY <1>2, <1>3, <1>4, MoveTyped DEF Inv, Typed, TypedRuns, TypedWorld
  <1>6. Kernel'
    BY <1>2 DEF Inv, Kernel, Preparing, Up, Asleep
  <1>7. Wish'
    BY <1>2 DEF Inv, Wish, Preparing, Up, Asleep
  <1>8. Promise'
    <2>1. UNCHANGED <<aPc, revision, ran>>
      BY DEF applyVars, commandVars
    <2>2. ASSUME NEW d \in Deliveries PROVE Reads(d)'
      <3>1. Reads(d) /\ revision[d] \in Nat
        BY DEF Inv, Promise, Typed, TypedApplies
      <3>2. cache >= revision[d] => cache' >= revision[d]
        BY <1>3, <1>4, <3>1
      <3> QED
        BY <1>2, <1>4, <2>1, <3>1, <3>2 DEF Reads, Preparing, Up, Asleep
    <2>3. ASSUME NEW d \in Deliveries PROVE Returned(d)'
      BY Lines DEF Returned
    <2>4. \A q \in Runs, d \in Deliveries : callers'[q] = <<ApplyToken(d)>> => aPc'[d] # "new"
      BY <2>1 DEF Inv, Promise
    <2> QED
      BY <2>2, <2>3, <2>4 DEF Promise
  <1> QED
    BY <1>2, <1>5, <1>6, <1>7, <1>8 DEF Inv

LEMMA PlainSteps ==
    ASSUME Inv, NEW r \in Runs, UNCHANGED applyVars,
           \/ Refresh(r) \/ Throw(r) \/ Load(r) \/ Write(r) \/ Gate(r) \/ Clean(r)
           \/ Auth(r)
           \/ Protect(r) /\ core # "stopped"
           \/ CoreRejected(r) \/ Record(r) \/ Announce(r)
    PROVE  Inv'
  <1>1. micro = <<>> /\ pc[r] \notin {"new", "done"} \cup Asleep
    BY DEF Refresh, Throw, Load, Write, WriteAs, Gate, Clean, Auth, Protect,
           CoreRejected, Record, Announce, At, Macrotask, Asleep
  <1>2. UNCHANGED <<lifecycleGeneration, starting, restartRequested, callers, micro,
                    tdPc, tdSilent, waiters, netPc, wants, cuts, nets, core,
                    coreRun, coreCancelled, startReply, started, latestRequested,
                    pendingPref, forceRestart, saved>>
    <2>1. CASE Refresh(r)
      BY <2>1 DEF Refresh, fieldVars, requestVars, coreVars, teardownVars, inputVars
    <2> USE DEF StartVpnFrame, requestVars, storeVars, teardownVars, inputVars, coreVars
    <2>2. CASE Throw(r) \/ Load(r) \/ CoreRejected(r)
      BY <2>2 DEF Throw, Load, CoreRejected
    <2>3. CASE Write(r) \/ Gate(r) \/ Clean(r) \/ Auth(r)
      BY <2>3 DEF Write, WriteAs, Gate, Clean, Auth
    <2>4. CASE Protect(r) /\ core # "stopped"
      BY <2>4 DEF Protect
    <2>5. CASE Record(r) \/ Announce(r)
      BY <2>5 DEF Record, Announce
    <2> QED
      BY <2>1, <2>2, <2>3, <2>4, <2>5
  <1> DEFINE Goes(b) ==
        /\ pc' = [pc EXCEPT ![r] = b]
        /\ \/ pc[r] = "refresh" /\ b = "decide"
           \/ pc[r] = "load" /\ b = "write" /\ rev' = [rev EXCEPT ![r] = cache]
           \/ pc[r] = "write" /\ b = "gate"
           \/ pc[r] = "gate" /\ b = "clean"
           \/ pc[r] = "clean" /\ b = "auth"
           \/ pc[r] = "auth" /\ b = "protect"
           \/ pc[r] = "record" /\ b = "announce"
           \/ pc[r] = "announce" /\ b = "clear"
           \/ b = "failed"
        /\ b # "write" => rev' = rev
  <1>3. \E b : Goes(b)
    <2>1. CASE Refresh(r)
      BY <2>1 DEF Refresh, At, Move, jobVars
    <2> USE DEF At, Move, jobVars
    <2>2. CASE Throw(r) \/ CoreRejected(r)
      BY <2>2 DEF Throw, CoreRejected
    <2>3. CASE Load(r)
      BY <2>3 DEF Load
    <2>4. CASE Write(r) \/ Gate(r) \/ Clean(r) \/ Auth(r)
      BY <2>4 DEF Write, WriteAs, Gate, Clean, Auth
    <2>5. CASE Protect(r) /\ core # "stopped"
      BY <2>5 DEF Protect
    <2>6. CASE Record(r) \/ Announce(r)
      BY <2>6 DEF Record, Announce
    <2> QED
      BY <2>1, <2>2, <2>3, <2>4, <2>5, <2>6
  <1>4. cache' = cache \/ cache' = saved
    BY DEF Refresh, Throw, Load, Write, WriteAs, Gate, Clean, Auth, Protect,
           CoreRejected, Record, Announce, StartVpnFrame, storeVars
  <1> HIDE DEF Goes
  <1>5. PICK b : Goes(b)
    BY <1>3
  <1> QED
    BY <1>1, <1>2, <1>4, <1>5, PlainKeeps DEF Goes

\* A decision that does not switch: replay the state, or load.
LEMMA ChoiceKeeps ==
    ASSUME Inv, NEW r \in Runs, UNCHANGED applyVars, Decide(r), Wanted # None,
           ~(started /\ (Wanted # currentRunId \/ forceRestart))
    PROVE  Inv'
  <1>1. micro = <<>> /\ pc[r] = "decide"
    BY DEF Decide, At, Macrotask
  <1>2. Wanted # None => latestRequested # None
    BY DEF Wanted, Inv, Wish
  <1>3. UNCHANGED <<lifecycleGeneration, starting, restartRequested, callers, micro,
                    tdPc, tdSilent, waiters, netPc, wants, cuts, nets, core,
                    coreRun, coreCancelled, startReply, started, latestRequested,
                    pendingPref, forceRestart, saved, cache, rev>>
    BY DEF Decide, storeVars, coreVars, teardownVars, inputVars
  <1>4. \E b : /\ pc' = [pc EXCEPT ![r] = b]
               /\ \/ b = "replay" /\ ~forceRestart
                  \/ b = "load" /\ ~started
    BY DEF Decide, Move
  <1>5. pc[r] \notin {"new", "done"} \cup Asleep
    BY <1>1 DEF Asleep
  <1> QED
    BY <1>1, <1>2, <1>3, <1>4, <1>5, PlainKeeps

\* The native core is asked to start.
LEMMA AskKeeps ==
    ASSUME Inv, NEW r \in Runs, UNCHANGED applyVars, Protect(r), core = "stopped"
    PROVE  Inv'
  <1>1. /\ micro = <<>> /\ pc[r] = "protect" /\ pc' = [pc EXCEPT ![r] = "core"]
        /\ core' = "starting" /\ coreRun' = r /\ coreCancelled' = FALSE
        /\ UNCHANGED <<lifecycleGeneration, starting, restartRequested, callers, micro,
                       tdPc, tdSilent, waiters, netPc, wants, cuts, nets, startReply,
                       started, latestRequested, pendingPref, saved, cache, rev>>
    BY DEF Protect, At, Macrotask, Move, StartVpnFrame, requestVars, storeVars,
           teardownVars, inputVars, jobVars
  <1>2. /\ r = lifecycleGeneration /\ lifecycleGeneration \in Runs
        /\ lifecycleGeneration \in Nat
        /\ Here = "protect" /\ Here' = "core" /\ starting /\ tdPc = "idle"
        /\ Single' /\ pc' \in [Runs -> Place]
    <2>1. /\ "core" \in Place \ ({"new", "done"} \cup Asleep)
          /\ pc[r] \notin {"new", "done"} \cup Asleep
      BY <1>1 DEF Place, Asleep
    <2>2. UNCHANGED <<lifecycleGeneration, starting, micro, tdPc, tdSilent, waiters,
                      netPc, startReply>>
      BY <1>1
    <2>3. micro = <<>> /\ pc[r] = "protect" /\ pc' = [pc EXCEPT ![r] = "core"]
      BY <1>1
    <2>4. /\ r = lifecycleGeneration /\ lifecycleGeneration \in Runs
          /\ lifecycleGeneration \in Nat
          /\ Here = pc[r] /\ Here' = "core" /\ starting /\ tdPc = "idle"
          /\ Single' /\ pc' \in [Runs -> Place]
      BY <2>1, <2>2, <2>3, Moves, Zenon
    <2> QED
      BY <2>3, <2>4
  <1>3. Typed' /\ Counted'
    BY <1>1, <1>2, MoveTyped DEF Inv, Typed, TypedRuns, TypedWorld
  <1>4. Kernel'
    BY <1>1, <1>2 DEF Inv, Kernel, Preparing, Up, Asleep
  <1>5. Wish'
    BY <1>1, <1>2 DEF Inv, Wish, Preparing, Up, Asleep
  <1>6. Promise'
    <2>1. UNCHANGED <<aPc, revision, ran>>
      BY DEF applyVars, commandVars
    <2>2. ASSUME NEW d \in Deliveries PROVE Reads(d)' /\ Returned(d)'
      BY <1>1, <1>2, <2>1, Lines DEF Inv, Promise, Reads, Returned, Preparing, Up
    <2> QED
      BY <1>1, <2>1, <2>2 DEF Inv, Promise
  <1> QED
    BY <1>2, <1>3, <1>4, <1>5, <1>6 DEF Inv

\* The start resolved: the session is up.
LEMMA UpKeeps ==
    ASSUME Inv, NEW r \in Runs, UNCHANGED applyVars, CoreResolved(r)
    PROVE  Inv'
  <1>1. /\ micro = <<>> /\ pc[r] = "core" /\ startReply[r] = "ok"
    BY DEF CoreResolved, UpIf, At, Macrotask
  <1>2. starting /\ r = lifecycleGeneration
    BY <1>1, Awake DEF Asleep
  <1>3. /\ pc' = [pc EXCEPT ![r] = "record"] /\ started' = TRUE
        /\ UNCHANGED <<lifecycleGeneration, starting, restartRequested, callers, micro,
                       tdPc, tdSilent, waiters, netPc, wants, cuts, nets, startReply,
                       core, coreRun, coreCancelled, latestRequested, pendingPref,
                       saved, cache, rev>>
    BY <1>2 DEF CoreResolved, UpIf, Move, StartVpnFrame, requestVars, storeVars,
           coreVars, teardownVars, inputVars, jobVars
  <1>4. /\ r = lifecycleGeneration /\ lifecycleGeneration \in Runs
        /\ lifecycleGeneration \in Nat
        /\ Here = "core" /\ Here' = "record" /\ tdPc = "idle"
        /\ Single' /\ pc' \in [Runs -> Place]
    BY <1>1, <1>3, Moves DEF Place, Asleep
  <1>5. Typed' /\ Counted'
    BY <1>3, <1>4, MoveTyped DEF Inv, Typed, TypedRuns, TypedWorld
  <1>6. Kernel'
    BY <1>1, <1>3, <1>4 DEF Inv, Kernel, Preparing, Up, Asleep
  <1>7. Wish'
    BY <1>3, <1>4 DEF Inv, Wish
  <1>8. Promise'
    <2>1. UNCHANGED <<aPc, revision, ran>>
      BY DEF applyVars, commandVars
    <2>2. ASSUME NEW d \in Deliveries PROVE Reads(d)' /\ Returned(d)'
      BY <1>1, <1>3, <1>4, <2>1, Lines DEF Inv, Promise, Reads, Returned, Preparing, Up
    <2> QED
      BY <1>3, <2>1, <2>2 DEF Inv, Promise
  <1> QED
    BY <1>4, <1>5, <1>6, <1>7, <1>8 DEF Inv

\* A run goes to sleep on a teardown: to switch, or to roll back.
LEMMA SleepKeeps ==
    ASSUME Inv, NEW r \in Runs, UNCHANGED applyVars, micro = <<>>,
           NEW b \in Asleep, pc' = [pc EXCEPT ![r] = b],
           \/ pc[r] = "decide" /\ b = "switch" /\ latestRequested # None
           \/ pc[r] = "failed" /\ b = "rollback",
           Teardown(TRUE, <<RunToken(r)>>),
           pendingPref' \in {pendingPref, None},
           UNCHANGED <<lifecycleGeneration, starting, restartRequested, callers, micro,
                       netPc, wants, cuts, nets, started, latestRequested, saved,
                       cache, rev>>
    PROVE  Inv'
  <1>1. /\ r = lifecycleGeneration /\ lifecycleGeneration \in Runs
        /\ lifecycleGeneration \in Nat
        /\ Here = pc[r] /\ Here' = b /\ starting /\ tdPc = "idle"
        /\ tdPc' = "stop"
        /\ core' = IF core = "running" THEN "stopping" ELSE core
        /\ coreCancelled' = (coreCancelled \/ core = "starting")
        /\ UNCHANGED <<coreRun, coreConf, startReply>>
        /\ Single' /\ pc' \in [Runs -> Place]
    <2>1. pc[r] \notin {"new", "done"} \cup Asleep
      BY DEF Asleep
    <2> QED
      BY <2>1, Sleeps
  <1>2. Typed' /\ Counted'
    <2>1. core' \in {"stopped", "starting", "running", "stopping"}
      BY <1>1 DEF Inv, Typed, TypedWorld
    <2> QED
      BY <1>1, <2>1, MoveTyped DEF Inv, Typed, TypedRuns, TypedWorld
  <1>3. /\ core' # "running" /\ (core' = "stopped" <=> core = "stopped")
        /\ core' = "starting" => coreCancelled'
    BY <1>1
  <1>4. Kernel'
    BY <1>1, <1>3 DEF Inv, Kernel, Preparing, Up, Asleep
  <1>5. Wish'
    BY <1>1 DEF Inv, Wish, Preparing, Up, Asleep
  <1>6. Promise'
    <2>1. UNCHANGED <<aPc, revision, ran>>
      BY DEF applyVars, commandVars
    <2>2. ASSUME NEW d \in Deliveries PROVE Reads(d)' /\ Returned(d)'
      BY <1>1, <2>1, Lines DEF Inv, Promise, Reads, Returned, Preparing, Up, Asleep
    <2> QED
      BY <2>1, <2>2 DEF Inv, Promise
  <1> QED
    BY <1>1, <1>2, <1>4, <1>5, <1>6 DEF Inv

LEMMA SwitchKeeps ==
    ASSUME Inv, NEW r \in Runs, UNCHANGED applyVars, Decide(r), Wanted # None,
           started /\ (Wanted # currentRunId \/ forceRestart)
    PROVE  Inv'
  <1>1. micro = <<>> /\ pc[r] = "decide" /\ latestRequested # None
    BY DEF Decide, At, Macrotask, Wanted, Inv, Wish
  <1>2. /\ pc' = [pc EXCEPT ![r] = "switch"] /\ Teardown(TRUE, <<RunToken(r)>>)
        /\ UNCHANGED <<lifecycleGeneration, starting, restartRequested, callers, micro,
                       netPc, wants, cuts, nets, started, latestRequested, pendingPref,
                       saved, cache, rev>>
    BY DEF Decide, Move, storeVars, inputVars
  <1> QED
    BY <1>1, <1>2, SleepKeeps DEF Asleep

LEMMA FailedKeeps ==
    ASSUME Inv, NEW r \in Runs, UNCHANGED applyVars, Failed(r)
    PROVE  Inv'
  <1>1. /\ micro = <<>> /\ pc[r] = "failed" /\ pc' = [pc EXCEPT ![r] = "rollback"]
        /\ Teardown(TRUE, <<RunToken(r)>>) /\ pendingPref' = None
        /\ UNCHANGED <<lifecycleGeneration, starting, restartRequested, callers, micro,
                       netPc, wants, cuts, nets, started, latestRequested,
                       saved, cache, rev>>
    BY DEF Failed, FailedUnless, At, Macrotask, Move, fieldVars, storeVars, jobVars,
           inputVars
  <1> QED
    BY <1>1, SleepKeeps DEF Asleep

\* A run ends; what an apply that waited for it finds.
LEMMA EndKeeps ==
    ASSUME MaxCuts = 0, MaxNets = 0, Inv, NEW r \in Runs, UNCHANGED applyVars,
           r = lifecycleGeneration, tdPc = "idle",
           Here \in {"decide", "replay", "clear", "rollback"}, Finally(r, <<>>),
           \A d \in Deliveries : callers[r] = <<ApplyToken(d)>> /\ started =>
               rev[coreRun] >= revision[d],
           pendingPref' \in {pendingPref, None},
           UNCHANGED <<netPc, tdPc, tdSilent, waiters, startReply, wants, cuts, nets,
                       core, coreRun, coreCancelled, started, latestRequested, saved,
                       cache, rev>>
    PROVE  Inv'
  <1>1. /\ micro' = callers[r] /\ micro' \in ApplyLine \cup {<<>>}
        /\ restartRequested' = FALSE /\ starting' \in BOOLEAN
        /\ lifecycleGeneration' \in Runs
        /\ \/ /\ lifecycleGeneration' = lifecycleGeneration + 1
              /\ Here' = "refresh" /\ callers'[lifecycleGeneration'] = <<>>
           \/ lifecycleGeneration' = lifecycleGeneration /\ Here' = "done"
        /\ lifecycleGeneration' + RestartOwed' <= lifecycleGeneration + RestartOwed
        /\ pc' \in [Runs -> Place]
        /\ callers' \in [Runs -> ApplyLine \cup {<<>>}]
        /\ \A q \in Runs : callers'[q] \in {callers[q], <<>>}
        /\ Single'
    BY Ends
  <1>2. UNCHANGED <<aPc, revision, ran, ack>>
    BY DEF applyVars, commandVars
  <1>3. Typed'
    <2>1. TypedRuns'
      BY <1>1 DEF Inv, Typed, TypedRuns
    <2>2. TypedWorld' /\ TypedApplies'
      BY <1>2 DEF Inv, Typed, TypedWorld, TypedApplies
    <2> QED
      BY <2>1, <2>2 DEF Typed
  <1>4. Counted'
    <2>1. /\ wants' + Cardinality(Called') = wants + Cardinality(Called)
          /\ wants \in Nat /\ Cardinality(Called) \in Nat
      BY <1>2, CalledSize, Numbers DEF Called, Inv, Typed, TypedWorld
    <2>2. /\ lifecycleGeneration \in Nat /\ lifecycleGeneration' \in Nat
          /\ RestartOwed \in {0, 1} /\ RestartOwed' \in {0, 1}
      BY <1>1, Numbers DEF RestartOwed
    <2> QED
      BY <1>1, <2>1, <2>2 DEF Inv, Counted
  <1>5. lifecycleGeneration \in Nat /\ lifecycleGeneration + 1 \notin {lifecycleGeneration, 0}
    BY Numbers
  <1>6. Kernel'
    <2>1. /\ coreRun \in Runs => coreRun <= lifecycleGeneration
          /\ coreRun \in Runs \cup {None}
      BY DEF Inv, Kernel, Typed, TypedWorld
    <2>2. Here' = "refresh" =>
              coreRun' # lifecycleGeneration' /\ startReply'[lifecycleGeneration'] = "none"
      <3>1. SUFFICES ASSUME Here' = "refresh"
                     PROVE  /\ coreRun # lifecycleGeneration + 1
                            /\ startReply[lifecycleGeneration + 1] = "none"
                            /\ lifecycleGeneration' = lifecycleGeneration + 1
        BY <1>1
      <3>2. lifecycleGeneration' = lifecycleGeneration + 1
        BY <1>1, <3>1
      <3> QED
        BY <1>1, <1>5, <2>1, <3>2, Numbers DEF Inv, Single
    <2>3. coreRun' \in Runs => coreRun' <= lifecycleGeneration'
      BY <1>1, <1>5, <2>1, Numbers
    <2> QED
      BY <1>1, <2>2, <2>3 DEF Inv, Kernel, Preparing, Up, Asleep
  <1>7. Wish'
    BY <1>1 DEF Inv, Wish, Preparing, Up
  <1>8. Promise'
    <2>1. ASSUME NEW d \in Deliveries PROVE Reads(d)' /\ Returned(d)'
      BY <1>1, <1>2, Lines DEF Reads, Returned
    <2>2. \A q \in Runs, d \in Deliveries : callers'[q] = <<ApplyToken(d)>> => aPc'[d] # "new"
      BY <1>1, <1>2, Lines DEF Inv, Promise
    <2> QED
      BY <2>1, <2>2 DEF Promise
  <1> QED
    BY <1>1, <1>3, <1>4, <1>6, <1>7, <1>8 DEF Inv

\* The run that resumes is the last one.
LEMMA Resumes ==
    ASSUME Inv, NEW r \in Runs, micro # <<>>, Head(micro) = RunToken(r)
    PROVE  /\ micro = <<RunToken(r)>>
           /\ r = lifecycleGeneration /\ tdPc = "idle" /\ Here = pc[r]
           /\ Here \in Asleep
  <1>1. micro = <<RunToken(r)>>
    BY Lines DEF Inv, Typed, TypedRuns, RunLine, ApplyLine
  <1>2. r = lifecycleGeneration /\ tdPc = "idle" /\ Here \in Asleep
    BY <1>1 DEF Inv, Single
  <1> QED
    BY <1>1, <1>2, Numbers DEF Here

\* Where a run ends.
LEMMA EndsWhere ==
    ASSUME Inv, NEW r \in Runs,
           \/ Decide(r) /\ Wanted = None
           \/ Clear(r)
           \/ ResumeRun(r) /\ pc[r] = "rollback"
    PROVE  /\ r = lifecycleGeneration /\ tdPc = "idle" /\ Here = pc[r]
           /\ Finally(r, <<>>)
           /\ Here \in {"decide", "replay", "clear", "rollback"}
  <1>1. CASE Decide(r) /\ Wanted = None
    <2>1. micro = <<>> /\ pc[r] = "decide" /\ Finally(r, micro)
      BY <1>1 DEF Decide, At, Macrotask
    <2> QED
      BY <2>1, Awake DEF Asleep
  <1>2. CASE Clear(r)
    <2>1. micro = <<>> /\ pc[r] \in {"replay", "clear"} /\ Finally(r, micro)
      BY <1>2 DEF Clear, Macrotask
    <2> QED
      BY <2>1, Awake DEF Asleep
  <1>3. CASE ResumeRun(r) /\ pc[r] = "rollback"
    <2>1. micro # <<>> /\ Head(micro) = RunToken(r) /\ Finally(r, Tail(micro))
      BY <1>3 DEF ResumeRun
    <2>2. /\ micro = <<RunToken(r)>> /\ r = lifecycleGeneration /\ tdPc = "idle"
          /\ Here = pc[r]
      BY <2>1, Resumes
    <2> QED
      BY <1>3, <2>1, <2>2, Lines
  <1> QED
    BY <1>1, <1>2, <1>3

LEMMA EndSteps ==
    ASSUME MaxCuts = 0, MaxNets = 0, Inv, NEW r \in Runs, UNCHANGED applyVars,
           \/ Decide(r) /\ Wanted = None
           \/ Clear(r)
           \/ ResumeRun(r) /\ pc[r] = "rollback"
    PROVE  Inv'
  <1>1. /\ r = lifecycleGeneration /\ tdPc = "idle" /\ Here = pc[r]
        /\ Finally(r, <<>>)
        /\ Here \in {"decide", "replay", "clear", "rollback"}
    BY EndsWhere
  <1>2. /\ pendingPref' \in {pendingPref, None}
        /\ UNCHANGED <<netPc, tdPc, tdSilent, waiters, startReply, wants, cuts, nets,
                       core, coreRun, coreCancelled, started, latestRequested, saved,
                       cache, rev>>
    <2>1. CASE Decide(r) /\ Wanted = None
      BY <2>1 DEF Decide, storeVars, coreVars, teardownVars, inputVars
    <2>2. CASE Clear(r)
      BY <2>2 DEF Clear, storeVars, coreVars, teardownVars, inputVars, jobVars
    <2>3. CASE ResumeRun(r) /\ pc[r] = "rollback"
      BY <2>3 DEF ResumeRun, requestVars, storeVars, coreVars, teardownVars, inputVars,
             jobVars
    <2> QED
      BY <2>1, <2>2, <2>3
  <1>3. ASSUME NEW d \in Deliveries, callers[r] = <<ApplyToken(d)>>, started
        PROVE  rev[coreRun] >= revision[d]
    <2>1. Reads(d) /\ Here # "done"
      BY <1>1 DEF Inv, Promise
    <2>2. CASE Here = "decide"
      <3>1. Wanted = None
        BY <1>1, <2>2 DEF Clear, ResumeRun
      <3> QED
        BY <1>3, <3>1 DEF Wanted, Inv, Wish
    <2>3. CASE Here = "replay"
      BY <1>1, <1>3, <2>1, <2>3 DEF Reads
    <2>4. CASE Here = "clear"
      BY <1>1, <1>3, <2>1, <2>4 DEF Reads, Inv, Kernel, Up
    <2>5. CASE Here = "rollback"
      BY <1>1, <1>3, <2>5 DEF Inv, Kernel, Asleep
    <2> QED
      BY <1>1, <2>2, <2>3, <2>4, <2>5
  <1> QED
    BY <1>1, <1>2, <1>3, EndKeeps

\* The run that switched goes on.
LEMMA ResumeKeeps ==
    ASSUME Inv, NEW r \in Runs, UNCHANGED applyVars, ResumeRun(r), pc[r] = "switch"
    PROVE  Inv'
  <1>1. /\ micro # <<>> /\ Head(micro) = RunToken(r) /\ micro' = Tail(micro)
        /\ pc' = [pc EXCEPT ![r] = "load"] /\ starting' = TRUE
        /\ UNCHANGED <<lifecycleGeneration, restartRequested, callers, tdPc, tdSilent,
                       waiters, netPc, wants, cuts, nets, startReply, core, coreRun,
                       coreCancelled, started, latestRequested, pendingPref, saved,
                       cache, rev>>
    BY DEF ResumeRun, Move, requestVars, storeVars, coreVars, teardownVars, inputVars,
           jobVars
  <1>2. micro = <<RunToken(r)>> /\ micro' = <<>>
    BY <1>1, Resumes, Lines
  <1>3. /\ r = lifecycleGeneration /\ tdPc = "idle" /\ Here = "switch"
        /\ lifecycleGeneration \in Runs /\ lifecycleGeneration \in Nat
        /\ pc \in [Runs -> Place]
    BY <1>1, Resumes, Numbers DEF Inv, Typed, TypedRuns
  <1>4. /\ pc' \in [Runs -> Place] /\ pc'[r] = "load"
        /\ \A q \in Runs : q # r => pc'[q] = pc[q]
    BY <1>1, <1>3 DEF Place
  <1>5. Here' = "load"
    BY <1>1, <1>3, <1>4, Numbers DEF Here
  <1>6. Single'
    <2>1. \A q \in Runs :
              /\ q < lifecycleGeneration => pc'[q] = "done"
              /\ q > lifecycleGeneration => pc'[q] = "new" /\ startReply'[q] = "none"
      BY <1>1, <1>3, <1>4, Numbers DEF Inv, Single
    <2>2. \A q \in Runs : micro' # <<RunToken(q)>>
      BY <1>2, Lines
    <2> QED
      BY <1>1, <1>3, <1>5, <2>1, <2>2 DEF Inv, Single, Asleep
  <1>7. Typed' /\ Counted'
    BY <1>1, <1>2, <1>4, MoveTyped DEF Inv, Typed, TypedRuns, TypedWorld
  <1>8. Kernel'
    BY <1>1, <1>3, <1>5 DEF Inv, Kernel, Preparing, Up, Asleep
  <1>9. Wish'
    BY <1>1, <1>3, <1>5 DEF Inv, Wish
  <1>10. Promise'
    <2>1. UNCHANGED <<aPc, revision, ran>>
      BY DEF applyVars, commandVars
    <2>2. ASSUME NEW d \in Deliveries PROVE Reads(d)' /\ Returned(d)'
      BY <1>1, <1>2, <1>3, <1>5, <2>1, Lines DEF Inv, Promise, Reads, Returned
    <2> QED
      BY <1>1, <2>1, <2>2 DEF Inv, Promise
  <1> QED
    BY <1>6, <1>7, <1>8, <1>9, <1>10 DEF Inv

(***************************************************************************)
(* The steps of the teardown and of the kernel.                            *)
(***************************************************************************)

\* What does not move a run.
LEMMA HereStays ==
    ASSUME UNCHANGED <<pc, lifecycleGeneration>>
    PROVE  Here' = Here
  BY DEF Here

LEMMA TeardownKeeps ==
    ASSUME Inv, UNCHANGED applyVars, TdStopped \/ TdDestroyed
    PROVE  Inv'
  <1>1. /\ micro = <<>> /\ tdPc # "idle" /\ tdPc' \in {"destroy", "persist"}
        /\ UNCHANGED <<lifecycleGeneration, starting, restartRequested, callers, micro,
                       pc, tdSilent, waiters, netPc, wants, cuts, nets, startReply,
                       core, coreRun, coreCancelled, started, latestRequested,
                       pendingPref, forceRestart, saved, cache, rev>>
    <2>1. CASE TdStopped
      BY <2>1 DEF TdStopped, Unpin, Macrotask, requestVars, storeVars, coreVars, runVars,
             inputVars
    <2>2. CASE TdDestroyed
      BY <2>2 DEF TdDestroyed, Macrotask, requestVars, storeVars, coreVars, runVars,
             inputVars, jobVars
    <2> QED
      BY <2>1, <2>2
  <1>2. Here' = Here
    BY <1>1, HereStays
  <1>3. Single'
    BY <1>1, <1>2 DEF Inv, Single
  <1>4. Typed' /\ Counted'
    BY <1>1, MoveTyped DEF Inv, Typed, TypedRuns, TypedWorld
  <1>5. Kernel' /\ Wish'
    BY <1>1, <1>2 DEF Inv, Kernel, Wish
  <1>6. Promise'
    <2>1. UNCHANGED <<aPc, revision, ran>>
      BY DEF applyVars, commandVars
    <2>2. ASSUME NEW d \in Deliveries PROVE Reads(d)' /\ Returned(d)'
      BY <1>1, <1>2, <2>1, Lines DEF Inv, Promise, Reads, Returned
    <2> QED
      BY <1>1, <2>1, <2>2 DEF Inv, Promise
  <1> QED
    BY <1>3, <1>4, <1>5, <1>6 DEF Inv

\* The teardown is over; its run resumes next.
LEMMA DownKeeps ==
    ASSUME Inv, UNCHANGED applyVars, TdPersisted
    PROVE  Inv'
  <1>1. /\ micro = <<>> /\ tdPc = "persist" /\ tdPc' = "idle"
        /\ started' = FALSE /\ starting' = FALSE /\ micro' = waiters
        /\ UNCHANGED <<lifecycleGeneration, restartRequested, callers, pc, netPc, wants,
                       cuts, nets, startReply, core, coreRun, coreCancelled,
                       latestRequested, pendingPref, forceRestart, saved, cache, rev>>
    BY DEF TdPersisted, Down, Macrotask, requestVars, storeVars, coreVars, runVars,
           inputVars
  <1>2. Here' = Here
    BY <1>1, HereStays
  <1>3. /\ Here \in Asleep /\ micro' = <<RunToken(lifecycleGeneration)>>
        /\ lifecycleGeneration \in Runs
    <2>1. Here \in Asleep /\ waiters = <<RunToken(lifecycleGeneration)>>
      BY <1>1 DEF Inv, Single
    <2>2. lifecycleGeneration \in Runs
      BY <2>1 DEF Here, Asleep, Inv, Typed, TypedRuns
    <2> QED
      BY <1>1, <2>1, <2>2
  <1>4. Single'
    BY <1>1, <1>2, <1>3, Lines DEF Inv, Single, Asleep
  <1>5. Typed' /\ Counted'
    <2>1. micro' \in RunLine
      BY <1>3 DEF RunLine
    <2> QED
      BY <1>1, <2>1, MoveTyped DEF Inv, Typed, TypedRuns, TypedWorld
  <1>6. Kernel' /\ Wish'
    <2>1. core # "running"
      BY <1>1 DEF Inv, Kernel
    <2>2. Kernel'
      BY <1>1, <1>2, <1>3, <2>1 DEF Inv, Kernel, Asleep, Up
    <2>3. Wish'
      BY <1>1, <1>2 DEF Inv, Wish
    <2> QED
      BY <2>2, <2>3
  <1>7. Promise'
    <2>1. UNCHANGED <<aPc, revision, ran>>
      BY DEF applyVars, commandVars
    <2>2. ASSUME NEW d \in Deliveries PROVE Reads(d)' /\ Returned(d)'
      BY <1>1, <1>2, <1>3, <2>1, Lines DEF Inv, Promise, Reads, Returned
    <2> QED
      BY <1>1, <2>1, <2>2 DEF Inv, Promise
  <1> QED
    BY <1>4, <1>5, <1>6, <1>7 DEF Inv

LEMMA CoreKeeps ==
    ASSUME Inv, UNCHANGED applyVars, CoreStep
    PROVE  Inv'
  <1>1. /\ UNCHANGED <<lifecycleGeneration, starting, restartRequested, callers, micro,
                       pc, tdPc, tdSilent, waiters, netPc, wants, cuts, nets, coreRun,
                       coreCancelled, started, latestRequested, pendingPref,
                       forceRestart, saved, cache, rev>>
        /\ \/ /\ core = "starting" /\ ~coreCancelled /\ core' = "running"
              /\ startReply' = [startReply EXCEPT ![coreRun] = "ok"]
           \/ /\ core = "starting" /\ core' = "stopped"
              /\ startReply' = [startReply EXCEPT ![coreRun] = "err"]
           \/ core = "stopping" /\ core' = "stopped" /\ startReply' = startReply
    BY DEF CoreStep, CoreUp, CoreNotUp, CoreDown, CoreFrame, fieldVars, requestVars,
           storeVars, runVars, inputVars, jobVars
  <1>2. Here' = Here
    BY <1>1, HereStays
  <1>3. /\ startReply \in [Runs -> {"none", "ok", "err"}] /\ coreRun \in Runs
        /\ coreRun <= lifecycleGeneration
        /\ coreRun \in Nat /\ lifecycleGeneration \in Nat
    BY <1>1, Numbers DEF Inv, Typed, TypedRuns, Kernel
  <1>4. /\ startReply' \in [Runs -> {"none", "ok", "err"}]
        /\ \A q \in Runs : q # coreRun => startReply'[q] = startReply[q]
        /\ core = "starting" => startReply'[coreRun] = IF core' = "running" THEN "ok" ELSE "err"
        /\ core = "stopping" => startReply'[coreRun] = startReply[coreRun]
    BY <1>1, <1>3
  <1>5. Single'
    <2>1. \A q \in Runs :
              /\ q < lifecycleGeneration => pc'[q] = "done"
              /\ q > lifecycleGeneration => pc'[q] = "new" /\ startReply'[q] = "none"
      BY <1>1, <1>3, <1>4, Numbers DEF Inv, Single
    <2> QED
      BY <1>1, <1>2, <2>1 DEF Inv, Single
  <1>6. Typed' /\ Counted'
    BY <1>1, <1>4, MoveTyped DEF Inv, Typed, TypedRuns, TypedWorld
  <1>7. Kernel'
    <2>1. Here # "done" => lifecycleGeneration \in Runs
      BY DEF Here, Inv, Typed, TypedRuns
    <2>2. Here \in {"refresh", "decide", "replay", "switch"} \cup Preparing =>
              startReply'[lifecycleGeneration] = "none"
      BY <1>4, <2>1 DEF Inv, Kernel, Preparing
    <2>3. core = "starting" /\ ~coreCancelled => tdPc = "idle" /\ Here \in {"core", "failed"}
      BY DEF Inv, Kernel, Single, Asleep
    <2>4. Here = "core" => core = "starting"
      BY <1>1 DEF Inv, Kernel
    <2> QED
      BY <1>1, <1>2, <1>3, <1>4, <2>2, <2>3, <2>4 DEF Inv, Kernel, Preparing, Up
  <1>8. Wish'
    BY <1>1, <1>2 DEF Inv, Wish
  <1>9. Promise'
    <2>1. UNCHANGED <<aPc, revision, ran>>
      BY DEF applyVars, commandVars
    <2>2. ASSUME NEW d \in Deliveries PROVE Reads(d)' /\ Returned(d)'
      BY <1>1, <1>2, <2>1 DEF Inv, Promise, Reads, Returned
    <2> QED
      BY <1>1, <2>1, <2>2 DEF Inv, Promise
  <1> QED
    BY <1>5, <1>6, <1>7, <1>8, <1>9 DEF Inv

(***************************************************************************)
(* Wants and apply commands.                                               *)
(***************************************************************************)

LEMMA EnterKeeps ==
    ASSUME MaxCuts = 0, MaxNets = 0, Inv, micro = <<>>,
           wants < MaxWants \/ \E d \in Deliveries : aPc[d] = "check",
           NEW tokens \in ApplyLine \cup {<<>>}, Enter(pc, tokens),
           micro' \in ApplyLine \cup {<<>>},
           UNCHANGED <<netPc, tdPc, tdSilent, waiters, startReply, core, coreRun,
                       coreCancelled, started, cache, rev, revision>>,
           latestRequested # None => latestRequested' # None,
           pendingPref' # None => latestRequested' # None,
           forceRestart => forceRestart',
           \A d \in Deliveries : aPc[d] # "new" => aPc'[d] # "new",
           \A d \in Deliveries : tokens = <<ApplyToken(d)>> =>
               forceRestart' /\ cache >= revision[d] /\ aPc'[d] # "new",
           \A d \in Deliveries : micro' = <<ApplyToken(d)>> => ~ran'[d]
    PROVE  Single' /\ Kernel' /\ Wish' /\ Promise'
  <1>1. /\ lifecycleGeneration' \in Runs \cup {0}
        /\ \/ /\ ~starting /\ Here = "done" /\ tdPc = "idle"
              /\ lifecycleGeneration' = lifecycleGeneration + 1
              /\ lifecycleGeneration' \in Runs
              /\ Here' = "refresh" /\ callers'[lifecycleGeneration'] = tokens
              /\ \A q \in Runs : q # lifecycleGeneration' => callers'[q] = callers[q]
           \/ /\ starting /\ callers' = callers
              /\ lifecycleGeneration' = lifecycleGeneration /\ Here' = Here
        /\ Single'
    BY Enters
  <1>2. Kernel'
    <2>1. /\ coreRun \in Runs => coreRun <= lifecycleGeneration
          /\ coreRun \in Runs \cup {None}
          /\ lifecycleGeneration \in Nat
      BY Numbers DEF Inv, Kernel, Typed, TypedWorld, TypedRuns
    <2>2. CASE starting
      <3>1. UNCHANGED <<lifecycleGeneration, core, coreRun, coreCancelled, started, tdPc,
                        startReply>> /\ Here' = Here
        BY <1>1, <2>2
      <3> QED
        BY <3>1 DEF Inv, Kernel
    <2>3. CASE ~starting
      <3>1. /\ Here = "done" /\ Here' = "refresh"
            /\ lifecycleGeneration' = lifecycleGeneration + 1 /\ lifecycleGeneration' \in Runs
        BY <1>1, <2>3
      <3>2. coreRun # lifecycleGeneration' /\ startReply[lifecycleGeneration'] = "none"
        BY <2>1, <3>1, Numbers DEF Inv, Single
      <3>3. coreRun \in Runs => coreRun <= lifecycleGeneration'
        BY <2>1, <3>1, Numbers
      <3> QED
        BY <3>1, <3>2, <3>3 DEF Inv, Kernel, Preparing, Up, Asleep
    <2> QED
      BY <2>2, <2>3
  <1>3. Wish'
    BY <1>1 DEF Inv, Wish, Preparing, Up
  <1>4. Promise'
    <2>1. ASSUME NEW d \in Deliveries PROVE Reads(d)'
      <3>1. CASE starting
        <4>1. Reads(d)
          BY DEF Inv, Promise
        <4>2. UNCHANGED <<lifecycleGeneration, callers, cache, rev, revision>> /\ Here' = Here
          BY <1>1, <3>1
        <4> QED
          BY <4>1, <4>2 DEF Reads
      <3>2. CASE ~starting
        BY <1>1, <3>2 DEF Reads, Preparing, Up
      <3> QED
        BY <3>1, <3>2
    <2>2. ASSUME NEW d \in Deliveries PROVE Returned(d)'
      BY DEF Returned
    <2>3. ASSUME NEW q \in Runs, NEW d \in Deliveries, callers'[q] = <<ApplyToken(d)>>
          PROVE  aPc'[d] # "new"
      <3>1. callers'[q] = callers[q] \/ callers'[q] = tokens
        BY <1>1
      <3> QED
        BY <2>3, <3>1 DEF Inv, Promise
    <2> QED
      BY <2>1, <2>2, <2>3 DEF Promise
  <1> QED
    BY <1>1, <1>2, <1>3, <1>4

LEMMA WantKeeps ==
    ASSUME MaxCuts = 0, MaxNets = 0, Inv, UNCHANGED applyVars,
           NEW p, NEW force, Want(p, force)
    PROVE  Inv'
  <1>1. /\ micro = <<>> /\ wants < MaxWants /\ wants' = wants + 1
        /\ Enter(pc, <<>>)
        /\ UNCHANGED <<started, saved, cache, core, coreRun, coreCancelled, startReply,
                       tdPc, tdSilent, waiters, rev, netPc, micro, cuts, nets>>
    BY DEF Want, Macrotask, storeVars, coreVars, teardownVars, jobVars
  <1>2. /\ latestRequested # None => latestRequested' # None
        /\ pendingPref' # None => latestRequested' # None
    BY DEF Want, Inv, Wish
  <1>3. forceRestart => forceRestart'
    BY Zenon DEF Want
  <1>4. UNCHANGED <<aPc, revision, ran, ack>>
    BY DEF applyVars, commandVars
  <1>5. Single' /\ Kernel' /\ Wish' /\ Promise'
    <2>1. \A d \in Deliveries : <<>> # <<ApplyToken(d)>>
      BY Lines
    <2> QED
      BY <1>1, <1>2, <1>3, <1>4, <2>1, EnterKeeps
  <1>6. /\ restartRequested' \in BOOLEAN /\ starting' \in BOOLEAN
        /\ lifecycleGeneration' \in Runs \cup {0}
        /\ lifecycleGeneration' + RestartOwed' <= lifecycleGeneration + RestartOwed + 1
        /\ pc' \in [Runs -> Place]
        /\ callers' \in [Runs -> ApplyLine \cup {<<>>}]
    BY <1>1, Enters
  <1>7. Typed'
    <2>1. wants' \in 0..MaxWants
      BY <1>1, Numbers DEF Inv, Typed, TypedWorld
    <2>2. TypedRuns'
      BY <1>1, <1>6 DEF Inv, Typed, TypedRuns
    <2>3. TypedWorld' /\ TypedApplies'
      BY <1>1, <1>4, <2>1 DEF Inv, Typed, TypedWorld, TypedApplies
    <2> QED
      BY <2>2, <2>3 DEF Typed
  <1>8. Counted'
    <2>1. Called' = Called /\ Cardinality(Called) \in Nat /\ wants \in Nat
      BY <1>4, CalledSize, Numbers DEF Called, Inv, Typed, TypedWorld
    <2>2. /\ lifecycleGeneration \in Nat /\ lifecycleGeneration' \in Nat
          /\ RestartOwed \in {0, 1} /\ RestartOwed' \in {0, 1}
      BY <1>6, Numbers DEF RestartOwed, Inv, Typed, TypedRuns
    <2>3. lifecycleGeneration + RestartOwed <= wants + Cardinality(Called)
      BY DEF Inv, Counted
    <2>4. lifecycleGeneration' + RestartOwed' <= lifecycleGeneration + RestartOwed + 1
      BY <1>6
    <2>5. lifecycleGeneration' + RestartOwed' <= wants' + Cardinality(Called')
      <3>1. Cardinality(Called') = Cardinality(Called)
        BY <2>1
      <3>2. wants' = wants + 1 /\ wants \in Nat /\ Cardinality(Called) \in Nat
        BY <1>1, <2>1
      <3> QED
        <4>1. wants + Cardinality(Called) \in Nat
          BY <3>2
        <4>2. lifecycleGeneration' + RestartOwed' <= (wants + Cardinality(Called)) + 1
          BY <2>2, <2>3, <2>4, <4>1, OneMore
        <4>3. wants' + Cardinality(Called') = (wants + Cardinality(Called)) + 1
          BY <3>1, <3>2
        <4> QED
          BY <4>2, <4>3
    <2> QED
      BY <2>5 DEF Counted
  <1> QED
    BY <1>5, <1>7, <1>8 DEF Inv

LEMMA SaveKeeps ==
    ASSUME Inv, UNCHANGED applyVars, Save
    PROVE  Inv'
  <1>1. /\ saved' = saved + 1
        /\ UNCHANGED <<lifecycleGeneration, starting, restartRequested, callers, micro,
                       pc, tdPc, tdSilent, waiters, netPc, wants, cuts, nets, startReply,
                       core, coreRun, coreCancelled, started, latestRequested,
                       pendingPref, forceRestart, cache, rev>>
    BY DEF Save, fieldVars, requestVars, coreVars, teardownVars, runVars, jobVars,
           inputVars
  <1>2. Here' = Here
    BY <1>1, HereStays
  <1>3. Typed' /\ Counted'
    BY <1>1, MoveTyped DEF Inv, Typed, TypedRuns, TypedWorld
  <1>4. Single' /\ Kernel' /\ Wish'
    BY <1>1, <1>2 DEF Inv, Single, Kernel, Wish
  <1>5. Promise'
    <2>1. UNCHANGED <<aPc, revision, ran>>
      BY DEF applyVars, commandVars
    <2> QED
      BY <1>1, <1>2, <2>1 DEF Inv, Promise, Reads, Returned
  <1> QED
    BY <1>3, <1>4, <1>5 DEF Inv

\* A step of a handler that leaves the runs alone.
LEMMA HandlerKeeps ==
    ASSUME Inv, NEW d \in Deliveries,
           NEW place \in {"refresh", "check", "done"}, aPc' = [aPc EXCEPT ![d] = place],
           aPc[d] \in {"restart", "done"} => place = "done",
           UNCHANGED <<lifecycleGeneration, starting, restartRequested, callers,
                       pc, tdPc, tdSilent, waiters, netPc, wants, cuts, nets,
                       startReply, core, coreRun, coreCancelled, started,
                       latestRequested, pendingPref, forceRestart, saved, rev, ran>>,
           cache' = cache \/ cache' = saved,
           micro' = micro \/ micro' = <<>>,
           micro' = <<>> => micro \notin RunLine,
           TypedApplies',
           \/ revision' = revision
           \/ aPc[d] = "new" /\ \E n : revision' = [revision EXCEPT ![d] = n],
           aPc[d] = "new" => micro' = <<>>
    PROVE  Inv'
  <1>1. Here' = Here
    BY HereStays
  <1>2. /\ cache \in Nat /\ saved \in Nat /\ cache <= saved
        /\ aPc \in [Deliveries -> {"new", "refresh", "check", "restart", "done"}]
        /\ revision \in [Deliveries -> Nat]
        /\ micro \in RunLine \cup ApplyLine \cup {<<>>}
    BY DEF Inv, Typed, TypedWorld, TypedApplies, TypedRuns
  <1>3. cache' \in Nat /\ cache <= cache' /\ cache' <= saved
    BY <1>2
  <1>4. Typed'
    <2>1. TypedRuns'
      BY <1>2 DEF Inv, Typed, TypedRuns
    <2>2. TypedWorld'
      BY <1>3 DEF Inv, Typed, TypedWorld
    <2> QED
      BY <2>1, <2>2 DEF Typed
  <1>5. Counted'
    <2>1. /\ Cardinality(Called) <= Cardinality(Called')
          /\ Cardinality(Called) \in Nat /\ Cardinality(Called') \in Nat
      BY <1>4, CalledGrows DEF Inv
    <2>2. wants \in Nat /\ lifecycleGeneration \in Nat
      BY Numbers DEF Inv, Typed, TypedWorld, TypedRuns
    <2>3. RestartOwed' = RestartOwed /\ RestartOwed \in {0, 1}
      BY DEF RestartOwed
    <2>4. lifecycleGeneration + RestartOwed <= wants + Cardinality(Called)
      BY DEF Inv, Counted
    <2> QED
      BY <2>1, <2>2, <2>3, <2>4 DEF Counted
  <1>6. Single'
    <2>1. \A q \in Runs : micro' = <<RunToken(q)>> => micro = <<RunToken(q)>>
      BY Lines
    <2>2. \A q \in Runs : micro = <<RunToken(q)>> => micro' = micro
      BY DEF RunLine
    <2>3. Here # "done" => lifecycleGeneration \in Runs
      BY DEF Here, Inv, Typed, TypedRuns
    <2> QED
      BY <1>1, <2>1, <2>2, <2>3 DEF Inv, Single, Asleep
  <1>7. Kernel' /\ Wish'
    BY <1>1 DEF Inv, Kernel, Wish
  <1>8. Promise'
    <2>1. \A e \in Deliveries : aPc[e] # "new" => aPc'[e] # "new" /\ revision'[e] = revision[e]
      BY <1>2
    <2>2. \A q \in Runs, e \in Deliveries : callers[q] = <<ApplyToken(e)>> => aPc[e] # "new"
      BY DEF Inv, Promise
    <2>3. ASSUME NEW e \in Deliveries PROVE Reads(e)'
      <3>1. SUFFICES ASSUME Here # "done", callers[lifecycleGeneration] = <<ApplyToken(e)>>
                     PROVE  Reads(e)'
        BY <1>1 DEF Reads
      <3>2. lifecycleGeneration \in Runs
        BY <3>1 DEF Here, Inv, Typed, TypedRuns
      <3>3. revision'[e] = revision[e] /\ revision[e] \in Nat
        BY <1>2, <2>1, <2>2, <3>1, <3>2
      <3>4. Reads(e)
        BY DEF Inv, Promise
      <3>5. cache >= revision[e] => cache' >= revision[e]
        BY <1>2, <1>3, <3>3
      <3> QED
        BY <1>1, <3>1, <3>3, <3>4, <3>5 DEF Reads
    <2>4. ASSUME NEW e \in Deliveries PROVE Returned(e)'
      <3>1. SUFFICES ASSUME micro' = <<ApplyToken(e)>> PROVE Returned(e)'
        BY DEF Returned
      <3>2. micro' = micro /\ revision' = revision
        BY <3>1, Lines
      <3> QED
        BY <3>2 DEF Inv, Promise, Returned
    <2> QED
      BY <2>1, <2>2, <2>3, <2>4 DEF Promise
  <1> QED
    BY <1>4, <1>5, <1>6, <1>7, <1>8 DEF Inv

\* A command arrives.
LEMMA DeliverKeeps ==
    ASSUME Inv, NEW d \in Deliveries, Deliver(d)
    PROVE  Inv'
  <1>1. /\ micro = <<>> /\ aPc[d] = "new"
        /\ \E o, n : /\ n \in Nat /\ Handle(d, o, n)
    <2>1. saved \in Nat /\ revision \in [Deliveries -> Nat]
      BY DEF Inv, Typed, TypedWorld, TypedApplies
    <2>2. \A e \in 1..(d - 1) : e \in Deliveries
      BY Numbers DEF Deliveries
    <2>3. \A n \in 1..saved : n \in Nat
      BY <2>1
    <2> QED
      BY <2>1, <2>2, <2>3 DEF Deliver, Macrotask
  <1>2. PICK o, n : n \in Nat /\ Handle(d, o, n)
    BY <1>1
  <1>3. /\ revision' = [revision EXCEPT ![d] = n] /\ UNCHANGED <<vars, ran, memoryVars>>
        /\ \/ \E answer \in {"replayed", "ignored", "refused"} :
                  ack' = [ack EXCEPT ![d] = answer] /\ aPc' = [aPc EXCEPT ![d] = "done"]
           \/ ack' = ack /\ aPc' = [aPc EXCEPT ![d] = "refresh"]
    BY <1>2 DEF Handle, Answer
  <1>4. UNCHANGED <<lifecycleGeneration, starting, restartRequested, callers, micro,
                    pc, tdPc, tdSilent, waiters, netPc, wants, cuts, nets,
                    startReply, core, coreRun, coreCancelled, started,
                    latestRequested, pendingPref, forceRestart, saved, cache, rev, ran>>
    BY <1>3 DEF vars, fieldVars, requestVars, storeVars, coreVars, teardownVars, runVars,
                jobVars, inputVars
  <1>5. \E place \in {"refresh", "check", "done"} : aPc' = [aPc EXCEPT ![d] = place]
    BY <1>3
  <1>6. TypedApplies'
    <2>1. ran' = ran
      BY <1>3
    <2> QED
      BY <1>2, <1>3, <2>1 DEF Inv, Typed, TypedApplies
  <1> QED
    BY <1>1, <1>3, <1>4, <1>5, <1>6, HandlerKeeps, LineKinds

LEMMA RefreshKeeps ==
    ASSUME Inv, NEW d \in Deliveries, ApplyRefresh(d)
    PROVE  Inv'
  <1>1. /\ micro = <<>> /\ aPc[d] = "refresh" /\ cache' = saved
        /\ UNCHANGED <<saved, fieldVars, requestVars, platformVars, coreVars,
                       teardownVars, runVars, jobVars, netPc, micro, status,
                       inputVars, commandVars, ran, memoryVars>>
        /\ \/ ack' = ack /\ aPc' = [aPc EXCEPT ![d] = "check"]
           \/ /\ ack' = [ack EXCEPT ![d] = "refused"]
              /\ aPc' = [aPc EXCEPT ![d] = "done"]
    BY DEF ApplyRefresh, Answer, Macrotask
  <1>2. UNCHANGED <<lifecycleGeneration, starting, restartRequested, callers, micro,
                    pc, tdPc, tdSilent, waiters, netPc, wants, cuts, nets,
                    startReply, core, coreRun, coreCancelled, started,
                    latestRequested, pendingPref, forceRestart, saved, rev, ran, revision>>
    BY <1>1 DEF fieldVars, requestVars, coreVars, teardownVars, runVars, jobVars,
                inputVars, commandVars
  <1>3. \E place \in {"refresh", "check", "done"} : aPc' = [aPc EXCEPT ![d] = place]
    BY <1>1
  <1>4. TypedApplies'
    BY <1>1, <1>2 DEF Inv, Typed, TypedApplies
  <1> QED
    BY <1>1, <1>2, <1>3, <1>4, HandlerKeeps, LineKinds

\* The acknowledgement.
LEMMA AcknowledgeKeeps ==
    ASSUME Inv, NEW d \in Deliveries, ResumeApply(d)
    PROVE  Inv'
  <1>1. /\ micro # <<>> /\ Head(micro) = ApplyToken(d) /\ micro' = Tail(micro)
        /\ aPc' = [aPc EXCEPT ![d] = "done"]
        /\ \E answer \in {"ok", "failed"} : ack' = [ack EXCEPT ![d] = answer]
        /\ UNCHANGED <<fieldVars, requestVars, storeVars, platformVars, coreVars,
                       teardownVars, runVars, jobVars, netPc, status, inputVars,
                       commandVars, ran>>
    BY DEF ResumeApply, Acknowledge, Answer
  <1>2. micro = <<ApplyToken(d)>> /\ micro' = <<>> /\ micro \notin RunLine
    <2>1. micro = <<ApplyToken(d)>>
      <3>1. micro # <<>> /\ Head(micro) = ApplyToken(d)
        BY <1>1
      <3> QED
        BY <3>1, Lines DEF Inv, Typed, TypedRuns, RunLine, ApplyLine
    <2>2. micro' = <<>>
      BY <1>1, <2>1, Lines
    <2>3. micro \notin RunLine
      BY <2>1, LineKinds
    <2> QED
      BY <2>1, <2>2, <2>3
  <1>3. UNCHANGED <<lifecycleGeneration, starting, restartRequested, callers,
                    pc, tdPc, tdSilent, waiters, netPc, wants, cuts, nets,
                    startReply, core, coreRun, coreCancelled, started,
                    latestRequested, pendingPref, forceRestart, saved, cache, rev, ran,
                    revision>>
    BY <1>1 DEF fieldVars, requestVars, storeVars, coreVars, teardownVars, runVars,
                jobVars, inputVars, commandVars
  <1>4. TypedApplies'
    BY <1>1, <1>3 DEF Inv, Typed, TypedApplies
  <1>5. \E place \in {"refresh", "check", "done"} :
            place = "done" /\ aPc' = [aPc EXCEPT ![d] = place]
    BY <1>1
  <1> QED
    BY <1>2, <1>3, <1>4, <1>5, HandlerKeeps

\* The settings differ, and the apply is refused; or the restart is forced.
LEMMA CheckKeeps ==
    ASSUME MaxCuts = 0, MaxNets = 0, Inv, NEW d \in Deliveries, ApplyCheck(d)
    PROVE  Inv'
  <1>1. micro = <<>> /\ aPc[d] = "check" /\ UNCHANGED commandVars
    BY DEF ApplyCheck, Macrotask
  <1>2. CASE SettingsMismatch(d)
    <2>1. /\ ack' = [ack EXCEPT ![d] = "refused"] /\ aPc' = [aPc EXCEPT ![d] = "done"]
          /\ UNCHANGED <<vars, ran>>
      BY <1>2 DEF ApplyCheck, Answer
    <2>2. UNCHANGED <<lifecycleGeneration, starting, restartRequested, callers, micro,
                      pc, tdPc, tdSilent, waiters, netPc, wants, cuts, nets,
                      startReply, core, coreRun, coreCancelled, started,
                      latestRequested, pendingPref, forceRestart, saved, cache, rev, ran>>
      BY <2>1 DEF vars, fieldVars, requestVars, storeVars, coreVars, teardownVars, runVars,
                  jobVars, inputVars
    <2>3. revision' = revision
      BY <1>1 DEF commandVars
    <2>4. TypedApplies'
      BY <2>1, <2>2, <2>3 DEF Inv, Typed, TypedApplies
    <2>5. \E place \in {"refresh", "check", "done"} : aPc' = [aPc EXCEPT ![d] = place]
      BY <2>1
    <2> QED
      BY <1>1, <2>2, <2>3, <2>4, <2>5, HandlerKeeps, LineKinds
  <1>3. CASE ~SettingsMismatch(d)
    <2>1. /\ aPc' = [aPc EXCEPT ![d] = "restart"]
          /\ forceRestart' = TRUE
          /\ Enter(pc, <<ApplyToken(d)>>)
          /\ micro' = IF starting THEN <<ApplyToken(d)>> ELSE micro
          /\ UNCHANGED <<started, currentRunId, latestRequested, netListening,
                         pendingPref, storeVars, platformVars, coreVars,
                         teardownVars, jobVars, netPc, inputVars, ack>>
      BY <1>3 DEF ApplyCheck
    <2>2. ran' = [ran EXCEPT ![d] = ~starting]
      BY <1>3, Zenon DEF ApplyCheck
    <2>3. UNCHANGED <<tdPc, tdSilent, waiters, netPc, wants, cuts, nets, startReply, core,
                      coreRun, coreCancelled, started, latestRequested, pendingPref,
                      saved, cache, rev, revision, ack>>
      BY <1>1, <2>1 DEF storeVars, coreVars, teardownVars, jobVars, inputVars, commandVars
    <2>4. /\ ran \in [Deliveries -> BOOLEAN] /\ starting \in BOOLEAN
          /\ aPc \in [Deliveries -> {"new", "refresh", "check", "restart", "done"}]
          /\ revision \in [Deliveries -> Nat]
      BY DEF Inv, Typed, TypedApplies, TypedRuns
    <2>5. cache = revision[d]
      BY <1>3 DEF SettingsMismatch
    <2>6. <<ApplyToken(d)>> \in ApplyLine /\ micro' \in ApplyLine \cup {<<>>}
      BY <1>1, <2>1 DEF ApplyLine
    <2>7. ran' \in [Deliveries -> BOOLEAN] /\ (starting => ~ran'[d])
      <3>1. CASE starting
        <4>1. ran' = [ran EXCEPT ![d] = FALSE]
          BY <2>2, <3>1, Zenon
        <4> QED
          BY <2>4, <4>1
      <3>2. CASE ~starting
        <4>1. ran' = [ran EXCEPT ![d] = TRUE]
          BY <2>2, <3>2, Zenon
        <4> QED
          BY <2>4, <3>2, <4>1
      <3> QED
        BY <3>1, <3>2
    <2>8. \A e \in Deliveries : micro' = <<ApplyToken(e)>> => ~ran'[e]
      BY <1>1, <2>1, <2>7, Lines
    <2>9. \A e \in Deliveries : /\ aPc[e] # "new" => aPc'[e] # "new"
                                /\ <<ApplyToken(d)>> = <<ApplyToken(e)>> =>
                                       /\ forceRestart' /\ cache >= revision[e]
                                       /\ aPc'[e] # "new"
      <3>1. cache \in Nat
        BY <2>4, <2>5
      <3> QED
        BY <1>1, <2>1, <2>4, <2>5, <3>1, Lines
    <2>10. /\ latestRequested # None => latestRequested' # None
           /\ pendingPref' # None => latestRequested' # None
           /\ forceRestart => forceRestart'
      BY <2>1, <2>3 DEF Inv, Wish
    <2>11. Single' /\ Kernel' /\ Wish' /\ Promise'
      BY <1>1, <2>1, <2>3, <2>6, <2>8, <2>9, <2>10, EnterKeeps
    <2>12. /\ restartRequested' \in BOOLEAN /\ starting' \in BOOLEAN
           /\ lifecycleGeneration' \in Runs \cup {0}
           /\ lifecycleGeneration' + RestartOwed' <= lifecycleGeneration + RestartOwed + 1
           /\ pc' \in [Runs -> Place]
           /\ callers' \in [Runs -> ApplyLine \cup {<<>>}]
      BY <1>1, <2>1, <2>3, <2>6, Enters
    <2>13. Typed'
      <3>1. TypedRuns'
        BY <2>3, <2>6, <2>12 DEF Inv, Typed, TypedRuns
      <3>2. TypedWorld'
        BY <2>3 DEF Inv, Typed, TypedWorld
      <3>3. TypedApplies'
        BY <2>1, <2>3, <2>4, <2>7 DEF Inv, Typed, TypedApplies
      <3> QED
        BY <3>1, <3>2, <3>3 DEF Typed
    <2>14. Counted'
      <3>1. /\ Cardinality(Called') = Cardinality(Called) + 1
            /\ Cardinality(Called) \in Nat
        BY <1>1, <2>1, <2>13, CalledGrows DEF Inv
      <3>2. wants' = wants /\ wants \in Nat
        BY <2>3, Numbers DEF Inv, Typed, TypedWorld
      <3>3. /\ lifecycleGeneration \in Nat /\ lifecycleGeneration' \in Nat
            /\ RestartOwed \in {0, 1} /\ RestartOwed' \in {0, 1}
        BY <2>12, Numbers DEF RestartOwed, Inv, Typed, TypedRuns
      <3>4. lifecycleGeneration + RestartOwed <= wants + Cardinality(Called)
        BY DEF Inv, Counted
      <3>5. lifecycleGeneration' + RestartOwed' <= lifecycleGeneration + RestartOwed + 1
        BY <2>12
      <3>6. lifecycleGeneration' + RestartOwed' <= wants' + Cardinality(Called')
        <4>1. wants + Cardinality(Called) \in Nat
          BY <3>1, <3>2
        <4>2. lifecycleGeneration' + RestartOwed' <= (wants + Cardinality(Called)) + 1
          BY <3>3, <3>4, <3>5, <4>1, OneMore
        <4>3. wants' + Cardinality(Called') = (wants + Cardinality(Called)) + 1
          BY <3>1, <3>2
        <4> QED
          BY <4>2, <4>3
      <3> QED
        BY <3>6 DEF Counted
    <2> QED
      BY <2>11, <2>13, <2>14 DEF Inv
  <1> QED
    BY <1>2, <1>3

(***************************************************************************)
(* The invariant, and what an acknowledgement says.                        *)
(***************************************************************************)

LEMMA InitInv == MaxCuts = 0 /\ MaxNets = 0 /\ ApplyInit => Inv
  <1> SUFFICES ASSUME MaxCuts = 0, MaxNets = 0, ApplyInit PROVE Inv
    OBVIOUS
  <1> USE DEF ApplyInit, Init
  <1>1. Typed
    <2>1. TypedRuns
      BY DEF TypedRuns, Place
    <2>2. TypedWorld
      BY Numbers DEF TypedWorld
    <2>3. TypedApplies
      BY DEF TypedApplies
    <2> QED
      BY <2>1, <2>2, <2>3 DEF Typed
  <1>2. Counted
    <2>1. Cardinality(Called) \in Nat
      BY <1>1, CalledSize
    <2> QED
      BY <2>1 DEF Counted, RestartOwed
  <1>3. Here = "done"
    BY DEF Here
  <1>4. Single
    <2>1. \A r \in Runs : micro # <<RunToken(r)>>
      BY Lines
    <2>2. \A r \in Runs : /\ r < lifecycleGeneration => pc[r] = "done"
                          /\ r > lifecycleGeneration => pc[r] = "new" /\ startReply[r] = "none"
      BY Numbers
    <2> QED
      BY <1>3, <2>1, <2>2 DEF Single, Asleep
  <1>5. Kernel
    BY <1>3, Numbers DEF Kernel, Preparing, Up
  <1>6. Wish
    BY <1>3 DEF Wish, Preparing, Up
  <1>7. Promise
    <2>1. \A d \in Deliveries : <<>> # <<ApplyToken(d)>>
      BY Lines
    <2> QED
      BY <1>3, <2>1 DEF Promise, Reads, Returned
  <1> QED
    BY <1>1, <1>2, <1>4, <1>5, <1>6, <1>7 DEF Inv

LEMMA FrameKeeps == Inv /\ UNCHANGED allVars => Inv'
  <1> SUFFICES ASSUME Inv, UNCHANGED allVars PROVE Inv'
    OBVIOUS
  <1>1. /\ UNCHANGED <<lifecycleGeneration, starting, restartRequested, callers, micro,
                       pc, tdPc, tdSilent, waiters, netPc, wants, cuts, nets, startReply,
                       core, coreRun, coreCancelled, started, latestRequested,
                       pendingPref, forceRestart, saved, cache, rev>>
        /\ UNCHANGED applyVars
    BY DEF allVars, vars, fieldVars, requestVars, storeVars, coreVars, teardownVars,
           runVars, jobVars, inputVars
  <1>2. Here' = Here
    BY <1>1, HereStays
  <1>3. Typed' /\ Counted'
    BY <1>1, MoveTyped DEF Inv, Typed, TypedRuns, TypedWorld
  <1>4. Single' /\ Kernel' /\ Wish'
    BY <1>1, <1>2 DEF Inv, Single, Kernel, Wish
  <1>5. Promise'
    BY <1>1, <1>2 DEF Inv, Promise, Reads, Returned, applyVars, commandVars
  <1> QED
    BY <1>3, <1>4, <1>5 DEF Inv

\* Nothing is cut, and the network does not change.
LEMMA Undisturbed ==
    ASSUME MaxCuts = 0, MaxNets = 0, Inv
    PROVE  ~Cut /\ ~NetChange /\ ~NetStep
  <1>1. ~Cut
    BY DEF Cut, Inv, Typed, TypedWorld
  <1>2. ~NetChange
    BY DEF NetChange, Inv, Typed, TypedWorld
  <1>3. ~NetReset
    BY DEF NetReset, Inv, Single
  <1>4. ~ResumeNet
    BY Lines DEF ResumeNet, Inv, Typed, TypedRuns, RunLine, ApplyLine
  <1> QED
    BY <1>1, <1>2, <1>3, <1>4 DEF NetStep

LEMMA RunKeeps ==
    ASSUME MaxCuts = 0, MaxNets = 0, Inv, UNCHANGED applyVars,
           NEW r \in Runs, RunStep(r)
    PROVE  Inv'
  <1>1. CASE \/ Refresh(r) \/ Throw(r) \/ Load(r) \/ Write(r) \/ Gate(r) \/ Clean(r)
             \/ Auth(r) \/ CoreRejected(r) \/ Record(r) \/ Announce(r)
    BY <1>1, PlainSteps
  <1>2. CASE Decide(r)
    <2>1. CASE Wanted = None
      BY <1>2, <2>1, EndSteps
    <2>2. CASE Wanted # None /\ started /\ (Wanted # currentRunId \/ forceRestart)
      BY <1>2, <2>2, SwitchKeeps
    <2>3. CASE Wanted # None /\ ~(started /\ (Wanted # currentRunId \/ forceRestart))
      BY <1>2, <2>3, ChoiceKeeps
    <2> QED
      BY <2>1, <2>2, <2>3
  <1>3. CASE Clear(r)
    BY <1>3, EndSteps
  <1>4. CASE Protect(r)
    BY <1>4, AskKeeps, PlainSteps
  <1>5. CASE CoreResolved(r)
    BY <1>5, UpKeeps
  <1>6. CASE Failed(r)
    BY <1>6, FailedKeeps
  <1>7. CASE ResumeRun(r)
    <2>1. pc[r] = "switch" \/ pc[r] = "rollback"
      BY <1>7 DEF ResumeRun
    <2> QED
      BY <1>7, <2>1, ResumeKeeps, EndSteps
  <1> QED
    BY <1>1, <1>2, <1>3, <1>4, <1>5, <1>6, <1>7 DEF RunStep

LEMMA StepInv ==
    ASSUME MaxCuts = 0, MaxNets = 0
    PROVE  Inv /\ [ApplyNext]_allVars => Inv'
  <1> SUFFICES ASSUME Inv, [ApplyNext]_allVars PROVE Inv'
    OBVIOUS
  <1>1. CASE UNCHANGED allVars
    BY <1>1, FrameKeeps
  <1>2. CASE Next /\ UNCHANGED applyVars
    <2>1. CASE Input
      BY <1>2, <2>1, Undisturbed, WantKeeps, SaveKeeps DEF Input
    <2>2. ASSUME NEW r \in Runs, RunStep(r) PROVE Inv'
      BY <1>2, <2>2, RunKeeps
    <2>3. CASE TeardownStep
      BY <1>2, <2>3, TeardownKeeps, DownKeeps DEF TeardownStep
    <2>4. CASE CoreStep
      BY <1>2, <2>4, CoreKeeps
    <2>5. ~NetStep
      BY Undisturbed
    <2> QED
      BY <1>2, <2>1, <2>2, <2>3, <2>4, <2>5 DEF Next
  <1>3. ASSUME NEW d \in Deliveries, Deliver(d) \/ ApplyStep(d) PROVE Inv'
    BY <1>3, DeliverKeeps, RefreshKeeps, CheckKeeps, AcknowledgeKeeps DEF ApplyStep
  <1> QED
    BY <1>1, <1>2, <1>3 DEF ApplyNext

\* One run of tryStart at a time, on a kernel and with settings that are its own,
\* whatever Wants, saves and applies arrive: what all that follows rests on.
THEOREM Invariant ==
    ASSUME MaxCuts = 0, MaxNets = 0
    PROVE  ApplySpec => []Inv
  BY InitInv, StepInv, PTL DEF ApplySpec

\* What a step of the transaction acknowledges.
Acknowledged ==
    \A d \in Deliveries : Acked(d) /\ ran[d] =>
        /\ started /\ core = "running"
        /\ rev[coreRun] >= revision[d]

LEMMA AcknowledgesTrue == Inv /\ [ApplyNext]_allVars => [Acknowledged]_allVars
  <1> SUFFICES ASSUME Inv, ApplyNext, NEW d \in Deliveries, Acked(d), ran[d]
               PROVE  /\ started /\ core = "running"
                      /\ rev[coreRun] >= revision[d]
    BY DEF Acknowledged
  <1>1. /\ ack \in [Deliveries -> {"none", "ok", "failed", "refused", "replayed", "ignored"}]
        /\ ack[d] = "none" /\ ack'[d] = "ok"
    BY DEF Inv, Typed, TypedApplies, Acked
  <1>2. ~(Next /\ UNCHANGED applyVars)
    BY <1>1 DEF applyVars
  <1>3. ASSUME NEW e \in Deliveries, Deliver(e) \/ ApplyRefresh(e) \/ ApplyCheck(e)
        PROVE  FALSE
    <2>1. \/ ack' = ack
          \/ \E answer \in {"replayed", "ignored", "refused"} :
                 ack' = [ack EXCEPT ![e] = answer]
      <3>1. CASE Deliver(e)
        BY <3>1, Zenon DEF Deliver, Handle, Answer
      <3>2. CASE ApplyRefresh(e)
        BY <3>2 DEF ApplyRefresh, Answer
      <3>3. CASE ApplyCheck(e)
        BY <3>3, Zenon DEF ApplyCheck, Answer
      <3> QED
        BY <1>3, <3>1, <3>2, <3>3
    <2> QED
      BY <1>1, <2>1
  <1>4. PICK e \in Deliveries : ResumeApply(e)
    BY <1>2, <1>3 DEF ApplyNext, ApplyStep
  <1>5. /\ micro # <<>> /\ Head(micro) = ApplyToken(e)
        /\ ack' = [ack EXCEPT ![e] = IF started THEN "ok" ELSE "failed"]
    BY <1>4, Zenon DEF ResumeApply, Acknowledge, Answer
  <1>6. e = d /\ started
    BY <1>1, <1>5
  <1>7. micro = <<ApplyToken(d)>>
    <2>1. micro # <<>> /\ Head(micro) = ApplyToken(d)
      BY <1>5, <1>6
    <2> QED
      BY <2>1, Lines DEF Inv, Typed, TypedRuns, RunLine, ApplyLine
  <1> QED
    BY <1>6, <1>7 DEF Inv, Promise, Returned, Kernel

\* An apply that made its own restart is acknowledged only on a kernel that runs
\* with settings at least as new as the revision it names (handleApplyCommand
\* after its tryStart): whatever Wants, saves, duplicates and overlapping
\* commands arrive meanwhile, and though the kernel may not answer in time.
THEOREM RestartAcksTrue ==
    ASSUME MaxCuts = 0, MaxNets = 0
    PROVE  ApplySpec => RestartAckTrue
  <1>1. ApplySpec => [][Acknowledged]_allVars
    <2>1. ApplySpec => []Inv
      BY Invariant
    <2>2. ApplySpec => [][ApplyNext]_allVars
      BY DEF ApplySpec
    <2>3. Inv /\ [ApplyNext]_allVars => [Acknowledged]_allVars
      BY AcknowledgesTrue
    <2> QED
      BY <2>1, <2>2, <2>3, PTL
  <1> QED
    BY <1>1 DEF RestartAckTrue, Acknowledged

(***************************************************************************)
(* Agreement.                                                              *)
(***************************************************************************)

\* The run at work goes to another place.
LEMMA HereMoves ==
    ASSUME Inv, NEW r \in Runs, micro = <<>>, pc[r] \notin {"new", "done"} \cup Asleep,
           lifecycleGeneration' = lifecycleGeneration
    PROVE  /\ r = lifecycleGeneration /\ Here = pc[r] /\ Here' = pc'[r]
           /\ DOMAIN pc = Runs /\ tdPc = "idle"
  <1>1. r = lifecycleGeneration /\ lifecycleGeneration # 0 /\ Here = pc[r] /\ tdPc = "idle"
    BY Awake
  <1> QED
    BY <1>1 DEF Here, Inv, Typed, TypedRuns

\* tryStart is after the profile requested last.
LEMMA WantsLatest == Inv => Wanted = latestRequested
  BY DEF Wanted, Inv, Wish

LEMMA PlainAgrees ==
    ASSUME AgreeInv, NEW r \in Runs,
           \/ Refresh(r) \/ Throw(r) \/ Load(r) \/ Write(r) \/ CoreRejected(r)
           \/ Protect(r) /\ core # "stopped"
    PROVE  Agree'
  <1>1. micro = <<>> /\ pc[r] \notin {"new", "done"} \cup Asleep
    BY DEF Refresh, Throw, Load, Write, WriteAs, Protect, CoreRejected, At, Macrotask,
           Asleep
  <1> USE DEF StartVpnFrame, fieldVars, requestVars, platformVars, coreVars,
              teardownVars, jobVars
  <1>2. UNCHANGED <<lifecycleGeneration, restartRequested, latestRequested, started,
                    currentRunId, target, core, coreRun, coreConf, tdPc, runningPref,
                    status, tunnel>>
    <2>1. CASE Refresh(r) \/ Throw(r) \/ Load(r) \/ CoreRejected(r)
      BY <2>1 DEF Refresh, Throw, Load, CoreRejected
    <2>2. CASE Write(r)
      BY <2>2 DEF Write, WriteAs
    <2>3. CASE Protect(r) /\ core # "stopped"
      BY <2>3 DEF Protect
    <2> QED
      BY <2>1, <2>2, <2>3
  <1>3. \E b : /\ pc' = [pc EXCEPT ![r] = b]
               /\ \/ pc[r] = "refresh" /\ b = "decide"
                  \/ pc[r] = "load" /\ b = "write"
                  \/ pc[r] = "write" /\ b = "gate" /\ configFile' = r
                  \/ b = "failed"
    <2> USE DEF At, Move
    <2>1. CASE Refresh(r) \/ Throw(r) \/ Load(r) \/ CoreRejected(r)
      BY <2>1 DEF Refresh, Throw, Load, CoreRejected
    <2>2. CASE Write(r)
      BY <2>2 DEF Write, WriteAs
    <2>3. CASE Protect(r) /\ core # "stopped"
      BY <2>3 DEF Protect
    <2> QED
      BY <2>1, <2>2, <2>3
  <1>4. /\ r = lifecycleGeneration /\ Here = pc[r] /\ Here' = pc'[r]
        /\ DOMAIN pc = Runs /\ tdPc = "idle"
    BY <1>1, <1>2, HereMoves DEF AgreeInv
  <1>5. \/ Here = "refresh" /\ Here' = "decide"
        \/ Here = "load" /\ Here' = "write"
        \/ Here = "write" /\ Here' = "gate" /\ configFile' = r
        \/ Here' = "failed"
    BY <1>3, <1>4
  <1>6. Meant'
    BY <1>2, <1>4, <1>5 DEF AgreeInv, Agree, Meant, Preparing, Up
  <1>7. Built'
    BY <1>2, <1>4, <1>5 DEF AgreeInv, Agree, Built, Preparing
  <1>8. Session'
    BY <1>2, <1>5 DEF AgreeInv, Agree, Session
  <1>9. Told'
    BY <1>2, <1>4, <1>5 DEF AgreeInv, Agree, Told, Asleep, Inv, Kernel, Preparing
  <1> QED
    BY <1>2, <1>6, <1>7, <1>8, <1>9 DEF AgreeInv, Agree

\* The tunnel is asked for, and granted; the kernel is asked to start.
LEMMA TunnelAgrees ==
    ASSUME AgreeInv, NEW r \in Runs,
           Gate(r) \/ Clean(r) \/ Auth(r) \/ (Protect(r) /\ core = "stopped")
    PROVE  Agree'
  <1>1. /\ micro = <<>> /\ pc[r] \in {"gate", "clean", "auth", "protect"}
        /\ UNCHANGED <<lifecycleGeneration, restartRequested, latestRequested, started,
                       currentRunId, target, coreConf, tdPc, runningPref, configFile>>
    <2> USE DEF At, Macrotask, StartVpnFrame, requestVars, coreVars, teardownVars, jobVars
    <2>1. CASE Gate(r) \/ Clean(r) \/ Auth(r)
      BY <2>1 DEF Gate, Clean, Auth
    <2>2. CASE Protect(r) /\ core = "stopped"
      BY <2>2 DEF Protect
    <2> QED
      BY <2>1, <2>2
  <1>2. /\ r = lifecycleGeneration /\ Here = pc[r] /\ Here' = pc'[r]
        /\ DOMAIN pc = Runs /\ tdPc = "idle"
    BY <1>1, HereMoves DEF AgreeInv, Asleep
  <1>3. \/ Here = "gate" /\ Here' = "clean"
        \/ Here = "clean" /\ Here' = "auth"
        \/ Here = "auth" /\ Here' = "protect" /\ tunnel' = r
        \/ Here \in {"clean", "auth"} /\ Here' = "failed"
        \/ Here = "protect" /\ Here' = "core" /\ tunnel' = tunnel /\ core' = "starting"
    <2> USE DEF At, Move
    <2>1. CASE Gate(r) \/ Clean(r)
      BY <1>2, <2>1 DEF Gate, Clean
    <2>2. CASE Auth(r)
      BY <1>2, <2>2 DEF Auth
    <2>3. CASE Protect(r) /\ core = "stopped"
      BY <1>2, <2>3 DEF Protect, StartVpnFrame, platformVars
    <2> QED
      BY <2>1, <2>2, <2>3
  <1>4. ~started
    BY <1>3 DEF AgreeInv, Inv, Kernel, Preparing
  <1>5. Meant'
    BY <1>1, <1>3 DEF AgreeInv, Agree, Meant, Preparing, Up
  <1>6. Built'
    BY <1>1, <1>2, <1>3 DEF AgreeInv, Agree, Built, Preparing
  <1>7. Session' /\ Told'
    BY <1>1, <1>3, <1>4 DEF AgreeInv, Agree, Session, Told
  <1> QED
    BY <1>1, <1>5, <1>6, <1>7 DEF AgreeInv, Agree

\* The start resolved; it is recorded, and announced.
LEMMA UpAgrees ==
    ASSUME AgreeInv, NEW r \in Runs, CoreResolved(r) \/ Record(r) \/ Announce(r)
    PROVE  Agree'
  <1>1. /\ micro = <<>> /\ pc[r] \in {"core", "record", "announce"}
        /\ UNCHANGED <<lifecycleGeneration, restartRequested, latestRequested, tdPc,
                       target, core, coreRun, coreConf, tunnel, configFile>>
    <2> USE DEF At, Macrotask, StartVpnFrame, requestVars, platformVars, coreVars,
                teardownVars, jobVars
    <2>1. CASE CoreResolved(r)
      BY <2>1 DEF CoreResolved, UpIf
    <2>2. CASE Record(r) \/ Announce(r)
      BY <2>2 DEF Record, Announce
    <2> QED
      BY <2>1, <2>2
  <1>2. /\ r = lifecycleGeneration /\ Here = pc[r] /\ Here' = pc'[r]
        /\ DOMAIN pc = Runs /\ tdPc = "idle"
    BY <1>1, HereMoves DEF AgreeInv, Asleep
  <1>3. CASE CoreResolved(r)
    <2>1. starting
      BY <1>1, Awake DEF AgreeInv, Asleep
    <2>2. /\ Here = "core" /\ Here' = "record" /\ startReply[r] = "ok"
          /\ started' /\ currentRunId' = target[r]
          /\ UNCHANGED <<runningPref, status>>
      BY <1>2, <1>3, <2>1 DEF CoreResolved, UpIf, At, Move, jobVars
    <2>3. coreRun = r /\ core = "running" /\ ~started
      BY <1>2, <2>2 DEF AgreeInv, Inv, Kernel
    <2>4. Meant' /\ Built'
      BY <1>1, <1>2, <2>2 DEF AgreeInv, Agree, Meant, Built, Preparing, Up
    <2>5. Session'
      BY <1>1, <1>2, <2>2, <2>3 DEF AgreeInv, Agree, Session, Built
    <2>6. Told'
      BY <2>2 DEF Told
    <2> QED
      BY <1>1, <2>4, <2>5, <2>6 DEF AgreeInv, Agree
  <1>4. CASE Record(r) \/ Announce(r)
    <2>1. /\ UNCHANGED <<started, currentRunId>>
          /\ \/ Here = "record" /\ Here' = "announce" /\ runningPref' = target[r]
             \/ /\ Here = "announce" /\ Here' = "clear" /\ runningPref' = runningPref
                /\ status' = [text |-> "connected", profile |-> target[r]]
      BY <1>2, <1>4 DEF Record, Announce, At, Move, Publish, jobVars
    <2>2. started /\ coreRun = r
      BY <1>2, <2>1 DEF AgreeInv, Inv, Kernel, Up
    <2>3. Meant' /\ Built' /\ Session'
      BY <1>1, <2>1 DEF AgreeInv, Agree, Meant, Built, Session, Preparing, Up
    <2>4. Told'
      BY <1>2, <2>1, <2>2 DEF AgreeInv, Agree, Session, Told, Asleep
    <2> QED
      BY <1>1, <2>3, <2>4 DEF AgreeInv, Agree
  <1> QED
    BY <1>3, <1>4

\* A decision that goes on without a switch.
LEMMA ChoiceAgrees ==
    ASSUME AgreeInv, NEW r \in Runs, Decide(r), Wanted # None,
           ~(started /\ (Wanted # currentRunId \/ forceRestart))
    PROVE  Agree'
  <1>1. /\ micro = <<>> /\ pc[r] = "decide" /\ target' = [target EXCEPT ![r] = Wanted]
        /\ UNCHANGED <<lifecycleGeneration, restartRequested, latestRequested, tdPc,
                       started, currentRunId, core, coreRun, coreConf, tunnel,
                       configFile, runningPref>>
    BY DEF Decide, At, Macrotask, platformVars, coreVars, teardownVars
  <1>2. /\ r = lifecycleGeneration /\ Here = "decide" /\ Here' = pc'[r]
        /\ DOMAIN pc = Runs
    BY <1>1, HereMoves DEF AgreeInv, Asleep
  <1>3. Wanted = latestRequested
    BY WantsLatest DEF AgreeInv
  <1>4. \/ /\ Here' = "replay" /\ started /\ latestRequested = currentRunId
           /\ status' = [text |-> "connected", profile |-> currentRunId]
        \/ Here' = "load" /\ ~started
    BY <1>2, <1>3 DEF Decide, Move, Publish
  <1>5. /\ DOMAIN target' = Runs /\ target'[r] = latestRequested
        /\ \A q \in Runs : q # r => target'[q] = target[q]
    BY <1>1, <1>3 DEF AgreeInv, Agree
  <1>6. coreRun # r /\ (started => coreRun \in Runs)
    BY <1>2 DEF AgreeInv, Inv, Kernel, Single, Asleep
  <1>7. Meant'
    BY <1>1, <1>2, <1>4, <1>5 DEF AgreeInv, Agree, Meant, Preparing, Up
  <1>8. Built'
    BY <1>1, <1>2, <1>3, <1>4, <1>5 DEF AgreeInv, Agree, Built, Preparing
  <1>9. Session'
    BY <1>1, <1>5, <1>6 DEF AgreeInv, Agree, Session
  <1>10. Told'
    BY <1>1, <1>2, <1>4 DEF AgreeInv, Agree, Told, Asleep
  <1> QED
    BY <1>5, <1>7, <1>8, <1>9, <1>10 DEF Agree

\* A run goes to sleep on its teardown.
LEMMA SleepAgrees ==
    ASSUME AgreeInv, NEW r \in Runs,
           \/ Failed(r)
           \/ Decide(r) /\ Wanted # None /\ started /\ (Wanted # currentRunId \/ forceRestart)
    PROVE  Agree'
  <1>1. /\ micro = <<>> /\ pc[r] \notin {"new", "done"} \cup Asleep
        /\ Teardown(TRUE, <<RunToken(r)>>)
        /\ UNCHANGED <<lifecycleGeneration, starting, micro, netPc, restartRequested,
                       latestRequested, started, currentRunId, tunnel, configFile,
                       runningPref>>
    <2> USE DEF At, Macrotask, platformVars, Asleep
    <2>1. CASE Failed(r)
      BY <2>1 DEF Failed, FailedUnless, fieldVars, jobVars
    <2>2. CASE /\ Decide(r) /\ Wanted # None
               /\ started /\ (Wanted # currentRunId \/ forceRestart)
      BY <2>2 DEF Decide
    <2> QED
      BY <2>1, <2>2
  <1>2. \/ pc' = [pc EXCEPT ![r] = "rollback"] /\ target' = target
        \/ /\ pc' = [pc EXCEPT ![r] = "switch"] /\ target' = [target EXCEPT ![r] = Wanted]
           /\ Wanted # None
    BY DEF Failed, FailedUnless, Decide, Move, jobVars
  <1>3. /\ r = lifecycleGeneration /\ Here = pc[r] /\ Here' = pc'[r]
        /\ DOMAIN pc = Runs /\ tdPc = "idle"
    BY <1>1, HereMoves DEF AgreeInv
  <1>4. tdPc' = "stop" /\ core' # "running"
    BY <1>1, <1>3 DEF Teardown
  <1>5. \/ Here' = "rollback" /\ target' = target
        \/ Here' = "switch" /\ DOMAIN target' = Runs /\ target'[r] = latestRequested
           /\ latestRequested # None
    BY <1>2, <1>3, WantsLatest DEF AgreeInv, Agree
  <1>6. Meant' /\ Built'
    BY <1>1, <1>3, <1>5 DEF AgreeInv, Agree, Meant, Built, Preparing, Up
  <1>7. Session' /\ Told'
    BY <1>1, <1>4, <1>5 DEF AgreeInv, Agree, Session, Told, Asleep
  <1> QED
    BY <1>5, <1>6, <1>7 DEF AgreeInv, Agree

\* A run ends.
LEMMA EndAgrees ==
    ASSUME MaxCuts = 0, MaxNets = 0, AgreeInv, NEW r \in Runs,
           \/ Decide(r) /\ Wanted = None
           \/ Clear(r)
           \/ ResumeRun(r) /\ pc[r] = "rollback"
    PROVE  Agree'
  <1>1. /\ r = lifecycleGeneration /\ tdPc = "idle" /\ Here = pc[r] /\ Finally(r, <<>>)
        /\ Here \in {"decide", "replay", "clear", "rollback"}
    BY EndsWhere DEF AgreeInv
  <1>2. UNCHANGED <<netPc, tdPc, tdSilent, waiters, startReply, latestRequested, started,
                    currentRunId, core, coreRun, coreConf, tunnel, configFile,
                    runningPref>>
    <2> USE DEF requestVars, platformVars, coreVars, teardownVars, jobVars
    <2>1. CASE Decide(r) /\ Wanted = None
      BY <2>1 DEF Decide
    <2>2. CASE Clear(r)
      BY <2>2 DEF Clear
    <2>3. CASE ResumeRun(r) /\ pc[r] = "rollback"
      BY <2>3 DEF ResumeRun
    <2> QED
      BY <2>1, <2>2, <2>3
  <1>3. /\ restartRequested' = FALSE
        /\ \/ restartRequested /\ Here' = "refresh"
           \/ ~restartRequested /\ Here' = "done"
    <2>1. restartRequested' = FALSE /\ Here' \in {"refresh", "done"}
      BY <1>1, <1>2, Ends DEF AgreeInv
    <2>2. lifecycleGeneration' = IF restartRequested THEN lifecycleGeneration + 1
                                                     ELSE lifecycleGeneration
      BY <1>1 DEF Finally, End
    <2>3. \/ Here' = "refresh" /\ lifecycleGeneration' = lifecycleGeneration + 1
          \/ Here' = "done" /\ lifecycleGeneration' = lifecycleGeneration
      BY <1>1, <1>2, Ends DEF AgreeInv
    <2>4. lifecycleGeneration + 1 # lifecycleGeneration
      BY <1>1, Numbers
    <2> QED
      BY <2>1, <2>2, <2>3, <2>4
  <1>4. /\ Here = "decide" => Wanted = None
        /\ target' = IF Here = "decide" THEN [target EXCEPT ![r] = Wanted] ELSE target
        /\ Here = "rollback" => status' = [text |-> "connect_failed", profile |-> None]
        /\ Here \in {"replay", "clear"} => status' = status
    BY <1>1 DEF Decide, Clear, ResumeRun, At, Publish, jobVars
  <1>5. /\ Here \in {"decide", "rollback"} => ~started
        /\ Here = "decide" => status' = status
        /\ Here \in {"replay", "clear"} => started
    <2>1. Here = "rollback" => ~started
      BY <1>1 DEF AgreeInv, Inv, Kernel, Asleep
    <2>2. Here = "decide" => ~started
      BY <1>1, <1>4, WantsLatest DEF AgreeInv, Inv, Wish
    <2>3. Here = "decide" => status' = status
      BY <1>1, <2>2 DEF Decide, Clear, ResumeRun, At
    <2>4. Here \in {"replay", "clear"} => started
      BY DEF AgreeInv, Agree, Told, Inv, Kernel, Up
    <2> QED
      BY <2>1, <2>2, <2>3, <2>4
  <1>6. /\ DOMAIN target' = Runs
        /\ started => target' = target
    BY <1>4, <1>5 DEF AgreeInv, Agree
  <1>7. Meant'
    BY <1>2, <1>3, <1>1, <1>5 DEF AgreeInv, Agree, Meant, Preparing, Up
  <1>8. Built'
    BY <1>3 DEF Built, Preparing
  <1>9. Session'
    BY <1>2, <1>6 DEF AgreeInv, Agree, Session
  <1>10. Told'
    BY <1>1, <1>2, <1>3, <1>4, <1>5 DEF AgreeInv, Agree, Told, Asleep
  <1> QED
    BY <1>6, <1>7, <1>8, <1>9, <1>10 DEF Agree

\* The run that switched goes on.
LEMMA ResumeAgrees ==
    ASSUME AgreeInv, NEW r \in Runs, ResumeRun(r), pc[r] = "switch"
    PROVE  Agree'
  <1>1. /\ micro # <<>> /\ Head(micro) = RunToken(r) /\ pc' = [pc EXCEPT ![r] = "load"]
        /\ UNCHANGED <<lifecycleGeneration, restartRequested, latestRequested, tdPc,
                       started, currentRunId, target, core, coreRun, coreConf, tunnel,
                       configFile, runningPref>>
    BY DEF ResumeRun, Move, requestVars, platformVars, coreVars, teardownVars, jobVars
  <1>2. r = lifecycleGeneration /\ tdPc = "idle" /\ Here = "switch"
    BY <1>1, Resumes DEF AgreeInv
  <1>3. Here' = "load"
    <2>1. lifecycleGeneration # 0
      BY <1>2 DEF Here
    <2>2. pc'[r] = "load"
      BY <1>1 DEF AgreeInv, Inv, Typed, TypedRuns
    <2> QED
      BY <1>1, <1>2, <2>1, <2>2 DEF Here
  <1>4. ~started
    BY <1>2 DEF AgreeInv, Inv, Kernel, Asleep
  <1>5. Meant' /\ Built'
    BY <1>1, <1>2, <1>3 DEF AgreeInv, Agree, Meant, Built, Preparing, Up
  <1>6. Session' /\ Told'
    BY <1>1, <1>3, <1>4 DEF AgreeInv, Agree, Session, Told
  <1> QED
    BY <1>1, <1>5, <1>6 DEF AgreeInv, Agree

LEMMA TeardownAgrees ==
    ASSUME AgreeInv, TeardownStep
    PROVE  Agree'
  <1>1. /\ tdPc # "idle"
        /\ UNCHANGED <<pc, lifecycleGeneration, restartRequested, latestRequested, target,
                       core, coreRun, coreConf, configFile, status>>
    <2> USE DEF Macrotask, requestVars, coreVars, runVars, jobVars
    <2>1. CASE TdStopped
      BY <2>1 DEF TdStopped, Unpin
    <2>2. CASE TdDestroyed
      BY <2>2 DEF TdDestroyed
    <2>3. CASE TdPersisted
      <3>1. tdSilent /\ tdPc # "idle"
        BY <2>3 DEF TdPersisted, Down, AgreeInv, Inv, Single
      <3> QED
        BY <2>3, <3>1 DEF TdPersisted, Down
    <2> QED
      BY <2>1, <2>2, <2>3 DEF TeardownStep
  <1>2. \/ /\ tdPc' = "persist" /\ currentRunId' = None
           /\ UNCHANGED <<started, runningPref>>
        \/ /\ tdPc' = "destroy" /\ UNCHANGED <<started, currentRunId, runningPref>>
        \/ /\ tdPc' = "idle" /\ ~started' /\ runningPref' = None
           /\ currentRunId' = currentRunId /\ tdPc = "persist"
    <2>1. CASE TdStopped
      BY <2>1 DEF TdStopped, Unpin
    <2>2. CASE TdDestroyed
      BY <2>2 DEF TdDestroyed, jobVars
    <2>3. CASE TdPersisted
      BY <2>3 DEF TdPersisted, Down
    <2> QED
      BY <2>1, <2>2, <2>3 DEF TeardownStep
  <1>3. Here' = Here /\ Here \in Asleep
    BY <1>1, HereStays DEF AgreeInv, Inv, Single
  <1>4. Meant' /\ Built'
    BY <1>1, <1>3 DEF AgreeInv, Agree, Meant, Built, Preparing, Up, Asleep
  <1>5. Session' /\ Told'
    BY <1>1, <1>2, <1>3 DEF AgreeInv, Agree, Session, Told, Asleep
  <1> QED
    BY <1>1, <1>4, <1>5 DEF AgreeInv, Agree

\* The kernel reads the config when it goes up.
LEMMA CoreAgrees ==
    ASSUME AgreeInv, CoreStep
    PROVE  Agree'
  <1>1. /\ core \in {"starting", "stopping"}
        /\ UNCHANGED <<pc, lifecycleGeneration, restartRequested, latestRequested, target,
                       tdPc, started, currentRunId, coreRun, tunnel, configFile,
                       runningPref, status>>
        /\ core' = "running" => coreConf' = configFile
    BY DEF CoreStep, CoreUp, CoreNotUp, CoreDown, CoreFrame, fieldVars, requestVars,
           platformVars, runVars, jobVars
  <1>2. Here' = Here
    BY <1>1, HereStays
  <1>3. ~(started /\ tdPc = "idle")
    BY <1>1 DEF AgreeInv, Inv, Kernel
  <1>4. Meant' /\ Built' /\ Told'
    BY <1>1, <1>2 DEF AgreeInv, Agree, Meant, Built, Told
  <1>5. Session'
    BY <1>1, <1>3 DEF AgreeInv, Agree, Session
  <1> QED
    BY <1>1, <1>4, <1>5 DEF AgreeInv, Agree

\* tryStart is called, by a Want or by an apply.
LEMMA Entries ==
    ASSUME \/ \E p, force : Want(p, force)
           \/ \E d \in Deliveries : ApplyCheck(d) /\ ~SettingsMismatch(d)
    PROVE  /\ micro = <<>>
           /\ wants < MaxWants \/ \E d \in Deliveries : aPc[d] = "check"
           /\ \E tokens \in ApplyLine \cup {<<>>} : Enter(pc, tokens)
           /\ micro' \in ApplyLine \cup {<<>>}
           /\ status' = status \/ status'.text = "switching"
           /\ UNCHANGED <<netPc, tdPc, tdSilent, tdStopped, waiters, startReply, core,
                          coreRun, coreConf, started, currentRunId, target, pinned,
                          configFile, runningPref, connection, tunnel>>
  <1> DEFINE Entry ==
          /\ micro = <<>>
          /\ wants < MaxWants \/ \E d \in Deliveries : aPc[d] = "check"
          /\ \E tokens \in ApplyLine \cup {<<>>} : Enter(pc, tokens)
          /\ micro' \in ApplyLine \cup {<<>>}
          /\ status' = status \/ status'.text = "switching"
          /\ UNCHANGED <<netPc, tdPc, tdSilent, tdStopped, waiters, startReply, core,
                         coreRun, coreConf, started, currentRunId, target, pinned,
                         configFile, runningPref, connection, tunnel>>
  <1>1. ASSUME NEW p, NEW force, Want(p, force) PROVE Entry
    BY <1>1 DEF Want, Macrotask, platformVars, coreVars, teardownVars, jobVars
  <1>2. ASSUME NEW d \in Deliveries, ApplyCheck(d), ~SettingsMismatch(d) PROVE Entry
    <2>1. <<ApplyToken(d)>> \in ApplyLine
      BY DEF ApplyLine
    <2>2. /\ micro = <<>> /\ aPc[d] = "check" /\ Enter(pc, <<ApplyToken(d)>>)
          /\ micro' = IF starting THEN <<ApplyToken(d)>> ELSE micro
          /\ status'.text = "switching"
          /\ UNCHANGED <<netPc, tdPc, tdSilent, tdStopped, waiters, startReply, core,
                         coreRun, coreConf, started, currentRunId, target, pinned,
                         configFile, runningPref, connection, tunnel>>
      BY <1>2 DEF ApplyCheck, Macrotask, Publish, platformVars, coreVars, teardownVars,
             jobVars
    <2> QED
      BY <2>1, <2>2
  <1> QED
    BY <1>1, <1>2

LEMMA EnterAgrees ==
    ASSUME MaxCuts = 0, MaxNets = 0, AgreeInv,
           \/ \E p, force : Want(p, force)
           \/ \E d \in Deliveries : ApplyCheck(d) /\ ~SettingsMismatch(d)
    PROVE  Agree'
  <1>1. /\ status' = status \/ status'.text = "switching"
        /\ UNCHANGED <<tdPc, started, currentRunId, target, core, coreRun, coreConf,
                       tunnel, configFile, runningPref>>
    BY Entries
  <1>2. \/ Here = "done" /\ Here' = "refresh" /\ restartRequested' = FALSE
        \/ /\ Here # "done" /\ Here' = Here /\ restartRequested' = TRUE
           /\ lifecycleGeneration' = lifecycleGeneration
    <2>1. PICK tokens \in ApplyLine \cup {<<>>} : Enter(pc, tokens)
      BY Entries
    <2>2. \/ ~starting /\ Here = "done" /\ Here' = "refresh"
          \/ starting /\ lifecycleGeneration' = lifecycleGeneration /\ Here' = Here
      BY <2>1, Entries, Enters DEF AgreeInv
    <2>3. starting => Here # "done"
      BY DEF AgreeInv, Inv, Single
    <2>4. restartRequested' = IF starting THEN TRUE ELSE FALSE
      BY <2>1 DEF Enter, EnterUnless
    <2> QED
      BY <2>2, <2>3, <2>4
  <1>3. Meant'
    BY <1>2 DEF Meant, Preparing, Up
  <1>4. Built'
    BY <1>1, <1>2 DEF AgreeInv, Agree, Built, Preparing
  <1>5. Session'
    BY <1>1 DEF AgreeInv, Agree, Session
  <1>6. Told'
    BY <1>1, <1>2 DEF AgreeInv, Agree, Told, Asleep
  <1> QED
    BY <1>1, <1>3, <1>4, <1>5, <1>6 DEF AgreeInv, Agree

\* What leaves all of it alone.
LEMMA FrameAgrees ==
    ASSUME AgreeInv,
           UNCHANGED <<fieldVars, latestRequested, connection, tunnel, coreVars,
                       teardownVars, runVars, jobVars, status>>
    PROVE  Agree'
  <1>1. Here' = Here
    BY HereStays DEF fieldVars, runVars
  <1>2. Meant' /\ Built'
    BY <1>1 DEF AgreeInv, Agree, Meant, Built, fieldVars, coreVars, jobVars
  <1>3. Session' /\ Told'
    BY <1>1 DEF AgreeInv, Agree, Session, Told, fieldVars, coreVars, teardownVars, jobVars
  <1> QED
    BY <1>2, <1>3 DEF AgreeInv, Agree, jobVars

LEMMA RunAgrees ==
    ASSUME MaxCuts = 0, MaxNets = 0, AgreeInv, NEW r \in Runs, RunStep(r)
    PROVE  Agree'
  <1>1. CASE Refresh(r) \/ Throw(r) \/ Load(r) \/ Write(r) \/ CoreRejected(r)
    BY <1>1, PlainAgrees
  <1>2. CASE Decide(r)
    <2>1. CASE Wanted = None
      BY <1>2, <2>1, EndAgrees
    <2>2. CASE Wanted # None /\ started /\ (Wanted # currentRunId \/ forceRestart)
      BY <1>2, <2>2, SleepAgrees
    <2>3. CASE Wanted # None /\ ~(started /\ (Wanted # currentRunId \/ forceRestart))
      BY <1>2, <2>3, ChoiceAgrees
    <2> QED
      BY <2>1, <2>2, <2>3
  <1>3. CASE Clear(r)
    BY <1>3, EndAgrees
  <1>4. CASE Gate(r) \/ Clean(r) \/ Auth(r) \/ Protect(r)
    <2>1. CASE Gate(r) \/ Clean(r) \/ Auth(r)
      BY <2>1, TunnelAgrees
    <2>2. CASE Protect(r) /\ core # "stopped"
      BY <2>2, PlainAgrees
    <2>3. CASE Protect(r) /\ core = "stopped"
      BY <2>3, TunnelAgrees
    <2> QED
      BY <1>4, <2>1, <2>2, <2>3
  <1>5. CASE CoreResolved(r) \/ Record(r) \/ Announce(r)
    BY <1>5, UpAgrees
  <1>6. CASE Failed(r)
    BY <1>6, SleepAgrees
  <1>7. CASE ResumeRun(r)
    <2>1. pc[r] = "switch" \/ pc[r] = "rollback"
      BY <1>7 DEF ResumeRun
    <2> QED
      BY <1>7, <2>1, ResumeAgrees, EndAgrees
  <1> QED
    BY <1>1, <1>2, <1>3, <1>4, <1>5, <1>6, <1>7 DEF RunStep

LEMMA ApplyAgrees ==
    ASSUME MaxCuts = 0, MaxNets = 0, AgreeInv, NEW d \in Deliveries,
           Deliver(d) \/ ApplyStep(d)
    PROVE  Agree'
  <1> USE DEF vars, requestVars, platformVars
  <1>1. CASE Deliver(d)
    BY <1>1, FrameAgrees DEF Deliver, Handle
  <1>2. CASE ApplyRefresh(d)
    BY <1>2, FrameAgrees DEF ApplyRefresh
  <1>3. CASE ApplyCheck(d) /\ SettingsMismatch(d)
    BY <1>3, FrameAgrees DEF ApplyCheck
  <1>4. CASE ApplyCheck(d) /\ ~SettingsMismatch(d)
    BY <1>4, EnterAgrees
  <1>5. CASE ResumeApply(d)
    BY <1>5, FrameAgrees DEF ResumeApply, Acknowledge
  <1> QED
    BY <1>1, <1>2, <1>3, <1>4, <1>5 DEF ApplyStep

LEMMA StepAgrees ==
    ASSUME MaxCuts = 0, MaxNets = 0
    PROVE  AgreeInv /\ [ApplyNext]_allVars => AgreeInv'
  <1> SUFFICES ASSUME AgreeInv, [ApplyNext]_allVars PROVE Agree'
    BY StepInv DEF AgreeInv
  <1> USE DEF requestVars, platformVars
  <1>1. CASE UNCHANGED allVars
    BY <1>1, FrameAgrees DEF allVars, vars
  <1>2. CASE Next /\ UNCHANGED applyVars
    <2>1. CASE Input
      <3>1. CASE Save
        BY <3>1, FrameAgrees DEF Save
      <3>2. CASE \E p, force : Want(p, force)
        BY <3>2, EnterAgrees
      <3> QED
        BY <2>1, <3>1, <3>2, Undisturbed DEF Input, AgreeInv
    <2>2. ASSUME NEW r \in Runs, RunStep(r) PROVE Agree'
      BY <2>2, RunAgrees
    <2>3. CASE TeardownStep
      BY <2>3, TeardownAgrees
    <2>4. CASE CoreStep
      BY <2>4, CoreAgrees
    <2>5. ~NetStep
      BY Undisturbed DEF AgreeInv
    <2> QED
      BY <1>2, <2>1, <2>2, <2>3, <2>4, <2>5 DEF Next
  <1>3. ASSUME NEW d \in Deliveries, Deliver(d) \/ ApplyStep(d) PROVE Agree'
    BY <1>3, ApplyAgrees
  <1> QED
    BY <1>1, <1>2, <1>3 DEF ApplyNext

LEMMA InitAgrees == MaxCuts = 0 /\ MaxNets = 0 /\ ApplyInit => AgreeInv
  <1> SUFFICES ASSUME MaxCuts = 0, MaxNets = 0, ApplyInit PROVE Agree
    BY InitInv DEF AgreeInv
  <1>1. Here = "done"
    BY DEF ApplyInit, Init, Here
  <1>2. Meant /\ Built
    BY <1>1 DEF ApplyInit, Init, Meant, Built, Preparing, Up
  <1>3. Session /\ Told
    BY <1>1 DEF ApplyInit, Init, Session, Told, Asleep
  <1> QED
    BY <1>2, <1>3 DEF ApplyInit, Init, Agree

LEMMA AgreeInvariant ==
    ASSUME MaxCuts = 0, MaxNets = 0
    PROVE  ApplySpec => []AgreeInv
  <1>1. ApplyInit => AgreeInv
    BY InitAgrees
  <1>2. AgreeInv /\ [ApplyNext]_allVars => AgreeInv'
    BY StepAgrees
  <1> QED
    BY <1>1, <1>2, PTL DEF ApplySpec

LEMMA Resting == Inv /\ Idle => Here = "done"
  BY DEF Idle, Here, Inv, Single, Typed, TypedRuns

\* `starting' does not stick, and no restart that was noted is left behind
\* (tryStart and its finally block), also when applies call tryStart.
THEOREM NeverStuck ==
    ASSUME MaxCuts = 0, MaxNets = 0
    PROVE  ApplySpec => []NotStuck
  <1>1. AgreeInv => NotStuck
    BY Resting DEF AgreeInv, Agree, Meant, Inv, Single, NotStuck
  <1> QED
    BY <1>1, AgreeInvariant, PTL

\* The latest Want that named a profile wins (tryStart and its restarts): an
\* apply restarts that profile, and never brings an older one back.
THEOREM LatestWantWins ==
    ASSUME MaxCuts = 0, MaxNets = 0
    PROVE  ApplySpec => []LatestWins
  <1>1. AgreeInv => LatestWins
    BY Resting DEF AgreeInv, Agree, Meant, Quiet, LatestWins
  <1> QED
    BY <1>1, AgreeInvariant, PTL

\* Once all is at rest, session, kernel, config, profile and tunnel agree
\* (startVpn and doTeardown), whatever restarts the applies have forced and
\* though calls of the kernel or the system may time out.
THEOREM SettlesInAgreement ==
    ASSUME MaxCuts = 0, MaxNets = 0
    PROVE  ApplySpec => []SettledAgree
  <1>1. AgreeInv => SettledAgree
    BY Resting DEF AgreeInv, Agree, Session, Inv, Kernel, Quiet, Idle,
                   Asleep, SettledAgree
  <1> QED
    BY <1>1, AgreeInvariant, PTL

\* Once all is at rest, the status published last and the profile kept for the
\* UI process are those of what runs: the "switching" that an apply publishes
\* (handleApplyCommand) is followed by what came of it.
THEOREM SettlesAsTold ==
    ASSUME MaxCuts = 0, MaxNets = 0
    PROVE  ApplySpec => []SettledTold
  <1>1. AgreeInv => SettledTold
    BY Resting DEF AgreeInv, Agree, Meant, Session, Told, Quiet, Asleep,
                   SettledTold
  <1> QED
    BY <1>1, AgreeInvariant, PTL

(***************************************************************************)
(* Pins and tunnel.                                                        *)
(***************************************************************************)

\* Another place, with the same kernel and the same tunnel.
LEMMA PlainPins ==
    ASSUME PromptInv, NEW r \in Runs, micro = <<>>,
           pc[r] \notin {"new", "done"} \cup Asleep,
           NEW b, pc' = [pc EXCEPT ![r] = b],
           \/ pc[r] = "refresh" /\ b = "decide"
           \/ pc[r] = "decide" /\ b = "replay"
           \/ pc[r] = "decide" /\ b = "load" /\ ~started
           \/ pc[r] = "load" /\ b = "write"
           \/ pc[r] = "record" /\ b = "announce"
           \/ pc[r] = "announce" /\ b = "clear"
           \/ b = "failed",
           UNCHANGED <<lifecycleGeneration, tdPc, tdStopped, core, coreRun, pinned,
                       started, connection, tunnel>>
    PROVE  Pins' /\ Tunnel'
  <1>1. /\ Here = pc[r] /\ Here' = b /\ tdPc = "idle"
    BY HereMoves DEF PromptInv
  <1>2. Pins'
    BY <1>1 DEF PromptInv, Pins, Preparing, Asleep
  <1>3. Tunnel'
    BY <1>1 DEF PromptInv, Tunnel, Asleep
  <1> QED
    BY <1>2, <1>3

LEMMA PlainStepsPins ==
    ASSUME PromptInv, NEW r \in Runs,
           \/ Refresh(r) \/ Throw(r) \/ Load(r) \/ CoreRejected(r) \/ Record(r)
           \/ Announce(r)
           \/ Protect(r) /\ core # "stopped"
           \/ Decide(r) /\ Wanted # None
              /\ ~(started /\ (Wanted # currentRunId \/ forceRestart))
    PROVE  Pins' /\ Tunnel'
  <1>1. micro = <<>> /\ pc[r] \notin {"new", "done"} \cup Asleep
    BY DEF Refresh, Throw, Load, Protect, CoreRejected, Record, Announce, Decide, At,
           Macrotask, Asleep
  <1> USE DEF StartVpnFrame, fieldVars, platformVars, coreVars, teardownVars, jobVars
  <1>2. UNCHANGED <<lifecycleGeneration, tdPc, tdStopped, core, coreRun, pinned,
                    started, connection, tunnel>>
    <2>1. CASE Refresh(r) \/ Throw(r) \/ Load(r) \/ CoreRejected(r)
      BY <2>1 DEF Refresh, Throw, Load, CoreRejected
    <2>2. CASE Record(r) \/ Announce(r)
      BY <2>2 DEF Record, Announce
    <2>3. CASE Protect(r) /\ core # "stopped"
      BY <2>3 DEF Protect
    <2>4. CASE Decide(r) /\ Wanted # None
               /\ ~(started /\ (Wanted # currentRunId \/ forceRestart))
      BY <2>4 DEF Decide
    <2> QED
      BY <2>1, <2>2, <2>3, <2>4
  <1>3. \E b : /\ pc' = [pc EXCEPT ![r] = b]
               /\ \/ pc[r] = "refresh" /\ b = "decide"
                  \/ pc[r] = "decide" /\ b = "replay"
                  \/ pc[r] = "decide" /\ b = "load" /\ ~started
                  \/ pc[r] = "load" /\ b = "write"
                  \/ pc[r] = "record" /\ b = "announce"
                  \/ pc[r] = "announce" /\ b = "clear"
                  \/ b = "failed"
    <2> USE DEF At, Move
    <2>1. CASE Refresh(r) \/ Throw(r) \/ Load(r) \/ CoreRejected(r)
      BY <2>1 DEF Refresh, Throw, Load, CoreRejected
    <2>2. CASE Record(r) \/ Announce(r)
      BY <2>2 DEF Record, Announce
    <2>3. CASE Protect(r) /\ core # "stopped"
      BY <2>3 DEF Protect
    <2>4. CASE Decide(r) /\ Wanted # None
               /\ ~(started /\ (Wanted # currentRunId \/ forceRestart))
      BY <2>4 DEF Decide
    <2> QED
      BY <2>1, <2>2, <2>3, <2>4
  <1> QED
    BY <1>1, <1>2, <1>3, PlainPins

\* The resources of the run are pinned.
LEMMA WritePins ==
    ASSUME PromptInv, NEW r \in Runs, Write(r)
    PROVE  Pins' /\ Tunnel'
  <1>1. /\ micro = <<>> /\ pc[r] = "write" /\ pc' = [pc EXCEPT ![r] = "gate"]
        /\ pinned' = r
        /\ UNCHANGED <<lifecycleGeneration, tdPc, tdStopped, core, coreRun, started,
                       connection, tunnel>>
    BY DEF Write, WriteAs, At, Macrotask, Move, StartVpnFrame, platformVars, coreVars,
           teardownVars
  <1>2. r = lifecycleGeneration /\ Here = "write" /\ Here' = "gate" /\ tdPc = "idle"
    BY <1>1, HereMoves DEF PromptInv, Asleep
  <1>3. Pins'
    BY <1>1, <1>2 DEF PromptInv, Pins, Preparing, Asleep
  <1>4. Tunnel'
    BY <1>1, <1>2 DEF PromptInv, Tunnel, Asleep
  <1> QED
    BY <1>3, <1>4

\* There is a connection from here on.
LEMMA GatePins ==
    ASSUME PromptInv, NEW r \in Runs, Gate(r)
    PROVE  Pins' /\ Tunnel'
  <1>1. /\ micro = <<>> /\ pc[r] = "gate" /\ pc' = [pc EXCEPT ![r] = "clean"]
        /\ connection' = TRUE
        /\ UNCHANGED <<lifecycleGeneration, tdPc, tdStopped, core, coreRun, started,
                       pinned, tunnel>>
    BY DEF Gate, At, Macrotask, Move, StartVpnFrame, coreVars, teardownVars, jobVars
  <1>2. r = lifecycleGeneration /\ Here = "gate" /\ Here' = "clean" /\ tdPc = "idle"
    BY <1>1, HereMoves DEF PromptInv, Asleep
  <1>3. Pins'
    BY <1>1, <1>2 DEF PromptInv, Pins, Preparing, Asleep
  <1>4. Tunnel'
    BY <1>1, <1>2 DEF PromptInv, Tunnel, Asleep
  <1> QED
    BY <1>3, <1>4

\* There was no tunnel left over, nor did a teardown drop the connection.
LEMMA CleanPins ==
    ASSUME PromptInv, NEW r \in Runs, Clean(r)
    PROVE  Pins' /\ Tunnel'
  <1>1. /\ micro = <<>> /\ pc[r] = "clean"
        /\ tunnel' \in {None, tunnel}
        /\ UNCHANGED <<lifecycleGeneration, tdPc, tdStopped, core, coreRun, started,
                       pinned, connection>>
    BY DEF Clean, At, Macrotask, StartVpnFrame, coreVars, teardownVars, jobVars
  <1>2. r = lifecycleGeneration /\ Here = "clean" /\ tdPc = "idle"
    BY <1>1, Awake DEF PromptInv, Asleep
  <1>3. connection
    BY <1>2 DEF PromptInv, Tunnel
  <1>4. pc' = [pc EXCEPT ![r] = "auth"]
    BY <1>2, <1>3 DEF Clean, Move
  <1>5. Here' = "auth"
    BY <1>1, <1>4, HereMoves DEF PromptInv, Asleep
  <1>6. ~started /\ tunnel = None
    BY <1>2 DEF PromptInv, Tunnel, Inv, Kernel, Preparing
  <1>7. Pins'
    BY <1>1, <1>2, <1>5 DEF PromptInv, Pins, Preparing, Asleep
  <1>8. Tunnel'
    BY <1>1, <1>3, <1>5, <1>6, <1>2 DEF PromptInv, Tunnel, Asleep
  <1> QED
    BY <1>7, <1>8

\* The system granted it: nothing dropped the connection meanwhile.
LEMMA AuthPins ==
    ASSUME PromptInv, NEW r \in Runs, Auth(r)
    PROVE  Pins' /\ Tunnel'
  <1>1. /\ micro = <<>> /\ pc[r] = "auth"
        /\ UNCHANGED <<lifecycleGeneration, tdPc, tdStopped, core, coreRun, started,
                       pinned, connection>>
    BY DEF Auth, At, Macrotask, StartVpnFrame, coreVars, teardownVars, jobVars
  <1>2. r = lifecycleGeneration /\ Here = "auth" /\ tdPc = "idle"
    BY <1>1, Awake DEF PromptInv, Asleep
  <1>3. connection
    BY <1>2 DEF PromptInv, Tunnel
  <1>4. pc' = [pc EXCEPT ![r] = "protect"]
    BY <1>2, <1>3 DEF Auth, Move
  <1>5. Here' = "protect"
    BY <1>1, <1>4, HereMoves DEF PromptInv, Asleep
  <1>6. Pins'
    BY <1>1, <1>2, <1>5 DEF PromptInv, Pins, Preparing, Asleep
  <1>7. Tunnel'
    BY <1>1, <1>2, <1>3, <1>5 DEF PromptInv, Tunnel, Asleep
  <1> QED
    BY <1>6, <1>7

\* The kernel starts on the resources that its run pinned.
LEMMA AskPins ==
    ASSUME PromptInv, NEW r \in Runs, Protect(r), core = "stopped"
    PROVE  Pins' /\ Tunnel'
  <1>1. /\ micro = <<>> /\ pc[r] = "protect" /\ pc' = [pc EXCEPT ![r] = "core"]
        /\ coreRun' = r
        /\ UNCHANGED <<lifecycleGeneration, tdPc, tdStopped, started, pinned,
                       connection, tunnel>>
    BY DEF Protect, At, Macrotask, Move, StartVpnFrame, platformVars, teardownVars,
           jobVars
  <1>2. r = lifecycleGeneration /\ Here = "protect" /\ Here' = "core" /\ tdPc = "idle"
    BY <1>1, HereMoves DEF PromptInv, Asleep
  <1>3. Pins'
    BY <1>1, <1>2 DEF PromptInv, Pins, Preparing, Asleep
  <1>4. Tunnel'
    BY <1>1, <1>2 DEF PromptInv, Tunnel, Asleep
  <1> QED
    BY <1>3, <1>4

LEMMA UpPins ==
    ASSUME PromptInv, NEW r \in Runs, CoreResolved(r)
    PROVE  Pins' /\ Tunnel'
  <1>1. micro = <<>> /\ pc[r] = "core"
    BY DEF CoreResolved, UpIf, At, Macrotask
  <1>2. starting /\ r = lifecycleGeneration
    BY <1>1, Awake DEF PromptInv, Asleep
  <1>3. /\ pc' = [pc EXCEPT ![r] = "record"] /\ started' = TRUE
        /\ UNCHANGED <<lifecycleGeneration, tdPc, tdStopped, core, coreRun, pinned,
                       connection, tunnel>>
    BY <1>2 DEF CoreResolved, UpIf, Move, StartVpnFrame, platformVars, coreVars,
           teardownVars, jobVars
  <1>4. Here = "core" /\ Here' = "record" /\ tdPc = "idle"
    BY <1>1, <1>3, HereMoves DEF PromptInv, Asleep
  <1>5. Pins'
    BY <1>3, <1>4 DEF PromptInv, Pins, Preparing, Asleep
  <1>6. Tunnel'
    BY <1>3, <1>4 DEF PromptInv, Tunnel, Asleep
  <1> QED
    BY <1>5, <1>6

\* A run goes to sleep on its teardown, which stops the kernel first.
LEMMA SleepPins ==
    ASSUME PromptInv, NEW r \in Runs, micro = <<>>, pc[r] \in {"decide", "failed"},
           pc[r] = "decide" => started,
           NEW b \in Asleep, pc' = [pc EXCEPT ![r] = b],
           pc[r] = "failed" => b = "rollback",
           Teardown(TRUE, <<RunToken(r)>>),
           UNCHANGED <<lifecycleGeneration, starting, micro, netPc, pinned, started,
                       connection, tunnel>>
    PROVE  Pins' /\ Tunnel'
  <1>1. /\ Here = pc[r] /\ Here' = b /\ tdPc' = "stop"
        /\ tdStopped' = (core = "stopped")
        /\ core' = IF core = "running" THEN "stopping" ELSE core
        /\ coreRun' = coreRun
    <2>1. Inv /\ pc[r] \notin {"new", "done"} \cup Asleep
      BY DEF PromptInv, Asleep
    <2> QED
      BY <2>1, Sleeps
  <1>2. (core' = "stopped" <=> core = "stopped") /\ (tdStopped' => core' = "stopped")
    BY <1>1
  <1>3. Pins'
    BY <1>1, <1>2 DEF PromptInv, Pins, Preparing, Asleep
  <1>4. Tunnel'
    BY <1>1 DEF PromptInv, Tunnel, Asleep
  <1> QED
    BY <1>3, <1>4

LEMMA SleepStepsPins ==
    ASSUME PromptInv, NEW r \in Runs,
           \/ Failed(r)
           \/ Decide(r) /\ Wanted # None /\ started /\ (Wanted # currentRunId \/ forceRestart)
    PROVE  Pins' /\ Tunnel'
  <1>1. CASE Failed(r)
    <2>1. /\ micro = <<>> /\ pc[r] = "failed" /\ pc' = [pc EXCEPT ![r] = "rollback"]
          /\ Teardown(TRUE, <<RunToken(r)>>)
          /\ UNCHANGED <<lifecycleGeneration, starting, micro, netPc, pinned, started,
                         connection, tunnel>>
      BY <1>1 DEF Failed, FailedUnless, At, Macrotask, Move, fieldVars, platformVars,
             jobVars
    <2> QED
      BY <2>1, SleepPins DEF Asleep
  <1>2. CASE /\ Decide(r) /\ Wanted # None
             /\ started /\ (Wanted # currentRunId \/ forceRestart)
    <2>1. /\ micro = <<>> /\ pc[r] = "decide" /\ pc' = [pc EXCEPT ![r] = "switch"]
          /\ Teardown(TRUE, <<RunToken(r)>>)
          /\ UNCHANGED <<lifecycleGeneration, starting, micro, netPc, pinned, started,
                         connection, tunnel>>
      BY <1>2 DEF Decide, At, Macrotask, Move, platformVars
    <2> QED
      BY <1>2, <2>1, SleepPins DEF Asleep
  <1> QED
    BY <1>1, <1>2

\* A run ends, and leaves the kernel of a session or none.
LEMMA EndPins ==
    ASSUME MaxCuts = 0, MaxNets = 0, PromptInv, NEW r \in Runs,
           \/ Decide(r) /\ Wanted = None
           \/ Clear(r)
           \/ ResumeRun(r) /\ pc[r] = "rollback"
    PROVE  Pins' /\ Tunnel'
  <1>1. /\ r = lifecycleGeneration /\ tdPc = "idle" /\ Finally(r, <<>>)
        /\ Here \in {"decide", "replay", "clear", "rollback"}
    BY EndsWhere DEF PromptInv
  <1>2. UNCHANGED <<netPc, tdPc, tdSilent, tdStopped, waiters, startReply, core, coreRun,
                    pinned, started, connection, tunnel>>
    <2> USE DEF platformVars, coreVars, teardownVars, jobVars
    <2>1. CASE Decide(r) /\ Wanted = None
      BY <2>1 DEF Decide
    <2>2. CASE Clear(r)
      BY <2>2 DEF Clear
    <2>3. CASE ResumeRun(r) /\ pc[r] = "rollback"
      BY <2>3 DEF ResumeRun
    <2> QED
      BY <2>1, <2>2, <2>3
  <1>3. Here' \in {"refresh", "done"}
    BY <1>1, <1>2, Ends DEF PromptInv
  <1>4. core # "stopped" => started
    BY <1>1 DEF PromptInv, Pins, Asleep
  <1>5. tunnel # None => started
    BY <1>1 DEF PromptInv, Tunnel, Asleep
  <1>6. Pins'
    BY <1>1, <1>2, <1>3, <1>4 DEF PromptInv, Pins, Preparing, Asleep
  <1>7. Tunnel'
    BY <1>1, <1>2, <1>3, <1>5 DEF PromptInv, Tunnel, Asleep
  <1> QED
    BY <1>6, <1>7

\* The run that switched goes on, with no kernel and no tunnel.
LEMMA ResumePins ==
    ASSUME PromptInv, NEW r \in Runs, ResumeRun(r), pc[r] = "switch"
    PROVE  Pins' /\ Tunnel'
  <1>1. /\ micro # <<>> /\ Head(micro) = RunToken(r) /\ pc' = [pc EXCEPT ![r] = "load"]
        /\ UNCHANGED <<lifecycleGeneration, tdPc, tdStopped, core, coreRun, pinned,
                       started, connection, tunnel>>
    BY DEF ResumeRun, Move, platformVars, coreVars, teardownVars, jobVars
  <1>2. r = lifecycleGeneration /\ tdPc = "idle" /\ Here = "switch"
    BY <1>1, Resumes DEF PromptInv
  <1>3. Here' = "load"
    <2>1. lifecycleGeneration # 0
      BY <1>2 DEF Here
    <2>2. pc'[r] = "load"
      BY <1>1 DEF PromptInv, Inv, Typed, TypedRuns
    <2> QED
      BY <1>1, <1>2, <2>1, <2>2 DEF Here
  <1>4. Pins'
    BY <1>1, <1>2, <1>3 DEF PromptInv, Pins, Preparing, Asleep
  <1>5. Tunnel'
    BY <1>1, <1>2, <1>3 DEF PromptInv, Tunnel, Asleep
  <1> QED
    BY <1>4, <1>5

\* The pins are taken once stopCore answered, the tunnel is gone once destroy did.
LEMMA TeardownPins ==
    ASSUME MayTimeOut = FALSE, PromptInv, TeardownStep
    PROVE  Pins' /\ Tunnel'
  <1>1. CASE TdStopped
    <2>1. /\ tdPc = "stop" /\ tdStopped
          /\ tdPc' = IF connection THEN "destroy" ELSE "persist"
          /\ UNCHANGED <<pc, lifecycleGeneration, tdStopped, core, coreRun, started,
                         connection, tunnel>>
      BY <1>1 DEF TdStopped, Unpin, platformVars, coreVars, runVars
    <2>2. Here' = Here /\ core = "stopped"
      BY <2>1, HereStays DEF PromptInv, Pins
    <2>3. Pins'
      <3>1. Here \notin Preparing \cup {"gate", "clean", "auth", "protect"}
        BY <2>1 DEF PromptInv, Inv, Single, Preparing, Asleep
      <3> QED
        BY <2>1, <2>2, <3>1 DEF Pins
    <2>4. Tunnel'
      BY <2>1, <2>2 DEF PromptInv, Tunnel
    <2> QED
      BY <2>3, <2>4
  <1>2. CASE TdDestroyed
    <2>1. /\ tdPc = "destroy" /\ tdPc' = "persist" /\ tunnel' = None
          /\ UNCHANGED <<pc, lifecycleGeneration, tdStopped, core, coreRun, started,
                         pinned>>
      BY <1>2 DEF TdDestroyed, coreVars, runVars, jobVars
    <2>2. Here' = Here /\ Here \in Asleep
      BY <2>1, HereStays DEF PromptInv, Inv, Single
    <2>3. Pins'
      BY <2>1, <2>2 DEF PromptInv, Pins
    <2>4. Tunnel'
      BY <2>1, <2>2 DEF Tunnel, Asleep
    <2> QED
      BY <2>3, <2>4
  <1>3. CASE TdPersisted
    <2>1. /\ tdPc = "persist" /\ tdPc' = "idle" /\ started' = FALSE
          /\ UNCHANGED <<pc, lifecycleGeneration, tdStopped, core, coreRun, pinned,
                         connection, tunnel>>
      BY <1>3 DEF TdPersisted, Down, platformVars, coreVars, runVars
    <2>2. /\ Here' = Here /\ Here \in Asleep
          /\ core = "stopped" /\ tunnel = None
      BY <2>1, HereStays DEF PromptInv, Inv, Single, Pins, Tunnel
    <2>3. Pins'
      BY <2>1, <2>2 DEF PromptInv, Pins
    <2>4. Tunnel'
      BY <2>1, <2>2 DEF PromptInv, Tunnel
    <2> QED
      BY <2>3, <2>4
  <1> QED
    BY <1>1, <1>2, <1>3 DEF TeardownStep

\* The kernel goes up only while a run waits for it, or down.
LEMMA CorePins ==
    ASSUME PromptInv, CoreStep
    PROVE  Pins' /\ Tunnel'
  <1>1. /\ core # "stopped" /\ coreRun' = coreRun
        /\ \/ core' = "running" /\ tdStopped' = tdStopped
           \/ core' = "stopped"
        /\ UNCHANGED <<pc, lifecycleGeneration, tdPc, pinned, started, connection, tunnel>>
    BY DEF CoreStep, CoreUp, CoreNotUp, CoreDown, CoreFrame, fieldVars, platformVars,
           runVars, jobVars
  <1>2. Here' = Here
    BY <1>1, HereStays
  <1>3. Pins'
    BY <1>1, <1>2 DEF PromptInv, Pins
  <1>4. Tunnel'
    BY <1>1, <1>2 DEF PromptInv, Tunnel
  <1> QED
    BY <1>3, <1>4

\* tryStart is called: a run begins on a session or on nothing.
LEMMA EnterPins ==
    ASSUME MaxCuts = 0, MaxNets = 0, PromptInv,
           \/ \E p, force : Want(p, force)
           \/ \E d \in Deliveries : ApplyCheck(d) /\ ~SettingsMismatch(d)
    PROVE  Pins' /\ Tunnel'
  <1>1. UNCHANGED <<tdPc, tdStopped, core, coreRun, pinned, started, connection, tunnel>>
    BY Entries
  <1>2. \/ Here = "done" /\ Here' = "refresh"
        \/ Here' = Here /\ lifecycleGeneration' = lifecycleGeneration
    BY Entries, Enters DEF PromptInv
  <1>3. Pins'
    BY <1>1, <1>2 DEF PromptInv, Pins, Preparing, Asleep
  <1>4. Tunnel'
    BY <1>1, <1>2 DEF PromptInv, Tunnel, Asleep
  <1> QED
    BY <1>3, <1>4

\* What leaves kernel, tunnel and run alone.
LEMMA FramePins ==
    ASSUME PromptInv,
           UNCHANGED <<pc, lifecycleGeneration, tdPc, tdStopped, core, coreRun, pinned,
                       started, connection, tunnel>>
    PROVE  Pins' /\ Tunnel'
  <1>1. Here' = Here
    BY HereStays
  <1>2. Pins'
    BY <1>1 DEF PromptInv, Pins
  <1>3. Tunnel'
    BY <1>1 DEF PromptInv, Tunnel
  <1> QED
    BY <1>2, <1>3

LEMMA RunPins ==
    ASSUME MaxCuts = 0, MaxNets = 0, PromptInv, NEW r \in Runs, RunStep(r)
    PROVE  Pins' /\ Tunnel'
  <1>1. CASE \/ Refresh(r) \/ Throw(r) \/ Load(r) \/ CoreRejected(r) \/ Record(r)
             \/ Announce(r)
    BY <1>1, PlainStepsPins
  <1>2. CASE Decide(r)
    <2>1. CASE Wanted = None
      BY <1>2, <2>1, EndPins
    <2>2. CASE Wanted # None /\ started /\ (Wanted # currentRunId \/ forceRestart)
      BY <1>2, <2>2, SleepStepsPins
    <2>3. CASE Wanted # None /\ ~(started /\ (Wanted # currentRunId \/ forceRestart))
      BY <1>2, <2>3, PlainStepsPins
    <2> QED
      BY <2>1, <2>2, <2>3
  <1>3. CASE Clear(r)
    BY <1>3, EndPins
  <1>4. CASE Write(r) \/ Gate(r) \/ Clean(r) \/ Auth(r)
    BY <1>4, WritePins, GatePins, CleanPins, AuthPins
  <1>5. CASE Protect(r)
    BY <1>5, AskPins, PlainStepsPins
  <1>6. CASE CoreResolved(r)
    BY <1>6, UpPins
  <1>7. CASE Failed(r)
    BY <1>7, SleepStepsPins
  <1>8. CASE ResumeRun(r)
    <2>1. pc[r] = "switch" \/ pc[r] = "rollback"
      BY <1>8 DEF ResumeRun
    <2> QED
      BY <1>8, <2>1, ResumePins, EndPins
  <1> QED
    BY <1>1, <1>2, <1>3, <1>4, <1>5, <1>6, <1>7, <1>8 DEF RunStep

LEMMA ApplyPins ==
    ASSUME MaxCuts = 0, MaxNets = 0, PromptInv, NEW d \in Deliveries,
           Deliver(d) \/ ApplyStep(d)
    PROVE  Pins' /\ Tunnel'
  <1> USE DEF vars, fieldVars, platformVars, coreVars, teardownVars, runVars, jobVars
  <1>1. CASE Deliver(d)
    BY <1>1, FramePins DEF Deliver, Handle
  <1>2. CASE ApplyRefresh(d)
    BY <1>2, FramePins DEF ApplyRefresh
  <1>3. CASE ApplyCheck(d) /\ SettingsMismatch(d)
    BY <1>3, FramePins DEF ApplyCheck
  <1>4. CASE ApplyCheck(d) /\ ~SettingsMismatch(d)
    BY <1>4, EnterPins
  <1>5. CASE ResumeApply(d)
    BY <1>5, FramePins DEF ResumeApply, Acknowledge
  <1> QED
    BY <1>1, <1>2, <1>3, <1>4, <1>5 DEF ApplyStep

LEMMA StepPins ==
    ASSUME MaxCuts = 0, MaxNets = 0, MayTimeOut = FALSE
    PROVE  PromptInv /\ [ApplyNext]_allVars => PromptInv'
  <1> SUFFICES ASSUME PromptInv, [ApplyNext]_allVars PROVE Pins' /\ Tunnel'
    BY StepInv DEF PromptInv
  <1>1. CASE UNCHANGED allVars
    BY <1>1, FramePins DEF allVars, vars, fieldVars, platformVars, coreVars, teardownVars,
                           runVars, jobVars
  <1>2. CASE Next /\ UNCHANGED applyVars
    <2>1. CASE Input
      <3>1. CASE Save
        BY <3>1, FramePins DEF Save, fieldVars, platformVars, coreVars, teardownVars,
               runVars, jobVars
      <3>2. CASE \E p, force : Want(p, force)
        BY <3>2, EnterPins
      <3> QED
        BY <2>1, <3>1, <3>2, Undisturbed DEF Input, PromptInv
    <2>2. ASSUME NEW r \in Runs, RunStep(r) PROVE Pins' /\ Tunnel'
      BY <2>2, RunPins
    <2>3. CASE TeardownStep
      BY <2>3, TeardownPins
    <2>4. CASE CoreStep
      BY <2>4, CorePins
    <2>5. ~NetStep
      BY Undisturbed DEF PromptInv
    <2> QED
      BY <1>2, <2>1, <2>2, <2>3, <2>4, <2>5 DEF Next
  <1>3. ASSUME NEW d \in Deliveries, Deliver(d) \/ ApplyStep(d) PROVE Pins' /\ Tunnel'
    BY <1>3, ApplyPins
  <1> QED
    BY <1>1, <1>2, <1>3 DEF ApplyNext

LEMMA InitPins == MaxCuts = 0 /\ MaxNets = 0 /\ ApplyInit => PromptInv
  <1> SUFFICES ASSUME MaxCuts = 0, MaxNets = 0, ApplyInit PROVE Pins /\ Tunnel
    BY InitInv DEF PromptInv
  <1>1. Here = "done"
    BY DEF ApplyInit, Init, Here
  <1> QED
    BY <1>1 DEF ApplyInit, Init, Pins, Tunnel, Preparing, Asleep

LEMMA PromptInvariant ==
    ASSUME MaxCuts = 0, MaxNets = 0, MayTimeOut = FALSE
    PROVE  ApplySpec => []PromptInv
  <1>1. ApplyInit => PromptInv
    BY InitPins
  <1>2. PromptInv /\ [ApplyNext]_allVars => PromptInv'
    BY StepPins
  <1> QED
    BY <1>1, <1>2, PTL DEF ApplySpec

\* The resource files of a run stay pinned until its kernel has stopped
\* (startVpn pins them in place of any others, doTeardown unpins after stopCore):
\* also while applies force one restart after another, if the kernel answers in
\* time.
THEOREM PinsKept ==
    ASSUME MaxCuts = 0, MaxNets = 0, MayTimeOut = FALSE
    PROVE  ApplySpec => []PinnedUntilStopped
  <1>1. PromptInv => PinnedUntilStopped
    BY DEF PromptInv, Pins, PinnedUntilStopped
  <1> QED
    BY <1>1, PromptInvariant, PTL

\* No tunnel is left behind by a session that is over (startVpn creates it,
\* doTeardown destroys it while it has the connection): also by a restart that
\* an apply forced and that failed.
THEOREM TunnelsGone ==
    ASSUME MaxCuts = 0, MaxNets = 0, MayTimeOut = FALSE
    PROVE  ApplySpec => []NoTunnelLeft
  <1>1. PromptInv => NoTunnelLeft
    <2> SUFFICES ASSUME PromptInv, Quiet, ~started PROVE tunnel = None
      BY DEF NoTunnelLeft
    <2>1. Here \in {"new", "done"}
      <3>1. \A r \in Runs : pc[r] \in {"new", "done"}
        BY DEF Quiet, Idle
      <3> QED
        BY <3>1 DEF Here, PromptInv, Inv, Typed, TypedRuns
    <2> QED
      BY <2>1 DEF PromptInv, Tunnel
  <1> QED
    BY <1>1, PromptInvariant, PTL

\* Two runs never build a session at the same time (tryStart returns while
\* `starting' holds): also with the restarts that applies force.
THEOREM OneBuilds ==
    ASSUME MaxCuts = 0, MaxNets = 0
    PROVE  ApplySpec => []OneStart
  <1>1. Inv => OneStart
    <2> SUFFICES ASSUME Inv, NEW r \in Runs, NEW q \in Runs,
                        pc[r] \in Building, pc[q] \in Building
                 PROVE  r = q
      BY DEF OneStart
    <2>1. r = lifecycleGeneration /\ q = lifecycleGeneration
      BY Numbers DEF Building, Inv, Single, Typed, TypedRuns
    <2> QED
      BY <2>1
  <1> QED
    BY <1>1, Invariant, PTL

==============================================================================
