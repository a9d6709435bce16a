----------------------------- MODULE VpnLifecycle -----------------------------
(***************************************************************************)
(* The life of the VPN extension (VpnExtAbility.ets): Wants from the UI    *)
(* process, tryStart / startVpn, the shared teardown, the reset after a    *)
(* network change, and the native core they drive.                         *)
(*                                                                         *)
(* The extension is one JavaScript event loop: a handler runs without      *)
(* interruption up to its next await.  A step is such a stretch.  The      *)
(* coroutines that wait for the shared teardown, or for a tryStart they    *)
(* called, resume as microtasks: in order, before anything else runs       *)
(* (`micro').  Everything else that resumes a coroutine is a macrotask.    *)
(* A run of tryStart is named by the lifecycle generation it took.         *)
(***************************************************************************)
EXTENDS Naturals, Sequences

CONSTANTS Profiles,       \* profile ids a Want may ask for
          None,           \* no profile, no run
          MaxWants,       \* Wants (onCreate, onRequest, onConnect)
          MaxCuts,        \* onDisconnect and onDestroy calls
          MaxNets,        \* network changes that reach the debounce timer
          MaxApplies,     \* apply commands (see ApplyTransaction)
          MaxSaves,       \* settings the UI process writes
          MayTimeOut      \* stopCore, startCore and destroy may fail to answer in time

ASSUME LifecycleAssumption ==
    /\ None \notin Profiles \cup Nat
    /\ MaxWants \in Nat /\ MaxCuts \in Nat /\ MaxNets \in Nat
    /\ MaxApplies \in Nat /\ MaxSaves \in Nat
    /\ MayTimeOut \in BOOLEAN

VARIABLES
    started, starting, currentRunId, lifecycleGeneration, restartRequested,
    latestRequested, forceRestart,
    netListening,   \* netConnection is registered
    pendingPref, runningPref,   \* the two profile ids kept in Preferences
    saved,          \* revision of the settings in the Preferences file
    cache,          \* revision of this process's read cache of it
    connection,     \* vpnConnection is not null
    tunnel,         \* the run whose TUN is up, or None
    pinned,         \* the run whose resource files are pinned, or None
    configFile,     \* the run that last wrote the kernel's config file
    core,           \* the native core: "stopped", "starting", "running", "stopping"
    coreRun,        \* the run whose start call it last accepted
    coreConf,       \* the run whose config the kernel read
    coreCancelled,  \* a stop met the start in progress
    pc, target, rev, startReply,   \* of each run
    callers,        \* coroutines that await each run
    tdPc, tdSilent, tdStopped, waiters,   \* the shared teardown
    netPc,          \* the reset after a network change
    micro,          \* coroutines ready to resume, in order
    status,         \* the last status published: [text, profile]
    wants, cuts, nets,  \* inputs used so far
    lastCut         \* the generation the last onDisconnect or onDestroy took

fieldVars == <<started, starting, currentRunId, lifecycleGeneration,
               restartRequested>>
requestVars == <<latestRequested, forceRestart, netListening, pendingPref>>
storeVars == <<saved, cache>>
platformVars == <<connection, tunnel>>
coreVars == <<core, coreRun, coreConf, coreCancelled, startReply>>
teardownVars == <<tdPc, tdSilent, tdStopped, waiters>>
runVars == <<pc, callers>>
jobVars == <<target, rev, pinned, configFile, runningPref>>
inputVars == <<wants, cuts, nets, lastCut>>
vars == <<fieldVars, requestVars, storeVars, platformVars, coreVars,
          teardownVars, runVars, jobVars, netPc, micro, status, inputVars>>

\* Every call of tryStart, and every cut, takes one generation.
Runs == 1..(MaxWants + MaxCuts + MaxNets + MaxApplies)

Init ==
    /\ started = FALSE /\ starting = FALSE
    /\ currentRunId = None /\ lifecycleGeneration = 0
    /\ restartRequested = FALSE
    /\ latestRequested = None /\ forceRestart = FALSE /\ netListening = FALSE
    /\ pendingPref = None /\ runningPref = None
    /\ saved = 1 /\ cache = 1
    /\ connection = FALSE /\ tunnel = None
    /\ pinned = None /\ configFile = None
    /\ core = "stopped" /\ coreRun = None /\ coreConf = None
    /\ coreCancelled = FALSE
    /\ pc = [r \in Runs |-> "new"]
    /\ target = [r \in Runs |-> None]
    /\ rev = [r \in Runs |-> 0]
    /\ startReply = [r \in Runs |-> "none"]
    /\ callers = [r \in Runs |-> <<>>]
    /\ tdPc = "idle" /\ tdSilent = FALSE /\ tdStopped = FALSE /\ waiters = <<>>
    /\ netPc = "idle"
    /\ micro = <<>>
    /\ status = [text |-> "none", profile |-> None]
    /\ wants = 0 /\ cuts = 0 /\ nets = 0 /\ lastCut = 0

RunToken(r) == <<"run", r>>
NetToken == <<"net", 0>>

Publish(text, profile) == status' = [text |-> text, profile |-> profile]

\* Nothing else runs while microtasks are waiting.
Macrotask == micro = <<>>

-------------------------------------------------------------------------------
(* The entry and the finally block of tryStart. *)

\* Up to the first await: while busy only note the wish, else take a generation.
EnterUnless(busy, pcs, tokens) ==
    LET n == lifecycleGeneration + 1
    IN  IF busy
        THEN /\ restartRequested' = TRUE
             /\ pc' = pcs
             /\ UNCHANGED <<starting, lifecycleGeneration, callers>>
        ELSE /\ starting' = TRUE /\ restartRequested' = FALSE
             /\ lifecycleGeneration' = n
             /\ pc' = [pcs EXCEPT ![n] = "refresh"]
             /\ callers' = [callers EXCEPT ![n] = tokens]

\* A tryStart that never looks at `starting'.
EnterAgain(pcs, tokens) == EnterUnless(FALSE, pcs, tokens)

Enter(pcs, tokens) == EnterUnless(starting, pcs, tokens)

\* The finally block: if another start is wanted, it begins at once; then
\* whoever awaited this run resumes.
End(r, queue, again) ==
    LET n == lifecycleGeneration + 1
    IN  /\ micro' = queue \o callers[r]
        /\ restartRequested' = FALSE
        /\ IF again
           THEN /\ starting' = TRUE /\ lifecycleGeneration' = n
                /\ pc' = [pc EXCEPT ![r] = "done", ![n] = "refresh"]
                /\ callers' = [callers EXCEPT ![n] = <<>>]
           ELSE /\ starting' = FALSE
                /\ pc' = [pc EXCEPT ![r] = "done"]
                /\ UNCHANGED <<lifecycleGeneration, callers>>

\* A start whose finally block does not run.
FinallyStuck(r, queue) ==
    /\ micro' = queue \o callers[r]
    /\ pc' = [pc EXCEPT ![r] = "done"]
    /\ UNCHANGED <<starting, restartRequested, lifecycleGeneration, callers>>

\* A finally block that drops the request noted while the run was starting.
FinallyForgets(r, queue) == End(r, queue, FALSE)

Finally(r, queue) == End(r, queue, restartRequested)

-------------------------------------------------------------------------------
(* The shared teardown. *)

\* A call of teardown() joins the one in progress, or begins doTeardown, which
\* calls stopCore before its first await.
Teardown(silent, tokens) ==
    IF tdPc # "idle"
    THEN /\ waiters' = waiters \o tokens
         /\ UNCHANGED <<tdPc, tdSilent, tdStopped, coreVars>>
    ELSE /\ tdPc' = "stop" /\ tdSilent' = silent
         /\ waiters' = tokens
         /\ tdStopped' = (core = "stopped")
         /\ core' = IF core = "running" THEN "stopping" ELSE core
         /\ coreCancelled' = (coreCancelled \/ core = "starting")
         /\ UNCHANGED <<coreRun, coreConf, startReply>>

\* After stopCore: unpin, then destroy the tunnel if there is a connection.
Unpin ==
    /\ Macrotask
    /\ tdPc = "stop"
    /\ pinned' = None
    /\ IF connection THEN tdPc' = "destroy" /\ UNCHANGED currentRunId
                     ELSE tdPc' = "persist" /\ currentRunId' = None
    /\ UNCHANGED <<started, starting, lifecycleGeneration, restartRequested,
                   requestVars, storeVars, platformVars, coreVars, tdSilent,
                   tdStopped, waiters, runVars, target, rev, configFile,
                   runningPref, netPc, micro, status, inputVars>>

\* A teardown that waits for the kernel however long it takes.
TdStoppedPatient == tdStopped /\ Unpin

\* stopCore answered, or its 8s are over.
TdStopped == (tdStopped \/ MayTimeOut) /\ Unpin

\* destroy answered, or failed, or its 5s are over: the connection is dropped.
TdDestroyed ==
    /\ Macrotask
    /\ tdPc = "destroy"
    /\ tdPc' = "persist"
    /\ tunnel' = None \/ (MayTimeOut /\ tunnel' = tunnel)
    /\ connection' = FALSE
    /\ currentRunId' = None
    /\ UNCHANGED <<started, starting, lifecycleGeneration, restartRequested,
                   requestVars, storeVars, coreVars, tdSilent, tdStopped,
                   waiters, runVars, jobVars, netPc, micro, status, inputVars>>

\* setRunningProfileId('') is written; the rest runs at once.
Down(wasStarted, pref) ==
    /\ Macrotask
    /\ tdPc = "persist"
    /\ tdPc' = "idle"
    /\ runningPref' = pref
    /\ started' = wasStarted /\ starting' = FALSE
    /\ micro' = waiters /\ waiters' = <<>>
    /\ IF tdSilent THEN UNCHANGED status ELSE Publish("disconnected", None)
    /\ UNCHANGED <<currentRunId, lifecycleGeneration, restartRequested,
                   requestVars, storeVars, platformVars, coreVars, tdSilent,
                   tdStopped, runVars, target, rev, pinned, configFile, netPc,
                   inputVars>>

\* A teardown that leaves the profile id in Preferences.
TdPersistedPref == Down(FALSE, runningPref)

TdPersisted == Down(FALSE, None)

-------------------------------------------------------------------------------
(* tryStart and startVpn, from one await to the next. *)

At(r, place) == Macrotask /\ pc[r] = place
Move(r, place) == pc' = [pc EXCEPT ![r] = place]

\* refreshStore dropped the read cache and opened the Preferences file again.
Refresh(r) ==
    /\ At(r, "refresh")
    /\ Move(r, "decide")
    /\ cache' = saved
    /\ UNCHANGED <<saved, fieldVars, requestVars, platformVars, coreVars,
                   teardownVars, callers, jobVars, netPc, micro, status,
                   inputVars>>

\* The profile tryStart is after.
Wanted == IF latestRequested # None THEN latestRequested ELSE pendingPref

Decide(r) ==
    /\ At(r, "decide")
    /\ target' = [target EXCEPT ![r] = Wanted]
    /\ UNCHANGED <<storeVars, started, currentRunId, latestRequested, netListening,
                   pendingPref, platformVars, rev, pinned, configFile,
                   runningPref, netPc, inputVars>>
    /\ \/ /\ Wanted = None   \* nothing to start: replay the state, or stand by
          /\ IF started THEN Publish("connected", currentRunId) ELSE UNCHANGED status
          /\ Finally(r, micro)
          /\ UNCHANGED <<forceRestart, coreVars, teardownVars>>
       \/ /\ Wanted # None /\ started
          /\ Wanted = currentRunId /\ ~forceRestart
          /\ Publish("connected", currentRunId)
          /\ Move(r, "replay")
          /\ UNCHANGED <<starting, lifecycleGeneration, restartRequested,
                         forceRestart, coreVars, teardownVars, callers, micro>>
       \/ /\ Wanted # None /\ started
          /\ Wanted # currentRunId \/ forceRestart
          /\ forceRestart' = FALSE
          /\ Publish("switching", Wanted)
          /\ Move(r, "switch")
          /\ Teardown(TRUE, <<RunToken(r)>>)
          /\ UNCHANGED <<starting, lifecycleGeneration, restartRequested,
                         callers, micro>>
       \/ /\ Wanted # None /\ ~started
          /\ Move(r, "load")
          /\ UNCHANGED <<starting, lifecycleGeneration, restartRequested,
                         forceRestart, coreVars, teardownVars, callers, micro,
                         status>>

\* Awaiting clearPendingProfileId: after a replay, or at the end of startVpn.
Clear(r) ==
    /\ pc[r] \in {"replay", "clear"} /\ Macrotask
    /\ pendingPref' = None
    /\ Finally(r, micro)
    /\ UNCHANGED <<started, currentRunId, latestRequested, forceRestart,
                   netListening, storeVars, platformVars, coreVars,
                   teardownVars, jobVars, netPc, status, inputVars>>

\* What a step of startVpn leaves alone.
StartVpnFrame ==
    UNCHANGED <<starting, lifecycleGeneration, restartRequested, requestVars,
                storeVars, teardownVars, callers, netPc, micro, inputVars>>

\* Any other await of tryStart or startVpn may throw.
Throw(r) ==
    /\ pc[r] \in {"refresh", "decide", "replay", "load", "write", "gate",
                 "auth", "protect", "record", "announce", "clear"}
    /\ Macrotask
    /\ Move(r, "failed")
    /\ StartVpnFrame
    /\ UNCHANGED <<started, currentRunId, platformVars, coreVars, jobVars, status>>

\* Profile and settings are read, from this process's cache.
Load(r) ==
    /\ At(r, "load")
    /\ Move(r, "write")
    /\ rev' = [rev EXCEPT ![r] = cache]
    /\ StartVpnFrame
    /\ UNCHANGED <<started, currentRunId, platformVars, coreVars, target,
                   pinned, configFile, runningPref, status>>

\* Rules and resources are read; the config is written to the one config file
\* and the resource files are pinned, in place of those of any other run.
WriteAs(r, pin) ==
    /\ At(r, "write")
    /\ Move(r, "gate")
    /\ configFile' = r
    /\ pinned' = pin
    /\ StartVpnFrame
    /\ UNCHANGED <<started, currentRunId, platformVars, coreVars, target, rev,
                   runningPref, status>>

\* A startVpn that pins nothing.
WriteUnpinned(r) == WriteAs(r, pinned)

Write(r) == WriteAs(r, r)

\* The config passed the check, or the check did not answer in time: there is a
\* connection from here on, and destroy is called for a left-over tunnel.
Gate(r) ==
    /\ At(r, "gate")
    /\ Move(r, "clean")
    /\ connection' = TRUE
    /\ StartVpnFrame
    /\ UNCHANGED <<started, currentRunId, tunnel, coreVars, jobVars, status>>

\* That destroy, which no timeout bounds, answered or failed; the system is
\* asked for the tunnel, in vain if a teardown dropped the connection meanwhile.
Clean(r) ==
    /\ At(r, "clean")
    /\ Move(r, IF connection THEN "auth" ELSE "failed")
    /\ tunnel' = None \/ (MayTimeOut /\ tunnel' = tunnel)
    /\ Publish("awaiting_auth", None)
    /\ StartVpnFrame
    /\ UNCHANGED <<started, currentRunId, connection, coreVars, jobVars>>

\* The system granted the tunnel; a cancelled start fails here, and so does one
\* whose connection was dropped meanwhile.  Else protectProcessNet is called.
Auth(r) ==
    /\ At(r, "auth")
    /\ tunnel' = r
    /\ Move(r, IF r = lifecycleGeneration /\ connection THEN "protect" ELSE "failed")
    /\ StartVpnFrame
    /\ UNCHANGED <<started, currentRunId, connection, coreVars, jobVars, status>>

\* protectProcessNet succeeded: the native core is asked to start.
Protect(r) ==
    /\ At(r, "protect")
    /\ IF core = "stopped"
       THEN /\ core' = "starting" /\ coreRun' = r /\ coreCancelled' = FALSE
            /\ Move(r, "core")
       ELSE /\ Move(r, "failed")   \* "core is not stopped"
            /\ UNCHANGED <<core, coreRun, coreCancelled>>
    /\ StartVpnFrame
    /\ UNCHANGED <<started, currentRunId, platformVars, coreConf, startReply,
                   jobVars, status>>

\* startCore rejected, or its 15s are over.
CoreRejected(r) ==
    /\ At(r, "core")
    /\ startReply[r] = "err" \/ (MayTimeOut /\ startReply[r] = "none")
    /\ Move(r, "failed")
    /\ StartVpnFrame
    /\ UNCHANGED <<started, currentRunId, platformVars, coreVars, jobVars, status>>

\* startCore resolved: the session is up if the start is still wanted.
UpIf(r, wanted, id) ==
    /\ At(r, "core")
    /\ startReply[r] = "ok"
    /\ IF wanted
       THEN Move(r, "record") /\ started' = TRUE /\ currentRunId' = id
       ELSE Move(r, "failed") /\ UNCHANGED <<started, currentRunId>>
    /\ StartVpnFrame
    /\ UNCHANGED <<platformVars, coreVars, jobVars, status>>

\* A startVpn that does not look whether it was cancelled meanwhile, and one
\* that takes the generation for the profile.
CoreResolvedUnchecked(r) == UpIf(r, TRUE, target[r])
CoreResolvedAsRun(r) == UpIf(r, starting /\ r = lifecycleGeneration, r)

CoreResolved(r) == UpIf(r, starting /\ r = lifecycleGeneration, target[r])

Record(r) ==
    /\ At(r, "record")
    /\ Move(r, "announce")
    /\ runningPref' = target[r]
    /\ StartVpnFrame
    /\ UNCHANGED <<started, currentRunId, platformVars, coreVars, target, rev,
                   pinned, configFile, status>>

Announce(r) ==
    /\ At(r, "announce")
    /\ Move(r, "clear")
    /\ Publish("connected", target[r])
    /\ StartVpnFrame
    /\ UNCHANGED <<started, currentRunId, platformVars, coreVars, jobVars>>

\* The catch block: clearPendingProfileId, then roll back with a silent teardown.
FailedUnless(r, rollback) ==
    /\ At(r, "failed")
    /\ Move(r, "rollback")
    /\ pendingPref' = None
    /\ IF rollback
       THEN Teardown(TRUE, <<RunToken(r)>>) /\ UNCHANGED micro
       ELSE UNCHANGED <<teardownVars, coreVars>> /\ micro' = <<RunToken(r)>>
    /\ UNCHANGED <<fieldVars, latestRequested, forceRestart, netListening,
                   storeVars, platformVars, callers, jobVars, netPc, status,
                   inputVars>>

\* A catch block that only reports.
FailedNoRollback(r) == FailedUnless(r, FALSE)

Failed(r) == FailedUnless(r, TRUE)

\* A run resumes after the teardown it awaited.
ResumeRun(r) ==
    /\ micro # <<>> /\ Head(micro) = RunToken(r)
    /\ \/ /\ pc[r] = "switch"
          /\ Move(r, "load")
          /\ starting' = TRUE
          /\ micro' = Tail(micro)
          /\ UNCHANGED <<lifecycleGeneration, restartRequested, callers, status>>
       \/ /\ pc[r] = "rollback"
          /\ Publish("connect_failed", None)
          /\ Finally(r, Tail(micro))
    /\ UNCHANGED <<started, currentRunId, requestVars, storeVars, platformVars,
                   coreVars, teardownVars, jobVars, netPc, inputVars>>

-------------------------------------------------------------------------------
(* The native core, as NativeCore implements it. *)

CoreFrame ==
    UNCHANGED <<fieldVars, requestVars, storeVars, platformVars, tdPc, tdSilent,
                waiters, runVars, jobVars, netPc, micro, status, inputVars>>

CoreUp ==
    /\ core = "starting" /\ ~coreCancelled
    /\ core' = "running" /\ coreConf' = configFile
    /\ startReply' = [startReply EXCEPT ![coreRun] = "ok"]
    /\ UNCHANGED <<coreRun, coreCancelled, tdStopped>>
    /\ CoreFrame

\* A start that failed, or that a stop cancelled and that was taken down again.
CoreNotUp ==
    /\ core = "starting"
    /\ core' = "stopped"
    /\ startReply' = [startReply EXCEPT ![coreRun] = "err"]
    /\ tdStopped' = (tdStopped \/ tdPc = "stop")
    /\ UNCHANGED <<coreRun, coreConf, coreCancelled>>
    /\ CoreFrame

CoreDown ==
    /\ core = "stopping"
    /\ core' = "stopped"
    /\ tdStopped' = (tdStopped \/ tdPc = "stop")
    /\ UNCHANGED <<coreRun, coreConf, coreCancelled, startReply>>
    /\ CoreFrame

-------------------------------------------------------------------------------
(* What reaches the extension from outside. *)

\* onCreate, onRequest, onConnect: hookLifecycle, then tryStart.
Want(p, force) ==
    /\ Macrotask
    /\ wants < MaxWants
    /\ wants' = wants + 1
    /\ latestRequested' = IF p # None THEN p ELSE latestRequested
    /\ pendingPref' = IF p # None THEN p ELSE pendingPref
    /\ forceRestart' = (forceRestart \/ force)
    /\ netListening' = TRUE
    /\ Enter(pc, <<>>)
    /\ UNCHANGED <<started, currentRunId, storeVars, platformVars, coreVars,
                   teardownVars, jobVars, netPc, micro, status, cuts, nets,
                   lastCut>>

\* onDisconnect, onDestroy.
Cut ==
    /\ Macrotask
    /\ cuts < MaxCuts
    /\ cuts' = cuts + 1
    /\ lifecycleGeneration' = lifecycleGeneration + 1
    /\ lastCut' = lifecycleGeneration'
    /\ netListening' = FALSE
    /\ Teardown(FALSE, <<>>)
    /\ UNCHANGED <<started, starting, currentRunId, restartRequested,
                   latestRequested, forceRestart, pendingPref, storeVars,
                   platformVars, runVars, jobVars, netPc, micro, status,
                   wants, nets>>

\* A network change arms the debounce timer.  The 15s window keeps a second
\* reset away until the first is over, so one of them is modelled at a time.
NetChange ==
    /\ Macrotask
    /\ netListening /\ netPc = "idle" /\ nets < MaxNets
    /\ started /\ ~starting
    /\ netPc' = "timer" /\ nets' = nets + 1
    /\ UNCHANGED <<fieldVars, requestVars, storeVars, platformVars, coreVars,
                   teardownVars, runVars, jobVars, micro, status, wants, cuts,
                   lastCut>>

\* The timer fired and the settings are read: drop the reset, or tear down.
NetReset ==
    /\ Macrotask
    /\ netPc = "timer"
    /\ IF started /\ ~starting /\ currentRunId # None
       THEN /\ netPc' = "down"
            /\ pendingPref' = currentRunId
            /\ forceRestart' = TRUE
            /\ Teardown(TRUE, <<NetToken>>)
       ELSE /\ netPc' = "idle"
            /\ UNCHANGED <<pendingPref, forceRestart, coreVars, teardownVars>>
    /\ UNCHANGED <<fieldVars, latestRequested, netListening, storeVars,
                   platformVars, runVars, jobVars, micro, status, inputVars>>

ResumeNet ==
    /\ micro # <<>> /\ Head(micro) = NetToken
    /\ micro' = Tail(micro)
    /\ netPc' = "idle"
    /\ Enter(pc, <<>>)
    /\ UNCHANGED <<started, currentRunId, requestVars, storeVars, platformVars,
                   coreVars, teardownVars, jobVars, status, inputVars>>

\* The UI process writes the settings; this process does not notice.
Save ==
    /\ Macrotask
    /\ saved <= MaxSaves
    /\ saved' = saved + 1
    /\ UNCHANGED <<fieldVars, requestVars, cache, platformVars, coreVars,
                   teardownVars, runVars, jobVars, netPc, micro, status,
                   inputVars>>

-------------------------------------------------------------------------------

RunStep(r) ==
    \/ Refresh(r) \/ Decide(r) \/ Clear(r) \/ Throw(r) \/ Load(r) \/ Write(r)
    \/ Gate(r) \/ Clean(r) \/ Auth(r) \/ Protect(r) \/ CoreRejected(r)
    \/ CoreResolved(r) \/ Record(r) \/ Announce(r) \/ Failed(r) \/ ResumeRun(r)

TeardownStep == TdStopped \/ TdDestroyed \/ TdPersisted
CoreStep == CoreUp \/ CoreNotUp \/ CoreDown
NetStep == NetReset \/ ResumeNet

Input ==
    \/ \E p \in Profiles \cup {None}, force \in BOOLEAN : Want(p, force)
    \/ Cut \/ NetChange \/ Save

Next ==
    \/ Input
    \/ \E r \in Runs : RunStep(r)
    \/ TeardownStep \/ CoreStep \/ NetStep

Spec == Init /\ [][Next]_vars

\* The awaits of a start that nothing bounds: the Preferences file, the resource
\* files, the removal of a left-over tunnel, the notification.
Unbounded == {"refresh", "decide", "replay", "load", "write", "clean", "record",
              "announce", "clear", "failed"}

\* Microtasks run, and an await under withTimeout ends; a teardown's last await,
\* of Preferences, is not one of these.  The native core answers unless it may
\* hang.  No input is owed.
Fairness ==
    /\ \A r \in Runs : WF_vars(pc[r] \notin Unbounded /\ RunStep(r))
    /\ WF_vars(tdPc # "persist" /\ TeardownStep)
    /\ WF_vars(ResumeNet)
    /\ MayTimeOut \/ WF_vars(CoreStep)
FairSpec == Spec /\ Fairness

-------------------------------------------------------------------------------
(* Properties. *)

\* Every variable stays in its type.
TypeOK ==
    /\ {started, starting, restartRequested, forceRestart, netListening,
        connection, coreCancelled, tdSilent, tdStopped} \subseteq BOOLEAN
    /\ {currentRunId, latestRequested, pendingPref, runningPref,
        status.profile} \subseteq Profiles \cup {None}
    /\ lifecycleGeneration \in Runs \cup {0}
    /\ saved \in 1..(MaxSaves + 1) /\ cache \in 1..saved
    /\ tunnel \in Runs \cup {None} /\ pinned \in Runs \cup {None}
    /\ configFile \in Runs \cup {None}
    /\ core \in {"stopped", "starting", "running", "stopping"}
    /\ coreRun \in Runs \cup {None} /\ coreConf \in Runs \cup {None}
    /\ pc \in [Runs -> {"new", "refresh", "decide", "replay", "switch", "load",
                        "write", "gate", "clean", "auth", "protect", "core",
                        "record", "announce", "clear", "failed", "rollback",
                        "done"}]
    /\ target \in [Runs -> Profiles \cup {None}]
    /\ rev \in [Runs -> 0..(MaxSaves + 1)]
    /\ startReply \in [Runs -> {"none", "ok", "err"}]
    /\ tdPc \in {"idle", "stop", "destroy", "persist"}
    /\ netPc \in {"idle", "timer", "down"}
    /\ lastCut \in 0..lifecycleGeneration

\* Nothing is in flight: no run, no teardown, no reset; and no native work.
Idle ==
    /\ micro = <<>> /\ tdPc = "idle" /\ netPc # "down"
    /\ \A r \in Runs : pc[r] \in {"new", "done"}
Quiet == Idle /\ core \in {"stopped", "running"}

\* The last Want that named a profile wins: whenever a session stands, it is
\* of that profile, whatever was queued, cut or reset meanwhile.
LatestWins == Quiet /\ started => currentRunId = latestRequested

\* `starting' never sticks: with nothing in flight the next Want starts at once,
\* and no noted request is left behind.
NotStuck == Idle => ~starting /\ ~restartRequested

Building == {"load", "write", "gate", "clean", "auth", "protect", "core",
             "record", "announce"}

\* Two starts never build a session at the same time: "the re-entrancy mark is
\* set before any await, else there would be double starts tearing each other
\* down".
OneStart == \A r, q \in Runs : {pc[r], pc[q]} \subseteq Building => r = q

\* Once settled, `started', the kernel, its config, the profile and the tunnel
\* agree.
SettledAgree ==
    Quiet => /\ started <=> core = "running"
             /\ started <=> currentRunId # None
             /\ started => /\ coreConf = coreRun /\ tunnel = coreRun
                           /\ target[coreRun] = currentRunId

\* Once settled, what was published and what Preferences keep for the UI
\* process is what runs.
SettledTold ==
    Quiet => /\ started <=> status.text = "connected"
             /\ started => status.profile = currentRunId
             /\ runningPref = currentRunId

\* The resource files of a run stay pinned until its kernel has stopped: "the
\* stability of the session's resources shall cover the time until the kernel
\* has stopped completely".
PinnedUntilStopped == core # "stopped" => pinned = coreRun

\* No tunnel is left behind by a session that is over.
NoTunnelLeft == Quiet /\ ~started => tunnel = None

\* A disconnect is not undone by what was under way: once everything has come
\* to rest, the session that stands was begun after the last of them.
CutHolds == Idle /\ started => coreRun > lastCut

\* Run r stands at an await that nothing bounds, of its own or of the teardown
\* it waits for.
HeldUp(r) ==
    \/ pc[r] \in Unbounded
    \/ pc[r] \in {"switch", "rollback"} /\ tdPc = "persist"

\* Nothing is under way but what is held up.
AtRest ==
    /\ \A r \in Runs : pc[r] \in {"new", "done"} \/ HeldUp(r)
    /\ tdPc \in {"idle", "persist"}
    /\ netPc = "down" => tdPc = "persist"

\* Every start, teardown and reset comes to its end, even if the kernel never
\* answers again and whatever becomes of the others: only an await of its own
\* that nothing bounds, and that never ends, can keep it from that.  (Inputs
\* are finitely many, so what comes to rest again and again stays there.)
Settles == []<>AtRest

-------------------------------------------------------------------------------
(* A claim of the plan that the code does not keep. *)

\* After a disconnect the kernel is down, so that another node can be started.
KernelDownWhenDown == Quiet /\ ~started => core = "stopped"
===============================================================================
