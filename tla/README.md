# NekoBox for HarmonyOS: a TLA+ model of its running core

This directory holds the TLA+ specification of the parts of NekoBox that run at
the same time as one another: the native core and its bridge, the registry of
test sessions, the life of the VPN extension, the switch and the apply
transaction between the UI process and the extension, the configuration store,
and the rounds of node probes. The specifications are translated from the
source under `src/`; every definition that models code is tied to its lines in
`PROJECT.json` ("map"). TLC checks them on small instances. TLAPS proves, for any
number of calls, Wants, nodes, crashes or faults, the safety properties of the
native core, the session registry, the life of the extension and its apply
transaction, the configuration store, the probe rounds and the switch of the UI,
and both refinements of an abstract specification.

## 1. The system

    UI process (ArkTS)             VPN extension process (ArkTS)         native threads
    ------------------             -----------------------------         --------------
    Index, VpnService      Want    VpnExtAbility                         napi_init.cpp (C++)
    ApplyCoordinator    -------->    onCreate/onRequest/onConnect   -->    start / stop threads
    EntryAbility        <--------    tryStart / startVpn / teardown <--    waiters, callbacks
    ConfigRepository    events       handleApplyCommand                        |
         |                           network reset                         main.go (Go)
         +---- Preferences files ----+                                     sessionstate.go
                (per-process cache)                                        sing-box (vendored)

The program is a VPN client. The user picks a node; the UI process starts the
VPN extension with a Want. The extension reads the profile and the settings from
Preferences, builds the configuration of sing-box, asks the system for a TUN
device and has the native core start sing-box on it. A change of settings while
connected is an *apply*: the UI process commits a snapshot with a revision,
sends a command, the extension restarts, and acknowledges.

### 1.1 Components

| component | state | operations | what makes it correct |
|---|---|---|---|
| **Native core bridge** `entry/src/main/cpp/napi_init.cpp` | `g_coreState`, `g_generation`, `g_cancelledGeneration`, `g_stopWaiters`, library handles | `startCoreNative`, `stopCoreNative`, one thread per call, callbacks into JavaScript | one owner of the kernel at a time; the state is that of the kernel; every call answered, once, with the truth |
| **Go kernel wrapper** `core/libsingbox14/main.go` | `globalBox`, `globalTunFd` under one mutex | `CGoSetTunFd`, `CGoStartSingBox`, `CGoStopSingBox`, the older singleton tester | an instance runs on the descriptor of its own start |
| **Test session registry** `core/libsingbox14/sessionstate` | sessions by id, tombstones, a sequence | `Start`, `Stop`, `BeginProbe`, pruning | one test instance at a time, closed once, never leaked; `Stop` returns after the close |
| **VPN extension lifecycle** `vpnext/VpnExtAbility.ets` | `started`, `starting`, `restartRequested`, `lifecycleGeneration`, `teardownPromise`, the VPN connection, pins | Wants, `tryStart`, `startVpn`, `teardown`, network reset, `onDisconnect`/`onDestroy` | one start at a time; the last request wins; a disconnect wins over a start; what is published is what runs |
| **Apply transaction, extension side** `VpnExtAbility.handleApplyCommand` | `applyingOperationId`, `appliedOperationId`, `lastAppliedRevision` | the `apply` command | an operation is acknowledged only when it runs; duplicates cause nothing new; always answered |
| **Preferences store** `model/Store.ets` | the files, a read cache per process | `refreshStore`, `saveSettings`, pending and running profile ids | a start reads what was saved |
| **Resource pins** `core/RuleSetRepository.ets` | pins by session | pin, release, collect | what the kernel reads is not collected |
| **Apply transaction, UI side** `core/ApplyCoordinator.ets`, `entryability/EntryAbility.ets`, `pages/Index.ets` | the pending operation, the result keys, a watchdog | begin, match a result, mark applied | a result is matched with the operation it answers |
| **VPN service** `core/VpnService.ets`, `VpnIpc`, `KeepAliveManager`, `CrashGuard` | an operation chain, generations, watchdogs, status keys | connect, disconnect, switch | requests keep their order; the keys agree with the extension once all is told; "connecting" ends |
| **Configuration store** `core/ConfigRepository.ets`, `SnapshotStore.ets` | snapshots, two manifest slots, the active revision | commit, roll back, recover, collect | an acknowledged revision survives a crash and is never rewritten; rollback points stay |
| **Subscriptions** `core/SubscriptionRepository.ets` and others | layers per group | refresh, override, merge | a late refresh never replaces a newer one |
| **Probes** `core/ProbeCoordinator.ets`, `ProbeRunner.ets` | the current round, a queue of batches, results | begin, start, split, isolate, stop, cancel | no node skipped or blamed for another; results final; no session left; the round ends |
| **Rule sets** `core/RuleSetRepository.ets` | versions, the current pointer, pins | download, switch, collect | a pinned version survives |
| **Traffic, configuration generation, backup, pages** | counters; none | display, translation, encoding | sequential data code |

### 1.2 How they interact

* The UI process and the extension share no memory. Wants carry a profile id and
  a force flag one way; *common events* carry status, results and commands. The
  settings go through Preferences files of which each process has a read cache.
* The extension calls the bridge with `startCore` and `stopCore`, each of which
  returns a promise that `withTimeout` bounds (15 s, 8 s). A promise given up on
  is not taken back: the native call goes on.
* The bridge runs the blocking Go calls on a thread per call and answers through
  a thread-safe function, which queues the callback to the JavaScript loop.

### 1.3 What is hard

* **Interleaving of native threads.** `startCore` publishes `Starting` and leaves
  the mutex for the whole start; a stop in that time cancels by generation and
  parks a waiter, which the *start* thread must answer.
* **Interleaving of coroutines.** The extension has one event loop, but `tryStart`
  has some fifteen awaits and `teardown` four; anything may run in between. The
  order in which those who share a promise resume is fixed, and matters.
* **Timeouts that do not cancel.** After a timeout the kernel may still come up,
  or still be stopping.
* **Stale state.** The settings cache, flags that outlive their request,
  a session that is published after it was torn down.
* **Delivery.** Commands may be delivered twice, or overlap.
* **Shared keys.** The UI keeps its state in keys that the requests of the user,
  two watchdogs and the events of the extension all write, and whose watchers
  run inside the write.
* **Crashes.** The configuration store may be cut off between any two file
  operations, and any of them may fail; the system may kill the extension.
* **Long protocols over an unreliable partner.** A round of probes goes on over
  a kernel that may answer late or never, and may be cancelled anywhere.

`PROJECT.json` lists each of these at the line where it bites ("hazards"), with
the property that would show it.

## 2. The modules

| module | models | extends |
|---|---|---|
| `CoreContract` | what the ArkTS code may rely on: a kernel one start holds at a time, and stops that are answered once it is down | |
| `NativeCore` | `napi_init.cpp` and the main instance of `main.go`, thread by thread | |
| `NativeCore_proofs` | the theorems about `NativeCore` | `NativeCore`, `TLAPS` |
| `TestSessions` | `sessionstate.go`, with create, close and the probe of `main.go` | |
| `TestSessions_proofs` | the theorems about `TestSessions` | `TestSessions`, `TLAPS` |
| `VpnLifecycle` | `VpnExtAbility.ets` from await to await, over the native core | |
| `VpnLifecycle_proofs` | the theorems about `VpnLifecycle` | `VpnLifecycle`, `TLAPS` |
| `MCVpnLifecycle` | the symmetry set of its runs | `VpnLifecycle` |
| `ApplyTransaction` | `handleApplyCommand`, composed with the lifecycle | `VpnLifecycle` |
| `MCApplyTransaction` | which inputs come together in `apply_settles` | `ApplyTransaction` |
| `ApplyTransaction_proofs` | the theorems about `ApplyTransaction` | `ApplyTransaction`, `FiniteSetTheorems`, `TLAPS` |
| `VpnControl` | `VpnService.ets` and the status keys of `EntryAbility.ets`, beside an extension reduced to its events | |
| `VpnControl_proofs` | the theorems about `VpnControl` | `VpnControl`, `TLAPS` |
| `UiApply` | `ApplyCoordinator.ets`, the page that uses it, and the result keys | `VpnControl` |
| `StoreContract` | one durable value with its history: what the callers of the store may rely on | |
| `ConfigStore` | `ConfigRepository.ets` over `SnapshotStore.ets`, one file operation at a time | |
| `ConfigStore_proofs` | the theorems about `ConfigStore` | `ConfigStore`, `TLAPS` |
| `ProbeRound` | `ProbeRunner.ets` and `ProbeCoordinator.ets` over the session registry | |
| `ProbeRound_proofs` | the theorems about `ProbeRound` | `ProbeRound`, `TLAPS` |

Modules meet at contracts. `NativeCore` implements `CoreContract`, and
`VpnLifecycle` has of the core what that contract says. `ProbeRound` has of the
registry what `TestSessions` shows: one live session, and a stop that answers
after the close. `UiApply` has of the store that a commit gives the next
revision, of the extension that it answers a command.

### 2.1 NativeCore

A *call* is one invocation of `startCoreNative` or `stopCoreNative`, made at most
once; `pc` says where its thread is. `coreState`, `coreGeneration`,
`cancelledGeneration`, `stopWaiters` and `libLoaded` are the globals of the
bridge; `tunFd` and `instance` those of the Go wrapper. `message`,
`stopMessage` and `detached` are locals of the threads, and `answer` is what each
callback received. `aimed` and `preempted` are history: the starts a stop met.

One action is one critical section of `g_stateMutex`, one call into the kernel, or
one callback: `StartAccepted` (check, set Starting, take a generation), `Load`,
`SetTunFd` and `KernelStart` (two Go calls between which the Go mutex is free),
`Commit` (the worker decides whether it failed, was overtaken, or is up),
`StopLate` (it takes down the kernel of an overtaken start), `CompleteWaiters`
(Stopped is published and the waiters are taken in one section), `EmitWaiter`
and `EmitResult` (the callbacks, one at a time). On the side of stop:
`StopWhenStopped`, `StopJoins` (park, and cancel a start in progress),
`StopRunning` (park, and start the stop thread) and `StopThread`.

`CoreContract` has neither locks, threads nor generations: a start call holds
the kernel or is refused, comes up, and goes down; a stop aims at whatever is
held, and is answered when all of it is down. `Abstract` at the end
of `NativeCore` gives the refinement mapping, and `ImplementsContract` is the
contract as a property of the threads.

### 2.2 TestSessions

Calls of `Start`, `Stop` and `BeginProbe` are modelled with the split the lock
makes: a critical section under the registry's mutex is an action, and so is each
`create()` and `Close()`, which run outside it. A session object is named by the call that made it, and `entry`
is the map by id, so that an id can be given to a new object after its old one
was pruned. `closed` is the set of objects whose `closed` channel was closed.
Creation and close may fail. `MaxTombstones` (64 in the code) is 1 in the run
with properties that must survive pruning.

### 2.3 VpnLifecycle

A step is what the event loop runs from one await to the next. Coroutines
that wait for the same teardown, or for a `tryStart` they called, resume as
*microtasks*: in the order in which they began to wait, before any other event.
This is what `micro` is for, and `Macrotask` guards every other step. A run of
`tryStart` is named by the `lifecycleGeneration` it takes, so the generation
guards of the code read as `r = lifecycleGeneration`.

* `Enter`, `Decide`, `Finally` are the entry, the decision and the finally block of
  `tryStart`; `Load` ... `Announce` are `startVpn`; `Throw` and `Failed` its catch
  block; `Teardown`, `TdStopped`, `TdDestroyed`, `TdPersisted` the shared teardown.
* `Gate` ends with the check of the configuration and calls `destroy` for a tunnel
  that may be left over; `Clean` is what follows that `destroy`. Unlike the one of the
  teardown it has no timeout (`VpnExtAbility.ets:925`), and a teardown may drop the
  connection while it lasts: the run then fails.
* The native core appears as what `NativeCore` promises: `core` with its four
  states, a start refused unless stopped, a stop that cancels a start in
  progress, answers delivered when it is over. With `MayTimeOut` a call may
  outlast its timeout in the code.
* `saved` and `cache` are the revision of the settings in the file and in the
  cache of the extension; `rev[r]` is what run `r` has read.
* `configFile` is one file, whichever run wrote it last; the kernel reads it when
  it starts (`coreConf`).

### 2.4 ApplyTransaction

Extends the lifecycle with the handler of `apply` commands. A *delivery* is one
arrival of a command; `op` says which operation it carries, so a duplicate is
a second delivery of the same `op`. `ApplyCheck` enters `tryStart` in the same
step, as the code does, and `ResumeApply` is the continuation after it returns,
including the finally block. `Duplicates` and `Overlap` say what the sender and
the transport may do.

### 2.5 VpnControl and UiApply

A *request* (`connect`, `switchTo`, `disconnect`) is named by the generation it
takes. `Connect`, `SwitchTo` and `Disconnect` are its part that runs at once
(generation, watchdogs cleared); its body waits for the request before it
(`Turn`) and runs from await to await: `Connecting`, `Policy`, `Arm` and so on.
`evidence` and `timeout` are the timers that run, `evidenceWatchdog` and
`timeoutWatchdog` the handles kept of them, which a later connect may overwrite.
The extension takes the calls of the system in order and publishes events;
`Lose` drops a status, `Reclaim` kills the process without a word. Events are not
reordered: they come from one publisher through one subscriber.

`UiApply` adds the coordinator, the commit and the apply of the page, its
watchdog, and `OnApplyResult`, in which the watcher runs between the write of
the operation id and the writes after it.

### 2.6 ConfigStore and StoreContract

`snapshot` and `manifest` are the files, `active` and `content` the pointer in
memory. The queue runs one call at a time and a call has no await inside, so a
step is one file operation (`WriteSnapshot`, `WriteManifest`), the return of the
call (`Finish`, `Fail`) or a crash. Where the rename of `writeTextAtomic` fails
the file is truncated and rewritten (`TruncateSnapshot`, `TruncateManifest`). A
content is the set of the calls whose change it includes, so contents differ
exactly when their histories do. Recovery is three definitions that follow the
three stages of `recover`: `Vouched`, `Salvaged`, `Recovered`.

`StoreContract` knows neither files nor revisions: a value, the value a restart
would find, the values that can still be returned to, and one writer. A write takes effect
at once or not at all, an answer "ok" means that the value survives, and a failed one may
still be found by a restart. `Abstract` gives the refinement mapping, in which what a restart would
find is what `Recovered` finds in the files as they are.

### 2.7 ProbeRound

`queue` is the queue of batches of `runIsolationLoop`, `pc` what the runner awaits. A
batch is started (`StartBatch`), probed by workers that share a cursor (`Take`,
`EndProbe`), stopped (`StopBatch`), and only when the stop is confirmed decided
upon: split, isolated or done (`Decide`). Each answer of the kernel (`Created`,
`Closed`) is raced by the timeout of the await (`NotStarted`, `StopUnsure`,
`Unconfirmed`). `live` and `own` are the session the registry holds and whether
it is that of the batch at work; `leftover` is history. Two of three nodes share a
chain, so that isolating one isolates both.

### 2.8 Abstractions to keep in mind

* Each kind of input has a bound (`MaxWants`, `MaxCuts`, `MaxNets`,
  `MaxApplies`, `MaxSaves`; `MaxRequests`, `MaxLost`, `MaxReclaims`,
  `MaxRevision`, `MaxOps`; `MaxCalls`, `MaxCrashes`, `MaxFaults`; `MaxRounds`)
  and every native call is made at most once. There is no other bound.
* VpnLifecycle: a `create()` of the VPN connection that answers after its own
  60 s timeout is not modelled. Nor are failures of the Preferences writes in
  the catch block of `tryStart` and in `doTeardown`; `setPendingProfileId`,
  which is called without await, takes effect at once. The 15 s window between
  network resets is modelled as one reset at a time. A
  snapshot of revision `n` holds the settings of revision `n`.
* ConfigStore: checksums have no collisions; a write the system accepted
  survives the crash of the process; a temporary file is visible to no reader; a
  file that is absent and one that cannot be parsed are the same, as they are to
  every reader in the code.
* VpnControl: of the extension only the order of its events is kept. A cut
  during its start is followed by the failure of that start, as `VpnLifecycle` has it.
* ProbeRound: the kernel has the V3 sessions; a call reaches the registry before
  it times out in the UI process; a stop may also fail on its way there, which
  leaves an active session to the next round. The second count of starts that the
  coordinator keeps (`noteAttempt`) is left out: it counts failed batches only
  and never reaches its bound of 2N-1, which `NobodySkipped` shows to be enough.
* The text of messages, the log, notifications and the traffic stream are left out.

## 3. What TLC checks

| run | instance | shows |
|---|---|---|
| `native` | 2 starts, 2 stops, 2 descriptors, fair | one owner; state and kernel agree; a stop is answered when all it met is over; an overtaken start is not a success; a kernel stays up until a stop; no waiter is forgotten; every call is answered; `NativeCore` implements `CoreContract` |
| `sessions` | 2 ids, 2 starts, 2 stops, 1 probe, 1 tombstone, fair | one test instance, closed by one, never leaked; a stop returns after the close; a probe gets a whole instance; every call returns |
| `lifecycle_wants` | 2 profiles, 3 Wants, a save, kernel may hang | one start at a time; once settled, flags, kernel, tunnel, profile, Preferences and status agree |
| `lifecycle_storm` | 2 profiles, 2 Wants, a disconnect, a network reset, kernel may hang | the last request wins; nothing sticks; a session that stands was begun after the last disconnect |
| `lifecycle_kernel_left` | 1 Want, a disconnect | **violated**: a kernel started while the teardown was past `stopCore` outlives the disconnect |
| `apply_restart` | 1 Want, 2 deliveries, a save | an apply that made its own restart is acknowledged on a kernel with its settings; resources stay pinned while their kernel lives; no tunnel is left behind |
| `apply_settles` | 1 Want, with an apply, a disconnect and a reset, or with 2 deliveries; kernel and platform may hang, fair | every start, teardown and reset ends and every apply is answered, or stands for ever at an await that nothing bounds |
| `vpn_control` | 2 profiles, 2 requests, a lost status, a kill, fair | once all is told the keys agree with the extension; a watchdog speaks of the last request; "connecting" ends |
| `ui_answer` | 1 request, 1 commit, 1 operation | **violated**: the first successful answer is rejected |
| `store` | 4 calls, a crash, 2 failing operations, fair | `ConfigStore` implements `StoreContract`; no published revision is rewritten; rollback points stay; every call is answered |
| `store_orphans` | 3 calls, a crash | **violated**: the clean-up deletes an acknowledged snapshot |
| `probe` | 3 nodes, 2 in a chain, 2 workers, 2 rounds, the default budget or 2 starts, fair | no node skipped; results final; blame justified; no session left; every round ends |

**Why the bounds are enough.** The native core remembers one generation and
one cancelled one; two starts and two stops give an overtaken start, one that
follows it, a stop that waits and one that arrives late (the theorems hold for
any number). In
the registry two sessions compete for the one live slot, two stops for one
close, and one tombstone makes every second close prune. In the lifecycle a
request meets at most one running start, one queued restart and one teardown:
three Wants give a start, a switch that arrives during it and one that arrives
during its teardown. Disconnects and resets are added two inputs at a time. In
`apply_settles` the second delivery, with the duplicate it allows, comes only where neither a
disconnect nor a reset does (`InputsApart`): all of them together are more states
than TLC gets through. In
the UI a second request meets the first in each of its steps, with its timers
running and its events on their way. Four calls of the store make both manifest slots be
written twice and the collection delete for the first time; two faults damage
two files, or leave an orphan a later call writes over. Three nodes
split into an odd and an even half and twice in depth; a second round meets
what the first left. (The properties of `probe` hold with four nodes as well.)
Each property is also checked against a mutated definition (the operators named
after what they get wrong, `CommitForgetsWaiters` or `FinallyStuck`), which the
run must find; these cannot be found if the case a property speaks of never
arises within the bounds.

**Which inputs a property is checked with.** Some properties hold for
some inputs only, and the code promises no more. `SettledTold` and `NoTunnelLeft`
are checked without disconnects (one that comes while `startVpn` publishes leaves
a stale "connected" behind, and a tunnel granted after the connection was dropped
has nobody to destroy it), `NoTunnelLeft` also without resets, which may drop the
connection in the same way, and without timeouts, since after 5 s a `destroy` is
given up; `OneStart` and `SettledAgree` without disconnects
and resets (a teardown nobody of the runs called clears the mark of a start
that waits for it, or is joined by one whose kernel it does not stop: see 4);
`PinnedUntilStopped` without timeouts, since after 8 s the teardown unpins
whatever the kernel does, and without disconnects and resets, whose teardown
may unpin what the start it interrupts has pinned; `RestartAckTrue` without
disconnects. `CutHolds`
speaks of the start under way when a disconnect comes: a request that was queued
behind it, a reset that waits for the teardown and an apply command are carried
out afterwards and bring the session up again. `QuietAgree` excuses a request
the system refused, a last status that was lost and an extension that was
killed: nothing repairs the keys then but the next request. `BlameJustified`
excuses a round that found a session which is starting or stopping. The hazards
list these at their lines.

**Type invariants.** Each module states one. `native`, `sessions` and `store` check
theirs; that of `ApplyTransaction` holds in the instances of its runs. Those of
the other modules are proved.

**Deadlock** is not checked: each model stops when its inputs are used up. What
deadlock would mean is covered by the liveness properties `EveryCallAnswered`,
`EveryCallReturns`, `Settles`, `EveryApplyAnswered`, `ConnectingEnds` and
`RoundEnds`.

**Fairness.** `NativeCore`: each thread, once started, is scheduled, and the
kernel's start and stop return; nobody owes a call. `TestSessions`: the same for the
goroutines, with `create` and `Close` returning. `VpnLifecycle`: the event loop
runs what is ready, and an await ends where `withTimeout` bounds it
(`VpnExtAbility.ets:67`): the check, `create`, `protectProcessNet`, `startCore`, and
the `stopCore` and `destroy` of the teardown. Nothing bounds the others (`Unbounded`, and
the last await of the teardown): the Preferences, the resource files, the
`destroy` of a left-over tunnel (925) and the notification (985). No fairness is
assumed of them, and `Settles` and `EveryApplyAnswered` excuse just these: a run
that stands at such an await for ever (`HeldUp`), who waits for a teardown that
does, and the delivery whose handler or run it is (`HandlerHeldUp`). As both
say that the good state recurs, an await that does end excuses nothing. The native
core is fair only where `MayTimeOut` is FALSE, so both hold though the
kernel may never answer. `ConfigStore`: the event loop takes the next call
and file operations return; a restart after a crash is not owed. `VpnControl`:
bodies resume, timers fire and published events arrive or get lost; the extension
owes nothing. `ProbeRound`: the runner goes on, since `withTimeout` bounds each call of the
kernel it awaits (`ProbeRunner.ets:1093`); the kernel owes nothing. Two awaits of
the runner have no timeout: the TCP ping of the V2 fallback (line 660), which is not
modelled and which the app leaves off (`LatencyTester.ets:538`), and the saving of the results
(line 915), which comes after the phase is "done", so that `RoundEnds` does not depend on it.
That the lock of the round is released after the save is not claimed. No input
is owed.

## 4. Where code and documents disagree

With a run that shows it:

1. `lifecycle_kernel_left`. A teardown that is past `stopCore` is joined by
   the rollback of a start that has meanwhile started the kernel
   (`VpnExtAbility.ets:350`), and nobody stops it. The next start is refused and reported as
   failed, against `DEVPLAN.md:150`; it is the rollback of that start (line 669),
   or another disconnect, that stops the kernel.
2. `ui_answer`. `EntryAbility.ets:354` writes the operation id, whose watcher runs at
   once and reads the session and the revision that lines 355 and 356 write after it: the first
   successful answer is rejected, its watchdog cleared, and the phase stays
   "applying" (`apply-transaction.md:46` describes the match).
3. `store_orphans`. A file that cannot be read for once makes recovery fall
   back, and `cleanupOrphans` (`ConfigRepository.ets:312`) then deletes newer
   snapshots that were acknowledged; line 308 says they can only be orphans.

Read from the same lines and present in the models, but without a run of their own:

* `sessionstate.go:193`: a stop that waits for a creation which then fails leaves
  no tombstone, and a late start does create an instance (against lines 24 and
  222).
* `VpnExtAbility.ets:385`: `doTeardown` clears `starting`, which may be the mark
  of a start that joined the teardown; the start that a reset calls, or the next
  Want, then runs beside it (against the comment at line 626).
* `VpnExtAbility.ets:925`: the `destroy` of a left-over tunnel has no timeout, while
  that of the teardown has one. If it hangs, `starting` stays set: later Wants are only noted and
  the apply that waits is not answered, until a teardown clears the mark.
* `VpnExtAbility.ets:498`: the acknowledgement of an apply looks at `started`
  after `tryStart` returned, which may have been at once (against
  `apply-transaction.md:11`).
* `VpnExtAbility.ets:492`: a duplicate of an apply that arrives while the first
  delivery re-reads the settings forces a restart of its own (against
  `apply-transaction.md:24`).
* `VpnExtAbility.ets:654`: a forced Want that starts from nothing leaves
  `forceRestartRequested` set, so the next plain Want restarts a running session.
* `ProbeRunner.ets:834`: the clean-up before a round lists active sessions only.
  One that an earlier round left behind while starting or stopping makes the
  registry refuse every start of the round, and every healthy node is isolated
  (against `ProbeCoordinator.ets:10`). It is the excuse `leftover` in
  `BlameJustified`.
* `VpnService.ets:135`: a start the system refuses during a switch reports the
  session that still runs as down; `VpnService.ets:174`: a switch to which the extension stays silent
  leaves "connecting" standing, since `vpnRunning` is still true.
* `EntryAbility.ets:323`: traffic repairs a lost "connected" only while the key says
  connecting or switching, but the awaiting_auth that comes before has replaced it.
* `ApplyCoordinator.ets:74`: any connect marks everything saved as applied, also a
  revision saved after the extension had read its settings (the comment at line 69
  means it so).
* `sessionstate.go:290`: `BeginProbe` answers "not found" for a session that is
  starting, where the comment at `main.go:402` announces "is starting".

## 5. What is proved

Everything below holds for any values of the constants that satisfy the one
assumption each module states (`NativeAssumption`, `SessionAssumption`,
`LifecycleAssumption`, `ApplyAssumption`, `StoreAssumption`, `ProbeAssumption`,
`ControlAssumption`): calls of different
kinds are different, `None` is none of the values, bounds are natural numbers,
and there is at least one descriptor, call, node and worker. The code gives no
more than that, and TLC evaluates each of them.

| module | theorems |
|---|---|
| `NativeCore_proofs` | `TypeOK`, `OneOwner`, `StateMatchesKernel`, `StopAcknowledgedWhenDown`, `NoWaiterForgotten`, `OvertakenStartNotOk`, `UpUntilStopped`, `ImplementsContract`; beyond the run `NeverAlreadyRunning`, `CancelledOnlyByStop`, `AnsweredOnce` |
| `TestSessions_proofs` | `TypeOK`, `OneInstance`, `StopReturnsAfterClose`, `NoOrphanInstance`, `ClosedByOne`, `ProbeGetsWholeInstance` |
| `VpnLifecycle_proofs` | `TypeOK`, `LatestWins`, `NotStuck`, `CutHolds`; without disconnects and resets (`MaxCuts = MaxNets = 0`) `OneStart`, `SettledAgree`, `SettledTold` |
| `ApplyTransaction_proofs` | without disconnects and resets: `RestartAckTrue`, `LatestWins`, `NotStuck`, `OneStart`, `SettledAgree`, `SettledTold`; without timeouts as well: `PinnedUntilStopped`, `NoTunnelLeft` |
| `ConfigStore_proofs` | `TypeOK`, `PublishedNeverRewritten`, `RollbackPointsKept`, `ImplementsStore` |
| `ProbeRound_proofs` | `TypeOK`, `NobodySkipped`, `NoSessionLeft`, `ResultsFinal`, `BlameJustified` |
| `VpnControl_proofs` | `ControlTypeOK`, `QuietAgree`, `WatchdogOfLast` |

These are all the safety properties of the runs that pass. None is inductive alone. Each module has an
inductive invariant in layers, one for each thing that is kept: a layer is
proved step by step from the ones above it, and the properties follow from the
layers they need. TLC found each of them to hold before it was proved.

### 5.1 NativeCore

1. **Types** (`TypeOK`).
2. **Owners.** `OwnCode`: start and stop calls keep to their own code;
   `Generations`: no two accepted starts have the same generation and none is ahead
   of the counter; `Ownership`: at most one thread is at work on the kernel, and
   `coreState` says so. A start is accepted only from Stopped, where nobody is at
   work, so the new owner meets no other; this gives `OneOwner`.
3. **Kernels.** `InstanceOfCurrent`: the instance is that of the start of the
   current generation and has its descriptor; `OwnerKnowsInstance`: each place in
   the owner's code knows whether there is an instance. They give
   `StateMatchesKernel` and `NeverAlreadyRunning`. They need `Ownership`: without it
   another worker could set `tunFd` between the two Go calls of this one.
4. **Waiters.** `Parked`: a stop that waits is in the list of a core that is
   Starting or Stopping, or in the hands of the thread that emptied it; `Aimed`:
   once a stop is taken from the list, all it aimed at is over for good. They give
   `NoWaiterForgotten` and `StopAcknowledgedWhenDown`.
5. **Verdicts.** `Told`: the answer of a start is what its worker made of it;
   `Overtaken`: an overtaken start is cancelled for good, and the last generation
   cancelled was overtaken; `WentUp`: a kernel that came up is up, or a stop was
   after it. They give `OvertakenStartNotOk`, `CancelledOnlyByStop` and
   `UpUntilStopped`.
6. **Once.** A stop that waits is unanswered and in one place, a start answers
   last: so no step answers a call again (`AnsweredOnce`).
7. **Mapped.** While the core is taken there is a start a stop can aim at, and an
   instance without regrets behind Running. With it each step of a thread is one step of
   `CoreContract` or leaves what the contract sees alone, which is
   `ImplementsContract`: what `VpnLifecycle` takes of the core is what the threads
   give.

### 5.2 TestSessions

`Registry`: a live session is found under its own id, and there is one at most (the
map alone does not say so: an id is given away after its tombstone was pruned).
`Builders`: where the Start that owns a session is, given its state, and what
there is of its instance. `Closers`: a session that is stopping and has left its
Start is taken down by exactly one Stop. `Waiters`: a Stop that waits is on a
session that goes down, one that has returned on one that is down. `OneInstance`
and `NoOrphanInstance` come from the first two, `ClosedByOne` from `Closers`,
`StopReturnsAfterClose` from `Waiters`. That pruning drops tombstones only,
whatever the bound is, is a lemma of its own.

### 5.3 ConfigStore

What the files can look like when revision `a` is active is the whole argument.
`Near`: they hold nothing beyond the revision being written, `a + 1`, so a
restart finds `a` or `a + 1`. `Stored`: once something is published, `a` is vouched for
and the two revisions before it can be read, so a restart finds nothing older. A crash forgets
which revision was active but not that there was one, so `Durable` says of a process that is down
that *some* `a` fits. Each file operation is one lemma about `Near` and `Stored` of
a changed slot; a write goes to the slot that does not hold `a`, as
`a + 1` and `a` differ by one (`target % 2`). `Queue` and `Numbered` keep the
numbers of revisions below those of the calls that wait, so there is always a
number for the next one. The same invariant shows `ImplementsStore`: writing the
manifest is the step at which a restart begins to find the new value, the
answer the one at which it is promised.

### 5.4 ProbeRound

`Shape`: the batches of the queue and the batch at work hold each node once, and
a split keeps that (lemmas about halves of sequences). `Starts` is the cost
argument behind the bound of `2N - 1`: a batch of k nodes costs at most
`2k - 1` starts, since each half of a split costs its own, so that

    startsUsed + 2 * (nodes in the queue) <= Budget + (batches in the queue)

with the batch at work counted by how far it is. A round that ends with the
budget used up had a smaller limit than `Budget`. `Session` and `Blame` say whose
session may be live: while its own may be, the runner is at its batch or the
round has said that it does not know; any other was left from before.
`Coverage`: a node without a result is in the queue or at work. `NobodySkipped`
needs `Starts` and `Coverage`, `NoSessionLeft` needs `Session`, `BlameJustified` needs
`Blame` and `Session`.

### 5.5 VpnControl

`Turns`: one body runs at a time, in the order of the requests, and a timer runs
only for a request that is over. `LastWord`: the last status on its way says what the
extension is (whether it runs, and for which profile), and nothing but a running
or killed one ends its events with traffic. `Stopping`: a stop that was accepted is the
last call, or was taken. `Waiting`: "connecting" stands only while an answer may still come or was
lost, which is what keeps the evidence watchdog from declaring a session that
is not there. `Agreed` is the property without its premise that everything
is quiet: as soon as no *status* is on its way, and no call, the keys show what
the extension is, for traffic changes nothing then. A refusal of the system ends it, and the next
start that is accepted would bring it back to life with a wrong past; hence
`Agreed` also holds from an accepted call on (`CallMade`). `Sessions`
bounds the processes of the extension by the calls that were made and the reclaims.

### 5.6 VpnLifecycle

`callers` stays empty here, as only `ApplyTransaction` calls `tryStart` and waits
for it. Each action is first shown to be one of a few *shapes* (a run goes to its
next await, the teardown is called, a run ends, `tryStart` is called), and each
layer is proved once per shape.

`Typed` and `Counted`: every call of `tryStart` that is still owed, by a noted
restart or by a reset, has a generation left. `Runners`: runs begin in the order
of their numbers, and while `starting` stands an active run will clear it, or
is waiting to; this gives `NotStuck`. `Line`: who waits for the shared teardown
is in its line once, and resumes from `micro` once. `Named`, `Fresh` and `Meant`:
the last run builds what was asked for last, or a restart is noted that will.
`Ahead`: a session that stands is of the latest profile, or a run or a restart is
about to replace it; at rest that is `LatestWins`. `Cuts`, `Accepted`, `Sleepers`,
`Resolves` and `Kernel`: a cut takes its generation away from every run before
it, so that none of them gets to `started`; a session that stands has its
kernel, begun after the last cut, which is `CutHolds`. These hold for any
sequence of Wants, disconnects, resets and timeouts.

The three properties about agreement do not, and TLC has the counterexamples: a
Want, a disconnect and another Want break `OneStart`, a disconnect and a Want break
`SettledAgree` (both are described in 4). Their theorems assume what their run
does, no disconnects and no resets, but any number of Wants, saves and timeouts.
With that, `Alone`: one run is active, and a teardown is its own and silent.
`KernelOwned`: a kernel that runs or will run is that of the session or of that
run, with its config; a start given up after 15 s is covered because
the rollback of its run cancels it. `Built` and `Session`: config, tunnel, profile
and kernel are of one run, from the write of the config to the end of the
session. `Told`: the status and the keys follow, except between `started` and
the announcement, where the run is still active.

### 5.7 ApplyTransaction

Now `callers` holds the apply that waits for a run, so the argument is made anew
for the next-state relation with the commands in it. Without disconnects and
resets it has a simpler shape: what happens is told by *where the last run is*
(`Here`).

`Single`: every other run is over or has not begun, a teardown is that of the last
run, silent, and it alone waits for it. `Counted` is what keeps generations
enough: each call of `tryStart`, by a Want or by an apply, takes one, and the
number of applies that have called it is a cardinality. `Kernel`: for each place
of the run, what the kernel is. `Wish`: once a profile was asked for it is never
forgotten, which is why a forced restart cannot end for want of one.
`Promise` is about the apply. While the run it waits for has still to decide,
`forceRestart` is set and the cache is at least as new as the revision, so this
run switches instead of replaying the state, and reads what the apply needs
(`Reads`); the run has ended when the apply resumes, so either the kernel is
that of the run, or there is none and the answer is "failed" (`Returned`). A run
of somebody else cannot consume the flag in between: an apply that finds one
at work does not wait, and `ran` is FALSE for it. This gives `RestartAckTrue`,
whatever timeouts, saves, duplicates and overlapping commands there are.

`Meant`, `Built`, `Session` and `Told` are what `LatestWins`, `NotStuck`,
`SettledAgree` and `SettledTold` rest on: what the lifecycle promises on its own it
still promises when applies restart it. An apply publishes "switching" before it
calls `tryStart`; `Told` shows that a status follows which says what came of it.

`Pins` and `Tunnel` need the kernel and the system to answer in time, for
`doTeardown` goes on after 8 s and 5 s. Then the kernel is down before the
pins go and wherever a run prepares, and a tunnel always has a connection and
either a session, a run that is building one, or a teardown that will destroy it.

TLC has a counterexample for each hypothesis: a disconnect breaks all three
properties of `apply_restart`, a reset the pins and the tunnel (its teardown is
nobody's, and unpins or drops what the start it interrupts has just made), and
a timeout of `destroy` leaves a tunnel.

### 5.8 How it is proved, and what is only checked

The induction theorems of the library take an operator as a parameter, which no
prover here can instantiate. Where an induction over a sequence or a set is
needed, the proofs take a smallest counterexample instead
(`NatLessThanWellFounded` and `WFMin`), or keep what would have been computed as
part of the invariant. The recursive parts of `ProbeRound` (the halves of a batch,
what is kept of the queue) are folds and function sets, of which each lemma
states what it preserves.

Only model-checked:

* everything about liveness (`EveryCallAnswered`, `EveryCallReturns`,
  `Settles`, `EveryApplyAnswered`, `ConnectingEnds`, `RoundEnds` and that every call
  of the store is answered), since fairness and ENABLED are beyond the proof system;
* what a run shows to be violated (section 4).

## 6. Not modelled, and what comes next

Not modelled, and why:

* Configuration generation, parsing, pages, cryptography, traffic counters and
  diagnostics: sequential data code, covered by the repository's fixture tests.
* sing-box itself (third party; by far the largest part of the tree): modelled
  by its start, stop and close.
* The older singleton tester of `main.go` and a V2 kernel: the runner takes one
  of the two testers for a whole round, and only one round runs in the process.
  (Both set environment variables of the process and restore what they found,
  `main.go:356`, under different locks.)
* Subscriptions and the download and collection of rule sets: their concurrent part
  is a generation guard and a set of pins; the pins the extension relies on are in
  `VpnLifecycle`.
* `CrashGuard` and the keep-alive policy: one decision per launch, from what the
  system reports of the last end of the process.
* `MigrationV5`: it reads Preferences once and calls `commitInitial`, which
  `ConfigStore` has.

What is left is to widen the theorems about the apply transaction to the inputs
that the properties admit: `RestartAckTrue` with network resets, which TLC finds
to hold on a small instance, and `LatestWins`, `NotStuck` and `CutHolds` with
resets and disconnects next to applies, for which the layers of
`VpnLifecycle_proofs` are to be carried over to runs that somebody waits for.
