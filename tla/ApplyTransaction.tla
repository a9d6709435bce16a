--------------------------- MODULE ApplyTransaction ---------------------------
(***************************************************************************)
(* The apply transaction of the extension (handleApplyCommand) on top of   *)
(* its lifecycle: `apply' commands of the UI process, the check of the     *)
(* settings against the target snapshot, the forced restart through        *)
(* tryStart, and the acknowledgement.                                      *)
(*                                                                         *)
(* The snapshot of revision n holds the settings of revision n: the UI     *)
(* process commits a snapshot of what it saved before it sends the         *)
(* command.  Deliveries of commands are numbered; an operation is named by *)
(* the delivery that brought it first.                                     *)
(***************************************************************************)
EXTENDS VpnLifecycle

CONSTANTS Duplicates,   \* a command may be delivered again
          Overlap       \* the UI may send an operation before the last is answered

ASSUME ApplyAssumption == {Duplicates, Overlap} \subseteq BOOLEAN

VARIABLES
    aPc,          \* where the handler of each delivery is
    op, revision, \* command.operationId, command.revision
    ran,          \* its tryStart did not return at once
    ack,          \* the acknowledgement it published
    applyingOperationId, appliedOperationId, lastAppliedRevision

commandVars == <<op, revision>>
memoryVars == <<applyingOperationId, appliedOperationId, lastAppliedRevision>>
applyVars == <<aPc, commandVars, ran, ack, memoryVars>>
allVars == <<vars, applyVars>>

Deliveries == 1..MaxApplies
NoOp == 0

ApplyToken(d) == <<"apply", d>>

ApplyInit ==
    /\ Init
    /\ aPc = [d \in Deliveries |-> "new"]
    /\ op = [d \in Deliveries |-> NoOp]
    /\ revision = [d \in Deliveries |-> 0]
    /\ ran = [d \in Deliveries |-> FALSE]
    /\ ack = [d \in Deliveries |-> "none"]
    /\ applyingOperationId = NoOp /\ appliedOperationId = NoOp
    /\ lastAppliedRevision = 0

Answer(d, answer) ==
    /\ ack' = [ack EXCEPT ![d] = answer]
    /\ aPc' = [aPc EXCEPT ![d] = "done"]

-------------------------------------------------------------------------------
(* handleApplyCommand, from one await to the next. *)

\* Up to refreshStore: replay, ignore, or refuse for want of a valid snapshot.
Handle(d, o, r) ==
    /\ op' = [op EXCEPT ![d] = o]
    /\ revision' = [revision EXCEPT ![d] = r]
    /\ \/ o = appliedOperationId /\ Answer(d, "replayed")
       \/ /\ o # appliedOperationId /\ o = applyingOperationId
          /\ Answer(d, "ignored")
       \/ /\ o \notin {appliedOperationId, applyingOperationId}
          /\ \/ Answer(d, "refused")
             \/ aPc' = [aPc EXCEPT ![d] = "refresh"] /\ UNCHANGED ack
    /\ UNCHANGED <<vars, ran, memoryVars>>

\* Commands arrive once the first Want has subscribed to them.
Deliver(d) ==
    /\ Macrotask
    /\ wants > 0
    /\ aPc[d] = "new" /\ \A e \in 1..(d - 1) : aPc[e] # "new"
    /\ \/ /\ Overlap \/ \A e \in 1..(d - 1) : aPc[e] = "done"
          /\ \E r \in 1..saved : Handle(d, d, r)
       \/ /\ Duplicates
          /\ \E e \in 1..(d - 1) : op[e] = e /\ Handle(d, e, revision[e])

ApplyRefresh(d) ==
    /\ Macrotask
    /\ aPc[d] = "refresh"
    /\ cache' = saved
    /\ \/ aPc' = [aPc EXCEPT ![d] = "check"] /\ UNCHANGED ack
       \/ Answer(d, "refused")
    /\ UNCHANGED <<saved, fieldVars, requestVars, platformVars, coreVars,
                   teardownVars, runVars, jobVars, netPc, micro, status,
                   inputVars, commandVars, ran, memoryVars>>

\* Any setting read from the cache differs from the snapshot.
SettingsMismatch(d) == cache # revision[d]

\* The settings are compared; a mismatch refuses, else the restart is forced.  A
\* tryStart that finds another start in progress returns at once.
ApplyCheck(d) ==
    /\ Macrotask
    /\ aPc[d] = "check"
    /\ \/ /\ SettingsMismatch(d)
          /\ Answer(d, "refused")
          /\ UNCHANGED <<vars, ran, memoryVars>>
       \/ /\ ~SettingsMismatch(d)
          /\ applyingOperationId' = op[d]
          /\ aPc' = [aPc EXCEPT ![d] = "restart"]
          /\ ran' = [ran EXCEPT ![d] = ~starting]
          /\ Publish("switching", currentRunId)
          /\ forceRestart' = TRUE
          /\ Enter(pc, <<ApplyToken(d)>>)
          /\ micro' = IF starting THEN <<ApplyToken(d)>> ELSE micro
          /\ UNCHANGED <<started, currentRunId, latestRequested, netListening,
                         pendingPref, storeVars, platformVars, coreVars,
                         teardownVars, jobVars, netPc, inputVars, ack,
                         appliedOperationId, lastAppliedRevision>>
    /\ UNCHANGED commandVars

\* tryStart returned: the acknowledgement, and the finally block.
Acknowledge(d, up, applying) ==
    /\ micro # <<>> /\ Head(micro) = ApplyToken(d)
    /\ micro' = Tail(micro)
    /\ Answer(d, IF up THEN "ok" ELSE "failed")
    /\ IF up
       THEN appliedOperationId' = op[d] /\ lastAppliedRevision' = revision[d]
       ELSE UNCHANGED <<appliedOperationId, lastAppliedRevision>>
    /\ applyingOperationId' = applying
    /\ UNCHANGED <<fieldVars, requestVars, storeVars, platformVars, coreVars,
                   teardownVars, runVars, jobVars, netPc, status, inputVars,
                   commandVars, ran>>

\* A handler that takes the return of tryStart for success.
ResumeApplyTrusting(d) == Acknowledge(d, TRUE, NoOp)

ResumeApply(d) == Acknowledge(d, started, NoOp)

ApplyStep(d) == ApplyRefresh(d) \/ ApplyCheck(d) \/ ResumeApply(d)

ApplyNext ==
    \/ Next /\ UNCHANGED applyVars
    \/ \E d \in Deliveries : Deliver(d) \/ ApplyStep(d)

ApplySpec == ApplyInit /\ [][ApplyNext]_allVars

\* Only the last step of a handler is a microtask; before it, refreshStore and
\* loadSettings await the Preferences file, which nothing bounds.
ApplyFairness == Fairness /\ \A d \in Deliveries : WF_allVars(ResumeApply(d))

-------------------------------------------------------------------------------
(* Properties. *)

\* Every variable of the transaction stays in its type.
ApplyTypeOK ==
    /\ TypeOK
    /\ aPc \in [Deliveries -> {"new", "refresh", "check", "restart", "done"}]
    /\ op \in [Deliveries -> Deliveries \cup {NoOp}]
    /\ revision \in [Deliveries -> 0..saved]
    /\ ran \in [Deliveries -> BOOLEAN]
    /\ ack \in [Deliveries -> {"none", "ok", "failed", "refused", "replayed",
                               "ignored"}]
    /\ {applyingOperationId, appliedOperationId} \subseteq Deliveries \cup {NoOp}
    /\ lastAppliedRevision \in 0..saved

Acked(d) == ack[d] = "none" /\ ack'[d] = "ok"

\* An apply that made its own restart is acknowledged on a kernel that runs with
\* settings at least as new as the revision it names.
RestartAckTrue ==
    [][\A d \in Deliveries : Acked(d) /\ ran[d] =>
          /\ started /\ core = "running"
          /\ rev[coreRun] >= revision[d]]_allVars

\* The handler of d awaits something that nothing bounds, or the run it called
\* does.
HandlerHeldUp(d) ==
    \/ aPc[d] \in {"refresh", "check"}
    \/ \E r \in Runs : HeldUp(r) /\ \E i \in DOMAIN callers[r] :
                                      callers[r][i] = ApplyToken(d)

\* Every operation the UI sends is answered, even if the kernel never is, unless
\* its handler or the restart it awaits hangs for ever where nothing bounds it.
EveryApplyAnswered ==
    []<>(\A d \in Deliveries :
            aPc[d] = "new" \/ ack[d] # "none" \/ HandlerHeldUp(d))
===============================================================================
