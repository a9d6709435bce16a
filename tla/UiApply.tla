-------------------------------- MODULE UiApply --------------------------------
(***************************************************************************)
(* The UI side of the apply transaction on top of the status keys:         *)
(* ApplyCoordinator, the page that commits and applies (Index.ets), and    *)
(* the keys into which EntryAbility copies the answers of the extension.   *)
(*                                                                         *)
(* A @Watch callback runs inside the write of the key it watches, before   *)
(* the next statement of the writer.  The commit of a snapshot is one step *)
(* here (ConfigStore models it), and so is the extension's restart for a   *)
(* command (ApplyTransaction models it).  Operations are numbered.         *)
(***************************************************************************)
EXTENDS VpnControl

CONSTANTS MaxRevision, MaxOps   \* snapshots committed, apply operations begun

VARIABLES
    phase, savedRevision, appliedRevision, pendingChanges, operationId,
    applySessionId,         \* the session the operation was sent to
    applyWatchdog,          \* its watchdog runs
    vpnSessionId, vpnAppliedRevision,
    vpnApplyOperationId, vpnApplySessionId,   \* keys of EntryAbility
    commands, answers       \* on their way to the extension and back

coordinatorVars == <<phase, savedRevision, appliedRevision, pendingChanges>>
pageVars == <<operationId, applySessionId, applyWatchdog>>
resultKeys == <<vpnAppliedRevision, vpnApplyOperationId, vpnApplySessionId>>
uiApplyVars == <<coordinatorVars, pageVars, vpnSessionId, resultKeys, commands, answers>>
allVars == <<controlVars, uiApplyVars>>

UiApplyInit ==
    /\ ControlInit
    /\ phase = "idle" /\ savedRevision = 0 /\ appliedRevision = 0
    /\ pendingChanges = FALSE
    /\ operationId = 0 /\ applySessionId = 0 /\ applyWatchdog = FALSE
    /\ vpnSessionId = 0 /\ vpnAppliedRevision = 0
    /\ vpnApplyOperationId = 0 /\ vpnApplySessionId = 0
    /\ commands = {} /\ answers = {}

Settled == IF appliedRevision' > 0 THEN "applied" ELSE "idle"

-------------------------------------------------------------------------------
(* ApplyCoordinator. *)

\* A connection counts as applying all that was saved.
MarkAllAppliedOnConnect ==
    IF phase = "applying"
    THEN UNCHANGED coordinatorVars
    ELSE /\ appliedRevision' = IF savedRevision > appliedRevision
                               THEN savedRevision ELSE appliedRevision
         /\ pendingChanges' = FALSE
         /\ phase' = Settled
         /\ UNCHANGED savedRevision

AcceptAck(op, from, revision) ==
    IF /\ phase = "applying" /\ op = operationId
       /\ applySessionId # 0 => from = applySessionId
    THEN /\ appliedRevision' = revision
         /\ phase' = "applied"
         /\ pendingChanges' = (pendingChanges /\ revision < savedRevision)
         /\ UNCHANGED savedRevision
    ELSE UNCHANGED coordinatorVars

OnFailure(op) ==
    /\ phase' = IF phase = "applying" /\ op # operationId THEN phase ELSE "failed"
    /\ UNCHANGED <<savedRevision, appliedRevision, pendingChanges>>

-------------------------------------------------------------------------------
(* The page. *)

\* Revision 1 is the snapshot the migration made; markSaved does not hear of it.
ActiveRevision == IF savedRevision = 0 THEN 1 ELSE savedRevision

\* applyLatestSavedRevision: while the VPN runs, a new operation begins.
ApplyRevision(revision, otherwise) ==
    IF vpnRunning
    THEN /\ operationId' = operationId + 1
         /\ applySessionId' = vpnSessionId
         /\ applyWatchdog' = TRUE
         /\ phase' = "applying"
         /\ commands' = commands \cup {[op |-> operationId', revision |-> revision]}
    ELSE phase' = otherwise /\ UNCHANGED <<pageVars, commands>>

\* commitAndApplySettings, from the end of the commit: markSaved, then apply.
CommitAndApply ==
    /\ ActiveRevision < MaxRevision /\ operationId < MaxOps
    /\ savedRevision' = ActiveRevision + 1
    /\ pendingChanges' = TRUE
    /\ ApplyRevision(savedRevision', IF phase = "applying" THEN phase ELSE "saved")
    /\ UNCHANGED <<controlVars, appliedRevision, vpnSessionId, resultKeys, answers>>

\* The banner's button.
ApplyAgain ==
    /\ operationId < MaxOps
    /\ ApplyRevision(ActiveRevision, phase)
    /\ UNCHANGED <<controlVars, savedRevision, appliedRevision, pendingChanges,
                   vpnSessionId, resultKeys, answers>>

DiscardDraft ==
    /\ pendingChanges
    /\ pendingChanges' = FALSE
    /\ appliedRevision' = appliedRevision
    /\ phase' = Settled
    /\ UNCHANGED <<controlVars, savedRevision, pageVars, vpnSessionId, resultKeys,
                   commands, answers>>

\* 60s without an answer.
ApplyWatchdog ==
    /\ applyWatchdog
    /\ applyWatchdog' = FALSE
    /\ OnFailure(operationId)
    /\ UNCHANGED <<controlVars, operationId, applySessionId, vpnSessionId,
                   resultKeys, commands, answers>>

\* onApplyResultWatch: it reads the other keys as they are when it runs.
OnApplyResultWatch(a) ==
    IF a.op # operationId
    THEN UNCHANGED <<coordinatorVars, applyWatchdog>>
    ELSE /\ applyWatchdog' = FALSE
         /\ IF a.ok THEN AcceptAck(a.op, vpnApplySessionId, vpnAppliedRevision)
                    ELSE OnFailure(a.op)

-------------------------------------------------------------------------------
(* EntryAbility and the extension. *)

\* subscribeApplyResults: the watched key is written first, and only a change
\* of it calls the watcher.
OnApplyResult(a) ==
    /\ a \in answers
    /\ answers' = answers \ {a}
    /\ vpnApplyOperationId' = a.op
    /\ IF a.op = vpnApplyOperationId THEN UNCHANGED <<coordinatorVars, applyWatchdog>>
                                     ELSE OnApplyResultWatch(a)
    /\ vpnAppliedRevision' = a.revision
    /\ vpnApplySessionId' = a.session
    /\ UNCHANGED <<controlVars, operationId, applySessionId, vpnSessionId, commands>>

\* The extension that runs takes a command: it refuses it, or restarts and answers.
ExtApply(c) ==
    /\ c \in commands /\ ext = "up"
    /\ commands' = commands \ {c}
    /\ \E ok \in BOOLEAN :
         /\ answers' = answers \cup
              {[op |-> c.op, ok |-> ok, session |-> session,
                revision |-> IF ok THEN c.revision ELSE 0]}
         /\ events' = IF ok
              THEN events \o <<Status(Text("switching"), TRUE, extProfile), Asking,
                               Status(Connected(extProfile), TRUE, extProfile)>>
              ELSE events
    /\ UNCHANGED <<extVars, inbox, coordinatorVars, pageVars, vpnSessionId, resultKeys>>
    /\ ExtFrame

\* Commands and answers may be lost.
LoseMessage ==
    /\ lost < MaxLost
    /\ lost' = lost + 1
    /\ \/ \E c \in commands : commands' = commands \ {c} /\ UNCHANGED answers
       \/ \E a \in answers : answers' = answers \ {a} /\ UNCHANGED commands
    /\ UNCHANGED <<requestVars, timerVars, keyVars, traffic, extVars, inbox, events,
                   unheard, coordinatorVars, pageVars, vpnSessionId, resultKeys>>

\* A status event brings its envelope, whose revision is always 0; a status that
\* becomes connected calls the page.
Control ==
    /\ ControlNext
    /\ IF OnStatus
       THEN vpnSessionId' = Head(events).session /\ vpnAppliedRevision' = 0
       ELSE UNCHANGED <<vpnSessionId, vpnAppliedRevision>>
    /\ IF IsConnected(vpnStatus') /\ vpnStatus' # vpnStatus
       THEN MarkAllAppliedOnConnect ELSE UNCHANGED coordinatorVars
    /\ UNCHANGED <<pageVars, vpnApplyOperationId, vpnApplySessionId, commands, answers>>

UiApplyNext ==
    \/ Control
    \/ CommitAndApply \/ ApplyAgain \/ DiscardDraft \/ ApplyWatchdog
    \/ \E a \in answers : OnApplyResult(a)
    \/ \E c \in commands : ExtApply(c)
    \/ LoseMessage

UiApplySpec == UiApplyInit /\ [][UiApplyNext]_allVars

-------------------------------------------------------------------------------
(* A claim of the design that the code does not keep. *)

\* "With vpnApplyOperationId and vpnAppliedRevision matched, acceptAck": a
\* success answered to the operation in progress, by the session it was sent to,
\* ends it with the revision answered.
AnswerTaken ==
    [][\A a \in answers \ answers' :
          /\ a.ok /\ phase = "applying" /\ a.op = operationId
          /\ a.session = applySessionId
          /\ a.op = vpnApplyOperationId' /\ a.op # vpnApplyOperationId
          => phase' = "applied" /\ appliedRevision' = a.revision]_allVars
===============================================================================
