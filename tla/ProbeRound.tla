------------------------------ MODULE ProbeRound ------------------------------
(***************************************************************************)
(* A round of node probes (ProbeRunner.ets) and the results it keeps       *)
(* (ProbeCoordinator.ets): the targets are probed in batches, one test     *)
(* session of the kernel after the other; a batch whose session does not   *)
(* start is split until the node that breaks it stands alone.              *)
(*                                                                         *)
(* Of the kernel only the session that is live is kept.  TestSessions      *)
(* shows that there is at most one and that a stop answers once it is      *)
(* gone.  A call reaches the registry before it times out in the UI        *)
(* process; what it begins there may take any time, and its answer may     *)
(* never be seen.  A stop may also fail on its way.                        *)
(***************************************************************************)
EXTENDS Naturals, Sequences, FiniteSets

CONSTANTS
    NodeCount,
    Chained,         \* the nodes that share a chainKey
    Concurrency,     \* env.concurrency
    StartLimits,     \* opts.maxStarts of a round; 0: the default budget
    MaxRounds

ASSUME ProbeAssumption ==
    /\ NodeCount \in Nat \ {0} /\ Concurrency \in Nat \ {0} /\ MaxRounds \in Nat
    /\ Chained \subseteq 1..NodeCount
    /\ StartLimits \subseteq Nat

VARIABLES
    rounds, phase, asked, cancelled,   \* the coordinator; opts.isCancelled()
    result,          \* state of each node's result
    pc,              \* what the runner awaits
    limit,           \* ctx.maxStarts
    startsUsed,
    queue, batch,    \* batches to come, the batch at work
    next, inflight,  \* cursor of the workers, nodes being probed
    outcome,         \* how the start of the batch ended
    reason,          \* why the round ended with nodes not probed
    live, own,       \* the live session; it is the one of the batch at work
    startReply, stopReply,   \* answers of the kernel to the batch at work
    leftover         \* a session was live when the first batch began

coordVars == <<rounds, phase, asked, cancelled, result>>
batchVars == <<limit, startsUsed, queue, batch, next, inflight, outcome, reason, leftover>>
kernelVars == <<live, own, startReply, stopReply>>
vars == <<coordVars, pc, batchVars, kernelVars>>

Nodes == 1..NodeCount
Budget == 2 * NodeCount - 1

Init ==
    /\ rounds = 0 /\ phase = "idle" /\ asked = FALSE /\ cancelled = FALSE
    /\ result = [n \in Nodes |-> "none"]
    /\ pc = "idle"
    /\ limit = 0 /\ startsUsed = 0 /\ queue = <<>> /\ batch = <<>>
    /\ next = 1 /\ inflight = {} /\ outcome = "ok" /\ reason = "none"
    /\ live = "none" /\ own = FALSE /\ startReply = "none" /\ stopReply = "none"
    /\ leftover = FALSE

-------------------------------------------------------------------------------
(* The coordinator. *)

IsCancelled == asked \/ cancelled

Unfinished(s) == s \in {"queued", "running"}

\* The guard of onNodeResult that forgets the results that are final.
AcceptedLate(s) == TRUE
Accepted(s) == Unfinished(s)

\* finish, after `res' has been brought up to date.
Finish(res, why) ==
    /\ result' = [n \in Nodes |-> IF Unfinished(res[n]) THEN "cancelled" ELSE res[n]]
    /\ phase' = "done" /\ pc' = "save"
    /\ reason' = why
    /\ queue' = <<>>
    /\ UNCHANGED <<rounds, asked, limit, startsUsed, batch, next, inflight,
                   outcome, leftover>>

NotApplicable(res) == [n \in Nodes |-> IF res[n] = "queued" THEN "not_applicable" ELSE res[n]]

\* cancel, while the round is active.
CancelQueued ==
    /\ cancelled' = TRUE /\ phase' = "cancelling"
    /\ result' = [n \in Nodes |-> IF result[n] = "queued" THEN "cancelled" ELSE result[n]]

FinishCancelled == cancelled' = TRUE /\ Finish(result, "cancelled")

\* The page no longer wants the round: it answers so when it is asked.
Ask ==
    /\ pc # "idle" /\ ~asked
    /\ asked' = TRUE
    /\ UNCHANGED <<rounds, phase, cancelled, result, pc, batchVars, kernelVars>>

\* ProbeRunner.cancel
Cancel ==
    /\ phase = "running"
    /\ CancelQueued
    /\ UNCHANGED <<rounds, asked, pc, batchVars, kernelVars>>

-------------------------------------------------------------------------------
(* The round. *)

\* runProbeRound, one at a time; begin freezes the targets.
Begin ==
    /\ pc = "idle" /\ rounds < MaxRounds
    /\ rounds' = rounds + 1
    /\ phase' = "running" /\ asked' = FALSE /\ cancelled' = FALSE
    /\ result' = [n \in Nodes |-> "queued"]
    /\ pc' = "prepare"
    /\ \E m \in StartLimits : limit' = IF m > 0 THEN m ELSE Budget
    /\ startsUsed' = 0
    /\ queue' = <<[n \in Nodes |-> n]>> /\ batch' = <<>>
    /\ next' = 1 /\ inflight' = {} /\ outcome' = "ok" /\ reason' = "none"
    /\ own' = FALSE /\ leftover' = FALSE
    /\ UNCHANGED <<live, startReply, stopReply>>

PrepareCancelled ==
    /\ pc = "prepare" /\ IsCancelled
    /\ FinishCancelled
    /\ UNCHANGED kernelVars

\* No capability within the timeout, no directory, no valid target.
NoEnvironment ==
    /\ pc = "prepare" /\ ~IsCancelled
    /\ Finish(NotApplicable(result), "environment")
    /\ UNCHANGED <<cancelled, kernelVars>>

Prepare ==
    /\ pc = "prepare" /\ ~IsCancelled
    /\ pc' = "clean"
    /\ UNCHANGED <<coordVars, batchVars, kernelVars>>

\* cleanupStaleSessions: only active sessions are listed, and stopped.
StopStale ==
    /\ pc = "clean" /\ live = "active"
    /\ live' = "stopping" /\ stopReply' = "none"
    /\ pc' = "stale"
    /\ UNCHANGED <<coordVars, batchVars, own, startReply>>

NoneStale ==
    /\ pc = "clean" /\ live # "active"
    /\ pc' = "head" /\ leftover' = (live # "none")
    /\ UNCHANGED <<coordVars, limit, startsUsed, queue, batch, next, inflight,
                   outcome, reason, kernelVars>>

\* The stop answered, or the registry knows of no such session or a closed one.
StaleStopped ==
    /\ pc = "stale" /\ live = "none"
    /\ pc' = "head"
    /\ UNCHANGED <<coordVars, batchVars, kernelVars>>

\* The list, the stop or the inquiry stayed unanswered, or it is not closed.
StaleUnconfirmed ==
    /\ pc \in {"clean", "stale"}
    /\ Finish(result, "unconfirmed")
    /\ UNCHANGED <<cancelled, kernelVars>>

-------------------------------------------------------------------------------
(* runIsolationLoop: its head, up to the start of a batch. *)

AllProbed ==
    /\ pc = "head" /\ queue = <<>>
    /\ Finish(result, "none")
    /\ UNCHANGED <<cancelled, kernelVars>>

HeadCancelled ==
    /\ pc = "head" /\ queue # <<>> /\ IsCancelled
    /\ FinishCancelled
    /\ UNCHANGED kernelVars

MayGoOn == pc = "head" /\ queue # <<>> /\ ~IsCancelled

BudgetUsed ==
    /\ MayGoOn /\ startsUsed >= limit
    /\ Finish(result, "budget")
    /\ UNCHANGED <<cancelled, kernelVars>>

\* The config of the batch cannot be built or written.
NoConfig ==
    /\ MayGoOn /\ startsUsed < limit
    /\ Finish(NotApplicable(result), "environment")
    /\ UNCHANGED <<cancelled, kernelVars>>

\* startV3 under a session id never used before; the registry refuses it while
\* another session is live.
StartBatch ==
    /\ MayGoOn /\ startsUsed < limit
    /\ batch' = Head(queue) /\ queue' = Tail(queue)
    /\ startsUsed' = startsUsed + 1
    /\ next' = 1 /\ inflight' = {}
    /\ pc' = "starting"
    /\ IF live = "none"
       THEN live' = "starting" /\ own' = TRUE /\ startReply' = "none"
       ELSE UNCHANGED live /\ own' = FALSE /\ startReply' = "refused"
    /\ UNCHANGED <<coordVars, limit, outcome, reason, leftover, stopReply>>

-------------------------------------------------------------------------------
(* attemptBatch, from the answer of the start to the confirmed stop. *)

Await(from, to) == pc = from /\ pc' = to

AttemptFrame == UNCHANGED <<limit, startsUsed, queue, batch, reason, leftover>>

Started ==
    /\ Await("starting", "probing") /\ startReply = "ok"
    /\ outcome' = "ok"
    /\ UNCHANGED <<coordVars, next, inflight, kernelVars>> /\ AttemptFrame

NotStarted ==
    /\ Await("starting", "stop")
    /\ \/ startReply \in {"refused", "failed"} /\ outcome' = startReply
       \/ outcome' = "timeout"
    /\ UNCHANGED <<coordVars, next, inflight, kernelVars>> /\ AttemptFrame

\* A worker takes the next node of the batch.
Take ==
    /\ pc = "probing" /\ ~IsCancelled
    /\ next <= Len(batch) /\ Cardinality(inflight) < Concurrency
    /\ next' = next + 1 /\ inflight' = inflight \cup {batch[next]}
    /\ result' = [result EXCEPT ![batch[next]] = IF @ = "queued" THEN "running" ELSE @]
    /\ UNCHANGED <<rounds, phase, asked, cancelled, pc, outcome, kernelVars>>
    /\ AttemptFrame

\* Its probes answered or timed out; a cancelled round still takes the result.
EndProbe(n) ==
    /\ pc = "probing" /\ n \in inflight
    /\ inflight' = inflight \ {n}
    /\ \E r \in {"success", "failed"} :
          result' = [result EXCEPT ![n] = IF Accepted(@) THEN r ELSE @]
    /\ UNCHANGED <<rounds, phase, asked, cancelled, pc, next, outcome, kernelVars>>
    /\ AttemptFrame

\* A cancelled round that does not stop the session it used.
BatchProbedAbandon ==
    /\ pc = "probing" /\ inflight = {}
    /\ \/ IsCancelled /\ CancelQueued /\ pc' = "head"
       \/ /\ ~IsCancelled /\ next > Len(batch) /\ pc' = "stop"
          /\ UNCHANGED <<phase, cancelled, result>>
    /\ UNCHANGED <<rounds, asked, next, inflight, outcome, kernelVars>> /\ AttemptFrame

BatchProbed ==
    /\ Await("probing", "stop")
    /\ inflight = {}
    /\ \/ IsCancelled /\ CancelQueued
       \/ ~IsCancelled /\ next > Len(batch) /\ UNCHANGED <<phase, cancelled, result>>
    /\ UNCHANGED <<rounds, asked, next, inflight, outcome, kernelVars>> /\ AttemptFrame

LiveOwn == live # "none" /\ own

\* stopV3 of the session of the batch; an id the registry does not know, or
\* knows as closed, is answered at once.  The bridge may fail the call before
\* it gets there.
StopBatch ==
    /\ Await("stop", "stopping")
    /\ \/ LiveOwn /\ live' = "stopping" /\ stopReply' = "none"
       \/ ~LiveOwn /\ UNCHANGED live /\ stopReply' = "ok"
       \/ UNCHANGED live /\ stopReply' = "failed"
    /\ UNCHANGED <<coordVars, next, inflight, outcome, own, startReply>> /\ AttemptFrame

\* A stop that waits for its answer without a timeout.
StopUnsurePatient ==
    /\ Await("stopping", "info") /\ stopReply = "failed"
    /\ UNCHANGED <<coordVars, next, inflight, outcome, kernelVars>> /\ AttemptFrame

\* The stop reports an error or stays unanswered: the session is inquired about.
StopUnsure ==
    /\ Await("stopping", "info")
    /\ UNCHANGED <<coordVars, next, inflight, outcome, kernelVars>> /\ AttemptFrame

\* The inquiry finds the session live, or stays unanswered.
Unconfirmed ==
    /\ pc = "info"
    /\ Finish(result, "unconfirmed")
    /\ UNCHANGED <<cancelled, kernelVars>>

-------------------------------------------------------------------------------
(* The decision on a batch that did not start. *)

Half(s) == (Len(s) + 1) \div 2

\* A split that loses the middle of an odd batch.
SplitOddly(s) == <<SubSeq(s, 1, Len(s) \div 2), SubSeq(s, Half(s) + 1, Len(s))>>
Split(s) == <<SubSeq(s, 1, Half(s)), SubSeq(s, Half(s) + 1, Len(s))>>

\* markIsolationFailure: the node, and the others that share its chainKey.
Affected(n) == {n} \cup IF n \in Chained THEN Chained ELSE {}

\* The sequence s without the members of S.
Kept(s, S) ==
    LET kept[i \in 0..Len(s)] ==
            IF i = 0 THEN <<>>
            ELSE IF s[i] \in S THEN kept[i - 1] ELSE Append(kept[i - 1], s[i])
    IN  kept
Sift(s, S) == Kept(s, S)[Len(s)]

\* removeFromQueue
Without(q, ids) == Sift([i \in 1..Len(q) |-> Sift(q[i], ids)], {<<>>})

Isolate(n) ==
    /\ result' = [m \in Nodes |-> IF m \in Affected(n) /\ Accepted(result[m])
                                  THEN "isolated" ELSE result[m]]
    /\ queue' = Without(queue, Affected(n))

\* What is done with the batch once its session is known to be gone.
Decide ==
    \/ outcome = "ok" /\ UNCHANGED <<queue, result>>
    \/ /\ outcome # "ok" /\ Len(batch) > 1
       /\ queue' = Split(batch) \o queue /\ UNCHANGED result
    \/ outcome # "ok" /\ Len(batch) = 1 /\ Isolate(batch[1])

ConfirmedFrame ==
    UNCHANGED <<rounds, phase, asked, cancelled, limit, startsUsed, batch, next,
                inflight, outcome, reason, leftover, kernelVars>>

\* A timeout of the stop taken for its answer.
ConfirmedByTimeout ==
    /\ Await("stopping", "head")
    /\ Decide /\ ConfirmedFrame

Confirmed ==
    /\ \/ Await("stopping", "head") /\ stopReply = "ok"
       \/ Await("info", "head") /\ ~LiveOwn
    /\ Decide /\ ConfirmedFrame

\* saveRound: what could not be written is marked so.
Save ==
    /\ Await("save", "idle")
    /\ \/ UNCHANGED result
       \/ result' = [n \in Nodes |-> "unsaved"]
    /\ UNCHANGED <<rounds, phase, asked, cancelled, batchVars, kernelVars>>

-------------------------------------------------------------------------------
(* The kernel. *)

Created ==
    /\ live = "starting"
    /\ \/ live' = "active" /\ startReply' = IF own THEN "ok" ELSE startReply
       \/ live' = "none" /\ startReply' = IF own THEN "failed" ELSE startReply
    /\ UNCHANGED <<coordVars, pc, batchVars, own, stopReply>>

\* A session being stopped is gone, and its stop answers.
Closed ==
    /\ live = "stopping"
    /\ live' = "none"
    /\ \E r \in {"ok", "failed"} : stopReply' = IF own THEN r ELSE stopReply
    /\ UNCHANGED <<coordVars, pc, batchVars, own, startReply>>

-------------------------------------------------------------------------------

RunnerStep ==
    \/ PrepareCancelled \/ NoEnvironment \/ Prepare
    \/ StopStale \/ NoneStale \/ StaleStopped \/ StaleUnconfirmed
    \/ AllProbed \/ HeadCancelled \/ BudgetUsed \/ NoConfig \/ StartBatch
    \/ Started \/ NotStarted
    \/ Take \/ (\E n \in Nodes : EndProbe(n)) \/ BatchProbed
    \/ StopBatch \/ StopUnsure \/ Unconfirmed \/ Confirmed \/ Save

Next == Begin \/ Ask \/ Cancel \/ RunnerStep \/ Created \/ Closed

Spec == Init /\ [][Next]_vars

\* withTimeout bounds every call of the kernel the runner awaits, so the runner
\* goes on; the kernel owes it nothing, and neither does the page.  The TCP ping
\* of the V2 fallback, which nothing bounds, is left out: the app leaves it off.
\* Saving the results is not bounded either, but comes after the round has ended.
FairSpec == Spec /\ WF_vars(RunnerStep)

-------------------------------------------------------------------------------
(* Properties. *)

Ended == {"success", "failed", "isolated", "cancelled", "not_applicable"}

\* Every variable stays in its type.
TypeOK ==
    /\ rounds \in 0..MaxRounds
    /\ phase \in {"idle", "running", "cancelling", "done"}
    /\ asked \in BOOLEAN /\ cancelled \in BOOLEAN
    /\ result \in [Nodes -> Ended \cup {"none", "queued", "running", "unsaved"}]
    /\ pc \in {"idle", "prepare", "clean", "stale", "head", "starting", "probing",
               "stop", "stopping", "info", "save"}
    /\ limit \in Nat /\ startsUsed \in 0..limit
    /\ queue \in Seq(Seq(Nodes)) /\ batch \in Seq(Nodes)
    /\ next \in 1..(NodeCount + 1) /\ inflight \subseteq Nodes
    /\ outcome \in {"ok", "refused", "failed", "timeout"}
    /\ reason \in {"none", "cancelled", "environment", "unconfirmed", "budget"}
    /\ live \in {"none", "starting", "active", "stopping"}
    /\ own \in BOOLEAN /\ leftover \in BOOLEAN
    /\ startReply \in {"none", "ok", "refused", "failed"}
    /\ stopReply \in {"none", "ok", "failed"}

\* A result that is final is not overwritten in its round, whatever is split,
\* isolated or cancelled later; only a failed save marks it.
ResultsFinal ==
    [][\A n \in Nodes : result[n] \in Ended /\ rounds' = rounds =>
          result'[n] \in {result[n], "unsaved"}]_vars

\* No node is skipped: a round that was not cancelled and met no failure of its
\* environment or of a stop has probed or isolated each of its targets, and
\* 2N-1 starts are enough for it.
NobodySkipped ==
    /\ phase = "done" /\ reason = "none" /\ ~cancelled =>
          \A n \in Nodes : result[n] \in {"success", "failed", "isolated", "unsaved"}
    /\ reason = "budget" => limit < Budget

\* A node is not blamed for the session before it: when it is isolated its own
\* start failed or timed out, unless a session the cleanup does not list was
\* live from the beginning.
BlameJustified ==
    [][\A n \in Nodes : result[n] # "isolated" /\ result'[n] = "isolated" =>
          outcome \in {"failed", "timeout"} \/ leftover]_vars

\* A round leaves no session of its own behind unless it says so.
NoSessionLeft == phase = "done" /\ reason # "unconfirmed" => ~LiveOwn

\* A round ends though the kernel may answer nothing.
RoundEnds == phase \in {"running", "cancelling"} ~> phase = "done"
===============================================================================
