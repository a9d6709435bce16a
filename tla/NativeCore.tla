------------------------------ MODULE NativeCore ------------------------------
(***************************************************************************)
(* The core state machine of the NAPI bridge (napi_init.cpp) over the Go   *)
(* wrapper's singleton kernel (core/libsingbox14/main.go).                 *)
(*                                                                         *)
(* A start or stop call is one JS call.  An accepted start spawns a        *)
(* detached worker thread; a stop that finds the core running spawns a     *)
(* detached stop thread; any other stop parks its callback in the list of  *)
(* stop waiters, for the thread that brings the core down to complete.     *)
(* Each critical section under g_stateMutex, each call into the kernel and *)
(* each callback is one step; threads interleave between steps.            *)
(***************************************************************************)
EXTENDS Naturals

CONSTANTS Starts,   \* startCoreNative calls
          Stops,    \* stopCoreNative calls
          Fds,      \* tun descriptors a start may pass
          None      \* no kernel instance

ASSUME NativeAssumption ==
    /\ Starts \cap Stops = {}
    /\ None \notin Starts
    /\ Fds # {}

VARIABLES
    coreState,            \* g_coreState
    coreGeneration,       \* g_coreGeneration
    cancelledGeneration,  \* g_cancelledGeneration
    stopWaiters,          \* g_stopWaiters: the stop calls parked in it
    libLoaded,            \* g_coreLib and the required symbols are set
    tunFd,                \* Go: tunFd
    instance,             \* Go: the start call whose kernel is running, or None
    instanceFd,           \* the descriptor that kernel was created with
    pc,                   \* where the thread of each call is
    fdArg,                \* the descriptor each start call passed
    generation,           \* the generation each start call was given
    message,              \* the outcome each start worker will report
    stopMessage,          \* the outcome a thread will report to the waiters
    detached,             \* waiters a thread took from the list, not yet called
    answer,               \* what each call's callback received
    aimed,                \* history: the starts in progress or up when a stop came
    preempted             \* history: those of them that were still starting

kernelVars == <<libLoaded, tunFd, instance, instanceFd>>
stateVars == <<coreState, coreGeneration, cancelledGeneration, stopWaiters>>
threadVars == <<pc, fdArg, generation, message, stopMessage, detached>>
historyVars == <<aimed, preempted>>
vars == <<stateVars, kernelVars, threadVars, answer, historyVars>>

Calls == Starts \cup Stops

Init ==
    /\ coreState = "Stopped"
    /\ coreGeneration = 0
    /\ cancelledGeneration = 0
    /\ stopWaiters = {}
    /\ libLoaded = FALSE
    /\ tunFd \in Fds
    /\ instance = None
    /\ instanceFd = tunFd
    /\ pc = [c \in Calls |-> "new"]
    /\ fdArg = [s \in Starts |-> tunFd]
    /\ generation = [s \in Starts |-> 0]
    /\ message = [s \in Starts |-> "ok"]
    /\ stopMessage = [c \in Calls |-> "ok"]
    /\ detached = [c \in Calls |-> {}]
    /\ answer = [c \in Calls |-> "none"]
    /\ aimed = [t \in Stops |-> {}]
    /\ preempted = [t \in Stops |-> {}]

Go(c, from, to) ==
    /\ pc[c] = from
    /\ pc' = [pc EXCEPT ![c] = to]

\* The start call that holds the current generation.
Current == {s \in Starts : generation[s] = coreGeneration}

-------------------------------------------------------------------------------
(* startCoreNative: the call itself. *)

StartRefused(s) ==
    /\ coreState # "Stopped"
    /\ Go(s, "new", "done")
    /\ answer' = [answer EXCEPT ![s] = "busy"]
    /\ UNCHANGED <<stateVars, kernelVars, fdArg, generation, message,
                   stopMessage, detached, historyVars>>

StartAccepted(s, fd) ==
    /\ coreState = "Stopped"
    /\ Go(s, "new", "load")
    /\ coreState' = "Starting"
    /\ coreGeneration' = coreGeneration + 1
    /\ generation' = [generation EXCEPT ![s] = coreGeneration + 1]
    /\ fdArg' = [fdArg EXCEPT ![s] = fd]
    /\ UNCHANGED <<cancelledGeneration, stopWaiters, kernelVars, message,
                   stopMessage, detached, answer, historyVars>>

-------------------------------------------------------------------------------
(* The start worker. *)

\* LoadCoreLib; once loaded it stays loaded.
Load(s) ==
    /\ \/ /\ libLoaded' = TRUE
          /\ Go(s, "load", "setFd")
          /\ UNCHANGED message
       \/ /\ ~libLoaded
          /\ Go(s, "load", "commit")
          /\ message' = [message EXCEPT ![s] = "failed"]
          /\ UNCHANGED libLoaded
    /\ UNCHANGED <<stateVars, tunFd, instance, instanceFd, fdArg, generation,
                   stopMessage, detached, answer, historyVars>>

SetTunFd(s) ==
    /\ Go(s, "setFd", "start")
    /\ tunFd' = fdArg[s]
    /\ UNCHANGED <<stateVars, libLoaded, instance, instanceFd, fdArg, generation,
                   message, stopMessage, detached, answer, historyVars>>

\* A kernel start whose error text is lost on the way up.
KernelStartErrorLost(s) ==
    /\ Go(s, "start", "commit")
    /\ \/ /\ instance = None
          /\ instance' = s
          /\ instanceFd' = tunFd
       \/ UNCHANGED <<instance, instanceFd>>
    /\ UNCHANGED <<stateVars, libLoaded, tunFd, fdArg, generation, message,
                   stopMessage, detached, answer, historyVars>>

\* CGoStartSingBox: refuses while an instance runs; reading, parsing, creating
\* or starting may fail, and then no instance is left.
KernelStart(s) ==
    /\ Go(s, "start", "commit")
    /\ \/ /\ instance = None
          /\ instance' = s
          /\ instanceFd' = tunFd
          /\ UNCHANGED message
       \/ /\ message' = [message EXCEPT ![s] = "failed"]
          /\ UNCHANGED <<instance, instanceFd>>
    /\ UNCHANGED <<stateVars, libLoaded, tunFd, fdArg, generation, stopMessage,
                   detached, answer, historyVars>>

\* A comparison that misses the generation the stop met.
CancelledLate(s) == generation[s] < cancelledGeneration

\* A later stop has cancelled this start: cancellations never reach back to an
\* earlier value, so every generation up to the last one cancelled is dead.
Cancelled(s) == generation[s] <= cancelledGeneration

\* A cancelled start that gives the core back without taking the kernel down.
CommitSkipsTeardown(s) ==
    /\ Go(s, "commit", IF message[s] # "ok" \/ Cancelled(s) THEN "complete" ELSE "emit")
    /\ coreState' = IF message[s] = "ok" /\ ~Cancelled(s)
                    THEN "Running" ELSE "Stopping"
    /\ UNCHANGED <<coreGeneration, cancelledGeneration, stopWaiters, kernelVars,
                   fdArg, generation, message, stopMessage, detached, answer,
                   historyVars>>

\* A failed start that publishes Stopped and leaves the stop waiters parked.
CommitForgetsWaiters(s) ==
    /\ Go(s, "commit", IF message[s] = "ok" /\ Cancelled(s) THEN "stopLate" ELSE "emit")
    /\ coreState' = IF message[s] # "ok" THEN "Stopped"
                    ELSE IF Cancelled(s) THEN "Stopping" ELSE "Running"
    /\ UNCHANGED <<coreGeneration, cancelledGeneration, stopWaiters, kernelVars,
                   fdArg, generation, message, stopMessage, detached, answer,
                   historyVars>>

\* A failed start that publishes a state of its own.
CommitFailedState(s) ==
    /\ Go(s, "commit", IF message[s] # "ok" THEN "complete"
                       ELSE IF Cancelled(s) THEN "stopLate" ELSE "emit")
    /\ coreState' = IF message[s] # "ok" THEN "Failed"
                    ELSE IF Cancelled(s) THEN "Stopping" ELSE "Running"
    /\ UNCHANGED <<coreGeneration, cancelledGeneration, stopWaiters, kernelVars,
                   fdArg, generation, message, stopMessage, detached, answer,
                   historyVars>>

Commit(s) ==
    /\ Go(s, "commit", IF message[s] # "ok" THEN "complete"
                       ELSE IF Cancelled(s) THEN "stopLate" ELSE "emit")
    /\ coreState' = IF message[s] = "ok" /\ ~Cancelled(s)
                    THEN "Running" ELSE "Stopping"
    /\ UNCHANGED <<coreGeneration, cancelledGeneration, stopWaiters, kernelVars,
                   fdArg, generation, message, stopMessage, detached, answer,
                   historyVars>>

\* CGoStopSingBox: closing may report an error, the instance is gone anyway.
KernelStop(c) ==
    /\ instance' = None
    /\ \E m \in {"ok", "failed"} :
         /\ instance = None => m = "ok"
         /\ stopMessage' = [stopMessage EXCEPT ![c] = m]
    /\ UNCHANGED <<libLoaded, tunFd, instanceFd>>

StopLate(s) ==
    /\ Go(s, "stopLate", "complete")
    /\ KernelStop(s)
    /\ message' = [message EXCEPT ![s] = "cancelled"]
    /\ UNCHANGED <<stateVars, fdArg, generation, detached, answer, historyVars>>

\* CompleteWaiters that forgets to publish that the core is down.
CompleteSilently(c) ==
    /\ Go(c, "complete", "emit")
    /\ detached' = [detached EXCEPT ![c] = stopWaiters]
    /\ stopWaiters' = {}
    /\ UNCHANGED <<coreState, coreGeneration, cancelledGeneration, kernelVars,
                   fdArg, generation, message, stopMessage, answer, historyVars>>

\* CompleteWaiters, the critical section: Stopped is published and the waiters
\* are taken in one step; their callbacks are called after the unlock.
CompleteWaiters(c) ==
    /\ Go(c, "complete", "emit")
    /\ coreState' = "Stopped"
    /\ detached' = [detached EXCEPT ![c] = stopWaiters]
    /\ stopWaiters' = {}
    /\ UNCHANGED <<coreGeneration, cancelledGeneration, kernelVars, fdArg,
                   generation, message, stopMessage, answer, historyVars>>

EmitWaiter(c, w) ==
    /\ pc[c] = "emit"
    /\ w \in detached[c]
    /\ detached' = [detached EXCEPT ![c] = @ \ {w}]
    /\ answer' = [answer EXCEPT ![w] = stopMessage[c]]
    /\ UNCHANGED <<stateVars, kernelVars, pc, fdArg, generation, message,
                   stopMessage, historyVars>>

EmitResult(s) ==
    /\ detached[s] = {}
    /\ Go(s, "emit", "done")
    /\ answer' = [answer EXCEPT ![s] = message[s]]
    /\ UNCHANGED <<stateVars, kernelVars, fdArg, generation, message,
                   stopMessage, detached, historyVars>>

-------------------------------------------------------------------------------
(* stopCoreNative: the call, and the thread it may spawn. *)

StopWhenStopped(t) ==
    /\ coreState = "Stopped"
    /\ Go(t, "new", "done")
    /\ answer' = [answer EXCEPT ![t] = "ok"]
    /\ UNCHANGED <<stateVars, kernelVars, fdArg, generation, message,
                   stopMessage, detached, historyVars>>

Aim(t) ==
    /\ aimed' = [aimed EXCEPT ![t] = Current]
    /\ preempted' = [preempted EXCEPT
                       ![t] = IF coreState = "Starting" THEN Current ELSE {}]

\* A stop that answers at once when somebody is already stopping the core.
StopJoinsEagerly(t) ==
    /\ coreState \in {"Starting", "Stopping"}
    /\ Go(t, "new", "done")
    /\ answer' = [answer EXCEPT ![t] = "ok"]
    /\ cancelledGeneration' = IF coreState = "Starting" THEN coreGeneration
                              ELSE cancelledGeneration
    /\ Aim(t)
    /\ UNCHANGED <<coreState, coreGeneration, stopWaiters, kernelVars, fdArg,
                   generation, message, stopMessage, detached>>

StopJoins(t) ==
    /\ coreState \in {"Starting", "Stopping"}
    /\ Go(t, "new", "parked")
    /\ stopWaiters' = stopWaiters \cup {t}
    /\ cancelledGeneration' = IF coreState = "Starting" THEN coreGeneration
                              ELSE cancelledGeneration
    /\ Aim(t)
    /\ UNCHANGED <<coreState, coreGeneration, kernelVars, fdArg, generation,
                   message, stopMessage, detached, answer>>

\* A stop that leaves the state Running while its thread works.
StopRunningUnmarked(t) ==
    /\ coreState = "Running"
    /\ Go(t, "new", "stop")
    /\ stopWaiters' = stopWaiters \cup {t}
    /\ Aim(t)
    /\ UNCHANGED <<coreState, coreGeneration, cancelledGeneration, kernelVars,
                   fdArg, generation, message, stopMessage, detached, answer>>

StopRunning(t) ==
    /\ coreState = "Running"
    /\ Go(t, "new", "stop")
    /\ stopWaiters' = stopWaiters \cup {t}
    /\ coreState' = "Stopping"
    /\ Aim(t)
    /\ UNCHANGED <<coreGeneration, cancelledGeneration, kernelVars, fdArg,
                   generation, message, stopMessage, detached, answer>>

StopThread(t) ==
    /\ Go(t, "stop", "complete")
    /\ KernelStop(t)
    /\ UNCHANGED <<stateVars, fdArg, generation, message, detached, answer,
                   historyVars>>

-------------------------------------------------------------------------------

StartCall(s) == StartRefused(s) \/ \E fd \in Fds : StartAccepted(s, fd)
StopCall(t) == StopWhenStopped(t) \/ StopJoins(t) \/ StopRunning(t)

WorkerStep(s) ==
    \/ Load(s) \/ SetTunFd(s) \/ KernelStart(s) \/ Commit(s) \/ StopLate(s)
    \/ EmitResult(s)

ThreadStep(c) ==
    \/ c \in Starts /\ WorkerStep(c)
    \/ c \in Stops /\ StopThread(c)
    \/ CompleteWaiters(c)
    \/ \E w \in Stops : EmitWaiter(c, w)

Next ==
    \/ \E s \in Starts : StartCall(s)
    \/ \E t \in Stops : StopCall(t)
    \/ \E c \in Calls : ThreadStep(c)

Spec == Init /\ [][Next]_vars

\* Detached threads are scheduled, and the kernel's start and stop return; the
\* JS side owes no call.
Fairness == \A c \in Calls : WF_vars(ThreadStep(c))
FairSpec == Spec /\ Fairness

-------------------------------------------------------------------------------
(* Properties. *)

Places == {"new", "load", "setFd", "start", "commit", "stopLate", "complete",
           "emit", "parked", "stop", "done"}
Outcomes == {"ok", "failed", "cancelled"}

\* Every variable stays in its type.
TypeOK ==
    /\ coreState \in {"Stopped", "Starting", "Running", "Stopping"}
    /\ coreGeneration \in Nat /\ cancelledGeneration \in Nat
    /\ stopWaiters \subseteq Stops
    /\ libLoaded \in BOOLEAN
    /\ tunFd \in Fds /\ instanceFd \in Fds
    /\ instance \in Starts \cup {None}
    /\ pc \in [Calls -> Places]
    /\ fdArg \in [Starts -> Fds]
    /\ generation \in [Starts -> Nat]
    /\ message \in [Starts -> Outcomes]
    /\ stopMessage \in [Calls -> Outcomes]
    /\ detached \in [Calls -> SUBSET Stops]
    /\ answer \in [Calls -> Outcomes \cup {"none", "busy"}]
    /\ aimed \in [Stops -> SUBSET Starts]
    /\ preempted \in [Stops -> SUBSET Starts]

\* A thread that is bringing the kernel up or down, up to CompleteWaiters.
Busy == {c \in Calls : pc[c] \in {"load", "setFd", "start", "commit",
                                  "stopLate", "stop", "complete"}}

\* No two native threads are ever between taking the core and giving it back:
\* the Go wrapper's tunFd, set and used in two calls, has one user at a time.
OneOwner == \A c, d \in Busy : c = d

\* The state JavaScript is told is the state of the kernel: no instance once
\* Stopped, and while Running the instance is that of the current generation,
\* created with the descriptor its own start call passed.
StateMatchesKernel ==
    /\ coreState = "Stopped" => instance = None
    /\ coreState = "Running" => instance \in Current
    /\ instance # None => instanceFd = fdArg[instance]

\* A worker never reaches the kernel while another instance runs, so the
\* wrapper's "sing-box already running" is never the answer to a start.
NeverAlreadyRunning == \A s \in Starts : pc[s] = "start" => instance = None

\* A stop is acknowledged only after every start it met, running or still
\* starting, is over: its kernel is gone and its worker will not make one.
StopAcknowledgedWhenDown ==
    \A t \in Stops : answer[t] # "none" =>
        \A s \in aimed[t] : instance # s /\ s \notin Busy

\* A start that a stop overtook is never reported as a success.
OvertakenStartNotOk ==
    \A t \in Stops : \A s \in preempted[t] : answer[s] # "ok"

\* A start is reported cancelled only if a stop met it while it was starting:
\* a stop of an earlier generation never cancels a later one.
CancelledOnlyByStop ==
    \A s \in Starts : answer[s] = "cancelled" =>
        \E t \in Stops : s \in preempted[t]

\* A kernel that was reported up is down only if a stop asked for it.
UpUntilStopped ==
    \A s \in Starts : answer[s] = "ok" /\ instance # s =>
        \E t \in Stops : s \in aimed[t]

\* A parked stop callback always has a thread that will call it.
NoWaiterForgotten ==
    \A t \in Stops : pc[t] = "parked" /\ answer[t] = "none" =>
        \/ t \in stopWaiters /\ Busy # {}
        \/ \E c \in Calls : pc[c] = "emit" /\ t \in detached[c]

\* Each callback is called once: "exactly one producer owns each result TSFN
\* and releases it once".
AnsweredOnce == [][\A c \in Calls : answer[c] # "none" => answer'[c] = answer[c]]_vars

\* Every call is answered, whatever the interleaving of starts and stops.
EveryCallAnswered ==
    \A c \in Calls : pc[c] # "new" ~> answer[c] # "none"

-------------------------------------------------------------------------------
(* The contract, seen through the native state. *)

Held(s) ==
    IF pc[s] = "new" \/ answer[s] = "busy" THEN "new"
    ELSE IF instance = s THEN "up"
    ELSE IF s \in Busy /\ pc[s] # "complete"
            /\ message[s] = "ok" THEN "pending" ELSE "down"

Abstract == INSTANCE CoreContract
    WITH hold <- [s \in Starts |-> Held(s)], aims <- aimed, reply <- answer

\* The threads implement the contract: one holder at a time, refusals only for
\* the others, stops answered once what they aimed at is down.
ImplementsContract == Abstract!Contract
===============================================================================
