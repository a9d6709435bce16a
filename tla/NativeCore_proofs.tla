--------------------------- MODULE NativeCore_proofs ---------------------------
(***************************************************************************)
(* Proofs about NativeCore, for any number of start and stop calls.        *)
(*                                                                         *)
(* The invariants come in layers.  Each layer is inductive relative to the *)
(* ones below it, which its step lemma takes as facts about both states:   *)
(*   TypeOK                                                                *)
(*   Owners    one thread at a time holds the core, and coreState says     *)
(*             how far it is                                               *)
(*   Kernels   where the Go instance is, given where the owner is          *)
(*   Waiters   who will call a parked stop, and what its answer means      *)
(*   Verdicts  what the answer of a start means                            *)
(*   Once      a callback has one producer                                 *)
(*   Mapped    what the contract sees of it                                *)
(***************************************************************************)
EXTENDS NativeCore, TLAPS

Bringing == {"load", "setFd", "start", "commit"}
Ending == {"stopLate", "stop", "complete"}

(***************************************************************************)
(* Types.                                                                  *)
(***************************************************************************)

\* The initial state is well typed.
LEMMA TypeInit == Init => TypeOK
  <1> SUFFICES ASSUME Init PROVE TypeOK
    OBVIOUS
  <1>1. /\ coreState \in {"Stopped", "Starting", "Running", "Stopping"}
        /\ coreGeneration \in Nat /\ cancelledGeneration \in Nat
        /\ stopWaiters \subseteq Stops
        /\ libLoaded \in BOOLEAN
        /\ tunFd \in Fds /\ instanceFd \in Fds
        /\ instance \in Starts \cup {None}
    BY DEF Init
  <1>2. /\ pc \in [Calls -> Places]
        /\ stopMessage \in [Calls -> Outcomes]
        /\ answer \in [Calls -> Outcomes \cup {"none", "busy"}]
    BY DEF Init, Places, Outcomes
  <1>3. /\ fdArg \in [Starts -> Fds]
        /\ generation \in [Starts -> Nat]
        /\ message \in [Starts -> Outcomes]
    BY DEF Init, Outcomes
  <1>4. /\ detached \in [Calls -> SUBSET Stops]
        /\ aimed \in [Stops -> SUBSET Starts]
        /\ preempted \in [Stops -> SUBSET Starts]
    BY DEF Init
  <1> QED
    BY <1>1, <1>2, <1>3, <1>4 DEF TypeOK

\* Every step of the start call, its worker, the stop call and its thread keeps
\* the types.
LEMMA TypeStep == TypeOK /\ [Next]_vars => TypeOK'
  <1> SUFFICES ASSUME TypeOK, [Next]_vars PROVE TypeOK'
    OBVIOUS
  <1> USE NativeAssumption DEF TypeOK, Calls, Places, Outcomes, Go, stateVars,
        kernelVars, threadVars, historyVars
  <1>1. ASSUME NEW s \in Starts, StartRefused(s) PROVE TypeOK'
    BY <1>1 DEF StartRefused
  <1>2. ASSUME NEW s \in Starts, NEW fd \in Fds, StartAccepted(s, fd) PROVE TypeOK'
    <2>1. /\ coreState' = "Starting" /\ coreGeneration' \in Nat
          /\ pc' = [pc EXCEPT ![s] = "load"]
          /\ generation' = [generation EXCEPT ![s] = coreGeneration + 1]
          /\ fdArg' = [fdArg EXCEPT ![s] = fd]
          /\ UNCHANGED <<cancelledGeneration, stopWaiters, kernelVars, message,
                         stopMessage, detached, answer, historyVars>>
      BY <1>2 DEF StartAccepted
    <2>2. generation' \in [Starts -> Nat] /\ fdArg' \in [Starts -> Fds]
      BY <2>1
    <2> QED
      BY <2>1, <2>2
  <1>3. ASSUME NEW s \in Starts, Load(s) PROVE TypeOK'
    BY <1>3 DEF Load
  <1>4. ASSUME NEW s \in Starts, SetTunFd(s) PROVE TypeOK'
    BY <1>4 DEF SetTunFd
  <1>5. ASSUME NEW s \in Starts, KernelStart(s) PROVE TypeOK'
    BY <1>5 DEF KernelStart
  <1>6. ASSUME NEW s \in Starts, Commit(s) PROVE TypeOK'
    BY <1>6 DEF Commit, Cancelled
  <1>7. ASSUME NEW s \in Starts, StopLate(s) PROVE TypeOK'
    BY <1>7 DEF StopLate, KernelStop
  <1>8. ASSUME NEW c \in Calls, CompleteWaiters(c) PROVE TypeOK'
    BY <1>8 DEF CompleteWaiters
  <1>9. ASSUME NEW c \in Calls, NEW w \in Stops, EmitWaiter(c, w) PROVE TypeOK'
    BY <1>9 DEF EmitWaiter
  <1>10. ASSUME NEW s \in Starts, EmitResult(s) PROVE TypeOK'
    BY <1>10 DEF EmitResult
  <1>11. ASSUME NEW t \in Stops, StopWhenStopped(t) PROVE TypeOK'
    BY <1>11 DEF StopWhenStopped
  <1>12. ASSUME NEW t \in Stops, StopJoins(t) PROVE TypeOK'
    BY <1>12 DEF StopJoins, Aim, Current
  <1>13. ASSUME NEW t \in Stops, StopRunning(t) PROVE TypeOK'
    BY <1>13 DEF StopRunning, Aim, Current
  <1>14. ASSUME NEW t \in Stops, StopThread(t) PROVE TypeOK'
    BY <1>14 DEF StopThread, KernelStop
  <1>15. CASE UNCHANGED vars
    BY <1>15 DEF vars
  <1> QED
    BY <1>1, <1>2, <1>3, <1>4, <1>5, <1>6, <1>7, <1>8, <1>9, <1>10, <1>11,
       <1>12, <1>13, <1>14, <1>15
    DEF Next, StartCall, StopCall, ThreadStep, WorkerStep

\* The state of napi_init.cpp and of the Go wrapper stays in its types, for any
\* calls.
THEOREM TypeCorrect == Spec => []TypeOK
  BY TypeInit, TypeStep, PTL DEF Spec

(***************************************************************************)
(* Owners: one thread at a time holds the core.                            *)
(***************************************************************************)

\* Start calls and stop calls keep to their own code; a call not made yet has
\* left no trace.
OwnCode ==
    /\ \A s \in Starts : pc[s] \notin {"stop", "parked"}
    /\ \A t \in Stops : pc[t] \notin Bringing \cup {"stopLate"}
    /\ \A c \in Calls : pc[c] = "new" => answer[c] = "none"
    /\ \A t \in stopWaiters : pc[t] # "new"
    /\ \A c \in Calls : \A t \in detached[c] : pc[t] # "new"

\* Generations are given out one by one, to accepted starts only.
Generations ==
    /\ coreState # "Stopped" => coreGeneration >= 1
    /\ cancelledGeneration <= coreGeneration
    /\ \A s \in Starts : generation[s] <= coreGeneration
    /\ \A s \in Starts : pc[s] = "new" \/ answer[s] = "busy" => generation[s] = 0
    /\ \A s \in Starts : answer[s] = "busy" => pc[s] = "done"
    /\ \A s \in Starts : pc[s] \notin {"new", "done"} => generation[s] >= 1
    /\ \A s, q \in Starts : generation[s] = generation[q] /\ generation[s] # 0 => s = q

\* A thread at work holds the core, coreState says so, and nobody else works.
Ownership ==
    /\ OneOwner
    /\ \A s \in Starts : pc[s] \in Bringing =>
          coreState = "Starting" /\ generation[s] = coreGeneration
    /\ \A c \in Calls : pc[c] \in Ending => coreState = "Stopping"
    /\ coreState \in {"Starting", "Stopping"} => Busy # {}

Owners == OwnCode /\ Generations /\ Ownership

\* Nothing is held at first.
LEMMA OwnersInit == Init => Owners
  BY DEF Init, Owners, OwnCode, Generations, Ownership, OneOwner, Busy, Calls,
         Bringing, Ending

\* A step that moves one thread from a working place to a working place, or to a
\* place outside while the core is given back, leaves one owner.
LEMMA OwnersStep == TypeOK /\ TypeOK' /\ Owners /\ [Next]_vars => Owners'
  <1> SUFFICES ASSUME TypeOK, TypeOK', Owners, [Next]_vars PROVE Owners'
    OBVIOUS
  <1> USE NativeAssumption DEF TypeOK, Owners, OwnCode, Generations, Ownership,
        OneOwner, Busy, Calls, Places, Outcomes, Bringing, Ending, Go,
        stateVars, kernelVars, threadVars, historyVars
  <1>1. ASSUME NEW s \in Starts, StartRefused(s) PROVE Owners'
    BY <1>1 DEF StartRefused
  <1>2. ASSUME NEW s \in Starts, NEW fd \in Fds, StartAccepted(s, fd) PROVE Owners'
    <2>1. /\ coreState = "Stopped" /\ coreState' = "Starting"
          /\ pc[s] = "new" /\ pc'[s] = "load"
          /\ \A c \in Calls : c # s => pc'[c] = pc[c]
          /\ coreGeneration' = coreGeneration + 1 /\ generation'[s] = coreGeneration + 1
          /\ \A q \in Starts : q # s => generation'[q] = generation[q]
          /\ UNCHANGED <<cancelledGeneration, stopWaiters, detached, answer>>
      BY <1>2 DEF StartAccepted
    <2>2. Busy = {}
      BY <2>1
    <2>3. Busy' = {s}
      BY <2>1, <2>2
    <2>4. OwnCode'
      BY <2>1
    <2>a. /\ coreGeneration \in Nat /\ coreGeneration' \in Nat /\ cancelledGeneration \in Nat
          /\ \A q \in Starts : generation[q] \in Nat /\ generation[q] <= coreGeneration
          /\ \A q \in Starts : q \in Calls
          /\ cancelledGeneration <= coreGeneration
      OBVIOUS
    <2>b. Generations
      OBVIOUS
    <2>c. answer[s] = "none"
      BY <2>1
    <2>5. Generations'
      <3> HIDE DEF TypeOK, Owners, OwnCode, Ownership, OneOwner, Busy, Calls, Places, Outcomes
      <3>1. \A q \in Starts : generation'[q] <= coreGeneration'
        BY <2>1, <2>a
      <3>2. \A q \in Starts : pc'[q] = "new" \/ answer'[q] = "busy" => generation'[q] = 0
        BY <2>1, <2>a, <2>b, <2>c
      <3>3. \A q \in Starts : answer'[q] = "busy" => pc'[q] = "done"
        BY <2>1, <2>a, <2>b, <2>c
      <3>4. \A q \in Starts : pc'[q] \notin {"new", "done"} => generation'[q] >= 1
        BY <2>1, <2>a, <2>b
      <3>5. \A r, q \in Starts : generation'[r] = generation'[q] /\ generation'[r] # 0 => r = q
        BY <2>1, <2>a, <2>b
      <3> QED
        BY <2>1, <2>a, <3>1, <3>2, <3>3, <3>4, <3>5
    <2>6. Ownership'
      BY <2>1, <2>2, <2>3
    <2> QED
      BY <2>4, <2>5, <2>6
  <1>3. ASSUME NEW s \in Starts, Load(s) PROVE Owners'
    <2>1. /\ pc[s] = "load" /\ pc'[s] \in {"setFd", "commit"}
          /\ \A c \in Calls : c # s => pc'[c] = pc[c]
          /\ UNCHANGED <<stateVars, generation, detached, answer>>
      BY <1>3 DEF Load
    <2>2. Busy' = Busy
      BY <2>1
    <2>3. OwnCode'
      BY <2>1
    <2>4. Generations'
      <3> HIDE DEF TypeOK, Ownership, OneOwner, Busy, Bringing, Ending, Places, Outcomes
      <3> QED
        BY <2>1
    <2>5. Ownership'
      BY <2>1, <2>2
    <2> QED
      BY <2>3, <2>4, <2>5
  <1>4. ASSUME NEW s \in Starts, SetTunFd(s) PROVE Owners'
    BY <1>4 DEF SetTunFd
  <1>5. ASSUME NEW s \in Starts, KernelStart(s) PROVE Owners'
    BY <1>5 DEF KernelStart
  <1>6. ASSUME NEW s \in Starts, Commit(s) PROVE Owners'
    BY <1>6 DEF Commit, Cancelled
  <1>7. ASSUME NEW s \in Starts, StopLate(s) PROVE Owners'
    BY <1>7 DEF StopLate, KernelStop
  <1>8. ASSUME NEW c \in Calls, CompleteWaiters(c) PROVE Owners'
    BY <1>8 DEF CompleteWaiters
  <1>9. ASSUME NEW c \in Calls, NEW w \in Stops, EmitWaiter(c, w) PROVE Owners'
    BY <1>9 DEF EmitWaiter
  <1>10. ASSUME NEW s \in Starts, EmitResult(s) PROVE Owners'
    BY <1>10 DEF EmitResult
  <1>11. ASSUME NEW t \in Stops, StopWhenStopped(t) PROVE Owners'
    BY <1>11 DEF StopWhenStopped
  <1>12. ASSUME NEW t \in Stops, StopJoins(t) PROVE Owners'
    BY <1>12 DEF StopJoins, Aim
  <1>13. ASSUME NEW t \in Stops, StopRunning(t) PROVE Owners'
    BY <1>13 DEF StopRunning, Aim
  <1>14. ASSUME NEW t \in Stops, StopThread(t) PROVE Owners'
    BY <1>14 DEF StopThread, KernelStop
  <1>15. CASE UNCHANGED vars
    BY <1>15 DEF vars
  <1> QED
    BY <1>1, <1>2, <1>3, <1>4, <1>5, <1>6, <1>7, <1>8, <1>9, <1>10, <1>11,
       <1>12, <1>13, <1>14, <1>15
    DEF Next, StartCall, StopCall, ThreadStep, WorkerStep

\* The layer holds in every reachable state.
LEMMA OwnersAlways == Spec => []Owners
  BY TypeCorrect, OwnersInit, OwnersStep, PTL DEF Spec

\* No two native threads are ever between taking the core and giving it back,
\* however many starts and stops race.
THEOREM OneOwnerAlways == Spec => []OneOwner
  <1>1. Owners => OneOwner
    BY DEF Owners, Ownership
  <1> QED
    BY <1>1, OwnersAlways, PTL

(***************************************************************************)
(* Kernels: where the Go instance is, given where its owner is.            *)
(***************************************************************************)

\* The instance belongs to the start of the current generation, which has got
\* past CGoStartSingBox, and carries the descriptor of that start.
InstanceOfCurrent ==
    instance # None =>
        /\ instanceFd = fdArg[instance]
        /\ generation[instance] = coreGeneration
        /\ pc[instance] \in {"commit", "stopLate", "emit", "done"}

\* Before its start, and at CompleteWaiters, there is no instance.
OwnerKnowsInstance ==
    /\ \A s \in Starts : pc[s] \in {"load", "setFd", "start"} =>
          instance = None /\ message[s] = "ok"
    /\ \A s \in Starts : pc[s] = "new" => message[s] = "ok"
    /\ \A s \in Starts : pc[s] = "start" => tunFd = fdArg[s]
    /\ \A s \in Starts : pc[s] = "commit" =>
          instance = IF message[s] = "ok" THEN s ELSE None
    /\ \A s \in Starts : pc[s] = "stopLate" => instance = s
    /\ \A c \in Calls : pc[c] = "complete" => instance = None

Kernels ==
    /\ coreState = "Stopped" => instance = None
    /\ coreState = "Running" => instance # None
    /\ InstanceOfCurrent
    /\ OwnerKnowsInstance

\* There is no instance at first.
LEMMA KernelsInit == Init => Kernels
  BY NativeAssumption DEF Init, Kernels, InstanceOfCurrent, OwnerKnowsInstance,
         Calls

\* Only the owner of the core touches the instance.
LEMMA KernelsStep ==
    TypeOK /\ TypeOK' /\ Owners /\ Owners' /\ Kernels /\ [Next]_vars => Kernels'
  <1> SUFFICES ASSUME TypeOK, TypeOK', Owners, Owners', Kernels, [Next]_vars
               PROVE Kernels'
    OBVIOUS
  <1> USE NativeAssumption DEF TypeOK, Kernels, InstanceOfCurrent, OwnerKnowsInstance,
        Owners, OwnCode, Generations, Ownership,
        OneOwner, Busy, Bringing, Ending, Calls, Places, Outcomes, Go,
        stateVars, kernelVars, threadVars, historyVars
  <1>1. ASSUME NEW s \in Starts, StartRefused(s) PROVE Kernels'
    BY <1>1 DEF StartRefused
  <1>2. ASSUME NEW s \in Starts, NEW fd \in Fds, StartAccepted(s, fd) PROVE Kernels'
    BY <1>2 DEF StartAccepted
  <1>3. ASSUME NEW s \in Starts, Load(s) PROVE Kernels'
    BY <1>3 DEF Load
  <1>4. ASSUME NEW s \in Starts, SetTunFd(s) PROVE Kernels'
    BY <1>4 DEF SetTunFd
  <1>5. ASSUME NEW s \in Starts, KernelStart(s) PROVE Kernels'
    BY <1>5 DEF KernelStart
  <1>6. ASSUME NEW s \in Starts, Commit(s) PROVE Kernels'
    BY <1>6 DEF Commit, Cancelled
  <1>7. ASSUME NEW s \in Starts, StopLate(s) PROVE Kernels'
    BY <1>7 DEF StopLate, KernelStop
  <1>8. ASSUME NEW c \in Calls, CompleteWaiters(c) PROVE Kernels'
    BY <1>8 DEF CompleteWaiters
  <1>9. ASSUME NEW c \in Calls, NEW w \in Stops, EmitWaiter(c, w) PROVE Kernels'
    BY <1>9 DEF EmitWaiter
  <1>10. ASSUME NEW s \in Starts, EmitResult(s) PROVE Kernels'
    BY <1>10 DEF EmitResult
  <1>11. ASSUME NEW t \in Stops, StopWhenStopped(t) PROVE Kernels'
    BY <1>11 DEF StopWhenStopped
  <1>12. ASSUME NEW t \in Stops, StopJoins(t) PROVE Kernels'
    BY <1>12 DEF StopJoins, Aim, Current
  <1>13. ASSUME NEW t \in Stops, StopRunning(t) PROVE Kernels'
    BY <1>13 DEF StopRunning, Aim, Current
  <1>14. ASSUME NEW t \in Stops, StopThread(t) PROVE Kernels'
    BY <1>14 DEF StopThread, KernelStop
  <1>15. CASE UNCHANGED vars
    BY <1>15 DEF vars
  <1> QED
    BY <1>1, <1>2, <1>3, <1>4, <1>5, <1>6, <1>7, <1>8, <1>9, <1>10, <1>11,
       <1>12, <1>13, <1>14, <1>15
    DEF Next, StartCall, StopCall, ThreadStep, WorkerStep

\* The layer holds in every reachable state.
LEMMA KernelsAlways == Spec => []Kernels
  BY TypeCorrect, OwnersAlways, KernelsInit, KernelsStep, PTL DEF Spec

\* The state told to JavaScript is the state of the kernel, and its descriptor is
\* that of its own start.
THEOREM StateMatchesKernelAlways == Spec => []StateMatchesKernel
  <1>1. TypeOK /\ Kernels => StateMatchesKernel
    BY DEF TypeOK, Kernels, InstanceOfCurrent, StateMatchesKernel, Current
  <1> QED
    BY <1>1, TypeCorrect, KernelsAlways, PTL

\* "sing-box already running" is never the answer to a start, and with it the
\* kernel never has two instances.
THEOREM NeverAlreadyRunningAlways == Spec => []NeverAlreadyRunning
  <1>1. Kernels => NeverAlreadyRunning
    BY DEF Kernels, OwnerKnowsInstance, NeverAlreadyRunning
  <1> QED
    BY <1>1, KernelsAlways, PTL

(***************************************************************************)
(* Waiters: who will call a parked stop, and what its answer means.        *)
(***************************************************************************)

\* A start that is over for good: its worker has passed CompleteWaiters (or has
\* brought the core up) and its instance is gone.
Over(s) == pc[s] \in {"emit", "done"} /\ instance # s

\* A parked stop is in the list, or in the hands of the thread that emptied it.
Parked ==
    /\ stopWaiters # {} => coreState \in {"Starting", "Stopping"}
    /\ stopWaiters # {} /\ coreState = "Starting" => cancelledGeneration = coreGeneration
    /\ \A c \in Calls : pc[c] # "emit" => detached[c] = {}
    /\ \A t \in Stops : pc[t] = "parked" /\ answer[t] = "none" =>
          t \in stopWaiters \/ \E c \in Calls : t \in detached[c]

\* What a stop aims at has a generation; once the stop is taken from the list,
\* or answered, all of it is over.
Aimed ==
    /\ \A t \in Stops : pc[t] = "new" => aimed[t] = {} /\ preempted[t] = {}
    /\ \A t \in Stops : \A s \in aimed[t] : generation[s] >= 1
    /\ \A t \in Stops : \A s \in aimed[t] : answer[t] # "none" => Over(s)
    /\ \A t \in Stops : \A s \in aimed[t] : \A c \in Calls :
          t \in detached[c] => Over(s)

Waiters == Parked /\ Aimed

\* No stop has been called at first.
LEMMA WaitersInit == Init => Waiters
  BY DEF Init, Waiters, Parked, Aimed, Calls

\* A stop leaves the list only when its thread has brought the core down.
LEMMA WaitersStep ==
    TypeOK /\ TypeOK' /\ Owners /\ Owners' /\ Kernels /\ Kernels' /\ Waiters /\ [Next]_vars => Waiters'
  <1> SUFFICES ASSUME TypeOK, TypeOK', Owners, Owners', Kernels, Kernels', Waiters, [Next]_vars
               PROVE Waiters'
    OBVIOUS
  <1> USE NativeAssumption DEF Waiters, Parked, Aimed, Over, TypeOK, Owners, OwnCode, Generations,
        Ownership, OneOwner, Busy, Bringing, Ending, Kernels, InstanceOfCurrent,
        OwnerKnowsInstance, Calls, Places, Outcomes, Go,
        stateVars, kernelVars, threadVars, historyVars
  <1>1. ASSUME NEW s \in Starts, StartRefused(s) PROVE Waiters'
    BY <1>1 DEF StartRefused
  <1>2. ASSUME NEW s \in Starts, NEW fd \in Fds, StartAccepted(s, fd) PROVE Waiters'
    BY <1>2 DEF StartAccepted
  <1>3. ASSUME NEW s \in Starts, Load(s) PROVE Waiters'
    <2>1. /\ pc[s] = "load" /\ pc'[s] \in {"setFd", "commit"}
          /\ \A c \in Calls : c # s => pc'[c] = pc[c]
          /\ UNCHANGED <<stateVars, instance, generation, detached, answer,
                         historyVars>>
          /\ \A t \in Stops : aimed[t] \cup preempted[t] \subseteq Starts
      BY <1>3 DEF Load
    <2> HIDE DEF Owners, Kernels, TypeOK
    <2>2. Parked'
      BY <2>1
    <2>3. Aimed'
      BY <2>1
    <2> QED
      BY <2>2, <2>3
  <1>4. ASSUME NEW s \in Starts, SetTunFd(s) PROVE Waiters'
    BY <1>4 DEF SetTunFd
  <1>5. ASSUME NEW s \in Starts, KernelStart(s) PROVE Waiters'
    BY <1>5 DEF KernelStart
  <1>6. ASSUME NEW s \in Starts, Commit(s) PROVE Waiters'
    <2>1. /\ pc[s] = "commit"
          /\ pc'[s] \in {"complete", "stopLate", "emit"}
          /\ coreState = "Starting" /\ coreState' \in {"Running", "Stopping"}
          /\ coreState' = "Running" => cancelledGeneration # coreGeneration
          /\ \A c \in Calls : c # s => pc'[c] = pc[c]
          /\ UNCHANGED <<stopWaiters, instance, generation, detached, answer,
                         historyVars>>
          /\ \A t \in Stops : aimed[t] \cup preempted[t] \subseteq Starts
      BY <1>6 DEF Commit, Cancelled
    <2> HIDE DEF Owners, Kernels, TypeOK
    <2>2. Parked'
      BY <2>1
    <2>3. Aimed'
      BY <2>1
    <2> QED
      BY <2>2, <2>3
  <1>7. ASSUME NEW s \in Starts, StopLate(s) PROVE Waiters'
    <2>1. /\ pc[s] = "stopLate" /\ pc'[s] = "complete"
          /\ \A c \in Calls : c # s => pc'[c] = pc[c]
          /\ UNCHANGED <<stateVars, generation, detached, answer, historyVars>>
          /\ \A t \in Stops : aimed[t] \cup preempted[t] \subseteq Starts
          /\ instance' = None /\ None \notin Starts
      BY <1>7 DEF StopLate, KernelStop
    <2> HIDE DEF Owners, Kernels, TypeOK
    <2>2. Parked'
      BY <2>1
    <2>3. Aimed'
      BY <2>1
    <2> QED
      BY <2>2, <2>3
  <1>8. ASSUME NEW c \in Calls, CompleteWaiters(c) PROVE Waiters'
    BY <1>8 DEF CompleteWaiters
  <1>9. ASSUME NEW c \in Calls, NEW w \in Stops, EmitWaiter(c, w) PROVE Waiters'
    BY <1>9 DEF EmitWaiter
  <1>10. ASSUME NEW s \in Starts, EmitResult(s) PROVE Waiters'
    BY <1>10 DEF EmitResult
  <1>11. ASSUME NEW t \in Stops, StopWhenStopped(t) PROVE Waiters'
    BY <1>11 DEF StopWhenStopped
  <1>12. ASSUME NEW t \in Stops, StopJoins(t) PROVE Waiters'
    BY <1>12 DEF StopJoins, Aim, Current
  <1>13. ASSUME NEW t \in Stops, StopRunning(t) PROVE Waiters'
    BY <1>13 DEF StopRunning, Aim, Current
  <1>14. ASSUME NEW t \in Stops, StopThread(t) PROVE Waiters'
    BY <1>14 DEF StopThread, KernelStop
  <1>15. CASE UNCHANGED vars
    BY <1>15 DEF vars
  <1> QED
    BY <1>1, <1>2, <1>3, <1>4, <1>5, <1>6, <1>7, <1>8, <1>9, <1>10, <1>11,
       <1>12, <1>13, <1>14, <1>15
    DEF Next, StartCall, StopCall, ThreadStep, WorkerStep

\* The layer holds in every reachable state.
LEMMA WaitersAlways == Spec => []Waiters
  BY TypeCorrect, OwnersAlways, KernelsAlways, WaitersInit, WaitersStep, PTL
  DEF Spec

\* A stop is acknowledged only after every start it met is over.
THEOREM StopAcknowledgedWhenDownAlways == Spec => []StopAcknowledgedWhenDown
  <1>1. TypeOK /\ Waiters => StopAcknowledgedWhenDown
    BY DEF TypeOK, Waiters, Aimed, Over, StopAcknowledgedWhenDown, Busy
  <1> QED
    BY <1>1, TypeCorrect, WaitersAlways, PTL

\* A parked stop callback always has a thread that will call it.
THEOREM NoWaiterForgottenAlways == Spec => []NoWaiterForgotten
  <1>1. TypeOK /\ Owners /\ Waiters => NoWaiterForgotten
    BY DEF TypeOK, Owners, Ownership, Waiters, Parked, NoWaiterForgotten, Calls
  <1> QED
    BY <1>1, TypeCorrect, OwnersAlways, WaitersAlways, PTL

(***************************************************************************)
(* Verdicts: what the answer of a start means.                             *)
(***************************************************************************)

\* The answer of an accepted start is the message of its worker.
Told ==
    /\ \A s \in Starts : answer[s] \in Outcomes =>
          pc[s] = "done" /\ answer[s] = message[s] /\ generation[s] >= 1
    /\ \A s \in Starts : pc[s] = "complete" => message[s] # "ok"

\* A start that a stop overtook is cancelled for good; and the last generation
\* cancelled was overtaken.
Overtaken ==
    /\ \A t \in Stops : \A s \in preempted[t] :
          /\ generation[s] >= 1 /\ generation[s] <= cancelledGeneration
          /\ pc[s] \in Bringing \cup {"stopLate"} \/ message[s] # "ok"
    /\ \A s \in Starts : generation[s] >= 1 /\ generation[s] = cancelledGeneration =>
          \E t \in Stops : s \in preempted[t]
    /\ \A s \in Starts : pc[s] = "stopLate" \/ message[s] = "cancelled" =>
          \E t \in Stops : s \in preempted[t]

\* A kernel that came up is up, or a stop was after it.
WentUp ==
    /\ \A s \in Starts : pc[s] \in {"emit", "done"} /\ generation[s] >= 1
          /\ message[s] = "ok" => instance = s \/ \E t \in Stops : s \in aimed[t]
    /\ \A t \in Stops : pc[t] = "stop" /\ instance # None => instance \in aimed[t]

Verdicts == Told /\ Overtaken /\ WentUp

\* No start has been made at first.
LEMMA VerdictsInit == Init => Verdicts
  BY NativeAssumption DEF Init, Verdicts, Told, Overtaken, WentUp, Calls, Outcomes

\* Only a stop takes a generation or a kernel away from a start.
LEMMA VerdictsStep ==
    TypeOK /\ TypeOK' /\ Owners /\ Owners' /\ Kernels /\ Kernels' /\ Waiters /\ Waiters' /\ Verdicts /\ [Next]_vars => Verdicts'
  <1> SUFFICES ASSUME TypeOK, TypeOK', Owners, Owners', Kernels, Kernels', Waiters, Waiters', Verdicts, [Next]_vars
               PROVE Verdicts'
    OBVIOUS
  <1> USE NativeAssumption DEF Verdicts, Told, Overtaken, WentUp, Waiters, Parked, Aimed, Over,
        TypeOK, Owners, OwnCode, Generations,
        Ownership, OneOwner, Busy, Bringing, Ending, Kernels, InstanceOfCurrent,
        OwnerKnowsInstance, Calls, Places, Outcomes, Go,
        stateVars, kernelVars, threadVars, historyVars
  <1>1. ASSUME NEW s \in Starts, StartRefused(s) PROVE Verdicts'
    BY <1>1 DEF StartRefused
  <1>2. ASSUME NEW s \in Starts, NEW fd \in Fds, StartAccepted(s, fd) PROVE Verdicts'
    BY <1>2 DEF StartAccepted
  <1>3. ASSUME NEW s \in Starts, Load(s) PROVE Verdicts'
    <2>1. /\ pc[s] = "load" /\ pc'[s] \in {"setFd", "commit"}
          /\ \A c \in Calls : c # s => pc'[c] = pc[c]
          /\ UNCHANGED <<stateVars, instance, generation, detached, answer,
                         historyVars>>
          /\ message'[s] # "cancelled"
          /\ \A q \in Starts : q # s => message'[q] = message[q]
          /\ \A t \in Stops : aimed[t] \cup preempted[t] \subseteq Starts
      BY <1>3 DEF Load
    <2> HIDE DEF Owners, Kernels, TypeOK
    <2>2. Told'
      BY <2>1
    <2>3. Overtaken'
      BY <2>1
    <2>4. WentUp'
      BY <2>1
    <2> QED
      BY <2>2, <2>3, <2>4
  <1>4. ASSUME NEW s \in Starts, SetTunFd(s) PROVE Verdicts'
    BY <1>4 DEF SetTunFd
  <1>5. ASSUME NEW s \in Starts, KernelStart(s) PROVE Verdicts'
    <2>1. /\ pc[s] = "start" /\ pc'[s] = "commit"
          /\ message'[s] # "cancelled"
          /\ instance = None \/ instance' = instance
          /\ \A c \in Calls : c # s => pc'[c] = pc[c] /\ pc[c] # "stop"
          /\ \A q \in Starts : q # s => message'[q] = message[q]
          /\ UNCHANGED <<stateVars, generation, answer, historyVars>>
          /\ \A q \in Starts : q # instance
                /\ pc[q] \in {"emit", "done"} => q # instance'
          /\ \A t \in Stops : aimed[t] \cup preempted[t] \subseteq Starts
      BY <1>5 DEF KernelStart
    <2> HIDE DEF Owners, Kernels, TypeOK
    <2>2. Told'
      BY <2>1
    <2>3. Overtaken'
      BY <2>1
    <2>4. WentUp'
      BY <2>1
    <2> QED
      BY <2>2, <2>3, <2>4
  <1>6. ASSUME NEW s \in Starts, Commit(s) PROVE Verdicts'
    BY <1>6 DEF Commit, Cancelled
  <1>7. ASSUME NEW s \in Starts, StopLate(s) PROVE Verdicts'
    BY <1>7 DEF StopLate, KernelStop
  <1>8. ASSUME NEW c \in Calls, CompleteWaiters(c) PROVE Verdicts'
    BY <1>8 DEF CompleteWaiters
  <1>9. ASSUME NEW c \in Calls, NEW w \in Stops, EmitWaiter(c, w) PROVE Verdicts'
    BY <1>9 DEF EmitWaiter
  <1>10. ASSUME NEW s \in Starts, EmitResult(s) PROVE Verdicts'
    <2>1. /\ pc[s] = "emit" /\ pc'[s] = "done"
          /\ answer'[s] = message[s] /\ generation[s] >= 1
          /\ \A c \in Calls : c # s => pc'[c] = pc[c] /\ answer'[c] = answer[c]
          /\ UNCHANGED <<stateVars, instance, generation, message, historyVars>>
          /\ \A t \in Stops : aimed[t] \cup preempted[t] \subseteq Starts
      BY <1>10 DEF EmitResult
    <2> HIDE DEF Owners, Kernels, TypeOK
    <2>2. Told'
      BY <2>1
    <2>3. Overtaken'
      BY <2>1
    <2>4. WentUp'
      BY <2>1
    <2> QED
      BY <2>2, <2>3, <2>4
  <1>11. ASSUME NEW t \in Stops, StopWhenStopped(t) PROVE Verdicts'
    BY <1>11 DEF StopWhenStopped
  <1>12. ASSUME NEW t \in Stops, StopJoins(t) PROVE Verdicts'
    <2>1. Told'
      BY <1>12 DEF StopJoins
    <2>2. Overtaken'
      <3>1. CASE coreState = "Stopping"
        <4>1. preempted' = preempted /\ cancelledGeneration' = cancelledGeneration
          BY <1>12, <3>1 DEF StopJoins, Aim
        <4> QED
          BY <1>12, <4>1 DEF StopJoins
      <3>2. CASE coreState = "Starting"
        <4>1. \A s \in Current : generation[s] >= 1 /\ pc[s] \in Bringing
          <5>1. PICK c \in Busy : TRUE
            BY <3>2
          <5>2. c \in Starts /\ pc[c] \in Bringing
            BY <3>2, <5>1
          <5>3. coreGeneration >= 1 /\ generation[c] = coreGeneration
            BY <3>2, <5>2
          <5>4. \A s \in Current : s = c
            BY <5>2, <5>3 DEF Current
          <5> QED
            BY <5>2, <5>3, <5>4
        <4>2. /\ preempted' = [preempted EXCEPT ![t] = Current]
              /\ preempted[t] = {}
              /\ cancelledGeneration' = coreGeneration
              /\ pc' = [pc EXCEPT ![t] = "parked"]
              /\ UNCHANGED <<coreGeneration, generation, message>>
          BY <1>12, <3>2 DEF StopJoins, Aim
        <4>3. \A q \in Stops : preempted[q] \subseteq preempted'[q]
          BY <4>2
        <4>4. \A q \in Stops : \A s \in preempted'[q] :
                s \in preempted[q] \/ s \in Current
          BY <4>2
        <4>5. \A s \in Starts : pc'[s] = pc[s]
          BY <4>2
        <4>6. \A s \in Current : s \in preempted'[t]
          BY <4>2
        <4> QED
          BY <4>1, <4>2, <4>3, <4>4, <4>5, <4>6 DEF Current
      <3> QED
        BY <1>12, <3>1, <3>2 DEF StopJoins
    <2>3. WentUp'
      BY <1>12 DEF StopJoins, Aim, Current
    <2> QED
      BY <2>1, <2>2, <2>3
  <1>13. ASSUME NEW t \in Stops, StopRunning(t) PROVE Verdicts'
    BY <1>13 DEF StopRunning, Aim, Current
  <1>14. ASSUME NEW t \in Stops, StopThread(t) PROVE Verdicts'
    BY <1>14 DEF StopThread, KernelStop
  <1>15. CASE UNCHANGED vars
    BY <1>15 DEF vars
  <1> QED
    BY <1>1, <1>2, <1>3, <1>4, <1>5, <1>6, <1>7, <1>8, <1>9, <1>10, <1>11,
       <1>12, <1>13, <1>14, <1>15
    DEF Next, StartCall, StopCall, ThreadStep, WorkerStep

\* The layer holds in every reachable state.
LEMMA VerdictsAlways == Spec => []Verdicts
  BY TypeCorrect, OwnersAlways, KernelsAlways, WaitersAlways, VerdictsInit,
     VerdictsStep, PTL
  DEF Spec

\* A start that a stop overtook is never reported as a success.
THEOREM OvertakenStartNotOkAlways == Spec => []OvertakenStartNotOk
  <1>1. TypeOK /\ Verdicts => OvertakenStartNotOk
    BY DEF TypeOK, Verdicts, Told, Overtaken, OvertakenStartNotOk, Outcomes, Bringing
  <1> QED
    BY <1>1, TypeCorrect, VerdictsAlways, PTL

\* A start is reported cancelled only if a stop met it while it was starting.
THEOREM CancelledOnlyByStopAlways == Spec => []CancelledOnlyByStop
  <1>1. TypeOK /\ Verdicts => CancelledOnlyByStop
    BY DEF TypeOK, Verdicts, Told, Overtaken, CancelledOnlyByStop, Outcomes
  <1> QED
    BY <1>1, TypeCorrect, VerdictsAlways, PTL

\* A kernel that was reported up is down only if a stop asked for it.
THEOREM UpUntilStoppedAlways == Spec => []UpUntilStopped
  <1>1. TypeOK /\ Verdicts => UpUntilStopped
    BY DEF TypeOK, Verdicts, Told, WentUp, UpUntilStopped, Outcomes
  <1> QED
    BY <1>1, TypeCorrect, VerdictsAlways, PTL

(***************************************************************************)
(* Once: a callback has one producer.                                      *)
(***************************************************************************)

\* A stop that waits is unanswered and in one place; a start answers last.
Once ==
    /\ \A t \in stopWaiters : answer[t] = "none" /\ \A c \in Calls : t \notin detached[c]
    /\ \A c \in Calls : \A t \in detached[c] : answer[t] = "none"
    /\ \A c, d \in Calls : detached[c] \cap detached[d] # {} => c = d
    /\ \A s \in Starts : answer[s] # "none" => pc[s] = "done"

\* Nobody waits at first.
LEMMA OnceInit == Init => Once
  BY DEF Init, Once, Calls

\* CompleteWaiters moves the whole list to one thread.
LEMMA OnceStep ==
    TypeOK /\ TypeOK' /\ Owners /\ Waiters /\ Once /\ [Next]_vars => Once'
  <1> SUFFICES ASSUME TypeOK, TypeOK', Owners, Waiters, Once, [Next]_vars
               PROVE Once'
    OBVIOUS
  <1> USE NativeAssumption DEF TypeOK, Once, Owners, OwnCode, Waiters, Parked, Calls, Places, Outcomes, Go,
        stateVars, kernelVars, threadVars, historyVars
  <1>1. ASSUME NEW s \in Starts, StartRefused(s) PROVE Once'
    BY <1>1 DEF StartRefused
  <1>2. ASSUME NEW s \in Starts, NEW fd \in Fds, StartAccepted(s, fd) PROVE Once'
    BY <1>2 DEF StartAccepted
  <1>3. ASSUME NEW s \in Starts, Load(s) PROVE Once'
    BY <1>3 DEF Load
  <1>4. ASSUME NEW s \in Starts, SetTunFd(s) PROVE Once'
    BY <1>4 DEF SetTunFd
  <1>5. ASSUME NEW s \in Starts, KernelStart(s) PROVE Once'
    BY <1>5 DEF KernelStart
  <1>6. ASSUME NEW s \in Starts, Commit(s) PROVE Once'
    BY <1>6 DEF Commit, Cancelled
  <1>7. ASSUME NEW s \in Starts, StopLate(s) PROVE Once'
    BY <1>7 DEF StopLate, KernelStop
  <1>8. ASSUME NEW c \in Calls, CompleteWaiters(c) PROVE Once'
    BY <1>8 DEF CompleteWaiters
  <1>9. ASSUME NEW c \in Calls, NEW w \in Stops, EmitWaiter(c, w) PROVE Once'
    BY <1>9 DEF EmitWaiter
  <1>10. ASSUME NEW s \in Starts, EmitResult(s) PROVE Once'
    BY <1>10 DEF EmitResult
  <1>11. ASSUME NEW t \in Stops, StopWhenStopped(t) PROVE Once'
    BY <1>11 DEF StopWhenStopped
  <1>12. ASSUME NEW t \in Stops, StopJoins(t) PROVE Once'
    BY <1>12 DEF StopJoins, Aim, Current
  <1>13. ASSUME NEW t \in Stops, StopRunning(t) PROVE Once'
    BY <1>13 DEF StopRunning, Aim, Current
  <1>14. ASSUME NEW t \in Stops, StopThread(t) PROVE Once'
    BY <1>14 DEF StopThread, KernelStop
  <1>15. CASE UNCHANGED vars
    BY <1>15 DEF vars
  <1> QED
    BY <1>1, <1>2, <1>3, <1>4, <1>5, <1>6, <1>7, <1>8, <1>9, <1>10, <1>11,
       <1>12, <1>13, <1>14, <1>15
    DEF Next, StartCall, StopCall, ThreadStep, WorkerStep

\* The layer holds in every reachable state.
LEMMA OnceAlways == Spec => []Once
  BY TypeCorrect, OwnersAlways, WaitersAlways, OnceInit, OnceStep, PTL DEF Spec

\* Each callback is called once: whoever answers a call finds it unanswered.
THEOREM AnsweredOnceAlways == Spec => AnsweredOnce
  <1>1. TypeOK /\ Owners /\ Once /\ [Next]_vars =>
          [\A c \in Calls : answer[c] # "none" => answer'[c] = answer[c]]_vars
    <2> SUFFICES ASSUME TypeOK, Owners, Once, Next, NEW c \in Calls,
                        answer[c] # "none"
                 PROVE answer'[c] = answer[c]
      BY DEF Next
    <2> USE NativeAssumption DEF TypeOK, Owners, OwnCode, Once, Calls, Go, vars
    <2>1. ASSUME NEW s \in Starts, WorkerStep(s) PROVE answer'[c] = answer[c]
      BY <2>1 DEF WorkerStep, Load, SetTunFd, KernelStart, Commit, StopLate,
                  EmitResult
    <2>2. ASSUME NEW d \in Calls, CompleteWaiters(d) PROVE answer'[c] = answer[c]
      BY <2>2 DEF CompleteWaiters
    <2>3. ASSUME NEW d \in Calls, NEW w \in Stops, EmitWaiter(d, w)
          PROVE answer'[c] = answer[c]
      BY <2>3 DEF EmitWaiter
    <2>4. ASSUME NEW s \in Starts, StartCall(s) PROVE answer'[c] = answer[c]
      BY <2>4 DEF StartCall, StartRefused, StartAccepted
    <2>5. ASSUME NEW t \in Stops, StopCall(t) PROVE answer'[c] = answer[c]
      BY <2>5 DEF StopCall, StopWhenStopped, StopJoins, StopRunning
    <2>6. ASSUME NEW t \in Stops, StopThread(t) PROVE answer'[c] = answer[c]
      BY <2>6 DEF StopThread
    <2> QED
      BY <2>1, <2>2, <2>3, <2>4, <2>5, <2>6 DEF Next, ThreadStep
  <1> QED
    BY <1>1, TypeCorrect, OwnersAlways, OnceAlways, PTL DEF Spec, AnsweredOnce

(***************************************************************************)
(* NativeCore implements CoreContract: each step of a thread is one step   *)
(* of the contract, or none.                                               *)
(***************************************************************************)

\* What the mapping needs besides the layers above: while the core is taken there
\* is a start to aim at, and an instance whose worker has nothing to regret.
Mapped ==
    /\ coreState # "Stopped" => Current # {}
    /\ instance # None => message[instance] = "ok"
    /\ \A c \in Calls : stopMessage[c] \in {"ok", "failed"}
    /\ \A t \in stopWaiters : aimed[t] # {}
    /\ \A c \in Calls : \A t \in detached[c] : aimed[t] # {}

\* Nothing is mapped at first.
LEMMA MappedInit == Init => Mapped
  BY DEF Init, Mapped, Calls

\* A stop that is parked has found a start to aim at.
LEMMA MappedStep ==
    TypeOK /\ TypeOK' /\ Owners /\ Kernels /\ Kernels' /\ Mapped /\ [Next]_vars => Mapped'
  <1> SUFFICES ASSUME TypeOK, TypeOK', Owners, Kernels, Kernels', Mapped, [Next]_vars
               PROVE Mapped'
    OBVIOUS
  <1> USE NativeAssumption DEF TypeOK, Mapped, Owners, OwnCode, Generations, Ownership,
        OneOwner, Busy, Bringing, Ending, Kernels, InstanceOfCurrent,
        OwnerKnowsInstance, Calls, Places, Outcomes, Current, Go,
        stateVars, kernelVars, threadVars, historyVars
  <1>1. ASSUME NEW s \in Starts, StartRefused(s) PROVE Mapped'
    BY <1>1 DEF StartRefused
  <1>2. ASSUME NEW s \in Starts, NEW fd \in Fds, StartAccepted(s, fd) PROVE Mapped'
    BY <1>2 DEF StartAccepted
  <1>3. ASSUME NEW s \in Starts, Load(s) PROVE Mapped'
    BY <1>3 DEF Load
  <1>4. ASSUME NEW s \in Starts, SetTunFd(s) PROVE Mapped'
    BY <1>4 DEF SetTunFd
  <1>5. ASSUME NEW s \in Starts, KernelStart(s) PROVE Mapped'
    BY <1>5 DEF KernelStart
  <1>6. ASSUME NEW s \in Starts, Commit(s) PROVE Mapped'
    BY <1>6 DEF Commit, Cancelled
  <1>7. ASSUME NEW s \in Starts, StopLate(s) PROVE Mapped'
    BY <1>7 DEF StopLate, KernelStop
  <1>8. ASSUME NEW c \in Calls, CompleteWaiters(c) PROVE Mapped'
    BY <1>8 DEF CompleteWaiters
  <1>9. ASSUME NEW c \in Calls, NEW w \in Stops, EmitWaiter(c, w) PROVE Mapped'
    BY <1>9 DEF EmitWaiter
  <1>10. ASSUME NEW s \in Starts, EmitResult(s) PROVE Mapped'
    BY <1>10 DEF EmitResult
  <1>11. ASSUME NEW t \in Stops, StopWhenStopped(t) PROVE Mapped'
    BY <1>11 DEF StopWhenStopped
  <1>12. ASSUME NEW t \in Stops, StopJoins(t) PROVE Mapped'
    BY <1>12 DEF StopJoins, Aim
  <1>13. ASSUME NEW t \in Stops, StopRunning(t) PROVE Mapped'
    BY <1>13 DEF StopRunning, Aim
  <1>14. ASSUME NEW t \in Stops, StopThread(t) PROVE Mapped'
    BY <1>14 DEF StopThread, KernelStop
  <1>15. CASE UNCHANGED vars
    BY <1>15 DEF vars
  <1> QED
    BY <1>1, <1>2, <1>3, <1>4, <1>5, <1>6, <1>7, <1>8, <1>9, <1>10, <1>11,
       <1>12, <1>13, <1>14, <1>15
    DEF Next, StartCall, StopCall, ThreadStep, WorkerStep

\* The layer holds in every reachable state.
LEMMA MappedAlways == Spec => []Mapped
  BY TypeCorrect, OwnersAlways, KernelsAlways, MappedInit, MappedStep, PTL DEF Spec

\* Everything the steps of the mapping may rely on.
Known == TypeOK /\ Owners /\ Kernels /\ Waiters /\ Once /\ Mapped

\* A start whose thread, answer and kernel stay where they are holds what it held.
LEMMA HeldKept ==
    ASSUME NEW q \in Starts, pc'[q] = pc[q], answer'[q] = answer[q],
           message'[q] = message[q], (instance' = q) <=> (instance = q)
    PROVE  Held(q)' = Held(q)
  BY DEF Held, Busy, Calls

\* What is held, thread by thread.
LEMMA HeldSays ==
    ASSUME Known, NEW q \in Starts
    PROVE  /\ generation[q] = 0 \/ Held(q) # "new"
           /\ Held(q) = "up" => instance = q
           /\ instance = q => Held(q) = "up"
           /\ Held(q) = "pending" =>
                /\ pc[q] \in Bringing /\ coreState = "Starting"
                /\ generation[q] = coreGeneration
           /\ pc[q] \in {"emit", "done"} /\ generation[q] >= 1 /\ instance # q =>
                Held(q) = "down"
  <1>1. generation[q] \in Nat /\ pc[q] \in Places /\ q # None
    BY NativeAssumption DEF Known, TypeOK, Calls
  <1>2. pc[q] = "new" \/ answer[q] = "busy" => generation[q] = 0
    BY DEF Known, Owners, Generations
  <1>3. instance = q => pc[q] # "new" /\ answer[q] # "busy"
    <2>1. instance = q => pc[q] \in {"commit", "stopLate", "emit", "done"}
                          /\ message[q] = "ok" /\ generation[q] = coreGeneration
      BY <1>1 DEF Known, Kernels, InstanceOfCurrent, Mapped
    <2>2. instance = q => coreGeneration >= 1
      BY <1>1 DEF Known, Owners, Generations, Kernels
    <2> QED
      BY <1>2, <2>1, <2>2
  <1>4. pc[q] # "stop"
    BY DEF Known, Owners, OwnCode
  <1>5. pc[q] = "stopLate" => instance = q
    BY DEF Known, Kernels, OwnerKnowsInstance
  <1>6. pc[q] \in Bringing => coreState = "Starting" /\ generation[q] = coreGeneration
    BY DEF Known, Owners, Ownership
  <1> QED
    BY <1>1, <1>2, <1>3, <1>4, <1>5, <1>6 DEF Held, Busy, Calls, Bringing


\* A refused start is told so; what is held does not change.
LEMMA RefusedMaps ==
    ASSUME Known, NEW s \in Starts, StartRefused(s)
    PROVE  Abstract!Refuse(s)
  <1> DEFINE hold == [q \in Starts |-> Held(q)]
  <1>1. /\ pc[s] = "new" /\ answer[s] = "none"
        /\ pc' = [pc EXCEPT ![s] = "done"]
        /\ answer' = [answer EXCEPT ![s] = "busy"] /\ answer'[s] = "busy"
        /\ UNCHANGED <<instance, message, aimed>>
    BY DEF StartRefused, Go, Known, Owners, OwnCode, Calls, TypeOK, kernelVars, historyVars
  <1>2. ASSUME NEW q \in Starts, q # s PROVE Held(q)' = Held(q)
    <2>1. pc'[q] = pc[q] /\ answer'[q] = answer[q] /\ message'[q] = message[q]
      BY <1>1, <1>2
    <2> QED
      BY <1>1, <2>1, HeldKept
  <1>3. Held(s) = "new" /\ Held(s)' = "new"
    BY <1>1 DEF Held
  <1>4. hold' = hold /\ hold[s] = "new"
    BY <1>2, <1>3
  <1> QED
    BY <1>1, <1>4 DEF Abstract!Refuse

\* An accepted start takes the core, which nobody holds.
LEMMA AcceptedMaps ==
    ASSUME Known, NEW s \in Starts, NEW fd \in Fds, StartAccepted(s, fd)
    PROVE  Abstract!Accept(s)
  <1> DEFINE hold == [q \in Starts |-> Held(q)]
  <1>1. /\ pc[s] = "new" /\ answer[s] = "none" /\ message[s] = "ok"
        /\ instance = None /\ coreState = "Stopped"
        /\ pc' = [pc EXCEPT ![s] = "load"] /\ pc'[s] = "load"
        /\ UNCHANGED <<answer, instance, message, aimed>>
    BY DEF StartAccepted, Go, Known, Owners, OwnCode, Kernels, OwnerKnowsInstance,
           Calls, TypeOK, kernelVars, historyVars
  <1>2. ASSUME NEW q \in Starts, q # s PROVE Held(q)' = Held(q)
    <2>1. pc'[q] = pc[q] /\ answer'[q] = answer[q] /\ message'[q] = message[q]
      BY <1>1, <1>2
    <2> QED
      BY <1>1, <2>1, HeldKept
  <1>3. Held(s) = "new" /\ Held(s)' = "pending"
    BY <1>1, NativeAssumption DEF Held, Busy, Calls
  <1>4. hold' = [hold EXCEPT ![s] = "pending"] /\ hold[s] = "new"
    BY <1>2, <1>3
  <1>5. \A q \in Starts : hold[q] \notin {"pending", "up"}
    BY <1>1, HeldSays, NativeAssumption
  <1> QED
    BY <1>1, <1>4, <1>5 DEF Abstract!Accept, Abstract!Held

\* A worker whose outcome becomes a failure gives up what it was to hold; the
\* other steps of a worker up to its commit change nothing the contract sees.
LEMMA LoadMaps ==
    ASSUME Known, NEW s \in Starts, Load(s)
    PROVE  Abstract!GoDown(s) \/ UNCHANGED Abstract!contractVars
  <1> DEFINE hold == [q \in Starts |-> Held(q)]
  <1>1. /\ pc[s] = "load" /\ message[s] = "ok" /\ instance = None /\ answer[s] # "busy"
        /\ UNCHANGED <<answer, instance, aimed>>
        /\ \/ pc'[s] = "setFd" /\ message'[s] = "ok"
           \/ pc'[s] = "commit" /\ message'[s] = "failed"
        /\ \A q \in Starts : q # s => pc'[q] = pc[q] /\ message'[q] = message[q]
    BY DEF Load, Go, Known, Owners, Generations, Kernels, OwnerKnowsInstance,
           Calls, TypeOK, historyVars
  <1>2. ASSUME NEW q \in Starts, q # s PROVE Held(q)' = Held(q)
    BY <1>1, <1>2, HeldKept
  <1>3. Held(s) = "pending" /\ Held(s)' \in {"pending", "down"}
    BY <1>1, NativeAssumption DEF Held, Busy, Calls
  <1>4. CASE Held(s)' = "pending"
    BY <1>1, <1>2, <1>3, <1>4 DEF Abstract!contractVars
  <1>5. CASE Held(s)' = "down"
    <2>1. hold' = [hold EXCEPT ![s] = "down"] /\ hold[s] = "pending"
      BY <1>2, <1>3, <1>5
    <2> QED
      BY <1>1, <2>1 DEF Abstract!GoDown
  <1> QED
    BY <1>3, <1>4, <1>5

\* The kernel comes up for the start that asks for it, or not at all.
LEMMA KernelStartMaps ==
    ASSUME Known, NEW s \in Starts, KernelStart(s)
    PROVE  Abstract!ComeUp(s) \/ Abstract!GoDown(s)
  <1> DEFINE hold == [q \in Starts |-> Held(q)]
  <1>1. /\ pc[s] = "start" /\ message[s] = "ok" /\ instance = None /\ answer[s] # "busy"
        /\ pc'[s] = "commit"
        /\ UNCHANGED <<answer, aimed>>
        /\ \/ instance' = s /\ message' = message
           \/ instance' = None /\ message'[s] = "failed"
        /\ \A q \in Starts : q # s => pc'[q] = pc[q] /\ message'[q] = message[q]
    BY DEF KernelStart, Go, Known, Owners, Generations, Kernels, OwnerKnowsInstance,
           Calls, TypeOK, historyVars
  <1>2. ASSUME NEW q \in Starts, q # s PROVE Held(q)' = Held(q)
    BY <1>1, <1>2, HeldKept, NativeAssumption
  <1>3. Held(s) = "pending" /\ Held(s)' \in {"up", "down"}
    BY <1>1, NativeAssumption DEF Held, Busy, Calls
  <1>4. hold' = [hold EXCEPT ![s] = Held(s)'] /\ hold[s] = "pending"
    BY <1>2, <1>3
  <1> QED
    BY <1>1, <1>3, <1>4 DEF Abstract!ComeUp, Abstract!GoDown

\* The thread that answers no one moves on, and its kernel stays where it is.
LEMMA MovesOn ==
    ASSUME Known, NEW c \in Calls, UNCHANGED <<answer, instance, message, aimed>>,
           \A d \in Calls : d # c => pc'[d] = pc[d],
           \/ /\ pc[c] \in {"setFd", "start"} /\ pc'[c] \in {"setFd", "start"}
           \/ /\ pc[c] = "commit" /\ pc'[c] \in {"complete", "stopLate", "emit"}
              /\ pc'[c] = "complete" <=> message[c] # "ok"
           \/ /\ pc[c] = "complete" /\ pc'[c] = "emit"
    PROVE  UNCHANGED Abstract!contractVars
  <1>1. ASSUME NEW q \in Starts, q # c PROVE Held(q)' = Held(q)
    BY <1>1, HeldKept DEF Calls
  <1>2. ASSUME c \in Starts PROVE Held(c)' = Held(c)
    <2>1. CASE pc[c] \in {"setFd", "start"} /\ pc'[c] \in {"setFd", "start"}
      BY <2>1 DEF Held, Busy
    <2>2. CASE /\ pc[c] = "commit" /\ pc'[c] \in {"complete", "stopLate", "emit"}
               /\ pc'[c] = "complete" <=> message[c] # "ok"
      <3>1. message[c] = "ok" => instance = c
        BY <1>2, <2>2 DEF Known, Kernels, OwnerKnowsInstance
      <3> QED
        BY <2>2, <3>1 DEF Held, Busy
    <2>3. CASE pc[c] = "complete" /\ pc'[c] = "emit"
      BY <2>3 DEF Held, Busy
    <2> QED
      BY <2>1, <2>2, <2>3
  <1>3. \A q \in Starts : Held(q)' = Held(q)
    BY <1>1, <1>2
  <1> QED
    BY <1>3 DEF Abstract!contractVars


\* Stopping the kernel takes it from the start that held it, if there was one.
LEMMA KernelStopMaps ==
    ASSUME Known, NEW c \in Calls, KernelStop(c),
           UNCHANGED <<answer, aimed>>,
           pc[c] \in {"stopLate", "stop"}, pc'[c] = "complete",
           \A d \in Calls : d # c => pc'[d] = pc[d],
           \A q \in Starts : q # c => message'[q] = message[q]
    PROVE  (\E s \in Starts : Abstract!GoDown(s)) \/ UNCHANGED Abstract!contractVars
  <1> DEFINE hold == [q \in Starts |-> Held(q)]
  <1>1. /\ instance' = None /\ None \notin Starts
        /\ instance \in Starts \cup {None}
        /\ \A s \in Starts : generation[s] \in Nat
    BY NativeAssumption DEF KernelStop, Known, TypeOK
  <1>2. /\ pc[c] = "stopLate" => c \in Starts /\ instance = c
        /\ pc[c] = "stop" => c \notin Starts
    BY DEF Known, Owners, OwnCode, Kernels, OwnerKnowsInstance, Calls, Bringing
  <1>3. ASSUME NEW q \in Starts, q # instance PROVE Held(q)' = Held(q)
    <2>1. q # c
      BY <1>2, <1>3
    <2> QED
      BY <1>1, <1>3, <2>1, HeldKept DEF Calls
  <1>4. CASE instance = None
    <2>1. \A q \in Starts : Held(q)' = Held(q)
      BY <1>1, <1>3, <1>4
    <2> QED
      BY <2>1 DEF Abstract!contractVars
  <1>5. CASE instance \in Starts
    <2>1. Held(instance) = "up"
      BY <1>5, HeldSays
    <2>2. pc'[instance] \in {"emit", "done", "complete"}
      <3>1. CASE instance = c
        BY <3>1
      <3>2. CASE instance # c
        <4>1. pc[instance] \in {"commit", "stopLate", "emit", "done"}
          BY <1>1, <1>5 DEF Known, Kernels, InstanceOfCurrent
        <4>2. instance \notin Busy
          BY <1>5, <3>2 DEF Known, Owners, Ownership, OneOwner, Busy, Calls
        <4> QED
          BY <1>5, <3>2, <4>1, <4>2 DEF Busy, Calls
      <3> QED
        BY <3>1, <3>2
    <2>3. pc[instance] # "new" /\ answer[instance] # "busy"
      BY <1>1, <1>5, <2>1 DEF Held
    <2>4. \A q \in Starts : Held(q)' = IF q = instance THEN "down" ELSE Held(q)
      <3> SUFFICES ASSUME NEW q \in Starts
                   PROVE  Held(q)' = IF q = instance THEN "down" ELSE Held(q)
        OBVIOUS
      <3>1. CASE q = instance
        <4>1. Held(q)' = "down"
          BY <1>1, <1>5, <2>2, <2>3, <3>1 DEF Held, Busy, Calls
        <4> QED
          BY <4>1, <3>1
      <3> QED
        BY <1>3, <3>1
    <2>5. hold' = [hold EXCEPT ![instance] = "down"] /\ hold[instance] = "up"
      BY <1>5, <2>1, <2>4
    <2>6. Abstract!GoDown(instance)
      BY <2>5 DEF Abstract!GoDown
    <2> QED
      BY <1>5, <2>6
  <1> QED
    BY <1>1, <1>4, <1>5

\* An answer to a stop changes nothing that is held.
LEMMA StopAnswerKeepsHeld ==
    ASSUME NEW t \in Stops, UNCHANGED <<instance, message>>,
           \A s \in Starts : pc'[s] = pc[s] /\ answer'[s] = answer[s],
           NEW q \in Starts
    PROVE  Held(q)' = Held(q)
  BY HeldKept

\* The callback of a stop that was parked, with what it aimed at down.
LEMMA EmitWaiterMaps ==
    ASSUME Known, NEW c \in Calls, NEW w \in Stops, EmitWaiter(c, w)
    PROVE  \E r \in Abstract!Replies : Abstract!AnswerStop(w, r)
  <1> DEFINE hold == [q \in Starts |-> Held(q)]
             r == stopMessage[c]
  <1>1. /\ w \in detached[c] /\ r \in {"ok", "failed"}
        /\ answer[w] = "none" /\ aimed[w] # {} /\ aimed[w] \subseteq Starts
        /\ answer' = [answer EXCEPT ![w] = r]
        /\ UNCHANGED <<pc, instance, message, aimed>>
        /\ w \notin Starts
    BY NativeAssumption DEF EmitWaiter, Known, Once, Mapped, TypeOK, kernelVars,
        historyVars
  <1>2. hold' = hold
    BY <1>1, StopAnswerKeepsHeld
  <1>3. \A s \in aimed[w] : hold[s] = "down"
    <2> SUFFICES ASSUME NEW s \in aimed[w] PROVE Held(s) = "down"
      BY <1>1
    <2>1. s \in Starts /\ Over(s) /\ generation[s] >= 1
      BY <1>1 DEF Known, Waiters, Aimed
    <2> QED
      BY <2>1, HeldSays DEF Over
  <1> HIDE DEF hold, r
  <1>4. Abstract!AnswerStop(w, r)
    BY <1>1, <1>2, <1>3 DEF Abstract!AnswerStop, hold
  <1> QED
    BY <1>1, <1>4 DEF Abstract!Replies

\* The callback of a start, which tells what became of it.
LEMMA EmitResultMaps ==
    ASSUME Known, NEW s \in Starts, EmitResult(s)
    PROVE  \E r \in Abstract!Replies : Abstract!AnswerStart(s, r)
  <1> DEFINE hold == [q \in Starts |-> Held(q)]
             r == message[s]
  <1>1. /\ pc[s] = "emit" /\ pc'[s] = "done" /\ answer[s] = "none"
        /\ r \in {"ok", "failed", "cancelled"} /\ generation[s] >= 1
        /\ answer' = [answer EXCEPT ![s] = r] /\ answer'[s] = r
        /\ UNCHANGED <<instance, message, aimed>>
        /\ \A q \in Starts : q # s => pc'[q] = pc[q] /\ answer'[q] = answer[q]
    BY DEF EmitResult, Go, Known, Once, Owners, Generations, TypeOK, Calls, Outcomes,
        kernelVars, historyVars
  <1>2. Held(s) = IF instance = s THEN "up" ELSE "down"
    BY <1>1 DEF Held, Busy
  <1>3. Held(s)' = Held(s)
    BY <1>1 DEF Held, Busy
  <1>4. hold' = hold
    <2>1. ASSUME NEW q \in Starts, q # s PROVE Held(q)' = Held(q)
      BY <1>1, <2>1, HeldKept
    <2> QED
      BY <1>3, <2>1
  <1>5. r # "ok" => hold[s] = "down"
    BY <1>2, NativeAssumption DEF Known, Mapped
  <1>6. hold[s] \in {"up", "down"}
    BY <1>2
  <1> HIDE DEF hold, r
  <1>7. Abstract!AnswerStart(s, r)
    BY <1>1, <1>4, <1>5, <1>6 DEF Abstract!AnswerStart, hold
  <1> QED
    BY <1>1, <1>7 DEF Abstract!Replies

\* A stop of a stopped core is answered at once: nothing is held.
LEMMA StopWhenStoppedMaps ==
    ASSUME Known, NEW t \in Stops, StopWhenStopped(t)
    PROVE  Abstract!AnswerStop(t, "ok")
  <1> DEFINE hold == [q \in Starts |-> Held(q)]
  <1>1. /\ answer[t] = "none" /\ aimed[t] = {} /\ coreState = "Stopped"
        /\ instance = None /\ t \notin Starts /\ None \notin Starts
        /\ answer' = [answer EXCEPT ![t] = "ok"]
        /\ UNCHANGED <<instance, message, aimed>>
        /\ \A q \in Starts : pc'[q] = pc[q] /\ answer'[q] = answer[q]
    BY NativeAssumption DEF StopWhenStopped, Go, Known, Owners, OwnCode, Kernels,
        Waiters, Aimed, TypeOK, Calls, kernelVars, historyVars
  <1>2. hold' = hold
    BY <1>1, StopAnswerKeepsHeld
  <1>3. \A q \in Starts : hold[q] \notin {"pending", "up"}
    BY <1>1, HeldSays
  <1> QED
    BY <1>1, <1>2, <1>3 DEF Abstract!AnswerStop, Abstract!Held

\* A stop that is parked aims at whoever holds the core.
LEMMA AskStopMaps ==
    ASSUME Known, NEW t \in Stops, StopJoins(t) \/ StopRunning(t)
    PROVE  Abstract!AskStop(t)
  <1> DEFINE hold == [q \in Starts |-> Held(q)]
  <1>1. /\ answer[t] = "none" /\ aimed[t] = {} /\ coreState # "Stopped"
        /\ t \notin Starts /\ None \notin Starts
        /\ aimed' = [aimed EXCEPT ![t] = Current]
        /\ UNCHANGED <<instance, message, answer>>
        /\ \A q \in Starts : pc'[q] = pc[q]
    BY NativeAssumption DEF StopJoins, StopRunning, Aim, Go, Known, Owners, OwnCode,
        Waiters, Aimed, TypeOK, Calls, kernelVars
  <1>2. hold' = hold
    BY <1>1, StopAnswerKeepsHeld
  <1>3. /\ Current \subseteq Starts /\ Current # {} /\ coreGeneration >= 1
        /\ coreGeneration \in Nat
    BY <1>1 DEF Known, Mapped, Owners, Generations, Current, TypeOK
  <1>4. \A s \in Current : hold[s] # "new"
    BY <1>3, HeldSays DEF Current
  <1>5. \A s \in Starts : hold[s] \in {"pending", "up"} => s \in Current
    <2> SUFFICES ASSUME NEW s \in Starts, Held(s) \in {"pending", "up"}
                 PROVE  generation[s] = coreGeneration
      BY DEF Current
    <2>1. Held(s) = "up" => instance = s /\ instance # None
      BY <1>1, HeldSays
    <2> QED
      BY <2>1, HeldSays DEF Known, Kernels, InstanceOfCurrent
  <1> HIDE DEF hold
  <1>6. /\ Current \in SUBSET {s \in Starts : hold[s] # "new"}
        /\ {s \in Starts : hold[s] \in {"pending", "up"}} \subseteq Current
    BY <1>3, <1>4, <1>5
  <1> QED
    BY <1>1, <1>2, <1>3, <1>6 DEF Abstract!AskStop, Abstract!Held, hold


\* The threads, the lock and the generations implement the contract: one holder
\* at a time, refusals only for the others, stops answered once what they aimed
\* at is down.
THEOREM ContractImplemented == Spec => ImplementsContract
  <1>1. Init => Abstract!ContractInit
    <2> SUFFICES ASSUME Init PROVE Abstract!ContractInit
      OBVIOUS
    <2>1. \A s \in Starts : Held(s) = "new"
      BY DEF Init, Held, Calls
    <2> QED
      BY <2>1 DEF Init, Abstract!ContractInit, Calls
  <1>2. Known /\ [Next]_vars => [Abstract!ContractNext]_(Abstract!contractVars)
    <2> SUFFICES ASSUME Known, [Next]_vars
                 PROVE  Abstract!ContractNext \/ UNCHANGED Abstract!contractVars
      OBVIOUS
    <2>1. ASSUME NEW s \in Starts, StartCall(s) PROVE Abstract!ContractNext
      BY <2>1, RefusedMaps, AcceptedMaps DEF StartCall, Abstract!ContractNext
    <2>2. ASSUME NEW t \in Stops, StopCall(t) PROVE Abstract!ContractNext
      BY <2>2, StopWhenStoppedMaps, AskStopMaps
      DEF StopCall, Abstract!ContractNext, Abstract!Replies
    <2>3. ASSUME NEW s \in Starts, Load(s) \/ KernelStart(s) \/ EmitResult(s)
          PROVE  Abstract!ContractNext \/ UNCHANGED Abstract!contractVars
      BY <2>3, LoadMaps, KernelStartMaps, EmitResultMaps DEF Abstract!ContractNext
    <2>4. ASSUME NEW s \in Starts, SetTunFd(s) \/ Commit(s)
          PROVE  UNCHANGED Abstract!contractVars
      <3>1. s \in Calls /\ pc \in [Calls -> Places]
        BY DEF Calls, Known, TypeOK
      <3>2. /\ UNCHANGED <<answer, instance, message, aimed>>
            /\ \A d \in Calls : d # s => pc'[d] = pc[d]
        BY <2>4, <3>1 DEF SetTunFd, Commit, Go, kernelVars, historyVars
      <3>3. CASE SetTunFd(s)
        <4>1. pc[s] = "setFd" /\ pc'[s] = "start"
          BY <3>3, <3>1 DEF SetTunFd, Go
        <4> QED
          BY <3>1, <3>2, <4>1, MovesOn
      <3>4. CASE Commit(s)
        <4>1. /\ pc[s] = "commit" /\ pc'[s] \in {"complete", "stopLate", "emit"}
              /\ pc'[s] = "complete" <=> message[s] # "ok"
          BY <3>4, <3>1 DEF Commit, Go
        <4> QED
          BY <3>1, <3>2, <4>1, MovesOn
      <3> QED
        BY <2>4, <3>3, <3>4
    <2>5. ASSUME NEW c \in Calls, CompleteWaiters(c)
          PROVE  UNCHANGED Abstract!contractVars
      <3>1. /\ pc[c] = "complete" /\ pc'[c] = "emit"
            /\ UNCHANGED <<answer, instance, message, aimed>>
            /\ \A d \in Calls : d # c => pc'[d] = pc[d]
        BY <2>5 DEF CompleteWaiters, Go, Known, TypeOK, kernelVars, historyVars
      <3> QED
        BY <3>1, MovesOn
    <2>6. ASSUME NEW c \in Calls, \/ c \in Starts /\ StopLate(c)
                                  \/ c \in Stops /\ StopThread(c)
          PROVE  Abstract!ContractNext \/ UNCHANGED Abstract!contractVars
      <3>1. /\ KernelStop(c) /\ UNCHANGED <<answer, aimed>>
            /\ pc[c] \in {"stopLate", "stop"} /\ pc'[c] = "complete"
            /\ \A d \in Calls : d # c => pc'[d] = pc[d]
            /\ \A q \in Starts : q # c => message'[q] = message[q]
        BY <2>6 DEF StopLate, StopThread, Go, Known, TypeOK, historyVars
      <3> QED
        BY <3>1, KernelStopMaps DEF Abstract!ContractNext
    <2>7. ASSUME NEW c \in Calls, NEW w \in Stops, EmitWaiter(c, w)
          PROVE  Abstract!ContractNext
      BY <2>7, EmitWaiterMaps DEF Abstract!ContractNext
    <2>8. CASE UNCHANGED vars
      <3>1. UNCHANGED <<pc, answer, instance, message, aimed>>
        BY <2>8 DEF vars, kernelVars, threadVars, historyVars
      <3>2. \A q \in Starts : Held(q)' = Held(q)
        BY <3>1, HeldKept
      <3> QED
        BY <3>1, <3>2 DEF Abstract!contractVars
    <2> QED
      BY <2>1, <2>2, <2>3, <2>4, <2>5, <2>6, <2>7, <2>8
      DEF Next, ThreadStep, WorkerStep
  <1>3. Spec => []Known
    BY TypeCorrect, OwnersAlways, KernelsAlways, WaitersAlways, OnceAlways,
       MappedAlways, PTL DEF Known
  <1> QED
    BY <1>1, <1>2, <1>3, PTL DEF Spec, ImplementsContract, Abstract!Contract

===============================================================================
