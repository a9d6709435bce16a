----------------------------- MODULE TestSessions -----------------------------
(***************************************************************************)
(* The K2 test-session registry (sessionstate.go) behind the V3 exports of *)
(* main.go: concurrent Start, Stop and BeginProbe calls over one map of    *)
(* sessions.  Each critical section under the registry mutex is one step,  *)
(* and so is each create() and Close(), which run outside it.              *)
(*                                                                         *)
(* A session object is named by the call that made it: a Start that        *)
(* registered, or a Stop that recorded a tombstone for an unknown id.  An  *)
(* object outlives its entry in the map, as the pointers of the waiting    *)
(* goroutines do.                                                          *)
(***************************************************************************)
EXTENDS Naturals, FiniteSets

CONSTANTS Ids,            \* session ids
          Starts,         \* Start calls
          Stops,          \* Stop calls
          Probes,         \* probes: BeginProbe, then the test through the handle
          MaxTombstones,  \* closed entries that stay in the map
          None            \* no session object

ASSUME SessionAssumption ==
    /\ Starts \cap Stops = {} /\ Starts \cap Probes = {} /\ Stops \cap Probes = {}
    /\ None \notin Starts \cup Stops
    /\ MaxTombstones \in Nat

VARIABLES
    entry,      \* r.sessions: the object an id maps to, or None
    seq,        \* r.seq
    state,      \* s.state of each object, "none" before it exists
    order,      \* s.seq of each object
    cancelled,  \* the objects whose context was cancelled
    closed,     \* the objects whose closed channel was closed
    closeErr,   \* s.closeErr of each object
    instance,   \* the test instance a Start created: "none", "open", "closed"
    pc,         \* where each call is
    id,         \* the id each call was made with
    target,     \* the object a Stop or a probe works on
    answer      \* what each call returned

registryVars == <<entry, seq, state, order, cancelled, closed, closeErr>>
vars == <<registryVars, instance, pc, id, target, answer>>

Objects == Starts \cup Stops
Calls == Objects \cup Probes

Init ==
    /\ entry = [i \in Ids |-> None]
    /\ seq = 0
    /\ state = [o \in Objects |-> "none"]
    /\ order = [o \in Objects |-> 0]
    /\ cancelled = {}
    /\ closed = {}
    /\ closeErr = [o \in Objects |-> "ok"]
    /\ instance = [s \in Starts |-> "none"]
    /\ pc = [c \in Calls |-> "new"]
    /\ id \in [Calls -> Ids]
    /\ target = [c \in Stops \cup Probes |-> None]
    /\ answer = [c \in Calls |-> "none"]

Go(c, from, to) ==
    /\ pc[c] = from
    /\ pc' = [pc EXCEPT ![c] = to]

Return(c, value) == answer' = [answer EXCEPT ![c] = value]

-------------------------------------------------------------------------------
(* The map. *)

ClosedIds(e, st) == {i \in Ids : e[i] # None /\ st[e[i]] = "closed"}

\* pruneLocked: of the closed entries only the youngest MaxTombstones stay.
Prune(e, st, ord) ==
    LET dead == ClosedIds(e, st)
        Newer(i) == {j \in dead : ord[e[j]] >= ord[e[i]]}
    IN  [i \in Ids |-> IF i \in dead /\ Cardinality(Newer(i)) > MaxTombstones
                       THEN None ELSE e[i]]

\* markClosedLocked, with the close error the caller stored before it.
MarkClosed(o, err) ==
    /\ state' = [state EXCEPT ![o] = "closed"]
    /\ closeErr' = [closeErr EXCEPT ![o] = err]
    /\ closed' = closed \cup {o}
    /\ entry' = Prune(entry, state', order)
    /\ UNCHANGED <<seq, order, cancelled>>

\* A tombstone with a state of its own.
TombstoneState(o, i) ==
    /\ seq' = seq + 1
    /\ state' = [state EXCEPT ![o] = "tombstone"]
    /\ order' = [order EXCEPT ![o] = seq + 1]
    /\ closed' = closed \cup {o}
    /\ entry' = Prune([entry EXCEPT ![i] = o], state', order')
    /\ UNCHANGED <<cancelled, closeErr>>

\* tombstoneLocked for an id the map does not know.
Tombstone(o, i) ==
    /\ seq' = seq + 1
    /\ state' = [state EXCEPT ![o] = "closed"]
    /\ order' = [order EXCEPT ![o] = seq + 1]
    /\ closed' = closed \cup {o}
    /\ entry' = Prune([entry EXCEPT ![i] = o], state', order')
    /\ UNCHANGED <<cancelled, closeErr>>

Live(i) == entry[i] # None /\ state[entry[i]] # "closed"

-------------------------------------------------------------------------------
(* Start *)

\* What Start answers when it registers nothing, in the order of its checks.
Refusal(i) ==
    IF entry[i] # None
    THEN CASE state[entry[i]] \in {"starting", "active"} -> "alreadyActive"
           [] state[entry[i]] = "stopping" -> "isStopping"
           [] OTHER -> "cancelled"
    ELSE IF \E j \in Ids : Live(j) /\ state[entry[j]] = "stopping"
         THEN "isStopping" ELSE "otherActive"

StartRefused(s) ==
    /\ entry[id[s]] # None \/ \E j \in Ids : Live(j)
    /\ Go(s, "new", "done")
    /\ Return(s, Refusal(id[s]))
    /\ UNCHANGED <<registryVars, instance, id, target>>

Register(s) ==
    /\ Go(s, "new", "create")
    /\ seq' = seq + 1
    /\ state' = [state EXCEPT ![s] = "starting"]
    /\ order' = [order EXCEPT ![s] = seq + 1]
    /\ entry' = [entry EXCEPT ![id[s]] = s]
    /\ UNCHANGED <<cancelled, closed, closeErr, instance, id, target, answer>>

\* Start without the serial rule: it looks at its own id alone.
StartRegistersAnyway(s) ==
    /\ entry[id[s]] = None
    /\ Register(s)

StartRegisters(s) ==
    /\ entry[id[s]] = None /\ \A j \in Ids : ~Live(j)
    /\ Register(s)

\* create(), outside the lock; a failed creation leaves no instance.
Create(s) ==
    /\ \/ /\ Go(s, "create", "created")
          /\ instance' = [instance EXCEPT ![s] = "open"]
       \/ /\ Go(s, "create", "failed")
          /\ UNCHANGED instance
    /\ UNCHANGED <<registryVars, id, target, answer>>

\* A failed creation that wakes nobody.
StartFailedSilently(s) ==
    /\ Go(s, "failed", "done")
    /\ entry' = [entry EXCEPT ![id[s]] = None]
    /\ state' = [state EXCEPT ![s] = "closed"]
    /\ closeErr' = [closeErr EXCEPT ![s] = "createFailed"]
    /\ Return(s, "createFailed")
    /\ UNCHANGED <<seq, order, cancelled, closed, instance, id, target>>

StartFailed(s) ==
    /\ Go(s, "failed", "done")
    /\ entry' = [entry EXCEPT ![id[s]] = None]
    /\ state' = [state EXCEPT ![s] = "closed"]
    /\ closeErr' = [closeErr EXCEPT ![s] = "createFailed"]
    /\ closed' = closed \cup {s}
    /\ Return(s, "createFailed")
    /\ UNCHANGED <<seq, order, cancelled, instance, id, target>>

StartActive(s) ==
    /\ state[s] # "stopping"
    /\ Go(s, "created", "done")
    /\ state' = [state EXCEPT ![s] = "active"]
    /\ Return(s, "ok")
    /\ UNCHANGED <<entry, seq, order, cancelled, closed, closeErr, instance,
                   id, target>>

\* A Start overtaken by a Stop that skips closing what it built.
StartOvertakenLeaks(s) ==
    /\ state[s] = "stopping"
    /\ Go(s, "created", "mark")
    /\ UNCHANGED <<registryVars, instance, id, target, answer>>

StartOvertaken(s) ==
    /\ state[s] = "stopping"
    /\ Go(s, "created", "close")
    /\ UNCHANGED <<registryVars, instance, id, target, answer>>

\* handle.Close(), outside the lock; it may report an error.
Close(c, o) ==
    /\ instance' = [instance EXCEPT ![o] = "closed"]
    /\ \/ Go(c, "close", "mark")
       \/ Go(c, "close", "markFailed")
    /\ UNCHANGED <<registryVars, id, target, answer>>

CloseError(c) == IF pc[c] = "markFailed" THEN "failed" ELSE "ok"

StartMarks(s) ==
    /\ pc[s] \in {"mark", "markFailed"}
    /\ Go(s, pc[s], "done")
    /\ MarkClosed(s, CloseError(s))
    /\ Return(s, "cancelled")
    /\ UNCHANGED <<instance, id, target>>

-------------------------------------------------------------------------------
(* Stop *)

StopUnknown(t) ==
    /\ entry[id[t]] = None
    /\ Go(t, "new", "done")
    /\ Tombstone(t, id[t])
    /\ Return(t, "ok")
    /\ UNCHANGED <<instance, id, target>>

StopClosed(t) ==
    /\ entry[id[t]] # None /\ state[entry[id[t]]] = "closed"
    /\ Go(t, "new", "done")
    /\ target' = [target EXCEPT ![t] = entry[id[t]]]
    /\ Return(t, "ok")
    /\ UNCHANGED <<registryVars, instance, id>>

\* A Stop that acknowledges a starting session at once.
StopStartingEagerly(t) ==
    /\ entry[id[t]] # None /\ state[entry[id[t]]] = "starting"
    /\ Go(t, "new", "done")
    /\ target' = [target EXCEPT ![t] = entry[id[t]]]
    /\ state' = [state EXCEPT ![entry[id[t]]] = "stopping"]
    /\ cancelled' = cancelled \cup {entry[id[t]]}
    /\ Return(t, "ok")
    /\ UNCHANGED <<entry, seq, order, closed, closeErr, instance, id>>

StopStarting(t) ==
    /\ entry[id[t]] # None /\ state[entry[id[t]]] = "starting"
    /\ Go(t, "new", "wait")
    /\ target' = [target EXCEPT ![t] = entry[id[t]]]
    /\ state' = [state EXCEPT ![entry[id[t]]] = "stopping"]
    /\ cancelled' = cancelled \cup {entry[id[t]]}
    /\ UNCHANGED <<entry, seq, order, closed, closeErr, instance, id, answer>>

\* A Stop that leaves the session active while it closes the instance.
StopActiveUnmarked(t) ==
    /\ entry[id[t]] # None /\ state[entry[id[t]]] = "active"
    /\ Go(t, "new", "close")
    /\ target' = [target EXCEPT ![t] = entry[id[t]]]
    /\ cancelled' = cancelled \cup {entry[id[t]]}
    /\ UNCHANGED <<entry, seq, state, order, closed, closeErr, instance, id,
                   answer>>

StopActive(t) ==
    /\ entry[id[t]] # None /\ state[entry[id[t]]] = "active"
    /\ Go(t, "new", "close")
    /\ target' = [target EXCEPT ![t] = entry[id[t]]]
    /\ state' = [state EXCEPT ![entry[id[t]]] = "stopping"]
    /\ cancelled' = cancelled \cup {entry[id[t]]}
    /\ UNCHANGED <<entry, seq, order, closed, closeErr, instance, id, answer>>

StopStopping(t) ==
    /\ entry[id[t]] # None /\ state[entry[id[t]]] = "stopping"
    /\ Go(t, "new", "wait")
    /\ target' = [target EXCEPT ![t] = entry[id[t]]]
    /\ UNCHANGED <<registryVars, instance, id, answer>>

StopMarks(t) ==
    /\ pc[t] \in {"mark", "markFailed"}
    /\ Go(t, pc[t], "done")
    /\ MarkClosed(target[t], CloseError(t))
    /\ Return(t, CloseError(t))
    /\ UNCHANGED <<instance, id, target>>

\* <-closed, then the error the closer left.
StopWaits(t) ==
    /\ target[t] \in closed
    /\ Go(t, "wait", "done")
    /\ Return(t, closeErr[target[t]])
    /\ UNCHANGED <<registryVars, instance, id, target>>

-------------------------------------------------------------------------------
(* A probe: BeginProbe, and the test that uses the handle without the lock. *)

\* A probe that is given the handle of a session while it is being stopped.
CanProbeUnclosed(i) == entry[i] # None /\ state[entry[i]] \in {"active", "stopping"}

CanProbe(i) == entry[i] # None /\ state[entry[i]] = "active"

BeginProbe(p) ==
    /\ CanProbe(id[p])
    /\ Go(p, "new", "probing")
    /\ target' = [target EXCEPT ![p] = entry[id[p]]]
    /\ UNCHANGED <<registryVars, instance, id, answer>>

ProbeRefused(p) ==
    /\ ~CanProbe(id[p])
    /\ Go(p, "new", "done")
    /\ Return(p, "notFound")
    /\ UNCHANGED <<registryVars, instance, id, target>>

EndProbe(p) ==
    /\ Go(p, "probing", "done")
    /\ \E r \in {"ok", "failed"} : Return(p, r)
    /\ UNCHANGED <<registryVars, instance, id, target>>

-------------------------------------------------------------------------------

StartStep(s) ==
    \/ Create(s) \/ StartFailed(s) \/ StartActive(s) \/ StartOvertaken(s)
    \/ Close(s, s) \/ StartMarks(s)

StopStep(t) ==
    \/ pc[t] = "close" /\ Close(t, target[t])
    \/ StopMarks(t) \/ StopWaits(t)

Next ==
    \/ \E s \in Starts : StartRefused(s) \/ StartRegisters(s) \/ StartStep(s)
    \/ \E t \in Stops :
         \/ StopUnknown(t) \/ StopClosed(t) \/ StopStarting(t) \/ StopActive(t)
         \/ StopStopping(t) \/ StopStep(t)
    \/ \E p \in Probes : BeginProbe(p) \/ ProbeRefused(p) \/ EndProbe(p)

Spec == Init /\ [][Next]_vars

\* Goroutines are scheduled, create() and Close() return, probes time out; no
\* call is owed by the UI.
Fairness ==
    /\ \A s \in Starts : WF_vars(StartStep(s))
    /\ \A t \in Stops : WF_vars(StopStep(t))
    /\ \A p \in Probes : WF_vars(EndProbe(p))
FairSpec == Spec /\ Fairness

-------------------------------------------------------------------------------
(* Properties. *)

\* Every variable stays in its type.
TypeOK ==
    /\ entry \in [Ids -> Objects \cup {None}]
    /\ seq \in Nat
    /\ state \in [Objects -> {"none", "starting", "active", "stopping", "closed"}]
    /\ order \in [Objects -> Nat]
    /\ cancelled \subseteq Starts
    /\ closed \subseteq Objects
    /\ closeErr \in [Objects -> {"ok", "failed", "createFailed"}]
    /\ instance \in [Starts -> {"none", "open", "closed"}]
    /\ pc \in [Calls -> {"new", "create", "created", "failed", "close", "mark",
                         "markFailed", "wait", "probing", "done"}]
    /\ id \in [Calls -> Ids]
    /\ target \in [Stops \cup Probes -> Objects \cup {None}]
    /\ answer \in [Calls -> {"none", "ok", "failed", "createFailed", "cancelled",
                             "alreadyActive", "isStopping", "otherActive", "notFound"}]

\* A Start whose instance is being built or is still open.
Occupies(s) == pc[s] \in {"create", "created"} \/ instance[s] = "open"

\* "Serial semantics: at most one live test session": no two test instances
\* are ever being built or open, whatever ids they belong to.
OneInstance == \A s, u \in Starts : Occupies(s) /\ Occupies(u) => s = u

\* "Stop returns only after the underlying instance has been closed (or after
\* a concurrent start aborted), never before".
StopReturnsAfterClose ==
    \A t \in Stops : answer[t] # "none" /\ target[t] \in Starts =>
        ~Occupies(target[t])

\* No instance is leaked: an open one is reachable through the map, and if its
\* session is stopping, some call is on its way to close it.
NoOrphanInstance ==
    \A s \in Starts : instance[s] = "open" =>
        /\ entry[id[s]] = s /\ state[s] \in {"starting", "active", "stopping"}
        /\ state[s] = "stopping" =>
             \/ pc[s] \in {"created", "close"}
             \/ \E t \in Stops : pc[t] = "close" /\ target[t] = s

\* An instance is closed by exactly one call: nobody is about to close one that
\* is closed already, and no two calls are about to close the same one.
ClosedByOne ==
    \A c, d \in Objects :
        LET Of(k) == IF k \in Starts THEN k ELSE target[k]
        IN  /\ pc[c] = "close" => instance[Of(c)] = "open"
            /\ pc[c] = "close" /\ pc[d] = "close" /\ Of(c) = Of(d) => c = d

\* A probe is handed an instance nobody has begun to take down.
ProbeGetsWholeInstance ==
    [][\A p \in Probes : pc[p] = "new" /\ pc'[p] = "probing" =>
          instance[target'[p]] = "open" /\ target'[p] \notin cancelled]_vars

\* A call never waits for ever: each Start, Stop and probe returns.
EveryCallReturns == \A c \in Calls : pc[c] # "new" ~> pc[c] = "done"
===============================================================================
