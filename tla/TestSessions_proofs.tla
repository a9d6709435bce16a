-------------------------- MODULE TestSessions_proofs --------------------------
(***************************************************************************)
(* Proofs about TestSessions, for any ids and any number of Start, Stop    *)
(* and probe calls.                                                        *)
(*                                                                         *)
(* The inductive invariant comes in layers, each proved from the ones      *)
(* above it:                                                               *)
(*   TypeOK                                                                *)
(*   Registry  what the map says of the objects: the live ones are in it,  *)
(*             and there is at most one                                    *)
(*   Builders  how far the Start that owns a session is, given its state   *)
(*   Closers   which call takes an instance down, and that only one does   *)
(*   Waiters   what a Stop that has returned may rely on                   *)
(***************************************************************************)
EXTENDS TestSessions, TLAPS

LiveStates == {"starting", "active", "stopping"}
Marking == {"mark", "markFailed"}
Closing == {"close"} \cup Marking

(***************************************************************************)
(* The map.                                                                *)
(***************************************************************************)

\* pruneLocked only ever removes entries, and only those of closed sessions.
LEMMA PruneDropsClosed ==
    ASSUME NEW e, NEW st, NEW ord, NEW i \in Ids
    PROVE  /\ Prune(e, st, ord)[i] \in {e[i], None}
           /\ e[i] # None /\ st[e[i]] # "closed" => Prune(e, st, ord)[i] = e[i]
  BY DEF Prune, ClosedIds

\* pruneLocked keeps the type of the map.
LEMMA PruneType ==
    ASSUME NEW e \in [Ids -> Objects \cup {None}], NEW st, NEW ord
    PROVE  Prune(e, st, ord) \in [Ids -> Objects \cup {None}]
  BY DEF Prune

(***************************************************************************)
(* Types.                                                                  *)
(***************************************************************************)

\* Each kind of call keeps to its own code, and only the session of a Start is
\* ever live or worked on: the object of a Stop is born a tombstone.
OwnCode ==
    /\ \A s \in Starts : pc[s] \in {"new", "create", "created", "failed", "done"}
                                     \cup Closing
    /\ \A t \in Stops : pc[t] \in {"new", "wait", "done"} \cup Closing
    /\ \A p \in Probes : pc[p] \in {"new", "probing", "done"}
    /\ \A t \in Stops : state[t] \in {"none", "closed"}
    /\ \A t \in Stops : pc[t] \in {"wait"} \cup Closing => target[t] \in Starts

Typed == TypeOK /\ OwnCode

\* The initial state is well typed, and no call has been made.
LEMMA TypeInit == Init => Typed
  BY SessionAssumption DEF Init, Typed, TypeOK, OwnCode, Objects, Calls, Closing, Marking

\* Every step of a Start, a Stop and a probe keeps the types.
LEMMA TypeStep == Typed /\ [Next]_vars => TypeOK'
  <1> SUFFICES ASSUME Typed, [Next]_vars PROVE TypeOK'
    OBVIOUS
  <1> USE SessionAssumption
      DEF Typed, TypeOK, OwnCode, Objects, Calls, Go, Return, registryVars,
          Closing, Marking
  <1>1. ASSUME NEW s \in Starts, StartRefused(s) PROVE TypeOK'
    BY <1>1 DEF StartRefused, Refusal
  <1>2. ASSUME NEW s \in Starts, StartRegisters(s) PROVE TypeOK'
    BY <1>2 DEF StartRegisters, Register
  <1>3. ASSUME NEW s \in Starts, Create(s) PROVE TypeOK'
    BY <1>3 DEF Create
  <1>4. ASSUME NEW s \in Starts, StartFailed(s) PROVE TypeOK'
    BY <1>4 DEF StartFailed
  <1>5. ASSUME NEW s \in Starts, StartActive(s) PROVE TypeOK'
    BY <1>5 DEF StartActive
  <1>6. ASSUME NEW s \in Starts, StartOvertaken(s) PROVE TypeOK'
    BY <1>6 DEF StartOvertaken
  <1>7. ASSUME NEW c \in Objects, NEW o, Close(c, o) PROVE TypeOK'
    <2>1. PICK p \in Marking : pc' = [pc EXCEPT ![c] = p]
      BY <1>7 DEF Close
    <2>2. /\ instance' = [instance EXCEPT ![o] = "closed"]
          /\ UNCHANGED <<registryVars, id, target, answer>>
      BY <1>7 DEF Close
    <2> QED
      BY <2>1, <2>2
  <1>8. ASSUME NEW s \in Starts, StartMarks(s) PROVE TypeOK'
    BY <1>8, PruneType DEF StartMarks, MarkClosed, CloseError
  <1>9. ASSUME NEW t \in Stops, StopUnknown(t) PROVE TypeOK'
    <2>1. entry' \in [Ids -> Objects \cup {None}]
      BY <1>9, PruneType DEF StopUnknown, Tombstone
    <2>2. /\ seq' \in Nat /\ order' \in [Objects -> Nat]
          /\ state' = [state EXCEPT ![t] = "closed"]
          /\ closed' = closed \cup {t}
          /\ UNCHANGED <<cancelled, closeErr, instance, id, target>>
      BY <1>9 DEF StopUnknown, Tombstone
    <2>3. /\ pc' = [pc EXCEPT ![t] = "done"]
          /\ answer' = [answer EXCEPT ![t] = "ok"]
      BY <1>9 DEF StopUnknown
    <2> QED
      BY <2>1, <2>2, <2>3
  <1>10. ASSUME NEW t \in Stops, StopClosed(t) PROVE TypeOK'
    BY <1>10 DEF StopClosed
  <1>11. ASSUME NEW t \in Stops, StopStarting(t) PROVE TypeOK'
    BY <1>11 DEF StopStarting
  <1>12. ASSUME NEW t \in Stops, StopActive(t) PROVE TypeOK'
    BY <1>12 DEF StopActive
  <1>13. ASSUME NEW t \in Stops, StopStopping(t) PROVE TypeOK'
    BY <1>13 DEF StopStopping
  <1>14. ASSUME NEW t \in Stops, StopMarks(t) PROVE TypeOK'
    <2>1. entry' \in [Ids -> Objects \cup {None}]
      BY <1>14, PruneType DEF StopMarks, MarkClosed
    <2>2. /\ state' = [state EXCEPT ![target[t]] = "closed"]
          /\ closed' = closed \cup {target[t]} /\ target[t] \in Starts
          /\ closeErr' \in [Objects -> {"ok", "failed", "createFailed"}]
          /\ UNCHANGED <<seq, order, cancelled, instance, id, target>>
      BY <1>14 DEF StopMarks, MarkClosed, CloseError
    <2>3. /\ pc' = [pc EXCEPT ![t] = "done"]
          /\ answer' = [answer EXCEPT ![t] = CloseError(t)]
          /\ CloseError(t) \in {"ok", "failed"}
      BY <1>14 DEF StopMarks, CloseError
    <2> QED
      BY <2>1, <2>2, <2>3
  <1>15. ASSUME NEW t \in Stops, StopWaits(t) PROVE TypeOK'
    BY <1>15 DEF StopWaits
  <1>16. ASSUME NEW p \in Probes, BeginProbe(p) PROVE TypeOK'
    BY <1>16 DEF BeginProbe, CanProbe
  <1>17. ASSUME NEW p \in Probes, ProbeRefused(p) PROVE TypeOK'
    BY <1>17 DEF ProbeRefused
  <1>18. ASSUME NEW p \in Probes, EndProbe(p) PROVE TypeOK'
    BY <1>18 DEF EndProbe
  <1>19. CASE UNCHANGED vars
    BY <1>19 DEF vars
  <1> QED
    BY <1>1, <1>2, <1>3, <1>4, <1>5, <1>6, <1>7, <1>8, <1>9, <1>10, <1>11,
       <1>12, <1>13, <1>14, <1>15, <1>16, <1>17, <1>18, <1>19
    DEF Next, StartStep, StopStep

(***************************************************************************)
(* The inductive invariant.                                                *)
(***************************************************************************)

\* A session that is live can be found under its own id, and no other session
\* is live with it.
Registry ==
    /\ \A i \in Ids : entry[i] # None => id[entry[i]] = i /\ state[entry[i]] # "none"
    /\ \A o \in Objects : pc[o] = "new" => state[o] = "none"
    /\ \A s \in Starts : state[s] \in LiveStates => entry[id[s]] = s
    /\ \A s, u \in Starts :
         state[s] \in LiveStates /\ state[u] \in LiveStates => s = u

\* Where the Start of a session can be, and what there is of its instance.
Builders ==
    \A s \in Starts :
        /\ state[s] = "none" => pc[s] \in {"new", "done"} /\ instance[s] = "none"
        /\ state[s] = "starting" => pc[s] \in {"create", "created", "failed"}
        /\ state[s] = "active" => pc[s] = "done" /\ instance[s] = "open"
        /\ state[s] = "closed" => pc[s] = "done" /\ instance[s] # "open"
        /\ pc[s] \in {"create", "failed"} =>
             state[s] \in {"starting", "stopping"} /\ instance[s] = "none"
        /\ pc[s] = "created" =>
             state[s] \in {"starting", "stopping"} /\ instance[s] = "open"
        /\ pc[s] = "close" => state[s] = "stopping" /\ instance[s] = "open"
        /\ pc[s] \in Marking => state[s] = "stopping" /\ instance[s] = "closed"
        /\ s \in closed => state[s] = "closed"
        /\ s \in cancelled => state[s] \in {"stopping", "closed"}

\* A session that is stopping and has left its Start is being taken down by
\* exactly one Stop.
Closers ==
    /\ \A t \in Stops : pc[t] \in Closing =>
         /\ state[target[t]] = "stopping" /\ pc[target[t]] = "done"
         /\ instance[target[t]] = IF pc[t] = "close" THEN "open" ELSE "closed"
    /\ \A t, u \in Stops :
         pc[t] \in Closing /\ pc[u] \in Closing /\ target[t] = target[u] => t = u
    /\ \A s \in Starts : state[s] = "stopping" /\ pc[s] = "done" =>
         \E t \in Stops : pc[t] \in Closing /\ target[t] = s

\* A Stop that waits is on a session that goes down, one that has returned on a
\* session that is down.
Waiters ==
    \A t \in Stops :
        /\ pc[t] = "new" => target[t] = None
        /\ pc[t] # "done" => answer[t] = "none"
        /\ pc[t] = "wait" => state[target[t]] \in {"stopping", "closed"}
        /\ pc[t] = "done" /\ target[t] \in Starts => state[target[t]] = "closed"

Inv == Typed /\ Registry /\ Builders /\ Closers /\ Waiters

\* Every step keeps each call in its own code.
LEMMA OwnCodeStep == Inv /\ TypeOK' /\ [Next]_vars => OwnCode'
  <1> SUFFICES ASSUME Inv, TypeOK', [Next]_vars PROVE OwnCode'
    OBVIOUS
  <1> USE SessionAssumption DEF Inv, Typed, TypeOK, OwnCode, Objects, Calls, Go, registryVars,
          Closing, Marking
  <1>1. ASSUME NEW s \in Starts, StartRefused(s) PROVE OwnCode'
    BY <1>1 DEF StartRefused
  <1>2. ASSUME NEW s \in Starts, StartRegisters(s) PROVE OwnCode'
    BY <1>2 DEF StartRegisters, Register, Live
  <1>3. ASSUME NEW s \in Starts, Create(s) PROVE OwnCode'
    BY <1>3 DEF Create
  <1>4. ASSUME NEW s \in Starts, StartFailed(s) PROVE OwnCode'
    BY <1>4 DEF StartFailed
  <1>5. ASSUME NEW s \in Starts, StartActive(s) PROVE OwnCode'
    BY <1>5 DEF StartActive
  <1>6. ASSUME NEW s \in Starts, StartOvertaken(s) PROVE OwnCode'
    BY <1>6 DEF StartOvertaken
  <1>7. ASSUME NEW s \in Starts, Close(s, s) PROVE OwnCode'
    BY <1>7 DEF Close
  <1>8. ASSUME NEW s \in Starts, StartMarks(s) PROVE OwnCode'
    BY <1>8 DEF StartMarks, MarkClosed
  <1>9. ASSUME NEW t \in Stops, StopUnknown(t) PROVE OwnCode'
    BY <1>9 DEF StopUnknown, Tombstone
  <1>10. ASSUME NEW t \in Stops, StopClosed(t) PROVE OwnCode'
    BY <1>10 DEF StopClosed
  <1>11. ASSUME NEW t \in Stops, StopStarting(t) PROVE OwnCode'
    BY <1>11 DEF StopStarting
  <1>12. ASSUME NEW t \in Stops, StopActive(t) PROVE OwnCode'
    BY <1>12 DEF StopActive
  <1>13. ASSUME NEW t \in Stops, StopStopping(t) PROVE OwnCode'
    BY <1>13 DEF StopStopping
  <1>14. ASSUME NEW t \in Stops, pc[t] = "close", Close(t, target[t]) PROVE OwnCode'
    BY <1>14 DEF Close
  <1>15. ASSUME NEW t \in Stops, StopMarks(t) PROVE OwnCode'
    BY <1>15 DEF StopMarks, MarkClosed
  <1>16. ASSUME NEW t \in Stops, StopWaits(t) PROVE OwnCode'
    BY <1>16 DEF StopWaits
  <1>17. ASSUME NEW p \in Probes, BeginProbe(p) PROVE OwnCode'
    BY <1>17 DEF BeginProbe
  <1>18. ASSUME NEW p \in Probes, ProbeRefused(p) PROVE OwnCode'
    BY <1>18 DEF ProbeRefused
  <1>19. ASSUME NEW p \in Probes, EndProbe(p) PROVE OwnCode'
    BY <1>19 DEF EndProbe
  <1>20. CASE UNCHANGED vars
    BY <1>20 DEF vars
  <1> QED
    BY <1>1, <1>2, <1>3, <1>4, <1>5, <1>6, <1>7, <1>8, <1>9, <1>10,
       <1>11, <1>12, <1>13, <1>14, <1>15, <1>16, <1>17, <1>18, <1>19, <1>20
    DEF Next, StartStep, StopStep

\* Every step keeps the live session in the map, and alone there.
LEMMA RegistryStep == Inv /\ TypeOK' /\ [Next]_vars => Registry'
  <1> SUFFICES ASSUME Inv, TypeOK', [Next]_vars PROVE Registry'
    OBVIOUS
  <1> USE SessionAssumption DEF Inv, Typed, TypeOK, OwnCode, Objects, Calls, Go, registryVars,
          Closing, Marking, Registry, Builders, Closers, LiveStates
  <1>1. ASSUME NEW s \in Starts, StartRefused(s) PROVE Registry'
    BY <1>1 DEF StartRefused
  <1>2. ASSUME NEW s \in Starts, StartRegisters(s) PROVE Registry'
    BY <1>2 DEF StartRegisters, Register, Live
  <1>3. ASSUME NEW s \in Starts, Create(s) PROVE Registry'
    BY <1>3 DEF Create
  <1>4. ASSUME NEW s \in Starts, StartFailed(s) PROVE Registry'
    BY <1>4 DEF StartFailed
  <1>5. ASSUME NEW s \in Starts, StartActive(s) PROVE Registry'
    BY <1>5 DEF StartActive
  <1>6. ASSUME NEW s \in Starts, StartOvertaken(s) PROVE Registry'
    BY <1>6 DEF StartOvertaken
  <1>7. ASSUME NEW s \in Starts, Close(s, s) PROVE Registry'
    BY <1>7 DEF Close
  <1>8. ASSUME NEW s \in Starts, StartMarks(s) PROVE Registry'
    BY <1>8, PruneDropsClosed DEF StartMarks, MarkClosed
  <1>9. ASSUME NEW t \in Stops, StopUnknown(t) PROVE Registry'
    <2>1. /\ entry[id[t]] = None /\ pc[t] = "new" /\ state[t] = "none"
          /\ id' = id /\ pc' = [pc EXCEPT ![t] = "done"]
          /\ state' = [state EXCEPT ![t] = "closed"]
      BY <1>9 DEF StopUnknown, Tombstone
    <2>2. ASSUME NEW i \in Ids
          PROVE  /\ entry'[i] \in {IF i = id[t] THEN t ELSE entry[i], None}
                 /\ i # id[t] /\ entry[i] # None /\ state'[entry[i]] # "closed"
                      => entry'[i] = entry[i]
      <3> DEFINE e == [entry EXCEPT ![id[t]] = t]
      <3>1. entry' = Prune(e, state', order') /\ e[i] = IF i = id[t] THEN t ELSE entry[i]
        BY <1>9 DEF StopUnknown, Tombstone
      <3> HIDE DEF e
      <3> QED
        BY <3>1, PruneDropsClosed
    <2>3. \A i \in Ids : entry'[i] # None =>
             id'[entry'[i]] = i /\ state'[entry'[i]] # "none"
      BY <2>1, <2>2
    <2>4. \A s \in Starts : state'[s] \in LiveStates => entry'[id'[s]] = s
      BY <2>1, <2>2
    <2> QED
      BY <2>1, <2>3, <2>4
  <1>10. ASSUME NEW t \in Stops, StopClosed(t) PROVE Registry'
    BY <1>10 DEF StopClosed
  <1>11. ASSUME NEW t \in Stops, StopStarting(t) PROVE Registry'
    BY <1>11 DEF StopStarting
  <1>12. ASSUME NEW t \in Stops, StopActive(t) PROVE Registry'
    BY <1>12 DEF StopActive
  <1>13. ASSUME NEW t \in Stops, StopStopping(t) PROVE Registry'
    BY <1>13 DEF StopStopping
  <1>14. ASSUME NEW t \in Stops, pc[t] = "close", Close(t, target[t]) PROVE Registry'
    BY <1>14 DEF Close
  <1>15. ASSUME NEW t \in Stops, StopMarks(t) PROVE Registry'
    BY <1>15, PruneDropsClosed DEF StopMarks, MarkClosed
  <1>16. ASSUME NEW t \in Stops, StopWaits(t) PROVE Registry'
    BY <1>16 DEF StopWaits
  <1>17. ASSUME NEW p \in Probes, BeginProbe(p) PROVE Registry'
    BY <1>17 DEF BeginProbe
  <1>18. ASSUME NEW p \in Probes, ProbeRefused(p) PROVE Registry'
    BY <1>18 DEF ProbeRefused
  <1>19. ASSUME NEW p \in Probes, EndProbe(p) PROVE Registry'
    BY <1>19 DEF EndProbe
  <1>20. CASE UNCHANGED vars
    BY <1>20 DEF vars
  <1> QED
    BY <1>1, <1>2, <1>3, <1>4, <1>5, <1>6, <1>7, <1>8, <1>9, <1>10,
       <1>11, <1>12, <1>13, <1>14, <1>15, <1>16, <1>17, <1>18, <1>19, <1>20
    DEF Next, StartStep, StopStep

\* Every step keeps a Start where the state of its session says.
LEMMA BuildersStep == Inv /\ TypeOK' /\ [Next]_vars => Builders'
  <1> SUFFICES ASSUME Inv, TypeOK', [Next]_vars PROVE Builders'
    OBVIOUS
  <1> USE SessionAssumption DEF Inv, Typed, TypeOK, OwnCode, Objects, Calls, Go, registryVars,
          Closing, Marking, Registry, Builders, Closers, LiveStates
  <1>1. ASSUME NEW s \in Starts, StartRefused(s) PROVE Builders'
    BY <1>1 DEF StartRefused
  <1>2. ASSUME NEW s \in Starts, StartRegisters(s) PROVE Builders'
    BY <1>2 DEF StartRegisters, Register, Live
  <1>3. ASSUME NEW s \in Starts, Create(s) PROVE Builders'
    BY <1>3 DEF Create
  <1>4. ASSUME NEW s \in Starts, StartFailed(s) PROVE Builders'
    BY <1>4 DEF StartFailed
  <1>5. ASSUME NEW s \in Starts, StartActive(s) PROVE Builders'
    BY <1>5 DEF StartActive
  <1>6. ASSUME NEW s \in Starts, StartOvertaken(s) PROVE Builders'
    BY <1>6 DEF StartOvertaken
  <1>7. ASSUME NEW s \in Starts, Close(s, s) PROVE Builders'
    BY <1>7 DEF Close
  <1>8. ASSUME NEW s \in Starts, StartMarks(s) PROVE Builders'
    BY <1>8 DEF StartMarks, MarkClosed
  <1>9. ASSUME NEW t \in Stops, StopUnknown(t) PROVE Builders'
    BY <1>9 DEF StopUnknown, Tombstone
  <1>10. ASSUME NEW t \in Stops, StopClosed(t) PROVE Builders'
    BY <1>10 DEF StopClosed
  <1>11. ASSUME NEW t \in Stops, StopStarting(t) PROVE Builders'
    BY <1>11 DEF StopStarting
  <1>12. ASSUME NEW t \in Stops, StopActive(t) PROVE Builders'
    BY <1>12 DEF StopActive
  <1>13. ASSUME NEW t \in Stops, StopStopping(t) PROVE Builders'
    BY <1>13 DEF StopStopping
  <1>14. ASSUME NEW t \in Stops, pc[t] = "close", Close(t, target[t]) PROVE Builders'
    BY <1>14 DEF Close
  <1>15. ASSUME NEW t \in Stops, StopMarks(t) PROVE Builders'
    BY <1>15 DEF StopMarks, MarkClosed
  <1>16. ASSUME NEW t \in Stops, StopWaits(t) PROVE Builders'
    BY <1>16 DEF StopWaits
  <1>17. ASSUME NEW p \in Probes, BeginProbe(p) PROVE Builders'
    BY <1>17 DEF BeginProbe
  <1>18. ASSUME NEW p \in Probes, ProbeRefused(p) PROVE Builders'
    BY <1>18 DEF ProbeRefused
  <1>19. ASSUME NEW p \in Probes, EndProbe(p) PROVE Builders'
    BY <1>19 DEF EndProbe
  <1>20. CASE UNCHANGED vars
    BY <1>20 DEF vars
  <1> QED
    BY <1>1, <1>2, <1>3, <1>4, <1>5, <1>6, <1>7, <1>8, <1>9, <1>10,
       <1>11, <1>12, <1>13, <1>14, <1>15, <1>16, <1>17, <1>18, <1>19, <1>20
    DEF Next, StartStep, StopStep

\* Every step keeps one call, and only one, on its way to close an instance.
LEMMA ClosersStep == Inv /\ TypeOK' /\ [Next]_vars => Closers'
  <1> SUFFICES ASSUME Inv, TypeOK', [Next]_vars PROVE Closers'
    OBVIOUS
  <1> USE SessionAssumption DEF Inv, Typed, TypeOK, OwnCode, Objects, Calls, Go, registryVars,
          Closing, Marking, Registry, Builders, Closers, LiveStates
  <1>1. ASSUME NEW s \in Starts, StartRefused(s) PROVE Closers'
    BY <1>1 DEF StartRefused
  <1>2. ASSUME NEW s \in Starts, StartRegisters(s) PROVE Closers'
    BY <1>2 DEF StartRegisters, Register, Live
  <1>3. ASSUME NEW s \in Starts, Create(s) PROVE Closers'
    BY <1>3 DEF Create
  <1>4. ASSUME NEW s \in Starts, StartFailed(s) PROVE Closers'
    BY <1>4 DEF StartFailed
  <1>5. ASSUME NEW s \in Starts, StartActive(s) PROVE Closers'
    BY <1>5 DEF StartActive
  <1>6. ASSUME NEW s \in Starts, StartOvertaken(s) PROVE Closers'
    BY <1>6 DEF StartOvertaken
  <1>7. ASSUME NEW s \in Starts, Close(s, s) PROVE Closers'
    BY <1>7 DEF Close
  <1>8. ASSUME NEW s \in Starts, StartMarks(s) PROVE Closers'
    BY <1>8 DEF StartMarks, MarkClosed
  <1>9. ASSUME NEW t \in Stops, StopUnknown(t) PROVE Closers'
    BY <1>9 DEF StopUnknown, Tombstone
  <1>10. ASSUME NEW t \in Stops, StopClosed(t) PROVE Closers'
    BY <1>10 DEF StopClosed
  <1>11. ASSUME NEW t \in Stops, StopStarting(t) PROVE Closers'
    BY <1>11 DEF StopStarting
  <1>12. ASSUME NEW t \in Stops, StopActive(t) PROVE Closers'
    BY <1>12 DEF StopActive
  <1>13. ASSUME NEW t \in Stops, StopStopping(t) PROVE Closers'
    BY <1>13 DEF StopStopping
  <1>14. ASSUME NEW t \in Stops, pc[t] = "close", Close(t, target[t]) PROVE Closers'
    BY <1>14 DEF Close
  <1>15. ASSUME NEW t \in Stops, StopMarks(t) PROVE Closers'
    BY <1>15 DEF StopMarks, MarkClosed
  <1>16. ASSUME NEW t \in Stops, StopWaits(t) PROVE Closers'
    BY <1>16 DEF StopWaits
  <1>17. ASSUME NEW p \in Probes, BeginProbe(p) PROVE Closers'
    BY <1>17 DEF BeginProbe
  <1>18. ASSUME NEW p \in Probes, ProbeRefused(p) PROVE Closers'
    BY <1>18 DEF ProbeRefused
  <1>19. ASSUME NEW p \in Probes, EndProbe(p) PROVE Closers'
    BY <1>19 DEF EndProbe
  <1>20. CASE UNCHANGED vars
    BY <1>20 DEF vars
  <1> QED
    BY <1>1, <1>2, <1>3, <1>4, <1>5, <1>6, <1>7, <1>8, <1>9, <1>10,
       <1>11, <1>12, <1>13, <1>14, <1>15, <1>16, <1>17, <1>18, <1>19, <1>20
    DEF Next, StartStep, StopStep

\* Every step keeps what a waiting and a returned Stop rely on.
LEMMA WaitersStep == Inv /\ TypeOK' /\ [Next]_vars => Waiters'
  <1> SUFFICES ASSUME Inv, TypeOK', [Next]_vars PROVE Waiters'
    OBVIOUS
  <1> USE SessionAssumption DEF Inv, Typed, TypeOK, OwnCode, Objects, Calls, Go, registryVars,
          Closing, Marking, Return, Registry, Builders, Closers, Waiters, LiveStates
  <1>1. ASSUME NEW s \in Starts, StartRefused(s) PROVE Waiters'
    BY <1>1 DEF StartRefused
  <1>2. ASSUME NEW s \in Starts, StartRegisters(s) PROVE Waiters'
    BY <1>2 DEF StartRegisters, Register, Live
  <1>3. ASSUME NEW s \in Starts, Create(s) PROVE Waiters'
    BY <1>3 DEF Create
  <1>4. ASSUME NEW s \in Starts, StartFailed(s) PROVE Waiters'
    BY <1>4 DEF StartFailed
  <1>5. ASSUME NEW s \in Starts, StartActive(s) PROVE Waiters'
    BY <1>5 DEF StartActive
  <1>6. ASSUME NEW s \in Starts, StartOvertaken(s) PROVE Waiters'
    BY <1>6 DEF StartOvertaken
  <1>7. ASSUME NEW s \in Starts, Close(s, s) PROVE Waiters'
    BY <1>7 DEF Close
  <1>8. ASSUME NEW s \in Starts, StartMarks(s) PROVE Waiters'
    BY <1>8 DEF StartMarks, MarkClosed
  <1>9. ASSUME NEW t \in Stops, StopUnknown(t) PROVE Waiters'
    BY <1>9 DEF StopUnknown, Tombstone
  <1>10. ASSUME NEW t \in Stops, StopClosed(t) PROVE Waiters'
    BY <1>10 DEF StopClosed
  <1>11. ASSUME NEW t \in Stops, StopStarting(t) PROVE Waiters'
    BY <1>11 DEF StopStarting
  <1>12. ASSUME NEW t \in Stops, StopActive(t) PROVE Waiters'
    BY <1>12 DEF StopActive
  <1>13. ASSUME NEW t \in Stops, StopStopping(t) PROVE Waiters'
    BY <1>13 DEF StopStopping
  <1>14. ASSUME NEW t \in Stops, pc[t] = "close", Close(t, target[t]) PROVE Waiters'
    BY <1>14 DEF Close
  <1>15. ASSUME NEW t \in Stops, StopMarks(t) PROVE Waiters'
    BY <1>15 DEF StopMarks, MarkClosed
  <1>16. ASSUME NEW t \in Stops, StopWaits(t) PROVE Waiters'
    BY <1>16 DEF StopWaits
  <1>17. ASSUME NEW p \in Probes, BeginProbe(p) PROVE Waiters'
    BY <1>17 DEF BeginProbe
  <1>18. ASSUME NEW p \in Probes, ProbeRefused(p) PROVE Waiters'
    BY <1>18 DEF ProbeRefused
  <1>19. ASSUME NEW p \in Probes, EndProbe(p) PROVE Waiters'
    BY <1>19 DEF EndProbe
  <1>20. CASE UNCHANGED vars
    BY <1>20 DEF vars
  <1> QED
    BY <1>1, <1>2, <1>3, <1>4, <1>5, <1>6, <1>7, <1>8, <1>9, <1>10,
       <1>11, <1>12, <1>13, <1>14, <1>15, <1>16, <1>17, <1>18, <1>19, <1>20
    DEF Next, StartStep, StopStep

\* Types, and the four layers above, hold in every reachable state.
THEOREM InvHolds == Spec => []Inv
  <1>1. Init => Inv
    <2>1. Init => Typed
      BY TypeInit
    <2>2. Init => Registry /\ Builders /\ Closers /\ Waiters
      BY SessionAssumption
      DEF Init, Registry, Builders, Closers, Waiters, Objects, Calls, LiveStates,
          Closing, Marking
    <2> QED
      BY <2>1, <2>2 DEF Inv
  <1>2. Inv /\ [Next]_vars => Inv'
    BY TypeStep, OwnCodeStep, RegistryStep, BuildersStep, ClosersStep, WaitersStep
    DEF Inv, Typed
  <1> QED
    BY <1>1, <1>2, PTL DEF Spec

(***************************************************************************)
(* The properties.                                                         *)
(***************************************************************************)

\* The registry of sessions stays in its types.
THEOREM TypeCorrect == Spec => []TypeOK
  BY InvHolds, PTL DEF Inv, Typed

\* Serial semantics: two test instances are never being built or open at the
\* same time, whatever ids, and however many calls, there are.
THEOREM Serial == Spec => []OneInstance
  <1>1. Inv => OneInstance
    <2> SUFFICES ASSUME Inv PROVE OneInstance
      OBVIOUS
    <2>1. \A s \in Starts : Occupies(s) => state[s] \in LiveStates
      BY DEF Inv, Builders, Typed, TypeOK, Objects, Occupies, LiveStates
    <2> QED
      BY <2>1 DEF Inv, Registry, OneInstance
  <1> QED
    BY <1>1, InvHolds, PTL

\* A Stop that has answered has left no instance of its session behind.
THEOREM StopIsFinal == Spec => []StopReturnsAfterClose
  <1>1. Inv => StopReturnsAfterClose
    BY DEF Inv, Waiters, Builders, StopReturnsAfterClose, Occupies
  <1> QED
    BY <1>1, InvHolds, PTL

\* No test instance is leaked: the map leads to each open one, and while its
\* session goes down some call is still to close it.
THEOREM NothingLeaks == Spec => []NoOrphanInstance
  <1>1. Inv => NoOrphanInstance
    <2> SUFFICES ASSUME Inv, NEW s \in Starts, instance[s] = "open"
                 PROVE  /\ entry[id[s]] = s
                        /\ state[s] \in {"starting", "active", "stopping"}
                        /\ state[s] = "stopping" =>
                             \/ pc[s] \in {"created", "close"}
                             \/ \E t \in Stops : pc[t] = "close" /\ target[t] = s
      BY DEF NoOrphanInstance
    <2> USE DEF Inv, Typed, TypeOK, OwnCode, Objects, Calls, Builders, Closing, Marking
    <2>1. state[s] \in LiveStates
      BY DEF LiveStates
    <2>2. entry[id[s]] = s
      BY <2>1 DEF Registry
    <2>3. ASSUME state[s] = "stopping", pc[s] \notin {"created", "close"}
          PROVE  \E t \in Stops : pc[t] = "close" /\ target[t] = s
      <3>1. pc[s] = "done"
        BY <2>3 DEF Registry
      <3>2. PICK t \in Stops : pc[t] \in Closing /\ target[t] = s
        BY <2>3, <3>1 DEF Closers
      <3>3. pc[t] = "close"
        BY <3>2 DEF Closers
      <3> QED
        BY <3>2, <3>3
    <2> QED
      BY <2>1, <2>2, <2>3 DEF LiveStates
  <1> QED
    BY <1>1, InvHolds, PTL

\* An instance is closed once: the call on its way to close it finds it open,
\* and is the only one.
THEOREM ClosedOnce == Spec => []ClosedByOne
  <1>1. Inv => ClosedByOne
    BY SessionAssumption
    DEF Inv, Typed, TypeOK, OwnCode, Objects, Calls, Builders, Closers, Closing,
        Marking, ClosedByOne
  <1> QED
    BY <1>1, InvHolds, PTL

\* BeginProbe only hands out an open instance that nobody has begun to stop.
THEOREM ProbesWhole == Spec => ProbeGetsWholeInstance
  <1> DEFINE Whole == \A p \in Probes : pc[p] = "new" /\ pc'[p] = "probing" =>
                        instance[target'[p]] = "open" /\ target'[p] \notin cancelled
  <1>1. Inv /\ Inv' /\ [Next]_vars => [Whole]_vars
    <2> SUFFICES ASSUME Inv, [Next]_vars, NEW p \in Probes,
                        pc[p] = "new", pc'[p] = "probing"
                 PROVE  instance[target'[p]] = "open" /\ target'[p] \notin cancelled
      OBVIOUS
    <2>1. BeginProbe(p)
      <3> USE SessionAssumption DEF Inv, Typed, TypeOK, Objects, Calls, Go
      <3>1. ASSUME NEW c \in Calls, NEW to, to # "probing",
                   pc' = [pc EXCEPT ![c] = to]
            PROVE  FALSE
        BY <3>1
      <3>2. ~UNCHANGED vars
        BY DEF vars
      <3>3. ASSUME NEW s \in Starts,
                   StartRefused(s) \/ StartRegisters(s) \/ StartStep(s)
            PROVE  FALSE
        BY <3>1, <3>3
        DEF StartStep, StartRefused, StartRegisters, Register, Create, StartFailed,
            StartActive, StartOvertaken, Close, StartMarks
      <3>4. ASSUME NEW t \in Stops,
                   \/ StopUnknown(t) \/ StopClosed(t) \/ StopStarting(t)
                   \/ StopActive(t) \/ StopStopping(t) \/ StopStep(t)
            PROVE  FALSE
        BY <3>1, <3>4
        DEF StopStep, StopUnknown, StopClosed, StopStarting, StopActive,
            StopStopping, StopMarks, StopWaits, Close
      <3>5. ASSUME NEW q \in Probes, ProbeRefused(q) \/ EndProbe(q)
            PROVE  FALSE
        BY <3>1, <3>5 DEF ProbeRefused, EndProbe
      <3>6. ASSUME NEW q \in Probes, BeginProbe(q)
            PROVE  q = p
        BY <3>6 DEF BeginProbe
      <3> QED
        BY <3>2, <3>3, <3>4, <3>5, <3>6 DEF Next
    <2>2. /\ target'[p] = entry[id[p]] /\ entry[id[p]] \in Objects
          /\ state[entry[id[p]]] = "active"
      BY <2>1, SessionAssumption
      DEF BeginProbe, CanProbe, Inv, Typed, TypeOK, Objects, Calls
    <2> QED
      BY <2>2 DEF Inv, Typed, OwnCode, Builders, Objects
  <1> QED
    BY <1>1, InvHolds, PTL DEF Spec, ProbeGetsWholeInstance

================================================================================
