------------------------- MODULE VpnLifecycle_proofs -------------------------
(***************************************************************************)
(* Proofs about VpnLifecycle, for any profiles and any number of Wants,    *)
(* cuts and network changes.                                               *)
(*                                                                         *)
(* The invariant, in layers:                                               *)
(*   Typed      the variables                                              *)
(*   Counted    generations do not run out                                 *)
(*   Runners    runs start in order, and somebody answers for `starting'   *)
(*   Line       who waits for the shared teardown, or resumes after it     *)
(*   Named      no run is without a profile                                *)
(*   Fresh      no session stands while the last run builds one            *)
(*   Meant      the last run builds what was asked for last                *)
(*   Cuts       a cut takes its generation away from the runs              *)
(*   Ahead      a session is of the latest profile, or is about to go      *)
(*   Accepted   only runs that came to the kernel have an answer of it     *)
(*   Sleepers   a run that switches waits while the session stands         *)
(*   Resolves   a start that resolves is of the running kernel             *)
(*   Kernel     a session that stands has its kernel                       *)
(*                                                                         *)
(* Without disconnects and network resets (MaxCuts = MaxNets = 0) further  *)
(* layers follow:                                                          *)
(*   Alone        one run at a time, and the teardown is its own           *)
(*   KernelOwned  a kernel is that of the session or of the run            *)
(*   Built        config and tunnel are those of the run that builds       *)
(*   Session      tunnel, profile and kernel are of one run                *)
(*   Told         what is published and kept for the UI process            *)
(***************************************************************************)
EXTENDS VpnLifecycle, TLAPS

(***************************************************************************)
(* Lines of coroutines.                                                    *)
(***************************************************************************)

Members(s) == {s[i] : i \in 1..Len(s)}
Distinct(s) == \A i, j \in 1..Len(s) : s[i] = s[j] => i = j

LEMMA NoMembers == Members(<<>>) = {} /\ Distinct(<<>>)
  BY DEF Members, Distinct

LEMMA OneMember ==
    ASSUME NEW t
    PROVE  Members(<<t>>) = {t} /\ Distinct(<<t>>) /\ <<t>> # <<>>
  BY DEF Members, Distinct

LEMMA SomeMember ==
    ASSUME NEW T, NEW s \in Seq(T), NEW t \in Members(s)
    PROVE  s # <<>>
  BY DEF Members

LEMMA JoinNobody ==
    ASSUME NEW T, NEW s \in Seq(T)
    PROVE  s \o <<>> = s
  OBVIOUS

LEMMA JoinOne ==
    ASSUME NEW T, NEW s \in Seq(T), NEW t \in T
    PROVE  /\ s \o <<t>> \in Seq(T)
           /\ Members(s \o <<t>>) = Members(s) \cup {t}
           /\ Distinct(s) /\ t \notin Members(s) => Distinct(s \o <<t>>)
  <1> DEFINE u == s \o <<t>>
  <1>1. /\ u \in Seq(T) /\ Len(s) \in Nat /\ Len(u) = Len(s) + 1 /\ u[Len(s) + 1] = t
        /\ \A i \in 1..Len(s) : u[i] = s[i]
    OBVIOUS
  <1> HIDE DEF u
  <1>2. \A i \in 1..Len(u) : i \in 1..Len(s) \/ i = Len(s) + 1
    BY <1>1
  <1>3. 1..Len(s) \subseteq 1..Len(u) /\ Len(s) + 1 \in 1..Len(u)
    BY <1>1
  <1>4. Members(u) = Members(s) \cup {t}
    BY <1>1, <1>2, <1>3 DEF Members
  <1>5. ASSUME Distinct(s), t \notin Members(s) PROVE Distinct(u)
    BY <1>1, <1>2, <1>5 DEF Members, Distinct
  <1> QED
    BY <1>1, <1>4, <1>5 DEF u

LEMMA TakeHead ==
    ASSUME NEW T, NEW s \in Seq(T), s # <<>>
    PROVE  /\ Tail(s) \in Seq(T) /\ Head(s) \in T /\ Head(s) \in Members(s)
           /\ Distinct(s) => /\ Distinct(Tail(s))
                             /\ Members(Tail(s)) = Members(s) \ {Head(s)}
  <1> DEFINE u == Tail(s)
  <1>1. /\ u \in Seq(T) /\ Len(s) \in Nat \ {0} /\ Len(u) = Len(s) - 1
        /\ \A i \in 1..Len(u) : u[i] = s[i + 1]
        /\ Head(s) = s[1] /\ s[1] \in T
    OBVIOUS
  <1> HIDE DEF u
  <1>2. 1 \in 1..Len(s)
    BY <1>1
  <1>3. Head(s) \in Members(s)
    BY <1>1, <1>2 DEF Members
  <1>4. \A i \in 1..Len(u) : i + 1 \in 1..Len(s) /\ i + 1 # 1
    BY <1>1
  <1>5. \A i \in 1..Len(s) : i = 1 \/ (i - 1 \in 1..Len(u) /\ (i - 1) + 1 = i)
    BY <1>1
  <1>6. ASSUME Distinct(s) PROVE Distinct(u)
    BY <1>1, <1>4, <1>6 DEF Distinct
  <1>7. ASSUME Distinct(s) PROVE Members(u) = Members(s) \ {Head(s)}
    <2>1. ASSUME NEW x \in Members(u) PROVE x \in Members(s) \ {Head(s)}
      <3>1. PICK i \in 1..Len(u) : x = u[i]
        BY DEF Members
      <3>2. x = s[i + 1] /\ i + 1 \in 1..Len(s) /\ i + 1 # 1
        BY <1>1, <1>4, <3>1
      <3> QED
        BY <3>2, <1>1, <1>2, <1>7 DEF Members, Distinct
    <2>2. ASSUME NEW x \in Members(s), x # Head(s) PROVE x \in Members(u)
      <3>1. PICK i \in 1..Len(s) : x = s[i]
        BY DEF Members
      <3>2. i - 1 \in 1..Len(u) /\ u[i - 1] = x
        BY <1>1, <1>5, <2>2, <3>1
      <3> QED
        BY <3>2 DEF Members
    <2> QED
      BY <2>1, <2>2
  <1> QED
    BY <1>1, <1>3, <1>6, <1>7 DEF u

LEMMA Tokens ==
    /\ \A r, q : RunToken(r) = RunToken(q) => r = q
    /\ \A r : RunToken(r) # NetToken
  BY DEF RunToken, NetToken

(***************************************************************************)
(* The variables.                                                          *)
(***************************************************************************)

Token == {RunToken(r) : r \in Runs} \cup {NetToken}
Place == {"new", "refresh", "decide", "replay", "switch", "load", "write",
          "gate", "clean", "auth", "protect", "core", "record", "announce",
          "clear", "failed", "rollback", "done"}

TypedFields ==
    /\ started \in BOOLEAN /\ starting \in BOOLEAN /\ restartRequested \in BOOLEAN
    /\ currentRunId \in Profiles \cup {None}
    /\ lifecycleGeneration \in Runs \cup {0}
    /\ latestRequested \in Profiles \cup {None} /\ forceRestart \in BOOLEAN
    /\ netListening \in BOOLEAN /\ pendingPref \in Profiles \cup {None}
    /\ runningPref \in Profiles \cup {None}
    /\ status.profile \in Profiles \cup {None}
    /\ netPc \in {"idle", "timer", "down"}
    /\ wants \in 0..MaxWants /\ cuts \in 0..MaxCuts /\ nets \in 0..MaxNets
    /\ lastCut \in 0..lifecycleGeneration

TypedWorld ==
    /\ saved \in 1..(MaxSaves + 1) /\ cache \in 1..saved
    /\ connection \in BOOLEAN /\ tunnel \in Runs \cup {None}
    /\ pinned \in Runs \cup {None} /\ configFile \in Runs \cup {None}
    /\ core \in {"stopped", "starting", "running", "stopping"}
    /\ coreRun \in Runs \cup {None} /\ coreConf \in Runs \cup {None}
    /\ coreCancelled \in BOOLEAN
    /\ tdPc \in {"idle", "stop", "destroy", "persist"}
    /\ tdSilent \in BOOLEAN /\ tdStopped \in BOOLEAN

TypedRuns ==
    /\ pc \in [Runs -> Place]
    /\ target \in [Runs -> Profiles \cup {None}]
    /\ rev \in [Runs -> 0..(MaxSaves + 1)]
    /\ startReply \in [Runs -> {"none", "ok", "err"}]
    /\ callers = [r \in Runs |-> <<>>]
    /\ waiters \in Seq(Token) /\ micro \in Seq(Token)

Typed == TypedFields /\ TypedWorld /\ TypedRuns

\* Each call of tryStart that is still owed has a generation left.
RestartOwed == IF restartRequested THEN 1 ELSE 0
ResetOwed == IF netPc = "idle" THEN 0 ELSE 1
Counted ==
    lifecycleGeneration + RestartOwed + ResetOwed
        <= wants + cuts + nets

LEMMA RunNumbers ==
    /\ MaxWants \in Nat /\ MaxCuts \in Nat /\ MaxNets \in Nat
    /\ MaxApplies \in Nat /\ MaxSaves \in Nat /\ Runs \subseteq Nat \ {0}
    /\ None \notin Runs /\ None \notin Profiles
  BY LifecycleAssumption DEF Runs

\* The next generation is that of a run.
LEMMA Room ==
    ASSUME Typed, Counted,
           \/ restartRequested \/ netPc # "idle"
           \/ wants < MaxWants \/ cuts < MaxCuts
    PROVE  lifecycleGeneration + 1 \in Runs
  <1>1. /\ lifecycleGeneration \in Nat /\ restartRequested \in BOOLEAN
        /\ wants \in 0..MaxWants /\ cuts \in 0..MaxCuts /\ nets \in 0..MaxNets
    BY RunNumbers DEF Typed, TypedFields
  <1>2. lifecycleGeneration + 1 <= MaxWants + MaxCuts + MaxNets
    <2>1. CASE restartRequested \/ netPc # "idle"
      BY <1>1, <2>1, RunNumbers DEF Counted, RestartOwed, ResetOwed
    <2>2. CASE wants < MaxWants \/ cuts < MaxCuts
      BY <1>1, <2>2, RunNumbers DEF Counted, RestartOwed, ResetOwed
    <2> QED
      BY <2>1, <2>2
  <1> QED
    BY <1>1, <1>2, RunNumbers DEF Runs

\* The shapes of a step: a run ends, a tryStart is called, the teardown is.
LEMMA EndTyped ==
    ASSUME Typed, Counted, NEW r \in Runs, NEW queue \in Seq(Token),
           Finally(r, queue)
    PROVE  /\ starting' \in BOOLEAN /\ restartRequested' \in BOOLEAN
           /\ lifecycleGeneration' \in Runs \cup {0}
           /\ lifecycleGeneration <= lifecycleGeneration'
           /\ lifecycleGeneration' + RestartOwed'
                  <= lifecycleGeneration + RestartOwed
           /\ pc' \in [Runs -> Place] /\ callers' = callers
           /\ micro' = queue
  <1>1. /\ lifecycleGeneration \in Nat /\ restartRequested \in BOOLEAN
        /\ lifecycleGeneration \in Runs \cup {0}
        /\ pc \in [Runs -> Place] /\ callers = [q \in Runs |-> <<>>]
    BY RunNumbers DEF Typed, TypedFields, TypedRuns
  <1>2. micro' = queue
    <2>1. callers[r] = <<>> /\ micro' = queue \o callers[r]
      BY <1>1 DEF Finally, End
    <2> QED
      BY <2>1, JoinNobody
  <1>3. CASE restartRequested
    <2>1. lifecycleGeneration + 1 \in Runs
      BY <1>3, Room
    <2>2. /\ starting' = TRUE /\ restartRequested' = FALSE
          /\ lifecycleGeneration' = lifecycleGeneration + 1
          /\ pc' = [pc EXCEPT ![r] = "done", ![lifecycleGeneration + 1] = "refresh"]
          /\ callers' = [callers EXCEPT ![lifecycleGeneration + 1] = <<>>]
      BY <1>3 DEF Finally, End
    <2>3. callers' = callers
      BY <1>1, <2>1, <2>2
    <2>4. pc' \in [Runs -> Place]
      BY <1>1, <2>1, <2>2 DEF Place
    <2>5. RestartOwed = 1 /\ RestartOwed' = 0
      BY <1>3, <2>2 DEF RestartOwed
    <2>6. starting' \in BOOLEAN /\ restartRequested' \in BOOLEAN
      BY <2>2
    <2>7. /\ lifecycleGeneration' \in Runs \cup {0}
          /\ lifecycleGeneration <= lifecycleGeneration'
          /\ lifecycleGeneration' + RestartOwed' <= lifecycleGeneration + RestartOwed
      BY <1>1, <2>1, <2>2, <2>5
    <2> QED
      BY <1>2, <2>3, <2>4, <2>6, <2>7
  <1>4. CASE ~restartRequested
    <2>1. /\ starting' = FALSE /\ restartRequested' = FALSE
          /\ lifecycleGeneration' = lifecycleGeneration
          /\ pc' = [pc EXCEPT ![r] = "done"]
          /\ callers' = callers
      BY <1>4 DEF Finally, End
    <2>2. RestartOwed = 0 /\ RestartOwed' = 0
      BY <1>4, <2>1 DEF RestartOwed
    <2>3. pc' \in [Runs -> Place]
      BY <1>1, <2>1 DEF Place
    <2>4. starting' \in BOOLEAN /\ restartRequested' \in BOOLEAN
      BY <2>1
    <2>5. /\ lifecycleGeneration' \in Runs \cup {0}
          /\ lifecycleGeneration <= lifecycleGeneration'
          /\ lifecycleGeneration' + RestartOwed' <= lifecycleGeneration + RestartOwed
      BY <1>1, <2>1, <2>2
    <2> QED
      BY <1>2, <2>1, <2>3, <2>4, <2>5
  <1> QED
    BY <1>3, <1>4

LEMMA EnterTyped ==
    ASSUME Typed, Counted, wants < MaxWants \/ netPc = "down", Enter(pc, <<>>)
    PROVE  /\ starting' \in BOOLEAN /\ restartRequested' \in BOOLEAN
           /\ lifecycleGeneration' \in Runs \cup {0}
           /\ lifecycleGeneration <= lifecycleGeneration'
           /\ lifecycleGeneration' + RestartOwed'
                  <= lifecycleGeneration + RestartOwed + 1
           /\ pc' \in [Runs -> Place] /\ callers' = callers
  <1>1. /\ lifecycleGeneration \in Nat /\ restartRequested \in BOOLEAN
        /\ lifecycleGeneration \in Runs \cup {0} /\ starting \in BOOLEAN
        /\ pc \in [Runs -> Place] /\ callers = [q \in Runs |-> <<>>]
    BY RunNumbers DEF Typed, TypedFields, TypedRuns
  <1>2. CASE starting
    BY <1>1, <1>2 DEF Enter, EnterUnless, RestartOwed
  <1>3. CASE ~starting
    <2>1. lifecycleGeneration + 1 \in Runs
      BY Room
    <2>2. /\ starting' = TRUE /\ restartRequested' = FALSE
          /\ lifecycleGeneration' = lifecycleGeneration + 1
          /\ pc' = [pc EXCEPT ![lifecycleGeneration + 1] = "refresh"]
          /\ callers' = [callers EXCEPT ![lifecycleGeneration + 1] = <<>>]
      BY <1>3 DEF Enter, EnterUnless
    <2>3. callers' = callers
      BY <1>1, <2>1, <2>2
    <2>4. RestartOwed \in Nat /\ RestartOwed' = 0
      BY <1>1, <2>2 DEF RestartOwed
    <2>5. pc' \in [Runs -> Place]
      BY <1>1, <2>1, <2>2 DEF Place
    <2>6. starting' \in BOOLEAN /\ restartRequested' \in BOOLEAN
      BY <2>2
    <2>7. /\ lifecycleGeneration' \in Runs \cup {0}
          /\ lifecycleGeneration <= lifecycleGeneration'
          /\ lifecycleGeneration' + RestartOwed' <= lifecycleGeneration + RestartOwed + 1
      BY <1>1, <2>1, <2>2, <2>4
    <2> QED
      BY <2>3, <2>5, <2>6, <2>7
  <1> QED
    BY <1>2, <1>3

LEMMA TeardownTyped ==
    ASSUME Typed, NEW silent \in BOOLEAN, NEW tokens,
           tokens = <<>> \/ \E t \in Token : tokens = <<t>>,
           Teardown(silent, tokens)
    PROVE  /\ tdPc' \in {"stop", "destroy", "persist"}
           /\ tdSilent' \in BOOLEAN /\ tdStopped' \in BOOLEAN
           /\ waiters' \in Seq(Token)
           /\ core' \in {"stopped", "starting", "running", "stopping"}
           /\ coreCancelled' \in BOOLEAN
           /\ coreRun' = coreRun /\ coreConf' = coreConf /\ startReply' = startReply
  <1>1. /\ tdPc \in {"idle", "stop", "destroy", "persist"}
        /\ tdSilent \in BOOLEAN /\ tdStopped \in BOOLEAN
        /\ waiters \in Seq(Token)
        /\ core \in {"stopped", "starting", "running", "stopping"}
        /\ coreCancelled \in BOOLEAN
    BY DEF Typed, TypedWorld, TypedRuns
  <1>2. tokens \in Seq(Token)
    <2>1. CASE tokens = <<>>
      BY <2>1
    <2>2. ASSUME NEW t \in Token, tokens = <<t>> PROVE tokens \in Seq(Token)
      BY <2>2
    <2> QED
      BY <2>1, <2>2
  <1>3. CASE tdPc # "idle"
    <2>1. waiters' = waiters \o tokens /\ UNCHANGED <<tdPc, tdSilent, tdStopped, coreVars>>
      BY <1>3 DEF Teardown
    <2> QED
      BY <1>1, <1>2, <1>3, <2>1 DEF coreVars
  <1>4. CASE tdPc = "idle"
    <2>1. /\ tdPc' = "stop" /\ tdSilent' = silent /\ waiters' = tokens
          /\ core' = IF core = "running" THEN "stopping" ELSE core
          /\ UNCHANGED <<coreRun, coreConf, startReply>>
      BY <1>4 DEF Teardown
    <2>2. tdStopped' \in BOOLEAN /\ coreCancelled' \in BOOLEAN
      BY <1>4, ZenonT(20) DEF Teardown
    <2> QED
      BY <1>1, <1>2, <2>1, <2>2
  <1> QED
    BY <1>3, <1>4

LEMMA TypedFrame ==
    ASSUME Typed, Counted, UNCHANGED vars
    PROVE  Typed' /\ Counted'
  <1> USE DEF vars, fieldVars, requestVars, storeVars, platformVars, coreVars,
              teardownVars, runVars, jobVars, inputVars
  <1>1. TypedFields'
    BY DEF Typed, TypedFields
  <1>2. TypedWorld'
    BY DEF Typed, TypedWorld
  <1>3. TypedRuns'
    BY DEF Typed, TypedRuns
  <1>4. Counted'
    BY DEF Counted, RestartOwed, ResetOwed
  <1> QED
    BY <1>1, <1>2, <1>3, <1>4 DEF Typed

LEMMA RefreshTyped ==
    ASSUME Typed, Counted, NEW r \in Runs, Refresh(r)
    PROVE  Typed' /\ Counted'
  <1> USE RunNumbers DEF Refresh, At, Move,
         fieldVars, requestVars, storeVars, platformVars, coreVars, teardownVars, runVars,
         jobVars, inputVars
  <1>1. TypedFields'
    BY DEF Typed, TypedFields, TypedRuns
  <1>2. TypedWorld'
    BY DEF Typed, TypedWorld
  <1>3. TypedRuns'
    BY DEF Typed, TypedFields, TypedWorld, TypedRuns, Place
  <1>4. Counted'
    BY DEF Counted, RestartOwed, ResetOwed, Typed, TypedFields
  <1> QED
    BY <1>1, <1>2, <1>3, <1>4 DEF Typed

LEMMA ThrowTyped ==
    ASSUME Typed, Counted, NEW r \in Runs, Throw(r)
    PROVE  Typed' /\ Counted'
  <1> USE RunNumbers DEF Throw, Move, StartVpnFrame,
         fieldVars, requestVars, storeVars, platformVars, coreVars, teardownVars, runVars,
         jobVars, inputVars
  <1>1. TypedFields'
    BY DEF Typed, TypedFields, TypedRuns
  <1>2. TypedWorld'
    BY DEF Typed, TypedWorld
  <1>3. TypedRuns'
    BY DEF Typed, TypedFields, TypedWorld, TypedRuns, Place
  <1>4. Counted'
    BY DEF Counted, RestartOwed, ResetOwed, Typed, TypedFields
  <1> QED
    BY <1>1, <1>2, <1>3, <1>4 DEF Typed

LEMMA LoadTyped ==
    ASSUME Typed, Counted, NEW r \in Runs, Load(r)
    PROVE  Typed' /\ Counted'
  <1> USE RunNumbers DEF Load, At, Move, StartVpnFrame,
         fieldVars, requestVars, storeVars, platformVars, coreVars, teardownVars, runVars,
         jobVars, inputVars
  <1>1. TypedFields'
    BY DEF Typed, TypedFields, TypedRuns
  <1>2. TypedWorld'
    BY DEF Typed, TypedWorld
  <1>3. TypedRuns'
    BY DEF Typed, TypedFields, TypedWorld, TypedRuns, Place
  <1>4. Counted'
    BY DEF Counted, RestartOwed, ResetOwed, Typed, TypedFields
  <1> QED
    BY <1>1, <1>2, <1>3, <1>4 DEF Typed

LEMMA WriteTyped ==
    ASSUME Typed, Counted, NEW r \in Runs, Write(r)
    PROVE  Typed' /\ Counted'
  <1> USE RunNumbers DEF Write, WriteAs, At, Move, StartVpnFrame,
         fieldVars, requestVars, storeVars, platformVars, coreVars, teardownVars, runVars,
         jobVars, inputVars
  <1>1. TypedFields'
    BY DEF Typed, TypedFields, TypedRuns
  <1>2. TypedWorld'
    BY DEF Typed, TypedWorld
  <1>3. TypedRuns'
    BY DEF Typed, TypedFields, TypedWorld, TypedRuns, Place
  <1>4. Counted'
    BY DEF Counted, RestartOwed, ResetOwed, Typed, TypedFields
  <1> QED
    BY <1>1, <1>2, <1>3, <1>4 DEF Typed

LEMMA GateTyped ==
    ASSUME Typed, Counted, NEW r \in Runs, Gate(r)
    PROVE  Typed' /\ Counted'
  <1> USE RunNumbers DEF Gate, At, Move, StartVpnFrame, Publish,
         fieldVars, requestVars, storeVars, platformVars, coreVars, teardownVars, runVars,
         jobVars, inputVars
  <1>1. TypedFields'
    BY DEF Typed, TypedFields, TypedRuns
  <1>2. TypedWorld'
    BY DEF Typed, TypedWorld
  <1>3. TypedRuns'
    BY DEF Typed, TypedFields, TypedWorld, TypedRuns, Place
  <1>4. Counted'
    BY DEF Counted, RestartOwed, ResetOwed, Typed, TypedFields
  <1> QED
    BY <1>1, <1>2, <1>3, <1>4 DEF Typed

LEMMA CleanTyped ==
    ASSUME Typed, Counted, NEW r \in Runs, Clean(r)
    PROVE  Typed' /\ Counted'
  <1> USE RunNumbers DEF Clean, At, Move, StartVpnFrame, Publish,
         fieldVars, requestVars, storeVars, platformVars, coreVars, teardownVars, runVars,
         jobVars, inputVars
  <1>1. TypedFields'
    BY DEF Typed, TypedFields, TypedRuns
  <1>2. TypedWorld'
    BY DEF Typed, TypedWorld
  <1>3. TypedRuns'
    BY DEF Typed, TypedFields, TypedWorld, TypedRuns, Place
  <1>4. Counted'
    BY DEF Counted, RestartOwed, ResetOwed, Typed, TypedFields
  <1> QED
    BY <1>1, <1>2, <1>3, <1>4 DEF Typed

LEMMA AuthTyped ==
    ASSUME Typed, Counted, NEW r \in Runs, Auth(r)
    PROVE  Typed' /\ Counted'
  <1> USE RunNumbers DEF Auth, At, Move, StartVpnFrame,
         fieldVars, requestVars, storeVars, platformVars, coreVars, teardownVars, runVars,
         jobVars, inputVars
  <1>1. TypedFields'
    BY DEF Typed, TypedFields, TypedRuns
  <1>2. TypedWorld'
    BY DEF Typed, TypedWorld
  <1>3. TypedRuns'
    BY DEF Typed, TypedFields, TypedWorld, TypedRuns, Place
  <1>4. Counted'
    BY DEF Counted, RestartOwed, ResetOwed, Typed, TypedFields
  <1> QED
    BY <1>1, <1>2, <1>3, <1>4 DEF Typed

LEMMA ProtectTyped ==
    ASSUME Typed, Counted, NEW r \in Runs, Protect(r)
    PROVE  Typed' /\ Counted'
  <1>1. /\ pc' = [pc EXCEPT ![r] = "core"] \/ pc' = [pc EXCEPT ![r] = "failed"]
        /\ core' \in {"starting", core} /\ coreRun' \in {r, coreRun}
        /\ coreCancelled' = FALSE \/ coreCancelled' = coreCancelled
        /\ UNCHANGED <<started, currentRunId, coreConf, startReply, platformVars,
                       jobVars, status>>
        /\ UNCHANGED <<starting, lifecycleGeneration, restartRequested, requestVars,
                       storeVars, teardownVars, callers, netPc, micro, inputVars>>
    BY DEF Protect, Move, StartVpnFrame
  <1>2. UNCHANGED <<started, starting, currentRunId, lifecycleGeneration,
                    restartRequested, latestRequested, forceRestart, netListening,
                    pendingPref, runningPref, status, netPc, wants, cuts, nets, lastCut>>
    BY <1>1 DEF requestVars, inputVars, jobVars
  <1>3. TypedFields' /\ Counted'
    BY <1>2 DEF Typed, TypedFields, Counted, RestartOwed, ResetOwed
  <1>4. TypedWorld'
    <2>1. UNCHANGED <<saved, cache, connection, tunnel, pinned, configFile, coreConf,
                      tdPc, tdSilent, tdStopped>>
      BY <1>1 DEF storeVars, platformVars, jobVars, teardownVars
    <2>2. /\ core' \in {"stopped", "starting", "running", "stopping"}
          /\ coreRun' \in Runs \cup {None}
      BY <1>1 DEF Typed, TypedWorld
    <2>3. coreCancelled' \in BOOLEAN
      BY <1>1 DEF Typed, TypedWorld
    <2> QED
      BY <2>1, <2>2, <2>3 DEF Typed, TypedWorld
  <1>5. TypedRuns'
    BY <1>1 DEF Typed, TypedRuns, Place, jobVars, teardownVars
  <1> QED
    BY <1>3, <1>4, <1>5 DEF Typed

LEMMA CoreRejectedTyped ==
    ASSUME Typed, Counted, NEW r \in Runs, CoreRejected(r)
    PROVE  Typed' /\ Counted'
  <1> USE RunNumbers DEF CoreRejected, At, Move, StartVpnFrame,
         fieldVars, requestVars, storeVars, platformVars, coreVars, teardownVars, runVars,
         jobVars, inputVars
  <1>1. TypedFields'
    BY DEF Typed, TypedFields, TypedRuns
  <1>2. TypedWorld'
    BY DEF Typed, TypedWorld
  <1>3. TypedRuns'
    BY DEF Typed, TypedFields, TypedWorld, TypedRuns, Place
  <1>4. Counted'
    BY DEF Counted, RestartOwed, ResetOwed, Typed, TypedFields
  <1> QED
    BY <1>1, <1>2, <1>3, <1>4 DEF Typed

LEMMA RecordTyped ==
    ASSUME Typed, Counted, NEW r \in Runs, Record(r)
    PROVE  Typed' /\ Counted'
  <1> USE RunNumbers DEF Record, At, Move, StartVpnFrame,
         fieldVars, requestVars, storeVars, platformVars, coreVars, teardownVars, runVars,
         jobVars, inputVars
  <1>1. TypedFields'
    BY DEF Typed, TypedFields, TypedRuns
  <1>2. TypedWorld'
    BY DEF Typed, TypedWorld
  <1>3. TypedRuns'
    BY DEF Typed, TypedFields, TypedWorld, TypedRuns, Place
  <1>4. Counted'
    BY DEF Counted, RestartOwed, ResetOwed, Typed, TypedFields
  <1> QED
    BY <1>1, <1>2, <1>3, <1>4 DEF Typed

LEMMA AnnounceTyped ==
    ASSUME Typed, Counted, NEW r \in Runs, Announce(r)
    PROVE  Typed' /\ Counted'
  <1> USE RunNumbers DEF Announce, At, Move, StartVpnFrame, Publish,
         fieldVars, requestVars, storeVars, platformVars, coreVars, teardownVars, runVars,
         jobVars, inputVars
  <1>1. TypedFields'
    BY DEF Typed, TypedFields, TypedRuns
  <1>2. TypedWorld'
    BY DEF Typed, TypedWorld
  <1>3. TypedRuns'
    BY DEF Typed, TypedFields, TypedWorld, TypedRuns, Place
  <1>4. Counted'
    BY DEF Counted, RestartOwed, ResetOwed, Typed, TypedFields
  <1> QED
    BY <1>1, <1>2, <1>3, <1>4 DEF Typed

LEMMA TdStoppedTyped ==
    ASSUME Typed, Counted, TdStopped
    PROVE  Typed' /\ Counted'
  <1> USE RunNumbers DEF TdStopped, Unpin,
         fieldVars, requestVars, storeVars, platformVars, coreVars, teardownVars, runVars,
         jobVars, inputVars
  <1>1. TypedFields'
    BY DEF Typed, TypedFields, TypedRuns
  <1>2. TypedWorld'
    BY DEF Typed, TypedWorld
  <1>3. TypedRuns'
    BY DEF Typed, TypedFields, TypedWorld, TypedRuns, Place
  <1>4. Counted'
    BY DEF Counted, RestartOwed, ResetOwed, Typed, TypedFields
  <1> QED
    BY <1>1, <1>2, <1>3, <1>4 DEF Typed

LEMMA TdDestroyedTyped ==
    ASSUME Typed, Counted, TdDestroyed
    PROVE  Typed' /\ Counted'
  <1> USE RunNumbers DEF TdDestroyed,
         fieldVars, requestVars, storeVars, platformVars, coreVars, teardownVars, runVars,
         jobVars, inputVars
  <1>1. TypedFields'
    BY DEF Typed, TypedFields, TypedRuns
  <1>2. TypedWorld'
    BY DEF Typed, TypedWorld
  <1>3. TypedRuns'
    BY DEF Typed, TypedFields, TypedWorld, TypedRuns, Place
  <1>4. Counted'
    BY DEF Counted, RestartOwed, ResetOwed, Typed, TypedFields
  <1> QED
    BY <1>1, <1>2, <1>3, <1>4 DEF Typed

LEMMA CoreUpTyped ==
    ASSUME Typed, Counted, CoreUp
    PROVE  Typed' /\ Counted'
  <1> USE RunNumbers DEF CoreUp, CoreFrame,
         fieldVars, requestVars, storeVars, platformVars, coreVars, teardownVars, runVars,
         jobVars, inputVars
  <1>1. TypedFields'
    BY DEF Typed, TypedFields, TypedRuns
  <1>2. TypedWorld'
    BY DEF Typed, TypedWorld
  <1>3. TypedRuns'
    BY DEF Typed, TypedFields, TypedWorld, TypedRuns, Place
  <1>4. Counted'
    BY DEF Counted, RestartOwed, ResetOwed, Typed, TypedFields
  <1> QED
    BY <1>1, <1>2, <1>3, <1>4 DEF Typed

LEMMA CoreNotUpTyped ==
    ASSUME Typed, Counted, CoreNotUp
    PROVE  Typed' /\ Counted'
  <1> USE RunNumbers DEF CoreNotUp, CoreFrame,
         fieldVars, requestVars, storeVars, platformVars, coreVars, teardownVars, runVars,
         jobVars, inputVars
  <1>1. TypedFields'
    BY DEF Typed, TypedFields, TypedRuns
  <1>2. TypedWorld'
    BY DEF Typed, TypedWorld
  <1>3. TypedRuns'
    BY DEF Typed, TypedFields, TypedWorld, TypedRuns, Place
  <1>4. Counted'
    BY DEF Counted, RestartOwed, ResetOwed, Typed, TypedFields
  <1> QED
    BY <1>1, <1>2, <1>3, <1>4 DEF Typed

LEMMA CoreDownTyped ==
    ASSUME Typed, Counted, CoreDown
    PROVE  Typed' /\ Counted'
  <1> USE RunNumbers DEF CoreDown, CoreFrame,
         fieldVars, requestVars, storeVars, platformVars, coreVars, teardownVars, runVars,
         jobVars, inputVars
  <1>1. TypedFields'
    BY DEF Typed, TypedFields, TypedRuns
  <1>2. TypedWorld'
    BY DEF Typed, TypedWorld
  <1>3. TypedRuns'
    BY DEF Typed, TypedFields, TypedWorld, TypedRuns, Place
  <1>4. Counted'
    BY DEF Counted, RestartOwed, ResetOwed, Typed, TypedFields
  <1> QED
    BY <1>1, <1>2, <1>3, <1>4 DEF Typed

LEMMA NetChangeTyped ==
    ASSUME Typed, Counted, NetChange
    PROVE  Typed' /\ Counted'
  <1> USE RunNumbers DEF NetChange,
         fieldVars, requestVars, storeVars, platformVars, coreVars, teardownVars, runVars,
         jobVars, inputVars
  <1>1. TypedFields'
    BY DEF Typed, TypedFields, TypedRuns
  <1>2. TypedWorld'
    BY DEF Typed, TypedWorld
  <1>3. TypedRuns'
    BY DEF Typed, TypedFields, TypedWorld, TypedRuns, Place
  <1>4. Counted'
    BY DEF Counted, RestartOwed, ResetOwed, Typed, TypedFields
  <1> QED
    BY <1>1, <1>2, <1>3, <1>4 DEF Typed

LEMMA SaveTyped ==
    ASSUME Typed, Counted, Save
    PROVE  Typed' /\ Counted'
  <1> USE RunNumbers DEF Save,
         fieldVars, requestVars, storeVars, platformVars, coreVars, teardownVars, runVars,
         jobVars, inputVars
  <1>1. TypedFields'
    BY DEF Typed, TypedFields, TypedRuns
  <1>2. TypedWorld'
    BY DEF Typed, TypedWorld
  <1>3. TypedRuns'
    BY DEF Typed, TypedFields, TypedWorld, TypedRuns, Place
  <1>4. Counted'
    BY DEF Counted, RestartOwed, ResetOwed, Typed, TypedFields
  <1> QED
    BY <1>1, <1>2, <1>3, <1>4 DEF Typed

LEMMA TdPersistedTyped ==
    ASSUME Typed, Counted, TdPersisted
    PROVE  Typed' /\ Counted'
  <1>1. /\ tdPc' = "idle" /\ runningPref' = None
        /\ started' = FALSE /\ starting' = FALSE
        /\ micro' = waiters /\ waiters' = <<>>
        /\ status' = status \/ status' = [text |-> "disconnected", profile |-> None]
        /\ UNCHANGED <<currentRunId, lifecycleGeneration, restartRequested,
                       requestVars, storeVars, platformVars, coreVars, tdSilent,
                       tdStopped, runVars, target, rev, pinned, configFile, netPc,
                       inputVars>>
    BY Zenon DEF TdPersisted, Down, Publish
  <1>2. status'.profile \in Profiles \cup {None}
    BY <1>1 DEF Typed, TypedFields
  <1>3. /\ UNCHANGED <<currentRunId, lifecycleGeneration, restartRequested, latestRequested,
                       forceRestart, netListening, pendingPref, netPc, wants, cuts,
                       nets, lastCut>>
        /\ started' \in BOOLEAN /\ starting' \in BOOLEAN /\ runningPref' = None
    BY <1>1 DEF requestVars, inputVars
  <1>4. TypedFields'
    BY <1>2, <1>3 DEF Typed, TypedFields
  <1>5. TypedWorld'
    BY <1>1 DEF Typed, TypedWorld, storeVars, platformVars, coreVars
  <1>6. TypedRuns'
    BY <1>1 DEF Typed, TypedRuns, runVars, coreVars
  <1>7. Counted'
    BY <1>1 DEF Counted, RestartOwed, ResetOwed, inputVars
  <1> QED
    BY <1>4, <1>5, <1>6, <1>7 DEF Typed

LEMMA CoreResolvedTyped ==
    ASSUME Typed, Counted, NEW r \in Runs, CoreResolved(r)
    PROVE  Typed' /\ Counted'
  <1>1. /\ pc' = [pc EXCEPT ![r] = "record"] \/ pc' = [pc EXCEPT ![r] = "failed"]
        /\ \/ started' = TRUE /\ currentRunId' = target[r]
           \/ started' = started /\ currentRunId' = currentRunId
        /\ UNCHANGED <<platformVars, coreVars, jobVars, status>>
        /\ UNCHANGED <<starting, lifecycleGeneration, restartRequested, requestVars,
                       storeVars, teardownVars, callers, netPc, micro, inputVars>>
    BY DEF CoreResolved, UpIf, Move, StartVpnFrame
  <1>2. started' \in BOOLEAN /\ currentRunId' \in Profiles \cup {None}
    BY <1>1 DEF Typed, TypedFields, TypedRuns
  <1>3. UNCHANGED <<starting, lifecycleGeneration, restartRequested, latestRequested,
                    forceRestart, netListening, pendingPref, runningPref, status,
                    netPc, wants, cuts, nets, lastCut>>
    BY <1>1 DEF requestVars, inputVars, jobVars
  <1>4. TypedFields'
    BY <1>2, <1>3 DEF Typed, TypedFields
  <1>5. TypedWorld'
    BY <1>1 DEF Typed, TypedWorld, storeVars, platformVars, coreVars, jobVars, teardownVars
  <1>6. TypedRuns'
    BY <1>1 DEF Typed, TypedRuns, Place, coreVars, jobVars, teardownVars
  <1>7. Counted'
    BY <1>1 DEF Counted, RestartOwed, ResetOwed, inputVars
  <1> QED
    BY <1>4, <1>5, <1>6, <1>7 DEF Typed

LEMMA Numbers ==
    ASSUME Typed
    PROVE  /\ lifecycleGeneration \in Nat
           /\ wants \in Nat /\ cuts \in Nat /\ nets \in Nat
           /\ RestartOwed \in {0, 1} /\ ResetOwed \in {0, 1}
  BY RunNumbers DEF Typed, TypedFields, RestartOwed, ResetOwed

LEMMA ClearTyped ==
    ASSUME Typed, Counted, NEW r \in Runs, Clear(r)
    PROVE  Typed' /\ Counted'
  <1>1. /\ Finally(r, micro) /\ pendingPref' = None
        /\ UNCHANGED <<started, currentRunId, latestRequested, forceRestart,
                       netListening, storeVars, platformVars, coreVars,
                       teardownVars, jobVars, netPc, status, inputVars>>
    BY DEF Clear
  <1>2. micro \in Seq(Token)
    BY DEF Typed, TypedRuns
  <1>3. /\ starting' \in BOOLEAN /\ restartRequested' \in BOOLEAN
        /\ lifecycleGeneration' \in Runs \cup {0}
        /\ lifecycleGeneration <= lifecycleGeneration'
        /\ lifecycleGeneration' + RestartOwed' <= lifecycleGeneration + RestartOwed
        /\ pc' \in [Runs -> Place] /\ callers' = callers
        /\ micro' = micro
    BY <1>1, <1>2, EndTyped
  <1>4. TypedFields'
    BY <1>1, <1>3, RunNumbers DEF Typed, TypedFields, jobVars, inputVars
  <1>5. TypedWorld'
    BY <1>1 DEF Typed, TypedWorld, storeVars, platformVars, coreVars, jobVars, teardownVars
  <1>6. TypedRuns'
    BY <1>1, <1>3 DEF Typed, TypedRuns, coreVars, jobVars, teardownVars
  <1>7. Counted'
    <2>1. RestartOwed \in {0, 1} /\ RestartOwed' \in {0, 1} /\ ResetOwed' = ResetOwed
          /\ ResetOwed \in {0, 1}
      BY <1>1 DEF RestartOwed, ResetOwed
    <2>2. UNCHANGED <<wants, cuts, nets>> /\ lifecycleGeneration' \in Nat
      BY <1>1, <1>3, RunNumbers DEF inputVars
    <2>3. lifecycleGeneration' + RestartOwed' <= lifecycleGeneration + RestartOwed
      BY <1>3
    <2> QED
      BY <2>1, <2>2, <2>3, Numbers DEF Counted
  <1> QED
    BY <1>4, <1>5, <1>6, <1>7 DEF Typed

LEMMA FailedTyped ==
    ASSUME Typed, Counted, NEW r \in Runs, Failed(r)
    PROVE  Typed' /\ Counted'
  <1>1. /\ pc' = [pc EXCEPT ![r] = "rollback"] /\ pendingPref' = None
        /\ Teardown(TRUE, <<RunToken(r)>>)
        /\ UNCHANGED <<micro, fieldVars, latestRequested, forceRestart, netListening,
                       storeVars, platformVars, callers, jobVars, netPc, status,
                       inputVars>>
    BY DEF Failed, FailedUnless, Move
  <1>2. RunToken(r) \in Token
    BY DEF Token
  <1>3. /\ tdPc' \in {"stop", "destroy", "persist"}
        /\ tdSilent' \in BOOLEAN /\ tdStopped' \in BOOLEAN
        /\ waiters' \in Seq(Token)
        /\ core' \in {"stopped", "starting", "running", "stopping"}
        /\ coreCancelled' \in BOOLEAN
        /\ coreRun' = coreRun /\ coreConf' = coreConf /\ startReply' = startReply
    BY <1>1, <1>2, TeardownTyped
  <1>4. TypedFields'
    BY <1>1, RunNumbers DEF Typed, TypedFields, fieldVars, jobVars, inputVars
  <1>5. TypedWorld'
    BY <1>1, <1>3 DEF Typed, TypedWorld, storeVars, platformVars, jobVars
  <1>6. TypedRuns'
    BY <1>1, <1>3 DEF Typed, TypedRuns, jobVars, Place
  <1>7. Counted'
    BY <1>1 DEF Counted, RestartOwed, ResetOwed, fieldVars, inputVars
  <1> QED
    BY <1>4, <1>5, <1>6, <1>7 DEF Typed

LEMMA CutTyped ==
    ASSUME Typed, Counted, Cut
    PROVE  Typed' /\ Counted'
  <1>1. /\ cuts < MaxCuts /\ cuts' = cuts + 1
        /\ lifecycleGeneration' = lifecycleGeneration + 1
        /\ lastCut' = lifecycleGeneration'
        /\ netListening' = FALSE
        /\ Teardown(FALSE, <<>>)
        /\ UNCHANGED <<started, starting, currentRunId, restartRequested,
                       latestRequested, forceRestart, pendingPref, storeVars,
                       platformVars, runVars, jobVars, netPc, micro, status,
                       wants, nets>>
    BY DEF Cut
  <1>2. lifecycleGeneration + 1 \in Runs
    BY <1>1, Room
  <1>3. /\ tdPc' \in {"stop", "destroy", "persist"}
        /\ tdSilent' \in BOOLEAN /\ tdStopped' \in BOOLEAN
        /\ waiters' \in Seq(Token)
        /\ core' \in {"stopped", "starting", "running", "stopping"}
        /\ coreCancelled' \in BOOLEAN
        /\ coreRun' = coreRun /\ coreConf' = coreConf /\ startReply' = startReply
    BY <1>1, TeardownTyped
  <1>4. TypedFields'
    <2>1. lifecycleGeneration' \in Runs \cup {0} /\ lastCut' \in 0..lifecycleGeneration'
      BY <1>1, <1>2, RunNumbers
    <2>2. cuts' \in 0..MaxCuts
      BY <1>1, RunNumbers DEF Typed, TypedFields
    <2> QED
      BY <1>1, <2>1, <2>2 DEF Typed, TypedFields, jobVars
  <1>5. TypedWorld'
    BY <1>1, <1>3 DEF Typed, TypedWorld, storeVars, platformVars, jobVars
  <1>6. TypedRuns'
    BY <1>1, <1>3 DEF Typed, TypedRuns, jobVars, runVars
  <1>7. Counted'
    <2>1. RestartOwed \in {0, 1} /\ RestartOwed' = RestartOwed /\ ResetOwed' = ResetOwed
          /\ ResetOwed \in {0, 1}
      BY <1>1 DEF RestartOwed, ResetOwed
    <2>2. /\ UNCHANGED <<wants, nets>> /\ cuts' = cuts + 1
          /\ lifecycleGeneration' = lifecycleGeneration + 1
      BY <1>1
    <2> QED
      BY <2>1, <2>2, Numbers DEF Counted
  <1> QED
    BY <1>4, <1>5, <1>6, <1>7 DEF Typed

LEMMA WantTyped ==
    ASSUME Typed, Counted, NEW p \in Profiles \cup {None}, NEW force \in BOOLEAN,
           Want(p, force)
    PROVE  Typed' /\ Counted'
  <1>1. /\ wants < MaxWants /\ wants' = wants + 1
        /\ latestRequested' = IF p # None THEN p ELSE latestRequested
        /\ pendingPref' = IF p # None THEN p ELSE pendingPref
        /\ netListening' = TRUE
        /\ Enter(pc, <<>>)
        /\ UNCHANGED <<started, currentRunId, storeVars, platformVars, coreVars,
                       teardownVars, jobVars, netPc, micro, status, cuts, nets,
                       lastCut>>
    BY DEF Want
  <1>2. forceRestart' \in BOOLEAN
    BY Zenon DEF Want
  <1>3. /\ starting' \in BOOLEAN /\ restartRequested' \in BOOLEAN
        /\ lifecycleGeneration' \in Runs \cup {0}
        /\ lifecycleGeneration <= lifecycleGeneration'
        /\ lifecycleGeneration' + RestartOwed' <= lifecycleGeneration + RestartOwed + 1
        /\ pc' \in [Runs -> Place] /\ callers' = callers
        /\ lifecycleGeneration' \in Nat
    BY <1>1, EnterTyped, RunNumbers
  <1>4. TypedFields'
    BY <1>1, <1>2, <1>3, RunNumbers DEF Typed, TypedFields, jobVars
  <1>5. TypedWorld'
    BY <1>1 DEF Typed, TypedWorld, storeVars, platformVars, coreVars, jobVars, teardownVars
  <1>6. TypedRuns'
    BY <1>1, <1>3 DEF Typed, TypedRuns, coreVars, jobVars, teardownVars
  <1>7. Counted'
    <2>1. RestartOwed \in {0, 1} /\ RestartOwed' \in {0, 1} /\ ResetOwed' = ResetOwed
          /\ ResetOwed \in {0, 1}
      BY <1>1 DEF RestartOwed, ResetOwed
    <2>2. UNCHANGED <<cuts, nets>> /\ wants' = wants + 1
      BY <1>1
    <2>3. /\ lifecycleGeneration' + RestartOwed' <= lifecycleGeneration + RestartOwed + 1
          /\ lifecycleGeneration' \in Nat
      BY <1>3
    <2> QED
      BY <2>1, <2>2, <2>3, Numbers DEF Counted
  <1> QED
    BY <1>4, <1>5, <1>6, <1>7 DEF Typed

LEMMA NetResetTyped ==
    ASSUME Typed, Counted, NetReset
    PROVE  Typed' /\ Counted'
  <1>1. UNCHANGED <<fieldVars, latestRequested, netListening, storeVars,
                    platformVars, runVars, jobVars, micro, status, inputVars>>
    BY DEF NetReset
  <1>2. netPc = "timer" /\ netPc' \in {"idle", "down"}
    BY DEF NetReset
  <1>3. /\ pendingPref' \in Profiles \cup {None} /\ forceRestart' \in BOOLEAN
        /\ tdPc' \in {"idle", "stop", "destroy", "persist"}
        /\ tdSilent' \in BOOLEAN /\ tdStopped' \in BOOLEAN
        /\ waiters' \in Seq(Token)
        /\ core' \in {"stopped", "starting", "running", "stopping"}
        /\ coreCancelled' \in BOOLEAN
        /\ coreRun' = coreRun /\ coreConf' = coreConf /\ startReply' = startReply
    <2>1. CASE started /\ ~starting /\ currentRunId # None
      <3>1. Teardown(TRUE, <<NetToken>>) /\ pendingPref' = currentRunId /\ forceRestart' = TRUE
        BY <2>1 DEF NetReset
      <3>2. NetToken \in Token
        BY DEF Token
      <3>3. /\ tdPc' \in {"stop", "destroy", "persist"}
            /\ tdSilent' \in BOOLEAN /\ tdStopped' \in BOOLEAN
            /\ waiters' \in Seq(Token)
            /\ core' \in {"stopped", "starting", "running", "stopping"}
            /\ coreCancelled' \in BOOLEAN
            /\ coreRun' = coreRun /\ coreConf' = coreConf /\ startReply' = startReply
        BY <3>1, <3>2, TeardownTyped
      <3> QED
        BY <3>1, <3>3 DEF Typed, TypedFields
    <2>2. CASE ~(started /\ ~starting /\ currentRunId # None)
      <3>1. UNCHANGED <<pendingPref, forceRestart, coreVars, teardownVars>>
        BY <2>2 DEF NetReset
      <3> QED
        BY <3>1 DEF Typed, TypedFields, TypedWorld, TypedRuns, coreVars, teardownVars
    <2> QED
      BY <2>1, <2>2
  <1>4. TypedFields'
    BY <1>1, <1>2, <1>3, RunNumbers DEF Typed, TypedFields, fieldVars, jobVars, inputVars
  <1>5. TypedWorld'
    BY <1>1, <1>3 DEF Typed, TypedWorld, storeVars, platformVars, jobVars
  <1>6. TypedRuns'
    BY <1>1, <1>3 DEF Typed, TypedRuns, jobVars, runVars
  <1>7. Counted'
    <2>1. RestartOwed \in {0, 1} /\ RestartOwed' = RestartOwed /\ ResetOwed' <= ResetOwed
          /\ ResetOwed \in {0, 1} /\ ResetOwed' \in {0, 1}
      BY <1>1, <1>2 DEF RestartOwed, ResetOwed, fieldVars
    <2> QED
      BY <1>1, <2>1, Numbers DEF Counted, fieldVars, inputVars
  <1> QED
    BY <1>4, <1>5, <1>6, <1>7 DEF Typed

LEMMA ResumeNetTyped ==
    ASSUME Typed, Counted, netPc = "down", ResumeNet
    PROVE  Typed' /\ Counted'
  <1>1. /\ micro # <<>> /\ micro' = Tail(micro)
        /\ netPc' = "idle"
        /\ Enter(pc, <<>>)
        /\ UNCHANGED <<started, currentRunId, requestVars, storeVars, platformVars,
                       coreVars, teardownVars, jobVars, status, inputVars>>
    BY DEF ResumeNet
  <1>2. micro' \in Seq(Token)
    BY <1>1, TakeHead DEF Typed, TypedRuns
  <1>3. /\ starting' \in BOOLEAN /\ restartRequested' \in BOOLEAN
        /\ lifecycleGeneration' \in Runs \cup {0}
        /\ lifecycleGeneration <= lifecycleGeneration'
        /\ lifecycleGeneration' + RestartOwed' <= lifecycleGeneration + RestartOwed + 1
        /\ pc' \in [Runs -> Place] /\ callers' = callers
    BY <1>1, EnterTyped
  <1>4. TypedFields'
    BY <1>1, <1>3, RunNumbers DEF Typed, TypedFields, requestVars, jobVars, inputVars
  <1>5. TypedWorld'
    BY <1>1 DEF Typed, TypedWorld, storeVars, platformVars, coreVars, jobVars, teardownVars
  <1>6. TypedRuns'
    BY <1>1, <1>2, <1>3 DEF Typed, TypedRuns, coreVars, jobVars, teardownVars
  <1>7. Counted'
    <2>1. RestartOwed \in {0, 1} /\ RestartOwed' \in {0, 1} /\ ResetOwed = 1
          /\ ResetOwed' = 0
      BY <1>1 DEF RestartOwed, ResetOwed
    <2>2. UNCHANGED <<wants, cuts, nets>>
      BY <1>1 DEF inputVars
    <2>3. /\ lifecycleGeneration' + RestartOwed' <= lifecycleGeneration + RestartOwed + 1
          /\ lifecycleGeneration' \in Nat
      BY <1>3, RunNumbers
    <2> QED
      BY <2>1, <2>2, <2>3, Numbers DEF Counted
  <1> QED
    BY <1>4, <1>5, <1>6, <1>7 DEF Typed

LEMMA DecideTyped ==
    ASSUME Typed, Counted, NEW r \in Runs, Decide(r)
    PROVE  Typed' /\ Counted'
  <1>1. /\ target' = [target EXCEPT ![r] = Wanted]
        /\ UNCHANGED <<storeVars, started, currentRunId, latestRequested, netListening,
                       pendingPref, platformVars, rev, pinned, configFile,
                       runningPref, netPc, inputVars>>
    BY DEF Decide
  <1>2. Wanted \in Profiles \cup {None} /\ micro \in Seq(Token)
    BY DEF Wanted, Typed, TypedFields, TypedRuns
  <1>3. /\ TypedRuns'
        /\ starting' \in BOOLEAN /\ restartRequested' \in BOOLEAN
        /\ forceRestart' \in BOOLEAN /\ status'.profile \in Profiles \cup {None}
        /\ tdPc' \in {"idle", "stop", "destroy", "persist"}
        /\ tdSilent' \in BOOLEAN /\ tdStopped' \in BOOLEAN
        /\ core' \in {"stopped", "starting", "running", "stopping"}
        /\ coreCancelled' \in BOOLEAN
        /\ coreRun' = coreRun /\ coreConf' = coreConf
        /\ lifecycleGeneration' \in Runs \cup {0}
        /\ lifecycleGeneration <= lifecycleGeneration'
        /\ lifecycleGeneration' + RestartOwed' <= lifecycleGeneration + RestartOwed
    <2>1. CASE Wanted = None
      <3>1. /\ Finally(r, micro) /\ UNCHANGED <<forceRestart, coreVars, teardownVars>>
            /\ status' = status \/ status' = [text |-> "connected", profile |-> currentRunId]
        BY <2>1 DEF Decide, Publish
      <3>2. /\ starting' \in BOOLEAN /\ restartRequested' \in BOOLEAN
            /\ lifecycleGeneration' \in Runs \cup {0}
            /\ lifecycleGeneration <= lifecycleGeneration'
            /\ lifecycleGeneration' + RestartOwed' <= lifecycleGeneration + RestartOwed
            /\ pc' \in [Runs -> Place] /\ callers' = callers
            /\ micro' = micro
        BY <1>2, <3>1, EndTyped
      <3>3. TypedRuns'
        BY <1>1, <1>2, <3>1, <3>2 DEF Typed, TypedRuns, coreVars, teardownVars
      <3>4. status'.profile \in Profiles \cup {None}
        BY <3>1 DEF Typed, TypedFields
      <3> QED
        BY <3>1, <3>2, <3>3, <3>4 DEF Typed, TypedFields, TypedWorld, coreVars, teardownVars
    <2>2. CASE Wanted # None
      <3>1. /\ UNCHANGED <<starting, lifecycleGeneration, restartRequested, callers, micro>>
            /\ \E place \in Place : pc' = [pc EXCEPT ![r] = place]
        BY <2>2 DEF Decide, Move, Place
      <3>2. /\ lifecycleGeneration' + RestartOwed' <= lifecycleGeneration + RestartOwed
            /\ lifecycleGeneration <= lifecycleGeneration'
            /\ lifecycleGeneration' \in Runs \cup {0}
            /\ starting' \in BOOLEAN /\ restartRequested' \in BOOLEAN
        BY <3>1, Numbers DEF RestartOwed, Typed, TypedFields
      <3>3. CASE ~(started /\ (Wanted # currentRunId \/ forceRestart))
        <4>1. /\ UNCHANGED <<forceRestart, coreVars, teardownVars>>
              /\ status' = status \/ status' = [text |-> "connected", profile |-> currentRunId]
          BY <2>2, <3>3 DEF Decide, Publish
        <4>2. TypedRuns'
          BY <1>1, <1>2, <3>1, <4>1 DEF Typed, TypedRuns, coreVars, teardownVars
        <4>3. status'.profile \in Profiles \cup {None}
          BY <4>1 DEF Typed, TypedFields
        <4> QED
          BY <4>1, <4>2, <4>3, <3>2 DEF Typed, TypedFields, TypedWorld, coreVars, teardownVars
      <3>4. CASE started /\ (Wanted # currentRunId \/ forceRestart)
        <4>1. /\ forceRestart' = FALSE /\ Teardown(TRUE, <<RunToken(r)>>)
              /\ status' = [text |-> "switching", profile |-> Wanted]
          BY <2>2, <3>4 DEF Decide, Publish
        <4>2. RunToken(r) \in Token
          BY DEF Token
        <4>3. /\ tdPc' \in {"stop", "destroy", "persist"}
              /\ tdSilent' \in BOOLEAN /\ tdStopped' \in BOOLEAN
              /\ waiters' \in Seq(Token)
              /\ core' \in {"stopped", "starting", "running", "stopping"}
              /\ coreCancelled' \in BOOLEAN
              /\ coreRun' = coreRun /\ coreConf' = coreConf /\ startReply' = startReply
          BY <4>1, <4>2, TeardownTyped
        <4>4. TypedRuns'
          BY <1>1, <1>2, <3>1, <4>3 DEF Typed, TypedRuns
        <4>5. status'.profile \in Profiles \cup {None}
          BY <4>1, <1>2
        <4> QED
          BY <4>1, <4>3, <4>4, <4>5, <3>2
      <3> QED
        BY <3>3, <3>4
    <2> QED
      BY <2>1, <2>2
  <1>4. TypedFields'
    BY <1>1, <1>3, RunNumbers DEF Typed, TypedFields, inputVars
  <1>5. TypedWorld'
    BY <1>1, <1>3 DEF Typed, TypedWorld, storeVars, platformVars
  <1>6. Counted'
    <2>1. UNCHANGED <<wants, cuts, nets>> /\ ResetOwed' = ResetOwed
      BY <1>1 DEF inputVars, ResetOwed
    <2>2. /\ lifecycleGeneration' + RestartOwed' <= lifecycleGeneration + RestartOwed
          /\ lifecycleGeneration' \in Nat /\ RestartOwed' \in {0, 1}
      BY <1>3, RunNumbers DEF RestartOwed
    <2> QED
      BY <2>1, <2>2, Numbers DEF Counted
  <1> QED
    BY <1>3, <1>4, <1>5, <1>6 DEF Typed

LEMMA ResumeRunTyped ==
    ASSUME Typed, Counted, NEW r \in Runs, ResumeRun(r)
    PROVE  Typed' /\ Counted'
  <1>1. /\ micro # <<>>
        /\ UNCHANGED <<started, currentRunId, requestVars, storeVars, platformVars,
                       coreVars, teardownVars, jobVars, netPc, inputVars>>
    BY DEF ResumeRun
  <1>2. Tail(micro) \in Seq(Token)
    BY <1>1, TakeHead DEF Typed, TypedRuns
  <1>3. /\ starting' \in BOOLEAN /\ restartRequested' \in BOOLEAN
        /\ lifecycleGeneration' \in Runs \cup {0}
        /\ lifecycleGeneration <= lifecycleGeneration'
        /\ lifecycleGeneration' + RestartOwed' <= lifecycleGeneration + RestartOwed
        /\ pc' \in [Runs -> Place] /\ callers' = callers
        /\ micro' = Tail(micro) /\ status'.profile \in Profiles \cup {None}
    <2>1. CASE pc[r] = "switch"
      <3>1. /\ pc' = [pc EXCEPT ![r] = "load"] /\ starting' = TRUE /\ micro' = Tail(micro)
            /\ UNCHANGED <<lifecycleGeneration, restartRequested, callers, status>>
        BY <2>1 DEF ResumeRun, Move
      <3>2. RestartOwed' = RestartOwed /\ pc' \in [Runs -> Place]
        BY <3>1 DEF RestartOwed, Typed, TypedRuns, Place
      <3> QED
        BY <3>1, <3>2, Numbers DEF Typed, TypedFields
    <2>2. CASE pc[r] # "switch"
      <3>1. Finally(r, Tail(micro)) /\ status' = [text |-> "connect_failed", profile |-> None]
        BY <2>2 DEF ResumeRun, Publish
      <3> QED
        BY <1>2, <3>1, EndTyped
    <2> QED
      BY <2>1, <2>2
  <1>4. TypedFields'
    BY <1>1, <1>3, RunNumbers DEF Typed, TypedFields, requestVars, jobVars, inputVars
  <1>5. TypedWorld'
    BY <1>1 DEF Typed, TypedWorld, storeVars, platformVars, coreVars, jobVars, teardownVars
  <1>6. TypedRuns'
    BY <1>1, <1>2, <1>3 DEF Typed, TypedRuns, coreVars, jobVars, teardownVars
  <1>7. Counted'
    <2>1. UNCHANGED <<wants, cuts, nets>> /\ ResetOwed' = ResetOwed
      BY <1>1 DEF inputVars, ResetOwed
    <2>2. /\ lifecycleGeneration' + RestartOwed' <= lifecycleGeneration + RestartOwed
          /\ lifecycleGeneration' \in Nat /\ RestartOwed' \in {0, 1}
      BY <1>3, RunNumbers DEF RestartOwed
    <2> QED
      BY <2>1, <2>2, Numbers DEF Counted
  <1> QED
    BY <1>4, <1>5, <1>6, <1>7 DEF Typed

(***************************************************************************)
(* The layers.                                                             *)
(***************************************************************************)

Asleep == {"switch", "rollback"}
Early == {"load", "write", "gate", "clean", "auth", "protect"}
Late == {"core", "record", "announce", "clear", "failed", "rollback", "done"}
Active(r) == pc[r] \notin {"new", "done"}
InLine(t) == t \in Members(waiters) \/ t \in Members(micro)

\* Generations are given out in order, and while a start is under way or noted
\* there is a run that will see to it.
Runners ==
    /\ \A r \in Runs : r > lifecycleGeneration => pc[r] = "new"
    /\ starting \/ restartRequested => \E r \in Runs : Active(r)

\* Exactly those coroutines wait for the teardown, or are about to resume after
\* it, whose place says so; each once.
Line ==
    /\ tdPc = "idle" => waiters = <<>>
    /\ micro # <<>> => tdPc = "idle" /\ ~started
    /\ Distinct(waiters) /\ Distinct(micro)
    /\ \A r \in Runs : pc[r] \in Asleep <=> InLine(RunToken(r))
    /\ netPc = "down" <=> InLine(NetToken)

\* As long as no Want named a profile there is none; a run that builds a
\* session has one.
Named ==
    /\ latestRequested = None => /\ pendingPref = None /\ currentRunId = None
                                 /\ \A r \in Runs : target[r] = None
    /\ \A r \in Runs : pc[r] \in Early \cup {"switch", "core", "record", "announce"}
                           => target[r] # None
    /\ started => latestRequested # None

\* The last run builds a session only where none stands.
Fresh ==
    \A r \in Runs : r = lifecycleGeneration /\ pc[r] \in Early \cup {"core"} => ~started

\* The last run builds what was asked for last, or a restart is noted.
Meant ==
    \A r \in Runs : r = lifecycleGeneration /\ pc[r] \in Early \cup {"switch", "core"}
        => target[r] = latestRequested \/ restartRequested

\* A cut's generation is no run's; and a session outlives no cut.
Cuts ==
    /\ lastCut \in Runs => pc[lastCut] = "new"
    /\ started /\ tdPc = "idle" => /\ lifecycleGeneration \in Runs
                                   /\ pc[lifecycleGeneration] # "new"

\* A session is of the latest profile, or a run is about to look again.
Ahead ==
    started /\ tdPc = "idle" =>
        \/ currentRunId = latestRequested \/ restartRequested
        \/ pc[lifecycleGeneration] \in {"refresh", "decide", "failed"}

\* The kernel knows only runs that came as far as asking it.
Accepted ==
    /\ coreRun \in Runs => pc[coreRun] \in Late
    /\ core = "starting" => coreRun \in Runs
    /\ \A r \in Runs : startReply[r] # "none" => pc[r] \in Late

\* While a run waits to switch, the old session stands or was just taken down,
\* and the last run is not in the kernel.
Sleepers ==
    \A r \in Runs : pc[r] = "switch" =>
        /\ started \/ micro # <<>>
        /\ \A q \in Runs : q = lifecycleGeneration => pc[q] # "core"

\* If the start of the last run resolves unimpeded, its kernel runs.
Resolves ==
    \A r \in Runs :
        /\ pc[r] = "core" /\ r = lifecycleGeneration /\ startReply[r] = "ok"
        /\ tdPc = "idle" /\ starting
        => core = "running" /\ coreRun = r

\* A session that stands has its kernel, of a run after the last cut.
Kernel ==
    started /\ tdPc = "idle" => core = "running" /\ coreRun \in Runs /\ coreRun > lastCut

Order == /\ Runners /\ Line /\ Named /\ Fresh /\ Meant /\ Cuts /\ Ahead
         /\ Accepted /\ Sleepers /\ Resolves /\ Kernel
IInv == Typed /\ Counted /\ Order

\* A run moves on to its next place, or fails.
Places == {<<"refresh", "decide">>, <<"load", "write">>, <<"write", "gate">>,
           <<"gate", "clean">>, <<"clean", "auth">>, <<"auth", "protect">>,
           <<"record", "announce">>, <<"announce", "clear">>}
Failing == {"refresh", "decide", "replay", "load", "write", "gate", "clean",
            "auth", "protect", "core", "record", "announce", "clear"}
Moves(r, b) ==
    /\ <<pc[r], b>> \in Places \/ (pc[r] \in Failing /\ b = "failed")
    /\ pc' = [pc EXCEPT ![r] = b]

LEMMA MoveKeeps ==
    ASSUME IInv, NEW r \in Runs, NEW b, Moves(r, b), micro = <<>>,
           UNCHANGED <<started, starting, currentRunId, lifecycleGeneration,
                       restartRequested, latestRequested, pendingPref, core,
                       coreRun, startReply, tdPc, waiters, target, netPc, micro,
                       lastCut>>
    PROVE  Order'
  <1>1. /\ pc \in [Runs -> Place] /\ pc' = [pc EXCEPT ![r] = b]
        /\ pc'[r] = b /\ \A q \in Runs : q # r => pc'[q] = pc[q]
    BY DEF IInv, Typed, TypedRuns, Moves
  <1>2. /\ pc[r] \notin Asleep \cup {"new", "done"} /\ b \notin Asleep \cup {"new", "done"}
        /\ b \notin {"refresh", "core"}
        /\ b \in Early => pc[r] \in Early
        /\ b \in Early \cup {"switch", "core", "record", "announce"}
               => pc[r] \in Early \cup {"switch", "core", "record", "announce"}
        /\ pc[r] \in {"refresh", "decide", "failed"} => b \in {"refresh", "decide", "failed"}
        /\ pc[r] \in Late => b \in Late
    BY DEF Moves, Places, Failing, Asleep, Early, Late
  <1>3. Runners'
    BY <1>1, <1>2 DEF IInv, Order, Runners, Active
  <1>4. Line'
    BY <1>1, <1>2 DEF IInv, Order, Line, InLine
  <1>5. Named'
    BY <1>1, <1>2 DEF IInv, Order, Named
  <1>6. Fresh'
    BY <1>1, <1>2 DEF IInv, Order, Fresh
  <1>7. Meant'
    BY <1>1, <1>2 DEF IInv, Order, Meant, Asleep
  <1>8. Cuts'
    BY <1>1, <1>2 DEF IInv, Order, Cuts
  <1>9. Ahead'
    BY <1>1, <1>2 DEF IInv, Order, Ahead, Cuts
  <1>10. Accepted'
    BY <1>1, <1>2 DEF IInv, Order, Accepted
  <1>11. Sleepers'
    BY <1>1, <1>2 DEF IInv, Order, Sleepers, Asleep
  <1>12. Resolves'
    BY <1>1, <1>2 DEF IInv, Order, Resolves
  <1>13. Kernel'
    BY DEF IInv, Order, Kernel
  <1> QED
    BY <1>3, <1>4, <1>5, <1>6, <1>7, <1>8, <1>9, <1>10, <1>11, <1>12, <1>13 DEF Order

LEMMA PlaceKeeps ==
    ASSUME IInv, NEW r \in Runs,
           \/ Refresh(r) \/ Throw(r) \/ Load(r) \/ Write(r) \/ Gate(r) \/ Clean(r)
           \/ Auth(r)
           \/ Protect(r) /\ core # "stopped"
           \/ CoreRejected(r)
           \/ CoreResolved(r) /\ ~(starting /\ r = lifecycleGeneration)
           \/ Record(r) \/ Announce(r)
    PROVE  Order'
  <1>1. micro = <<>>
    BY DEF Refresh, Throw, Load, Write, WriteAs, Gate, Clean, Auth, Protect,
           CoreRejected, CoreResolved, UpIf, Record, Announce, At, Macrotask
  <1>2. \E b : Moves(r, b)
    <2>1. CASE Refresh(r)
      BY <2>1 DEF Refresh, At, Move, Moves, Places
    <2>2. CASE Throw(r)
      BY <2>2 DEF Throw, Move, Moves, Failing
    <2>3. CASE Load(r) \/ Write(r) \/ Gate(r) \/ Record(r) \/ Announce(r)
      BY <2>3 DEF Load, Write, WriteAs, Gate, Record, Announce, At, Move, Moves, Places
    <2>4. CASE Clean(r) \/ Auth(r)
      BY <2>4 DEF Clean, Auth, At, Move, Moves, Places, Failing
    <2>5. CASE Protect(r) /\ core # "stopped"
      BY <2>5 DEF Protect, At, Move, Moves, Failing
    <2>6. CASE CoreRejected(r)
      BY <2>6 DEF CoreRejected, At, Move, Moves, Failing
    <2>7. CASE CoreResolved(r) /\ ~(starting /\ r = lifecycleGeneration)
      BY <2>7 DEF CoreResolved, UpIf, At, Move, Moves, Failing
    <2> QED
      BY <2>1, <2>2, <2>3, <2>4, <2>5, <2>6, <2>7
  <1>3. UNCHANGED <<started, starting, currentRunId, lifecycleGeneration,
                    restartRequested, latestRequested, pendingPref, core,
                    coreRun, startReply, tdPc, waiters, target, netPc, micro,
                    lastCut>>
    <2>1. CASE Refresh(r)
      BY <2>1 DEF Refresh, fieldVars, requestVars, coreVars, teardownVars, jobVars, inputVars
    <2> USE DEF StartVpnFrame, requestVars, coreVars, teardownVars, jobVars, inputVars
    <2>2. CASE Throw(r) \/ Load(r) \/ Write(r) \/ Gate(r) \/ Clean(r) \/ Auth(r)
      BY <2>2 DEF Throw, Load, Write, WriteAs, Gate, Clean, Auth
    <2>3. CASE CoreRejected(r) \/ Record(r) \/ Announce(r)
      BY <2>3 DEF CoreRejected, Record, Announce
    <2>4. CASE Protect(r) /\ core # "stopped"
      BY <2>4 DEF Protect
    <2>5. CASE CoreResolved(r) /\ ~(starting /\ r = lifecycleGeneration)
      BY <2>5 DEF CoreResolved, UpIf
    <2> QED
      BY <2>1, <2>2, <2>3, <2>4, <2>5
  <1> QED
    BY <1>1, <1>2, <1>3, MoveKeeps

LEMMA FrameKeeps ==
    ASSUME IInv, netPc' = "down" <=> netPc = "down",
           UNCHANGED <<started, starting, currentRunId, lifecycleGeneration,
                       restartRequested, latestRequested, pendingPref, core,
                       coreRun, startReply, tdPc, waiters, target, pc, micro,
                       lastCut>>
    PROVE  Order'
  <1>1. Runners' /\ Line' /\ Named' /\ Fresh' /\ Meant' /\ Cuts'
    BY DEF IInv, Order, Runners, Active, Line, InLine, Named, Fresh, Meant, Cuts
  <1>2. Ahead' /\ Accepted' /\ Sleepers' /\ Resolves' /\ Kernel'
    BY DEF IInv, Order, Ahead, Accepted, Sleepers, Resolves, Kernel
  <1> QED
    BY <1>1, <1>2 DEF Order

\* The native core: it starts, or comes to a stop.
LEMMA CoreKeeps ==
    ASSUME IInv, CoreStep
    PROVE  Order'
  <1>1. UNCHANGED <<started, starting, currentRunId, lifecycleGeneration,
                    restartRequested, latestRequested, pendingPref, coreRun, tdPc,
                    waiters, target, pc, netPc, micro, lastCut>>
    BY DEF CoreStep, CoreUp, CoreNotUp, CoreDown, CoreFrame, fieldVars, requestVars,
           runVars, jobVars, inputVars
  <1>2. core \in {"starting", "stopping"} /\ core' \in {"running", "stopped"}
    BY DEF CoreStep, CoreUp, CoreNotUp, CoreDown
  <1>3. \/ core = "starting" /\ core' = "running" /\ startReply' = [startReply EXCEPT ![coreRun] = "ok"]
        \/ core = "starting" /\ startReply' = [startReply EXCEPT ![coreRun] = "err"]
        \/ startReply' = startReply
    BY DEF CoreStep, CoreUp, CoreNotUp, CoreDown
  <1>4. startReply \in [Runs -> {"none", "ok", "err"}]
    BY DEF IInv, Typed, TypedRuns
  <1>5. Runners' /\ Line' /\ Named' /\ Fresh' /\ Meant' /\ Cuts'
    BY <1>1 DEF IInv, Order, Runners, Active, Line, InLine, Named, Fresh, Meant, Cuts
  <1>6. Ahead' /\ Sleepers'
    BY <1>1 DEF IInv, Order, Ahead, Sleepers
  <1>7. Accepted'
    BY <1>1, <1>2, <1>3, <1>4 DEF IInv, Order, Accepted
  <1>8. Resolves'
    BY <1>1, <1>2, <1>3, <1>4 DEF IInv, Order, Resolves, Accepted
  <1>9. Kernel'
    BY <1>1, <1>2 DEF IInv, Order, Kernel
  <1> QED
    BY <1>5, <1>6, <1>7, <1>8, <1>9 DEF Order

\* The teardown up to its last await: at most the profile is forgotten.
LEMMA TeardownKeeps ==
    ASSUME IInv, TdStopped \/ TdDestroyed
    PROVE  Order'
  <1>1. UNCHANGED <<started, starting, lifecycleGeneration, restartRequested,
                    latestRequested, pendingPref, core, coreRun, startReply, waiters,
                    target, pc, netPc, micro, lastCut>>
    BY DEF TdStopped, Unpin, TdDestroyed, requestVars, coreVars, runVars, jobVars, inputVars
  <1>2. tdPc # "idle" /\ tdPc' # "idle"
    BY DEF TdStopped, Unpin, TdDestroyed
  <1>3. currentRunId' = currentRunId \/ currentRunId' = None
    BY DEF TdStopped, Unpin, TdDestroyed
  <1>4. Runners' /\ Fresh' /\ Meant' /\ Accepted' /\ Sleepers'
    BY <1>1 DEF IInv, Order, Runners, Active, Fresh, Meant, Accepted, Sleepers
  <1>5. Line'
    BY <1>1, <1>2 DEF IInv, Order, Line, InLine
  <1>6. Named'
    BY <1>1, <1>3 DEF IInv, Order, Named
  <1>7. Cuts' /\ Ahead' /\ Resolves' /\ Kernel'
    BY <1>1, <1>2 DEF IInv, Order, Cuts, Ahead, Resolves, Kernel
  <1> QED
    BY <1>4, <1>5, <1>6, <1>7 DEF Order

\* The end of the teardown: whoever waited for it resumes.
LEMMA DownKeeps ==
    ASSUME IInv, TdPersisted
    PROVE  Order'
  <1>1. /\ tdPc # "idle" /\ tdPc' = "idle" /\ micro = <<>>
        /\ started' = FALSE /\ starting' = FALSE
        /\ micro' = waiters /\ waiters' = <<>>
        /\ UNCHANGED <<currentRunId, lifecycleGeneration, restartRequested, requestVars,
                       coreVars, runVars, target, netPc, inputVars>>
    BY DEF TdPersisted, Down, Macrotask
  <1>2. UNCHANGED <<currentRunId, lifecycleGeneration, restartRequested,
                    latestRequested, pendingPref, core, coreRun, startReply,
                    target, pc, netPc, lastCut>>
    BY <1>1 DEF requestVars, coreVars, runVars, inputVars
  <1>3. \A t : InLine(t)' <=> InLine(t)
    BY <1>1, NoMembers DEF InLine
  <1>4. Runners'
    BY <1>1, <1>2 DEF IInv, Order, Runners, Active
  <1>5. Line'
    BY <1>1, <1>2, <1>3, NoMembers DEF IInv, Order, Line
  <1>6. Named' /\ Fresh' /\ Meant' /\ Cuts' /\ Ahead' /\ Kernel' /\ Resolves'
    BY <1>1, <1>2 DEF IInv, Order, Named, Fresh, Meant, Cuts, Ahead, Kernel, Resolves
  <1>7. Accepted'
    BY <1>2 DEF IInv, Order, Accepted
  <1>8. Sleepers'
    <2>1. ASSUME NEW r \in Runs, pc[r] = "switch" PROVE micro' # <<>>
      <3>1. RunToken(r) \in Members(waiters)
        BY <1>1, <2>1, NoMembers DEF IInv, Order, Line, Asleep, InLine
      <3> QED
        BY <1>1, <3>1, NoMembers
    <2> QED
      BY <1>2, <2>1 DEF IInv, Order, Sleepers
  <1> QED
    BY <1>4, <1>5, <1>6, <1>7, <1>8 DEF Order

\* The kernel is asked to start.
LEMMA AskKeeps ==
    ASSUME IInv, NEW r \in Runs, Protect(r), core = "stopped"
    PROVE  Order'
  <1>1. /\ micro = <<>> /\ pc[r] = "protect" /\ pc' = [pc EXCEPT ![r] = "core"]
        /\ core' = "starting" /\ coreRun' = r
        /\ UNCHANGED <<started, starting, currentRunId, lifecycleGeneration,
                       restartRequested, latestRequested, pendingPref, startReply,
                       tdPc, waiters, target, netPc, micro, lastCut>>
    BY DEF Protect, At, Macrotask, Move, StartVpnFrame, requestVars, teardownVars,
           jobVars, inputVars
  <1>2. pc \in [Runs -> Place] /\ pc'[r] = "core" /\ \A q \in Runs : q # r => pc'[q] = pc[q]
    BY <1>1 DEF IInv, Typed, TypedRuns
  <1>3. Runners' /\ Cuts'
    BY <1>1, <1>2 DEF IInv, Order, Runners, Active, Cuts
  <1>4. Line'
    BY <1>1, <1>2 DEF IInv, Order, Line, InLine, Asleep
  <1>5. Named'
    BY <1>1, <1>2 DEF IInv, Order, Named, Early
  <1>6. Fresh' /\ Meant'
    BY <1>1, <1>2 DEF IInv, Order, Fresh, Meant, Early
  <1>7. Ahead'
    BY <1>1, <1>2 DEF IInv, Order, Ahead, Cuts
  <1>8. Accepted'
    BY <1>1, <1>2 DEF IInv, Order, Accepted, Late
  <1>9. Sleepers'
    BY <1>1, <1>2 DEF IInv, Order, Sleepers, Fresh, Early
  <1>10. Resolves'
    BY <1>1, <1>2 DEF IInv, Order, Resolves, Accepted, Late
  <1>11. Kernel'
    BY <1>1 DEF IInv, Order, Kernel
  <1> QED
    BY <1>3, <1>4, <1>5, <1>6, <1>7, <1>8, <1>9, <1>10, <1>11 DEF Order

\* The session comes up.
LEMMA UpKeeps ==
    ASSUME IInv, NEW r \in Runs, CoreResolved(r), starting, r = lifecycleGeneration
    PROVE  Order'
  <1>1. /\ micro = <<>> /\ pc[r] = "core" /\ pc' = [pc EXCEPT ![r] = "record"]
        /\ startReply[r] = "ok" /\ started' = TRUE /\ currentRunId' = target[r]
        /\ UNCHANGED <<starting, lifecycleGeneration, restartRequested,
                       latestRequested, pendingPref, core, coreRun, startReply,
                       tdPc, waiters, target, netPc, micro, lastCut>>
    BY DEF CoreResolved, UpIf, At, Macrotask, Move, StartVpnFrame, requestVars,
           coreVars, teardownVars, jobVars, inputVars
  <1>2. pc \in [Runs -> Place] /\ pc'[r] = "record" /\ \A q \in Runs : q # r => pc'[q] = pc[q]
    BY <1>1 DEF IInv, Typed, TypedRuns
  <1>3. Runners' /\ Cuts'
    BY <1>1, <1>2 DEF IInv, Order, Runners, Active, Cuts
  <1>4. Line'
    BY <1>1, <1>2 DEF IInv, Order, Line, InLine, Asleep
  <1>5. Named'
    BY <1>1, <1>2 DEF IInv, Order, Named, Early
  <1>6. Fresh' /\ Meant'
    BY <1>1, <1>2 DEF IInv, Order, Fresh, Meant, Early
  <1>7. Ahead'
    BY <1>1, <1>2 DEF IInv, Order, Ahead, Meant
  <1>8. Accepted'
    BY <1>1, <1>2 DEF IInv, Order, Accepted, Late
  <1>9. Sleepers'
    BY <1>1, <1>2 DEF IInv, Order, Sleepers
  <1>10. Resolves'
    BY <1>1, <1>2 DEF IInv, Order, Resolves
  <1>11. Kernel'
    <2>1. lastCut < lifecycleGeneration
      <3>1. lastCut \in 0..lifecycleGeneration /\ lifecycleGeneration \in Nat
        BY RunNumbers DEF IInv, Typed, TypedFields
      <3>2. lastCut # lifecycleGeneration
        BY <1>1 DEF IInv, Order, Cuts
      <3> QED
        BY <3>1, <3>2
    <2>2. tdPc = "idle" => core = "running" /\ coreRun = r
      BY <1>1 DEF IInv, Order, Resolves
    <2> QED
      BY <1>1, <2>1, <2>2 DEF Kernel
  <1> QED
    BY <1>3, <1>4, <1>5, <1>6, <1>7, <1>8, <1>9, <1>10, <1>11 DEF Order

\* A call of teardown: whoever calls it joins the line.
LEMMA Joined ==
    ASSUME IInv, micro = <<>>, NEW silent \in BOOLEAN, NEW tokens,
           Teardown(silent, tokens)
    PROVE  /\ tdPc' # "idle" /\ UNCHANGED <<coreRun, startReply>>
           /\ core' = "starting" => core = "starting"
           /\ tokens = <<>> => Members(waiters') = Members(waiters) /\ Distinct(waiters')
           /\ \A t \in Token : tokens = <<t>> /\ ~InLine(t) =>
                  Members(waiters') = Members(waiters) \cup {t} /\ Distinct(waiters')
  <1>1. /\ waiters \in Seq(Token) /\ Distinct(waiters)
        /\ tdPc = "idle" => waiters = <<>>
    BY DEF IInv, Typed, TypedRuns, Order, Line
  <1>2. waiters' = waiters \o tokens
    <2>1. CASE tdPc # "idle"
      BY <2>1 DEF Teardown
    <2>2. CASE tdPc = "idle"
      <3>1. waiters = <<>> /\ waiters' = tokens
        BY <1>1, <2>2 DEF Teardown
      <3> QED
        BY <3>1
    <2> QED
      BY <2>1, <2>2
  <1>3. /\ tdPc' # "idle" /\ UNCHANGED <<coreRun, startReply>>
        /\ core' = "starting" => core = "starting"
    BY DEF Teardown, coreVars
  <1>4. ASSUME tokens = <<>> PROVE Members(waiters') = Members(waiters) /\ Distinct(waiters')
    BY <1>1, <1>2, <1>4, JoinNobody
  <1>5. ASSUME NEW t \in Token, tokens = <<t>>, ~InLine(t)
        PROVE  Members(waiters') = Members(waiters) \cup {t} /\ Distinct(waiters')
    BY <1>1, <1>2, <1>5, JoinOne DEF InLine
  <1> QED
    BY <1>3, <1>4, <1>5

LEMMA SwitchKeeps ==
    ASSUME IInv, NEW r \in Runs, Decide(r), started, Wanted # None,
           Wanted # currentRunId \/ forceRestart
    PROVE  Order'
  <1>1. /\ micro = <<>> /\ pc[r] = "decide" /\ pc' = [pc EXCEPT ![r] = "switch"]
        /\ target' = [target EXCEPT ![r] = Wanted]
        /\ Teardown(TRUE, <<RunToken(r)>>)
        /\ UNCHANGED <<started, starting, currentRunId, lifecycleGeneration,
                       restartRequested, latestRequested, pendingPref, netPc, micro,
                       lastCut>>
    BY DEF Decide, At, Macrotask, Move, inputVars
  <1>2. /\ pc \in [Runs -> Place] /\ target \in [Runs -> Profiles \cup {None}]
        /\ RunToken(r) \in Token
    BY DEF IInv, Typed, TypedRuns, Token
  <1>3. /\ pc'[r] = "switch" /\ target'[r] = Wanted
        /\ \A q \in Runs : q # r => pc'[q] = pc[q] /\ target'[q] = target[q]
    BY <1>1, <1>2
  <1>4. ~InLine(RunToken(r))
    BY <1>1 DEF IInv, Order, Line, Asleep
  <1>5. /\ tdPc' # "idle" /\ UNCHANGED <<coreRun, startReply>>
        /\ core' = "starting" => core = "starting"
        /\ Members(waiters') = Members(waiters) \cup {RunToken(r)} /\ Distinct(waiters')
    BY <1>1, <1>2, <1>4, Joined
  <1>6. \A t : InLine(t)' <=> InLine(t) \/ t = RunToken(r)
    BY <1>1, <1>5 DEF InLine
  <1>7. Wanted = latestRequested
    BY DEF IInv, Order, Named, Wanted
  <1>8. Runners' /\ Cuts'
    BY <1>1, <1>3, <1>5 DEF IInv, Order, Runners, Active, Cuts
  <1>9. Line'
    <2>1. \A q \in Runs : pc'[q] \in Asleep <=> InLine(RunToken(q))'
      BY <1>3, <1>6, Tokens DEF IInv, Order, Line, Asleep
    <2>2. netPc' = "down" <=> InLine(NetToken)'
      BY <1>1, <1>6, Tokens DEF IInv, Order, Line
    <2> QED
      BY <1>1, <1>5, <2>1, <2>2 DEF IInv, Order, Line
  <1>10. Named'
    BY <1>1, <1>3, <1>7 DEF IInv, Order, Named
  <1>11. Fresh' /\ Meant'
    BY <1>1, <1>3, <1>7 DEF IInv, Order, Fresh, Meant, Early
  <1>12. Accepted'
    BY <1>1, <1>3, <1>5 DEF IInv, Order, Accepted, Late
  <1>13. Sleepers'
    BY <1>1, <1>3 DEF IInv, Order, Sleepers, Fresh
  <1>14. Ahead' /\ Resolves' /\ Kernel'
    BY <1>5 DEF Ahead, Resolves, Kernel
  <1> QED
    BY <1>8, <1>9, <1>10, <1>11, <1>12, <1>13, <1>14 DEF Order

LEMMA FailedKeeps ==
    ASSUME IInv, NEW r \in Runs, Failed(r)
    PROVE  Order'
  <1>1. /\ micro = <<>> /\ pc[r] = "failed" /\ pc' = [pc EXCEPT ![r] = "rollback"]
        /\ Teardown(TRUE, <<RunToken(r)>>) /\ pendingPref' = None
        /\ UNCHANGED <<started, starting, currentRunId, lifecycleGeneration,
                       restartRequested, latestRequested, target, netPc, micro, lastCut>>
    BY DEF Failed, FailedUnless, At, Macrotask, Move, fieldVars, jobVars, inputVars
  <1>2. pc \in [Runs -> Place] /\ RunToken(r) \in Token
    BY DEF IInv, Typed, TypedRuns, Token
  <1>3. pc'[r] = "rollback" /\ \A q \in Runs : q # r => pc'[q] = pc[q]
    BY <1>1, <1>2
  <1>4. ~InLine(RunToken(r))
    BY <1>1 DEF IInv, Order, Line, Asleep
  <1>5. /\ tdPc' # "idle" /\ UNCHANGED <<coreRun, startReply>>
        /\ core' = "starting" => core = "starting"
        /\ Members(waiters') = Members(waiters) \cup {RunToken(r)} /\ Distinct(waiters')
    BY <1>1, <1>2, <1>4, Joined
  <1>6. \A t : InLine(t)' <=> InLine(t) \/ t = RunToken(r)
    BY <1>1, <1>5 DEF InLine
  <1>7. Runners' /\ Cuts'
    BY <1>1, <1>3, <1>5 DEF IInv, Order, Runners, Active, Cuts
  <1>8. Line'
    <2>1. \A q \in Runs : pc'[q] \in Asleep <=> InLine(RunToken(q))'
      BY <1>3, <1>6, Tokens DEF IInv, Order, Line, Asleep
    <2>2. netPc' = "down" <=> InLine(NetToken)'
      BY <1>1, <1>6, Tokens DEF IInv, Order, Line
    <2> QED
      BY <1>1, <1>5, <2>1, <2>2 DEF IInv, Order, Line
  <1>9. Named'
    BY <1>1, <1>3 DEF IInv, Order, Named, Early
  <1>10. Fresh' /\ Meant'
    BY <1>1, <1>3 DEF IInv, Order, Fresh, Meant, Early
  <1>11. Accepted'
    BY <1>1, <1>3, <1>5 DEF IInv, Order, Accepted, Late
  <1>12. Sleepers'
    BY <1>1, <1>3 DEF IInv, Order, Sleepers
  <1>13. Ahead' /\ Resolves' /\ Kernel'
    BY <1>5 DEF Ahead, Resolves, Kernel
  <1> QED
    BY <1>7, <1>8, <1>9, <1>10, <1>11, <1>12, <1>13 DEF Order

LEMMA CutKeeps ==
    ASSUME IInv, Cut
    PROVE  Order'
  <1>1. /\ micro = <<>> /\ cuts < MaxCuts
        /\ lifecycleGeneration' = lifecycleGeneration + 1
        /\ lastCut' = lifecycleGeneration + 1
        /\ Teardown(FALSE, <<>>)
        /\ UNCHANGED <<started, starting, currentRunId, restartRequested,
                       latestRequested, pendingPref, pc, target, netPc, micro>>
    BY DEF Cut, Macrotask, runVars, jobVars
  <1>2. lifecycleGeneration + 1 \in Runs /\ lifecycleGeneration \in Nat
    BY <1>1, Room, Numbers DEF IInv
  <1>3. pc[lifecycleGeneration + 1] = "new"
    BY <1>2, RunNumbers DEF IInv, Order, Runners
  <1>4. /\ tdPc' # "idle" /\ UNCHANGED <<coreRun, startReply>>
        /\ core' = "starting" => core = "starting"
        /\ Members(waiters') = Members(waiters) /\ Distinct(waiters')
    BY <1>1, Joined
  <1>5. Runners'
    BY <1>1, <1>2, RunNumbers DEF IInv, Order, Runners, Active
  <1>6. Line'
    BY <1>1, <1>4 DEF IInv, Order, Line, InLine
  <1>7. Named'
    BY <1>1 DEF IInv, Order, Named
  <1>8. Fresh' /\ Meant'
    BY <1>1, <1>3 DEF Fresh, Meant, Early
  <1>9. Cuts' /\ Ahead' /\ Resolves' /\ Kernel'
    BY <1>1, <1>3, <1>4 DEF Cuts, Ahead, Resolves, Kernel
  <1>10. Accepted'
    BY <1>1, <1>4 DEF IInv, Order, Accepted
  <1>11. Sleepers'
    BY <1>1, <1>3 DEF IInv, Order, Sleepers
  <1> QED
    BY <1>5, <1>6, <1>7, <1>8, <1>9, <1>10, <1>11 DEF Order

LEMMA NetResetKeeps ==
    ASSUME IInv, NetReset
    PROVE  Order'
  <1>1. /\ micro = <<>> /\ netPc = "timer"
        /\ UNCHANGED <<started, starting, currentRunId, lifecycleGeneration,
                       restartRequested, latestRequested, pc, target, micro, lastCut>>
    BY DEF NetReset, Macrotask, fieldVars, runVars, jobVars, inputVars
  <1>2. CASE ~(started /\ ~starting /\ currentRunId # None)
    <2>1. netPc' = "idle" /\ UNCHANGED <<pendingPref, core, coreRun, startReply, tdPc, waiters>>
      BY <1>2 DEF NetReset, coreVars, teardownVars
    <2> QED
      BY <1>1, <2>1, FrameKeeps
  <1>3. CASE started /\ ~starting /\ currentRunId # None
    <2>1. /\ netPc' = "down" /\ pendingPref' = currentRunId
          /\ Teardown(TRUE, <<NetToken>>)
      BY <1>3 DEF NetReset
    <2>2. ~InLine(NetToken) /\ NetToken \in Token
      BY <1>1 DEF IInv, Order, Line, Token
    <2>3. /\ tdPc' # "idle" /\ UNCHANGED <<coreRun, startReply>>
          /\ core' = "starting" => core = "starting"
          /\ Members(waiters') = Members(waiters) \cup {NetToken} /\ Distinct(waiters')
      BY <1>1, <2>1, <2>2, Joined
    <2>4. \A t : InLine(t)' <=> InLine(t) \/ t = NetToken
      BY <1>1, <2>3 DEF InLine
    <2>5. Runners' /\ Fresh' /\ Meant' /\ Sleepers'
      BY <1>1 DEF IInv, Order, Runners, Active, Fresh, Meant, Sleepers
    <2>6. Line'
      BY <1>1, <2>1, <2>3, <2>4, Tokens DEF IInv, Order, Line
    <2>7. Named'
      BY <1>1, <2>1 DEF IInv, Order, Named
    <2>8. Accepted'
      BY <1>1, <2>3 DEF IInv, Order, Accepted
    <2>9. Cuts' /\ Ahead' /\ Resolves' /\ Kernel'
      BY <1>1, <2>3 DEF IInv, Order, Cuts, Ahead, Resolves, Kernel
    <2> QED
      BY <2>5, <2>6, <2>7, <2>8, <2>9 DEF Order
  <1> QED
    BY <1>2, <1>3

\* Whoever is first in the line resumes.
LEMMA Resumed ==
    ASSUME IInv, micro # <<>>, micro' = Tail(micro), waiters' = waiters
    PROVE  /\ tdPc = "idle" /\ ~started /\ waiters = <<>>
           /\ Distinct(micro')
           /\ \A t : InLine(t)' <=> InLine(t) /\ t # Head(micro)
           /\ \A t : InLine(t)' => micro' # <<>>
  <1>1. /\ micro \in Seq(Token) /\ tdPc = "idle" /\ ~started /\ waiters = <<>>
        /\ Distinct(micro)
    BY DEF IInv, Typed, TypedRuns, Order, Line
  <1>2. Distinct(micro') /\ Members(micro') = Members(micro) \ {Head(micro)}
    BY <1>1, TakeHead
  <1>3. Members(waiters) = {} /\ Members(waiters') = {}
    BY <1>1, NoMembers
  <1>4. \A t : InLine(t)' => micro' # <<>>
    BY <1>3, NoMembers DEF InLine
  <1> QED
    BY <1>1, <1>2, <1>3, <1>4 DEF InLine

\* The end of a run, in the event loop or when it resumes.
Ends(r) ==
    \/ micro = <<>> /\ Finally(r, micro) /\ pc[r] \in {"replay", "clear"}
    \/ micro = <<>> /\ Finally(r, micro) /\ pc[r] = "decide" /\ ~started
    \/ micro # <<>> /\ Finally(r, Tail(micro)) /\ pc[r] = "rollback" /\ Head(micro) = RunToken(r)

LEMMA EndSteps ==
    ASSUME IInv, NEW r \in Runs, Ends(r), waiters' = waiters
    PROVE  /\ micro = <<>> => micro' = <<>>
           /\ Distinct(micro')
           /\ micro' # <<>> => micro # <<>>
           /\ \A t : InLine(t)' <=> InLine(t) /\ ~(pc[r] = "rollback" /\ t = RunToken(r))
           /\ micro # <<>> => \A t : InLine(t)' => micro' # <<>>
           /\ restartRequested' = FALSE /\ pc'[r] = "done"
           /\ \/ /\ restartRequested /\ starting' = TRUE
                 /\ lifecycleGeneration' = lifecycleGeneration + 1
                 /\ lifecycleGeneration + 1 \in Runs /\ r # lifecycleGeneration + 1
                 /\ pc[lifecycleGeneration + 1] = "new"
                 /\ pc'[lifecycleGeneration + 1] = "refresh"
                 /\ \A q \in Runs : q \notin {r, lifecycleGeneration + 1} => pc'[q] = pc[q]
              \/ /\ ~restartRequested /\ starting' = FALSE
                 /\ lifecycleGeneration' = lifecycleGeneration
                 /\ \A q \in Runs : q # r => pc'[q] = pc[q]
  <1>1. /\ micro \in Seq(Token) /\ Distinct(micro)
        /\ callers[r] = <<>> /\ pc \in [Runs -> Place] /\ lifecycleGeneration \in Nat
    BY Numbers DEF IInv, Typed, TypedRuns, Order, Line
  <1>2. /\ micro = <<>> => Finally(r, micro)
        /\ micro # <<>> => Finally(r, Tail(micro)) /\ Tail(micro) \in Seq(Token)
    BY <1>1, TakeHead DEF Ends
  <1>3. micro' = IF micro = <<>> THEN <<>> ELSE Tail(micro)
    <2>1. CASE micro = <<>>
      BY <1>1, <1>2, <2>1, JoinNobody DEF Finally, End
    <2>2. CASE micro # <<>>
      <3>1. micro' = Tail(micro) \o <<>>
        BY <1>1, <1>2, <2>2 DEF Finally, End
      <3> QED
        BY <1>2, <2>2, <3>1, JoinNobody
    <2> QED
      BY <2>1, <2>2
  <1>4. /\ Distinct(micro')
        /\ micro' # <<>> => micro # <<>>
        /\ \A t : InLine(t)' <=> InLine(t) /\ ~(pc[r] = "rollback" /\ t = RunToken(r))
        /\ micro # <<>> => \A t : InLine(t)' => micro' # <<>>
    <2>1. CASE micro = <<>>
      BY <1>3, <2>1, NoMembers DEF InLine, Ends
    <2>2. CASE micro # <<>>
      BY <1>3, <2>2, Resumed DEF Ends
    <2> QED
      BY <2>1, <2>2
  <1>5. pc[r] # "new"
    BY DEF Ends
  <1>6. CASE restartRequested
    <2>1. lifecycleGeneration + 1 \in Runs
      BY <1>6, Room DEF IInv
    <2>2. pc[lifecycleGeneration + 1] = "new"
      BY <1>1, <2>1 DEF IInv, Order, Runners
    <2>3. /\ restartRequested' = FALSE /\ starting' = TRUE
          /\ lifecycleGeneration' = lifecycleGeneration + 1
          /\ pc' = [pc EXCEPT ![r] = "done", ![lifecycleGeneration + 1] = "refresh"]
      BY <1>2, <1>6 DEF Finally, End
    <2> QED
      BY <1>1, <1>3, <1>4, <1>5, <1>6, <2>1, <2>2, <2>3
  <1>7. CASE ~restartRequested
    <2>1. /\ restartRequested' = FALSE /\ starting' = FALSE
          /\ lifecycleGeneration' = lifecycleGeneration
          /\ pc' = [pc EXCEPT ![r] = "done"]
      BY <1>2, <1>7 DEF Finally, End
    <2> QED
      BY <1>1, <1>3, <1>4, <1>7, <2>1
  <1> QED
    BY <1>6, <1>7

LEMMA EndKeeps ==
    ASSUME IInv, NEW r \in Runs, Ends(r),
           pendingPref' \in {pendingPref, None},
           target' = target \/ (pc[r] = "decide" /\ target' = [target EXCEPT ![r] = None]),
           UNCHANGED <<started, currentRunId, latestRequested, core, coreRun,
                       startReply, tdPc, waiters, netPc, lastCut>>
    PROVE  Order'
  <1> DEFINE n == lifecycleGeneration + 1
  <1>1. /\ micro = <<>> => micro' = <<>>
        /\ Distinct(micro')
        /\ micro' # <<>> => micro # <<>>
        /\ \A t : InLine(t)' <=> InLine(t) /\ ~(pc[r] = "rollback" /\ t = RunToken(r))
        /\ micro # <<>> => \A t : InLine(t)' => micro' # <<>>
        /\ restartRequested' = FALSE /\ pc'[r] = "done"
    BY EndSteps
  <1>2. \/ /\ restartRequested /\ starting' = TRUE
           /\ lifecycleGeneration' = n
           /\ n \in Runs /\ r # n
           /\ pc[n] = "new" /\ pc'[n] = "refresh"
           /\ \A q \in Runs : q \notin {r, n} => pc'[q] = pc[q]
        \/ /\ ~restartRequested /\ starting' = FALSE
           /\ lifecycleGeneration' = lifecycleGeneration
           /\ \A q \in Runs : q # r => pc'[q] = pc[q]
    BY EndSteps
  <1>3. lifecycleGeneration \in Nat /\ n > lifecycleGeneration /\ Runs \subseteq Nat
    BY Numbers, RunNumbers DEF IInv
  <1>4. /\ pc[r] \in {"decide", "replay", "clear", "rollback"}
        /\ pc[r] = "decide" => ~started
        /\ pc[r] = "rollback" => micro # <<>>
        /\ pc[r] # "rollback" => micro = <<>>
    BY DEF Ends
  <1>5. target \in [Runs -> Profiles \cup {None}] /\ \A q \in Runs : q # r => target'[q] = target[q]
    BY DEF IInv, Typed, TypedRuns
  <1> HIDE DEF n
  <1>6. Runners'
    <2>1. \A q \in Runs : q > lifecycleGeneration' => pc'[q] = "new"
      <3>1. r <= lifecycleGeneration
        BY <1>3, <1>4 DEF IInv, Order, Runners
      <3>2. ASSUME NEW q \in Runs, q > lifecycleGeneration' PROVE pc'[q] = "new"
        <4>1. lifecycleGeneration' \in {lifecycleGeneration, n} /\ n \in Nat
          BY <1>2, <1>3 DEF n
        <4>2. q > lifecycleGeneration /\ q # r
          BY <1>3, <3>1, <3>2, <4>1
        <4>3. q # n \/ lifecycleGeneration' = lifecycleGeneration
          BY <3>2, <4>1, <1>3
        <4>4. pc'[q] = pc[q]
          BY <1>2, <1>3, <3>2, <4>2, <4>3
        <4> QED
          BY <4>2, <4>4 DEF IInv, Order, Runners
      <3> QED
        BY <3>2
    <2>2. starting' \/ restartRequested' => \E q \in Runs : Active(q)'
      BY <1>1, <1>2 DEF Active
    <2> QED
      BY <2>1, <2>2 DEF Runners
  <1>7. Line'
    <2>1. \A q \in Runs : pc'[q] \in Asleep <=> InLine(RunToken(q))'
      <3> SUFFICES ASSUME NEW q \in Runs PROVE pc'[q] \in Asleep <=> InLine(RunToken(q))'
        OBVIOUS
      <3>1. CASE q = r
        BY <1>1, <1>4, <3>1 DEF IInv, Order, Line, Asleep
      <3>2. CASE q # r
        <4>1. InLine(RunToken(q))' <=> InLine(RunToken(q))
          BY <1>1, <3>2, Tokens
        <4>2. pc'[q] \in Asleep <=> pc[q] \in Asleep
          BY <1>2, <3>2 DEF Asleep
        <4> QED
          BY <4>1, <4>2 DEF IInv, Order, Line
      <3> QED
        BY <3>1, <3>2
    <2>2. netPc' = "down" <=> InLine(NetToken)'
      BY <1>1, Tokens DEF IInv, Order, Line
    <2>3. /\ tdPc' = "idle" => waiters' = <<>>
          /\ micro' # <<>> => tdPc' = "idle" /\ ~started'
          /\ Distinct(waiters') /\ Distinct(micro')
      BY <1>1 DEF IInv, Order, Line
    <2> QED
      BY <2>1, <2>2, <2>3 DEF Line
  <1>8. Named'
    <2>1. \A q \in Runs : pc'[q] \in Early \cup {"switch", "core", "record", "announce"}
              => pc'[q] = pc[q] /\ target'[q] = target[q]
      BY <1>1, <1>2, <1>5 DEF Early
    <2>2. latestRequested = None => \A q \in Runs : target'[q] = None
      BY <1>5 DEF IInv, Order, Named
    <2> QED
      BY <2>1, <2>2 DEF IInv, Order, Named
  <1>9. Fresh'
    BY <1>1, <1>2 DEF IInv, Order, Fresh, Early
  <1>10. Meant'
    BY <1>1, <1>2, <1>5 DEF IInv, Order, Meant, Early
  <1>11. Cuts'
    <2>1. lastCut \in Runs => lastCut # n /\ lastCut # r
      BY <1>3, <1>4 DEF IInv, Typed, TypedFields, Order, Cuts, n
    <2> QED
      BY <1>1, <1>2, <2>1 DEF IInv, Order, Cuts
  <1>12. Ahead'
    BY <1>1, <1>2, <1>4 DEF IInv, Order, Ahead, Cuts, Line
  <1>13. Accepted'
    <2>1. \A q \in Runs : pc[q] \in Late => pc'[q] \in Late
      BY <1>1, <1>2 DEF Late
    <2> QED
      BY <2>1 DEF IInv, Order, Accepted
  <1>14. Sleepers'
    <2> SUFFICES ASSUME NEW q \in Runs, pc'[q] = "switch"
                 PROVE  /\ started' \/ micro' # <<>>
                        /\ \A p \in Runs : p = lifecycleGeneration' => pc'[p] # "core"
      BY DEF Sleepers
    <2>1. q # r /\ pc[q] = "switch"
      BY <1>1, <1>2
    <2>2. started' \/ micro' # <<>>
      <3>1. CASE micro = <<>>
        BY <2>1, <3>1 DEF IInv, Order, Sleepers
      <3>2. CASE micro # <<>>
        <4>1. InLine(RunToken(q))'
          BY <1>1, <2>1, Tokens DEF IInv, Order, Line, Asleep
        <4> QED
          BY <1>1, <3>2, <4>1
      <3> QED
        BY <3>1, <3>2
    <2>3. ASSUME NEW p \in Runs, p = lifecycleGeneration' PROVE pc'[p] # "core"
      BY <1>1, <1>2, <2>1, <2>3 DEF IInv, Order, Sleepers
    <2> QED
      BY <2>2, <2>3
  <1>15. Resolves'
    BY <1>1, <1>2 DEF Resolves
  <1>16. Kernel'
    BY DEF IInv, Order, Kernel
  <1> QED
    BY <1>6, <1>7, <1>8, <1>9, <1>10, <1>11, <1>12, <1>13, <1>14, <1>15, <1>16 DEF Order

\* A tryStart is called, by a Want or by the reset that resumes.
Calls ==
    /\ Enter(pc, <<>>)
    /\ \/ /\ micro = <<>> /\ micro' = <<>> /\ netPc' = netPc /\ wants < MaxWants
          /\ \/ UNCHANGED <<latestRequested, pendingPref>>
             \/ latestRequested' # None
       \/ /\ micro # <<>> /\ Head(micro) = NetToken /\ micro' = Tail(micro)
          /\ netPc' = "idle" /\ UNCHANGED <<latestRequested, pendingPref>>

LEMMA ResetWaits ==
    ASSUME IInv, micro # <<>>, Head(micro) = NetToken
    PROVE  netPc = "down"
  <1>1. Head(micro) \in Members(micro)
    BY TakeHead DEF IInv, Typed, TypedRuns
  <1> QED
    BY <1>1 DEF IInv, Order, Line, InLine

LEMMA CallSteps ==
    ASSUME IInv, Calls, waiters' = waiters
    PROVE  /\ Distinct(micro')
           /\ micro' # <<>> => micro # <<>>
           /\ \A r \in Runs : InLine(RunToken(r))' <=> InLine(RunToken(r))
           /\ netPc' = "down" <=> InLine(NetToken)'
           /\ micro # <<>> => \A t : InLine(t)' => micro' # <<>>
           /\ starting' = TRUE
           /\ \/ /\ starting /\ restartRequested' = TRUE
                 /\ lifecycleGeneration' = lifecycleGeneration /\ pc' = pc
              \/ /\ ~starting /\ restartRequested' = FALSE
                 /\ lifecycleGeneration' = lifecycleGeneration + 1
                 /\ lifecycleGeneration + 1 \in Runs
                 /\ pc[lifecycleGeneration + 1] = "new"
                 /\ pc'[lifecycleGeneration + 1] = "refresh"
                 /\ \A q \in Runs : q # lifecycleGeneration + 1 => pc'[q] = pc[q]
  <1>1. /\ Distinct(micro')
        /\ micro' # <<>> => micro # <<>>
        /\ \A r \in Runs : InLine(RunToken(r))' <=> InLine(RunToken(r))
        /\ netPc' = "down" <=> InLine(NetToken)'
        /\ micro # <<>> => \A t : InLine(t)' => micro' # <<>>
    <2>1. CASE micro = <<>>
      BY <2>1 DEF Calls, IInv, Order, Line, InLine
    <2>2. CASE micro # <<>>
      <3>1. Head(micro) = NetToken /\ micro' = Tail(micro) /\ netPc' = "idle"
        BY <2>2 DEF Calls
      <3>2. /\ Distinct(micro')
            /\ \A t : InLine(t)' <=> InLine(t) /\ t # NetToken
            /\ \A t : InLine(t)' => micro' # <<>>
        BY <2>2, <3>1, Resumed
      <3> QED
        BY <2>2, <3>1, <3>2, Tokens
    <2> QED
      BY <2>1, <2>2
  <1>2. starting \in BOOLEAN /\ pc \in [Runs -> Place] /\ lifecycleGeneration \in Nat
    BY Numbers DEF IInv, Typed, TypedFields, TypedRuns
  <1>3. CASE starting
    <2>1. /\ restartRequested' = TRUE /\ pc' = pc
          /\ UNCHANGED <<starting, lifecycleGeneration>>
      BY <1>3 DEF Calls, Enter, EnterUnless
    <2> QED
      BY <1>1, <1>2, <1>3, <2>1
  <1>4. CASE ~starting
    <2>1. lifecycleGeneration + 1 \in Runs
      <3>1. wants < MaxWants \/ netPc # "idle"
        BY ResetWaits DEF Calls
      <3> QED
        BY <3>1, Room DEF IInv
    <2>2. pc[lifecycleGeneration + 1] = "new"
      BY <1>2, <2>1 DEF IInv, Order, Runners
    <2>3. /\ starting' = TRUE /\ restartRequested' = FALSE
          /\ lifecycleGeneration' = lifecycleGeneration + 1
          /\ pc' = [pc EXCEPT ![lifecycleGeneration + 1] = "refresh"]
      BY <1>4 DEF Calls, Enter, EnterUnless
    <2> QED
      BY <1>1, <1>2, <1>4, <2>1, <2>2, <2>3
  <1> QED
    BY <1>3, <1>4

LEMMA CallKeeps ==
    ASSUME IInv, Calls,
           UNCHANGED <<started, currentRunId, core, coreRun, startReply, tdPc,
                       waiters, target, lastCut>>
    PROVE  Order'
  <1> DEFINE n == lifecycleGeneration + 1
  <1>1. /\ Distinct(micro')
        /\ micro' # <<>> => micro # <<>>
        /\ \A r \in Runs : InLine(RunToken(r))' <=> InLine(RunToken(r))
        /\ netPc' = "down" <=> InLine(NetToken)'
        /\ micro # <<>> => \A t : InLine(t)' => micro' # <<>>
        /\ starting' = TRUE
    BY CallSteps
  <1>2. \/ /\ starting /\ restartRequested' = TRUE
           /\ lifecycleGeneration' = lifecycleGeneration /\ pc' = pc
        \/ /\ ~starting /\ restartRequested' = FALSE
           /\ lifecycleGeneration' = n
           /\ n \in Runs /\ pc[n] = "new" /\ pc'[n] = "refresh"
           /\ \A q \in Runs : q # n => pc'[q] = pc[q]
    BY CallSteps
  <1>3. lifecycleGeneration \in Nat /\ n \in Nat /\ n > lifecycleGeneration /\ Runs \subseteq Nat
    BY Numbers, RunNumbers DEF IInv
  <1>4. \/ UNCHANGED <<latestRequested, pendingPref>>
        \/ latestRequested' # None
    BY DEF Calls
  <1> HIDE DEF n
  <1>5. Runners'
    <2>1. \A q \in Runs : q > lifecycleGeneration' => pc'[q] = "new"
      <3>1. ASSUME NEW q \in Runs, q > lifecycleGeneration' PROVE pc'[q] = "new"
        <4>1. q > lifecycleGeneration /\ pc'[q] = pc[q]
          BY <1>2, <1>3, <3>1
        <4> QED
          BY <4>1 DEF IInv, Order, Runners
      <3> QED
        BY <3>1
    <2>2. \E q \in Runs : Active(q)'
      BY <1>2 DEF IInv, Order, Runners, Active
    <2> QED
      BY <2>1, <2>2 DEF Runners
  <1>6. Line'
    <2>1. \A q \in Runs : pc'[q] \in Asleep <=> pc[q] \in Asleep
      BY <1>2 DEF Asleep
    <2> QED
      BY <1>1, <2>1 DEF IInv, Order, Line
  <1>7. Named'
    <2>1. \A q \in Runs : pc'[q] \in Early \cup {"switch", "core", "record", "announce"}
              => pc'[q] = pc[q]
      BY <1>2 DEF Early
    <2> QED
      BY <1>4, <2>1 DEF IInv, Order, Named
  <1>8. Fresh'
    BY <1>2 DEF IInv, Order, Fresh, Early
  <1>9. Meant'
    BY <1>2 DEF Meant, Early
  <1>10. Cuts'
    <2>1. lastCut \in Runs => lastCut # n
      BY <1>3 DEF IInv, Typed, TypedFields
    <2> QED
      BY <1>2, <2>1 DEF IInv, Order, Cuts
  <1>11. Ahead'
    BY <1>2 DEF Ahead
  <1>12. Accepted'
    <2>1. \A q \in Runs : pc[q] \in Late => pc'[q] \in Late
      BY <1>2 DEF Late
    <2> QED
      BY <2>1 DEF IInv, Order, Accepted
  <1>13. Sleepers'
    <2> SUFFICES ASSUME NEW q \in Runs, pc'[q] = "switch"
                 PROVE  /\ started' \/ micro' # <<>>
                        /\ \A p \in Runs : p = lifecycleGeneration' => pc'[p] # "core"
      BY DEF Sleepers
    <2>1. pc[q] = "switch"
      BY <1>2
    <2>2. started' \/ micro' # <<>>
      <3>1. CASE micro = <<>>
        BY <2>1, <3>1 DEF IInv, Order, Sleepers
      <3>2. CASE micro # <<>>
        <4>1. InLine(RunToken(q))'
          BY <1>1, <2>1 DEF IInv, Order, Line, Asleep
        <4> QED
          BY <1>1, <3>2, <4>1
      <3> QED
        BY <3>1, <3>2
    <2>3. ASSUME NEW p \in Runs, p = lifecycleGeneration' PROVE pc'[p] # "core"
      BY <1>2, <2>1, <2>3 DEF IInv, Order, Sleepers
    <2> QED
      BY <2>2, <2>3
  <1>14. Resolves'
    BY <1>2 DEF IInv, Order, Resolves
  <1>15. Kernel'
    BY DEF IInv, Order, Kernel
  <1> QED
    BY <1>5, <1>6, <1>7, <1>8, <1>9, <1>10, <1>11, <1>12, <1>13, <1>14, <1>15 DEF Order

\* A run that switches resumes, and loads.
LEMMA LoadNextKeeps ==
    ASSUME IInv, NEW r \in Runs, ResumeRun(r), pc[r] = "switch"
    PROVE  Order'
  <1>1. /\ micro # <<>> /\ Head(micro) = RunToken(r) /\ micro' = Tail(micro)
        /\ pc' = [pc EXCEPT ![r] = "load"] /\ starting' = TRUE
        /\ UNCHANGED <<started, currentRunId, lifecycleGeneration, restartRequested,
                       latestRequested, pendingPref, core, coreRun, startReply, tdPc,
                       waiters, target, netPc, lastCut>>
    BY DEF ResumeRun, Move, requestVars, coreVars, teardownVars, jobVars, inputVars
  <1>2. /\ pc'[r] = "load" /\ \A q \in Runs : q # r => pc'[q] = pc[q]
    BY <1>1 DEF IInv, Typed, TypedRuns
  <1>3. /\ tdPc = "idle" /\ ~started /\ Distinct(micro')
        /\ \A t : InLine(t)' <=> InLine(t) /\ t # RunToken(r)
        /\ \A t : InLine(t)' => micro' # <<>>
    BY <1>1, Resumed
  <1>4. Runners' /\ Cuts'
    BY <1>1, <1>2 DEF IInv, Order, Runners, Active, Cuts
  <1>5. Line'
    <2>1. \A q \in Runs : pc'[q] \in Asleep <=> InLine(RunToken(q))'
      BY <1>2, <1>3, Tokens DEF IInv, Order, Line, Asleep
    <2> QED
      BY <1>1, <1>3, <2>1, Tokens DEF IInv, Order, Line
  <1>6. Named'
    <2>1. \A q \in Runs : pc'[q] \in Early \cup {"switch", "core", "record", "announce"}
              => pc[q] \in Early \cup {"switch", "core", "record", "announce"}
      BY <1>2
    <2> QED
      BY <1>1, <2>1 DEF IInv, Order, Named
  <1>7. Fresh' /\ Ahead' /\ Kernel'
    BY <1>1, <1>3 DEF Fresh, Ahead, Kernel
  <1>8. Meant'
    BY <1>1, <1>2 DEF IInv, Order, Meant, Early
  <1>9. Accepted'
    BY <1>1, <1>2 DEF IInv, Order, Accepted, Late
  <1>10. Sleepers'
    <2> SUFFICES ASSUME NEW q \in Runs, pc'[q] = "switch"
                 PROVE  /\ started' \/ micro' # <<>>
                        /\ \A p \in Runs : p = lifecycleGeneration' => pc'[p] # "core"
      BY DEF Sleepers
    <2>1. q # r /\ pc[q] = "switch"
      BY <1>2
    <2>2. InLine(RunToken(q))'
      BY <1>3, <2>1, Tokens DEF IInv, Order, Line, Asleep
    <2> QED
      BY <1>1, <1>2, <1>3, <2>1, <2>2 DEF IInv, Order, Sleepers
  <1>11. Resolves'
    <2>1. \A q \in Runs : q = lifecycleGeneration' => pc'[q] # "core"
      BY <1>1, <1>2 DEF IInv, Order, Sleepers
    <2> QED
      BY <2>1 DEF Resolves
  <1> QED
    BY <1>4, <1>5, <1>6, <1>7, <1>8, <1>9, <1>10, <1>11 DEF Order

\* A decision that does not switch: replay the state, or load.
LEMMA ChoiceKeeps ==
    ASSUME IInv, NEW r \in Runs, Decide(r), Wanted # None,
           ~(started /\ (Wanted # currentRunId \/ forceRestart))
    PROVE  Order'
  <1>1. /\ micro = <<>> /\ pc[r] = "decide"
        /\ target' = [target EXCEPT ![r] = Wanted]
        /\ UNCHANGED <<started, starting, currentRunId, lifecycleGeneration,
                       restartRequested, latestRequested, pendingPref, core, coreRun,
                       startReply, tdPc, waiters, netPc, micro, lastCut>>
        /\ \/ started /\ Wanted = currentRunId /\ pc' = [pc EXCEPT ![r] = "replay"]
           \/ ~started /\ pc' = [pc EXCEPT ![r] = "load"]
    BY DEF Decide, At, Macrotask, Move, coreVars, teardownVars, inputVars
  <1>2. pc \in [Runs -> Place] /\ target \in [Runs -> Profiles \cup {None}]
    BY DEF IInv, Typed, TypedRuns
  <1>3. /\ pc'[r] \in {"replay", "load"} /\ target'[r] = Wanted
        /\ pc'[r] = "replay" => started /\ Wanted = currentRunId
        /\ pc'[r] = "load" => ~started
        /\ \A q \in Runs : q # r => pc'[q] = pc[q] /\ target'[q] = target[q]
    BY <1>1, <1>2
  <1>4. Wanted = latestRequested
    BY DEF IInv, Order, Named, Wanted
  <1>5. Runners' /\ Cuts'
    BY <1>1, <1>3 DEF IInv, Order, Runners, Active, Cuts
  <1>6. Line'
    BY <1>1, <1>3 DEF IInv, Order, Line, InLine, Asleep
  <1>7. Named'
    BY <1>1, <1>3, <1>4 DEF IInv, Order, Named
  <1>8. Fresh' /\ Meant'
    BY <1>1, <1>3, <1>4 DEF IInv, Order, Fresh, Meant, Early
  <1>9. Ahead'
    BY <1>1, <1>3, <1>4 DEF IInv, Order, Ahead, Cuts
  <1>10. Accepted'
    BY <1>1, <1>3 DEF IInv, Order, Accepted, Late
  <1>11. Sleepers' /\ Resolves'
    BY <1>1, <1>3 DEF IInv, Order, Sleepers, Resolves
  <1>12. Kernel'
    BY <1>1 DEF IInv, Order, Kernel
  <1> QED
    BY <1>5, <1>6, <1>7, <1>8, <1>9, <1>10, <1>11, <1>12 DEF Order

\* A decision to start nothing.
LEMMA NothingKeeps ==
    ASSUME IInv, NEW r \in Runs, Decide(r), Wanted = None
    PROVE  Order'
  <1>1. /\ micro = <<>> /\ pc[r] = "decide" /\ Finally(r, micro)
        /\ target' = [target EXCEPT ![r] = None]
        /\ UNCHANGED <<started, currentRunId, latestRequested, pendingPref, core,
                       coreRun, startReply, tdPc, waiters, netPc, lastCut>>
    BY DEF Decide, At, Macrotask, coreVars, teardownVars, inputVars
  <1>2. ~started
    BY DEF IInv, Order, Named, Wanted
  <1>3. Ends(r)
    BY <1>1, <1>2 DEF Ends
  <1> QED
    BY <1>1, <1>3, EndKeeps

LEMMA ClearKeeps ==
    ASSUME IInv, NEW r \in Runs, Clear(r)
    PROVE  Order'
  <1>1. /\ Ends(r) /\ pendingPref' = None
        /\ UNCHANGED <<started, currentRunId, latestRequested, core, coreRun,
                       startReply, tdPc, waiters, target, netPc, lastCut>>
    BY DEF Clear, Ends, Macrotask, coreVars, teardownVars, jobVars, inputVars
  <1> QED
    BY <1>1, EndKeeps

LEMMA RolledBackKeeps ==
    ASSUME IInv, NEW r \in Runs, ResumeRun(r), pc[r] # "switch"
    PROVE  Order'
  <1>1. /\ Ends(r)
        /\ UNCHANGED <<started, currentRunId, latestRequested, pendingPref, core,
                       coreRun, startReply, tdPc, waiters, target, netPc, lastCut>>
    BY DEF ResumeRun, Ends, requestVars, coreVars, teardownVars, jobVars, inputVars
  <1> QED
    BY <1>1, EndKeeps

LEMMA WantKeeps ==
    ASSUME IInv, NEW p \in Profiles \cup {None}, NEW force \in BOOLEAN, Want(p, force)
    PROVE  Order'
  <1>1. /\ Calls
        /\ UNCHANGED <<started, currentRunId, core, coreRun, startReply, tdPc,
                       waiters, target, lastCut>>
    BY DEF Want, Calls, Macrotask, coreVars, teardownVars, jobVars
  <1> QED
    BY <1>1, CallKeeps

LEMMA ResumeNetKeeps ==
    ASSUME IInv, ResumeNet
    PROVE  Order'
  <1>1. /\ Calls
        /\ UNCHANGED <<started, currentRunId, core, coreRun, startReply, tdPc,
                       waiters, target, lastCut>>
    BY DEF ResumeNet, Calls, requestVars, coreVars, teardownVars, jobVars, inputVars
  <1> QED
    BY <1>1, CallKeeps

(***************************************************************************)
(* The invariant.                                                          *)
(***************************************************************************)

LEMMA InitInv == Init => IInv
  <1> SUFFICES ASSUME Init PROVE IInv
    OBVIOUS
  <1>1. Typed
    <2>1. TypedFields
      <3>1. 0 \in 0..MaxWants /\ 0 \in 0..MaxCuts /\ 0 \in 0..MaxNets /\ 0 \in 0..0
        BY RunNumbers
      <3>2. status.profile = None
        BY DEF Init
      <3> QED
        BY <3>1, <3>2 DEF Init, TypedFields
    <2>2. TypedWorld
      <3>1. 1 \in 1..(MaxSaves + 1) /\ 1 \in 1..1
        BY RunNumbers
      <3> QED
        BY <3>1 DEF Init, TypedWorld
    <2>3. TypedRuns
      BY RunNumbers DEF Init, TypedRuns, Place
    <2> QED
      BY <2>1, <2>2, <2>3 DEF Typed
  <1>2. Counted
    BY DEF Init, Counted, RestartOwed, ResetOwed
  <1>3. \A t : ~InLine(t)
    BY NoMembers DEF Init, InLine
  <1>4. \A r \in Runs : pc[r] = "new" /\ target[r] = None /\ startReply[r] = "none"
    BY DEF Init
  <1>5. Runners /\ Named /\ Fresh /\ Meant /\ Cuts
    BY <1>4, RunNumbers DEF Init, Runners, Named, Fresh, Meant, Cuts, Early
  <1>6. Line
    BY <1>3, <1>4, NoMembers DEF Init, Line, Asleep
  <1>7. Ahead /\ Accepted /\ Sleepers /\ Resolves /\ Kernel
    BY <1>4, RunNumbers DEF Init, Ahead, Accepted, Sleepers, Resolves, Kernel
  <1> QED
    BY <1>1, <1>2, <1>5, <1>6, <1>7 DEF IInv, Order

LEMMA StepInv == IInv /\ [Next]_vars => IInv'
  <1> SUFFICES ASSUME IInv, [Next]_vars PROVE IInv'
    OBVIOUS
  <1>1. Typed /\ Counted
    BY DEF IInv
  <1>2. ASSUME NEW r \in Runs, RunStep(r) PROVE IInv'
    <2>1. CASE Refresh(r)
      BY <2>1, <1>1, RefreshTyped, PlaceKeeps DEF IInv
    <2>2. CASE Decide(r)
      <3>1. Order'
        BY <2>2, NothingKeeps, SwitchKeeps, ChoiceKeeps
      <3> QED
        BY <2>2, <3>1, <1>1, DecideTyped DEF IInv
    <2>3. CASE Clear(r)
      BY <2>3, <1>1, ClearTyped, ClearKeeps DEF IInv
    <2>4. CASE Throw(r)
      BY <2>4, <1>1, ThrowTyped, PlaceKeeps DEF IInv
    <2>5. CASE Load(r)
      BY <2>5, <1>1, LoadTyped, PlaceKeeps DEF IInv
    <2>6. CASE Write(r)
      BY <2>6, <1>1, WriteTyped, PlaceKeeps DEF IInv
    <2>7. CASE Gate(r)
      BY <2>7, <1>1, GateTyped, PlaceKeeps DEF IInv
    <2>8. CASE Clean(r)
      BY <2>8, <1>1, CleanTyped, PlaceKeeps DEF IInv
    <2>9. CASE Auth(r)
      BY <2>9, <1>1, AuthTyped, PlaceKeeps DEF IInv
    <2>10. CASE Protect(r)
      BY <2>10, <1>1, ProtectTyped, AskKeeps, PlaceKeeps DEF IInv
    <2>11. CASE CoreRejected(r)
      BY <2>11, <1>1, CoreRejectedTyped, PlaceKeeps DEF IInv
    <2>12. CASE CoreResolved(r)
      BY <2>12, <1>1, CoreResolvedTyped, UpKeeps, PlaceKeeps DEF IInv
    <2>13. CASE Record(r)
      BY <2>13, <1>1, RecordTyped, PlaceKeeps DEF IInv
    <2>14. CASE Announce(r)
      BY <2>14, <1>1, AnnounceTyped, PlaceKeeps DEF IInv
    <2>15. CASE Failed(r)
      BY <2>15, <1>1, FailedTyped, FailedKeeps DEF IInv
    <2>16. CASE ResumeRun(r)
      BY <2>16, <1>1, ResumeRunTyped, LoadNextKeeps, RolledBackKeeps DEF IInv
    <2> QED
      BY <1>2, <2>1, <2>2, <2>3, <2>4, <2>5, <2>6, <2>7, <2>8, <2>9, <2>10, <2>11,
         <2>12, <2>13, <2>14, <2>15, <2>16 DEF RunStep
  <1>3. CASE TeardownStep
    <2>1. CASE TdStopped
      BY <2>1, <1>1, TdStoppedTyped, TeardownKeeps DEF IInv
    <2>2. CASE TdDestroyed
      BY <2>2, <1>1, TdDestroyedTyped, TeardownKeeps DEF IInv
    <2>3. CASE TdPersisted
      BY <2>3, <1>1, TdPersistedTyped, DownKeeps DEF IInv
    <2> QED
      BY <1>3, <2>1, <2>2, <2>3 DEF TeardownStep
  <1>4. CASE CoreStep
    <2>1. Typed' /\ Counted'
      BY <1>4, <1>1, CoreUpTyped, CoreNotUpTyped, CoreDownTyped DEF CoreStep
    <2> QED
      BY <1>4, <2>1, CoreKeeps DEF IInv
  <1>5. CASE NetStep
    <2>1. CASE NetReset
      BY <2>1, <1>1, NetResetTyped, NetResetKeeps DEF IInv
    <2>2. CASE ResumeNet
      <3>1. netPc = "down"
        BY <2>2, ResetWaits DEF ResumeNet
      <3> QED
        BY <2>2, <3>1, <1>1, ResumeNetTyped, ResumeNetKeeps DEF IInv
    <2> QED
      BY <1>5, <2>1, <2>2 DEF NetStep
  <1>6. CASE Input
    <2>1. ASSUME NEW p \in Profiles \cup {None}, NEW force \in BOOLEAN, Want(p, force)
          PROVE  IInv'
      BY <2>1, <1>1, WantTyped, WantKeeps DEF IInv
    <2>2. CASE Cut
      BY <2>2, <1>1, CutTyped, CutKeeps DEF IInv
    <2>3. CASE NetChange
      <3>1. /\ netPc' = "down" <=> netPc = "down"
            /\ UNCHANGED <<started, starting, currentRunId, lifecycleGeneration,
                           restartRequested, latestRequested, pendingPref, core,
                           coreRun, startReply, tdPc, waiters, target, pc, micro,
                           lastCut>>
        BY <2>3 DEF NetChange, fieldVars, requestVars, coreVars, teardownVars, runVars, jobVars
      <3> QED
        BY <2>3, <3>1, <1>1, NetChangeTyped, FrameKeeps DEF IInv
    <2>4. CASE Save
      <3>1. UNCHANGED <<started, starting, currentRunId, lifecycleGeneration,
                        restartRequested, latestRequested, pendingPref, core,
                        coreRun, startReply, tdPc, waiters, target, pc, micro,
                        lastCut, netPc>>
        BY <2>4 DEF Save, fieldVars, requestVars, coreVars, teardownVars, runVars,
                    jobVars, inputVars
      <3> QED
        BY <2>4, <3>1, <1>1, SaveTyped, FrameKeeps DEF IInv
    <2> QED
      BY <1>6, <2>1, <2>2, <2>3, <2>4 DEF Input
  <1>7. CASE UNCHANGED vars
    <2>1. UNCHANGED <<started, starting, currentRunId, lifecycleGeneration,
                      restartRequested, latestRequested, pendingPref, core,
                      coreRun, startReply, tdPc, waiters, target, pc, micro,
                      lastCut, netPc>>
      BY <1>7 DEF vars, fieldVars, requestVars, coreVars, teardownVars, runVars,
                  jobVars, inputVars
    <2> QED
      BY <1>7, <2>1, <1>1, TypedFrame, FrameKeeps DEF IInv
  <1> QED
    BY <1>2, <1>3, <1>4, <1>5, <1>6, <1>7 DEF Next

(***************************************************************************)
(* What it is for.                                                         *)
(***************************************************************************)

LEMMA InvImplies == IInv => TypeOK /\ LatestWins /\ NotStuck /\ CutHolds
  <1> SUFFICES ASSUME IInv PROVE TypeOK /\ LatestWins /\ NotStuck /\ CutHolds
    OBVIOUS
  <1>1. TypeOK
    <2>1. /\ {started, starting, restartRequested, forceRestart, netListening,
              connection, coreCancelled, tdSilent, tdStopped} \subseteq BOOLEAN
          /\ {currentRunId, latestRequested, pendingPref, runningPref,
              status.profile} \subseteq Profiles \cup {None}
      BY DEF IInv, Typed, TypedFields, TypedWorld
    <2> QED
      BY <2>1 DEF IInv, Typed, TypedFields, TypedWorld, TypedRuns, Place, TypeOK
  <1>2. Idle => ~starting /\ ~restartRequested
    BY DEF IInv, Typed, TypedFields, Order, Runners, Active, Idle
  <1>3. NotStuck
    BY <1>2 DEF NotStuck
  <1>4. LatestWins
    BY <1>2 DEF IInv, Order, Ahead, Cuts, Quiet, Idle, LatestWins
  <1>5. CutHolds
    BY DEF IInv, Order, Kernel, Idle, CutHolds
  <1> QED
    BY <1>1, <1>3, <1>4, <1>5

\* The invariant holds in every reachable state.
THEOREM Invariant == Spec => []IInv
  BY InitInv, StepInv, PTL DEF Spec

\* Every variable of the extension keeps its type, and the generations that the
\* calls of tryStart take never run out.
THEOREM TypeCorrect == Spec => []TypeOK
  BY Invariant, InvImplies, PTL

\* The latest Want that named a profile wins (VpnExtAbility, tryStart and its
\* finally block): a session that stands at rest is of that profile, whatever
\* was queued, cut or reset meanwhile.
THEOREM LatestWantWins == Spec => []LatestWins
  BY Invariant, InvImplies, PTL

\* `starting' does not stick, and no noted request is left behind, on any path
\* through tryStart, its catch and its finally block.
THEOREM NeverStuck == Spec => []NotStuck
  BY Invariant, InvImplies, PTL

\* onDisconnect and onDestroy are not undone by a start that was under way.
THEOREM CutsHold == Spec => []CutHolds
  BY Invariant, InvImplies, PTL

(***************************************************************************)
(* Without disconnects and network resets: one run at a time.              *)
(***************************************************************************)

\* Only the last run is active; the teardown is its own, and silent.
Alone ==
    /\ netPc = "idle"
    /\ \A r \in Runs : Active(r) => r = lifecycleGeneration /\ (starting \/ micro # <<>>)
    /\ tdPc # "idle" => tdSilent /\ \E r \in Runs : pc[r] \in Asleep

\* A kernel that runs, or will, is that of the session or of the run that
\* asked for it, and read that run's config.
KernelOwned ==
    /\ core = "running" => /\ coreRun \in Runs /\ tdPc = "idle" /\ coreConf = coreRun
                           /\ started \/ pc[coreRun] \in {"core", "failed"}
    /\ core = "starting" /\ ~coreCancelled =>
           /\ coreRun \in Runs /\ tdPc = "idle" /\ configFile = coreRun
           /\ pc[coreRun] \in {"core", "failed"}

\* The config and the tunnel are of the run that builds.
Built ==
    \A r \in Runs : /\ pc[r] \in {"gate", "clean", "auth", "protect", "core"} =>
                           configFile = r
                    /\ pc[r] \in {"protect", "core"} => tunnel = r

\* What stands is one session: tunnel, profile and kernel are of one run.
Session ==
    /\ started /\ tdPc = "idle" => tunnel = coreRun /\ target[coreRun] = currentRunId
    /\ ~started => currentRunId = None /\ runningPref = None
    /\ tdPc = "persist" => currentRunId = None
    /\ \A r \in Runs : pc[r] \in {"record", "announce"} => started /\ coreRun = r

\* What was published and what Preferences keep.
Told ==
    /\ started /\ tdPc = "idle" =>
           /\ \/ pc[lifecycleGeneration] \in {"record", "announce", "failed"}
              \/ status = [text |-> "connected", profile |-> currentRunId]
           /\ \/ pc[lifecycleGeneration] \in {"record", "failed"}
              \/ runningPref = currentRunId
    /\ status.text = "connected" => started \/ \E r \in Runs : pc[r] = "rollback"
    /\ \A r \in Runs : pc[r] = "switch" => status.text # "connected"

Sole == Alone /\ KernelOwned /\ Built /\ Session /\ Told
SInv == IInv /\ Sole

\* The run that is awake is the only one.
LEMMA OnlyOne ==
    ASSUME SInv, NEW r \in Runs, micro = <<>>, pc[r] \notin {"new", "done"} \cup Asleep
    PROVE  /\ r = lifecycleGeneration /\ starting /\ tdPc = "idle"
           /\ \A q \in Runs : q # r => pc[q] \in {"new", "done"}
           /\ pc \in [Runs -> Place] /\ target \in [Runs -> Profiles \cup {None}]
           /\ core = "running" \/ (core = "starting" /\ ~coreCancelled) =>
                  coreRun = r \/ started
  <1>1. pc \in [Runs -> Place] /\ target \in [Runs -> Profiles \cup {None}]
    BY DEF SInv, IInv, Typed, TypedRuns
  <1>2. r = lifecycleGeneration /\ starting /\ \A q \in Runs : q # r => pc[q] \in {"new", "done"}
    BY DEF SInv, Sole, Alone, Active
  <1>3. tdPc = "idle"
    BY <1>2 DEF SInv, Sole, Alone, Asleep
  <1>4. core = "running" \/ (core = "starting" /\ ~coreCancelled) => coreRun = r \/ started
    BY <1>2 DEF SInv, Sole, KernelOwned
  <1> QED
    BY <1>1, <1>2, <1>3, <1>4

\* An awake run moves on and stays awake.
LEMMA AwakeAlone ==
    ASSUME SInv, NEW r \in Runs, micro = <<>>, pc[r] \notin {"new", "done"} \cup Asleep,
           NEW b, b \notin {"new", "done"} \cup Asleep, pc' = [pc EXCEPT ![r] = b],
           UNCHANGED <<netPc, lifecycleGeneration, starting, micro, tdPc, tdSilent>>
    PROVE  /\ Alone' /\ pc'[r] = b
           /\ \A q \in Runs : q # r => pc'[q] = pc[q] /\ pc'[q] \in {"new", "done"}
  BY OnlyOne DEF SInv, Sole, Alone, Active, Asleep

\* A move that touches neither the kernel, the tunnel, the config nor the session.
LEMMA PlainSole ==
    ASSUME SInv, NEW r \in Runs, micro = <<>>, pc[r] \notin {"new", "done"} \cup Asleep,
           NEW b, pc' = [pc EXCEPT ![r] = b],
           \/ pc[r] = "refresh" /\ b = "decide"
           \/ pc[r] = "load" /\ b = "write"
           \/ b = "failed",
           UNCHANGED <<netPc, lifecycleGeneration, starting, micro, tdPc, tdSilent,
                       core, coreRun, coreConf, coreCancelled, configFile, tunnel,
                       started, target, currentRunId, runningPref, status>>
    PROVE  Sole'
  <1>1. /\ r = lifecycleGeneration /\ starting /\ tdPc = "idle"
        /\ \A q \in Runs : q # r => pc[q] \in {"new", "done"}
    BY OnlyOne
  <1>2. b \notin {"new", "done"} \cup Asleep
    BY DEF Asleep
  <1>3. /\ Alone' /\ pc'[r] = b
        /\ \A q \in Runs : q # r => pc'[q] = pc[q]
    BY <1>2, AwakeAlone
  <1>4. KernelOwned'
    BY <1>1, <1>3 DEF SInv, Sole, KernelOwned
  <1>5. Built' /\ Session'
    BY <1>1, <1>3 DEF SInv, Sole, Built, Session
  <1>6. Told'
    BY <1>1, <1>3 DEF SInv, Sole, Told, Asleep
  <1> QED
    BY <1>3, <1>4, <1>5, <1>6 DEF Sole

LEMMA PlainSteps ==
    ASSUME SInv, NEW r \in Runs,
           \/ Refresh(r) \/ Throw(r) \/ Load(r)
           \/ Protect(r) /\ core # "stopped"
           \/ CoreRejected(r)
           \/ CoreResolved(r) /\ ~(starting /\ r = lifecycleGeneration)
    PROVE  Sole'
  <1>1. micro = <<>> /\ pc[r] \notin {"new", "done"} \cup Asleep
    BY DEF Refresh, Throw, Load, Protect, CoreRejected, CoreResolved, UpIf, At, Macrotask,
           Asleep
  <1>2. \E b : /\ pc' = [pc EXCEPT ![r] = b]
               /\ \/ pc[r] = "refresh" /\ b = "decide"
                  \/ pc[r] = "load" /\ b = "write"
                  \/ b = "failed"
    BY DEF Refresh, Throw, Load, Protect, CoreRejected, CoreResolved, UpIf, At, Move
  <1>3. UNCHANGED <<netPc, lifecycleGeneration, starting, micro, tdPc, tdSilent,
                    core, coreRun, coreConf, coreCancelled, configFile, tunnel,
                    started, target, currentRunId, runningPref, status>>
    <2>1. CASE Refresh(r)
      BY <2>1 DEF Refresh, fieldVars, platformVars, coreVars, teardownVars, jobVars
    <2> USE DEF StartVpnFrame, platformVars, coreVars, teardownVars, jobVars
    <2>2. CASE Throw(r) \/ Load(r) \/ CoreRejected(r)
      BY <2>2 DEF Throw, Load, CoreRejected
    <2>3. CASE Protect(r) /\ core # "stopped"
      BY <2>3 DEF Protect
    <2>4. CASE CoreResolved(r) /\ ~(starting /\ r = lifecycleGeneration)
      BY <2>4 DEF CoreResolved, UpIf
    <2> QED
      BY <2>1, <2>2, <2>3, <2>4
  <1> QED
    BY <1>1, <1>2, <1>3, PlainSole

LEMMA WriteSole ==
    ASSUME SInv, NEW r \in Runs, Write(r)
    PROVE  Sole'
  <1>1. /\ micro = <<>> /\ pc[r] = "write" /\ pc' = [pc EXCEPT ![r] = "gate"]
        /\ configFile' = r
        /\ UNCHANGED <<netPc, lifecycleGeneration, starting, micro, tdPc, tdSilent,
                       core, coreRun, coreConf, coreCancelled, tunnel, started, target,
                       currentRunId, runningPref, status>>
    BY DEF Write, WriteAs, At, Macrotask, Move, StartVpnFrame, platformVars, coreVars,
           teardownVars
  <1>2. /\ r = lifecycleGeneration /\ starting /\ tdPc = "idle"
        /\ \A q \in Runs : q # r => pc[q] \in {"new", "done"}
    BY <1>1, OnlyOne DEF Asleep
  <1>3. /\ Alone' /\ pc'[r] = "gate"
        /\ \A q \in Runs : q # r => pc'[q] = pc[q]
    BY <1>1, AwakeAlone DEF Asleep
  <1>4. KernelOwned'
    BY <1>1, <1>2, <1>3 DEF SInv, Sole, KernelOwned
  <1>5. Built' /\ Session'
    BY <1>1, <1>2, <1>3 DEF SInv, Sole, Built, Session
  <1>6. Told'
    BY <1>1, <1>2, <1>3 DEF SInv, Sole, Told
  <1> QED
    BY <1>3, <1>4, <1>5, <1>6 DEF Sole

LEMMA GateSole ==
    ASSUME SInv, NEW r \in Runs, Gate(r) \/ Clean(r) \/ Auth(r)
    PROVE  Sole'
  <1>1. /\ micro = <<>> /\ pc[r] \in {"gate", "clean", "auth"}
        /\ \E b \in {"clean", "auth", "protect", "failed"} :
               /\ pc' = [pc EXCEPT ![r] = b]
               /\ b = "protect" => tunnel' = r
        /\ status' = status \/ status'.text = "awaiting_auth"
        /\ UNCHANGED <<netPc, lifecycleGeneration, starting, micro, tdPc, tdSilent,
                       core, coreRun, coreConf, coreCancelled, configFile, started,
                       target, currentRunId, runningPref>>
    BY DEF Gate, Clean, Auth, At, Macrotask, Move, StartVpnFrame, coreVars, teardownVars,
           jobVars, Publish
  <1>2. /\ r = lifecycleGeneration /\ starting /\ tdPc = "idle"
        /\ \A q \in Runs : q # r => pc[q] \in {"new", "done"}
    BY <1>1, OnlyOne DEF Asleep
  <1>3. /\ Alone' /\ pc'[r] \in {"clean", "auth", "protect", "failed"}
        /\ pc'[r] = "protect" => tunnel' = r
        /\ \A q \in Runs : q # r => pc'[q] = pc[q]
    BY <1>1, AwakeAlone DEF Asleep
  <1>4. ~started
    BY <1>1, <1>2 DEF SInv, IInv, Order, Fresh, Early
  <1>5. KernelOwned'
    BY <1>1, <1>2, <1>3 DEF SInv, Sole, KernelOwned
  <1>6. Built' /\ Session'
    BY <1>1, <1>2, <1>3, <1>4 DEF SInv, Sole, Built, Session
  <1>7. Told'
    BY <1>1, <1>2, <1>3, <1>4 DEF SInv, Sole, Told
  <1> QED
    BY <1>3, <1>5, <1>6, <1>7 DEF Sole

LEMMA AskSole ==
    ASSUME SInv, NEW r \in Runs, Protect(r), core = "stopped"
    PROVE  Sole'
  <1>1. /\ micro = <<>> /\ pc[r] = "protect" /\ pc' = [pc EXCEPT ![r] = "core"]
        /\ core' = "starting" /\ coreRun' = r
        /\ UNCHANGED <<netPc, lifecycleGeneration, starting, micro, tdPc, tdSilent,
                       configFile, tunnel, started, target, currentRunId, runningPref,
                       status>>
    BY DEF Protect, At, Macrotask, Move, StartVpnFrame, platformVars, teardownVars, jobVars
  <1>2. /\ r = lifecycleGeneration /\ starting /\ tdPc = "idle"
        /\ \A q \in Runs : q # r => pc[q] \in {"new", "done"}
    BY <1>1, OnlyOne DEF Asleep
  <1>3. /\ Alone' /\ pc'[r] = "core"
        /\ \A q \in Runs : q # r => pc'[q] = pc[q]
    BY <1>1, AwakeAlone DEF Asleep
  <1>4. ~started
    BY <1>1, <1>2 DEF SInv, IInv, Order, Fresh, Early
  <1>5. KernelOwned'
    BY <1>1, <1>2, <1>3 DEF SInv, Sole, KernelOwned, Built
  <1>6. Built' /\ Session'
    BY <1>1, <1>2, <1>3, <1>4 DEF SInv, Sole, Built, Session
  <1>7. Told'
    BY <1>1, <1>2, <1>3, <1>4 DEF SInv, Sole, Told
  <1> QED
    BY <1>3, <1>5, <1>6, <1>7 DEF Sole

LEMMA UpSole ==
    ASSUME SInv, NEW r \in Runs, CoreResolved(r), starting, r = lifecycleGeneration
    PROVE  Sole'
  <1>1. /\ micro = <<>> /\ pc[r] = "core" /\ pc' = [pc EXCEPT ![r] = "record"]
        /\ startReply[r] = "ok" /\ started' = TRUE /\ currentRunId' = target[r]
        /\ UNCHANGED <<netPc, lifecycleGeneration, starting, micro, tdPc, tdSilent,
                       core, coreRun, coreConf, coreCancelled, configFile, tunnel,
                       target, runningPref, status>>
    BY DEF CoreResolved, UpIf, At, Macrotask, Move, StartVpnFrame, platformVars, coreVars,
           teardownVars, jobVars
  <1>2. /\ tdPc = "idle" /\ \A q \in Runs : q # r => pc[q] \in {"new", "done"}
    BY <1>1, OnlyOne DEF Asleep
  <1>3. /\ Alone' /\ pc'[r] = "record"
        /\ \A q \in Runs : q # r => pc'[q] = pc[q]
    BY <1>1, AwakeAlone DEF Asleep
  <1>4. core = "running" /\ coreRun = r
    BY <1>1, <1>2 DEF SInv, IInv, Order, Resolves
  <1>5. KernelOwned'
    BY <1>1, <1>4 DEF SInv, Sole, KernelOwned
  <1>6. Built'
    BY <1>1, <1>2, <1>3 DEF SInv, Sole, Built
  <1>7. Session'
    BY <1>1, <1>2, <1>3, <1>4 DEF SInv, Sole, Session, Built
  <1>8. Told'
    BY <1>1, <1>2, <1>3 DEF SInv, Sole, Told
  <1> QED
    BY <1>3, <1>5, <1>6, <1>7, <1>8 DEF Sole

LEMMA RecordSole ==
    ASSUME SInv, NEW r \in Runs, Record(r) \/ Announce(r)
    PROVE  Sole'
  <1>1. /\ micro = <<>>
        /\ \/ /\ pc[r] = "record" /\ pc' = [pc EXCEPT ![r] = "announce"]
              /\ runningPref' = target[r] /\ status' = status
           \/ /\ pc[r] = "announce" /\ pc' = [pc EXCEPT ![r] = "clear"]
              /\ status' = [text |-> "connected", profile |-> target[r]]
              /\ runningPref' = runningPref
        /\ UNCHANGED <<netPc, lifecycleGeneration, starting, micro, tdPc, tdSilent,
                       core, coreRun, coreConf, coreCancelled, configFile, tunnel,
                       started, currentRunId, target>>
    BY DEF Record, Announce, At, Macrotask, Move, StartVpnFrame, platformVars, coreVars,
           teardownVars, jobVars, Publish
  <1>2. /\ r = lifecycleGeneration /\ starting /\ tdPc = "idle"
        /\ \A q \in Runs : q # r => pc[q] \in {"new", "done"}
    BY <1>1, OnlyOne DEF Asleep
  <1>3. /\ Alone' /\ pc'[r] = IF pc[r] = "record" THEN "announce" ELSE "clear"
        /\ \A q \in Runs : q # r => pc'[q] = pc[q]
    BY <1>1, AwakeAlone DEF Asleep
  <1>4. started /\ coreRun = r /\ target[r] = currentRunId
    BY <1>1, <1>2 DEF SInv, Sole, Session
  <1>5. KernelOwned'
    BY <1>1, <1>2, <1>3, <1>4 DEF SInv, Sole, KernelOwned
  <1>6. Built' /\ Session'
    BY <1>1, <1>2, <1>3, <1>4 DEF SInv, Sole, Built, Session
  <1>7. Told'
    BY <1>1, <1>2, <1>3, <1>4 DEF SInv, Sole, Told
  <1> QED
    BY <1>3, <1>5, <1>6, <1>7 DEF Sole

\* A decision that does not switch: replay the state, or load.
LEMMA ChoiceSole ==
    ASSUME SInv, NEW r \in Runs, Decide(r), Wanted # None,
           ~(started /\ (Wanted # currentRunId \/ forceRestart))
    PROVE  Sole'
  <1>1. /\ micro = <<>> /\ pc[r] = "decide"
        /\ target' = [target EXCEPT ![r] = Wanted]
        /\ UNCHANGED <<netPc, lifecycleGeneration, starting, micro, tdPc, tdSilent,
                       core, coreRun, coreConf, coreCancelled, configFile, tunnel,
                       started, currentRunId, runningPref>>
        /\ \/ /\ started /\ pc' = [pc EXCEPT ![r] = "replay"]
              /\ status' = [text |-> "connected", profile |-> currentRunId]
           \/ ~started /\ pc' = [pc EXCEPT ![r] = "load"] /\ status' = status
    BY DEF Decide, At, Macrotask, Move, platformVars, coreVars, teardownVars, Publish
  <1>2. /\ r = lifecycleGeneration /\ starting /\ tdPc = "idle"
        /\ \A q \in Runs : q # r => pc[q] \in {"new", "done"}
        /\ target \in [Runs -> Profiles \cup {None}]
    BY <1>1, OnlyOne DEF Asleep
  <1>3. /\ Alone' /\ pc'[r] = IF started THEN "replay" ELSE "load"
        /\ \A q \in Runs : q # r => pc'[q] = pc[q] /\ target'[q] = target[q]
    BY <1>1, <1>2, AwakeAlone DEF Asleep
  <1>4. KernelOwned'
    BY <1>1, <1>2, <1>3 DEF SInv, Sole, KernelOwned
  <1>5. Built'
    BY <1>1, <1>2, <1>3 DEF SInv, Sole, Built
  <1>6. Session'
    <2>1. started => coreRun \in Runs /\ coreRun # r
      BY <1>1, <1>2 DEF SInv, IInv, Order, Kernel, Accepted, Late
    <2> QED
      BY <1>1, <1>2, <1>3, <2>1 DEF SInv, Sole, Session
  <1>7. Told'
    BY <1>1, <1>2, <1>3 DEF SInv, Sole, Told
  <1> QED
    BY <1>3, <1>4, <1>5, <1>6, <1>7 DEF Sole

\* What a teardown does to a kernel that is owned.
LEMMA KernelGoes ==
    ASSUME SInv, tdPc = "idle", NEW tokens, Teardown(TRUE, tokens)
    PROVE  /\ tdPc' = "stop" /\ tdSilent' = TRUE /\ coreRun' = coreRun
           /\ KernelOwned'
  <1>1. /\ tdPc' = "stop" /\ tdSilent' = TRUE
        /\ core' = IF core = "running" THEN "stopping" ELSE core
        /\ core = "starting" => coreCancelled'
        /\ coreRun' = coreRun
    BY DEF Teardown
  <1> QED
    BY <1>1 DEF KernelOwned

LEMMA SwitchSole ==
    ASSUME SInv, NEW r \in Runs, Decide(r), started, Wanted # None,
           Wanted # currentRunId \/ forceRestart
    PROVE  Sole'
  <1>1. /\ micro = <<>> /\ pc[r] = "decide" /\ pc' = [pc EXCEPT ![r] = "switch"]
        /\ target' = [target EXCEPT ![r] = Wanted]
        /\ Teardown(TRUE, <<RunToken(r)>>)
        /\ status' = [text |-> "switching", profile |-> Wanted]
        /\ UNCHANGED <<netPc, lifecycleGeneration, starting, micro, configFile, tunnel,
                       started, currentRunId, runningPref>>
    BY DEF Decide, At, Macrotask, Move, platformVars, Publish
  <1>2. /\ r = lifecycleGeneration /\ starting /\ tdPc = "idle"
        /\ \A q \in Runs : q # r => pc[q] \in {"new", "done"}
        /\ pc \in [Runs -> Place]
    BY <1>1, OnlyOne DEF Asleep
  <1>3. /\ pc'[r] = "switch" /\ \A q \in Runs : q # r => pc'[q] = pc[q]
    BY <1>1, <1>2
  <1>4. tdPc' = "stop" /\ tdSilent' = TRUE /\ coreRun' = coreRun /\ KernelOwned'
    BY <1>1, <1>2, KernelGoes
  <1>5. Alone'
    BY <1>1, <1>2, <1>3, <1>4 DEF SInv, Sole, Alone, Active, Asleep
  <1>6. Built'
    BY <1>1, <1>2, <1>3 DEF SInv, Sole, Built
  <1>7. Session'
    BY <1>1, <1>2, <1>3, <1>4 DEF SInv, Sole, Session
  <1>8. Told'
    BY <1>1, <1>3, <1>4 DEF Told
  <1> QED
    BY <1>4, <1>5, <1>6, <1>7, <1>8 DEF Sole

LEMMA FailedSole ==
    ASSUME SInv, NEW r \in Runs, Failed(r)
    PROVE  Sole'
  <1>1. /\ micro = <<>> /\ pc[r] = "failed" /\ pc' = [pc EXCEPT ![r] = "rollback"]
        /\ Teardown(TRUE, <<RunToken(r)>>)
        /\ UNCHANGED <<netPc, lifecycleGeneration, starting, micro, configFile, tunnel,
                       started, currentRunId, runningPref, target, status>>
    BY DEF Failed, FailedUnless, At, Macrotask, Move, fieldVars, platformVars, jobVars
  <1>2. /\ r = lifecycleGeneration /\ starting /\ tdPc = "idle"
        /\ \A q \in Runs : q # r => pc[q] \in {"new", "done"}
        /\ pc \in [Runs -> Place]
    BY <1>1, OnlyOne DEF Asleep
  <1>3. /\ pc'[r] = "rollback" /\ \A q \in Runs : q # r => pc'[q] = pc[q]
    BY <1>1, <1>2
  <1>4. tdPc' = "stop" /\ tdSilent' = TRUE /\ coreRun' = coreRun /\ KernelOwned'
    BY <1>1, <1>2, KernelGoes
  <1>5. Alone'
    BY <1>1, <1>2, <1>3, <1>4 DEF SInv, Sole, Alone, Active, Asleep
  <1>6. Built'
    BY <1>1, <1>2, <1>3 DEF SInv, Sole, Built
  <1>7. Session'
    BY <1>1, <1>2, <1>3, <1>4 DEF SInv, Sole, Session
  <1>8. Told'
    BY <1>1, <1>2, <1>3, <1>4 DEF Told
  <1> QED
    BY <1>4, <1>5, <1>6, <1>7, <1>8 DEF Sole

LEMMA TeardownSole ==
    ASSUME SInv, TdStopped \/ TdDestroyed
    PROVE  Sole'
  <1>1. /\ tdPc # "idle" /\ tdPc' # "idle"
        /\ currentRunId' = None \/ (tdPc' # "persist" /\ currentRunId' = currentRunId)
        /\ UNCHANGED <<netPc, lifecycleGeneration, starting, micro, tdSilent, core,
                       coreRun, coreConf, coreCancelled, configFile, started, target,
                       runningPref, status, pc>>
    BY DEF TdStopped, Unpin, TdDestroyed, coreVars, runVars, jobVars
  <1>2. \A r \in Runs : pc[r] \notin {"protect", "core", "record", "announce"}
    <2>1. micro = <<>>
      BY <1>1 DEF SInv, IInv, Order, Line
    <2> QED
      BY <1>1, <2>1, OnlyOne DEF Asleep
  <1>3. Alone'
    BY <1>1 DEF SInv, Sole, Alone, Active
  <1>4. KernelOwned'
    BY <1>1 DEF SInv, Sole, KernelOwned
  <1>5. Built' /\ Session' /\ Told'
    BY <1>1, <1>2 DEF SInv, Sole, Built, Session, Told
  <1> QED
    BY <1>3, <1>4, <1>5 DEF Sole

LEMMA DownSole ==
    ASSUME SInv, TdPersisted
    PROVE  Sole'
  <1>1. /\ tdPc = "persist" /\ tdPc' = "idle" /\ micro = <<>>
        /\ started' = FALSE /\ starting' = FALSE /\ runningPref' = None
        /\ micro' = waiters
        /\ tdSilent => status' = status
        /\ UNCHANGED <<netPc, lifecycleGeneration, tdSilent, core, coreRun, coreConf,
                       coreCancelled, configFile, tunnel, currentRunId, target, pc>>
    BY DEF TdPersisted, Down, Macrotask, platformVars, coreVars, runVars
  <1>2. PICK r \in Runs : pc[r] \in Asleep
    BY <1>1 DEF SInv, Sole, Alone
  <1>3. /\ r = lifecycleGeneration /\ tdSilent
        /\ \A q \in Runs : q # r => pc[q] \in {"new", "done"}
    BY <1>1, <1>2 DEF SInv, Sole, Alone, Active, Asleep
  <1>4. micro' # <<>>
    BY <1>1, <1>2, NoMembers DEF SInv, IInv, Order, Line, InLine
  <1>5. Alone'
    BY <1>1, <1>4 DEF SInv, Sole, Alone, Active
  <1>6. KernelOwned'
    BY <1>1 DEF SInv, Sole, KernelOwned
  <1>7. Built' /\ Session'
    BY <1>1, <1>2, <1>3 DEF SInv, Sole, Built, Session, Asleep
  <1>8. Told'
    <2>1. status.text = "connected" => pc[r] = "rollback"
      BY <1>2 DEF SInv, Sole, Told, Asleep
    <2> QED
      BY <1>1, <1>3, <2>1 DEF SInv, Sole, Told
  <1> QED
    BY <1>5, <1>6, <1>7, <1>8 DEF Sole

LEMMA CoreSole ==
    ASSUME SInv, CoreStep
    PROVE  Sole'
  <1>1. UNCHANGED <<netPc, lifecycleGeneration, starting, micro, tdPc, tdSilent,
                    coreRun, configFile, tunnel, started, target, currentRunId,
                    runningPref, status, pc>>
    BY DEF CoreStep, CoreUp, CoreNotUp, CoreDown, CoreFrame, fieldVars, platformVars,
           runVars, jobVars
  <1>2. \/ core = "starting" /\ ~coreCancelled /\ core' = "running" /\ coreConf' = configFile
        \/ core' = "stopped"
    BY DEF CoreStep, CoreUp, CoreNotUp, CoreDown
  <1>3. Alone' /\ Built' /\ Session' /\ Told'
    BY <1>1 DEF SInv, Sole, Alone, Active, Built, Session, Told
  <1>4. KernelOwned'
    BY <1>1, <1>2 DEF SInv, Sole, KernelOwned
  <1> QED
    BY <1>3, <1>4 DEF Sole

\* The end of the only run.
LEMMA EndSole ==
    ASSUME SInv, NEW r \in Runs, Ends(r),
           pc[r] = "rollback" => status'.text = "connect_failed",
           pc[r] # "rollback" => status' = status,
           pc[r] # "decide" => target' = target,
           UNCHANGED <<netPc, tdPc, tdSilent, waiters, core, coreRun, coreConf,
                       coreCancelled, configFile, tunnel, started, currentRunId,
                       runningPref>>
    PROVE  Sole'
  <1> DEFINE n == lifecycleGeneration + 1
  <1>1. IInv
    BY DEF SInv
  <1>2. /\ pc'[r] = "done"
        /\ \/ /\ starting' = TRUE /\ lifecycleGeneration' = n
              /\ n \in Runs /\ r # n /\ pc[n] = "new" /\ pc'[n] = "refresh"
              /\ \A q \in Runs : q \notin {r, n} => pc'[q] = pc[q]
           \/ /\ lifecycleGeneration' = lifecycleGeneration
              /\ \A q \in Runs : q # r => pc'[q] = pc[q]
    BY <1>1, EndSteps
  <1> HIDE DEF n
  <1>3. /\ pc[r] \in {"replay", "clear", "decide", "rollback"} /\ tdPc = "idle"
        /\ pc[r] \in {"decide", "rollback"} => ~started
    <2>1. CASE micro = <<>>
      BY <2>1, OnlyOne DEF Ends, Asleep
    <2>2. CASE micro # <<>>
      BY <1>1, <2>2 DEF Ends, IInv, Order, Line
    <2> QED
      BY <2>1, <2>2
  <1>4. r = lifecycleGeneration /\ \A q \in Runs : q # r => pc[q] \in {"new", "done"}
    BY <1>3 DEF SInv, Sole, Alone, Active
  <1>5. \A q \in Runs : pc'[q] \in {"new", "done"} \/ (q = lifecycleGeneration' /\ starting' /\ pc'[q] = "refresh")
    BY <1>2, <1>4
  <1>6. Alone'
    BY <1>3, <1>5 DEF SInv, Sole, Alone, Active
  <1>7. KernelOwned'
    BY <1>2, <1>3 DEF SInv, Sole, KernelOwned
  <1>8. Built'
    BY <1>5 DEF Built
  <1>9. Session'
    BY <1>3, <1>5 DEF SInv, Sole, Session
  <1>10. Told'
    <2>1. started => /\ status' = [text |-> "connected", profile |-> currentRunId]
                     /\ runningPref = currentRunId
      BY <1>3, <1>4 DEF SInv, Sole, Told
    <2>2. ~started => status'.text # "connected"
      BY <1>3, <1>4 DEF SInv, Sole, Told
    <2> QED
      BY <1>5, <2>1, <2>2 DEF Told
  <1> QED
    BY <1>6, <1>7, <1>8, <1>9, <1>10 DEF Sole

LEMMA EndsSole ==
    ASSUME SInv, NEW r \in Runs,
           \/ Clear(r)
           \/ Decide(r) /\ Wanted = None
           \/ ResumeRun(r) /\ pc[r] # "switch"
    PROVE  Sole'
  <1>1. CASE Clear(r)
    <2>1. /\ Ends(r) /\ pc[r] # "rollback"
          /\ UNCHANGED <<status, target, netPc, tdPc, tdSilent, waiters, core, coreRun,
                         coreConf, coreCancelled, configFile, tunnel, started,
                         currentRunId, runningPref>>
      BY <1>1 DEF Clear, Ends, Macrotask, platformVars, coreVars, teardownVars, jobVars
    <2> QED
      BY <2>1, EndSole
  <1>2. CASE Decide(r) /\ Wanted = None
    <2>1. ~started
      BY <1>2 DEF SInv, IInv, Order, Named, Wanted
    <2>2. /\ Ends(r) /\ pc[r] = "decide"
          /\ UNCHANGED <<status, netPc, tdPc, tdSilent, waiters, core, coreRun,
                         coreConf, coreCancelled, configFile, tunnel, started,
                         currentRunId, runningPref>>
      BY <1>2, <2>1 DEF Decide, Ends, At, Macrotask, platformVars, coreVars, teardownVars
    <2> QED
      BY <2>2, EndSole
  <1>3. CASE ResumeRun(r) /\ pc[r] # "switch"
    <2>1. /\ Ends(r) /\ pc[r] = "rollback" /\ status'.text = "connect_failed"
          /\ UNCHANGED <<target, netPc, tdPc, tdSilent, waiters, core, coreRun,
                         coreConf, coreCancelled, configFile, tunnel, started,
                         currentRunId, runningPref>>
      BY <1>3 DEF ResumeRun, Ends, Publish, platformVars, coreVars, teardownVars, jobVars
    <2> QED
      BY <2>1, EndSole
  <1> QED
    BY <1>1, <1>2, <1>3

LEMMA LoadNextSole ==
    ASSUME SInv, NEW r \in Runs, ResumeRun(r), pc[r] = "switch"
    PROVE  Sole'
  <1>1. /\ micro # <<>>
        /\ pc' = [pc EXCEPT ![r] = "load"] /\ starting' = TRUE
        /\ UNCHANGED <<netPc, lifecycleGeneration, tdPc, tdSilent, core, coreRun,
                       coreConf, coreCancelled, configFile, tunnel, started, target,
                       currentRunId, runningPref, status>>
    BY DEF ResumeRun, Move, platformVars, coreVars, teardownVars, jobVars
  <1>2. /\ pc \in [Runs -> Place] /\ tdPc = "idle" /\ ~started
    BY <1>1 DEF SInv, IInv, Typed, TypedRuns, Order, Line
  <1>3. r = lifecycleGeneration /\ \A q \in Runs : q # r => pc[q] \in {"new", "done"}
    BY DEF SInv, Sole, Alone, Active
  <1>4. pc'[r] = "load" /\ \A q \in Runs : q # r => pc'[q] = pc[q]
    BY <1>1, <1>2
  <1>5. Alone'
    BY <1>1, <1>2, <1>3, <1>4 DEF SInv, Sole, Alone, Active
  <1>6. KernelOwned'
    BY <1>1, <1>3, <1>4 DEF SInv, Sole, KernelOwned
  <1>7. Built' /\ Session'
    BY <1>1, <1>2, <1>3, <1>4 DEF SInv, Sole, Built, Session
  <1>8. Told'
    BY <1>1, <1>2, <1>3, <1>4 DEF SInv, Sole, Told
  <1> QED
    BY <1>5, <1>6, <1>7, <1>8 DEF Sole

LEMMA WantSole ==
    ASSUME SInv, NEW p \in Profiles \cup {None}, NEW force \in BOOLEAN, Want(p, force)
    PROVE  Sole'
  <1> DEFINE n == lifecycleGeneration + 1
  <1>1. /\ Calls /\ micro = <<>>
        /\ UNCHANGED <<micro, netPc, tdPc, tdSilent, waiters, core, coreRun, coreConf,
                       coreCancelled, configFile, tunnel, started, target,
                       currentRunId, runningPref, status>>
    BY DEF Want, Calls, Macrotask, platformVars, coreVars, teardownVars, jobVars
  <1>2. IInv
    BY DEF SInv
  <1>3. /\ starting' = TRUE
        /\ \/ /\ starting /\ lifecycleGeneration' = lifecycleGeneration /\ pc' = pc
           \/ /\ ~starting /\ lifecycleGeneration' = n
              /\ n \in Runs /\ pc[n] = "new" /\ pc'[n] = "refresh"
              /\ \A q \in Runs : q # n => pc'[q] = pc[q]
    BY <1>1, <1>2, CallSteps
  <1> HIDE DEF n
  <1>4. CASE starting
    <2>1. UNCHANGED <<lifecycleGeneration, pc>>
      BY <1>3, <1>4
    <2> QED
      BY <1>1, <1>3, <1>4, <2>1
      DEF SInv, Sole, Alone, Active, KernelOwned, Built, Session, Told
  <1>5. CASE ~starting
    <2>1. \A q \in Runs : pc[q] \in {"new", "done"}
      BY <1>1, <1>5 DEF SInv, Sole, Alone, Active
    <2>2. tdPc = "idle"
      BY <2>1 DEF SInv, Sole, Alone, Asleep
    <2>3. /\ lifecycleGeneration' = n /\ pc'[n] = "refresh" /\ n \in Runs /\ pc[n] = "new"
          /\ \A q \in Runs : q # n => pc'[q] = pc[q] /\ pc'[q] \in {"new", "done"}
      BY <1>3, <1>5, <2>1
    <2>4. Alone'
      BY <1>1, <1>3, <2>2, <2>3 DEF SInv, Sole, Alone, Active
    <2>5. KernelOwned'
      BY <1>1, <2>1, <2>3 DEF SInv, Sole, KernelOwned
    <2>6. Built' /\ Session'
      BY <1>1, <2>3 DEF SInv, Sole, Built, Session
    <2>7. Told'
      <3>1. started => lifecycleGeneration \in Runs
        BY <2>2 DEF SInv, IInv, Order, Cuts
      <3>2. started => status = [text |-> "connected", profile |-> currentRunId]
                       /\ runningPref = currentRunId
        BY <2>1, <2>2, <3>1 DEF SInv, Sole, Told
      <3>3. status.text = "connected" => started
        BY <2>1 DEF SInv, Sole, Told
      <3> QED
        BY <1>1, <2>3, <3>2, <3>3 DEF Told
    <2> QED
      BY <2>4, <2>5, <2>6, <2>7 DEF Sole
  <1> QED
    BY <1>3, <1>4, <1>5

LEMMA FrameSole ==
    ASSUME SInv, Save \/ UNCHANGED vars
    PROVE  Sole'
  <1>1. UNCHANGED <<micro, netPc, tdPc, tdSilent, core, coreRun, coreConf, coreCancelled,
                    configFile, tunnel, started, target, currentRunId, runningPref,
                    status, starting, lifecycleGeneration, pc>>
    BY DEF Save, vars, fieldVars, platformVars, coreVars, teardownVars, runVars, jobVars
  <1>2. Alone' /\ KernelOwned' /\ Built'
    BY <1>1 DEF SInv, Sole, Alone, Active, KernelOwned, Built
  <1>3. Session' /\ Told'
    BY <1>1 DEF SInv, Sole, Session, Told
  <1> QED
    BY <1>2, <1>3 DEF Sole

LEMMA InitSole == Init => Sole
  <1> SUFFICES ASSUME Init PROVE Sole
    OBVIOUS
  <1>1. \A r \in Runs : pc[r] = "new"
    BY DEF Init
  <1>2. Alone /\ KernelOwned /\ Built
    BY <1>1 DEF Init, Alone, Active, KernelOwned, Built
  <1>3. status.text = "none"
    BY DEF Init
  <1>4. Session /\ Told
    BY <1>1, <1>3 DEF Init, Session, Told
  <1> QED
    BY <1>2, <1>4 DEF Sole

LEMMA StepSole ==
    ASSUME MaxCuts = 0, MaxNets = 0, SInv, [Next]_vars
    PROVE  Sole'
  <1>1. ~Cut /\ ~NetChange /\ ~NetReset /\ ~ResumeNet
    <2>1. /\ cuts \in 0..MaxCuts /\ nets \in 0..MaxNets /\ netPc = "idle"
      BY DEF SInv, IInv, Typed, TypedFields, Sole, Alone
    <2>2. ~Cut /\ ~NetChange /\ ~NetReset
      BY <2>1 DEF Cut, NetChange, NetReset
    <2>3. ~ResumeNet
      BY <2>1, ResetWaits DEF ResumeNet, SInv
    <2> QED
      BY <2>2, <2>3
  <1>2. ASSUME NEW r \in Runs, RunStep(r) PROVE Sole'
    <2>1. CASE Decide(r)
      BY <2>1, EndsSole, SwitchSole, ChoiceSole
    <2>2. CASE Protect(r)
      BY <2>2, AskSole, PlainSteps
    <2>3. CASE CoreResolved(r)
      BY <2>3, UpSole, PlainSteps
    <2>4. CASE ResumeRun(r)
      BY <2>4, LoadNextSole, EndsSole
    <2>5. CASE Refresh(r) \/ Throw(r) \/ Load(r) \/ CoreRejected(r)
      BY <2>5, PlainSteps
    <2>6. CASE Write(r)
      BY <2>6, WriteSole
    <2>7. CASE Gate(r) \/ Clean(r) \/ Auth(r)
      BY <2>7, GateSole
    <2>8. CASE Record(r) \/ Announce(r)
      BY <2>8, RecordSole
    <2>9. CASE Clear(r)
      BY <2>9, EndsSole
    <2>10. CASE Failed(r)
      BY <2>10, FailedSole
    <2> QED
      BY <1>2, <2>1, <2>2, <2>3, <2>4, <2>5, <2>6, <2>7, <2>8, <2>9, <2>10 DEF RunStep
  <1>3. CASE TeardownStep
    BY <1>3, TeardownSole, DownSole DEF TeardownStep
  <1>4. CASE CoreStep
    BY <1>4, CoreSole
  <1>5. CASE Input
    BY <1>1, <1>5, WantSole, FrameSole DEF Input
  <1>6. CASE UNCHANGED vars
    BY <1>6, FrameSole
  <1> QED
    BY <1>1, <1>2, <1>3, <1>4, <1>5, <1>6 DEF Next, NetStep

LEMMA SoleImplies == SInv => OneStart /\ SettledAgree /\ SettledTold
  <1> SUFFICES ASSUME SInv PROVE OneStart /\ SettledAgree /\ SettledTold
    OBVIOUS
  <1>1. OneStart
    <2> SUFFICES ASSUME NEW r \in Runs, NEW q \in Runs, {pc[r], pc[q]} \subseteq Building
                 PROVE  r = q
      BY DEF OneStart
    <2>1. Active(r) /\ Active(q)
      BY DEF Building, Active
    <2> QED
      BY <2>1 DEF SInv, Sole, Alone
  <1>2. LatestWins
    BY InvImplies DEF SInv
  <1>3. ASSUME Quiet
        PROVE  /\ started => /\ core = "running" /\ coreRun \in Runs
                             /\ currentRunId = latestRequested /\ currentRunId # None
                             /\ pc[lifecycleGeneration] = "done"
               /\ ~started => core # "running"
               /\ tdPc = "idle" /\ \A r \in Runs : pc[r] \in {"new", "done"}
    <2>1. tdPc = "idle" /\ \A r \in Runs : pc[r] \in {"new", "done"}
      BY <1>3 DEF Quiet, Idle
    <2>2. started => core = "running" /\ coreRun \in Runs
      BY <2>1 DEF SInv, IInv, Order, Kernel
    <2>3. started => currentRunId = latestRequested /\ currentRunId # None
      BY <1>2, <1>3 DEF LatestWins, SInv, IInv, Order, Named
    <2>4. started => pc[lifecycleGeneration] = "done"
      BY <2>1 DEF SInv, IInv, Order, Cuts
    <2>5. ~started => core # "running"
      BY <2>1 DEF SInv, Sole, KernelOwned
    <2> QED
      BY <2>1, <2>2, <2>3, <2>4, <2>5
  <1>4. SettledAgree
    <2> SUFFICES ASSUME Quiet
                 PROVE  /\ started <=> core = "running"
                        /\ started <=> currentRunId # None
                        /\ started => /\ coreConf = coreRun /\ tunnel = coreRun
                                      /\ target[coreRun] = currentRunId
      BY DEF SettledAgree
    <2>1. started => /\ coreConf = coreRun /\ tunnel = coreRun
                     /\ target[coreRun] = currentRunId
      BY <1>3 DEF SInv, Sole, KernelOwned, Session
    <2>2. ~started => currentRunId = None
      BY DEF SInv, Sole, Session
    <2> QED
      BY <1>3, <2>1, <2>2
  <1>5. SettledTold
    <2> SUFFICES ASSUME Quiet
                 PROVE  /\ started <=> status.text = "connected"
                        /\ started => status.profile = currentRunId
                        /\ runningPref = currentRunId
      BY DEF SettledTold
    <2>1. started => /\ status = [text |-> "connected", profile |-> currentRunId]
                     /\ runningPref = currentRunId
      BY <1>3 DEF SInv, Sole, Told
    <2>2. ~started => status.text # "connected"
      BY <1>3 DEF SInv, Sole, Told
    <2>3. ~started => currentRunId = None /\ runningPref = None
      BY DEF SInv, Sole, Session
    <2> QED
      BY <2>1, <2>2, <2>3
  <1> QED
    BY <1>1, <1>4, <1>5

LEMMA SoleInvariant ==
    ASSUME MaxCuts = 0, MaxNets = 0
    PROVE  Spec => []SInv
  <1>1. Init => SInv
    BY InitInv, InitSole DEF SInv
  <1>2. SInv /\ [Next]_vars => SInv'
    BY StepInv, StepSole DEF SInv
  <1> QED
    BY <1>1, <1>2, PTL DEF Spec

\* Without disconnects and network resets two starts never build a session at
\* the same time, however many Wants arrive (the mark that tryStart sets before
\* its first await).
THEOREM OneStartAtATime ==
    ASSUME MaxCuts = 0, MaxNets = 0
    PROVE  Spec => []OneStart
  BY SoleInvariant, SoleImplies, PTL

\* Without them, once settled, `started', the kernel and its config, the profile
\* and the tunnel agree, though stopCore, startCore and destroy may time out.
THEOREM SettlesInAgreement ==
    ASSUME MaxCuts = 0, MaxNets = 0
    PROVE  Spec => []SettledAgree
  BY SoleInvariant, SoleImplies, PTL

\* Without them, once settled, what was published and what Preferences keep is
\* what runs.
THEOREM SettlesAsTold ==
    ASSUME MaxCuts = 0, MaxNets = 0
    PROVE  Spec => []SettledTold
  BY SoleInvariant, SoleImplies, PTL

==============================================================================
