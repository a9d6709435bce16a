------------------------------ MODULE VpnControl ------------------------------
(***************************************************************************)
(* The VPN switch of the UI process (VpnService.ets) and the status keys   *)
(* it shares with the subscriber of the extension's events                 *)
(* (EntryAbility.ets).                                                     *)
(*                                                                         *)
(* A request (connect, switchTo, disconnect) takes a generation at once;   *)
(* its body waits for the one before it and then runs from await to await. *)
(* The extension is reduced to what reaches the UI process of it: it       *)
(* carries out the calls of the system in order, may be slow, fail, or be  *)
(* reclaimed without a word, and its events may be lost but not reordered. *)
(* VpnLifecycle models it in full.                                         *)
(***************************************************************************)
EXTENDS Naturals, Sequences

CONSTANTS Profiles, None,
          MaxRequests,    \* connect, switchTo and disconnect calls
          MaxLost,        \* status events that get lost
          MaxReclaims     \* times the system kills the extension process

ASSUME ControlAssumption ==
    /\ None \notin Profiles
    /\ MaxRequests \in Nat /\ MaxLost \in Nat /\ MaxReclaims \in Nat

VARIABLES
    generation,
    pc, asked,               \* body and profile of each request; None: disconnect
    evidence, timeout,       \* generations whose watchdog timers run
    evidenceWatchdog, timeoutWatchdog,   \* the handles kept, 0 for none
    vpnStatus, vpnRunning, vpnRunningProfileId,
    traffic,                 \* a traffic counter is above zero
    ext, extProfile,         \* the extension and the profile of its session
    session,                 \* the id of its process, in its envelopes
    inbox,                   \* system calls on their way to it
    events,                  \* its events on their way to the UI process
    refused,                 \* the last call of the system was refused
    unheard,                 \* a status was lost and none arrived since
    lost, reclaims           \* faults so far

requestVars == <<generation, pc, asked, refused>>
timerVars == <<evidence, timeout, evidenceWatchdog, timeoutWatchdog>>
keyVars == <<vpnStatus, vpnRunning, vpnRunningProfileId>>
extVars == <<ext, extProfile, session, reclaims>>
channelVars == <<inbox, events, unheard, lost>>
controlVars == <<requestVars, timerVars, keyVars, traffic, extVars, channelVars>>

Requests == 1..MaxRequests

\* A status text, with the profile whose name it shows.
Text(name) == <<name, None>>
Connected(p) == <<"connected", p>>
IsConnected(s) == s[1] = "connected"

ControlInit ==
    /\ generation = 0
    /\ pc = [g \in Requests |-> "new"] /\ asked = [g \in Requests |-> None]
    /\ evidence = {} /\ timeout = {}
    /\ evidenceWatchdog = 0 /\ timeoutWatchdog = 0
    /\ vpnStatus = Text("disconnected") /\ vpnRunning = FALSE
    /\ vpnRunningProfileId = None
    /\ traffic = FALSE
    /\ ext = "down" /\ extProfile = None /\ session = 1
    /\ inbox = <<>> /\ events = <<>>
    /\ refused = FALSE /\ unheard = FALSE /\ lost = 0 /\ reclaims = 0

-------------------------------------------------------------------------------
(* The requests. *)

ClearWatchdogs ==
    /\ evidence' = evidence \ {evidenceWatchdog} /\ evidenceWatchdog' = 0
    /\ timeout' = timeout \ {timeoutWatchdog} /\ timeoutWatchdog' = 0

\* The part of a request that runs at once.
Request(p, status, counted) ==
    /\ generation < MaxRequests
    /\ generation' = generation + 1
    /\ pc' = [pc EXCEPT ![generation'] = "queued"]
    /\ asked' = [asked EXCEPT ![generation'] = p]
    /\ ClearWatchdogs
    /\ vpnStatus' = status
    /\ traffic' = counted
    /\ UNCHANGED <<refused, vpnRunning, vpnRunningProfileId, extVars, channelVars>>

Connect(p) == Request(p, vpnStatus, FALSE)
SwitchTo(p) == Request(p, Text("switching"), FALSE)
Disconnect == Request(None, vpnStatus, traffic)

\* A body that does not await the previous operation.
TurnAtOnce(g) == pc[g] = "queued"

\* The body of a request begins when the one before it is over.
Turn(g) == pc[g] = "queued" /\ \A h \in 1..(g - 1) : pc[h] = "done"

Move(g, place) == pc' = [pc EXCEPT ![g] = place]

RequestFrame == UNCHANGED <<generation, asked, traffic, extVars, events, unheard, lost>>

\* connect: the pending profile is set.
Connecting(g) ==
    /\ Turn(g) /\ asked[g] # None
    /\ Move(g, "policy")
    /\ vpnStatus' = Text("connecting")
    /\ RequestFrame
    /\ UNCHANGED <<refused, timerVars, vpnRunning, vpnRunningProfileId, inbox>>

\* The per-app policy is evaluated: it blocks the connection, or the system is
\* asked to start the extension and accepts or throws.
Policy(g) ==
    /\ pc[g] = "policy"
    /\ \/ Move(g, "blocked") /\ UNCHANGED inbox
       \/ Move(g, "thrown") /\ UNCHANGED inbox
       \/ Move(g, "called") /\ inbox' = Append(inbox, asked[g])
    /\ RequestFrame
    /\ UNCHANGED <<refused, timerVars, keyVars>>

\* The end of a connection the policy blocked: the session that may run is not
\* reported as down.
Blocked(g) ==
    /\ pc[g] = "blocked"
    /\ Move(g, "done")
    /\ vpnStatus' = Text("connect_failed")
    /\ RequestFrame
    /\ UNCHANGED <<refused, timerVars, vpnRunning, vpnRunningProfileId, inbox>>

Thrown(g) ==
    /\ pc[g] = "thrown"
    /\ Move(g, "done")
    /\ vpnStatus' = Text("start_failed") /\ vpnRunning' = FALSE
    /\ refused' = TRUE
    /\ RequestFrame
    /\ UNCHANGED <<timerVars, vpnRunningProfileId, inbox>>

ArmTimers(g, timers) ==
    /\ pc[g] = "called"
    /\ Move(g, "done")
    /\ evidence' = evidence \cup {g} /\ evidenceWatchdog' = g
    /\ timeout' = timeout \cup timers /\ timeoutWatchdog' = g
    /\ refused' = FALSE
    /\ RequestFrame
    /\ UNCHANGED <<keyVars, inbox>>

\* A connect that does not watch for an extension that stays silent.
ArmNoTimeout(g) == ArmTimers(g, {})

\* The start was accepted: both watchdogs are armed, over any handle kept.
Arm(g) == ArmTimers(g, {g})

\* disconnect: the stop is asked of the system, which may refuse it.
Disconnecting(g) ==
    /\ Turn(g) /\ asked[g] = None
    /\ Move(g, "stopping")
    /\ vpnStatus' = Text("disconnecting")
    /\ \/ inbox' = Append(inbox, None) /\ refused' = FALSE
       \/ UNCHANGED inbox /\ refused' = TRUE
    /\ RequestFrame
    /\ UNCHANGED <<timerVars, vpnRunning, vpnRunningProfileId>>

Disconnected(g) ==
    /\ pc[g] = "stopping"
    /\ Move(g, "done")
    /\ vpnStatus' = Text("disconnected")
    /\ vpnRunning' = FALSE /\ vpnRunningProfileId' = None
    /\ RequestFrame
    /\ UNCHANGED <<refused, timerVars, inbox>>

Body(g) ==
    \/ Connecting(g) \/ Policy(g) \/ Blocked(g) \/ Thrown(g) \/ Arm(g)
    \/ Disconnecting(g) \/ Disconnected(g)

-------------------------------------------------------------------------------
(* The watchdogs. *)

StillConnecting == ~vpnRunning /\ vpnStatus = Text("connecting")

WatchdogFrame == UNCHANGED <<requestVars, traffic, extVars, channelVars>>

\* 60s: traffic flows although no status came.
Evidence(g) ==
    /\ g \in evidence
    /\ evidence' = evidence \ {g} /\ evidenceWatchdog' = 0
    /\ IF g = generation /\ StillConnecting /\ traffic
       THEN /\ vpnRunning' = TRUE /\ vpnRunningProfileId' = asked[g]
            /\ vpnStatus' = Text("connected")
       ELSE UNCHANGED keyVars
    /\ WatchdogFrame
    /\ UNCHANGED <<timeout, timeoutWatchdog>>

TimeoutIf(g, mine) ==
    /\ g \in timeout /\ g \notin evidence
    /\ timeout' = timeout \ {g} /\ timeoutWatchdog' = 0
    /\ IF mine /\ StillConnecting
       THEN vpnStatus' = Text("connect_failed") /\ vpnRunning' = FALSE
       ELSE UNCHANGED <<vpnStatus, vpnRunning>>
    /\ WatchdogFrame
    /\ UNCHANGED <<vpnRunningProfileId, evidence, evidenceWatchdog>>

\* A timeout that does not ask whose it is.
TimeoutAnyone(g) == TimeoutIf(g, TRUE)

\* 120s: the extension stayed silent.
Timeout(g) == TimeoutIf(g, g = generation)

Watchdog(g) == Evidence(g) \/ Timeout(g)

-------------------------------------------------------------------------------
(* The events of the extension, as EntryAbility writes them to the keys. *)

Status(text, running, profile) ==
    [kind |-> "status", session |-> session,
     text |-> text, running |-> running, profile |-> profile]
Traffic == [kind |-> "traffic"]

EventFrame == UNCHANGED <<requestVars, timerVars, extVars, inbox>>

OnStatus ==
    /\ events # <<>> /\ Head(events).kind = "status"
    /\ events' = Tail(events)
    /\ vpnRunning' = Head(events).running
    /\ vpnStatus' = Head(events).text
    /\ vpnRunningProfileId' = Head(events).profile
    /\ unheard' = FALSE
    /\ EventFrame
    /\ UNCHANGED <<traffic, lost>>

\* Traffic stands in for a connected event that was lost.
OnTraffic ==
    /\ events # <<>> /\ Head(events).kind = "traffic"
    /\ events' = Tail(events)
    /\ traffic' = TRUE
    /\ IF vpnStatus \in {Text("connecting"), Text("switching")}
       THEN vpnRunning' = TRUE /\ vpnStatus' = Text("connected")
       ELSE UNCHANGED <<vpnRunning, vpnStatus>>
    /\ EventFrame
    /\ UNCHANGED <<vpnRunningProfileId, unheard, lost>>

Lose ==
    /\ lost < MaxLost
    /\ events # <<>> /\ Head(events).kind = "status"
    /\ events' = Tail(events)
    /\ lost' = lost + 1 /\ unheard' = TRUE
    /\ EventFrame
    /\ UNCHANGED <<keyVars, traffic>>

Deliver == OnStatus \/ OnTraffic

-------------------------------------------------------------------------------
(* The extension, as its events show it. *)

ExtFrame ==
    UNCHANGED <<requestVars, timerVars, keyVars, traffic, unheard, lost>>

Asking == Status(Text("awaiting_auth"), FALSE, None)

\* It takes the next call: the session it has is replayed or restarted, a new
\* one begins, or it goes down.
ExtCall ==
    /\ inbox # <<>> /\ ext # "starting"
    /\ inbox' = Tail(inbox)
    /\ LET p == Head(inbox) IN
       \/ /\ p = None
          /\ ext' = "down" /\ extProfile' = None /\ session' = session + 1
          /\ events' = Append(events, Status(Text("disconnected"), FALSE, None))
       \/ /\ p # None /\ ext = "up"
          /\ \/ /\ p = extProfile
                /\ events' = Append(events, Status(Connected(p), TRUE, p))
                /\ UNCHANGED <<ext, extProfile, session>>
             \/ /\ ext' = "starting" /\ extProfile' = p /\ UNCHANGED session
                /\ events' = events \o
                      <<Status(Text("switching"), TRUE, p), Asking>>
       \/ /\ p # None /\ ext # "up"
          /\ ext' = "starting" /\ extProfile' = p /\ UNCHANGED session
          /\ events' = Append(events, Asking)
    /\ UNCHANGED reclaims
    /\ ExtFrame

\* The start succeeds or fails; a stop that came meanwhile makes it fail.
ExtStarted ==
    /\ ext = "starting"
    /\ \/ /\ ext' = "up" /\ UNCHANGED <<extProfile, session, inbox>>
          /\ events' = Append(events, Status(Connected(extProfile), TRUE, extProfile))
       \/ /\ ext' = "down" /\ extProfile' = None /\ UNCHANGED <<session, inbox>>
          /\ events' = Append(events, Status(Text("connect_failed"), FALSE, None))
       \/ /\ inbox # <<>> /\ Head(inbox) = None
          /\ ext' = "down" /\ extProfile' = None /\ session' = session + 1
          /\ inbox' = Tail(inbox)
          /\ events' = events \o <<Status(Text("disconnected"), FALSE, None),
                                   Status(Text("connect_failed"), FALSE, None)>>
    /\ UNCHANGED reclaims
    /\ ExtFrame

ExtTraffic ==
    /\ ext = "up"
    /\ \A i \in DOMAIN events : events[i] # Traffic   \* one at a time
    /\ events' = Append(events, Traffic)
    /\ UNCHANGED <<extVars, inbox>>
    /\ ExtFrame

\* The system kills the process: no event tells of it.
Reclaim ==
    /\ ext \in {"starting", "up"} /\ reclaims < MaxReclaims
    /\ reclaims' = reclaims + 1
    /\ ext' = "gone" /\ extProfile' = None /\ session' = session + 1
    /\ UNCHANGED <<inbox, events>>
    /\ ExtFrame

-------------------------------------------------------------------------------

UserStep == \E p \in Profiles : Connect(p) \/ SwitchTo(p)

ControlNext ==
    \/ UserStep \/ Disconnect
    \/ \E g \in Requests : Body(g) \/ Watchdog(g)
    \/ Deliver \/ Lose
    \/ ExtCall \/ ExtStarted \/ ExtTraffic \/ Reclaim

ControlSpec == ControlInit /\ [][ControlNext]_controlVars

\* Bodies resume, timers fire and events arrive; nothing is owed by the user, the
\* system or the extension.
ControlFairness ==
    /\ \A g \in Requests : WF_controlVars(Body(g)) /\ WF_controlVars(Watchdog(g))
    /\ WF_controlVars(Deliver)
ControlFairSpec == ControlSpec /\ ControlFairness

-------------------------------------------------------------------------------
(* Properties. *)

\* Every variable stays in its type.
ControlTypeOK ==
    /\ generation \in 0..MaxRequests
    /\ pc \in [Requests -> {"new", "queued", "policy", "blocked", "thrown",
                            "called", "stopping", "done"}]
    /\ asked \in [Requests -> Profiles \cup {None}]
    /\ evidence \subseteq 1..generation /\ timeout \subseteq 1..generation
    /\ {vpnRunning, traffic, refused, unheard} \subseteq BOOLEAN
    /\ {vpnRunningProfileId, extProfile} \subseteq Profiles \cup {None}
    /\ ext \in {"down", "starting", "up", "gone"}
    /\ session \in 1..(MaxRequests + MaxReclaims + 1)

\* No request, call or event is on its way.
Quiet ==
    /\ \A g \in Requests : pc[g] \in {"new", "done"}
    /\ inbox = <<>> /\ events = <<>> /\ ext # "starting"

\* Once everything asked for has been carried out and told, the UI shows the
\* session that runs: unless the system refused the last request, the last
\* status was lost, or the extension was killed.
QuietAgree ==
    Quiet /\ ~refused /\ ~unheard /\ ext # "gone" =>
        /\ vpnRunning <=> ext = "up"
        /\ vpnRunning => vpnRunningProfileId = extProfile

\* A watchdog that changes the status speaks of the profile asked for last, and only
\* once every request made so far is over.
WatchdogOfLast ==
    [][\A g \in timeout \ timeout' : vpnStatus' \notin {vpnStatus, Text("switching")} =>
          asked[generation] = asked[g] /\ \A h \in Requests : pc[h] \in {"new", "done"}]_controlVars

\* A connection that nothing answers is given up: "connecting" does not stand for
\* ever once no session is shown.
ConnectingEnds == StillConnecting ~> ~StillConnecting
===============================================================================
