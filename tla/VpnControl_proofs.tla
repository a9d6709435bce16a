--------------------------- MODULE VpnControl_proofs ---------------------------
(***************************************************************************)
(* Proofs about VpnControl, for any profiles, any number of requests, lost *)
(* events and reclaims.                                                    *)
(*                                                                         *)
(* The invariant, in layers:                                               *)
(*   Typed     the variables, the calls and the events on their way        *)
(*   Turns     one body at a time, in the order of the requests            *)
(*   Sessions  the processes of the extension so far                       *)
(*   LastWord  the last status on its way tells what the extension is      *)
(*   Stopping  a stop that was accepted is the last call                   *)
(*   Waiting   "connecting" stands only while an answer may still come     *)
(*   Agreed    without anything on its way the keys tell what it is        *)
(***************************************************************************)
EXTENDS VpnControl, TLAPS

(***************************************************************************)
(* Sequences of events.                                                    *)
(***************************************************************************)

\* The texts the extension sends; "connecting" is only ever the UI's own.
Texts == {Text("disconnected"), Text("connect_failed"), Text("switching"),
          Text("awaiting_auth")} \cup {Connected(p) : p \in Profiles}
Statuses == [kind : {"status"}, session : Nat, text : Texts, running : BOOLEAN,
             profile : Profiles \cup {None}]
Event == Statuses \cup {Traffic}

HasStatus(s) == \E i \in 1..Len(s) : s[i] \in Statuses

\* e is the last status in s.
Word(s, e) == \E i \in 1..Len(s) : /\ s[i] = e /\ e \in Statuses
                                   /\ \A j \in (i + 1)..Len(s) : s[j] \notin Statuses

LEMMA TrafficIsNoStatus == Traffic \notin Statuses /\ Traffic.kind = "traffic"
  BY DEF Traffic, Statuses

LEMMA KindOf ==
    ASSUME NEW e \in Event
    PROVE  (e.kind = "status" <=> e \in Statuses) /\ (e.kind = "traffic" <=> e = Traffic)
  BY TrafficIsNoStatus DEF Event, Statuses

LEMMA AddStatus ==
    ASSUME NEW s \in Seq(Event), NEW e \in Statuses
    PROVE  /\ Append(s, e) \in Seq(Event) /\ Append(s, e) # <<>>
           /\ Append(s, e)[Len(Append(s, e))] = e
           /\ HasStatus(Append(s, e))
           /\ \A x : Word(Append(s, e), x) => x = e
  <1> DEFINE t == Append(s, e)
  <1>1. /\ t \in Seq(Event) /\ Len(t) = Len(s) + 1 /\ Len(s) \in Nat /\ t[Len(t)] = e
        /\ t # <<>>
    BY DEF Event
  <1>2. Len(t) \in 1..Len(t)
    BY <1>1
  <1>3. ASSUME NEW x, Word(t, x) PROVE x = e
    <2>1. PICK i \in 1..Len(t) : /\ t[i] = x
                                 /\ \A j \in (i + 1)..Len(t) : t[j] \notin Statuses
      BY <1>3 DEF Word
    <2>2. Len(t) \notin (i + 1)..Len(t)
      BY <1>1, <2>1
    <2>3. i = Len(t)
      BY <1>1, <2>2
    <2> QED
      BY <1>1, <2>1, <2>3
  <1> QED
    BY <1>1, <1>2, <1>3 DEF HasStatus

LEMMA AddTraffic ==
    ASSUME NEW s \in Seq(Event)
    PROVE  /\ Append(s, Traffic) \in Seq(Event) /\ Append(s, Traffic) # <<>>
           /\ HasStatus(Append(s, Traffic)) => HasStatus(s)
           /\ HasStatus(s) => HasStatus(Append(s, Traffic))
           /\ \A x : Word(Append(s, Traffic), x) => Word(s, x)
  <1> DEFINE t == Append(s, Traffic)
  <1>1. /\ t \in Seq(Event) /\ Len(t) = Len(s) + 1 /\ Len(s) \in Nat /\ t[Len(t)] = Traffic
        /\ t # <<>> /\ \A i \in 1..Len(s) : t[i] = s[i]
    BY DEF Event
  <1>2. \A i \in 1..Len(t) : i \in 1..Len(s) \/ i = Len(t)
    BY <1>1
  <1>3. HasStatus(t) => HasStatus(s)
    BY <1>1, <1>2, TrafficIsNoStatus DEF HasStatus
  <1>4. HasStatus(s) => HasStatus(t)
    BY <1>1 DEF HasStatus
  <1>5. ASSUME NEW x, Word(t, x) PROVE Word(s, x)
    <2>1. PICK i \in 1..Len(t) : /\ t[i] = x /\ x \in Statuses
                                 /\ \A j \in (i + 1)..Len(t) : t[j] \notin Statuses
      BY <1>5 DEF Word
    <2>2. i \in 1..Len(s)
      BY <1>1, <1>2, <2>1, TrafficIsNoStatus
    <2>3. \A j \in (i + 1)..Len(s) : s[j] \notin Statuses
      BY <1>1, <2>1, <2>2
    <2> QED
      BY <1>1, <2>1, <2>2, <2>3 DEF Word
  <1> QED
    BY <1>1, <1>3, <1>4, <1>5

LEMMA DropFirst ==
    ASSUME NEW s \in Seq(Event), s # <<>>
    PROVE  /\ Head(s) \in Event /\ Tail(s) \in Seq(Event)
           /\ Tail(s) # <<>> => Tail(s)[Len(Tail(s))] = s[Len(s)]
           /\ HasStatus(Tail(s)) => HasStatus(s)
           /\ HasStatus(s) => HasStatus(Tail(s)) \/ Head(s) \in Statuses
           /\ \A x : Word(Tail(s), x) => Word(s, x)
           /\ Head(s) \in Statuses /\ ~HasStatus(Tail(s)) => Word(s, Head(s))
  <1> DEFINE t == Tail(s)
  <1>1. /\ Head(s) \in Event /\ t \in Seq(Event) /\ Len(s) = Len(t) + 1 /\ Len(t) \in Nat
        /\ s[1] = Head(s) /\ \A i \in 1..Len(t) : t[i] = s[i + 1]
    OBVIOUS
  <1>2. t # <<>> => t[Len(t)] = s[Len(s)]
    BY <1>1
  <1>3. \A i \in 1..Len(t) : i + 1 \in 1..Len(s)
    BY <1>1
  <1>4. HasStatus(t) => HasStatus(s)
    BY <1>1, <1>3 DEF HasStatus
  <1>5. \A i \in 1..Len(s) : i = 1 \/ (i - 1 \in 1..Len(t) /\ t[i - 1] = s[i])
    BY <1>1
  <1>6. HasStatus(s) => HasStatus(t) \/ Head(s) \in Statuses
    BY <1>1, <1>5 DEF HasStatus
  <1>7. ASSUME NEW x, Word(t, x) PROVE Word(s, x)
    <2>1. PICK i \in 1..Len(t) : /\ t[i] = x /\ x \in Statuses
                                 /\ \A j \in (i + 1)..Len(t) : t[j] \notin Statuses
      BY <1>7 DEF Word
    <2>2. i + 1 \in 1..Len(s) /\ s[i + 1] = x
      BY <1>1, <1>3, <2>1
    <2>3. ASSUME NEW j \in ((i + 1) + 1)..Len(s) PROVE s[j] \notin Statuses
      <3>1. j - 1 \in (i + 1)..Len(t) /\ t[j - 1] = s[j]
        BY <1>1, <2>1, <2>3
      <3> QED
        BY <2>1, <3>1
    <2> QED
      BY <2>1, <2>2, <2>3 DEF Word
  <1>8. ASSUME Head(s) \in Statuses, ~HasStatus(t) PROVE Word(s, Head(s))
    <2>1. \A j \in (1 + 1)..Len(s) : j - 1 \in 1..Len(t) /\ t[j - 1] = s[j]
      BY <1>1
    <2>2. \A j \in (1 + 1)..Len(s) : s[j] \notin Statuses
      BY <1>8, <2>1 DEF HasStatus
    <2>3. 1 \in 1..Len(s)
      BY <1>1
    <2> QED
      BY <1>1, <1>8, <2>2, <2>3 DEF Word
  <1> QED
    BY <1>1, <1>2, <1>4, <1>6, <1>7, <1>8

\* A queue without a status ends, if anywhere, with traffic.
LEMMA NothingButTraffic ==
    ASSUME NEW s \in Seq(Event), s # <<>>, ~HasStatus(s)
    PROVE  s[Len(s)] = Traffic
  <1>1. Len(s) \in 1..Len(s) /\ s[Len(s)] \in Event
    OBVIOUS
  <1> QED
    BY <1>1 DEF HasStatus, Event

LEMMA TwoAppended ==
    ASSUME NEW s \in Seq(Event), NEW a \in Event, NEW b \in Event
    PROVE  s \o <<a, b>> = Append(Append(s, a), b)
  OBVIOUS

(***************************************************************************)
(* The invariant.                                                          *)
(***************************************************************************)

Places == {"new", "queued", "policy", "blocked", "thrown", "called", "stopping", "done"}

Typed ==
    /\ generation \in 0..MaxRequests
    /\ pc \in [Requests -> Places] /\ asked \in [Requests -> Profiles \cup {None}]
    /\ evidence \subseteq 1..generation /\ timeout \subseteq 1..generation
    /\ vpnRunning \in BOOLEAN /\ traffic \in BOOLEAN
    /\ refused \in BOOLEAN /\ unheard \in BOOLEAN
    /\ vpnRunningProfileId \in Profiles \cup {None}
    /\ extProfile \in Profiles \cup {None}
    /\ ext \in {"down", "starting", "up", "gone"}
    /\ ext \in {"starting", "up"} => extProfile \in Profiles
    /\ session \in Nat \ {0} /\ reclaims \in 0..MaxReclaims
    /\ events \in Seq(Event) /\ inbox \in Seq(Profiles \cup {None})

\* A body runs once those before it are over; a watchdog runs for one that is.
Turns ==
    /\ \A g \in Requests : pc[g] = "new" <=> g > generation
    /\ \A g \in Requests : pc[g] \notin {"new", "queued"} =>
          \A h \in 1..(g - 1) : pc[h] = "done"
    /\ \A g \in evidence \cup timeout : pc[g] = "done"

\* A process ends with a call that was taken, or is reclaimed.
Sessions ==
    \E k \in 0..generation :
        /\ \A g \in 1..k : pc[g] \in {"blocked", "thrown", "called", "stopping", "done"}
        /\ session + Len(inbox) <= 1 + reclaims + k

\* The status e tells of the extension in the state x with the profile p.
Speaks(e, x, p) ==
    /\ x = "up" => e.running = TRUE /\ e.profile = p
    /\ x = "down" => e.running = FALSE

LastWord ==
    /\ \A e : Word(events, e) => Speaks(e, ext, extProfile)
    /\ events # <<>> /\ events[Len(events)] = Traffic => ext \in {"up", "gone"}

Stopping ==
    (\E g \in Requests : pc[g] = "stopping") /\ ~refused =>
        IF inbox = <<>> THEN ext = "down" ELSE inbox[Len(inbox)] = None

CallMade == \E g \in Requests : pc[g] = "called"

Waiting ==
    vpnStatus = Text("connecting") /\ (CallMade \/ generation \in evidence) =>
        inbox # <<>> \/ HasStatus(events) \/ ext \in {"starting", "gone"} \/ unheard

Agreed ==
    ~HasStatus(events) /\ ~unheard /\ inbox = <<>> /\ ext \in {"up", "down"}
        /\ (~refused \/ CallMade) =>
            /\ vpnRunning <=> ext = "up"
            /\ vpnRunning => vpnRunningProfileId = extProfile

Inv == Typed /\ Turns /\ Sessions /\ LastWord /\ Stopping /\ Waiting /\ Agreed

(***************************************************************************)
(* Types and turns.                                                        *)
(***************************************************************************)

\* Only the UI itself ever writes "connecting".
LEMMA NotSent == Text("connecting") \notin Texts
  BY DEF Texts, Text, Connected

LEMMA SentTexts ==
    /\ {Text("disconnected"), Text("connect_failed"), Text("switching"), Text("awaiting_auth")}
          \subseteq Texts
    /\ \A p \in Profiles : Connected(p) \in Texts
  BY DEF Texts

\* What the extension sends is a status.
LEMMA StatusIs ==
    ASSUME NEW t \in Texts, NEW r \in BOOLEAN, NEW p \in Profiles \cup {None}, session \in Nat
    PROVE  /\ Status(t, r, p) \in Statuses
           /\ Status(t, r, p).running = r /\ Status(t, r, p).profile = p
  BY DEF Status, Statuses

LEMMA UpSays ==
    ASSUME NEW p \in Profiles, session \in Nat
    PROVE  /\ Status(Connected(p), TRUE, p) \in Statuses
           /\ Status(Connected(p), TRUE, p).running = TRUE
           /\ Status(Connected(p), TRUE, p).profile = p
  <1>1. Connected(p) \in Texts /\ TRUE \in BOOLEAN /\ p \in Profiles \cup {None}
    BY SentTexts
  <1> QED
    BY <1>1, StatusIs

LEMMA DownSays ==
    ASSUME NEW t \in {"disconnected", "connect_failed"}, session \in Nat
    PROVE  /\ Status(Text(t), FALSE, None) \in Statuses
           /\ Status(Text(t), FALSE, None).running = FALSE
  <1>1. Text(t) \in Texts /\ FALSE \in BOOLEAN /\ None \in Profiles \cup {None}
    BY SentTexts
  <1> QED
    BY <1>1, StatusIs

\* A step of the extension that says something says last what it has become.
ExtSays ==
    /\ events' \in Seq(Event) /\ HasStatus(events') /\ events' # <<>>
    /\ events'[Len(events')] # Traffic
    /\ \A e : Word(events', e) => Speaks(e, ext', extProfile')

LEMMA Said ==
    ASSUME Typed, NEW e \in Statuses, events' = Append(events, e),
           Speaks(e, ext', extProfile')
    PROVE  ExtSays
  <1>1. events \in Seq(Event) /\ e # Traffic
    BY TrafficIsNoStatus DEF Typed
  <1> QED
    BY <1>1, AddStatus DEF ExtSays

LEMMA SaidTwice ==
    ASSUME Typed, NEW d \in Statuses, NEW e \in Statuses, events' = events \o <<d, e>>,
           Speaks(e, ext', extProfile')
    PROVE  ExtSays
  <1>1. events \in Seq(Event) /\ e # Traffic /\ d \in Event /\ e \in Event
    BY TrafficIsNoStatus DEF Typed, Event
  <1>2. Append(events, d) \in Seq(Event)
    BY <1>1, AddStatus
  <1>3. events' = Append(Append(events, d), e)
    BY <1>1, TwoAppended
  <1> QED
    BY <1>1, <1>2, <1>3, AddStatus DEF ExtSays

LEMMA ExtCallSays ==
    ASSUME Typed, ExtCall
    PROVE  /\ ExtSays /\ inbox # <<>> /\ inbox' = Tail(inbox) /\ ext # "starting"
           /\ \/ ext' = "down" /\ session' = session + 1
              \/ ext' \in {"up", "starting"} /\ session' = session
           /\ ext' \in {"starting", "up"} => extProfile' \in Profiles
           /\ extProfile' \in Profiles \cup {None}
           /\ UNCHANGED <<reclaims, requestVars, timerVars, keyVars, traffic, unheard, lost>>
  <1> DEFINE p == Head(inbox)
  <1>1. /\ inbox # <<>> /\ inbox' = Tail(inbox) /\ ext # "starting"
        /\ UNCHANGED <<reclaims, requestVars, timerVars, keyVars, traffic, unheard, lost>>
    BY DEF ExtCall, ExtFrame
  <1>2. p \in Profiles \cup {None} /\ session \in Nat
    BY <1>1 DEF Typed
  <1>3. Asking \in Statuses
    BY <1>2, StatusIs, SentTexts DEF Asking
  <1>4. CASE /\ p = None
             /\ ext' = "down" /\ extProfile' = None /\ session' = session + 1
             /\ events' = Append(events, Status(Text("disconnected"), FALSE, None))
    <2>1. /\ Status(Text("disconnected"), FALSE, None) \in Statuses
          /\ Status(Text("disconnected"), FALSE, None).running = FALSE
      BY <1>2, DownSays
    <2>2. ExtSays
      BY <1>4, <2>1, Said DEF Speaks
    <2> QED
      BY <1>1, <1>4, <2>2
  <1>5. CASE /\ p # None /\ ext = "up" /\ p = extProfile
             /\ events' = Append(events, Status(Connected(p), TRUE, p))
             /\ UNCHANGED <<ext, extProfile, session>>
    <2>1. /\ Status(Connected(p), TRUE, p) \in Statuses
          /\ Status(Connected(p), TRUE, p).running = TRUE
          /\ Status(Connected(p), TRUE, p).profile = p
      BY <1>2, <1>5, UpSays
    <2>2. ExtSays
      BY <1>5, <2>1, Said DEF Speaks
    <2> QED
      BY <1>1, <1>2, <1>5, <2>2
  <1>6. CASE /\ p # None /\ ext = "up"
             /\ ext' = "starting" /\ extProfile' = p /\ UNCHANGED session
             /\ events' = events \o <<Status(Text("switching"), TRUE, p), Asking>>
    <2>1. Status(Text("switching"), TRUE, p) \in Statuses
      BY <1>2, StatusIs, SentTexts
    <2>2. ExtSays
      BY <1>3, <1>6, <2>1, SaidTwice DEF Speaks
    <2> QED
      BY <1>1, <1>2, <1>6, <2>2
  <1>7. CASE /\ p # None /\ ext # "up"
             /\ ext' = "starting" /\ extProfile' = p /\ UNCHANGED session
             /\ events' = Append(events, Asking)
    <2>1. ExtSays
      BY <1>3, <1>7, Said DEF Speaks
    <2> QED
      BY <1>1, <1>2, <1>7, <2>1
  <1> QED
    BY <1>4, <1>5, <1>6, <1>7 DEF ExtCall

LEMMA ExtStartedSays ==
    ASSUME Typed, ExtStarted
    PROVE  /\ ExtSays /\ ext = "starting"
           /\ \/ inbox' = inbox /\ session' = session
              \/ /\ inbox # <<>> /\ Head(inbox) = None /\ inbox' = Tail(inbox)
                 /\ session' = session + 1 /\ ext' = "down"
           /\ ext' \in {"up", "down"} /\ (ext' = "up" => extProfile' \in Profiles)
           /\ extProfile' \in Profiles \cup {None}
           /\ UNCHANGED <<reclaims, requestVars, timerVars, keyVars, traffic, unheard, lost>>
  <1>1. /\ ext = "starting"
        /\ UNCHANGED <<reclaims, requestVars, timerVars, keyVars, traffic, unheard, lost>>
    BY DEF ExtStarted, ExtFrame
  <1>2. session \in Nat /\ extProfile \in Profiles
    BY <1>1 DEF Typed
  <1>3. CASE /\ ext' = "up" /\ UNCHANGED <<extProfile, session, inbox>>
             /\ events' = Append(events, Status(Connected(extProfile), TRUE, extProfile))
    <2>1. /\ Status(Connected(extProfile), TRUE, extProfile) \in Statuses
          /\ Status(Connected(extProfile), TRUE, extProfile).running = TRUE
          /\ Status(Connected(extProfile), TRUE, extProfile).profile = extProfile
      BY <1>2, UpSays
    <2>2. ExtSays
      BY <1>3, <2>1, Said DEF Speaks
    <2> QED
      BY <1>1, <1>2, <1>3, <2>2
  <1>4. /\ Status(Text("connect_failed"), FALSE, None) \in Statuses
        /\ Status(Text("connect_failed"), FALSE, None).running = FALSE
        /\ Status(Text("disconnected"), FALSE, None) \in Statuses
    BY <1>2, DownSays
  <1>5. CASE /\ ext' = "down" /\ extProfile' = None /\ UNCHANGED <<session, inbox>>
             /\ events' = Append(events, Status(Text("connect_failed"), FALSE, None))
    <2>1. ExtSays
      BY <1>4, <1>5, Said DEF Speaks
    <2> QED
      BY <1>1, <1>5, <2>1
  <1>6. CASE /\ inbox # <<>> /\ Head(inbox) = None
             /\ ext' = "down" /\ extProfile' = None /\ session' = session + 1
             /\ inbox' = Tail(inbox)
             /\ events' = events \o <<Status(Text("disconnected"), FALSE, None),
                                      Status(Text("connect_failed"), FALSE, None)>>
    <2>1. ExtSays
      BY <1>4, <1>6, SaidTwice DEF Speaks
    <2> QED
      BY <1>1, <1>6, <2>1
  <1> QED
    BY <1>3, <1>5, <1>6 DEF ExtStarted

LEMMA TypedStep ==
    ASSUME Typed, Turns, [ControlNext]_controlVars
    PROVE  Typed'
  <1>0. generation \in Nat /\ traffic \in BOOLEAN /\ inbox \in Seq(Profiles \cup {None})
    BY ControlAssumption DEF Typed
  <1> USE DEF requestVars, timerVars, keyVars, extVars, channelVars, Places
  <1>1. ASSUME NEW p \in Profiles \cup {None}, NEW st, NEW c \in BOOLEAN, Request(p, st, c)
        PROVE  Typed'
    <2>1. /\ generation' = generation + 1 /\ generation' \in 0..MaxRequests
          /\ generation' \in Requests
      BY <1>1, ControlAssumption DEF Request, Typed, Requests
    <2>2. /\ pc' \in [Requests -> Places] /\ asked' \in [Requests -> Profiles \cup {None}]
      BY <1>1, <2>1 DEF Request, Typed
    <2>3. evidence' \subseteq 1..generation' /\ timeout' \subseteq 1..generation'
      <3>1. evidence' \subseteq evidence /\ timeout' \subseteq timeout
        BY <1>1 DEF Request, ClearWatchdogs
      <3>2. 1..generation \subseteq 1..generation'
        BY <1>0, <2>1
      <3> QED
        BY <3>1, <3>2 DEF Typed
    <2> QED
      BY <1>1, <2>1, <2>2, <2>3 DEF Request, Typed
  <1>2. ASSUME NEW g \in Requests, Connecting(g) \/ Blocked(g) \/ Thrown(g) \/ Disconnected(g)
        PROVE  Typed'
    BY <1>2 DEF Typed, Connecting, Blocked, Thrown, Disconnected, Move, RequestFrame
  <1>3. ASSUME NEW g \in Requests, Policy(g) \/ Disconnecting(g)
        PROVE  Typed'
    <2>1. asked[g] \in Profiles \cup {None}
      BY DEF Typed
    <2>2. UNCHANGED inbox \/ \E p \in Profiles \cup {None} : inbox' = Append(inbox, p)
      BY <1>3, <2>1 DEF Policy, Disconnecting
    <2>3. inbox' \in Seq(Profiles \cup {None})
      BY <1>0, <2>2
    <2> QED
      BY <1>3, <2>3 DEF Typed, Policy, Disconnecting, Move, RequestFrame
  <1>4. ASSUME NEW g \in Requests, Arm(g)
        PROVE  Typed'
    <2>1. g \in 1..generation
      <3>1. pc[g] # "new"
        BY <1>4 DEF Arm, ArmTimers
      <3>2. g \in Nat /\ 1 <= g
        BY DEF Requests
      <3> QED
        BY <1>0, <3>1, <3>2 DEF Turns
    <2> QED
      BY <1>4, <2>1 DEF Typed, Arm, ArmTimers, Move, RequestFrame
  <1>5. ASSUME NEW g \in Requests, Evidence(g) \/ Timeout(g)
        PROVE  Typed'
    BY <1>5 DEF Typed, Evidence, Timeout, TimeoutIf, WatchdogFrame
  <1>6. CASE OnStatus \/ OnTraffic \/ Lose
    <2>1. /\ events # <<>> /\ events' = Tail(events) /\ events \in Seq(Event)
      BY <1>6 DEF OnStatus, OnTraffic, Lose, Typed
    <2>2. events' \in Seq(Event) /\ Head(events) \in Event
      BY <2>1, DropFirst
    <2>3. OnStatus => /\ Head(events).running \in BOOLEAN
                      /\ Head(events).profile \in Profiles \cup {None}
      BY <2>2, KindOf DEF OnStatus, Statuses
    <2> QED
      BY <1>6, <2>2, <2>3 DEF Typed, OnStatus, OnTraffic, Lose, EventFrame
  <1>7. CASE ExtCall \/ ExtStarted
    <2>1. /\ ExtSays /\ (UNCHANGED inbox \/ (inbox # <<>> /\ inbox' = Tail(inbox)))
          /\ session' \in {session, session + 1}
          /\ ext' \in {"down", "starting", "up"}
          /\ ext' \in {"starting", "up"} => extProfile' \in Profiles
          /\ extProfile' \in Profiles \cup {None}
          /\ UNCHANGED <<reclaims, requestVars, timerVars, keyVars, traffic, unheard, lost>>
      BY <1>7, ExtCallSays, ExtStartedSays
    <2>2. inbox' \in Seq(Profiles \cup {None})
      BY <1>0, <2>1
    <2>3. session' \in Nat \ {0} /\ events' \in Seq(Event)
      BY <2>1 DEF ExtSays, Typed
    <2> HIDE DEF Places
    <2> QED
      BY <2>1, <2>2, <2>3 DEF Typed
  <1>9. CASE ExtTraffic
    <2>1. events' \in Seq(Event)
      BY <1>9, AddTraffic DEF ExtTraffic, Typed
    <2> QED
      BY <1>9, <2>1 DEF Typed, ExtTraffic, ExtFrame
  <1>10. CASE Reclaim
    <2>1. reclaims' \in 0..MaxReclaims
      BY <1>10, ControlAssumption DEF Reclaim, Typed
    <2> QED
      BY <1>10, <2>1 DEF Typed, Reclaim, ExtFrame
  <1>11. CASE UNCHANGED controlVars
    BY <1>11 DEF Typed, controlVars
  <1> QED
    BY <1>0, <1>1, <1>2, <1>3, <1>4, <1>5, <1>6, <1>7, <1>9, <1>10, <1>11
    DEF ControlNext, UserStep, Connect, SwitchTo, Disconnect, Body, Watchdog, Deliver

\* The steps by which the body of a request moves on.
LEMMA BodySays ==
    ASSUME Typed, Turns, NEW g \in Requests, Body(g)
    PROVE  \E place \in Places \ {"new", "queued"} :
             /\ pc' = [pc EXCEPT ![g] = place]
             /\ pc[g] \notin {"new", "done"} /\ place # pc[g]
             /\ \A h \in 1..(g - 1) : pc[h] = "done"
             /\ g \in 1..generation
             /\ UNCHANGED generation
             /\ pc[g] = "queued" => place \in {"policy", "stopping"}
  <1>1. CASE Connecting(g) \/ Disconnecting(g)
    <2>1. pc[g] = "queued" /\ \A h \in 1..(g - 1) : pc[h] = "done"
      BY <1>1 DEF Connecting, Disconnecting, Turn
    <2>2. \E place \in {"policy", "stopping"} : pc' = [pc EXCEPT ![g] = place]
      BY <1>1 DEF Connecting, Disconnecting, Move
    <2>3. UNCHANGED generation
      BY <1>1 DEF Connecting, Disconnecting, RequestFrame
    <2>4. g \in 1..generation
      BY <2>1 DEF Turns, Requests, Typed
    <2> QED
      BY <2>1, <2>2, <2>3, <2>4 DEF Places
  <1>2. CASE Policy(g) \/ Blocked(g) \/ Thrown(g) \/ Arm(g) \/ Disconnected(g)
    <2>1. pc[g] \in {"policy", "blocked", "thrown", "called", "stopping"}
      BY <1>2 DEF Policy, Blocked, Thrown, Arm, ArmTimers, Disconnected
    <2>2. \E place \in {"blocked", "thrown", "called", "done"} :
             pc' = [pc EXCEPT ![g] = place] /\ place # pc[g]
      BY <1>2 DEF Policy, Blocked, Thrown, Arm, ArmTimers, Disconnected, Move
    <2>3. UNCHANGED generation
      BY <1>2 DEF Policy, Blocked, Thrown, Arm, ArmTimers, Disconnected, RequestFrame
    <2>4. g \in 1..generation
      BY <2>1 DEF Turns, Requests, Typed
    <2>5. \A h \in 1..(g - 1) : pc[h] = "done"
      BY <2>1 DEF Turns
    <2> QED
      BY <2>1, <2>2, <2>3, <2>4, <2>5 DEF Places
  <1> QED
    BY <1>1, <1>2 DEF Body

\* Every other step leaves the requests as they are.
LEMMA RequestsStay ==
    ASSUME [ControlNext]_controlVars
    PROVE  \/ \E p \in Profiles \cup {None}, st \in {vpnStatus, Text("switching")} :
                 Request(p, st, FALSE) \/ Request(p, st, traffic)
           \/ \E g \in Requests : Body(g)
           \/ UNCHANGED requestVars /\ evidence' \subseteq evidence /\ timeout' \subseteq timeout
  <1>1. ASSUME NEW g \in Requests, Watchdog(g)
        PROVE  UNCHANGED requestVars /\ evidence' \subseteq evidence /\ timeout' \subseteq timeout
    BY <1>1 DEF Watchdog, Evidence, Timeout, TimeoutIf, WatchdogFrame, requestVars
  <1>2. CASE Deliver \/ Lose
    BY <1>2 DEF Deliver, OnStatus, OnTraffic, Lose, EventFrame, requestVars, timerVars
  <1>3. CASE ExtCall \/ ExtStarted \/ ExtTraffic \/ Reclaim
    BY <1>3 DEF ExtCall, ExtStarted, ExtTraffic, Reclaim, ExtFrame, requestVars, timerVars
  <1>4. CASE UNCHANGED controlVars
    BY <1>4 DEF controlVars, requestVars, timerVars
  <1>5. CASE UserStep \/ Disconnect
    BY <1>5 DEF UserStep, Connect, SwitchTo, Disconnect
  <1> QED
    BY <1>1, <1>2, <1>3, <1>4, <1>5 DEF ControlNext

LEMMA TurnsStep ==
    ASSUME Typed, Turns, [ControlNext]_controlVars
    PROVE  Turns'
  <1>0. /\ generation \in Nat /\ Requests \subseteq Nat /\ pc \in [Requests -> Places]
        /\ MaxRequests \in Nat
    BY ControlAssumption DEF Typed, Requests
  <1>1. ASSUME NEW p, NEW st, NEW c, Request(p, st, c)
        PROVE  Turns'
    <2>1. /\ generation' = generation + 1 /\ generation' \in Requests
          /\ pc' = [pc EXCEPT ![generation'] = "queued"]
          /\ evidence' \subseteq evidence /\ timeout' \subseteq timeout
      BY <1>0, <1>1 DEF Request, ClearWatchdogs, Requests
    <2>2. pc[generation'] = "new"
      BY <1>0, <2>1 DEF Turns
    <2>3. \A g \in Requests : pc'[g] = IF g = generation' THEN "queued" ELSE pc[g]
      BY <1>0, <2>1
    <2>4. \A g \in Requests : pc'[g] = "new" <=> g > generation'
      BY <1>0, <2>1, <2>3 DEF Turns
    <2>5. ASSUME NEW g \in Requests, pc'[g] \notin {"new", "queued"}, NEW h \in 1..(g - 1)
          PROVE  pc'[h] = "done"
      <3>1. h \in Requests /\ pc[g] \notin {"new", "queued"}
        BY <1>0, <2>3, <2>5 DEF Requests
      <3>2. pc[h] = "done"
        BY <2>5, <3>1 DEF Turns
      <3> QED
        BY <2>2, <2>3, <3>1, <3>2
    <2>6. \A g \in evidence' \cup timeout' : pc'[g] = "done"
      <3>1. ASSUME NEW g \in evidence' \cup timeout' PROVE pc'[g] = "done"
        <4>1. pc[g] = "done" /\ g \in 1..generation
          BY <2>1 DEF Turns, Typed
        <4>2. g \in Requests
          BY <1>0, <2>1, <4>1 DEF Requests
        <4> QED
          BY <2>2, <2>3, <4>1, <4>2
      <3> QED
        BY <3>1
    <2> QED
      BY <2>4, <2>5, <2>6 DEF Turns
  <1>2. ASSUME NEW g \in Requests, Body(g)
        PROVE  Turns'
    <2>1. PICK place \in Places \ {"new", "queued"} :
             /\ pc' = [pc EXCEPT ![g] = place]
             /\ pc[g] \notin {"new", "done"}
             /\ \A h \in 1..(g - 1) : pc[h] = "done"
             /\ g \in 1..generation
             /\ UNCHANGED generation
      BY <1>2, BodySays
    <2>2. \A h \in Requests : pc'[h] = IF h = g THEN place ELSE pc[h]
      BY <1>0, <2>1
    <2>3. \A h \in Requests : pc'[h] = "new" <=> h > generation'
      BY <1>0, <2>1, <2>2 DEF Turns
    <2>4. ASSUME NEW m \in Requests, pc'[m] \notin {"new", "queued"}, NEW h \in 1..(m - 1)
          PROVE  pc'[h] = "done"
      <3>1. h \in Requests /\ h # m
        BY <1>0 DEF Requests
      <3>2. pc[h] = "done"
        BY <2>1, <2>2, <2>4 DEF Turns
      <3>3. h # g
        BY <2>1, <3>2
      <3> QED
        BY <2>2, <3>1, <3>2, <3>3
    <2>5. \A h \in evidence' \cup timeout' : pc'[h] = "done"
      <3>1. ASSUME NEW h \in evidence \cup timeout PROVE pc'[h] = "done"
        <4>1. pc[h] = "done" /\ h \in Requests
          BY <1>0 DEF Turns, Typed, Requests
        <4> QED
          BY <2>1, <2>2, <4>1
      <3>2. Arm(g) => pc'[g] = "done"
        BY <1>0 DEF Arm, ArmTimers, Move
      <3>3. \/ UNCHANGED <<evidence, timeout>>
            \/ Arm(g) /\ evidence' = evidence \cup {g} /\ timeout' = timeout \cup {g}
        BY <1>2 DEF Body, Connecting, Policy, Blocked, Thrown, Arm, ArmTimers, Disconnecting,
           Disconnected, timerVars
      <3> QED
        BY <3>1, <3>2, <3>3
    <2> QED
      BY <2>3, <2>4, <2>5 DEF Turns
  <1>3. CASE UNCHANGED requestVars /\ evidence' \subseteq evidence /\ timeout' \subseteq timeout
    BY <1>3 DEF Turns, requestVars
  <1> QED
    BY <1>1, <1>2, <1>3, RequestsStay

\* What a request and its body do to the calls, the events and the extension.
LEMMA BodyCalls ==
    ASSUME Typed, NEW g \in Requests, Body(g)
    PROVE  /\ UNCHANGED <<ext, extProfile, session, reclaims, events, unheard, traffic, asked,
                          generation>>
           /\ \/ UNCHANGED inbox
              \/ /\ Policy(g) \/ Disconnecting(g)
                 /\ pc'[g] \in {"called", "stopping"} /\ pc[g] \in {"policy", "queued"}
                 /\ \E c \in Profiles \cup {None} : inbox' = Append(inbox, c)
           /\ inbox' # inbox /\ Disconnecting(g) => inbox' = Append(inbox, None)
  <1>1. pc \in [Requests -> Places] /\ asked[g] \in Profiles \cup {None}
    BY DEF Typed
  <1>2. CASE \/ Connecting(g) \/ Blocked(g) \/ Thrown(g) \/ Arm(g) \/ Disconnected(g)
    <2>1. /\ UNCHANGED <<inbox, extVars, events, unheard, traffic, asked, generation>>
      BY <1>2 DEF Connecting, Blocked, Thrown, Arm, ArmTimers, Disconnected, RequestFrame
    <2> QED
      BY <2>1 DEF extVars
  <1>3. CASE Policy(g) \/ Disconnecting(g)
    <2>1. UNCHANGED <<extVars, events, unheard, traffic, asked, generation>>
      BY <1>3 DEF Policy, Disconnecting, RequestFrame
    <2>2. \/ UNCHANGED inbox
          \/ /\ pc'[g] \in {"called", "stopping"} /\ pc[g] \in {"policy", "queued"}
             /\ inbox' = Append(inbox, asked[g])
          \/ /\ pc'[g] \in {"called", "stopping"} /\ pc[g] \in {"policy", "queued"}
             /\ inbox' = Append(inbox, None)
      BY <1>1, <1>3 DEF Policy, Disconnecting, Move, Turn
    <2>3. Disconnecting(g) => UNCHANGED inbox \/ inbox' = Append(inbox, None)
      BY DEF Disconnecting
    <2> QED
      BY <1>1, <1>3, <2>1, <2>2, <2>3 DEF extVars
  <1> QED
    BY <1>2, <1>3 DEF Body

LEMMA SessionsStep ==
    ASSUME Typed, Turns, Sessions, [ControlNext]_controlVars
    PROVE  Sessions'
  <1> DEFINE Begun == {"blocked", "thrown", "called", "stopping", "done"}
  <1>1. PICK k \in 0..generation : /\ \A g \in 1..k : pc[g] \in Begun
                                   /\ session + Len(inbox) <= 1 + reclaims + k
    BY DEF Sessions
  <1>2. /\ generation \in 0..MaxRequests /\ session \in Nat /\ reclaims \in Nat
        /\ MaxRequests \in Nat /\ generation \in Nat /\ k \in Nat
        /\ Len(inbox) \in Nat /\ inbox \in Seq(Profiles \cup {None})
        /\ pc \in [Requests -> Places]
    BY ControlAssumption DEF Typed
  <1>3. ASSUME NEW p, NEW st, NEW c, Request(p, st, c)
        PROVE  Sessions'
    <2>1. /\ generation' = generation + 1 /\ pc' = [pc EXCEPT ![generation'] = "queued"]
          /\ UNCHANGED <<session, inbox, reclaims>>
      BY <1>3 DEF Request, extVars, channelVars
    <2>2. \A g \in 1..k : pc'[g] \in Begun
      BY <1>1, <1>2, <2>1 DEF Requests
    <2>3. k \in 0..generation'
      BY <1>2, <2>1
    <2> QED
      BY <1>1, <2>1, <2>2, <2>3 DEF Sessions
  <1>4. ASSUME NEW g \in Requests, Body(g)
        PROVE  Sessions'
    <2>1. PICK place \in Places \ {"new", "queued"} :
             /\ pc' = [pc EXCEPT ![g] = place]
             /\ pc[g] \notin {"new", "done"} /\ place # pc[g]
             /\ \A h \in 1..(g - 1) : pc[h] = "done"
             /\ g \in 1..generation
             /\ UNCHANGED generation
             /\ pc[g] = "queued" => place \in {"policy", "stopping"}
      BY <1>4, BodySays
    <2>2. UNCHANGED <<session, reclaims>>
      BY <1>4, BodyCalls
    <2>3. CASE UNCHANGED inbox
      <3>1. place # "policy" \/ pc[g] = "queued"
        BY <1>4, <2>1, <1>2 DEF Body, Connecting, Policy, Blocked, Thrown, Arm, ArmTimers,
           Disconnecting, Disconnected, Turn, Move, Places
      <3>2. \A h \in 1..k : pc'[h] \in Begun
        BY <1>1, <1>2, <2>1, <3>1 DEF Requests, Places
      <3> QED
        BY <1>1, <2>1, <2>2, <2>3, <3>2 DEF Sessions
    <2>4. CASE /\ pc'[g] \in {"called", "stopping"} /\ pc[g] \in {"policy", "queued"}
               /\ \E c \in Profiles \cup {None} : inbox' = Append(inbox, c)
      <3>1. Len(inbox') = Len(inbox) + 1
        BY <1>2, <2>4
      <3>2. k < g
        BY <1>1, <1>2, <2>1, <2>4
      <3>3. \A h \in 1..g : pc'[h] \in Begun
        BY <1>2, <2>1, <2>4 DEF Requests
      <3>4. session' + Len(inbox') <= 1 + reclaims' + g /\ g \in 0..generation'
        BY <1>1, <1>2, <2>1, <2>2, <3>1, <3>2
      <3> QED
        BY <3>3, <3>4 DEF Sessions
    <2> QED
      BY <1>4, <2>3, <2>4, BodyCalls
  <1>5. ASSUME UNCHANGED requestVars, \/ UNCHANGED <<session, inbox, reclaims>>
                                      \/ /\ session' \in {session, session + 1}
                                         /\ inbox # <<>> /\ inbox' = Tail(inbox)
                                         /\ UNCHANGED reclaims
                                      \/ /\ session' = session + 1 /\ UNCHANGED inbox
                                         /\ reclaims' = reclaims + 1
        PROVE  Sessions'
    <2>1. UNCHANGED <<pc, generation>>
      BY <1>5 DEF requestVars
    <2>2. session' + Len(inbox') <= 1 + reclaims' + k
      <3>1. inbox # <<>> => Len(inbox) = Len(Tail(inbox)) + 1 /\ Len(Tail(inbox)) \in Nat
        BY <1>2
      <3> QED
        BY <1>1, <1>2, <1>5, <3>1
    <2> QED
      BY <1>1, <2>1, <2>2 DEF Sessions
  <1>6. ASSUME NEW g \in Requests, Watchdog(g)
        PROVE  UNCHANGED requestVars /\ UNCHANGED <<session, inbox, reclaims>>
    BY <1>6 DEF Watchdog, Evidence, Timeout, TimeoutIf, WatchdogFrame, extVars, channelVars
  <1>7. CASE Deliver \/ Lose \/ ExtTraffic \/ UNCHANGED controlVars
    <2>1. UNCHANGED requestVars /\ UNCHANGED <<session, inbox, reclaims>>
      BY <1>7 DEF Deliver, OnStatus, OnTraffic, Lose, EventFrame, ExtTraffic, ExtFrame, extVars,
         channelVars, controlVars
    <2> QED
      BY <1>5, <2>1
  <1>8. CASE ExtCall \/ ExtStarted
    <2>1. /\ UNCHANGED <<requestVars, reclaims>>
          /\ \/ UNCHANGED <<session, inbox>>
             \/ /\ session' \in {session, session + 1}
                /\ inbox # <<>> /\ inbox' = Tail(inbox)
      BY <1>8, ExtCallSays, ExtStartedSays
    <2> QED
      BY <1>5, <2>1
  <1>9. CASE Reclaim
    <2>1. UNCHANGED <<requestVars, inbox>> /\ session' = session + 1 /\ reclaims' = reclaims + 1
      BY <1>9 DEF Reclaim, ExtFrame
    <2> QED
      BY <1>5, <2>1
  <1> QED
    BY <1>3, <1>4, <1>5, <1>6, <1>7, <1>8, <1>9
    DEF ControlNext, UserStep, Connect, SwitchTo, Disconnect

(***************************************************************************)
(* What the extension has said.                                            *)
(***************************************************************************)

\* The steps that take the first event, and those that leave the events alone.
LEMMA LastWordStep ==
    ASSUME Typed, LastWord, [ControlNext]_controlVars
    PROVE  LastWord'
  <1>0. events \in Seq(Event)
    BY DEF Typed
  <1>1. CASE UNCHANGED <<events, ext, extProfile>>
    BY <1>1 DEF LastWord
  <1>2. CASE Deliver \/ Lose
    <2>1. /\ events # <<>> /\ events' = Tail(events) /\ UNCHANGED <<ext, extProfile>>
      BY <1>2 DEF Deliver, OnStatus, OnTraffic, Lose, EventFrame, extVars
    <2> QED
      BY <1>0, <2>1, DropFirst DEF LastWord
  <1>3. CASE ExtCall \/ ExtStarted
    <2>1. ExtSays
      BY <1>3, ExtCallSays, ExtStartedSays
    <2> QED
      BY <2>1 DEF LastWord, ExtSays
  <1>4. CASE ExtTraffic
    <2>1. ext = "up" /\ events' = Append(events, Traffic) /\ UNCHANGED <<ext, extProfile>>
      BY <1>4 DEF ExtTraffic, extVars
    <2> QED
      BY <1>0, <2>1, AddTraffic DEF LastWord
  <1>5. CASE Reclaim
    <2>1. ext' = "gone" /\ UNCHANGED events
      BY <1>5 DEF Reclaim
    <2> QED
      BY <2>1 DEF LastWord, Speaks
  <1>6. ASSUME NEW g \in Requests, Body(g) \/ Watchdog(g)
        PROVE  UNCHANGED <<events, ext, extProfile>>
    BY <1>6, BodyCalls DEF Watchdog, Evidence, Timeout, TimeoutIf, WatchdogFrame, extVars,
       channelVars
  <1>7. CASE UserStep \/ Disconnect \/ UNCHANGED controlVars
    BY <1>1, <1>7 DEF UserStep, Connect, SwitchTo, Disconnect, Request, extVars, channelVars,
       controlVars
  <1> QED
    BY <1>1, <1>2, <1>3, <1>4, <1>5, <1>6, <1>7 DEF ControlNext

(***************************************************************************)
(* What was asked of the system.                                           *)
(***************************************************************************)

LEMMA LastCall ==
    ASSUME NEW s \in Seq(Profiles \cup {None}), s # <<>>
    PROVE  IF Tail(s) = <<>> THEN s[Len(s)] = Head(s)
           ELSE Tail(s)[Len(Tail(s))] = s[Len(s)]
  <1> DEFINE t == Tail(s)
  <1>1. /\ Len(s) = Len(t) + 1 /\ Len(t) \in Nat /\ s[1] = Head(s)
        /\ \A i \in 1..Len(t) : t[i] = s[i + 1]
        /\ t \in Seq(Profiles \cup {None})
    OBVIOUS
  <1>2. t # <<>> => Len(t) # 0
    BY <1>1
  <1> HIDE DEF t
  <1>3. t = <<>> => Len(t) = 0
    OBVIOUS
  <1>4. t = <<>> => s[Len(s)] = Head(s)
    BY <1>1, <1>3
  <1>5. t # <<>> => t[Len(t)] = s[Len(s)]
    BY <1>1, <1>2
  <1> QED
    BY <1>4, <1>5 DEF t

LEMMA CallAdded ==
    ASSUME NEW s \in Seq(Profiles \cup {None}), NEW c \in Profiles \cup {None}
    PROVE  Append(s, c) # <<>> /\ Append(s, c)[Len(Append(s, c))] = c
  OBVIOUS

\* Another body never runs beside one that is under way.
LEMMA OneBody ==
    ASSUME Typed, Turns, NEW g \in Requests, pc[g] \notin {"new", "done"},
           \A m \in 1..(g - 1) : pc[m] = "done",
           NEW h \in Requests, pc[h] \notin {"new", "queued", "done"}
    PROVE  h = g
  <1>1. g \in Nat /\ h \in Nat /\ 1 <= g /\ 1 <= h
    BY DEF Requests
  <1>2. \A m \in 1..(h - 1) : pc[m] = "done"
    BY DEF Turns
  <1>3. ~(h < g)
    <2>1. h < g => h \in 1..(g - 1)
      BY <1>1
    <2> QED
      BY <2>1
  <1>4. ~(g < h)
    <2>1. g < h => g \in 1..(h - 1)
      BY <1>1
    <2> QED
      BY <1>2, <2>1
  <1> QED
    BY <1>1, <1>3, <1>4

\* The steps that are neither a request, nor its body, nor the extension's.
LEMMA QuietSteps ==
    ASSUME \/ \E g \in Requests : Watchdog(g)
           \/ Deliver \/ Lose \/ UNCHANGED controlVars
    PROVE  UNCHANGED <<requestVars, inbox, ext, extProfile, session>>
  BY DEF Watchdog, Evidence, Timeout, TimeoutIf, WatchdogFrame, Deliver, OnStatus, OnTraffic,
     Lose, EventFrame, extVars, channelVars, controlVars

LEMMA StoppingStep ==
    ASSUME Typed, Turns, Stopping, [ControlNext]_controlVars
    PROVE  Stopping'
  <1>0. /\ inbox \in Seq(Profiles \cup {None}) /\ pc \in [Requests -> Places]
        /\ ext \in {"down", "starting", "up", "gone"}
    BY DEF Typed
  <1>1. ASSUME NEW p, NEW st, NEW c, Request(p, st, c)
        PROVE  Stopping'
    <2>1. /\ pc' = [pc EXCEPT ![generation'] = "queued"]
          /\ UNCHANGED <<refused, inbox, ext>>
      BY <1>1 DEF Request, extVars, channelVars
    <2>2. \A g \in Requests : pc'[g] = "stopping" => pc[g] = "stopping"
      BY <1>0, <2>1
    <2> QED
      BY <2>1, <2>2 DEF Stopping
  <1>2. ASSUME NEW g \in Requests, Body(g)
        PROVE  Stopping'
    <2>1. PICK place \in Places \ {"new", "queued"} :
             /\ pc' = [pc EXCEPT ![g] = place]
             /\ pc[g] \notin {"new", "done"} /\ place # pc[g]
             /\ \A h \in 1..(g - 1) : pc[h] = "done"
      BY <1>2, BodySays
    <2>2. ASSUME NEW h \in Requests, pc'[h] = "stopping"
          PROVE  h = g
      <3>1. h # g => pc[h] = "stopping"
        BY <1>0, <2>1, <2>2
      <3> QED
        BY <2>1, <3>1, OneBody
    <2>3. pc'[g] = "stopping" => Disconnecting(g)
      <3>1. pc'[g] = place
        BY <1>0, <2>1
      <3>2. \/ Disconnecting(g)
            \/ pc' \in {[pc EXCEPT ![g] = q] : q \in {"policy", "blocked", "thrown", "called", "done"}}
        BY <1>2 DEF Body, Connecting, Policy, Blocked, Thrown, Arm, ArmTimers, Disconnected, Move
      <3> QED
        BY <1>0, <3>2
    <2>4. Disconnecting(g) => (inbox' = Append(inbox, None) \/ refused' = TRUE)
      BY DEF Disconnecting
    <2> QED
      BY <1>0, <2>2, <2>3, <2>4, CallAdded DEF Stopping
  <1>3. CASE (\E g \in Requests : Watchdog(g)) \/ Deliver \/ Lose \/ UNCHANGED controlVars
    <2>1. UNCHANGED <<pc, refused, inbox, ext>>
      BY <1>3, QuietSteps DEF requestVars
    <2> QED
      BY <2>1 DEF Stopping
  <1>4. CASE ExtTraffic
    <2>1. UNCHANGED <<pc, refused, inbox, ext>>
      BY <1>4 DEF ExtTraffic, ExtFrame, requestVars, extVars
    <2> QED
      BY <2>1 DEF Stopping
  <1>5. CASE ExtCall
    <2>1. /\ inbox # <<>> /\ inbox' = Tail(inbox) /\ UNCHANGED <<pc, refused>>
          /\ Head(inbox) = None => ext' = "down"
      BY <1>5 DEF ExtCall, ExtFrame, requestVars
    <2> QED
      BY <1>0, <2>1, LastCall DEF Stopping
  <1>6. CASE ExtStarted
    <2>1. /\ ext = "starting" /\ UNCHANGED <<pc, refused>>
          /\ \/ inbox' = inbox
             \/ inbox # <<>> /\ inbox' = Tail(inbox) /\ ext' = "down"
      BY <1>6, ExtStartedSays DEF requestVars
    <2> QED
      BY <1>0, <2>1, LastCall DEF Stopping
  <1>7. CASE Reclaim
    <2>1. ext \in {"starting", "up"} /\ UNCHANGED <<pc, refused, inbox>>
      BY <1>7 DEF Reclaim, ExtFrame, requestVars
    <2> QED
      BY <2>1 DEF Stopping
  <1> QED
    BY <1>1, <1>2, <1>3, <1>4, <1>5, <1>6, <1>7
    DEF ControlNext, UserStep, Connect, SwitchTo, Disconnect

(***************************************************************************)
(* What the UI waits for.                                                  *)
(***************************************************************************)

LEMMA CallStays ==
    ASSUME Typed, NEW g \in Requests, NEW place, place # "called",
           pc' = [pc EXCEPT ![g] = place], CallMade'
    PROVE  CallMade
  BY DEF Typed, CallMade

\* No call is pending beside a body that is not the one that made it.
LEMMA NoCallBeside ==
    ASSUME Typed, Turns, NEW g \in Requests, pc[g] \notin {"new", "done"},
           \A m \in 1..(g - 1) : pc[m] = "done",
           NEW place, place # "called", pc' = [pc EXCEPT ![g] = place], pc[g] # "called"
    PROVE  ~CallMade'
  <1>1. SUFFICES ASSUME NEW h \in Requests, pc'[h] = "called"
                 PROVE  FALSE
    BY DEF CallMade
  <1>2. h # g /\ pc[h] = "called"
    BY <1>1 DEF Typed
  <1> QED
    BY <1>2, OneBody

\* While a body waits for its turn, the watchdog of its generation is not armed.
LEMMA NotYetWatched ==
    ASSUME Typed, Turns, NEW g \in Requests, pc[g] = "queued"
    PROVE  generation \notin evidence
  <1>1. generation \in Nat /\ g \in Nat /\ 1 <= g /\ g <= generation
    BY ControlAssumption DEF Typed, Turns, Requests
  <1>2. SUFFICES ASSUME generation \in evidence
                 PROVE  FALSE
    OBVIOUS
  <1>3. pc[generation] = "done" /\ generation \in Requests
    BY <1>1, <1>2, ControlAssumption DEF Turns, Typed, Requests
  <1>4. g # generation => g \in 1..(generation - 1)
    BY <1>1
  <1>5. \A m \in 1..(generation - 1) : pc[m] = "done"
    BY <1>3 DEF Turns
  <1> QED
    BY <1>3, <1>4, <1>5

\* An answer may still come, or was lost.
Hope == inbox # <<>> \/ HasStatus(events) \/ ext \in {"starting", "gone"} \/ unheard

LEMMA HopeStays ==
    ASSUME UNCHANGED <<inbox, events, ext, unheard>>, Hope
    PROVE  Hope'
  BY DEF Hope, HasStatus

LEMMA WaitingStep ==
    ASSUME Typed, Turns, Waiting, [ControlNext]_controlVars
    PROVE  Waiting'
  <1>0. /\ inbox \in Seq(Profiles \cup {None}) /\ events \in Seq(Event)
        /\ generation \in Nat /\ pc \in [Requests -> Places]
    BY ControlAssumption DEF Typed
  <1>a. vpnStatus = Text("connecting") /\ (CallMade \/ generation \in evidence) => Hope
    BY DEF Waiting, Hope
  <1>b. SUFFICES ASSUME vpnStatus' = Text("connecting"),
                        CallMade' \/ generation' \in evidence'
                 PROVE  Hope'
    BY DEF Waiting, Hope
  <1>1. ASSUME NEW p, NEW st \in {vpnStatus, Text("switching")}, NEW c, Request(p, st, c)
        PROVE  Hope'
    <2>1. /\ generation' = generation + 1 /\ generation' \in Requests
          /\ pc' = [pc EXCEPT ![generation'] = "queued"]
          /\ evidence' \subseteq evidence /\ vpnStatus' = st
          /\ UNCHANGED <<inbox, events, ext, unheard>>
      BY <1>0, <1>1, ControlAssumption DEF Request, ClearWatchdogs, Requests, extVars, channelVars
    <2>2. generation' \notin evidence'
      BY <1>0, <2>1 DEF Typed
    <2>3. CallMade
      BY <1>b, <2>1, <2>2, CallStays
    <2>4. vpnStatus = Text("connecting")
      BY <1>b, <2>1 DEF Text
    <2> QED
      BY <1>a, <2>1, <2>3, <2>4, HopeStays
  <1>2. ASSUME NEW g \in Requests, Connecting(g)
        PROVE  Hope'
    <2>1. /\ pc[g] = "queued" /\ \A m \in 1..(g - 1) : pc[m] = "done"
          /\ pc' = [pc EXCEPT ![g] = "policy"] /\ UNCHANGED <<generation, evidence>>
      BY <1>2 DEF Connecting, Turn, Move, RequestFrame, timerVars
    <2>2. ~CallMade'
      BY <2>1, NoCallBeside
    <2> QED
      BY <1>b, <2>1, <2>2, NotYetWatched
  <1>3. ASSUME NEW g \in Requests, Policy(g)
        PROVE  Hope'
    <2>1. CASE inbox' = Append(inbox, asked[g])
      BY <1>0, <2>1, CallAdded DEF Hope, Typed
    <2>2. CASE UNCHANGED inbox /\ (Move(g, "blocked") \/ Move(g, "thrown"))
      <3>1. UNCHANGED <<generation, evidence, vpnStatus, inbox, events, ext, unheard>>
        BY <1>3, <2>2 DEF Policy, RequestFrame, timerVars, keyVars, extVars
      <3>2. CallMade' => CallMade
        BY <2>2, CallStays DEF Move
      <3> QED
        BY <1>a, <1>b, <3>1, <3>2, HopeStays
    <2> QED
      BY <1>3, <2>1, <2>2 DEF Policy
  <1>4. ASSUME NEW g \in Requests,
               Blocked(g) \/ Thrown(g) \/ Disconnecting(g) \/ Disconnected(g)
        PROVE  Hope'
    BY <1>b, <1>4 DEF Blocked, Thrown, Disconnecting, Disconnected, Text
  <1>5. ASSUME NEW g \in Requests, Arm(g)
        PROVE  Hope'
    <2>1. pc[g] = "called" /\ UNCHANGED <<vpnStatus, inbox, events, ext, unheard>>
      BY <1>5 DEF Arm, ArmTimers, RequestFrame, keyVars, extVars
    <2> QED
      BY <1>a, <1>b, <2>1, HopeStays DEF CallMade
  <1>6. ASSUME NEW g \in Requests, Watchdog(g)
        PROVE  Hope'
    <2>1. /\ UNCHANGED <<pc, generation, inbox, events, ext, unheard>> /\ evidence' \subseteq evidence
      BY <1>6 DEF Watchdog, Evidence, Timeout, TimeoutIf, WatchdogFrame, requestVars, extVars,
         channelVars
    <2>2. vpnStatus' \in {vpnStatus, Text("connected"), Text("connect_failed")}
      BY <1>6 DEF Watchdog, Evidence, Timeout, TimeoutIf, keyVars
    <2>3. vpnStatus = Text("connecting")
      BY <1>b, <2>2 DEF Text
    <2>4. CallMade' => CallMade
      BY <2>1 DEF CallMade
    <2> QED
      BY <1>a, <1>b, <2>1, <2>3, <2>4, HopeStays
  <1>7. CASE OnStatus
    <2>1. events # <<>> /\ Head(events).kind = "status" /\ vpnStatus' = Head(events).text
      BY <1>7 DEF OnStatus
    <2>2. Head(events) \in Statuses
      BY <1>0, <2>1, DropFirst, KindOf
    <2>3. Head(events).text \in Texts
      BY <2>2 DEF Statuses
    <2> QED
      BY <1>b, <2>1, <2>3, NotSent
  <1>8. CASE OnTraffic
    BY <1>b, <1>8 DEF OnTraffic, Text
  <1>9. CASE Lose
    BY <1>9 DEF Lose, Hope
  <1>10. CASE ExtCall \/ ExtStarted
    BY <1>10, ExtCallSays, ExtStartedSays DEF ExtSays, Hope
  <1>11. CASE ExtTraffic
    <2>1. /\ UNCHANGED <<pc, generation, evidence, vpnStatus, inbox, ext, unheard>>
          /\ events' = Append(events, Traffic)
      BY <1>11 DEF ExtTraffic, ExtFrame, requestVars, timerVars, keyVars, extVars
    <2>2. HasStatus(events) => HasStatus(events')
      BY <1>0, <2>1, AddTraffic
    <2>3. CallMade' => CallMade
      BY <2>1 DEF CallMade
    <2> QED
      BY <1>a, <1>b, <2>1, <2>2, <2>3 DEF Hope
  <1>12. CASE Reclaim
    BY <1>12 DEF Reclaim, Hope
  <1>13. CASE UNCHANGED controlVars
    <2>1. UNCHANGED <<pc, generation, evidence, vpnStatus, inbox, events, ext, unheard>>
      BY <1>13 DEF controlVars, requestVars, timerVars, keyVars, extVars, channelVars
    <2>2. CallMade' => CallMade
      BY <2>1 DEF CallMade
    <2> QED
      BY <1>a, <1>b, <2>1, <2>2, HopeStays
  <1> QED
    BY <1>1, <1>2, <1>3, <1>4, <1>5, <1>6, <1>7, <1>8, <1>9, <1>10, <1>11, <1>12, <1>13
    DEF ControlNext, UserStep, Connect, SwitchTo, Disconnect, Body, Deliver

(***************************************************************************)
(* What the keys show.                                                     *)
(***************************************************************************)

\* The keys show the session that runs.
Shown ==
    /\ vpnRunning <=> ext = "up"
    /\ vpnRunning => vpnRunningProfileId = extProfile

\* Nothing is on its way that would change what they show.
Told ==
    /\ ~HasStatus(events) /\ ~unheard /\ inbox = <<>> /\ ext \in {"up", "down"}
    /\ ~refused \/ CallMade

LEMMA ShownStays ==
    ASSUME UNCHANGED <<vpnRunning, vpnRunningProfileId, ext, extProfile>>, Shown
    PROVE  Shown'
  BY DEF Shown

LEMMA ToldBefore ==
    ASSUME UNCHANGED <<inbox, events, ext, unheard, refused>>, CallMade' => CallMade, Told'
    PROVE  Told
  BY DEF Told, HasStatus

\* The bodies: a refusal is not the end of it, a stop is reported once it was taken.
LEMMA BodyAgrees ==
    ASSUME Typed, Turns, Stopping, Told => Shown, NEW g \in Requests, Body(g), Told'
    PROVE  Shown'
  <1>0. /\ inbox \in Seq(Profiles \cup {None}) /\ pc \in [Requests -> Places]
        /\ asked[g] \in Profiles \cup {None}
    BY DEF Typed
  <1>1. CASE Connecting(g) \/ Blocked(g)
    <2>1. /\ \E place \in {"policy", "done"} : pc' = [pc EXCEPT ![g] = place]
          /\ UNCHANGED <<inbox, events, ext, extProfile, unheard, refused,
                         vpnRunning, vpnRunningProfileId>>
      BY <1>1 DEF Connecting, Blocked, Move, RequestFrame, extVars
    <2>2. CallMade' => CallMade
      BY <2>1, CallStays
    <2> QED
      BY <2>1, <2>2, ShownStays, ToldBefore
  <1>2. CASE Policy(g)
    <2>1. CASE inbox' = Append(inbox, asked[g])
      BY <1>0, <2>1, CallAdded DEF Told
    <2>2. CASE UNCHANGED inbox /\ (Move(g, "blocked") \/ Move(g, "thrown"))
      <3>1. UNCHANGED <<inbox, events, ext, extProfile, unheard, refused,
                        vpnRunning, vpnRunningProfileId>>
        BY <1>2, <2>2 DEF Policy, RequestFrame, extVars, keyVars
      <3>2. CallMade' => CallMade
        BY <2>2, CallStays DEF Move
      <3> QED
        BY <3>1, <3>2, ShownStays, ToldBefore
    <2> QED
      BY <1>2, <2>1, <2>2 DEF Policy
  <1>3. CASE Thrown(g)
    <2>1. /\ pc[g] = "thrown" /\ pc' = [pc EXCEPT ![g] = "done"] /\ refused' = TRUE
      BY <1>3 DEF Thrown, Move
    <2>2. \A m \in 1..(g - 1) : pc[m] = "done"
      BY <2>1 DEF Turns
    <2>3. ~CallMade'
      BY <2>1, <2>2, NoCallBeside
    <2> QED
      BY <2>1, <2>3 DEF Told
  <1>4. CASE Arm(g)
    <2>1. /\ pc[g] = "called"
          /\ UNCHANGED <<inbox, events, ext, extProfile, unheard,
                         vpnRunning, vpnRunningProfileId>>
      BY <1>4 DEF Arm, ArmTimers, RequestFrame, extVars, keyVars
    <2>2. Told
      BY <2>1 DEF Told, CallMade, HasStatus
    <2> QED
      BY <2>1, <2>2, ShownStays
  <1>5. CASE Disconnecting(g)
    <2>1. /\ pc[g] = "queued" /\ \A m \in 1..(g - 1) : pc[m] = "done"
          /\ pc' = [pc EXCEPT ![g] = "stopping"]
          /\ inbox' = Append(inbox, None) \/ refused' = TRUE
      BY <1>5 DEF Disconnecting, Turn, Move
    <2>2. ~CallMade'
      BY <2>1, NoCallBeside
    <2> QED
      BY <1>0, <2>1, <2>2, CallAdded DEF Told
  <1>6. CASE Disconnected(g)
    <2>1. /\ pc[g] = "stopping" /\ pc' = [pc EXCEPT ![g] = "done"] /\ vpnRunning' = FALSE
          /\ UNCHANGED <<inbox, ext, refused>>
      BY <1>6 DEF Disconnected, Move, RequestFrame, extVars
    <2>2. \A m \in 1..(g - 1) : pc[m] = "done"
      BY <2>1 DEF Turns
    <2>3. ~CallMade'
      BY <2>1, <2>2, NoCallBeside
    <2>4. ext = "down"
      BY <2>1, <2>3 DEF Stopping, Told
    <2> QED
      BY <2>1, <2>4 DEF Shown
  <1> QED
    BY <1>1, <1>2, <1>3, <1>4, <1>5, <1>6 DEF Body

\* The watchdogs: one that reports a session does so while an answer is due.
LEMMA WatchdogAgrees ==
    ASSUME Typed, Waiting, Told => Shown, NEW g \in Requests, Watchdog(g), Told'
    PROVE  Shown'
  <1>1. UNCHANGED <<pc, inbox, events, ext, extProfile, unheard, refused>>
    BY DEF Watchdog, Evidence, Timeout, TimeoutIf, WatchdogFrame, requestVars, extVars, channelVars
  <1>2. Told /\ Shown
    BY <1>1, ToldBefore DEF CallMade
  <1>3. CASE Evidence(g)
    <2>1. ~(g = generation /\ StillConnecting)
      <3>1. SUFFICES ASSUME g = generation, StillConnecting
                     PROVE  FALSE
        OBVIOUS
      <3>2. generation \in evidence
        BY <1>3, <3>1 DEF Evidence
      <3> QED
        BY <1>2, <3>1, <3>2 DEF Waiting, StillConnecting, Told
    <2> QED
      BY <1>1, <1>2, <1>3, <2>1, ShownStays DEF Evidence, keyVars
  <1>4. CASE Timeout(g)
    <2>1. UNCHANGED <<vpnRunning, vpnRunningProfileId>>
      BY <1>4 DEF Timeout, TimeoutIf, StillConnecting, Typed
    <2> QED
      BY <1>1, <1>2, <2>1, ShownStays
  <1> QED
    BY <1>3, <1>4 DEF Watchdog

\* The events: the last one tells what the extension is.
LEMMA DeliverAgrees ==
    ASSUME Typed, LastWord, Told => Shown, Deliver \/ Lose, Told'
    PROVE  Shown'
  <1>1. /\ events # <<>> /\ events' = Tail(events) /\ events \in Seq(Event)
        /\ UNCHANGED <<pc, inbox, ext, extProfile, refused>>
    BY DEF Deliver, OnStatus, OnTraffic, Lose, EventFrame, requestVars, extVars, Typed
  <1>2. ~HasStatus(Tail(events)) /\ ext \in {"up", "down"} /\ inbox = <<>>
        /\ (~refused \/ CallMade)
    BY <1>1 DEF Told, CallMade
  <1>3. CASE OnStatus
    <2>1. Head(events) \in Statuses
      BY <1>1, <1>3, DropFirst, KindOf DEF OnStatus
    <2>2. Word(events, Head(events))
      BY <1>1, <1>2, <2>1, DropFirst
    <2>3. Speaks(Head(events), ext, extProfile)
      BY <2>2 DEF LastWord
    <2>4. vpnRunning' = Head(events).running /\ vpnRunningProfileId' = Head(events).profile
      BY <1>3 DEF OnStatus
    <2> QED
      BY <1>1, <1>2, <2>3, <2>4 DEF Speaks, Shown
  <1>4. CASE OnTraffic
    <2>1. Head(events) \in Event /\ Head(events).kind = "traffic"
      BY <1>1, <1>4, DropFirst DEF OnTraffic
    <2>2. Head(events) \notin Statuses
      BY <2>1 DEF Statuses
    <2>3. ~HasStatus(events)
      BY <1>1, <1>2, <2>2, DropFirst
    <2>4. ext = "up"
      BY <1>1, <1>2, <2>3, NothingButTraffic DEF LastWord
    <2>5. ~unheard /\ UNCHANGED vpnRunningProfileId /\ vpnRunning' \in {vpnRunning, TRUE}
      BY <1>4 DEF OnTraffic, Told
    <2>6. Shown
      BY <1>2, <2>3, <2>5 DEF Told
    <2> QED
      BY <1>1, <2>4, <2>5, <2>6 DEF Shown
  <1>5. CASE Lose
    BY <1>5 DEF Lose, Told
  <1> QED
    BY <1>3, <1>4, <1>5 DEF Deliver

LEMMA AgreedStep ==
    ASSUME Inv, [ControlNext]_controlVars
    PROVE  Agreed'
  <1>0. Typed /\ Turns /\ Stopping /\ Waiting /\ LastWord /\ (Told => Shown)
    BY DEF Inv, Agreed, Told, Shown
  <1>a. SUFFICES ASSUME Told'
                 PROVE  Shown'
    BY DEF Agreed, Told, Shown
  <1>1. ASSUME NEW p, NEW st, NEW c, Request(p, st, c)
        PROVE  Shown'
    <2>1. /\ generation' \in Requests /\ pc' = [pc EXCEPT ![generation'] = "queued"]
          /\ UNCHANGED <<inbox, events, ext, extProfile, unheard, refused,
                         vpnRunning, vpnRunningProfileId>>
      BY <1>0, <1>1, ControlAssumption DEF Request, Requests, Typed, extVars, channelVars
    <2>2. CallMade' => CallMade
      BY <1>0, <2>1, CallStays
    <2> QED
      BY <1>0, <1>a, <2>1, <2>2, ShownStays, ToldBefore
  <1>2. ASSUME NEW g \in Requests, Body(g)
        PROVE  Shown'
    BY <1>0, <1>a, <1>2, BodyAgrees
  <1>3. ASSUME NEW g \in Requests, Watchdog(g)
        PROVE  Shown'
    BY <1>0, <1>a, <1>3, WatchdogAgrees
  <1>4. CASE Deliver \/ Lose
    BY <1>0, <1>a, <1>4, DeliverAgrees
  <1>5. CASE ExtCall \/ ExtStarted
    BY <1>0, <1>a, <1>5, ExtCallSays, ExtStartedSays DEF ExtSays, Told
  <1>6. CASE ExtTraffic
    <2>1. /\ UNCHANGED <<pc, refused, inbox, ext, extProfile, unheard,
                         vpnRunning, vpnRunningProfileId>>
          /\ events' = Append(events, Traffic) /\ events \in Seq(Event)
      BY <1>0, <1>6 DEF ExtTraffic, ExtFrame, requestVars, keyVars, extVars, Typed
    <2>2. Told
      BY <1>a, <2>1, AddTraffic DEF Told, CallMade
    <2> QED
      BY <1>0, <2>1, <2>2, ShownStays
  <1>7. CASE Reclaim
    BY <1>a, <1>7 DEF Reclaim, Told
  <1>8. CASE UNCHANGED controlVars
    <2>1. UNCHANGED <<pc, refused, inbox, events, ext, extProfile, unheard,
                      vpnRunning, vpnRunningProfileId>>
      BY <1>8 DEF controlVars, requestVars, keyVars, extVars, channelVars
    <2> QED
      BY <1>0, <1>a, <2>1, ShownStays, ToldBefore DEF CallMade
  <1> QED
    BY <1>1, <1>2, <1>3, <1>4, <1>5, <1>6, <1>7, <1>8
    DEF ControlNext, UserStep, Connect, SwitchTo, Disconnect

(***************************************************************************)
(* The theorems.                                                           *)
(***************************************************************************)

LEMMA InvInit == ControlInit => Inv
  <1> SUFFICES ASSUME ControlInit PROVE Inv
    OBVIOUS
  <1> USE ControlAssumption DEF ControlInit
  <1>1. Typed
    <2>1. events \in Seq(Event) /\ inbox \in Seq(Profiles \cup {None})
      OBVIOUS
    <2>2. /\ pc \in [Requests -> Places] /\ asked \in [Requests -> Profiles \cup {None}]
      BY DEF Places
    <2>3. /\ generation \in 0..MaxRequests /\ reclaims \in 0..MaxReclaims
          /\ session \in Nat \ {0}
      OBVIOUS
    <2> QED
      BY <2>1, <2>2, <2>3 DEF Typed
  <1>2. Turns
    BY DEF Turns, Requests
  <1>3. Sessions
    <2>1. 0 \in 0..generation /\ \A g \in 1..0 : FALSE
      OBVIOUS
    <2>2. session + Len(inbox) <= 1 + reclaims + 0
      OBVIOUS
    <2> QED
      BY <2>1, <2>2 DEF Sessions
  <1>4. \A i \in 1..Len(events) : FALSE
    OBVIOUS
  <1>5. LastWord
    BY <1>4 DEF LastWord, Word
  <1>6. \A g \in Requests : pc[g] = "new"
    OBVIOUS
  <1>7. Stopping
    BY <1>6 DEF Stopping
  <1>8. Waiting
    BY DEF Waiting, Text
  <1>9. Agreed
    BY DEF Agreed
  <1> QED
    BY <1>1, <1>2, <1>3, <1>5, <1>7, <1>8, <1>9 DEF Inv

LEMMA InvStep == Inv /\ [ControlNext]_controlVars => Inv'
  <1> SUFFICES ASSUME Inv, [ControlNext]_controlVars PROVE Inv'
    OBVIOUS
  <1>1. Typed /\ Turns /\ Sessions /\ LastWord /\ Stopping /\ Waiting
    BY DEF Inv
  <1>2. Typed' /\ Turns'
    BY <1>1, TypedStep, TurnsStep
  <1>3. Sessions' /\ LastWord'
    BY <1>1, SessionsStep, LastWordStep
  <1>4. Stopping' /\ Waiting'
    BY <1>1, StoppingStep, WaitingStep
  <1>5. Agreed'
    BY AgreedStep
  <1> QED
    BY <1>2, <1>3, <1>4, <1>5 DEF Inv

\* The layers hold in every state.
THEOREM InvHolds == ControlSpec => []Inv
  BY InvInit, InvStep, PTL DEF ControlSpec

\* Every variable keeps its type, and the processes of the extension are no more than the
\* requests and the reclaims account for.
THEOREM TypeCorrect == ControlSpec => []ControlTypeOK
  <1>1. Inv => ControlTypeOK
    <2> SUFFICES ASSUME Inv PROVE ControlTypeOK
      OBVIOUS
    <2>1. Typed /\ Sessions
      BY DEF Inv
    <2>2. session \in 1..(MaxRequests + MaxReclaims + 1)
      <3>1. PICK k \in 0..generation : session + Len(inbox) <= 1 + reclaims + k
        BY <2>1 DEF Sessions
      <3>2. /\ generation \in 0..MaxRequests /\ reclaims \in 0..MaxReclaims
            /\ session \in Nat \ {0} /\ Len(inbox) \in Nat
        BY <2>1 DEF Typed
      <3> QED
        BY <3>1, <3>2, ControlAssumption
    <2> QED
      BY <2>1, <2>2 DEF Typed, ControlTypeOK, Places
  <1> QED
    BY <1>1, InvHolds, PTL

\* Once everything asked for was carried out and told, the keys of the UI (vpnRunning,
\* vpnRunningProfileId) show the session that runs, for any interleaving of requests, timers,
\* lost events and reclaims.
THEOREM QuietShows == ControlSpec => []QuietAgree
  <1>1. Inv => QuietAgree
    <2> SUFFICES ASSUME Inv, Quiet, ~refused, ~unheard, ext # "gone"
                 PROVE  Shown
      BY DEF QuietAgree, Shown
    <2>1. Typed /\ Agreed
      BY DEF Inv
    <2>2. ext \in {"up", "down"} /\ inbox = <<>> /\ events = <<>>
      BY <2>1 DEF Quiet, Typed
    <2>3. ~HasStatus(events)
      BY <2>2 DEF HasStatus
    <2> QED
      BY <2>1, <2>2, <2>3 DEF Agreed, Shown
  <1> QED
    BY <1>1, InvHolds, PTL

\* The 120 s watchdog of a request that is not the last never changes the status: the check
\* of the generation (Timeout) is all that protects a later request from an earlier timer.
THEOREM TimerOfTheLast == ControlSpec => WatchdogOfLast
  <1> DEFINE Act == \A g \in timeout \ timeout' :
                       vpnStatus' \notin {vpnStatus, Text("switching")} =>
                          asked[generation] = asked[g]
                             /\ \A h \in Requests : pc[h] \in {"new", "done"}
  <1>1. ASSUME Inv, [ControlNext]_controlVars PROVE [Act]_controlVars
    <2> SUFFICES ASSUME ControlNext, NEW g \in timeout \ timeout',
                        vpnStatus' \notin {vpnStatus, Text("switching")}
                 PROVE  /\ asked[generation] = asked[g]
                        /\ \A h \in Requests : pc[h] \in {"new", "done"}
      BY <1>1
    <2>1. Typed /\ Turns
      BY <1>1 DEF Inv
    <2>2. g \in timeout /\ g \notin timeout' /\ g \in 1..generation /\ g \in Requests
      BY <2>1, ControlAssumption DEF Typed, Requests
    <2>3. Timeout(g)
      <3>1. ~(UserStep \/ Disconnect)
        BY DEF UserStep, Connect, SwitchTo, Disconnect, Request
      <3>2. ASSUME NEW h \in Requests PROVE ~Body(h) /\ ~Evidence(h)
        BY <2>2, <3>2 DEF Body, Connecting, Policy, Blocked, Thrown, Arm, ArmTimers,
           Disconnecting, Disconnected, timerVars, Evidence
      <3>3. ~(Deliver \/ Lose)
        BY <2>2 DEF Deliver, OnStatus, OnTraffic, Lose, EventFrame, timerVars
      <3>4. ~(ExtCall \/ ExtStarted \/ ExtTraffic \/ Reclaim)
        BY <2>2 DEF ExtCall, ExtStarted, ExtTraffic, Reclaim, ExtFrame, timerVars
      <3>5. PICK h \in Requests : Timeout(h)
        BY <3>1, <3>2, <3>3, <3>4 DEF ControlNext, Watchdog
      <3>6. h = g
        BY <2>2, <3>5 DEF Timeout, TimeoutIf
      <3> QED
        BY <3>5, <3>6
    <2>4. g = generation
      BY <2>3 DEF Timeout, TimeoutIf
    <2>5. pc[g] = "done"
      BY <2>1, <2>2 DEF Turns
    <2>6. ASSUME NEW h \in Requests PROVE pc[h] \in {"new", "done"}
      <3>1. h \in Nat /\ 1 <= h /\ g \in Nat
        BY <2>2 DEF Requests
      <3>2. h < g => h \in 1..(g - 1)
        BY <3>1
      <3>3. h < g => pc[h] = "done"
        BY <2>1, <2>2, <2>5, <3>2 DEF Turns
      <3>4. h > g => pc[h] = "new"
        BY <2>1, <2>4 DEF Turns
      <3> QED
        BY <2>5, <3>1, <3>3, <3>4
    <2> QED
      BY <2>4, <2>6
  <1> QED
    BY <1>1, InvHolds, PTL DEF ControlSpec, WatchdogOfLast
===============================================================================
