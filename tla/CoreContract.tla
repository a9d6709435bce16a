----------------------------- MODULE CoreContract -----------------------------
(***************************************************************************)
(* What the native core promises the ArkTS code above it, with no threads, *)
(* no locks and no generations: a kernel that at most one start call may   *)
(* hold at a time, start calls that are refused while it is held, and stop *)
(* calls that are answered only once everything they found is down.        *)
(* NativeCore implements this specification.                               *)
(***************************************************************************)
CONSTANTS Starts,   \* start calls, each made at most once
          Stops     \* stop calls, each made at most once

VARIABLES hold,     \* hold[s]: "new", "pending", "up" or "down"
          aims,     \* aims[t]: the start calls that stop call t must end
          reply     \* reply[c]: "none" until call c is answered

contractVars == <<hold, aims, reply>>

Replies == {"none", "ok", "failed", "cancelled", "busy"}

ContractInit ==
    /\ hold = [s \in Starts |-> "new"]
    /\ aims = [t \in Stops |-> {}]
    /\ reply = [c \in Starts \cup Stops |-> "none"]

Held == {s \in Starts : hold[s] \in {"pending", "up"}}

Accept(s) ==
    /\ hold[s] = "new" /\ reply[s] = "none"
    /\ Held = {}
    /\ hold' = [hold EXCEPT ![s] = "pending"]
    /\ UNCHANGED <<aims, reply>>

Refuse(s) ==
    /\ hold[s] = "new" /\ reply[s] = "none"
    /\ reply' = [reply EXCEPT ![s] = "busy"]
    /\ UNCHANGED <<hold, aims>>

ComeUp(s) ==
    /\ hold[s] = "pending"
    /\ hold' = [hold EXCEPT ![s] = "up"]
    /\ UNCHANGED <<aims, reply>>

GoDown(s) ==
    /\ hold[s] \in {"pending", "up"}
    /\ hold' = [hold EXCEPT ![s] = "down"]
    /\ UNCHANGED <<aims, reply>>

\* A start answered "ok" came up; one answered otherwise is down for good.
AnswerStart(s, r) ==
    /\ reply[s] = "none"
    /\ \/ r = "ok" /\ hold[s] \in {"up", "down"}
       \/ r \in {"failed", "cancelled"} /\ hold[s] = "down"
    /\ reply' = [reply EXCEPT ![s] = r]
    /\ UNCHANGED <<hold, aims>>

\* A stop call aims at whatever is held, and may name starts already down.
AskStop(t) ==
    /\ reply[t] = "none" /\ aims[t] = {}
    /\ \E S \in SUBSET {s \in Starts : hold[s] # "new"} :
         /\ S # {} /\ Held \subseteq S
         /\ aims' = [aims EXCEPT ![t] = S]
    /\ UNCHANGED <<hold, reply>>

\* A stop call is answered once nothing it aimed at is held any more.
AnswerStop(t, r) ==
    /\ reply[t] = "none" /\ r \in {"ok", "failed"}
    /\ aims[t] = {} => Held = {} /\ r = "ok"
    /\ \A s \in aims[t] : hold[s] = "down"
    /\ reply' = [reply EXCEPT ![t] = r]
    /\ UNCHANGED <<hold, aims>>

ContractNext ==
    \/ \E s \in Starts : Accept(s) \/ Refuse(s) \/ ComeUp(s) \/ GoDown(s)
    \/ \E s \in Starts, r \in Replies : AnswerStart(s, r)
    \/ \E t \in Stops : AskStop(t)
    \/ \E t \in Stops, r \in Replies : AnswerStop(t, r)

Contract == ContractInit /\ [][ContractNext]_contractVars
===============================================================================
