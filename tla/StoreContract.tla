----------------------------- MODULE StoreContract -----------------------------
(***************************************************************************)
(* What the configuration store promises, with no files, no manifests and  *)
(* no revisions: one value, changed by one call at a time; a call answered *)
(* "ok" has made exactly its change to the value it found; and a restart   *)
(* finds the value, or the one write that was cut short or failed since,   *)
(* and never anything else.  ConfigStore implements this specification.    *)
(***************************************************************************)
CONSTANTS Calls,
          None,     \* no content
          Nobody    \* no call

VARIABLES kind,     \* kind[c]: what c asks for, "none" before it is made
          reply,    \* reply[c]: "none" until c is answered
          value,    \* what the program reads: the calls in it, or None
          after,    \* what a restart would read
          kept,     \* contents a rollback may return to
          writer,   \* the call that is writing, or Nobody
          attempt   \* what it writes, or None

storeVars == <<kind, reply, value, after, kept, writer, attempt>>

StoreInit ==
    /\ kind = [c \in Calls |-> "none"] /\ reply = [c \in Calls |-> "none"]
    /\ value = None /\ after = None /\ kept = {}
    /\ writer = Nobody /\ attempt = None

Waiting == {c \in Calls : kind[c] # "none" /\ reply[c] = "none"}

Ask(c, k) ==
    /\ kind[c] = "none"
    /\ kind' = [kind EXCEPT ![c] = k]
    /\ UNCHANGED <<reply, value, after, kept, writer, attempt>>

\* A first value, the value with the change of c, or a value of old.
MayWrite(c) ==
    CASE kind[c] = "commitInitial" -> {{c} : v \in {value} \cap {None}}
      [] kind[c] = "commit" -> {v \cup {c} : v \in {value} \ {None}}
      [] kind[c] = "rollbackTo" -> kept
      [] OTHER -> {}

Begin(c) ==
    /\ writer = Nobody /\ c \in Waiting
    /\ writer' = c
    /\ attempt' \in MayWrite(c)
    /\ UNCHANGED <<kind, reply, value, after, kept>>

\* While a write is under way, a crash may find the old content or the new one.
Write ==
    /\ writer # Nobody
    /\ after' \in {value, attempt}
    /\ kept' \subseteq kept \cup {attempt}
    /\ UNCHANGED <<kind, reply, value, writer, attempt>>

Succeed ==
    /\ writer # Nobody
    /\ reply' = [reply EXCEPT ![writer] = "ok"]
    /\ value' = attempt /\ after' = attempt
    /\ kept' \subseteq kept \cup {attempt}
    /\ writer' = Nobody /\ attempt' = None
    /\ UNCHANGED kind

\* The write failed: the value stays, and nothing becomes of the attempt but
\* what it left behind.
GiveUp ==
    /\ writer # Nobody
    /\ reply' = [reply EXCEPT ![writer] = "failed"]
    /\ writer' = Nobody /\ attempt' = None
    /\ UNCHANGED <<kind, value, after, kept>>

\* Nothing to write: a first value when there is one, or the value itself.
Decline(c) ==
    /\ writer = Nobody /\ c \in Waiting
    /\ \E r \in {"ok", "failed"} :
         /\ r = "ok" => kind[c] # "commit" /\ value # None
         /\ reply' = [reply EXCEPT ![c] = r]
    /\ UNCHANGED <<kind, value, after, kept, writer, attempt>>

\* A crash: every call that waits is lost.
Restart ==
    /\ value' = after
    /\ reply' = [c \in Calls |-> IF c \in Waiting THEN "lost" ELSE reply[c]]
    /\ writer' = Nobody /\ attempt' = None
    /\ UNCHANGED <<kind, after, kept>>

\* Old contents are given up in time.
Forget ==
    /\ kept' \subseteq kept
    /\ UNCHANGED <<kind, reply, value, after, writer, attempt>>

StoreNext ==
    \/ \E c \in Calls, k \in {"commitInitial", "commit", "rollbackTo"} : Ask(c, k)
    \/ \E c \in Calls : Begin(c) \/ Decline(c)
    \/ Write \/ Succeed \/ GiveUp \/ Restart \/ Forget

Store == StoreInit /\ [][StoreNext]_storeVars
===============================================================================
