-------------------------- MODULE RequestLifecycle --------------------------
(***************************************************************************)
(* What the bridge promises about one question put to the human, without   *)
(* Pi, dialogs, queues or host processes: one question is open at a time,  *)
(* it is decided at most once and only under the host that asked it (its   *)
(* era), what was decided never changes, and what is closed stays closed.  *)
(* SessionHost implements this specification; see SessionHost!Promise.     *)
(***************************************************************************)
EXTENDS Naturals

CONSTANTS Request,  \* identities of requests
          Choice,   \* what a human may decide
          NoChoice

VARIABLES era,     \* how many hosts have owned the database
          phase,   \* phase[r]: "none", "open", "decided", "closed"
          bornIn,  \* bornIn[r]: the era that asked r
          choice   \* choice[r]: what was decided, NoChoice before

vars == <<era, phase, bornIn, choice>>

Live(r) == phase[r] \in {"open", "decided"}

Init ==
    /\ era = 0
    /\ phase = [r \in Request |-> "none"]
    /\ bornIn = [r \in Request |-> 0]
    /\ choice = [r \in Request |-> NoChoice]

Open(r) ==
    /\ phase[r] = "none"
    /\ \A s \in Request : ~Live(s)
    /\ phase' = [phase EXCEPT ![r] = "open"]
    /\ bornIn' = [bornIn EXCEPT ![r] = era]
    /\ UNCHANGED <<era, choice>>

Decide(r, c) ==
    /\ phase[r] = "open" /\ bornIn[r] = era
    /\ phase' = [phase EXCEPT ![r] = "decided"]
    /\ choice' = [choice EXCEPT ![r] = c]
    /\ UNCHANGED <<era, bornIn>>

(* One transaction may close several requests (expiry does).                 *)
Close(rs) ==
    /\ \A r \in rs : Live(r)
    /\ phase' = [r \in Request |-> IF r \in rs THEN "closed" ELSE phase[r]]
    /\ UNCHANGED <<era, bornIn, choice>>

NewEra ==
    /\ era' = era + 1
    /\ UNCHANGED <<phase, bornIn, choice>>

Next ==
    \/ \E r \in Request : Open(r)
    \/ \E r \in Request, c \in Choice : Decide(r, c)
    \/ \E rs \in SUBSET Request : Close(rs)
    \/ NewEra

Spec == Init /\ [][Next]_vars
=============================================================================
