--------------------------- MODULE CommandMailbox ---------------------------
(***************************************************************************)
(* What the durable transport promises about remote commands, without      *)
(* connections, heartbeats, rows or claims: every tracked session has a    *)
(* log of commands, commands leave it in the order they were written, each *)
(* is handed over at most once, and the outcome of what was handed over,   *)
(* once given, is final.  TuiStore implements this specification; see      *)
(* TuiStore!Mailbox and TuiStore_proofs.                                   *)
(***************************************************************************)
EXTENDS Naturals, Sequences

CONSTANTS Tracking,  \* identities of tracked Pi sessions
          Command    \* identities of remote commands

VARIABLES log,       \* log[t]: the commands ever addressed to t, oldest first
          taken,     \* taken[t]: positions of log[t] already handed over
          outcome    \* outcome[k]: "open" until k is completed or has failed

vars == <<log, taken, outcome>>

Logged(k) == \E t \in Tracking : \E i \in DOMAIN log[t] : log[t][i] = k

(* The only position that may be handed over: everything before it has been *)
(* and it has not.                                                           *)
IsNext(t, i) ==
    /\ i \in DOMAIN log[t] \ taken[t]
    /\ \A j \in 1..(i - 1) : j \in taken[t]

Init ==
    /\ log = [t \in Tracking |-> <<>>]
    /\ taken = [t \in Tracking |-> {}]
    /\ outcome = [k \in Command |-> "open"]

Send(t, k) ==
    /\ ~Logged(k)
    /\ log' = [log EXCEPT ![t] = Append(@, k)]
    /\ UNCHANGED <<taken, outcome>>

Take(t) ==
    /\ \E i \in DOMAIN log[t] :
          /\ IsNext(t, i)
          /\ taken' = [taken EXCEPT ![t] = @ \cup {i}]
    /\ UNCHANGED <<log, outcome>>

HandedOver(k) == \E t \in Tracking : \E i \in taken[t] : log[t][i] = k

(* One transaction may settle several commands (claim expiry does).         *)
Settle(ks, result) ==
    /\ \A k \in ks : HandedOver(k) /\ outcome[k] = "open"
    /\ outcome' = [k \in Command |-> IF k \in ks THEN result ELSE outcome[k]]
    /\ UNCHANGED <<log, taken>>

Next ==
    \/ \E t \in Tracking, k \in Command : Send(t, k)
    \/ \E t \in Tracking : Take(t)
    \/ \E ks \in SUBSET Command, result \in {"completed", "failed"} :
          Settle(ks, result)

Spec == Init /\ [][Next]_vars
=============================================================================
