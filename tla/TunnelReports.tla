--------------------------- MODULE TunnelReports ---------------------------
(***************************************************************************)
(* What a supervised tunnel promises to whoever listens to its state sink: *)
(* the order in which one run of a tunnel may report TunnelState values,   *)
(* and that redialling is bounded.  Nothing is said of connections, keys   *)
(* or ports: that is the business of TunnelSupervisor, which implements    *)
(* this specification.                                                     *)
(***************************************************************************)
EXTENDS Naturals

CONSTANTS
    Runs,        \* the spawned supervisor tasks
    MaxAttempts  \* how many times in a row a run may back off and redial

VARIABLES
    reported,    \* reported[r]: the last TunnelState run r has reported
    attempt      \* attempt[r]: failures since run r was last up

reportVars == <<reported, attempt>>

Phase == {"None", "Connecting", "Running", "Reconnecting", "Failed", "Stopped"}
Ended == {"Failed", "Stopped"}
Busy  == {"Connecting", "Running"}

\* Run r reports phase p and has failed n times in a row.
Reports(r, p, n) ==
    /\ reported' = [reported EXCEPT ![r] = p]
    /\ attempt' = [attempt EXCEPT ![r] = n]

Init ==
    /\ reported = [r \in Runs |-> "None"]
    /\ attempt = [r \in Runs |-> 0]

Begin(r)  == reported[r] = "None" /\ Reports(r, "Connecting", attempt[r])
ComeUp(r) == reported[r] = "Connecting" /\ Reports(r, "Running", 0)
BackOff(r) ==
    /\ reported[r] \in Busy
    /\ attempt[r] < MaxAttempts
    /\ Reports(r, "Reconnecting", attempt[r] + 1)
Redial(r) == reported[r] = "Reconnecting" /\ Reports(r, "Connecting", attempt[r])
GiveUp(r) == reported[r] \in Busy /\ Reports(r, "Failed", attempt[r] + 1)
Stop(r) ==
    /\ reported[r] \in Busy \union {"Reconnecting"}
    /\ Reports(r, "Stopped", attempt[r])

Next == \E r \in Runs :
    \/ Begin(r) \/ ComeUp(r) \/ BackOff(r) \/ Redial(r) \/ GiveUp(r) \/ Stop(r)

Spec == Init /\ [][Next]_reportVars
=============================================================================
