-------------------------- MODULE TunnelSupervisor --------------------------
(***************************************************************************)
(* The supervisor tasks of mullion-ssh/src/tunnel.rs: one task per started *)
(* tunnel dials, asks the server for a remote listener when the tunnel is  *)
(* a remote one, serves, notices a dead link, backs off and redials, and   *)
(* ends when it is told to stop, when an error is fatal or when it has     *)
(* failed too often.  The two host-key policies it dials with              *)
(* (mullion-app/src/host_key.rs) are part of the dial.                     *)
(*                                                                         *)
(* A run is one incarnation of a tunnel: <<t, k>> is the k-th time tunnel  *)
(* t was started.  All tunnels lead to one host, whose key is either the   *)
(* recorded one, unknown, or different from the recorded one.              *)
(***************************************************************************)
EXTENDS Naturals, FiniteSets

CONSTANTS
    Tunnels,        \* the tunnel ids, from 1 on
    RemoteTunnels,  \* those of kind -R, whose port is on the server
    MaxRuns,        \* bound: how often one tunnel is started
    MaxAttempts,    \* MAX_ATTEMPTS
    None,           \* no run
    Free,           \* of a server port: nobody listens on it
    Stale           \* of a server port: the server has not noticed yet that
                    \* the client that asked for it is gone

Runs == Tunnels \X (1 .. MaxRuns)

ASSUME TunnelConstants ==
    /\ Tunnels \subseteq Nat \ {0}
    /\ RemoteTunnels \subseteq Tunnels
    /\ MaxRuns \in Nat
    /\ MaxAttempts \in Nat
    /\ None \notin Runs
    /\ {Free, Stale} \intersect Runs = {} /\ Free # Stale

VARIABLES
    pc,           \* pc[r]: where run r is in spawn_tunnel
    attempt,      \* attempt[r]: its failure counter
    interactive,  \* interactive[r]: it dials with the policy that may prompt
    err,          \* err[r]: the error that ended its last service, or "none"
    stop,         \* stop[r]: the value of its stop channel
    linkUp,       \* linkUp[r]: its SSH connection is alive
    reported,     \* reported[r]: the state it last reported
    history,      \* history[r]: every state it has reported
    trust,        \* how the host's key compares with known_hosts
    prompt,       \* the run whose host-key prompt is on screen
    remotePort    \* remotePort[t]: who holds t's port on the server

taskVars == <<pc, attempt, interactive, err, stop, linkUp, reported, history>>
vars == <<taskVars, trust, prompt, remotePort>>

PC == {"idle", "top", "dialing", "prompting", "auth", "forwarding",
       "serving", "closing", "backoff", "exiting", "ended"}
Dialing == {"dialing", "prompting", "auth"}
Fatal == {"HostKeyChanged", "HostKeyUnknown", "AuthFailed", "RemoteForwardDenied"}
Errors == Fatal \union {"Transient"}
Phases == {"None", "Connecting", "Running", "Reconnecting", "Failed", "Stopped"}

TunnelOf(r) == r[1]
IsRemote(r) == TunnelOf(r) \in RemoteTunnels

\* A run that exists and has not finished; a local one holds its listener.
Alive(r) == pc[r] \notin {"idle", "ended"}

TypeOK ==
    /\ pc \in [Runs -> PC]
    /\ attempt \in [Runs -> 0 .. MaxAttempts + 1]
    /\ interactive \in [Runs -> BOOLEAN]
    /\ err \in [Runs -> Errors \union {"none"}]
    /\ stop \in [Runs -> BOOLEAN]
    /\ linkUp \in [Runs -> BOOLEAN]
    /\ reported \in [Runs -> Phases]
    /\ history \in [Runs -> SUBSET Phases]
    /\ trust \in {"recorded", "unknown", "changed"}
    /\ prompt \in Runs \union {None}
    /\ remotePort \in [Tunnels -> Runs \union {Free, Stale}]

Init ==
    /\ pc = [r \in Runs |-> "idle"]
    /\ attempt = [r \in Runs |-> 0]
    /\ interactive = [r \in Runs |-> FALSE]
    /\ err = [r \in Runs |-> "none"]
    /\ stop = [r \in Runs |-> FALSE]
    /\ linkUp = [r \in Runs |-> FALSE]
    /\ reported = [r \in Runs |-> "None"]
    /\ history = [r \in Runs |-> {}]
    /\ trust \in {"recorded", "unknown", "changed"}
    /\ prompt = None
    /\ remotePort = [t \in Tunnels |-> Free]

-----------------------------------------------------------------------------
(* Steps shared by the actions.                                            *)

Goto(r, label) == pc' = [pc EXCEPT ![r] = label]

\* on_state(p): the injected callback hands the state to the application.
OnState(r, p) ==
    /\ reported' = [reported EXCEPT ![r] = p]
    /\ history' = [history EXCEPT ![r] = @ \union {p}]

\* next_step: retry after a transient failure while backoff_delay has a delay.
\* (Bug forms, for the mutants: no bound; fatal errors retried.)
RetriesUnbounded(n, e) == e \notin Fatal
RetriesFatal(n, e) == n <= MaxAttempts
Retries(n, e) == e \notin Fatal /\ n <= MaxAttempts

\* The first dial, and only it, may use the policy that can prompt.
\* (Bug form: every dial may.)
MayPromptAlways(r) == TRUE
MayPrompt(r) == attempt[r] = 0

\* The counter once the tunnel is up.  (Bug form: it is not reset.)
AttemptKept(r) == attempt[r]
AttemptWhenUp(r) == 0

\* Where a select races the work against wait_stop, besides the serving phase.
\* (Bug form: only the backoff does.)
StopPointsBackoff == {"backoff"}
StopPoints == Dialing \union {"backoff"}

\* Why the select of the serving phase ends: "none" is the stop signal, any
\* other reason is the health tick or a failed accept.
\* (Bug form: no health tick.)
ServingEndsOnStop(r, e) == e = "none" /\ stop[r]
ServingEnds(r, e) == e = "none" => stop[r]

\* Who holds the ports after run r has cancelled its forward and disconnected.
\* Neither reaches the server over a dead link: its listener stays until it
\* notices.  (Bug form: the forward is not cancelled.)
PortsKept(r) == remotePort
PortsReleasedBy(r) == [t \in Tunnels |->
    CASE remotePort[t] # r -> remotePort[t]
      [] remotePort[t] = r /\ linkUp[r]  -> Free
      [] remotePort[t] = r /\ ~linkUp[r] -> Stale]

\* handle_failure, up to the sleep of the backoff.
HandleFailure(r, e) ==
    /\ attempt' = [attempt EXCEPT ![r] = @ + 1]
    /\ err' = [err EXCEPT ![r] = e]
    /\ IF Retries(attempt[r] + 1, e)
       THEN Goto(r, "backoff") /\ OnState(r, "Reconnecting")
       ELSE Goto(r, "exiting") /\ OnState(r, "Failed")

\* The error a host-key policy rejects with.
KeyError == IF trust = "unknown" THEN "HostKeyUnknown" ELSE "HostKeyChanged"

\* Run r stops for good; the caller's guard says why.
Halt(r) ==
    /\ Goto(r, "exiting")
    /\ OnState(r, "Stopped")
    /\ UNCHANGED attempt

\* The tunnel is up: the counter restarts and Running is reported.
ComesUp(r) ==
    /\ Goto(r, "serving")
    /\ attempt' = [attempt EXCEPT ![r] = AttemptWhenUp(r)]
    /\ OnState(r, "Running")
-----------------------------------------------------------------------------
(* The supervisor loop.                                                    *)

Spawn(r) ==
    /\ pc[r] = "idle"
    /\ Goto(r, "top")
    /\ UNCHANGED <<attempt, interactive, err, stop, linkUp, reported, history,
                   trust, prompt, remotePort>>

\* The head of the loop chooses the policy: only a run that has not failed
\* since it was last up dials with the one that can prompt.
LoopTop(r) ==
    /\ pc[r] = "top"
    /\ Goto(r, "dialing")
    /\ OnState(r, "Connecting")
    /\ interactive' = [interactive EXCEPT ![r] = MayPrompt(r)]
    /\ UNCHANGED <<attempt, err, stop, linkUp, trust, prompt, remotePort>>

\* The network fails somewhere on the way to an authenticated connection.
DialFails(r) ==
    /\ pc[r] \in {"dialing", "auth"}
    /\ HandleFailure(r, "Transient")
    /\ UNCHANGED <<interactive, stop, linkUp, trust, prompt, remotePort>>

\* HostKeyPolicy::decide.  PromptingPolicy asks the user, which replaces a
\* prompt already on screen; TrustedOnlyPolicy rejects.
CheckKey(r) ==
    /\ pc[r] = "dialing"
    /\ \/ /\ trust = "recorded"
          /\ Goto(r, "auth")
          /\ UNCHANGED <<attempt, err, reported, history, prompt>>
       \/ /\ trust # "recorded" /\ interactive[r]
          /\ Goto(r, "prompting")
          /\ prompt' = r
          /\ UNCHANGED <<attempt, err, reported, history>>
       \/ /\ trust # "recorded" /\ ~interactive[r]
          /\ HandleFailure(r, KeyError)
          /\ UNCHANGED prompt
    /\ UNCHANGED <<interactive, stop, linkUp, trust, remotePort>>

\* The user accepts: the key is recorded even when the run that asked has
\* stopped meanwhile; a run still waiting goes on to authenticate.
AcceptKey(r) ==
    /\ prompt = r
    /\ prompt' = None
    /\ trust' = "recorded"
    /\ pc' = [pc EXCEPT ![r] = IF @ = "prompting" THEN "auth" ELSE @]
    /\ UNCHANGED <<attempt, interactive, err, stop, linkUp, reported, history,
                   remotePort>>

\* The user declines; nobody may be waiting for the answer any more.
DeclineKey(r) ==
    /\ prompt = r
    /\ prompt' = None
    /\ IF pc[r] = "prompting"
       THEN HandleFailure(r, KeyError)
       ELSE UNCHANGED <<pc, attempt, err, reported, history>>
    /\ UNCHANGED <<interactive, stop, linkUp, trust, remotePort>>

\* A newer prompt took the screen and dropped this one's reply channel, which
\* counts as a refusal.
PromptDisplaced(r) ==
    /\ pc[r] = "prompting" /\ prompt # r
    /\ HandleFailure(r, KeyError)
    /\ UNCHANGED <<interactive, stop, linkUp, trust, prompt, remotePort>>

\* Authentication: rejected credentials are fatal, success yields a live link.
Authenticate(r) ==
    /\ pc[r] = "auth"
    /\ \/ /\ HandleFailure(r, "AuthFailed")
          /\ UNCHANGED linkUp
       \/ /\ linkUp' = [linkUp EXCEPT ![r] = TRUE]
          /\ UNCHANGED err
          /\ IF IsRemote(r)
             THEN Goto(r, "forwarding") /\ UNCHANGED <<attempt, reported, history>>
             ELSE ComesUp(r)
    /\ UNCHANGED <<interactive, stop, trust, prompt, remotePort>>

\* request_remote_forward, not raced against stop.  The server refuses a port
\* somebody already listens on; a lost link is a transient failure.
RequestForward(r) ==
    /\ pc[r] = "forwarding"
    /\ \/ /\ linkUp[r] /\ remotePort[TunnelOf(r)] = Free
          /\ remotePort' = [remotePort EXCEPT ![TunnelOf(r)] = r]
          /\ ComesUp(r)
          /\ UNCHANGED <<err, linkUp>>
       \/ /\ linkUp[r] /\ remotePort[TunnelOf(r)] # Free
          /\ HandleFailure(r, "RemoteForwardDenied")
          /\ linkUp' = [linkUp EXCEPT ![r] = FALSE]
          /\ UNCHANGED remotePort
       \/ /\ ~linkUp[r]
          /\ HandleFailure(r, "Transient")
          /\ UNCHANGED <<linkUp, remotePort>>
    /\ UNCHANGED <<interactive, stop, trust, prompt>>

\* The select of the serving phase: the health tick finds the link dead or
\* the accept loop fails, or the stop signal is seen.
StopsServing(r) ==
    /\ pc[r] = "serving"
    /\ \E e \in {"Transient", "none"} :
          /\ ServingEnds(r, e)
          /\ err' = [err EXCEPT ![r] = e]
    /\ Goto(r, "closing")
    /\ UNCHANGED <<attempt, interactive, stop, linkUp, reported, history,
                   trust, prompt, remotePort>>

\* cancel_remote_forward and disconnect, then the verdict.
Close(r) ==
    /\ pc[r] = "closing"
    /\ linkUp' = [linkUp EXCEPT ![r] = FALSE]
    /\ remotePort' = PortsReleasedBy(r)
    /\ IF err[r] = "none" THEN Halt(r) /\ UNCHANGED err
                          ELSE HandleFailure(r, err[r])
    /\ UNCHANGED <<interactive, stop, trust, prompt>>

BackoffExpires(r) ==
    /\ pc[r] = "backoff"
    /\ Goto(r, "top")
    /\ UNCHANGED <<attempt, interactive, err, stop, linkUp, reported, history,
                   trust, prompt, remotePort>>

\* wait_stop wins the select around the dial or around the backoff.
StopSeen(r) ==
    /\ stop[r]
    /\ pc[r] \in StopPoints
    /\ Halt(r)
    /\ UNCHANGED <<interactive, err, stop, linkUp, trust, prompt, remotePort>>

\* The task returns; dropping its Forward releases a local listener.
Exit(r) ==
    /\ pc[r] = "exiting"
    /\ Goto(r, "ended")
    /\ UNCHANGED <<attempt, interactive, err, stop, linkUp, reported, history,
                   trust, prompt, remotePort>>

\* TunnelHandle::stop, or its Drop.
RequestStop(r) ==
    /\ pc[r] # "idle"
    /\ stop' = [stop EXCEPT ![r] = TRUE]
    /\ UNCHANGED <<pc, attempt, interactive, err, linkUp, reported, history,
                   trust, prompt, remotePort>>
-----------------------------------------------------------------------------
(* The environment.                                                        *)

LinkDies(r) ==
    /\ linkUp[r]
    /\ linkUp' = [linkUp EXCEPT ![r] = FALSE]
    /\ UNCHANGED <<pc, attempt, interactive, err, stop, reported, history,
                   trust, prompt, remotePort>>

\* The server is reinstalled or impersonated: its key is no longer the
\* recorded one.
HostKeyChanges ==
    /\ trust = "recorded"
    /\ trust' = "changed"
    /\ UNCHANGED <<taskVars, prompt, remotePort>>

\* The server gives up a session whose client is long gone.
ServerReaps(t) ==
    /\ remotePort[t] = Stale
    /\ remotePort' = [remotePort EXCEPT ![t] = Free]
    /\ UNCHANGED <<taskVars, trust, prompt>>

-----------------------------------------------------------------------------
\* What the task of run r does by itself.
TaskStep(r) ==
    \/ LoopTop(r) \/ DialFails(r) \/ CheckKey(r) \/ PromptDisplaced(r)
    \/ Authenticate(r)
    \/ RequestForward(r) \/ StopsServing(r) \/ Close(r)
    \/ BackoffExpires(r) \/ StopSeen(r) \/ Exit(r)

\* What the user does with the prompt of run r.
PromptStep(r) == AcceptKey(r) \/ DeclineKey(r)

EnvStep ==
    \/ \E r \in Runs : LinkDies(r)
    \/ \E t \in Tunnels : ServerReaps(t)
    \/ HostKeyChanges

Next ==
    \/ \E r \in Runs :
          Spawn(r) \/ RequestStop(r) \/ TaskStep(r) \/ PromptStep(r)
    \/ EnvStep

\* The runtime keeps polling every task and every network call returns
\* (keepalives end a dead link); the user owes nothing.  A stop signal is
\* seen even when the other branch of a select is ready again and again.
Fairness == \A r \in Runs :
    /\ WF_vars(TaskStep(r))
    /\ SF_vars(StopSeen(r))

Spec == Init /\ [][Next]_vars
FairSpec == Spec /\ Fairness

-----------------------------------------------------------------------------
(* Properties.                                                             *)

\* A modal host-key prompt is only raised by a dial the user has just asked
\* for: a run that has ever been up, or has ever backed off, dials with the
\* policy that cannot prompt (TunnelDial::first_policy / retry_policy).
PromptsAttended ==
    \A r \in Runs : pc[r] = "prompting" => history[r] = {"Connecting"}

\* After a changed or unknown key, rejected credentials or a refused port the
\* run never dials again (is_fatal).
FatalNeverRetried ==
    \A r \in Runs : err[r] \in Fatal => pc[r] \in {"exiting", "ended"}

\* A transient failure ends the run only when the whole retry budget is spent
\* in a row, whatever happened before the run was last up (next_step and the
\* reset of attempt).
GivesUpOnlyWhenExhausted ==
    \A r \in Runs : reported[r] = "Failed" /\ err[r] = "Transient" =>
        attempt[r] = MaxAttempts + 1

\* So a run that gives up by itself has one of two causes, a fatal error, after
\* which it never dials again, or a retry budget that is spent.
GivesUpForCause == FatalNeverRetried /\ GivesUpOnlyWhenExhausted

\* However a run came to wait for a redial or to end, it leaves neither a live
\* connection nor its own server-side listener behind (the cancel and the
\* disconnect between the select and the verdict).
NothingLeftBehind ==
    \A r \in Runs : pc[r] \in {"top", "dialing", "backoff", "exiting", "ended"} =>
        ~linkUp[r] /\ remotePort[TunnelOf(r)] # r

\* The supervisor implements the promise of its state sink.
Sink == INSTANCE TunnelReports
    WITH Runs <- Runs, MaxAttempts <- MaxAttempts,
         reported <- reported, attempt <- attempt
ImplementsReports == Sink!Spec

\* A run that is told to stop ends, wherever it is: dialing through proxies,
\* waiting for a prompt, backing off or serving (wait_stop in every select).
StopEnds == \A r \in Runs : stop[r] ~> pc[r] = "ended"

\* A run whose link dies notices it without any traffic (the health tick).
DeadLinkNoticed ==
    \A r \in Runs : (pc[r] = "serving" /\ ~linkUp[r]) ~> pc[r] # "serving"
=============================================================================
