---------------------------- MODULE TunnelProofs ----------------------------
(***************************************************************************)
(* Proofs about TunnelSupervisor, for every set of tunnels, every bound on *)
(* the number of runs and every retry budget.                              *)
(***************************************************************************)
EXTENDS TunnelSupervisor, TLAPS

-----------------------------------------------------------------------------
(* The inductive invariant.                                                *)

\* Where a run is in the loop determines what it last reported, and bounds
\* its failure counter.
PhaseMatchesPc(r) ==
    /\ pc[r] = "idle" =>
          reported[r] = "None" /\ history[r] = {} /\ attempt[r] = 0
    /\ pc[r] = "top" =>
          \/ reported[r] = "None" /\ history[r] = {} /\ attempt[r] = 0
          \/ reported[r] = "Reconnecting" /\ attempt[r] \in 1 .. MaxAttempts
    /\ pc[r] \in Dialing \union {"forwarding"} =>
          reported[r] = "Connecting" /\ attempt[r] \in 0 .. MaxAttempts
    /\ pc[r] \in {"serving", "closing"} =>
          reported[r] = "Running" /\ attempt[r] = 0
    /\ pc[r] = "backoff" =>
          reported[r] = "Reconnecting" /\ attempt[r] \in 1 .. MaxAttempts
    /\ pc[r] \in {"exiting", "ended"} => reported[r] \in {"Failed", "Stopped"}

\* A dial with the policy that prompts is the run's first, and nothing but
\* Connecting has been reported yet.
FirstDialOnly(r) ==
    /\ pc[r] \in Dialing /\ attempt[r] = 0 => history[r] = {"Connecting"}
    /\ pc[r] = "dialing" /\ interactive[r] => attempt[r] = 0
    /\ pc[r] = "prompting" => attempt[r] = 0

\* What the recorded error says about where the run is.
ErrorVerdict(r) ==
    /\ pc[r] = "closing" => err[r] \in {"none", "Transient"}
    /\ err[r] \in Fatal => pc[r] \in {"exiting", "ended"}
    /\ reported[r] = "Failed" /\ err[r] = "Transient" =>
          attempt[r] = MaxAttempts + 1

\* Only a run with a connection in hand has a live link or a server port.
Belongings(r) ==
    /\ linkUp[r] => pc[r] \in {"forwarding", "serving", "closing"}
    /\ remotePort[TunnelOf(r)] = r => pc[r] \in {"serving", "closing"}

RunInv(r) ==
    PhaseMatchesPc(r) /\ FirstDialOnly(r) /\ ErrorVerdict(r) /\ Belongings(r)

IInv == TypeOK /\ \A r \in Runs : RunInv(r)

-----------------------------------------------------------------------------
\* A run is a run of one of the tunnels.
LEMMA RunHasTunnel == \A r \in Runs : TunnelOf(r) \in Tunnels
BY DEF Runs, TunnelOf

\* The initial states satisfy the invariant (nothing has been spawned).
LEMMA InitInv == Init => IInv
BY TunnelConstants, RunHasTunnel
   DEF Init, IInv, TypeOK, RunInv, PhaseMatchesPc, FirstDialOnly, ErrorVerdict,
       Belongings, PC, Errors, Fatal, Phases, Dialing

\* A step that touches the variables of run r, and the ports, only; the caller
\* shows what becomes of r.
OnlyRun(r) == \A q \in Runs \ {r} :
    /\ pc'[q] = pc[q] /\ attempt'[q] = attempt[q] /\ interactive'[q] = interactive[q]
    /\ err'[q] = err[q] /\ linkUp'[q] = linkUp[q] /\ reported'[q] = reported[q]
    /\ history'[q] = history[q]
    /\ remotePort'[TunnelOf(q)] = q => remotePort[TunnelOf(q)] = q

LEMMA OtherRunsKeep ==
    ASSUME IInv, NEW r \in Runs, OnlyRun(r), TypeOK', RunInv(r)'
    PROVE  IInv'
<1>1. ASSUME NEW q \in Runs, q # r PROVE RunInv(q)'
  <2>1. RunInv(q)
    BY DEF IInv
  <2>2. /\ pc'[q] = pc[q] /\ attempt'[q] = attempt[q] /\ interactive'[q] = interactive[q]
        /\ err'[q] = err[q] /\ linkUp'[q] = linkUp[q] /\ reported'[q] = reported[q]
        /\ history'[q] = history[q]
        /\ remotePort'[TunnelOf(q)] = q => remotePort[TunnelOf(q)] = q
    BY <1>1 DEF OnlyRun
  <2>3. PhaseMatchesPc(q)' /\ FirstDialOnly(q)'
    BY <2>1, <2>2 DEF RunInv, PhaseMatchesPc, FirstDialOnly
  <2>4. ErrorVerdict(q)' /\ Belongings(q)'
    BY <2>1, <2>2 DEF RunInv, ErrorVerdict, Belongings
  <2> QED
    BY <2>3, <2>4 DEF RunInv
<1> QED
  BY <1>1 DEF IInv

\* The verdict on a failure of a run without connection or port.
LEMMA FailureKeeps ==
    ASSUME IInv, NEW r \in Runs, NEW e \in Errors, HandleFailure(r, e),
           pc[r] \in Dialing \union {"forwarding", "closing"},
           e = "Transient" \/ pc[r] # "closing",
           UNCHANGED <<interactive, stop>>,
           linkUp' \in [Runs -> BOOLEAN], ~linkUp'[r],
           \A q \in Runs \ {r} : linkUp'[q] = linkUp[q],
           remotePort' \in [Tunnels -> Runs \union {Free, Stale}],
           remotePort'[TunnelOf(r)] # r,
           \A q \in Runs : remotePort'[TunnelOf(q)] = q => remotePort[TunnelOf(q)] = q,
           trust' \in {"recorded", "unknown", "changed"},
           prompt' \in Runs \union {None}
    PROVE  IInv'
<1>1. TypeOK /\ RunInv(r)
  BY DEF IInv
<1>2. attempt[r] \in 0 .. MaxAttempts /\ MaxAttempts \in Nat
  BY <1>1, TunnelConstants DEF RunInv, PhaseMatchesPc, Dialing
<1>3. /\ attempt' = [attempt EXCEPT ![r] = attempt[r] + 1]
      /\ err' = [err EXCEPT ![r] = e]
  BY DEF HandleFailure
<1>4. /\ attempt'[r] = attempt[r] + 1 /\ attempt'[r] \in 1 .. MaxAttempts + 1
      /\ err'[r] = e
  BY <1>1, <1>2, <1>3 DEF TypeOK
<1>5. \/ /\ e \notin Fatal /\ attempt'[r] <= MaxAttempts
         /\ pc' = [pc EXCEPT ![r] = "backoff"]
         /\ reported' = [reported EXCEPT ![r] = "Reconnecting"]
         /\ history' = [history EXCEPT ![r] = @ \union {"Reconnecting"}]
      \/ /\ e \in Fatal \/ attempt'[r] = MaxAttempts + 1
         /\ pc' = [pc EXCEPT ![r] = "exiting"]
         /\ reported' = [reported EXCEPT ![r] = "Failed"]
         /\ history' = [history EXCEPT ![r] = @ \union {"Failed"}]
  BY <1>2, <1>4 DEF HandleFailure, Retries, Goto, OnState
<1>6. TypeOK'
  <2>1. pc' \in [Runs -> PC] /\ reported' \in [Runs -> Phases]
    BY <1>1, <1>5 DEF TypeOK, PC, Phases
  <2>2. history' \in [Runs -> SUBSET Phases]
    BY <1>1, <1>5 DEF TypeOK, Phases
  <2>3. err' \in [Runs -> Errors \union {"none"}]
    BY <1>1, <1>3 DEF TypeOK
  <2>4. attempt' \in [Runs -> 0 .. MaxAttempts + 1]
    BY <1>1, <1>2, <1>3, <1>4 DEF TypeOK
  <2> QED
    BY <1>1, <2>1, <2>2, <2>3, <2>4 DEF TypeOK
<1>7. \/ pc'[r] = "backoff" /\ reported'[r] = "Reconnecting"
         /\ e \notin Fatal /\ attempt'[r] <= MaxAttempts
      \/ pc'[r] = "exiting" /\ reported'[r] = "Failed"
         /\ (e \in Fatal \/ attempt'[r] = MaxAttempts + 1)
  BY <1>1, <1>5 DEF TypeOK
<1>8. RunInv(r)'
  <2>1. PhaseMatchesPc(r)'
    BY <1>2, <1>4, <1>7 DEF PhaseMatchesPc, Dialing
  <2>2. FirstDialOnly(r)'
    BY <1>7 DEF FirstDialOnly, Dialing
  <2>3. ErrorVerdict(r)'
    BY <1>4, <1>7 DEF ErrorVerdict, Fatal
  <2>4. Belongings(r)'
    BY DEF Belongings
  <2> QED
    BY <2>1, <2>2, <2>3, <2>4 DEF RunInv, Belongings
<1>9. OnlyRun(r)
  <2>1. ASSUME NEW q \in Runs, q # r
        PROVE  /\ pc'[q] = pc[q] /\ attempt'[q] = attempt[q] /\ err'[q] = err[q]
               /\ reported'[q] = reported[q] /\ history'[q] = history[q]
    BY <1>1, <1>3, <1>5, <2>1 DEF TypeOK
  <2> QED
    BY <2>1 DEF OnlyRun
<1> QED
  BY <1>6, <1>8, <1>9, OtherRunsKeep

\* The same when the run stops for good.
LEMMA HaltKeeps ==
    ASSUME IInv, NEW r \in Runs, Halt(r),
           UNCHANGED <<interactive, err, stop, trust, prompt>>,
           linkUp' \in [Runs -> BOOLEAN], ~linkUp'[r],
           \A q \in Runs \ {r} : linkUp'[q] = linkUp[q],
           remotePort' \in [Tunnels -> Runs \union {Free, Stale}],
           remotePort'[TunnelOf(r)] # r,
           \A q \in Runs : remotePort'[TunnelOf(q)] = q => remotePort[TunnelOf(q)] = q
    PROVE  IInv'
<1>1. TypeOK
  BY DEF IInv
<1>2. /\ pc' = [pc EXCEPT ![r] = "exiting"]
      /\ reported' = [reported EXCEPT ![r] = "Stopped"]
      /\ history' = [history EXCEPT ![r] = @ \union {"Stopped"}]
      /\ UNCHANGED attempt
  BY DEF Halt, Goto, OnState
<1>3. TypeOK'
  <2>1. pc' \in [Runs -> PC] /\ reported' \in [Runs -> Phases]
    BY <1>1, <1>2 DEF TypeOK, PC, Phases
  <2>2. history' \in [Runs -> SUBSET Phases]
    BY <1>1, <1>2 DEF TypeOK, Phases
  <2> QED
    BY <1>1, <1>2, <2>1, <2>2 DEF TypeOK
<1>4. pc'[r] = "exiting" /\ reported'[r] = "Stopped"
  BY <1>1, <1>2 DEF TypeOK
<1>5. RunInv(r)'
  BY <1>4 DEF RunInv, PhaseMatchesPc, FirstDialOnly, ErrorVerdict, Belongings, Dialing
<1>6. OnlyRun(r)
  BY <1>1, <1>2 DEF OnlyRun, TypeOK
<1> QED
  BY <1>3, <1>5, <1>6, OtherRunsKeep

\* Every step of the specification preserves the invariant.
LEMMA NextInv == IInv /\ [Next]_vars => IInv'
<1> SUFFICES ASSUME IInv, [Next]_vars PROVE IInv'
  OBVIOUS
<1> USE TunnelConstants, RunHasTunnel
<1> USE DEF IInv, TypeOK, RunInv, PhaseMatchesPc, FirstDialOnly, ErrorVerdict,
            Belongings, PC, Errors, Fatal, Phases, Dialing, Goto
<1>1. ASSUME NEW r \in Runs, Spawn(r) PROVE IInv'
  BY <1>1 DEF Spawn
<1>2. ASSUME NEW r \in Runs, RequestStop(r) PROVE IInv'
  BY <1>2 DEF RequestStop
<1>3. ASSUME NEW r \in Runs, LoopTop(r) PROVE IInv'
  BY <1>3 DEF LoopTop, OnState, MayPrompt
<1>4. ASSUME NEW r \in Runs, DialFails(r) PROVE IInv'
  BY <1>4, FailureKeeps DEF DialFails
<1>5. ASSUME NEW r \in Runs, CheckKey(r) PROVE IInv'
  <2> USE <1>5 DEF CheckKey
  <2>1. CASE Goto(r, "auth") /\ UNCHANGED <<attempt, err, reported, history, prompt>>
    BY <2>1
  <2>2. CASE /\ Goto(r, "prompting") /\ interactive[r] /\ prompt' = r
             /\ UNCHANGED <<attempt, err, reported, history>>
    BY <2>2
  <2>3. CASE HandleFailure(r, KeyError) /\ UNCHANGED prompt
    BY <2>3, FailureKeeps DEF KeyError
  <2> QED
    BY <2>1, <2>2, <2>3
<1>6. ASSUME NEW r \in Runs, PromptDisplaced(r) PROVE IInv'
  BY <1>6, FailureKeeps DEF PromptDisplaced, KeyError
<1>7. ASSUME NEW r \in Runs, Authenticate(r) PROVE IInv'
  <2> USE <1>7 DEF Authenticate
  <2>1. CASE HandleFailure(r, "AuthFailed") /\ UNCHANGED linkUp
    BY <2>1, FailureKeeps
  <2>2. CASE linkUp' = [linkUp EXCEPT ![r] = TRUE] /\ pc' = [pc EXCEPT ![r] = "forwarding"]
             /\ UNCHANGED <<err, attempt, reported, history>>
    BY <2>2
  <2>3. CASE linkUp' = [linkUp EXCEPT ![r] = TRUE] /\ ComesUp(r) /\ UNCHANGED err
    BY <2>3 DEF ComesUp, AttemptWhenUp, OnState
  <2> QED
    BY <2>1, <2>2, <2>3
<1>8. ASSUME NEW r \in Runs, RequestForward(r) PROVE IInv'
  <2> USE <1>8 DEF RequestForward
  <2>1. CASE ComesUp(r) /\ remotePort' = [remotePort EXCEPT ![TunnelOf(r)] = r]
             /\ UNCHANGED <<err, linkUp>>
    BY <2>1 DEF ComesUp, AttemptWhenUp, OnState
  <2>2. CASE HandleFailure(r, "RemoteForwardDenied")
             /\ linkUp' = [linkUp EXCEPT ![r] = FALSE] /\ UNCHANGED remotePort
    <3>1. /\ linkUp' \in [Runs -> BOOLEAN] /\ ~linkUp'[r]
          /\ \A q \in Runs \ {r} : linkUp'[q] = linkUp[q]
      BY <2>2
    <3> QED
      BY <2>2, <3>1, FailureKeeps
  <2>3. CASE ~linkUp[r] /\ HandleFailure(r, "Transient")
             /\ UNCHANGED <<linkUp, remotePort>>
    BY <2>3, FailureKeeps
  <2> QED
    BY <2>1, <2>2, <2>3
<1>9. ASSUME NEW r \in Runs, StopsServing(r) PROVE IInv'
  BY <1>9 DEF StopsServing, ServingEnds
<1>10. ASSUME NEW r \in Runs, Close(r) PROVE IInv'
  <2>0. /\ pc[r] = "closing"
        /\ linkUp' = [linkUp EXCEPT ![r] = FALSE]
        /\ UNCHANGED <<interactive, stop, trust, prompt>>
    BY <1>10 DEF Close
  <2>1. /\ remotePort' \in [Tunnels -> Runs \union {Free, Stale}]
        /\ \A t \in Tunnels : remotePort'[t] # r
        /\ \A q \in Runs : remotePort'[TunnelOf(q)] = q => remotePort[TunnelOf(q)] = q
    BY <1>10 DEF Close, PortsReleasedBy
  <2>2. CASE Halt(r) /\ UNCHANGED err
    <3>1. /\ linkUp' \in [Runs -> BOOLEAN] /\ ~linkUp'[r]
          /\ \A q \in Runs \ {r} : linkUp'[q] = linkUp[q]
      BY <2>0
    <3>2. remotePort'[TunnelOf(r)] # r
      BY <2>1
    <3> QED
      BY <2>0, <2>1, <2>2, <3>1, <3>2, HaltKeeps
  <2>3. CASE err[r] # "none" /\ HandleFailure(r, err[r])
    <3>1. HandleFailure(r, "Transient")
      BY <2>0, <2>3
    <3>2. /\ linkUp' \in [Runs -> BOOLEAN] /\ ~linkUp'[r]
          /\ \A q \in Runs \ {r} : linkUp'[q] = linkUp[q]
      BY <2>0
    <3>3. remotePort'[TunnelOf(r)] # r
      BY <2>1
    <3> QED
      BY <2>0, <2>1, <3>1, <3>2, <3>3, FailureKeeps
  <2> QED
    BY <1>10, <2>2, <2>3 DEF Close
<1>11. ASSUME NEW r \in Runs, BackoffExpires(r) PROVE IInv'
  BY <1>11 DEF BackoffExpires
<1>12. ASSUME NEW r \in Runs, StopSeen(r) PROVE IInv'
  BY <1>12, HaltKeeps DEF StopSeen, StopPoints
<1>13. ASSUME NEW r \in Runs, Exit(r) PROVE IInv'
  BY <1>13 DEF Exit
<1>14. ASSUME NEW r \in Runs, AcceptKey(r) PROVE IInv'
  BY <1>14 DEF AcceptKey
<1>15. ASSUME NEW r \in Runs, DeclineKey(r) PROVE IInv'
  <2> USE <1>15 DEF DeclineKey
  <2>1. CASE pc[r] = "prompting" /\ HandleFailure(r, KeyError)
    BY <2>1, FailureKeeps DEF KeyError
  <2>2. CASE UNCHANGED <<pc, attempt, err, reported, history>>
    BY <2>2
  <2> QED
    BY <2>1, <2>2
<1>16. CASE EnvStep
  <2>1. ASSUME NEW r \in Runs, LinkDies(r) PROVE IInv'
    BY <2>1 DEF LinkDies
  <2>2. ASSUME NEW t \in Tunnels, ServerReaps(t) PROVE IInv'
    BY <2>2 DEF ServerReaps, taskVars
  <2>3. CASE HostKeyChanges
    BY <2>3 DEF HostKeyChanges, taskVars
  <2> QED
    BY <1>16, <2>1, <2>2, <2>3 DEF EnvStep
<1>17. CASE UNCHANGED vars
  BY <1>17 DEF vars, taskVars
<1> QED
  BY <1>1, <1>2, <1>3, <1>4, <1>5, <1>6, <1>7, <1>8, <1>9, <1>10, <1>11, <1>12,
     <1>13, <1>14, <1>15, <1>16, <1>17
     DEF Next, TaskStep, PromptStep

-----------------------------------------------------------------------------
(* What follows from the invariant.                                        *)

\* The inductive invariant holds in every reachable state.
THEOREM Invariance == Spec => []IInv
BY InitInv, NextInv, PTL DEF Spec

\* Every variable keeps its type; in particular the failure counter never
\* exceeds the budget by more than the failure that exhausts it.
THEOREM TypeCorrect == Spec => []TypeOK
<1>1. IInv => TypeOK
  BY DEF IInv
<1> QED
  BY <1>1, Invariance, PTL

\* No background redial raises a host-key prompt: the policy that can prompt
\* is used by a run's first dial only.
THEOREM OnlyAttendedPrompts == Spec => []PromptsAttended
<1>1. IInv => PromptsAttended
  BY DEF IInv, RunInv, FirstDialOnly, PromptsAttended, Dialing
<1> QED
  BY <1>1, Invariance, PTL

\* A run that gives up by itself has met a fatal error or has spent its budget
\* of retries, and after a fatal error it never dials again.
THEOREM CauseOfGivingUp == Spec => []GivesUpForCause
<1>1. IInv => FatalNeverRetried
  BY DEF IInv, RunInv, ErrorVerdict, FatalNeverRetried
<1>2. IInv => GivesUpOnlyWhenExhausted
  BY DEF IInv, RunInv, ErrorVerdict, GivesUpOnlyWhenExhausted
<1>3. IInv => GivesUpForCause
  BY <1>1, <1>2 DEF GivesUpForCause
<1> QED
  BY <1>3, Invariance, PTL

\* A run that waits or has ended owns neither a connection nor a server port.
THEOREM NothingLeft == Spec => []NothingLeftBehind
<1>1. IInv => NothingLeftBehind
  BY DEF IInv, RunInv, Belongings, NothingLeftBehind
<1> QED
  BY <1>1, Invariance, PTL

-----------------------------------------------------------------------------
(* The supervisor implements the promise of its state sink.                *)

\* The initial states of the supervisor are initial states of TunnelReports.
LEMMA InitRefines == Init => Sink!Init
BY DEF Init, Sink!Init

\* The state a failure leads to is one TunnelReports allows.
LEMMA FailureRefines ==
    ASSUME IInv, NEW r \in Runs, NEW e, HandleFailure(r, e),
           reported[r] \in {"Connecting", "Running"}
    PROVE  Sink!BackOff(r) \/ Sink!GiveUp(r)
<1>1. attempt[r] \in Nat /\ MaxAttempts \in Nat
  BY TunnelConstants DEF IInv, TypeOK
<1>2. CASE Retries(attempt[r] + 1, e)
  BY <1>1, <1>2 DEF HandleFailure, Retries, OnState, Sink!BackOff, Sink!Reports, Sink!Busy
<1>3. CASE ~Retries(attempt[r] + 1, e)
  BY <1>1, <1>3 DEF HandleFailure, OnState, Sink!GiveUp, Sink!Reports, Sink!Busy
<1> QED
  BY <1>2, <1>3

\* Every step of the supervisor is a step of TunnelReports or changes nothing
\* it speaks of.
LEMMA StepRefines == IInv /\ [Next]_vars => [Sink!Next]_(Sink!reportVars)
<1> SUFFICES ASSUME IInv, [Next]_vars
             PROVE  Sink!Next \/ UNCHANGED <<reported, attempt>>
  BY DEF Sink!reportVars
<1> USE DEF Dialing, PC
<1>0. \A r \in Runs : RunInv(r) /\ attempt[r] \in Nat
  BY TunnelConstants DEF IInv, TypeOK
<1>1. ASSUME NEW r \in Runs, LoopTop(r) PROVE Sink!Begin(r) \/ Sink!Redial(r)
  <2>1. attempt' = [attempt EXCEPT ![r] = attempt[r]]
    BY <1>1 DEF LoopTop, IInv, TypeOK
  <2> QED
    BY <1>0, <1>1, <2>1 DEF LoopTop, OnState, RunInv, PhaseMatchesPc, Sink!Begin,
       Sink!Redial, Sink!Reports
<1>2. ASSUME NEW r \in Runs, NEW e, HandleFailure(r, e), pc[r] \in Dialing \union {"forwarding", "closing"}
      PROVE  Sink!Next
  BY <1>0, <1>2, FailureRefines DEF RunInv, PhaseMatchesPc, Sink!Next
<1>3. ASSUME NEW r \in Runs, ComesUp(r), pc[r] \in {"auth", "forwarding"}
      PROVE  Sink!ComeUp(r)
  BY <1>0, <1>3 DEF ComesUp, OnState, AttemptWhenUp, RunInv, PhaseMatchesPc,
     Sink!ComeUp, Sink!Reports
<1>4. ASSUME NEW r \in Runs, Halt(r), pc[r] \in StopPoints \union {"closing"}
      PROVE  Sink!Stop(r)
  <2>1. attempt' = [attempt EXCEPT ![r] = attempt[r]]
    BY <1>4 DEF Halt, IInv, TypeOK
  <2> QED
    BY <1>0, <1>4, <2>1 DEF Halt, OnState, StopPoints, RunInv, PhaseMatchesPc,
       Sink!Stop, Sink!Reports, Sink!Busy
<1>5. ASSUME NEW r \in Runs, TaskStep(r) PROVE Sink!Next \/ UNCHANGED <<reported, attempt>>
  <2>1. CASE LoopTop(r)
    BY <1>1, <2>1 DEF Sink!Next
  <2>2. CASE DialFails(r)
    BY <1>2, <2>2 DEF DialFails
  <2>3. CASE CheckKey(r)
    BY <1>2, <2>3 DEF CheckKey
  <2>4. CASE PromptDisplaced(r)
    BY <1>2, <2>4 DEF PromptDisplaced
  <2>5. CASE Authenticate(r)
    BY <1>2, <1>3, <2>5 DEF Authenticate, Sink!Next
  <2>6. CASE RequestForward(r)
    BY <1>2, <1>3, <2>6 DEF RequestForward, Sink!Next
  <2>7. CASE StopsServing(r)
    BY <2>7 DEF StopsServing
  <2>8. CASE Close(r)
    BY <1>2, <1>4, <2>8 DEF Close, Sink!Next
  <2>9. CASE BackoffExpires(r)
    BY <2>9 DEF BackoffExpires
  <2>10. CASE StopSeen(r)
    BY <1>4, <2>10 DEF StopSeen, Sink!Next
  <2>11. CASE Exit(r)
    BY <2>11 DEF Exit
  <2> QED
    BY <1>5, <2>1, <2>2, <2>3, <2>4, <2>5, <2>6, <2>7, <2>8, <2>9, <2>10, <2>11
       DEF TaskStep
<1>6. ASSUME NEW r \in Runs, PromptStep(r) PROVE Sink!Next \/ UNCHANGED <<reported, attempt>>
  BY <1>2, <1>6 DEF PromptStep, AcceptKey, DeclineKey
<1>7. ASSUME NEW r \in Runs, Spawn(r) \/ RequestStop(r) PROVE UNCHANGED <<reported, attempt>>
  BY <1>7 DEF Spawn, RequestStop
<1>8. CASE EnvStep
  BY <1>8 DEF EnvStep, LinkDies, ServerReaps, HostKeyChanges, taskVars
<1>9. CASE UNCHANGED vars
  BY <1>9 DEF vars, taskVars
<1> QED
  BY <1>5, <1>6, <1>7, <1>8, <1>9 DEF Next

\* A tunnel's row in the application only ever moves along the life cycle of
\* TunnelReports, and redialling is bounded.
THEOREM Refinement == Spec => ImplementsReports
BY InitRefines, StepRefines, Invariance, PTL DEF Spec, Sink!Spec, ImplementsReports
=============================================================================
