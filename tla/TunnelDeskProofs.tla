-------------------------- MODULE TunnelDeskProofs --------------------------
(***************************************************************************)
(* Proofs about TunnelDesk, for every set of tunnels of every kind: no run *)
(* escapes the table that can stop it, a deleted session is silent, the    *)
(* supervisors keep their promises in the application's hands, and a local *)
(* tunnel's row and its failure announcement are right although reports do *)
(* not name their run.                                                     *)
(***************************************************************************)
EXTENDS TunnelDesk, TunnelProofs

\* What the table and the stop channels are.
TableOK ==
    /\ pc \in [Runs -> PC]
    /\ stop \in [Runs -> BOOLEAN]
    /\ \A t \in Tunnels : InTable(t) =>
          table[t].run \in Runs /\ TunnelOf(table[t].run) = t
    /\ DOMAIN table = Tunnels
    /\ \A t \in Tunnels : DOMAIN table[t] = {"run", "state"}

DeskInv == TableOK /\ NoOrphanRun /\ DeletedSessionIsSilent

-----------------------------------------------------------------------------
\* Whatever a supervisor does by itself or because of its prompt, it brings no
\* run to life and touches no stop channel.
LEMMA SupervisionIsLocal ==
    ASSUME pc \in [Runs -> PC], NEW r \in Runs, TaskStep(r) \/ PromptStep(r)
    PROVE  /\ pc' \in [Runs -> PC]
           /\ stop' = stop
           /\ \A q \in Runs : Alive(q)' => Alive(q)
<1> USE DEF Alive, PC, Goto, Dialing, Halt, HandleFailure, ComesUp
<1>1. CASE LoopTop(r)
  BY <1>1 DEF LoopTop
<1>2. CASE DialFails(r)
  BY <1>2 DEF DialFails
<1>3. CASE CheckKey(r)
  BY <1>3 DEF CheckKey
<1>4. CASE PromptDisplaced(r)
  BY <1>4 DEF PromptDisplaced
<1>5. CASE Authenticate(r)
  BY <1>5 DEF Authenticate
<1>6. CASE RequestForward(r)
  BY <1>6 DEF RequestForward
<1>7. CASE StopsServing(r)
  BY <1>7 DEF StopsServing
<1>8. CASE Close(r)
  BY <1>8 DEF Close
<1>9. CASE BackoffExpires(r)
  BY <1>9 DEF BackoffExpires
<1>10. CASE StopSeen(r)
  BY <1>10 DEF StopSeen, StopPoints
<1>11. CASE Exit(r)
  BY <1>11 DEF Exit
<1>12. CASE AcceptKey(r)
  BY <1>12 DEF AcceptKey
<1>13. CASE DeclineKey(r)
  BY <1>13 DEF DeclineKey
<1> QED
  BY <1>1, <1>2, <1>3, <1>4, <1>5, <1>6, <1>7, <1>8, <1>9, <1>10, <1>11, <1>12,
     <1>13 DEF TaskStep, PromptStep

\* Taking tunnels out of the table stops the runs that were in it, so that the
\* runs which remain unstopped are those still in the table.
LEMMA StopAllKeepsRunsInHand ==
    ASSUME TableOK, NoOrphanRun, NEW S \in SUBSET Tunnels, StopAll(S)
    PROVE  /\ TableOK'
           /\ NoOrphanRun'
           /\ \A r \in Runs : stop[r] => stop'[r]
           /\ \A r \in Runs : TunnelOf(r) \in S /\ Alive(r) => stop'[r]
           /\ pc' = pc
<1> USE RunHasTunnel DEF StopAll, SignalsAfter, TableOK, NoOrphanRun, Alive
<1>1. pc' = pc /\ stop' \in [Runs -> BOOLEAN]
  OBVIOUS
<1>2. \A t \in Tunnels : table'[t] = IF t \in S THEN NoEntry ELSE table[t]
  OBVIOUS
<1>3. TableOK'
  <2>1. DOMAIN table' = Tunnels
    OBVIOUS
  <2>2. DOMAIN NoEntry = {"run", "state"}
    BY DEF NoEntry
  <2>3. \A t \in Tunnels : DOMAIN table'[t] = {"run", "state"}
    BY <1>2, <2>2
  <2> QED
    BY <1>1, <1>2, <2>1, <2>3 DEF InTable
<1>4. \A r \in Runs : stop[r] => stop'[r]
  OBVIOUS
<1>5. \A r \in Runs : TunnelOf(r) \in S /\ Alive(r) => stop'[r]
  BY DEF Held
<1>6. NoOrphanRun'
  <2> SUFFICES ASSUME NEW r \in Runs, Alive(r)' PROVE Held(r)' \/ stop'[r]
    OBVIOUS
  <2>1. CASE TunnelOf(r) \in S
    BY <1>1, <1>5, <2>1
  <2>2. CASE TunnelOf(r) \notin S
    BY <1>1, <1>2, <1>4, <2>2 DEF Held
  <2> QED
    BY <2>1, <2>2
<1> QED
  BY <1>1, <1>3, <1>4, <1>5, <1>6

\* No run can be in the table of an absent entry.
LEMMA NoRunOfNoEntry == \A r \in Runs : Held(r) => InTable(TunnelOf(r))
BY TunnelConstants DEF Held, InTable, NoEntry

\* Initially nothing has been started.
LEMMA DeskInitInv == DeskInit => DeskInv
<1>1. DOMAIN NoEntry = {"run", "state"}
  BY DEF NoEntry
<1> QED
  BY <1>1, RunHasTunnel DEF DeskInit, Init, DeskInv, TableOK, NoOrphanRun, PC,
     DeletedSessionIsSilent, Alive, InTable

\* Every step of the application, of a supervisor and of the environment
\* preserves the invariant.
LEMMA DeskNextInv == DeskInv /\ [DeskNext]_allVars => DeskInv'
<1> SUFFICES ASSUME DeskInv, [DeskNext]_allVars PROVE DeskInv'
  OBVIOUS
<1> USE RunHasTunnel DEF DeskInv
<1>1. ASSUME NEW r \in Runs, Start(r) PROVE DeskInv'
  <2>1. /\ pc' = [pc EXCEPT ![r] = "top"] /\ stop' = stop /\ UNCHANGED records
        /\ ~InTable(TunnelOf(r)) /\ SessionResolves(TunnelOf(r))
        /\ table' = [table EXCEPT ![TunnelOf(r)] = [run |-> r, state |-> "Connecting"]]
        /\ UNCHANGED sessionAlive
    BY <1>1 DEF Start, Spawn, Goto
  <2>2. TableOK'
    BY <2>1 DEF TableOK, InTable, PC
  <2>3. NoOrphanRun'
    BY <2>1, NoRunOfNoEntry DEF TableOK, NoOrphanRun, Alive, Held
  <2>4. DeletedSessionIsSilent'
    BY <2>1 DEF TableOK, DeletedSessionIsSilent, SessionResolves, Alive
  <2> QED
    BY <2>2, <2>3, <2>4
<1>2. ASSUME NEW r \in Runs, Supervise(r) PROVE DeskInv'
  BY <1>2, SupervisionIsLocal
     DEF Supervise, TableOK, NoOrphanRun, DeletedSessionIsSilent, Held, InTable
<1>3. ASSUME NEW t \in Tunnels, StopTunnel(t) PROVE DeskInv'
  BY <1>3, StopAllKeepsRunsInHand
     DEF StopTunnel, DeletedSessionIsSilent, Alive
<1>4. ASSUME NEW t \in Tunnels, DeleteTunnel(t) PROVE DeskInv'
  BY <1>4 DEF DeleteTunnel, vars, taskVars, TableOK, NoOrphanRun,
     DeletedSessionIsSilent, Alive, Held, InTable
<1>5. ASSUME NEW t \in Tunnels, AddTunnel(t) PROVE DeskInv'
  BY <1>5 DEF AddTunnel, SessionResolves, vars, taskVars, TableOK, NoOrphanRun,
     DeletedSessionIsSilent, Alive, Held, InTable
<1>6. CASE DeleteSession
  <2>1. /\ TableOK' /\ NoOrphanRun' /\ pc' = pc
        /\ \A r \in Runs : stop[r] => stop'[r]
        /\ \A r \in Runs : TunnelOf(r) \in TunnelsToStop /\ Alive(r) => stop'[r]
    BY <1>6, StopAllKeepsRunsInHand, DeskConstants DEF DeleteSession, TunnelsToStop
  <2>2. DeletedSessionIsSilent'
    <3> SUFFICES ASSUME NEW r \in Runs,
                        TunnelOf(r) \in SessionTunnels \intersect records, Alive(r)
                 PROVE  stop'[r]
      BY <1>6, <2>1 DEF DeleteSession, DeletedSessionIsSilent, Alive
    <3>1. CASE stop[r]
      BY <2>1, <3>1
    <3>2. CASE Held(r)
      BY <2>1, <3>2, NoRunOfNoEntry DEF TunnelsToStop
    <3> QED
      BY <3>1, <3>2 DEF NoOrphanRun
  <2> QED
    BY <2>1, <2>2
<1>7. CASE AcceptReport
  <2>1. /\ \A t \in Tunnels : table'[t].run = table[t].run /\ (InTable(t)' => InTable(t))
        /\ DOMAIN table' = Tunnels
        /\ \A t \in Tunnels : DOMAIN table'[t] = {"run", "state"}
    <3> DEFINE t == TunnelOf(Head(events).run)
    <3>1. CASE table' = table
      BY <3>1 DEF TableOK, InTable
    <3>2. CASE InTable(t) /\ table' = [table EXCEPT ![t].state = Head(events).state]
      BY <3>2 DEF TableOK, InTable, NoEntry
    <3> QED
      BY <1>7, <3>1, <3>2 DEF AcceptReport, Accepts
  <2> QED
    BY <1>7, <2>1 DEF AcceptReport, Accepts, vars, taskVars, TableOK, NoOrphanRun,
       DeletedSessionIsSilent, Alive, Held
<1>8. CASE EnvStep /\ UNCHANGED deskVars
  BY <1>8 DEF EnvStep, LinkDies, ServerReaps, HostKeyChanges, taskVars, deskVars,
     TableOK, NoOrphanRun, DeletedSessionIsSilent, Alive, Held, InTable
<1>9. CASE UNCHANGED allVars
  BY <1>9 DEF allVars, vars, taskVars, deskVars, TableOK, NoOrphanRun,
     DeletedSessionIsSilent, Alive, Held, InTable
<1> QED
  BY <1>1, <1>2, <1>3, <1>4, <1>5, <1>6, <1>7, <1>8, <1>9 DEF DeskNext

-----------------------------------------------------------------------------
\* The invariant holds in every reachable state of the application.
THEOREM DeskInvariance == DeskSpec => []DeskInv
BY DeskInitInv, DeskNextInv, PTL DEF DeskSpec

\* A supervisor that still runs and has not been told to stop is in the table,
\* for tunnels of both kinds and however often they are restarted.
THEOREM RunsInHand == DeskSpec => []NoOrphanRun
<1>1. DeskInv => NoOrphanRun
  BY DEF DeskInv
<1> QED
  BY <1>1, DeskInvariance, PTL

\* No tunnel the user can see outlives its session unasked.
THEOREM SilentAfterDelete == DeskSpec => []DeletedSessionIsSilent
<1>1. DeskInv => DeletedSessionIsSilent
  BY DEF DeskInv
<1> QED
  BY <1>1, DeskInvariance, PTL

-----------------------------------------------------------------------------
(* Composed with the application, the supervisors keep what they promise.  *)

\* StopAll only sets stop channels.
LEMMA StopAllKeepsRuns ==
    ASSUME IInv, NEW S \in SUBSET Tunnels, StopAll(S)
    PROVE  IInv' /\ UNCHANGED <<reported, attempt>>
<1>1. stop' \in [Runs -> BOOLEAN]
  BY DEF StopAll, SignalsAfter, IInv, TypeOK, Held
<1> QED
  BY <1>1 DEF StopAll, IInv, TypeOK, RunInv, PhaseMatchesPc, FirstDialOnly,
     ErrorVerdict, Belongings

\* A step of the application is a step of the supervisors, or sets stop
\* channels, or does not concern them.
LEMMA DeskStep ==
    ASSUME IInv, [DeskNext]_allVars
    PROVE  [Next]_vars \/ \E S \in SUBSET Tunnels : StopAll(S)
<1>1. CASE \E r \in Runs : Start(r) \/ Supervise(r)
  BY <1>1 DEF Start, Supervise, Next
<1>2. ASSUME NEW t \in Tunnels, StopTunnel(t) PROVE \E S \in SUBSET Tunnels : StopAll(S)
  BY <1>2 DEF StopTunnel
<1>3. ASSUME NEW t \in Tunnels, DeleteTunnel(t) \/ AddTunnel(t) PROVE UNCHANGED vars
  BY <1>3 DEF DeleteTunnel, AddTunnel
<1>4. CASE DeleteSession
  BY <1>4, DeskConstants DEF DeleteSession, TunnelsToStop
<1>5. CASE AcceptReport
  BY <1>5 DEF AcceptReport
<1>6. CASE EnvStep /\ UNCHANGED deskVars
  BY <1>6 DEF Next
<1>7. CASE UNCHANGED allVars
  BY <1>7 DEF allVars
<1> QED
  BY <1>1, <1>2, <1>3, <1>4, <1>5, <1>6, <1>7 DEF DeskNext

LEMMA DeskKeepsRuns == IInv /\ [DeskNext]_allVars => IInv'
BY DeskStep, NextInv, StopAllKeepsRuns

LEMMA DeskRefinesReports ==
    IInv /\ [DeskNext]_allVars => [Sink!Next]_(Sink!reportVars)
BY DeskStep, StepRefines, StopAllKeepsRuns DEF Sink!reportVars

\* The supervisors' invariant survives the application's use of them.
THEOREM RunsInvariance == DeskSpec => []IInv
<1>1. DeskInit => IInv
  BY InitInv DEF DeskInit
<1> QED
  BY <1>1, DeskKeepsRuns, PTL DEF DeskSpec

\* So whatever the user starts, stops and deletes, what the application hears
\* of a tunnel moves along the life cycle of TunnelReports.
THEOREM DeskImplementsReports == DeskSpec => ImplementsReports
<1>1. DeskInit => Sink!Init
  BY InitRefines DEF DeskInit
<1> QED
  BY <1>1, DeskRefinesReports, RunsInvariance, PTL
     DEF DeskSpec, Sink!Spec, ImplementsReports

\* And no background redial raises a prompt, no run gives up without a cause
\* and none leaves a connection or a server port behind.
THEOREM DeskKeepsSupervision ==
    DeskSpec => [](PromptsAttended /\ GivesUpForCause /\ NothingLeftBehind)
<1>1. IInv => PromptsAttended
  BY DEF IInv, RunInv, FirstDialOnly, PromptsAttended, Dialing
<1>2. IInv => GivesUpForCause
  BY DEF IInv, RunInv, ErrorVerdict, FatalNeverRetried, GivesUpOnlyWhenExhausted,
     GivesUpForCause
<1>3. IInv => NothingLeftBehind
  BY DEF IInv, RunInv, Belongings, NothingLeftBehind
<1> QED
  BY <1>1, <1>2, <1>3, RunsInvariance, PTL

-----------------------------------------------------------------------------
(* Reports do not name their run; why a local tunnel's row is right anyway. *)

\* A run that has reported nothing has no report in the queue and no
\* announcement to its name.
SilentBeforeReport == \A r \in Runs : reported[r] = "None" =>
    toasts[r] = 0 /\ \A i \in DOMAIN events : events[i].run # r

\* The listener excludes a second run while the one in the table is alive.
OneAlive(t) == InTable(t) =>
    \A r \in Runs : TunnelOf(r) = t /\ Alive(r) => r = table[t].run

LastOf(t, i) == i \in InFlight(t) /\ \A j \in InFlight(t) : j <= i

\* The last report of t in flight is the last one of the run in the table; with
\* none in flight the row has it already.
LastWord(t) == InTable(t) =>
    LET r == table[t].run IN
    \/ reported[r] = "None" /\ pc[r] = "top"
    \/ InFlight(t) = {} /\ table[t].state = reported[r]
    \/ \E i \in InFlight(t) :
          LastOf(t, i) /\ events[i].run = r /\ events[i].state = reported[r]

FailureOf(r, i) == events[i].run = r /\ events[i].state = "Failed"

\* When report i of t is handled the row does not show Failed yet.
Before(t, i) == {j \in InFlight(t) : j < i}
News(t, i) ==
    /\ Before(t, i) = {} => table[t].state # "Failed"
    /\ \A j \in Before(t, i) :
          (\A k \in Before(t, i) : k <= j) => events[j].state # "Failed"

\* The final failure of the run in the table is not there, has been announced,
\* or will be announced by the one report of it, the last of t in flight.
FailureWord(t) == InTable(t) =>
    LET r == table[t].run IN
    \/ reported[r] # "Failed" /\ toasts[r] = 0 /\ \A i \in InFlight(t) : ~FailureOf(r, i)
    \/ reported[r] = "Failed" /\ toasts[r] = 1 /\ InFlight(t) = {}
    \/ /\ reported[r] = "Failed" /\ toasts[r] = 0
       /\ \E i \in InFlight(t) :
             /\ LastOf(t, i) /\ FailureOf(r, i) /\ News(t, i)
             /\ \A j \in InFlight(t) : FailureOf(r, j) => j = i

LocalTunnels == Tunnels \ RemoteTunnels
LocalInv(t) == OneAlive(t) /\ LastWord(t) /\ FailureWord(t)

ReportInv ==
    /\ IInv
    /\ DeskInv
    /\ DeskTypeOK
    /\ SilentBeforeReport
    /\ \A t \in LocalTunnels : LocalInv(t)

-----------------------------------------------------------------------------
\* A step of run r leaves the other runs alone, reports only while the run is
\* alive, and does not leave the head of the loop without reporting.
LEMMA StepOfOneRun ==
    ASSUME IInv, NEW r \in Runs, TaskStep(r) \/ PromptStep(r)
    PROVE  /\ \A q \in Runs \ {r} : pc'[q] = pc[q] /\ reported'[q] = reported[q]
           /\ reported'[r] # reported[r] => Alive(r)
           /\ reported[r] = "None" /\ reported'[r] = "None" => pc'[r] = pc[r]
<1> USE DEF IInv, TypeOK, RunInv, PhaseMatchesPc, Alive, PC, Goto, Dialing, Halt,
            HandleFailure, ComesUp, OnState
<1>1. CASE LoopTop(r)
  BY <1>1 DEF LoopTop
<1>2. CASE DialFails(r)
  BY <1>2 DEF DialFails
<1>3. CASE CheckKey(r)
  BY <1>3 DEF CheckKey
<1>4. CASE PromptDisplaced(r)
  BY <1>4 DEF PromptDisplaced
<1>5. CASE Authenticate(r)
  BY <1>5 DEF Authenticate
<1>6. CASE RequestForward(r)
  BY <1>6 DEF RequestForward
<1>7. CASE StopsServing(r)
  BY <1>7 DEF StopsServing
<1>8. CASE Close(r)
  BY <1>8 DEF Close
<1>9. CASE BackoffExpires(r)
  BY <1>9 DEF BackoffExpires
<1>10. CASE StopSeen(r)
  BY <1>10 DEF StopSeen, StopPoints
<1>11. CASE Exit(r)
  BY <1>11 DEF Exit
<1>12. CASE AcceptKey(r)
  BY <1>12 DEF AcceptKey
<1>13. CASE DeclineKey(r)
  BY <1>13 DEF DeclineKey
<1> QED
  BY <1>1, <1>2, <1>3, <1>4, <1>5, <1>6, <1>7, <1>8, <1>9, <1>10, <1>11, <1>12,
     <1>13 DEF TaskStep, PromptStep

\* What a run may report: a state that can be shown, Failed only from a dial or
\* from service, and nothing after Failed.
LEMMA ReportOfStep ==
    ASSUME IInv, NEW r \in Runs, TaskStep(r) \/ PromptStep(r),
           reported'[r] # reported[r]
    PROVE  /\ reported'[r] \in Phases \ {"None"}
           /\ reported[r] # "Failed"
           /\ reported'[r] = "Failed" => reported[r] \in {"Connecting", "Running"}
<1>1. [Sink!Next]_(Sink!reportVars)
  BY StepRefines DEF Next
<1>2. Sink!Next
  BY <1>1 DEF Sink!reportVars
<1>3. PICK q \in Runs :
        \/ Sink!Begin(q) \/ Sink!ComeUp(q) \/ Sink!BackOff(q) \/ Sink!Redial(q)
        \/ Sink!GiveUp(q) \/ Sink!Stop(q)
  BY <1>2 DEF Sink!Next
<1>4. reported \in [Runs -> Phases]
  BY DEF IInv, TypeOK
<1>5. ASSUME NEW p, NEW n, Sink!Reports(q, p, n) PROVE q = r /\ reported'[r] = p
  BY <1>4, <1>5 DEF Sink!Reports
<1> QED
  BY <1>3, <1>5 DEF Sink!Begin, Sink!ComeUp, Sink!BackOff, Sink!Redial, Sink!GiveUp,
     Sink!Stop, Sink!Busy, Phases

-----------------------------------------------------------------------------
(* The queue.                                                              *)

\* Taking the head shifts the reports of every tunnel by one.
LEMMA TakeReport ==
    ASSUME DeskTypeOK, events # <<>>, events' = Tail(events)
    PROVE  /\ Len(events) \in Nat \ {0} /\ DOMAIN events = 1 .. Len(events)
           /\ Head(events) = events[1] /\ events[1] \in Messages
           /\ DOMAIN events' = 1 .. Len(events) - 1
           /\ \A i \in 1 .. Len(events) - 1 : events'[i] = events[i + 1]
           /\ events' \in Seq(Messages) /\ Len(events') <= MaxEvents
           /\ \A t \in Tunnels : \A i \in 1 .. Len(events) - 1 :
                 i \in InFlight(t)' <=> i + 1 \in InFlight(t)
<1> USE DeskConstants DEF DeskTypeOK
<1>1. /\ Len(events) \in Nat \ {0} /\ DOMAIN events = 1 .. Len(events)
      /\ Head(events) = events[1] /\ events[1] \in Messages
      /\ DOMAIN events' = 1 .. Len(events) - 1
      /\ events' \in Seq(Messages) /\ Len(events') = Len(events) - 1
  OBVIOUS
<1>2. \A i \in 1 .. Len(events) - 1 : events'[i] = events[i + 1]
  BY <1>1
<1>3. Len(events') <= MaxEvents
  BY <1>1
<1> QED
  BY <1>1, <1>2, <1>3 DEF InFlight

\* Reporting adds one report at the end, of the run that reports.
LEMMA SendReport ==
    ASSUME DeskTypeOK, NEW m \in Messages, events' = Append(events, m)
    PROVE  /\ DOMAIN events = 1 .. Len(events) /\ Len(events) \in Nat
           /\ DOMAIN events' = 1 .. Len(events) + 1
           /\ \A i \in 1 .. Len(events) : events'[i] = events[i]
           /\ events'[Len(events) + 1] = m
           /\ events' \in Seq(Messages)
           /\ \A t \in Tunnels : InFlight(t)' =
                 IF TunnelOf(m.run) = t THEN InFlight(t) \union {Len(events) + 1}
                                        ELSE InFlight(t)
<1> USE DEF DeskTypeOK
<1>1. /\ DOMAIN events = 1 .. Len(events) /\ Len(events) \in Nat
      /\ DOMAIN events' = 1 .. Len(events) + 1
      /\ \A i \in 1 .. Len(events) : events'[i] = events[i]
      /\ events'[Len(events) + 1] = m
      /\ events' \in Seq(Messages)
  OBVIOUS
<1> QED
  BY <1>1 DEF InFlight

-----------------------------------------------------------------------------
\* A tunnel whose entry, reports and run in the table a step leaves alone.
LEMMA UntouchedTunnel ==
    ASSUME NEW t \in Tunnels, LocalInv(t),
           InTable(t)' => table'[t] = table[t],
           InFlight(t)' = InFlight(t),
           \A i \in InFlight(t) : events'[i] = events[i],
           InTable(t) =>
               /\ reported'[table[t].run] = reported[table[t].run]
               /\ toasts'[table[t].run] = toasts[table[t].run]
               /\ reported[table[t].run] = "None" => pc'[table[t].run] = pc[table[t].run],
           \A r \in Runs : TunnelOf(r) = t /\ Alive(r)' => Alive(r)
    PROVE  LocalInv(t)'
<1> SUFFICES ASSUME InTable(t)' PROVE LocalInv(t)'
  BY DEF LocalInv, OneAlive, LastWord, FailureWord
<1>1. InTable(t) /\ table'[t] = table[t]
  BY DEF InTable
<1>2. OneAlive(t)'
  BY <1>1 DEF LocalInv, OneAlive
<1>3. LastWord(t)'
  BY <1>1 DEF LocalInv, LastWord, LastOf
<1>4. FailureWord(t)'
  <2>1. \A i \in InFlight(t) : FailureOf(table[t].run, i)' <=> FailureOf(table[t].run, i)
    BY <1>1 DEF FailureOf
  <2>2. \A i \in InFlight(t) : Before(t, i)' = Before(t, i)
    BY DEF Before
  <2>3. \A i \in InFlight(t) : News(t, i) => News(t, i)'
    BY <1>1, <2>2 DEF News, Before
  <2> QED
    BY <1>1, <2>1, <2>3 DEF LocalInv, FailureWord, LastOf, FailureOf
<1> QED
  BY <1>2, <1>3, <1>4 DEF LocalInv

\* The run in the table of a local tunnel reports: the report is the last one of
\* t in flight, and if it is the final failure the row will not show it before.
LEMMA OwnReport ==
    ASSUME ReportInv, NEW t \in LocalTunnels, InTable(t),
           NEW r \in Runs, r = table[t].run, TunnelOf(r) = t,
           TaskStep(r) \/ PromptStep(r), reported'[r] # reported[r],
           events' = Append(events, [run |-> r, state |-> reported'[r]]),
           UNCHANGED <<table, toasts>>
    PROVE  LocalInv(t)'
<1> DEFINE m == [run |-> r, state |-> reported'[r]]
<1>0. PICK n : n = Len(events) + 1
  OBVIOUS
<1>1. /\ m \in Messages /\ reported[r] # "Failed"
      /\ reported'[r] = "Failed" => reported[r] \in {"Connecting", "Running"}
  BY ReportOfStep DEF ReportInv, Messages
<1>2. /\ LocalInv(t) /\ DeskTypeOK
      /\ t \in Tunnels
  BY DEF ReportInv, LocalTunnels
<1>3. /\ Len(events) \in Nat /\ DOMAIN events = 1 .. Len(events)
      /\ InFlight(t)' = InFlight(t) \union {n}
      /\ \A i \in 1 .. Len(events) : events'[i] = events[i]
      /\ events'[n] = m
  BY <1>0, <1>1, <1>2, SendReport
<1>4. InFlight(t) \subseteq 1 .. Len(events)
  BY <1>3 DEF InFlight
<1>5. LastOf(t, n)'
  BY <1>0, <1>3, <1>4 DEF LastOf
<1>6. OneAlive(t)'
  BY <1>2, SupervisionIsLocal DEF LocalInv, OneAlive, InTable, ReportInv, IInv, TypeOK
<1>7. LastWord(t)'
  <2>1. events'[n].run = r /\ events'[n].state = reported'[r]
    <3>1. m.run = r /\ m.state = reported'[r]
      OBVIOUS
    <3>2. events'[n] = m
      BY <1>3
    <3> HIDE DEF m
    <3> QED
      BY <3>1, <3>2
  <2>2. n \in InFlight(t)' /\ table'[t].run = r
    BY <1>3
  <2> QED
    BY <1>5, <2>1, <2>2 DEF LastWord
<1>8. toasts[r] = 0 /\ \A i \in InFlight(t) : ~FailureOf(r, i)
  BY <1>1, <1>2 DEF LocalInv, FailureWord
<1>9. \A i \in InFlight(t) : ~(FailureOf(r, i)')
  BY <1>0, <1>3, <1>4, <1>8 DEF FailureOf
<1>10. CASE reported'[r] # "Failed"
  <2>1. ~(FailureOf(r, n)')
    BY <1>0, <1>3, <1>10 DEF FailureOf
  <2> QED
    BY <1>0, <1>3, <1>6, <1>7, <1>8, <1>9, <1>10, <2>1 DEF LocalInv, FailureWord, FailureOf
<1>11. CASE reported'[r] = "Failed"
  <2>1. Before(t, n)' = InFlight(t)
    BY <1>0, <1>3, <1>4 DEF Before
  <2>2. \/ InFlight(t) = {} /\ table[t].state # "Failed"
        \/ \E i \in InFlight(t) : LastOf(t, i) /\ events[i].state # "Failed"
    BY <1>1, <1>2, <1>11 DEF LocalInv, LastWord
  <2>3. News(t, n)'
    BY <1>0, <1>3, <1>4, <2>1, <2>2 DEF News, LastOf
  <2>4. FailureOf(r, n)'
    BY <1>0, <1>3, <1>11 DEF FailureOf
  <2>5. FailureWord(t)'
    BY <1>3, <1>5, <1>8, <1>9, <1>11, <2>3, <2>4 DEF FailureWord, FailureOf, LastOf
  <2> QED
    BY <1>6, <1>7, <2>5 DEF LocalInv
<1> QED
  BY <1>10, <1>11

\* Handling the head of the queue, of whatever tunnel and run.
LEMMA HandledReport ==
    ASSUME ReportInv, NEW t \in LocalTunnels, AcceptReport
    PROVE  LocalInv(t)'
<1> SUFFICES ASSUME InTable(t)' PROVE LocalInv(t)'
  BY DEF LocalInv, OneAlive, LastWord, FailureWord
<1>1. /\ LocalInv(t) /\ DeskTypeOK /\ t \in Tunnels
      /\ events # <<>> /\ events' = Tail(events)
      /\ UNCHANGED <<pc, reported>>
  BY DEF ReportInv, LocalTunnels, AcceptReport, vars, taskVars
<1>2. PICK n \in Nat \ {0} : n = Len(events)
  BY <1>1, TakeReport
<1>3. PICK h \in Messages : h = events[1] /\ h = Head(events)
  BY <1>1, TakeReport
<1>4. /\ \A i \in InFlight(t) : i \in 1 .. n
      /\ \A i \in InFlight(t)' : i \in 1 .. n - 1 /\ i + 1 \in InFlight(t)
      /\ \A i \in InFlight(t) : i # 1 => i - 1 \in InFlight(t)'
      /\ \A i \in 1 .. n - 1 : events'[i] = events[i + 1]
      /\ 1 \in InFlight(t) <=> TunnelOf(h.run) = t
  <2>1. /\ DOMAIN events = 1 .. n
        /\ DOMAIN events' = 1 .. n - 1
        /\ \A i \in 1 .. n - 1 : events'[i] = events[i + 1]
        /\ \A i \in 1 .. n - 1 : i \in InFlight(t)' <=> i + 1 \in InFlight(t)
    BY <1>1, <1>2, TakeReport
  <2>2. /\ \A i \in InFlight(t) : i \in 1 .. n
        /\ \A i \in InFlight(t)' : i \in 1 .. n - 1
        /\ 1 \in InFlight(t) <=> TunnelOf(h.run) = t
    BY <1>2, <1>3, <2>1 DEF InFlight
  <2>3. \A i \in InFlight(t) : i # 1 => i - 1 \in 1 .. n - 1 /\ (i - 1) + 1 = i
    BY <1>2, <2>2
  <2> QED
    BY <2>1, <2>2, <2>3
<1>5. PICK r \in Runs : r = table[t].run /\ TunnelOf(r) = t /\ InTable(t) /\ table'[t].run = r
  <2>1. InTable(t) /\ table'[t].run = table[t].run
    <3>1. table \in [Tunnels -> Entries \union {NoEntry}]
      BY <1>1 DEF DeskTypeOK
    <3>2. CASE table' = table
      BY <3>2 DEF InTable
    <3>3. CASE /\ InTable(TunnelOf(h.run))
               /\ table' = [table EXCEPT ![TunnelOf(h.run)].state = h.state]
      <4>1. CASE t = TunnelOf(h.run)
        BY <1>1, <3>1, <3>3, <4>1 DEF InTable, Entries, Messages
      <4>2. CASE t # TunnelOf(h.run)
        BY <1>1, <3>1, <3>3, <4>2 DEF InTable
      <4> QED
        BY <4>1, <4>2
    <3> QED
      BY <1>3, <3>2, <3>3 DEF AcceptReport, Accepts
  <2> QED
    BY <1>1, <2>1 DEF ReportInv, DeskInv, TableOK
<1>6. IF TunnelOf(h.run) = t THEN table'[t].state = h.state ELSE table'[t] = table[t]
  BY <1>1, <1>3, <1>5 DEF AcceptReport, Accepts, DeskTypeOK, Entries, Messages, InTable
<1>7. /\ \/ toasts'[r] = toasts[r]
         \/ toasts'[r] = toasts[r] + 1 /\ FailureOf(r, 1) /\ h.run = r
      /\ h.run = r /\ h.state = "Failed" /\ table[t].state # "Failed" => toasts'[r] = toasts[r] + 1
  <2>1. toasts \in [Runs -> Nat] /\ h.run \in Runs
    BY <1>1 DEF DeskTypeOK, Messages
  <2>2. toasts' = IF InTable(TunnelOf(h.run)) /\ Announces(table[TunnelOf(h.run)].state, h.state)
                  THEN [toasts EXCEPT ![h.run] = @ + 1] ELSE toasts
    BY <1>3 DEF AcceptReport, Accepts
  <2>3. CASE h.run = r
    BY <1>3, <1>5, <2>1, <2>2, <2>3 DEF Announces, FailureOf
  <2>4. CASE h.run # r
    BY <1>5, <2>1, <2>2, <2>4
  <2> QED
    BY <2>3, <2>4
<1>8. OneAlive(t)'
  BY <1>1, <1>5 DEF LocalInv, OneAlive, Alive
<1>9. \A i \in InFlight(t) : i # 1 =>
        /\ LastOf(t, i) => LastOf(t, i - 1)'
        /\ events'[i - 1] = events[i]
  BY <1>2, <1>4 DEF LastOf
<1>10. LastOf(t, 1) => InFlight(t)' = {}
  BY <1>2, <1>4 DEF LastOf
<1>11. LastWord(t)'
  <2>1. CASE reported[r] = "None" /\ pc[r] = "top"
    BY <1>1, <1>5, <2>1 DEF LastWord
  <2>2. CASE InFlight(t) = {} /\ table[t].state = reported[r]
    BY <1>1, <1>4, <1>5, <1>6, <2>2 DEF LastWord
  <2>3. ASSUME NEW i \in InFlight(t), LastOf(t, i), events[i].run = r,
               events[i].state = reported[r]
        PROVE  LastWord(t)'
    <3>1. CASE i = 1
      BY <1>1, <1>3, <1>4, <1>5, <1>6, <1>10, <2>3, <3>1 DEF LastWord
    <3>2. CASE i # 1
      <4>1. PICK k : k = i - 1
        OBVIOUS
      <4> QED
        BY <1>1, <1>4, <1>5, <1>9, <2>3, <3>2, <4>1 DEF LastWord
    <3> QED
      BY <3>1, <3>2
  <2> QED
    BY <1>1, <1>5, <2>1, <2>2, <2>3 DEF LocalInv, LastWord
<1>12. FailureWord(t)'
  <2>1. CASE /\ reported[r] # "Failed" /\ toasts[r] = 0
             /\ \A i \in InFlight(t) : ~FailureOf(r, i)
    <3>1. toasts'[r] = 0
      BY <1>3, <1>4, <1>5, <1>7, <2>1 DEF FailureOf
    <3>2. \A i \in InFlight(t)' : ~(FailureOf(r, i)')
      BY <1>4, <2>1 DEF FailureOf
    <3> QED
      BY <1>1, <1>5, <2>1, <3>1, <3>2 DEF FailureWord, FailureOf
  <2>2. CASE reported[r] = "Failed" /\ toasts[r] = 1 /\ InFlight(t) = {}
    BY <1>1, <1>4, <1>5, <1>7, <2>2 DEF FailureWord
  <2>3. ASSUME reported[r] = "Failed", toasts[r] = 0,
               NEW i \in InFlight(t), LastOf(t, i), FailureOf(r, i), News(t, i),
               \A j \in InFlight(t) : FailureOf(r, j) => j = i
        PROVE  FailureWord(t)'
    <3>1. CASE i = 1
      <4>1. Before(t, i) = {}
        <5>1. \A j \in InFlight(t) : ~(j < 1)
          BY <1>2, <1>4
        <5> QED
          BY <3>1, <5>1 DEF Before
      <4>2. toasts'[r] = 1
        BY <1>3, <1>7, <2>3, <3>1, <4>1 DEF News, FailureOf
      <4> QED
        BY <1>1, <1>5, <1>10, <2>3, <3>1, <4>2 DEF FailureWord
    <3>2. CASE i # 1
      <4>1. PICK k : k = i - 1
        OBVIOUS
      <4>2. k \in InFlight(t)' /\ k \in 1 .. n - 1 /\ k + 1 = i /\ events'[k] = events[i]
        BY <1>2, <1>4, <3>2, <4>1
      <4>3. LastOf(t, k)' /\ FailureOf(r, k)'
        BY <1>9, <2>3, <3>2, <4>1, <4>2 DEF FailureOf
      <4>4. \A j \in InFlight(t)' : FailureOf(r, j)' => j = k
        <5> SUFFICES ASSUME NEW j \in InFlight(t)', FailureOf(r, j)' PROVE j = k
          OBVIOUS
        <5>1. j + 1 \in InFlight(t) /\ FailureOf(r, j + 1)
          BY <1>4 DEF FailureOf
        <5> QED
          BY <1>4, <2>3, <4>1, <5>1
      <4>5. toasts'[r] = 0
        BY <1>3, <1>4, <1>5, <1>7, <2>3, <3>2
      <4>6. News(t, k)'
        <5>1. \A j \in Before(t, k)' : j + 1 \in Before(t, i) /\ events'[j] = events[j + 1]
          <6> SUFFICES ASSUME NEW j \in InFlight(t)', j < k
                       PROVE  j + 1 \in Before(t, i) /\ events'[j] = events[j + 1]
            BY DEF Before
          <6>1. j \in 1 .. n - 1 /\ j + 1 \in InFlight(t) /\ events'[j] = events[j + 1]
            BY <1>4
          <6>2. j + 1 < i
            BY <1>2, <4>2, <6>1
          <6> QED
            BY <6>1, <6>2 DEF Before
        <5>2. \A j \in Before(t, i) : j # 1 => j - 1 \in Before(t, k)'
          BY <1>2, <1>4, <4>2 DEF Before
        <5>3. CASE Before(t, k)' = {}
          <6>1. Before(t, i) = {} \/ Before(t, i) = {1}
            BY <5>2, <5>3
          <6>2. CASE 1 \in InFlight(t)
            BY <1>2, <1>3, <1>4, <1>6, <2>3, <3>2, <5>3, <6>1, <6>2 DEF News, Before
          <6>3. CASE 1 \notin InFlight(t)
            BY <1>4, <1>6, <2>3, <5>3, <6>1, <6>3 DEF News, Before
          <6> QED
            BY <6>2, <6>3
        <5>4. ASSUME NEW j \in Before(t, k)', \A l \in Before(t, k)' : l <= j
              PROVE  events'[j].state # "Failed"
          <6>1. \A l \in Before(t, i) : l <= j + 1
            BY <1>2, <1>4, <5>2, <5>4 DEF Before
          <6> QED
            BY <2>3, <5>1, <6>1 DEF News
        <5> QED
          BY <5>3, <5>4 DEF News
      <4> QED
        BY <1>1, <1>5, <2>3, <4>2, <4>3, <4>4, <4>5, <4>6 DEF FailureWord
    <3> QED
      BY <3>1, <3>2
  <2> QED
    BY <1>1, <1>5, <2>1, <2>2, <2>3 DEF LocalInv, FailureWord
<1> QED
  BY <1>8, <1>11, <1>12 DEF LocalInv

\* A run that reports is the one in the table of its tunnel, or its tunnel is
\* not in the table; to the other tunnels nothing happens.
LEMMA SupervisedReports ==
    ASSUME ReportInv, IInv', NEW r \in Runs, Supervise(r)
    PROVE  DeskTypeOK' /\ SilentBeforeReport' /\ \A t \in LocalTunnels : LocalInv(t)'
<1> USE RunHasTunnel
<1>1. /\ IInv /\ DeskTypeOK /\ SilentBeforeReport
      /\ TaskStep(r) \/ PromptStep(r)
      /\ UNCHANGED <<table, records, sessionAlive, toasts>>
      /\ Len(events') <= MaxEvents
      /\ pc \in [Runs -> PC]
  BY DEF ReportInv, Supervise, IInv, TypeOK
<1>2. /\ \A q \in Runs \ {r} : pc'[q] = pc[q] /\ reported'[q] = reported[q]
      /\ reported'[r] # reported[r] => Alive(r) /\ reported'[r] \in Phases \ {"None"}
      /\ reported[r] = "None" /\ reported'[r] = "None" => pc'[r] = pc[r]
      /\ \A q \in Runs : Alive(q)' => Alive(q)
  BY <1>1, StepOfOneRun, ReportOfStep, SupervisionIsLocal
<1>3. CASE reported'[r] = reported[r]
  <2>1. events' = events /\ \A q \in Runs : reported'[q] = reported[q]
    BY <1>2, <1>3 DEF Supervise
  <2>2. ASSUME NEW t \in LocalTunnels PROVE LocalInv(t)'
    <3>1. t \in Tunnels /\ LocalInv(t)
      BY DEF ReportInv, LocalTunnels
    <3>2. InTable(t) => table[t].run \in Runs
      BY <3>1 DEF ReportInv, DeskInv, TableOK
    <3>3. InFlight(t)' = InFlight(t)
      BY <2>1 DEF InFlight
    <3> QED
      BY <1>1, <1>2, <2>1, <3>1, <3>2, <3>3, UntouchedTunnel
  <2> QED
    BY <1>1, <2>1, <2>2 DEF DeskTypeOK, SilentBeforeReport
<1>4. CASE reported'[r] # reported[r]
  <2> DEFINE m == [run |-> r, state |-> reported'[r]]
  <2>1. events' = Append(events, m) /\ m \in Messages
    BY <1>2, <1>4 DEF Supervise, Messages
  <2>2. PICK n \in Nat : n = Len(events)
    BY <1>1, <2>1, SendReport
  <2>3. /\ DOMAIN events = 1 .. n /\ DOMAIN events' = 1 .. n + 1
        /\ \A i \in 1 .. n : events'[i] = events[i]
        /\ events'[n + 1] = m /\ events' \in Seq(Messages)
        /\ \A t \in Tunnels : TunnelOf(r) # t => InFlight(t)' = InFlight(t)
    BY <1>1, <2>1, <2>2, SendReport
  <2>4. SilentBeforeReport'
    <3> SUFFICES ASSUME NEW q \in Runs, reported'[q] = "None"
                 PROVE  toasts'[q] = 0 /\ \A i \in 1 .. n + 1 : events'[i].run # q
      BY <2>3 DEF SilentBeforeReport
    <3>1. q # r /\ reported[q] = "None"
      BY <1>2, <1>4
    <3>2. toasts[q] = 0 /\ \A i \in 1 .. n : events[i].run # q
      BY <1>1, <2>3, <3>1 DEF SilentBeforeReport
    <3>3. \A i \in 1 .. n + 1 : i \in 1 .. n \/ i = n + 1
      BY <2>2
    <3> QED
      BY <1>1, <2>3, <3>1, <3>2, <3>3
  <2>5. ASSUME NEW t \in LocalTunnels PROVE LocalInv(t)'
    <3>1. t \in Tunnels /\ LocalInv(t)
      BY DEF ReportInv, LocalTunnels
    <3>2. InTable(t) => table[t].run \in Runs /\ TunnelOf(table[t].run) = t
      BY <3>1 DEF ReportInv, DeskInv, TableOK
    <3>3. CASE TunnelOf(r) # t
      <4>1. \A i \in InFlight(t) : events'[i] = events[i]
        BY <2>3 DEF InFlight
      <4> QED
        BY <1>1, <1>2, <2>3, <3>1, <3>2, <3>3, <4>1, UntouchedTunnel
    <3>4. CASE TunnelOf(r) = t /\ InTable(t)
      <4>1. r = table[t].run
        BY <1>2, <1>4, <3>1, <3>4 DEF LocalInv, OneAlive
      <4> QED
        BY <1>1, <1>4, <2>1, <3>4, <4>1, OwnReport
    <3>5. CASE ~InTable(t)
      BY <1>1, <3>5 DEF LocalInv, OneAlive, LastWord, FailureWord, InTable
    <3> QED
      BY <3>3, <3>4, <3>5
  <2> QED
    BY <1>1, <2>3, <2>4, <2>5 DEF DeskTypeOK
<1> QED
  BY <1>3, <1>4

\* A run that is started has never reported, and no other run of a local tunnel
\* is alive: the listener could be bound.
LEMMA StartedRun ==
    ASSUME ReportInv, NEW r \in Runs, Start(r)
    PROVE  DeskTypeOK' /\ SilentBeforeReport' /\ \A t \in LocalTunnels : LocalInv(t)'
<1> USE RunHasTunnel
<1>1. /\ IInv /\ DeskTypeOK /\ SilentBeforeReport
      /\ UNCHANGED <<events, records, sessionAlive, toasts, reported>>
      /\ pc[r] = "idle" /\ pc' = [pc EXCEPT ![r] = "top"] /\ pc \in [Runs -> PC]
      /\ table' = [table EXCEPT ![TunnelOf(r)] = [run |-> r, state |-> "Connecting"]]
      /\ table \in [Tunnels -> Entries \union {NoEntry}]
      /\ PortFree(r)
  BY DEF ReportInv, Start, Spawn, Goto, IInv, TypeOK, DeskTypeOK
<1>2. reported[r] = "None" /\ toasts[r] = 0 /\ \A i \in DOMAIN events : events[i].run # r
  BY <1>1 DEF IInv, RunInv, PhaseMatchesPc, SilentBeforeReport
<1>3. DeskTypeOK'
  BY <1>1 DEF DeskTypeOK, Entries, Messages, Phases
<1>4. SilentBeforeReport'
  BY <1>1 DEF SilentBeforeReport
<1>5. ASSUME NEW t \in LocalTunnels PROVE LocalInv(t)'
  <2>1. t \in Tunnels /\ LocalInv(t) /\ InFlight(t)' = InFlight(t)
    BY <1>1 DEF ReportInv, LocalTunnels, InFlight
  <2>2. CASE TunnelOf(r) # t
    <3>1. InTable(t) => table[t].run \in Runs /\ table[t].run # r
      BY <2>1, <2>2 DEF ReportInv, DeskInv, TableOK
    <3> QED
      BY <1>1, <2>1, <2>2, <3>1, UntouchedTunnel DEF Alive
  <2>3. CASE TunnelOf(r) = t
    <3>1. table'[t].run = r /\ pc'[r] = "top"
      BY <1>1, <2>1, <2>3
    <3>2. OneAlive(t)'
      BY <1>1, <2>3, <3>1 DEF OneAlive, PortFree, IsRemote, LocalTunnels, Alive
    <3>3. LastWord(t)'
      BY <1>1, <1>2, <3>1 DEF LastWord
    <3>4. FailureWord(t)'
      BY <1>1, <1>2, <2>1, <3>1 DEF FailureWord, FailureOf, InFlight
    <3> QED
      BY <3>2, <3>3, <3>4 DEF LocalInv
  <2> QED
    BY <2>2, <2>3
<1> QED
  BY <1>3, <1>4, <1>5

\* Steps that take entries out of the table or leave it alone.
LEMMA QuietStep ==
    ASSUME ReportInv, UNCHANGED <<pc, reported, events, toasts>>,
           table' \in [Tunnels -> Entries \union {NoEntry}],
           \A t \in Tunnels : table'[t] = NoEntry \/ table'[t] = table[t],
           records' \in SUBSET Tunnels, sessionAlive' \in BOOLEAN
    PROVE  DeskTypeOK' /\ SilentBeforeReport' /\ \A t \in LocalTunnels : LocalInv(t)'
<1>1. DeskTypeOK' /\ SilentBeforeReport'
  BY DEF ReportInv, DeskTypeOK, SilentBeforeReport
<1>2. ASSUME NEW t \in LocalTunnels PROVE LocalInv(t)'
  <2>1. t \in Tunnels /\ LocalInv(t) /\ InFlight(t)' = InFlight(t)
    BY DEF ReportInv, LocalTunnels, InFlight
  <2>2. InTable(t)' => table'[t] = table[t]
    BY <2>1 DEF InTable
  <2> QED
    BY <2>1, <2>2, UntouchedTunnel DEF Alive
<1> QED
  BY <1>1, <1>2

LEMMA ReportInitInv == DeskInit => ReportInv
<1> SUFFICES ASSUME DeskInit PROVE ReportInv
  OBVIOUS
<1>1. IInv /\ DeskInv
  BY InitInv, DeskInitInv DEF DeskInit
<1>2. DeskTypeOK /\ SilentBeforeReport
  BY DeskConstants DEF DeskInit, DeskTypeOK, SilentBeforeReport
<1>3. \A t \in LocalTunnels : LocalInv(t)
  BY DEF DeskInit, LocalTunnels, LocalInv, OneAlive, LastWord, FailureWord, InTable
<1> QED
  BY <1>1, <1>2, <1>3 DEF ReportInv

LEMMA ReportNextInv == ReportInv /\ [DeskNext]_allVars => ReportInv'
<1> SUFFICES ASSUME ReportInv, [DeskNext]_allVars
             PROVE  DeskTypeOK' /\ SilentBeforeReport' /\ \A t \in LocalTunnels : LocalInv(t)'
  BY DeskKeepsRuns, DeskNextInv DEF ReportInv
<1>0. DeskTypeOK
  BY DEF ReportInv
<1>1. ASSUME NEW r \in Runs, Start(r) PROVE DeskTypeOK' /\ SilentBeforeReport' /\ \A t \in LocalTunnels : LocalInv(t)'
  BY <1>1, StartedRun
<1>2. ASSUME NEW r \in Runs, Supervise(r) PROVE DeskTypeOK' /\ SilentBeforeReport' /\ \A t \in LocalTunnels : LocalInv(t)'
  BY <1>2, SupervisedReports, DeskKeepsRuns DEF ReportInv
<1>3. ASSUME NEW S \in SUBSET Tunnels, StopAll(S)
      PROVE  /\ UNCHANGED <<pc, reported>>
             /\ table' \in [Tunnels -> Entries \union {NoEntry}]
             /\ \A t \in Tunnels : table'[t] = NoEntry \/ table'[t] = table[t]
  BY <1>0, <1>3 DEF StopAll, DeskTypeOK
<1>4. ASSUME NEW t \in Tunnels, StopTunnel(t) PROVE DeskTypeOK' /\ SilentBeforeReport' /\ \A u \in LocalTunnels : LocalInv(u)'
  <2>1. StopAll({t}) /\ UNCHANGED <<events, records, sessionAlive, toasts>>
    BY <1>4 DEF StopTunnel
  <2> QED
    BY <1>0, <1>3, <2>1, QuietStep DEF DeskTypeOK
<1>5. CASE DeleteSession
  <2>1. StopAll(TunnelsToStop) /\ UNCHANGED <<events, records, toasts>> /\ sessionAlive' = FALSE
        /\ TunnelsToStop \in SUBSET Tunnels
    BY <1>5, DeskConstants DEF DeleteSession, TunnelsToStop
  <2> QED
    BY <1>0, <1>3, <2>1, QuietStep DEF DeskTypeOK
<1>6. ASSUME NEW t \in Tunnels, DeleteTunnel(t) \/ AddTunnel(t)
      PROVE  DeskTypeOK' /\ SilentBeforeReport' /\ \A u \in LocalTunnels : LocalInv(u)'
  BY <1>0, <1>6, QuietStep DEF DeleteTunnel, AddTunnel, vars, taskVars, DeskTypeOK
<1>7. CASE AcceptReport
  <2>1. DeskTypeOK'
    <3>1. Head(events) \in Messages /\ events' \in Seq(Messages) /\ Len(events') <= MaxEvents
      BY <1>0, <1>7, TakeReport DEF AcceptReport
    <3>2. UNCHANGED <<records, sessionAlive>>
      BY <1>7 DEF AcceptReport
    <3>3. table' \in [Tunnels -> Entries \union {NoEntry}]
      <4>1. PICK m \in Messages : m = Head(events)
        BY <3>1
      <4>2. table \in [Tunnels -> Entries \union {NoEntry}]
        BY <1>0 DEF DeskTypeOK
      <4>3. CASE table' = table
        BY <4>2, <4>3
      <4>4. CASE /\ InTable(TunnelOf(m.run))
                 /\ table' = [table EXCEPT ![TunnelOf(m.run)].state = m.state]
        <5>1. TunnelOf(m.run) \in Tunnels
          BY RunHasTunnel DEF Messages
        <5>2. table[TunnelOf(m.run)] \in Entries
          BY <4>2, <4>4, <5>1 DEF InTable
        <5>3. [table[TunnelOf(m.run)] EXCEPT !.state = m.state] \in Entries
          BY <5>2 DEF Entries, Messages
        <5> QED
          BY <4>2, <4>4, <5>1, <5>3
      <4> QED
        BY <1>7, <4>1, <4>3, <4>4 DEF AcceptReport, Accepts
    <3>4. toasts' \in [Runs -> Nat]
      BY <1>0, <1>7, <3>1 DEF AcceptReport, DeskTypeOK, Messages
    <3> QED
      BY <1>0, <3>1, <3>2, <3>3, <3>4 DEF DeskTypeOK
  <2>2. SilentBeforeReport'
    <3>1. /\ Len(events) \in Nat /\ DOMAIN events = 1 .. Len(events)
          /\ DOMAIN events' = 1 .. Len(events) - 1
          /\ \A i \in 1 .. Len(events) - 1 : events'[i] = events[i + 1] /\ i + 1 \in DOMAIN events
          /\ Head(events) = events[1] /\ 1 \in DOMAIN events
      BY <1>0, <1>7, TakeReport DEF AcceptReport
    <3>2. \A q \in Runs : Head(events).run # q => toasts'[q] = toasts[q]
      BY <1>0, <1>7 DEF AcceptReport, DeskTypeOK
    <3>3. UNCHANGED reported
      BY <1>7 DEF AcceptReport, vars, taskVars
    <3> QED
      BY <3>1, <3>2, <3>3 DEF ReportInv, SilentBeforeReport
  <2>3. \A t \in LocalTunnels : LocalInv(t)'
    BY <1>7, HandledReport
  <2> QED
    BY <2>1, <2>2, <2>3
<1>8. CASE EnvStep /\ UNCHANGED deskVars
  BY <1>0, <1>8, QuietStep
     DEF EnvStep, LinkDies, ServerReaps, HostKeyChanges, taskVars, deskVars, DeskTypeOK
<1>9. CASE UNCHANGED allVars
  BY <1>0, <1>9, QuietStep DEF allVars, vars, taskVars, deskVars, DeskTypeOK
<1> QED
  BY <1>1, <1>2, <1>4, <1>5, <1>6, <1>7, <1>8, <1>9 DEF DeskNext

\* Where the reports of every local tunnel stand, in every reachable state.
THEOREM ReportInvariance == DeskSpec => []ReportInv
BY ReportInitInv, ReportNextInv, PTL DEF DeskSpec

\* Every variable of the application keeps its type.
THEOREM DeskTypes == DeskSpec => []DeskTypeOK
<1>1. ReportInv => DeskTypeOK
  BY DEF ReportInv
<1> QED
  BY <1>1, ReportInvariance, PTL

\* A local tunnel's row is right once its reports are handled, however often the
\* tunnel is restarted while reports of the run before are in flight.
THEOREM LocalRowIsRight == DeskSpec => []LocalEntrySettles
<1>1. ReportInv => LocalEntrySettles
  <2> SUFFICES ASSUME ReportInv, NEW t \in LocalTunnels PROVE EntrySettles(t)
    BY DEF LocalEntrySettles, LocalTunnels
  <2> QED
    BY DEF ReportInv, LocalInv, LastWord, EntrySettles
<1> QED
  BY <1>1, ReportInvariance, PTL

\* And its final failure is announced exactly once.
THEOREM LocalFailureIsAnnounced == DeskSpec => []LocalFailureAnnounced
<1>1. ReportInv => LocalFailureAnnounced
  <2> SUFFICES ASSUME ReportInv, NEW t \in LocalTunnels, InTable(t), InFlight(t) = {},
                      reported[table[t].run] = "Failed"
               PROVE  toasts[table[t].run] = 1
    BY DEF LocalFailureAnnounced, LocalTunnels
  <2> QED
    BY DEF ReportInv, LocalInv, FailureWord
<1> QED
  BY <1>1, ReportInvariance, PTL
=============================================================================
