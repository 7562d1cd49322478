----------------------------- MODULE TunnelDesk -----------------------------
(***************************************************************************)
(* The application's side of the tunnels: the runtime table of             *)
(* mullion-app/src/tunnels.rs, the handlers of app.rs that start, stop and *)
(* delete, the store's tunnel records, and the event queue through which   *)
(* the supervisors report.  A report travels as (tunnel id, state): it     *)
(* does not say which run it is from.                                      *)
(***************************************************************************)
EXTENDS TunnelSupervisor, Sequences

CONSTANTS
    SessionTunnels,  \* the tunnels that refer to the one session that is deleted
    MaxEvents        \* bound: reports in flight in the event queue

ASSUME DeskConstants ==
    /\ SessionTunnels \subseteq Tunnels
    /\ MaxEvents \in Nat

VARIABLES
    table,         \* TunnelRuntime::live: table[t] is the run and last state, or NoEntry
    events,        \* UserEvent::TunnelState messages not handled yet, oldest first
    records,       \* the tunnels the store has
    sessionAlive,  \* the session of SessionTunnels has not been deleted
    toasts         \* toasts[r]: failure announcements shown because of run r

deskVars == <<table, events, records, sessionAlive, toasts>>
allVars == <<vars, deskVars>>

NoEntry == [run |-> None, state |-> "None"]
Messages == [run : Runs, state : Phases \ {"None"}]
Entries == Messages

InTable(t) == table[t] # NoEntry
\* The run whose handle the application holds.
Held(r) == table[TunnelOf(r)].run = r

DeskTypeOK ==
    /\ table \in [Tunnels -> Entries \union {NoEntry}]
    /\ events \in Seq(Messages) /\ Len(events) <= MaxEvents
    /\ records \subseteq Tunnels
    /\ sessionAlive \in BOOLEAN
    /\ toasts \in [Runs -> Nat]

DeskInit ==
    /\ Init
    /\ table = [t \in Tunnels |-> NoEntry]
    /\ events = <<>>
    /\ records = Tunnels
    /\ sessionAlive = TRUE
    /\ toasts = [r \in Runs |-> 0]

\* The session of tunnel t resolves (ssh_config_for).
SessionResolves(t) == t \in SessionTunnels => sessionAlive

\* bind_listener succeeds: no other run still owns the local port.
\* (Bug form, for the mutants: the port is shared, as with SO_REUSEPORT.)
PortShared(r) == TRUE
PortFree(r) ==
    IsRemote(r) \/ \A q \in Runs : TunnelOf(q) = TunnelOf(r) => ~Alive(q)

\* The runs of tunnel t in the order they are started.
IsNextRun(r) == \A k \in 1 .. MaxRuns : k < r[2] => pc[<<r[1], k>>] # "idle"

\* start_tunnel, behind the button the row of tunnel t shows while t is not in
\* the table.  It binds the local port, spawns the supervisor and inserts.
\* (When the bind or the resolution fails it reports an error and returns.)
Start(r) ==
    LET t == TunnelOf(r) IN
    /\ t \in records
    /\ ~InTable(t)
    /\ SessionResolves(t)
    /\ PortFree(r)
    /\ IsNextRun(r)
    /\ Spawn(r)
    /\ table' = [table EXCEPT ![t] = [run |-> r, state |-> "Connecting"]]
    /\ UNCHANGED <<events, records, sessionAlive, toasts>>

\* The stop channels after the handles of the tunnels of S are stopped and
\* dropped.  (Bug form: neither sends the signal.)
SignalsLost(S) == stop
SignalsAfter(S) == [r \in Runs |-> stop[r] \/ (TunnelOf(r) \in S /\ Held(r))]

\* TunnelRuntime::stop on every tunnel of S: the entry goes and the handle's
\* stop signal is sent.
StopAll(S) ==
    /\ table' = [t \in Tunnels |-> IF t \in S THEN NoEntry ELSE table[t]]
    /\ stop' = SignalsAfter(S)
    /\ UNCHANGED <<pc, attempt, interactive, err, linkUp, reported, history,
                   trust, prompt, remotePort>>

StopTunnel(t) ==
    /\ t \in records
    /\ InTable(t)
    /\ StopAll({t})
    /\ UNCHANGED <<events, records, sessionAlive, toasts>>

\* tunnels_to_stop_on_session_delete.  (Bug form: none.)
NoTunnelToStop == {}
TunnelsToStop == {t \in SessionTunnels \intersect records : InTable(t)}

\* Deleting a session first stops the running tunnels that refer to it.
DeleteSession ==
    /\ sessionAlive
    /\ sessionAlive' = FALSE
    /\ StopAll(TunnelsToStop)
    /\ UNCHANGED <<events, records, toasts>>

\* The tunnel_delete_request handler removes the record; the runtime table is
\* not touched.
DeleteTunnel(t) ==
    /\ t \in records
    /\ records' = records \ {t}
    /\ UNCHANGED <<vars, table, events, sessionAlive, toasts>>

\* add_tunnel: the new record's id is one more than the largest, and its
\* session is one that exists.
AddTunnel(t) ==
    /\ SessionResolves(t)
    /\ \A u \in records : u < t
    /\ t = 1 \/ t - 1 \in records
    /\ records' = records \union {t}
    /\ UNCHANGED <<vars, table, events, sessionAlive, toasts>>

\* failure_announcement: only the transition into Failed is announced.
\* (Bug form: only a tunnel that was up.)
AnnouncesFromRunning(prev, next) == next = "Failed" /\ prev = "Running"
Announces(prev, next) == next = "Failed" /\ prev # "Failed"

\* set_state finds an entry to update.
Accepts(t) == InTable(t)

\* accept_tunnel_state: a report for a tunnel that is not in the table is
\* dropped, any other replaces the entry's state.
AcceptReport ==
    /\ events # <<>>
    /\ events' = Tail(events)
    /\ LET m == Head(events)
           t == TunnelOf(m.run)
       IN IF Accepts(t)
          THEN /\ table' = [table EXCEPT ![t].state = m.state]
               /\ toasts' = IF Announces(table[t].state, m.state)
                            THEN [toasts EXCEPT ![m.run] = @ + 1] ELSE toasts
          ELSE UNCHANGED <<table, toasts>>
    /\ UNCHANGED <<vars, records, sessionAlive>>

\* A step of run r; what it reports is sent to the event queue.
Supervise(r) ==
    /\ TaskStep(r) \/ PromptStep(r)
    /\ events' = IF reported'[r] = reported[r] THEN events
                 ELSE Append(events, [run |-> r, state |-> reported'[r]])
    /\ Len(events') <= MaxEvents
    /\ UNCHANGED <<table, records, sessionAlive, toasts>>

DeskNext ==
    \/ \E r \in Runs : Start(r) \/ Supervise(r)
    \/ \E t \in Tunnels : StopTunnel(t) \/ DeleteTunnel(t) \/ AddTunnel(t)
    \/ DeleteSession
    \/ AcceptReport
    \/ EnvStep /\ UNCHANGED deskVars

\* The event loop handles its queue and the runtime polls every task.
DeskFairness ==
    /\ WF_allVars(AcceptReport)
    /\ \A r \in Runs : WF_allVars(Supervise(r) /\ TaskStep(r))
    /\ \A r \in Runs : SF_allVars(Supervise(r) /\ StopSeen(r))

DeskSpec == DeskInit /\ [][DeskNext]_allVars
FairDeskSpec == DeskSpec /\ DeskFairness

-----------------------------------------------------------------------------
(* Properties.                                                             *)

\* No port is left open behind the user's back: a supervisor that still runs
\* and has not been told to stop is the one in the table, whose entry can stop
\* it (the Drop of TunnelHandle; tunnels_to_stop_on_session_delete).
NoOrphanRun ==
    \A r \in Runs : Alive(r) => Held(r) \/ stop[r]

\* Once its session is deleted no tunnel the user can see keeps running
\* unasked: tunnels that refer to it are stopped and cannot be started again.
DeletedSessionIsSilent ==
    ~sessionAlive => \A r \in Runs :
        TunnelOf(r) \in SessionTunnels \intersect records /\ Alive(r) => stop[r]

\* The reports of tunnel t that have not been handled.
InFlight(t) == {i \in DOMAIN events : TunnelOf(events[i].run) = t}

\* The entry of tunnel t shows what its run last reported, once every report
\* of t has been handled.
EntrySettles(t) ==
    InTable(t) /\ InFlight(t) = {} =>
        \/ table[t].state = reported[table[t].run]
        \/ pc[table[t].run] = "top" /\ reported[table[t].run] = "None"

\* A local tunnel's row is right although reports do not name their run: the
\* old run's last report precedes the release of the port, without which no
\* new run starts.
LocalEntrySettles == \A t \in Tunnels \ RemoteTunnels : EntrySettles(t)

\* The user is told exactly once that a local tunnel has failed for good,
\* however its reports interleave with those of the run before it.
LocalFailureAnnounced ==
    \A t \in Tunnels \ RemoteTunnels :
        LET r == table[t].run IN
        InTable(t) /\ InFlight(t) = {} /\ reported[r] = "Failed" => toasts[r] = 1

\* Pressing stop ends the run for good, through the table, the stop channel
\* and whatever the task was doing.
StoppedRunEnds ==
    \A r \in Runs : (Alive(r) /\ ~Held(r)) ~> ~Alive(r)
=============================================================================
