---------------------------- MODULE RestoreDial ----------------------------
(***************************************************************************)
(* Dialling, and the restoring of a window's tabs (app.rs, shell/          *)
(* dial_ledger.rs and shell/restore_plan.rs of mullion-app).               *)
(*                                                                         *)
(* A restored tab is a placeholder until a dial puts a connection in its   *)
(* place.  Which dial that is, App remembers in one slot (pending_restore),*)
(* while dials of any number may be in flight; the automatic queue, the    *)
(* probing of a project's nodes and the user's own dials all meet at that  *)
(* slot.  Once the tab is connected, its panes on other machines are       *)
(* dialled one by one (restore_dial) along the path of a pane's move.      *)
(***************************************************************************)
EXTENDS Integers, Sequences, FiniteSets, FiniteSetsExt

CONSTANTS
    Tabs,          \* the placeholders, numbered in the order of the tab bar
    Records,       \* the records of the history, each a set of tabs
    ProjectTabs,   \* those whose project must first be probed for a node
    FilesTabs,     \* those of an SFTP node
    FarLeaves,     \* FarLeaves[t]: panes of t on other machines than its own
    BadLeaves,     \* leaves <<t, i>> whose dial cannot even be started
    None,          \* no tab
    MaxDials,      \* bound: dials in flight
    MaxDemotions,  \* bound: SFTP tabs that lose their connection
    MaxDeletions   \* bound: tabs whose sessions are deleted

ASSUME RestoreConstants ==
    /\ Tabs \subseteq Nat /\ None \notin Tabs
    /\ \A r \in Records : r \subseteq Tabs
    /\ \A r, s \in Records : r # s => r \cap s = {}
    /\ ProjectTabs \subseteq Tabs /\ FilesTabs \subseteq Tabs
    /\ FarLeaves \in [Tabs -> Nat] /\ \A t \in FilesTabs : FarLeaves[t] = 0
    /\ {MaxDials, MaxDemotions, MaxDeletions} \subseteq Nat

VARIABLES
    content,    \* content[t]: what the tab holds
    dialing,    \* dialing[t]: RestoredTab::dialing, its button is disabled
    gone,       \* the tabs whose sessions have been deleted from the vault
    pending,    \* App::pending_restore
    probing,    \* App::restore_probing, and the probe it stands for
    auto,       \* App::auto_dial: is it on, and which tabs it has tried
    dials,      \* dials[t]: dials in flight that are meant for tab t, or None
    tickets,    \* tickets[t]: the tickets of such dials in the DialLedger
    queue,      \* App::restore_dial
    busy,       \* App::restore_dial_busy
    rehosts,    \* the dials of leaves, and of moves the user asked for
    demotions   \* SFTP tabs that have lost their connection so far

restoreVars == <<content, dialing, pending, probing, auto, dials, tickets>>
leafVars == <<queue, busy, rehosts>>
vars == <<restoreVars, gone, leafVars, demotions>>

Slots == Tabs \union {None}
Connected == {"terminal", "files"}
Contents == Connected \union {"absent", "restored", "closed"}
Leaves == UNION {{t} \X (1 .. FarLeaves[t]) : t \in Tabs}
Moves == {<<t, 0>> : t \in Tabs}

TypeOK ==
    /\ content \in [Tabs -> Contents]
    /\ dialing \in [Tabs -> BOOLEAN]
    /\ gone \subseteq Tabs
    /\ {pending, probing} \subseteq Slots
    /\ auto \in [on : BOOLEAN, tried : SUBSET Tabs]
    /\ dials \in [Slots -> 0 .. MaxDials]
    /\ tickets \in [Slots -> 0 .. MaxDials]
    /\ queue \in Seq(Leaves)
    /\ busy \in BOOLEAN
    /\ rehosts \subseteq Leaves \union Moves
    /\ demotions \in 0 .. MaxDemotions

Init ==
    /\ content = [t \in Tabs |-> "absent"]
    /\ dialing = [t \in Tabs |-> FALSE]
    /\ gone = {}
    /\ pending = None
    /\ probing = None
    /\ auto = [on |-> FALSE, tried |-> {}]
    /\ dials = [s \in Slots |-> 0]
    /\ tickets = [s \in Slots |-> 0]
    /\ queue = <<>>
    /\ busy = FALSE
    /\ rehosts = {}
    /\ demotions = 0

-----------------------------------------------------------------------------
(* One handler may call several functions in a row that read what the one  *)
(* before has written.  They are functions on the part of App they share.  *)

App == [content |-> content, dialing |-> dialing, pending |-> pending,
        probing |-> probing, auto |-> auto, dials |-> dials,
        tickets |-> tickets]

Becomes(a) ==
    /\ content' = a.content /\ dialing' = a.dialing
    /\ pending' = a.pending /\ probing' = a.probing
    /\ auto' = a.auto /\ dials' = a.dials /\ tickets' = a.tickets

InFlight == Cardinality(UNION {{s} \X (1 .. dials[s]) : s \in Slots})

\* The bound on the dials in flight; a probe may become one.
Room == InFlight + (IF probing = None THEN 0 ELSE 1) < MaxDials

\* spawn_connect: a ticket and a task, whatever else is in flight.
SpawnConnect(a, s) == [a EXCEPT !.dials[s] = @ + 1, !.tickets[s] = @ + 1]

GateOpen(a) == a.pending = None /\ a.probing = None

\* reconnect_tab starts something.
Startable(a, t) == GateOpen(a) /\ a.content[t] = "restored" /\ t \notin gone

\* What it starts: the dial, or for a project the probe of its nodes.
Dialled(a, t) ==
    SpawnConnect([a EXCEPT !.pending = t, !.dialing[t] = TRUE], t)
Probed(a, t) == [a EXCEPT !.probing = t, !.dialing[t] = TRUE]
Started(a, t) == IF t \in ProjectTabs THEN Probed(a, t) ELSE Dialled(a, t)

\* reconnect_tab
Reconnect(a, t) == IF Startable(a, t) THEN Started(a, t) ELSE a

\* advance_auto_dial: try the placeholders in their order until one of them
\* starts something.  With none left, or the gate shut, the queue is dropped.
\* (Bug form: it waits although nothing has been started.)
Untried(a) == {t \in Tabs : a.content[t] = "restored" /\ t \notin a.auto.tried}
AutoOff(a) == [a EXCEPT !.auto = [on |-> FALSE, tried |-> {}]]
AdvanceOnce(a) ==
    LET next == Min(Untried(a)) IN
    CASE ~a.auto.on -> a
      [] a.auto.on /\ Untried(a) = {} -> AutoOff(a)
      [] a.auto.on /\ Untried(a) # {} ->
            Reconnect([a EXCEPT !.auto.tried = @ \union {next}], next)
AdvanceAuto(a) ==
    LET able == {t \in Untried(a) : Startable(a, t)} IN
    CASE ~a.auto.on -> a
      [] a.auto.on /\ able = {} -> AutoOff(a)
      [] a.auto.on /\ able # {} ->
            LET next == Min(able) IN
            Started([a EXCEPT !.auto.tried = @ \union
                        {t \in Untried(a) : t <= next}], next)

-----------------------------------------------------------------------------
(* The leaves on other machines.                                           *)

\* drive_restore_dial: skip the leaves of closed tabs and those whose dial
\* cannot be started; dial the first of the others.
\* (Bug form: a dial that could not be started keeps the queue busy.)
Dialable(c, leaf) == c[leaf[1]] = "terminal" /\ leaf \notin BadLeaves
DriveStuck(c, q, b, rs) ==
    IF b \/ q = <<>> THEN /\ queue' = q /\ busy' = b /\ rehosts' = rs
    ELSE /\ queue' = Tail(q)
         /\ busy' = TRUE
         /\ rehosts' = IF Dialable(c, Head(q)) THEN rs \union {Head(q)} ELSE rs
DriveRestoreDial(c, q, b, rs) ==
    LET able == {i \in DOMAIN q : Dialable(c, q[i])} IN
    CASE b -> /\ queue' = q /\ busy' = b /\ rehosts' = rs
      [] ~b /\ able = {} -> /\ queue' = <<>> /\ busy' = FALSE /\ rehosts' = rs
      [] ~b /\ able # {} ->
            /\ queue' = SubSeq(q, Min(able) + 1, Len(q))
            /\ busy' = TRUE
            /\ rehosts' = rs \union {q[Min(able)]}

\* dispatch_restored_leaves
FarLeavesOf(t) == [i \in 1 .. FarLeaves[t] |-> <<t, i>>]

-----------------------------------------------------------------------------
(* The user.                                                               *)

\* restore_history: the tabs of the record whose session still exists.
RestoreHistory(r) ==
    /\ \A t \in r : content[t] = "absent"
    /\ r \ gone # {} /\ Room
    /\ Becomes(AdvanceAuto([App EXCEPT
          !.content = [t \in Tabs |-> IF t \in r \ gone THEN "restored" ELSE @[t]],
          !.auto = [on |-> TRUE, tried |-> {}]]))
    /\ UNCHANGED <<gone, leafVars, demotions>>

\* The button of the placeholder, or "reconnect all" in the menu.
UserReconnect(t) ==
    /\ content[t] = "restored" /\ ~dialing[t] /\ Room
    /\ Becomes(Reconnect(App, t))
    /\ UNCHANGED <<gone, leafVars, demotions>>

\* A dial that has nothing to do with a placeholder: a session or a project
\* is opened, or the command line names a host.
UserConnect ==
    /\ Room
    /\ Becomes(SpawnConnect(App, None))
    /\ UNCHANGED <<gone, leafVars, demotions>>

UserCloseTab(t) ==
    /\ content[t] \in Connected \union {"restored"}
    /\ content' = [content EXCEPT ![t] = "closed"]
    /\ dialing' = [dialing EXCEPT ![t] = FALSE]
    /\ UNCHANGED <<pending, probing, auto, dials, tickets, gone, leafVars, demotions>>

UserDeletesSession(t) ==
    /\ t \notin gone /\ Cardinality(gone) < MaxDeletions
    /\ gone' = gone \union {t}
    /\ UNCHANGED <<restoreVars, leafVars, demotions>>

\* demote_files_tab_and_reconnect
DemoteFilesTab(t) ==
    /\ content[t] = "files"
    /\ demotions < MaxDemotions /\ demotions' = demotions + 1
    /\ Room
    /\ Becomes(Reconnect([App EXCEPT !.content[t] = "restored"], t))
    /\ UNCHANGED <<gone, leafVars>>

\* The user moves a pane of a connected tab to another machine (bound: one
\* such move at a time).
UserMovesPane(t) ==
    /\ content[t] = "terminal"
    /\ rehosts \cap Moves = {}
    /\ rehosts' = rehosts \union {<<t, 0>>}
    /\ UNCHANGED <<restoreVars, gone, queue, busy, demotions>>

-----------------------------------------------------------------------------
(* The events.                                                             *)

\* DialLedger::claim: the task sends one event, so its ticket is still there.
\* (Bug form: it stays there.)
NoClaim(a, s) == [a EXCEPT !.dials[s] = @ - 1]
Claim(a, s) == [a EXCEPT !.dials[s] = @ - 1, !.tickets[s] = @ - 1]

\* What a dial brings: wants_sftp of its session.
Brings(s) == IF s = None THEN Connected
             ELSE {IF s \in FilesTabs THEN "files" ELSE "terminal"}

\* accept_connect_ok: the tab in the slot is taken for the one this dial was
\* meant for.  If it has been closed, place_tab opens another.
OnConnectOk(s) ==
    /\ dials[s] > 0
    /\ LET p == pending
           over == [Claim(App, s) EXCEPT !.pending = None]
       IN IF p # None /\ content[p] = "restored"
          THEN \E kind \in Brings(s) :
                  LET placed == [over EXCEPT !.content[p] = kind,
                                             !.dialing[p] = FALSE]
                  IN /\ Becomes(AdvanceAuto(placed))
                     /\ IF kind = "files" THEN UNCHANGED leafVars ELSE
                        DriveRestoreDial(placed.content,
                           queue \o FarLeavesOf(p), busy, rehosts)
          ELSE Becomes(AdvanceAuto(over)) /\ UNCHANGED leafVars
    /\ UNCHANGED <<gone, demotions>>

\* ConnectErr.  (Bug form: the slot is not cleared.)
SlotKept(a) == a
SlotCleared(a) ==
    IF a.pending = None THEN a
    ELSE [a EXCEPT !.dialing[a.pending] = FALSE, !.pending = None]
OnConnectErr(s) ==
    /\ dials[s] > 0
    /\ Becomes(AdvanceAuto(SlotCleared(Claim(App, s))))
    /\ UNCHANGED <<gone, leafVars, demotions>>

\* on_restore_nodes_picked: the probe is over.  The gate is opened first, then
\* the tab is dialled like any other; where that starts nothing, its button is
\* freed and the automatic queue goes on.
\* (Bug form: the button is left as it is.)
StillDisabled(a, t) == a
Freed(a, t) == [a EXCEPT !.dialing[t] = FALSE]
OnRestoreNodesPicked ==
    /\ probing # None
    /\ LET t == probing
           a == [App EXCEPT !.probing = None]
       IN Becomes(CASE content[t] # "restored" -> AdvanceAuto(a)
                    [] content[t] = "restored" /\ Startable(a, t) -> Dialled(a, t)
                    [] content[t] = "restored" /\ ~Startable(a, t) ->
                          AdvanceAuto(Freed(a, t)))
    /\ UNCHANGED <<gone, leafVars, demotions>>

\* on_pane_rehosted and on_pane_rehost_err: each frees the queue, whichever
\* dial has come back.
NoLongerBusy == FALSE
RehostEnds(r) ==
    /\ r \in rehosts
    /\ DriveRestoreDial(content, queue, NoLongerBusy, rehosts \ {r})
    /\ UNCHANGED <<restoreVars, gone, demotions>>

-----------------------------------------------------------------------------
User ==
    \/ \E r \in Records : RestoreHistory(r)
    \/ \E t \in Tabs :
          \/ UserReconnect(t) \/ UserCloseTab(t) \/ UserDeletesSession(t)
          \/ DemoteFilesTab(t) \/ UserMovesPane(t)
    \/ UserConnect

DialEnds(s) == OnConnectOk(s) \/ OnConnectErr(s)

Next ==
    \/ User
    \/ \E s \in Slots : DialEnds(s)
    \/ OnRestoreNodesPicked
    \/ \E r \in Leaves \union Moves : RehostEnds(r)

\* Every dial and every probe of a restore comes back and its event is
\* handled; the library bounds each with a time-out.  The user's own dials do
\* so too, but nothing below needs it.  The user owes nothing.
Fairness ==
    /\ \A t \in Tabs : WF_vars(DialEnds(t))
    /\ WF_vars(OnRestoreNodesPicked)
    /\ \A r \in Leaves : WF_vars(RehostEnds(r))

Spec == Init /\ [][Next]_vars
FairSpec == Spec /\ Fairness

-----------------------------------------------------------------------------
(* Properties.                                                             *)

\* The button of a placeholder is disabled exactly while the gate is held for
\* it: one left disabled would stay so until the program ends (the comments in
\* ConnectErr and reconnect_tab).
DialingHoldsGate ==
    \A t \in Tabs : dialing[t] <=> content[t] = "restored" /\ t \in {pending, probing}

\* The slot and the ledger are cleared by the dials that are under way and by
\* nothing else.  A tab in the slot has its dial in flight, or no placeholder
\* could ever be reconnected again; and the ledger holds the tickets of the
\* dials in flight, which the launcher shows as being dialled.
DialsAccountedFor ==
    /\ pending # None => dials[pending] > 0
    /\ tickets = dials

\* The automatic queue and the queue of leaves wait only for an event that is
\* sure to come: the first for the gate's, the second for that of a leaf.
QueuesWaitForSomething ==
    /\ auto.on => ~GateOpen(App)
    /\ busy => rehosts \cap Leaves # {}
    /\ queue # <<>> => busy

\* Automatic reconnecting comes to an end, and no leaf of a restored tab waits
\* for its turn for ever, whatever the user dials, closes or deletes meanwhile.
AutoEnds == auto.on ~> ~auto.on
LeavesServed == queue # <<>> ~> queue = <<>>
QueuesComeToRest == AutoEnds /\ LeavesServed

\* The comment in accept_connect_ok: a connection replaces the placeholder
\* that had asked for it, and no other.
PlaceholderGetsItsDial ==
    [][\A s \in Slots : OnConnectOk(s) =>
          \A t \in Tabs : content[t] = "restored" /\ content'[t] \in Connected
             => s = t]_vars
=============================================================================
