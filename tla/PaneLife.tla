------------------------------ MODULE PaneLife ------------------------------
(***************************************************************************)
(* The panes of one terminal tab and the connections they hang on: how a   *)
(* pane loses its channel, how the lost connection is redialled behind the *)
(* user's back, and how both cross with panes the user opens, closes and   *)
(* moves to another machine meanwhile (app.rs, reconnect.rs and            *)
(* shell/workspace/mod.rs of mullion-app).                                 *)
(*                                                                         *)
(* One connection carries the channels of several panes.  hosts[h] is the  *)
(* h-th machine of the tab with its current connection; a redial replaces  *)
(* the connection in place, and moving a pane to another machine appends.  *)
(* Connections need no names: a channel is on the current connection of    *)
(* its host, on an older one that still works, or on a dead one.  Command  *)
(* drawers are left out.                                                   *)
(***************************************************************************)
EXTENDS Naturals, Sequences, FiniteSets

CONSTANTS
    Panes,        \* the pane ids, never reused
    FirstPanes,   \* those of them that are connected when we start to look
    Machines,     \* what a connection leads to
    Home,         \* the machine the tab was opened on
    MaxHosts,     \* bound: machines a tab has ever been connected to
    MaxRehosts,   \* bound: moves to another machine under way at once
    MaxAttempts   \* MAX_ATTEMPTS of the back-off table

ASSUME PaneConstants ==
    /\ FirstPanes \subseteq Panes /\ FirstPanes # {}
    /\ Home \in Machines
    /\ {MaxHosts, MaxRehosts} \subseteq Nat \ {0}
    /\ MaxAttempts \in Nat

VARIABLES
    status,        \* status[p]: PaneState::status, or where a pane has none
    hostOf,        \* hostOf[p]: its host_ix, from 1 on
    link,          \* link[p]: what its channel's connection is worth
    exited,        \* exited[p]: its remote shell has ended
    quit,          \* quit[p]: pump has judged that the user left this shell
    hosts,         \* Workspace::hosts
    reconnecting,  \* the redials App knows to be under way: <<host, attempt>>
    redials,       \* the redial tasks and the answers they have sent
    opens,         \* the channels being opened for new panes
    pending,       \* App::pending_rehost
    rehosts        \* the rehost tasks and the answers they have sent

paneVars == <<status, hostOf, link, exited, quit>>
vars == <<paneVars, hosts, reconnecting, redials, opens, pending, rehosts>>

Shown == {"Live", "Reconnecting", "Disconnected"}
Links == {"current", "older", "dead"}
Answers == {"none", "ok", "err"}
HostIx == 1 .. Len(hosts)

Redial == [host : 1 .. MaxHosts, attempt : 0 .. MaxAttempts,
           panes : SUBSET Panes, answer : Answers, up : BOOLEAN]
Rehost == [pane : Panes, machine : Machines, answer : Answers, up : BOOLEAN]

TypeOK ==
    /\ status \in [Panes -> Shown \union {"unborn", "opening", "closed"}]
    /\ hostOf \in [Panes -> 1 .. MaxHosts]
    /\ link \in [Panes -> Links]
    /\ exited \in [Panes -> BOOLEAN]
    /\ quit \in [Panes -> BOOLEAN]
    /\ hosts \in Seq([cfg : Machines, at : Machines, up : BOOLEAN])
    /\ Len(hosts) \in 1 .. MaxHosts
    /\ reconnecting \subseteq (1 .. MaxHosts) \X (0 .. MaxAttempts)
    /\ redials \subseteq Redial
    /\ opens \subseteq [pane : Panes, host : 1 .. MaxHosts, link : Links]
    /\ pending \in Seq([pane : Panes, machine : Machines])
    /\ rehosts \subseteq Rehost

InTree(p) == status[p] \in Shown \union {"opening"}

\* The rx of the pane is closed: its shell has ended or its connection has.
Closed(p) == exited[p] \/ link[p] = "dead"

Init ==
    /\ status = [p \in Panes |-> IF p \in FirstPanes THEN "Live" ELSE "unborn"]
    /\ hostOf = [p \in Panes |-> 1]
    /\ link = [p \in Panes |-> IF p \in FirstPanes THEN "current" ELSE "dead"]
    /\ exited = [p \in Panes |-> FALSE]
    /\ quit = [p \in Panes |-> FALSE]
    /\ hosts = << [cfg |-> Home, at |-> Home, up |-> TRUE] >>
    /\ reconnecting = {}
    /\ redials = {}
    /\ opens = {}
    /\ pending = <<>>
    /\ rehosts = {}

-----------------------------------------------------------------------------
(* The network and the remote shells.                                      *)

\* What becomes of a channel on host h when h's connection dies.
LosesLink(h, ix, l) == IF ix = h /\ l = "current" THEN "dead" ELSE l

LinkDies(h) ==
    /\ hosts[h].up
    /\ hosts' = [hosts EXCEPT ![h].up = FALSE]
    /\ link' = [p \in Panes |-> LosesLink(h, hostOf[p], link[p])]
    /\ opens' = {[o EXCEPT !.link = LosesLink(h, o.host, o.link)] : o \in opens}
    /\ UNCHANGED <<status, hostOf, exited, quit, reconnecting, redials,
                   pending, rehosts>>

\* A connection that a redial has already replaced dies too.
OldLinkDies(p) ==
    /\ link[p] = "older"
    /\ link' = [link EXCEPT ![p] = "dead"]
    /\ UNCHANGED <<status, hostOf, exited, quit, hosts, reconnecting, redials,
                   opens, pending, rehosts>>

ShellExits(p) ==
    /\ status[p] \in Shown /\ ~Closed(p)
    /\ exited' = [exited EXCEPT ![p] = TRUE]
    /\ UNCHANGED <<status, hostOf, link, quit, hosts, reconnecting, redials,
                   opens, pending, rehosts>>

-----------------------------------------------------------------------------
(* A frame: pump, then drive_reconnects.                                   *)

\* rx_closed_action, on the current connection of the pane's host.
RxClosedAction(p) ==
    IF hosts[hostOf[p]].up THEN "Disconnected" ELSE "Reconnecting"

\* Workspace::pump finds the rx of p closed.  Only a live pane is judged; the
\* panes of a connection need not be found in the same frame.
Pump(p) ==
    /\ Closed(p) /\ status[p] = "Live"
    /\ LET verdict == RxClosedAction(p) IN
          /\ status' = [status EXCEPT ![p] = verdict]
          /\ quit' = [quit EXCEPT ![p] = exited[p] /\ verdict = "Disconnected"]
    /\ UNCHANGED <<hostOf, link, exited, hosts, reconnecting, redials, opens,
                   pending, rehosts>>

Waiting(h) == {p \in Panes : status[p] = "Reconnecting" /\ hostOf[p] = h}
InFlight == {r[1] : r \in reconnecting}

\* hosts_to_redial.  (Bug form: the redials under way are not left out.)
HostsToRedialAgain == {h \in HostIx : Waiting(h) # {}}
HostsToRedial == {h \in HostIx : Waiting(h) # {} /\ h \notin InFlight}

\* spawn_reconnect: a task that opens a channel for each waiting pane.
Spawned(h, n) == [host |-> h, attempt |-> n, panes |-> Waiting(h),
                  answer |-> "none", up |-> TRUE]

DriveReconnects ==
    /\ HostsToRedial # {}
    /\ reconnecting' = reconnecting \union {<<h, 0>> : h \in HostsToRedial}
    /\ redials' = redials \union {Spawned(h, 0) : h \in HostsToRedial}
    /\ UNCHANGED <<paneVars, hosts, opens, pending, rehosts>>

-----------------------------------------------------------------------------
(* Redials.                                                                *)

\* The task has dialled and opened its channels, or failed at either.
RedialAnswers(t) ==
    /\ t.answer = "none"
    /\ \E a \in {"ok", "err"} :
          redials' = (redials \ {t}) \union {[t EXCEPT !.answer = a]}
    /\ UNCHANGED <<paneVars, hosts, reconnecting, opens, pending, rehosts>>

\* The new connection dies while its answer waits in the event queue.
AnswerGoesStale(t) ==
    /\ t.answer = "ok" /\ t.up
    /\ redials' = (redials \ {t}) \union {[t EXCEPT !.up = FALSE]}
    /\ UNCHANGED <<paneVars, hosts, reconnecting, opens, pending, rehosts>>

\* The in-flight table without the redials of host h.
\* (Bug form: a finished redial stays in it.)
StillInFlight(h) == reconnecting
NoLongerInFlight(h) == {r \in reconnecting : r[1] # h}

\* What becomes of a channel on host h when its connection is replaced.
Outlived(h, ix, l) == IF ix = h /\ l = "current" THEN "older" ELSE l

\* reattach_pane takes whatever pane of that id is still in the tree.
Reattached(t) == {p \in t.panes : status[p] \in Shown}

\* strays_after_reconnect: the panes of h this redial had no channel for.
\* (Bug form: those the user has left are called back too.)
StraysAll(h, done) == {p \in Panes \ done : status[p] \in Shown /\ hostOf[p] = h}
Strays(h, done) == {p \in Panes \ done : status[p] = "Live" /\ hostOf[p] = h}

OnPaneReconnected(t) ==
    /\ t.answer = "ok"
    /\ redials' = redials \ {t}
    /\ reconnecting' = NoLongerInFlight(t.host)
    /\ LET done == Reattached(t)
           strays == Strays(t.host, done)
       IN IF done = {} THEN UNCHANGED <<paneVars, hosts, opens>> ELSE
          /\ status' = [p \in Panes |->
                CASE p \in done -> "Live"
                  [] p \in strays -> "Reconnecting"
                  [] OTHER -> status[p]]
          /\ hostOf' = [p \in Panes |-> IF p \in done THEN t.host ELSE hostOf[p]]
          /\ link' = [p \in Panes |->
                IF p \in done THEN (IF t.up THEN "current" ELSE "dead")
                              ELSE Outlived(t.host, hostOf[p], link[p])]
          /\ exited' = [p \in Panes |-> p \notin done /\ exited[p]]
          /\ quit' = [p \in Panes |-> p \notin done /\ quit[p]]
          /\ hosts' = [hosts EXCEPT ![t.host] =
                [cfg |-> @.cfg, at |-> @.cfg, up |-> t.up]]
          /\ opens' = {[o EXCEPT !.link = Outlived(t.host, o.host, o.link)] :
                          o \in opens}
    /\ UNCHANGED <<pending, rehosts>>

\* delay_for: the back-off table has a delay for the first MaxAttempts retries.
\* (Bug form: for one more.)
HasDelayLonger(n) == n <= MaxAttempts + 1
HasDelay(n) == n <= MaxAttempts

\* The next attempt while there is a delay for it and a pane waits; with no
\* delay left, every pane of the host is given up.
OnPaneReconnectErr(t) ==
    /\ t.answer = "err"
    /\ LET next == t.attempt + 1 IN
       CASE HasDelay(next) /\ Waiting(t.host) # {} ->
              /\ reconnecting' = NoLongerInFlight(t.host) \union {<<t.host, next>>}
              /\ redials' = (redials \ {t}) \union {Spawned(t.host, next)}
              /\ UNCHANGED status
         [] HasDelay(next) /\ Waiting(t.host) = {} ->
              /\ reconnecting' = NoLongerInFlight(t.host)
              /\ redials' = redials \ {t}
              /\ UNCHANGED status
         [] ~HasDelay(next) ->
              /\ reconnecting' = NoLongerInFlight(t.host)
              /\ redials' = redials \ {t}
              /\ status' = [p \in Panes |->
                    IF status[p] \in Shown /\ hostOf[p] = t.host
                    THEN "Disconnected" ELSE status[p]]
    /\ UNCHANGED <<hostOf, link, exited, quit, hosts, opens, pending, rehosts>>

-----------------------------------------------------------------------------
(* New panes.                                                              *)

\* A preset or a split makes a leaf and asks for a channel on the connection
\* of the pane that had the focus.  Where that one is still opening there is
\* no such connection, and a dead pane on the first host stands in.
Split(focus, p) ==
    /\ InTree(focus) /\ status[p] = "unborn"
    /\ IF status[focus] = "opening"
       THEN /\ status' = [status EXCEPT ![p] = "Disconnected"]
            /\ UNCHANGED <<hostOf, opens>>
       ELSE /\ status' = [status EXCEPT ![p] = "opening"]
            /\ UNCHANGED hostOf
            /\ LET h == hostOf[focus] IN
               opens' = opens \union
                  {[pane |-> p, host |-> h,
                    link |-> IF hosts[h].up THEN "current" ELSE "dead"]}
    /\ UNCHANGED <<link, exited, quit, hosts, reconnecting, redials, pending,
                   rehosts>>

\* PaneOpened: the channel is attached if the leaf is still there
\* (pane_still_wanted), as a live pane, whatever became of its connection.
\* (Bug form: the leaf is not looked for.)
AnyLeaf(p) == TRUE
PaneStillWanted(p) == InTree(p)
OnPaneOpened(o) ==
    /\ opens' = opens \ {o}
    /\ IF PaneStillWanted(o.pane)
       THEN /\ status' = [status EXCEPT ![o.pane] = "Live"]
            /\ hostOf' = [hostOf EXCEPT ![o.pane] = o.host]
            /\ link' = [link EXCEPT ![o.pane] = o.link]
       ELSE UNCHANGED <<status, hostOf, link>>
    /\ UNCHANGED <<exited, quit, hosts, reconnecting, redials, pending, rehosts>>

\* PaneOpenErr is only a toast: the leaf stays as it is.
OnPaneOpenErr(o) ==
    /\ opens' = opens \ {o}
    /\ UNCHANGED <<paneVars, hosts, reconnecting, redials, pending, rehosts>>

\* close_pane refuses the last one.
ClosePane(p) ==
    /\ InTree(p) /\ \E q \in Panes \ {p} : InTree(q)
    /\ status' = [status EXCEPT ![p] = "closed"]
    /\ link' = [link EXCEPT ![p] = "dead"]
    /\ exited' = [exited EXCEPT ![p] = FALSE]
    /\ quit' = [quit EXCEPT ![p] = FALSE]
    /\ UNCHANGED <<hostOf, hosts, reconnecting, redials, opens, pending, rehosts>>

-----------------------------------------------------------------------------
(* Moving a pane to another machine.                                       *)

\* spawn_rehost_on: the record that the answer will be matched with goes into
\* pending_rehost.  A pane may be moved again before it has arrived.
PickRehost(p, m) ==
    /\ status[p] \in Shown
    /\ Cardinality(rehosts) < MaxRehosts
    /\ Len(hosts) + Cardinality(rehosts) < MaxHosts
    /\ LET r == [pane |-> p, machine |-> m, answer |-> "none", up |-> TRUE] IN
          /\ r \notin rehosts
          /\ rehosts' = rehosts \union {r}
    /\ pending' = Append(pending, [pane |-> p, machine |-> m])
    /\ UNCHANGED <<paneVars, hosts, reconnecting, redials, opens>>

RehostAnswers(r) ==
    /\ r.answer = "none"
    /\ \E a \in {"ok", "err"} :
          rehosts' = (rehosts \ {r}) \union {[r EXCEPT !.answer = a]}
    /\ UNCHANGED <<paneVars, hosts, reconnecting, redials, opens, pending>>

\* Vec::swap_remove: the last entry takes the place of the i-th.
SwapRemove(s, i) ==
    [j \in 1 .. Len(s) - 1 |-> IF j = i THEN s[Len(s)] ELSE s[j]]

RecordsOf(p) == {i \in DOMAIN pending : pending[i].pane = p}
FirstOf(S) == CHOOSE i \in S : \A j \in S : i <= j

\* on_pane_rehosted: the first record of that pane describes the new host,
\* which is appended when the pane is still there to be hung on it.
OnPaneRehosted(r) ==
    /\ r.answer = "ok"
    /\ rehosts' = rehosts \ {r}
    /\ IF RecordsOf(r.pane) = {} THEN UNCHANGED <<paneVars, hosts, pending>> ELSE
       LET i == FirstOf(RecordsOf(r.pane)) IN
       /\ pending' = SwapRemove(pending, i)
       /\ IF ~InTree(r.pane) THEN UNCHANGED <<paneVars, hosts>> ELSE
          /\ hosts' = Append(hosts, [cfg |-> pending[i].machine,
                                     at |-> r.machine, up |-> r.up])
          /\ hostOf' = [hostOf EXCEPT ![r.pane] = Len(hosts) + 1]
          /\ link' = [link EXCEPT ![r.pane] = "current"]
          /\ status' = [status EXCEPT ![r.pane] = "Live"]
          /\ exited' = [exited EXCEPT ![r.pane] = FALSE]
          /\ quit' = [quit EXCEPT ![r.pane] = FALSE]
    /\ UNCHANGED <<reconnecting, redials, opens>>

\* retain: the records of other panes stay, in their order, and i[n] is where
\* the n-th of them was.  (Bug form: the record of the failed move stays.)
RecordsKept(p) == UNCHANGED pending
RecordsDropped(p) ==
    LET kept == DOMAIN pending \ RecordsOf(p) IN
    \E i \in [1 .. Cardinality(kept) -> kept] :
        /\ \A m, n \in DOMAIN i : m < n => i[m] < i[n]
        /\ pending' = [n \in DOMAIN i |-> pending[i[n]]]

\* on_pane_rehost_err: every record of the pane is dropped, and the pane is
\* shown as disconnected (degrade_restored_pane).
OnPaneRehostErr(r) ==
    /\ r.answer = "err"
    /\ rehosts' = rehosts \ {r}
    /\ RecordsDropped(r.pane)
    /\ status' = [status EXCEPT ![r.pane] = IF InTree(r.pane) THEN "Disconnected"
                                                              ELSE @]
    /\ UNCHANGED <<hostOf, link, exited, quit, hosts, reconnecting, redials, opens>>

-----------------------------------------------------------------------------
Environment ==
    \/ \E h \in HostIx : LinkDies(h)
    \/ \E p \in Panes : OldLinkDies(p) \/ ShellExits(p)
    \/ \E t \in redials : AnswerGoesStale(t)

User ==
    \/ \E f, p \in Panes : Split(f, p)
    \/ \E p \in Panes : ClosePane(p)
    \/ \E p \in Panes, m \in Machines : PickRehost(p, m)

RedialStep(t) == RedialAnswers(t) \/ OnPaneReconnected(t) \/ OnPaneReconnectErr(t)

App ==
    \/ \E p \in Panes : Pump(p)
    \/ DriveReconnects
    \/ \E t \in redials : RedialStep(t)
    \/ \E o \in opens : OnPaneOpened(o) \/ OnPaneOpenErr(o)
    \/ \E r \in rehosts :
          RehostAnswers(r) \/ OnPaneRehosted(r) \/ OnPaneRehostErr(r)

Next == Environment \/ User \/ App

Spec == Init /\ [][Next]_vars
\* The event loop draws frames and handles every event, every dial and channel
\* request comes back (the library bounds each with a time-out); the network
\* and the user owe nothing.
Fairness ==
    /\ \A p \in Panes : WF_vars(Pump(p))
    /\ WF_vars(DriveReconnects)
    /\ \A h \in 1 .. MaxHosts : WF_vars(\E t \in redials :
          t.host = h /\ RedialStep(t))

FairSpec == Spec /\ Fairness

-----------------------------------------------------------------------------
(* Properties.                                                             *)

\* The in-flight table lists exactly the redials that are under way, one for
\* a host: an entry too many and the host is never dialled again, one too few
\* and every frame dials it once more (the reconnecting table of App).
OneRedialPerHost ==
    /\ \A t, u \in redials : t.host = u.host => t = u
    /\ reconnecting = {<<t.host, t.attempt>> : t \in redials}

\* Nobody dials on behalf of a shell the user has left: however the exit, the
\* death of the connection and the redials of other panes interleave, no
\* redial of its host opens a channel for it (rx_closed_action and the panes
\* that strays_after_reconnect leaves alone).
ExitedNotRedialled ==
    \A t \in redials : \A p \in t.panes : quit[p] => hostOf[p] # t.host

\* A pane talks to the machine its host entry names, the one that entry would
\* redial: moving, redialling and splitting never mix up two machines.  This
\* needs OneMovePerPane: of two moves of one pane under way at once, the later
\* to answer may be given the record of the other.
OneMovePerPane == \A r, x \in rehosts : r.pane = x.pane => r = x
ChannelOnItsMachine == \A h \in HostIx : hosts[h].cfg = hosts[h].at

\* A pane the user has closed never comes back, though its channel, its redial
\* or its move to another machine was under way (pane_still_wanted).
ClosedStaysClosed ==
    [][\A p \in Panes : status[p] = "closed" => status'[p] = "closed"]_vars

\* A pane that waits for its connection gets it or is given up, whatever the
\* redials of the other panes of its host do meanwhile.
ReconnectingSettles ==
    \A p \in Panes : status[p] = "Reconnecting" ~> status[p] # "Reconnecting"

\* The comment on strays_after_reconnect: a pane that missed a redial gets one
\* more.  Once every connection of the tab works and keeps working, the
\* redialling comes to rest.
RedialsComeToRest ==
    <>[](\A h \in HostIx : hosts[h].up) =>
        []<>(\A p \in Panes : status[p] # "Reconnecting")
=============================================================================
