--------------------------- MODULE PaneLifeProofs ---------------------------
(***************************************************************************)
(* Proofs about PaneLife, for every set of panes and machines and every    *)
(* bound: a host is redialled by one task at a time and the table of App   *)
(* lists just those tasks, nobody dials for a shell the user has left, a   *)
(* closed pane stays closed, and a connection leads to the machine its     *)
(* host entry names as long as a pane is moved once at a time.             *)
(***************************************************************************)
EXTENDS PaneLife, FiniteSetTheorems, WellFoundedInduction, TLAPS

PaneTypes ==
    /\ status \in [Panes -> Shown \union {"unborn", "opening", "closed"}]
    /\ hostOf \in [Panes -> Nat]
    /\ exited \in [Panes -> BOOLEAN]
    /\ quit \in [Panes -> BOOLEAN]

\* The list of hosts only grows.
HostList == \E S : hosts \in Seq(S)

Tasks == [host : Nat, attempt : Nat, panes : SUBSET Panes, answer : Answers,
          up : BOOLEAN]

\* A redial has panes that have once been shown; one of them that still hangs
\* on its host has not come back without it.
RedialPanes ==
    /\ redials \subseteq Tasks
    /\ \A t \in redials :
          /\ t.host \in HostIx
          /\ \A p \in t.panes :
                /\ status[p] \notin {"unborn", "opening"}
                /\ hostOf[p] = t.host => status[p] # "Live"

\* A channel is opened for a new pane, once.
OpensAreFirst ==
    /\ opens \subseteq [pane : Panes, host : Nat, link : Links]
    /\ \A o \in opens :
          o.host \in HostIx /\ status[o.pane] \in {"opening", "closed"}
    /\ \A o, q \in opens : o.pane = q.pane => o = q

\* Only a pane that has once been shown is moved.
MovesOfShown ==
    /\ rehosts \subseteq Rehost
    /\ \A r \in rehosts : status[r.pane] \notin {"unborn", "opening"}

HostsExist == \A p \in Panes : hostOf[p] \in HostIx

\* A shell that the user has left is shown as such until another takes its
\* place.
LeftAreShownSo == \A p \in Panes : quit[p] => status[p] = "Disconnected"

PaneInv ==
    /\ PaneTypes /\ HostList /\ RedialPanes /\ OpensAreFirst /\ MovesOfShown
    /\ HostsExist /\ LeftAreShownSo
    /\ OneRedialPerHost
    /\ ExitedNotRedialled

-----------------------------------------------------------------------------
(* What several steps have in common.                                      *)

\* An entry of the list of hosts changes.
LEMMA HostChanged ==
    ASSUME HostList, NEW h \in HostIx, NEW x, hosts' = [hosts EXCEPT ![h] = x]
    PROVE  HostList' /\ HostIx' = HostIx
<1>1. PICK S : hosts \in Seq(S)
  BY DEF HostList
<1>2. hosts \in Seq(S \union {x}) /\ x \in S \union {x}
  BY <1>1
<1>3. hosts' \in Seq(S \union {x}) /\ Len(hosts') = Len(hosts)
  BY <1>2 DEF HostIx
<1> QED
  BY <1>3 DEF HostList, HostIx

\* A host is appended.
LEMMA HostAdded ==
    ASSUME HostList, NEW x, hosts' = Append(hosts, x)
    PROVE  /\ HostList'
           /\ Len(hosts) + 1 \notin HostIx
           /\ HostIx' = HostIx \union {Len(hosts) + 1}
<1>1. PICK S : hosts \in Seq(S)
  BY DEF HostList
<1>2. hosts \in Seq(S \union {x}) /\ x \in S \union {x}
  BY <1>1
<1>3. hosts' \in Seq(S \union {x}) /\ Len(hosts') = Len(hosts) + 1
  BY <1>2
<1> QED
  BY <1>2, <1>3 DEF HostList, HostIx

\* A task that stays the same redial, whatever its answer.
Same(t, u) == u \in Tasks /\ u.host = t.host /\ u.attempt = t.attempt /\ u.panes = t.panes

LEMMA RedialGoesOn ==
    ASSUME PaneInv, NEW t \in redials, NEW u, Same(t, u),
           redials' = (redials \ {t}) \union {u},
           UNCHANGED <<paneVars, hosts, reconnecting>>
    PROVE  RedialPanes' /\ OneRedialPerHost' /\ ExitedNotRedialled'
<1> USE DEF PaneInv, paneVars, Same
<1>1. RedialPanes'
  BY DEF RedialPanes, HostIx
<1>2. OneRedialPerHost'
  <2>1. \A x, y \in redials' : x.host = y.host => x = y
    BY DEF OneRedialPerHost
  <2>2. {<<x.host, x.attempt>> : x \in redials'} = {<<x.host, x.attempt>> : x \in redials}
    OBVIOUS
  <2> QED
    BY <2>1, <2>2 DEF OneRedialPerHost
<1>3. ExitedNotRedialled'
  BY DEF ExitedNotRedialled
<1> QED
  BY <1>1, <1>2, <1>3

\* A redial that ends is taken out of the table.
LEMMA RedialEnds ==
    ASSUME OneRedialPerHost, NEW t \in redials,
           redials' = redials \ {t}, reconnecting' = NoLongerInFlight(t.host)
    PROVE  OneRedialPerHost'
<1>1. \A x \in redials : x.host = t.host => x = t
  BY DEF OneRedialPerHost
<1>2. NoLongerInFlight(t.host) = {<<x.host, x.attempt>> : x \in redials \ {t}}
  BY <1>1 DEF OneRedialPerHost, NoLongerInFlight
<1> QED
  BY <1>2 DEF OneRedialPerHost

\* What a redial starts with.
LEMMA SpawnedRedial ==
    ASSUME PaneInv, NEW h \in HostIx, NEW n \in Nat
    PROVE  /\ Spawned(h, n) \in Tasks
           /\ Spawned(h, n).host = h /\ Spawned(h, n).attempt = n
           /\ Spawned(h, n).panes = Waiting(h)
           /\ \A p \in Waiting(h) :
                 p \in Panes /\ status[p] = "Reconnecting" /\ hostOf[p] = h /\ ~quit[p]
<1>1. h \in Nat
  BY DEF HostIx, PaneInv, HostList
<1>2. Waiting(h) \in SUBSET Panes
  BY DEF Waiting
<1> QED
  BY <1>1, <1>2 DEF Spawned, Waiting, Tasks, Answers, PaneInv, LeftAreShownSo

\* A redial ends and nothing else changes.
LEMMA RedialForgotten ==
    ASSUME PaneInv, NEW t \in redials, redials' = redials \ {t},
           reconnecting' = NoLongerInFlight(t.host),
           UNCHANGED <<paneVars, hosts, opens, rehosts>>
    PROVE  PaneInv'
<1> USE DEF PaneInv, paneVars
<1>1. OneRedialPerHost'
  BY RedialEnds
<1>2. RedialPanes'
  BY DEF RedialPanes, HostIx
<1>3. ExitedNotRedialled'
  <2>1. ExitedNotRedialled /\ UNCHANGED <<quit, hostOf>> /\ redials' \subseteq redials
    OBVIOUS
  <2> QED
    BY <2>1 DEF ExitedNotRedialled
<1> QED
  BY <1>1, <1>2, <1>3 DEF PaneTypes, HostList, OpensAreFirst, HostIx, HostsExist,
             MovesOfShown, LeftAreShownSo

\* The links of the channels on their way change, and nothing else of them.
LEMMA OpensRelinked ==
    ASSUME OpensAreFirst, NEW f \in [opens -> Links],
           opens' = {[o EXCEPT !.link = f[o]] : o \in opens}
    PROVE  /\ opens' \subseteq [pane : Panes, host : Nat, link : Links]
           /\ \A o \in opens' : \E q \in opens : o.pane = q.pane /\ o.host = q.host
           /\ \A o, q \in opens' : o.pane = q.pane => o = q
<1>1. \A o \in opens : /\ [o EXCEPT !.link = f[o]] \in [pane : Panes, host : Nat, link : Links]
                       /\ [o EXCEPT !.link = f[o]].pane = o.pane
                       /\ [o EXCEPT !.link = f[o]].host = o.host
  BY DEF OpensAreFirst
<1> QED
  BY <1>1 DEF OpensAreFirst

-----------------------------------------------------------------------------
(* The steps.                                                              *)

LEMMA LinkDiesKeeps ==
    ASSUME PaneInv, NEW h \in HostIx, LinkDies(h)
    PROVE  PaneInv'
<1> USE DEF PaneInv, paneVars, LinkDies
<1>0. HostList' /\ HostIx' = HostIx
  BY HostChanged DEF HostIx
<1>1. PaneTypes'
  BY DEF PaneTypes, Shown
<1>2. HostList'
  BY <1>0
<1>3. RedialPanes'
  BY DEF RedialPanes, Tasks, Answers, HostIx, PaneTypes
<1>4. OpensAreFirst'
  <2> DEFINE f == [o \in opens |-> LosesLink(h, o.host, o.link)]
  <2>1. f \in [opens -> Links]
    BY DEF OpensAreFirst, LosesLink, Links
  <2>2. opens' = {[o EXCEPT !.link = f[o]] : o \in opens}
    OBVIOUS
  <2>3. status' = status
    OBVIOUS
  <2> HIDE DEF f, LinkDies
  <2> QED
    BY <1>0, <2>1, <2>2, <2>3, OpensRelinked DEF OpensAreFirst
<1>5. MovesOfShown'
  BY DEF MovesOfShown, Rehost, Answers, PaneTypes, Shown
<1>6. HostsExist'
  BY DEF HostsExist, HostIx, PaneTypes
<1>7. LeftAreShownSo'
  BY DEF LeftAreShownSo, PaneTypes
<1>8. OneRedialPerHost'
  BY DEF OneRedialPerHost
<1>9. ExitedNotRedialled'
  BY DEF ExitedNotRedialled, RedialPanes, Tasks, PaneTypes
<1> QED
  BY <1>1, <1>2, <1>3, <1>4, <1>5, <1>6, <1>7, <1>8, <1>9

LEMMA OldLinkDiesKeeps ==
    ASSUME PaneInv, NEW p \in Panes, OldLinkDies(p)
    PROVE  PaneInv'
<1> USE DEF PaneInv, paneVars, OldLinkDies
<1>1. PaneTypes'
  BY DEF PaneTypes, Shown
<1>2. HostList'
  BY DEF HostList
<1>3. RedialPanes'
  BY DEF RedialPanes, Tasks, Answers, HostIx, PaneTypes
<1>4. OpensAreFirst'
  BY DEF OpensAreFirst, Links, HostIx, PaneTypes
<1>5. MovesOfShown'
  BY DEF MovesOfShown, Rehost, Answers, PaneTypes, Shown
<1>6. HostsExist'
  BY DEF HostsExist, HostIx, PaneTypes
<1>7. LeftAreShownSo'
  BY DEF LeftAreShownSo, PaneTypes
<1>8. OneRedialPerHost'
  BY DEF OneRedialPerHost
<1>9. ExitedNotRedialled'
  BY DEF ExitedNotRedialled, RedialPanes, Tasks, PaneTypes
<1> QED
  BY <1>1, <1>2, <1>3, <1>4, <1>5, <1>6, <1>7, <1>8, <1>9

LEMMA ShellExitsKeeps ==
    ASSUME PaneInv, NEW p \in Panes, ShellExits(p)
    PROVE  PaneInv'
<1> USE DEF PaneInv, paneVars, ShellExits
<1>1. PaneTypes'
  BY DEF PaneTypes, Shown
<1>2. HostList'
  BY DEF HostList
<1>3. RedialPanes'
  BY DEF RedialPanes, Tasks, Answers, HostIx, PaneTypes
<1>4. OpensAreFirst'
  BY DEF OpensAreFirst, Links, HostIx, PaneTypes
<1>5. MovesOfShown'
  BY DEF MovesOfShown, Rehost, Answers, PaneTypes, Shown
<1>6. HostsExist'
  BY DEF HostsExist, HostIx, PaneTypes
<1>7. LeftAreShownSo'
  BY DEF LeftAreShownSo, PaneTypes
<1>8. OneRedialPerHost'
  BY DEF OneRedialPerHost
<1>9. ExitedNotRedialled'
  BY DEF ExitedNotRedialled, RedialPanes, Tasks, PaneTypes
<1> QED
  BY <1>1, <1>2, <1>3, <1>4, <1>5, <1>6, <1>7, <1>8, <1>9

LEMMA AnswerGoesStaleKeeps ==
    ASSUME PaneInv, NEW t \in redials, AnswerGoesStale(t)
    PROVE  PaneInv'
<1> USE DEF PaneInv, paneVars, AnswerGoesStale
<1>0. RedialPanes' /\ OneRedialPerHost' /\ ExitedNotRedialled'
  <2> DEFINE u == [t EXCEPT !.up = FALSE]
  <2>1. Same(t, u)
    BY DEF Same, RedialPanes, Tasks
  <2> QED
    BY <2>1, RedialGoesOn
<1>1. PaneTypes'
  BY DEF PaneTypes, Shown
<1>2. HostList'
  BY DEF HostList
<1>3. RedialPanes'
  BY <1>0
<1>4. OpensAreFirst'
  BY DEF OpensAreFirst, Links, HostIx, PaneTypes
<1>5. MovesOfShown'
  BY DEF MovesOfShown, Rehost, Answers, PaneTypes, Shown
<1>6. HostsExist'
  BY DEF HostsExist, HostIx, PaneTypes
<1>7. LeftAreShownSo'
  BY DEF LeftAreShownSo, PaneTypes
<1>8. OneRedialPerHost'
  BY <1>0
<1>9. ExitedNotRedialled'
  BY <1>0
<1> QED
  BY <1>1, <1>2, <1>3, <1>4, <1>5, <1>6, <1>7, <1>8, <1>9

LEMMA SplitKeeps ==
    ASSUME PaneInv, NEW f \in Panes, NEW p \in Panes, Split(f, p)
    PROVE  PaneInv'
<1> USE DEF PaneInv, paneVars, Split
<1>1. PaneTypes'
  BY DEF PaneTypes, Shown
<1>2. HostList'
  BY DEF HostList
<1>3. RedialPanes'
  BY DEF RedialPanes, Tasks, Answers, HostIx, PaneTypes
<1>4. OpensAreFirst'
  <2>1. CASE status[f] = "opening"
    BY <2>1 DEF OpensAreFirst, HostIx, PaneTypes
  <2>2. CASE status[f] # "opening"
    <3>1. hostOf[f] \in HostIx /\ hostOf[f] \in Nat
      BY DEF HostsExist, PaneTypes
    <3> DEFINE o == [pane |-> p, host |-> hostOf[f],
                     link |-> IF hosts[hostOf[f]].up THEN "current" ELSE "dead"]
    <3>2. /\ opens' = opens \union {o}
          /\ o \in [pane : Panes, host : Nat, link : Links]
          /\ o.pane = p /\ o.host = hostOf[f]
      BY <2>2, <3>1 DEF Links
    <3> HIDE DEF o
    <3>3. status' = [status EXCEPT ![p] = "opening"] /\ HostIx' = HostIx
      BY <2>2 DEF HostIx
    <3> QED
      BY <3>1, <3>2, <3>3 DEF OpensAreFirst, PaneTypes
  <2> QED
    BY <2>1, <2>2
<1>5. MovesOfShown'
  BY DEF MovesOfShown, Rehost, Answers, PaneTypes, Shown
<1>6. HostsExist'
  BY DEF HostsExist, HostIx, PaneTypes
<1>7. LeftAreShownSo'
  BY DEF LeftAreShownSo, PaneTypes
<1>8. OneRedialPerHost'
  BY DEF OneRedialPerHost
<1>9. ExitedNotRedialled'
  BY DEF ExitedNotRedialled, RedialPanes, Tasks, PaneTypes
<1> QED
  BY <1>1, <1>2, <1>3, <1>4, <1>5, <1>6, <1>7, <1>8, <1>9

LEMMA ClosePaneKeeps ==
    ASSUME PaneInv, NEW p \in Panes, ClosePane(p)
    PROVE  PaneInv'
<1> USE DEF PaneInv, paneVars, ClosePane
<1>1. PaneTypes'
  BY DEF PaneTypes, Shown
<1>2. HostList'
  BY DEF HostList
<1>3. RedialPanes'
  BY DEF RedialPanes, Tasks, Answers, HostIx, PaneTypes
<1>4. OpensAreFirst'
  BY DEF OpensAreFirst, Links, HostIx, PaneTypes
<1>5. MovesOfShown'
  BY DEF MovesOfShown, Rehost, Answers, PaneTypes, Shown
<1>6. HostsExist'
  BY DEF HostsExist, HostIx, PaneTypes
<1>7. LeftAreShownSo'
  BY DEF LeftAreShownSo, PaneTypes
<1>8. OneRedialPerHost'
  BY DEF OneRedialPerHost
<1>9. ExitedNotRedialled'
  BY DEF ExitedNotRedialled, RedialPanes, Tasks, PaneTypes
<1> QED
  BY <1>1, <1>2, <1>3, <1>4, <1>5, <1>6, <1>7, <1>8, <1>9

LEMMA PickRehostKeeps ==
    ASSUME PaneInv, NEW p \in Panes, NEW m \in Machines, PickRehost(p, m)
    PROVE  PaneInv'
<1> USE DEF PaneInv, paneVars, PickRehost
<1>1. PaneTypes'
  BY DEF PaneTypes, Shown
<1>2. HostList'
  BY DEF HostList
<1>3. RedialPanes'
  BY DEF RedialPanes, Tasks, Answers, HostIx, PaneTypes
<1>4. OpensAreFirst'
  BY DEF OpensAreFirst, Links, HostIx, PaneTypes
<1>5. MovesOfShown'
  <2> DEFINE r == [pane |-> p, machine |-> m, answer |-> "none", up |-> TRUE]
  <2>1. /\ rehosts' = rehosts \union {r} /\ status' = status
        /\ status[p] \notin {"unborn", "opening"}
    BY DEF Shown
  <2>2. r \in Rehost /\ r.pane = p
    BY DEF Rehost, Answers
  <2> HIDE DEF r, PickRehost
  <2> QED
    BY <2>1, <2>2 DEF MovesOfShown
<1>6. HostsExist'
  BY DEF HostsExist, HostIx, PaneTypes
<1>7. LeftAreShownSo'
  BY DEF LeftAreShownSo, PaneTypes
<1>8. OneRedialPerHost'
  BY DEF OneRedialPerHost
<1>9. ExitedNotRedialled'
  BY DEF ExitedNotRedialled, RedialPanes, Tasks, PaneTypes
<1> QED
  BY <1>1, <1>2, <1>3, <1>4, <1>5, <1>6, <1>7, <1>8, <1>9

LEMMA PumpKeeps ==
    ASSUME PaneInv, NEW p \in Panes, Pump(p)
    PROVE  PaneInv'
<1> USE DEF PaneInv, paneVars, Pump
<1> DEFINE verdict == RxClosedAction(p)
<1>0. /\ verdict \in {"Disconnected", "Reconnecting"}
      /\ status[p] = "Live" /\ status' = [status EXCEPT ![p] = verdict]
      /\ quit' = [quit EXCEPT ![p] = exited[p] /\ verdict = "Disconnected"]
      /\ \A q \in Panes \ {p} : quit'[q] = quit[q]
  BY DEF RxClosedAction, PaneTypes
<1>a. quit' \in [Panes -> BOOLEAN] /\ (quit'[p] => verdict = "Disconnected")
  BY <1>0, Zenon DEF PaneTypes
<1> HIDE DEF verdict
<1>1. PaneTypes'
  BY <1>0, <1>a DEF PaneTypes, Shown
<1>2. HostList'
  BY <1>0, <1>a DEF HostList
<1>3. RedialPanes'
  BY <1>0, <1>a DEF RedialPanes, Tasks, Answers, HostIx, PaneTypes
<1>4. OpensAreFirst'
  BY <1>0, <1>a DEF OpensAreFirst, Links, HostIx, PaneTypes
<1>5. MovesOfShown'
  BY <1>0, <1>a DEF MovesOfShown, Rehost, Answers, PaneTypes, Shown
<1>6. HostsExist'
  BY <1>0, <1>a DEF HostsExist, HostIx, PaneTypes
<1>7. LeftAreShownSo'
  BY <1>0, <1>a DEF LeftAreShownSo, PaneTypes
<1>8. OneRedialPerHost'
  BY <1>0, <1>a DEF OneRedialPerHost
<1>9. ExitedNotRedialled'
  BY <1>0, <1>a DEF ExitedNotRedialled, RedialPanes, Tasks, PaneTypes
<1> QED
  BY <1>1, <1>2, <1>3, <1>4, <1>5, <1>6, <1>7, <1>8, <1>9

LEMMA DriveReconnectsKeeps ==
    ASSUME PaneInv, DriveReconnects
    PROVE  PaneInv'
<1> USE DEF PaneInv, paneVars, DriveReconnects
<1>1. PaneTypes'
  BY DEF PaneTypes, Shown
<1>2. HostList'
  BY DEF HostList
<1>3. RedialPanes'
  <2>1. \A x \in redials' : x \in redials \/ \E h \in HostIx : x = Spawned(h, 0)
    BY DEF HostsToRedial
  <2> HIDE DEF DriveReconnects
  <2>2. UNCHANGED <<status, hostOf, hosts>>
    BY DEF DriveReconnects
  <2> QED
    BY <2>1, <2>2, SpawnedRedial DEF RedialPanes, HostIx
<1>4. OpensAreFirst'
  BY DEF OpensAreFirst, Links, HostIx, PaneTypes
<1>5. MovesOfShown'
  BY DEF MovesOfShown, Rehost, Answers, PaneTypes, Shown
<1>6. HostsExist'
  BY DEF HostsExist, HostIx, PaneTypes
<1>7. LeftAreShownSo'
  BY DEF LeftAreShownSo, PaneTypes
<1>8. OneRedialPerHost'
  <2>1. \A h \in HostsToRedial : h \in HostIx /\ Spawned(h, 0).host = h
                                   /\ Spawned(h, 0).attempt = 0
    BY SpawnedRedial DEF HostsToRedial
  <2>2. \A h \in HostsToRedial : \A t \in redials : t.host # h
    <3>1. \A t \in redials : <<t.host, t.attempt>> \in reconnecting
      BY DEF OneRedialPerHost
    <3>2. \A x \in reconnecting : x[1] \in InFlight
      BY DEF InFlight
    <3>3. \A t \in redials : t.host \in InFlight
      BY <3>1, <3>2
    <3> QED
      BY <3>3 DEF HostsToRedial
  <2>3. \A t, u \in redials' : t.host = u.host => t = u
    BY <2>1, <2>2 DEF OneRedialPerHost
  <2>4. reconnecting' = {<<t.host, t.attempt>> : t \in redials'}
    BY <2>1 DEF OneRedialPerHost
  <2> QED
    BY <2>3, <2>4 DEF OneRedialPerHost
<1>9. ExitedNotRedialled'
  <2>1. \A x \in redials' : x \in redials \/ \E h \in HostIx : x = Spawned(h, 0)
    BY DEF HostsToRedial
  <2> HIDE DEF DriveReconnects
  <2>2. UNCHANGED <<quit, hostOf>>
    BY DEF DriveReconnects
  <2> QED
    BY <2>1, <2>2, SpawnedRedial DEF ExitedNotRedialled
<1> QED
  BY <1>1, <1>2, <1>3, <1>4, <1>5, <1>6, <1>7, <1>8, <1>9

LEMMA RedialAnswersKeeps ==
    ASSUME PaneInv, NEW t \in redials, RedialAnswers(t)
    PROVE  PaneInv'
<1> USE DEF PaneInv, paneVars, RedialAnswers
<1>0. RedialPanes' /\ OneRedialPerHost' /\ ExitedNotRedialled'
  <2>1. PICK a \in {"ok", "err"} :
           redials' = (redials \ {t}) \union {[t EXCEPT !.answer = a]}
    OBVIOUS
  <2>2. Same(t, [t EXCEPT !.answer = a])
    BY DEF Same, RedialPanes, Tasks, Answers
  <2> QED
    BY <2>1, <2>2, RedialGoesOn
<1>1. PaneTypes'
  BY DEF PaneTypes, Shown
<1>2. HostList'
  BY DEF HostList
<1>3. RedialPanes'
  BY <1>0
<1>4. OpensAreFirst'
  BY DEF OpensAreFirst, Links, HostIx, PaneTypes
<1>5. MovesOfShown'
  BY DEF MovesOfShown, Rehost, Answers, PaneTypes, Shown
<1>6. HostsExist'
  BY DEF HostsExist, HostIx, PaneTypes
<1>7. LeftAreShownSo'
  BY DEF LeftAreShownSo, PaneTypes
<1>8. OneRedialPerHost'
  BY <1>0
<1>9. ExitedNotRedialled'
  BY <1>0
<1> QED
  BY <1>1, <1>2, <1>3, <1>4, <1>5, <1>6, <1>7, <1>8, <1>9

LEMMA OnPaneReconnectedKeeps ==
    ASSUME PaneInv, NEW t \in redials, OnPaneReconnected(t)
    PROVE  PaneInv'
<1> DEFINE done == Reattached(t)
           strays == Strays(t.host, done)
<1> USE DEF PaneInv
<1>1. /\ redials' = redials \ {t} /\ reconnecting' = NoLongerInFlight(t.host)
      /\ t.host \in HostIx /\ t.host \in Nat
  BY DEF OnPaneReconnected, RedialPanes, Tasks
<1>2. CASE done = {}
  BY <1>1, <1>2, RedialForgotten DEF OnPaneReconnected
<1>3. CASE done # {}
  <2>1. /\ status' = [p \in Panes |-> CASE p \in done -> "Live"
                                        [] p \in strays -> "Reconnecting"
                                        [] OTHER -> status[p]]
        /\ hostOf' = [p \in Panes |-> IF p \in done THEN t.host ELSE hostOf[p]]
        /\ exited' = [p \in Panes |-> p \notin done /\ exited[p]]
        /\ quit' = [p \in Panes |-> p \notin done /\ quit[p]]
        /\ hosts' = [hosts EXCEPT ![t.host] = [cfg |-> hosts[t.host].cfg,
                                               at |-> hosts[t.host].cfg,
                                               up |-> t.up]]
        /\ opens' = {[o EXCEPT !.link = Outlived(t.host, o.host, o.link)] : o \in opens}
    BY <1>3 DEF OnPaneReconnected
  <2>2. /\ done \subseteq Panes /\ done \subseteq t.panes
        /\ \A p \in done : status[p] \in Shown
        /\ \A p \in strays : p \in Panes \ done /\ status[p] = "Live"
    BY DEF Reattached, Strays, RedialPanes, Tasks
  <2> HIDE DEF done, strays
  <2>3. HostList' /\ HostIx' = HostIx
    BY <1>1, <2>1, HostChanged
  <2>4. /\ \A p \in Panes : status'[p] # status[p] => p \in done \/ p \in strays
        /\ \A p \in done : status'[p] = "Live" /\ hostOf'[p] = t.host /\ ~quit'[p]
        /\ \A p \in strays : status'[p] = "Reconnecting"
        /\ \A p \in Panes \ done : hostOf'[p] = hostOf[p] /\ (quit'[p] => quit[p])
    BY <2>1, <2>2
  <2>5. PaneTypes'
    BY <1>1, <2>1, <2>2 DEF OnPaneReconnected, PaneTypes, Shown
  <2>12. MovesOfShown'
    <3>1. \A r \in rehosts : r.pane \in Panes
      BY DEF MovesOfShown, Rehost
    <3>2. rehosts' = rehosts
      BY DEF OnPaneReconnected
    <3> QED
      BY <2>4, <3>1, <3>2 DEF MovesOfShown
  <2>6. RedialPanes'
    <3>1. \A u \in redials' : u \in redials /\ u.host # t.host
      BY <1>1 DEF OneRedialPerHost
    <3> QED
      BY <2>2, <2>3, <2>4, <3>1 DEF RedialPanes, Tasks, Shown
  <2>7. OpensAreFirst'
    <3> DEFINE f == [o \in opens |-> Outlived(t.host, o.host, o.link)]
    <3>1. f \in [opens -> Links]
      BY DEF OpensAreFirst, Outlived, Links
    <3>2. opens' = {[o EXCEPT !.link = f[o]] : o \in opens}
      BY <2>1
    <3>3. \A o \in opens : o.pane \in Panes /\ status'[o.pane] = status[o.pane]
      BY <2>2, <2>4 DEF OpensAreFirst, Shown
    <3> HIDE DEF f
    <3> QED
      BY <2>3, <3>1, <3>2, <3>3, OpensRelinked DEF OpensAreFirst
  <2>8. HostsExist'
    BY <1>1, <2>3, <2>4 DEF HostsExist
  <2>9. LeftAreShownSo'
    BY <2>2, <2>4 DEF LeftAreShownSo
  <2>10. OneRedialPerHost'
    BY <1>1, RedialEnds
  <2>11. ExitedNotRedialled'
    BY <1>1, <2>4 DEF ExitedNotRedialled, RedialPanes, Tasks
  <2> QED
    BY <2>3, <2>5, <2>6, <2>7, <2>8, <2>9, <2>10, <2>11, <2>12
<1> QED
  BY <1>2, <1>3

LEMMA OnPaneReconnectErrKeeps ==
    ASSUME PaneInv, NEW t \in redials, OnPaneReconnectErr(t)
    PROVE  PaneInv'
<1> DEFINE h == t.host
           next == t.attempt + 1
           u == Spawned(h, next)
<1> USE DEF PaneInv, paneVars
<1>1. /\ h \in HostIx /\ h \in Nat /\ next \in Nat
      /\ UNCHANGED <<hostOf, exited, quit, hosts, opens, rehosts>>
  BY DEF OnPaneReconnectErr, RedialPanes, Tasks
<1>2. CASE HasDelay(next) /\ Waiting(h) # {}
  <2>1. /\ redials' = (redials \ {t}) \union {u}
        /\ reconnecting' = NoLongerInFlight(h) \union {<<h, next>>}
        /\ status' = status
    BY <1>2 DEF OnPaneReconnectErr
  <2>2. /\ u \in Tasks /\ u.host = h /\ u.attempt = next /\ u.panes = Waiting(h)
        /\ \A p \in Waiting(h) : /\ p \in Panes /\ status[p] = "Reconnecting"
                                 /\ hostOf[p] = h /\ ~quit[p]
    BY <1>1, SpawnedRedial
  <2> HIDE DEF u, h, next
  <2>3. RedialPanes'
    BY <1>1, <2>1, <2>2 DEF RedialPanes, HostIx
  <2>4. OneRedialPerHost'
    <3>1. \A x \in redials : x.host = h <=> x = t
      BY DEF OneRedialPerHost, h
    <3>2. \A x, y \in redials' : x.host = y.host => x = y
      BY <2>1, <2>2, <3>1 DEF OneRedialPerHost
    <3>3. NoLongerInFlight(h) = {<<x.host, x.attempt>> : x \in redials \ {t}}
      BY <3>1 DEF OneRedialPerHost, NoLongerInFlight
    <3> QED
      BY <2>1, <2>2, <3>2, <3>3 DEF OneRedialPerHost
  <2>5. ExitedNotRedialled'
    BY <1>1, <2>1, <2>2 DEF ExitedNotRedialled
  <2> QED
    BY <1>1, <2>1, <2>3, <2>4, <2>5
       DEF PaneTypes, HostList, OpensAreFirst, HostIx, MovesOfShown, HostsExist,
           LeftAreShownSo
<1>3. CASE HasDelay(next) /\ Waiting(h) = {}
  BY <1>1, <1>3, RedialForgotten DEF OnPaneReconnectErr
<1>4. CASE ~HasDelay(next)
  <2>1. /\ redials' = redials \ {t} /\ reconnecting' = NoLongerInFlight(h)
        /\ status' = [p \in Panes |-> IF status[p] \in Shown /\ hostOf[p] = h
                                      THEN "Disconnected" ELSE status[p]]
    BY <1>4 DEF OnPaneReconnectErr
  <2> HIDE DEF h
  <2>2. \A p \in Panes : \/ status'[p] = status[p]
                         \/ status[p] \in Shown /\ status'[p] = "Disconnected"
    BY <2>1
  <2>3. PaneTypes' /\ HostList' /\ HostsExist' /\ LeftAreShownSo'
    BY <1>1, <2>1, <2>2
       DEF PaneTypes, Shown, HostList, HostIx, HostsExist,
           LeftAreShownSo
  <2>8. MovesOfShown'
    <3>1. \A r \in rehosts : r.pane \in Panes
      BY DEF MovesOfShown, Rehost
    <3> QED
      BY <1>1, <2>2, <3>1 DEF MovesOfShown
  <2>4. RedialPanes'
    BY <1>1, <2>1, <2>2 DEF RedialPanes, Tasks, HostIx, Shown
  <2>5. OpensAreFirst'
    BY <1>1, <2>2 DEF OpensAreFirst, HostIx, Shown
  <2>6. OneRedialPerHost'
    BY <2>1, RedialEnds DEF h
  <2>7. ExitedNotRedialled'
    BY <1>1, <2>1 DEF ExitedNotRedialled
  <2> QED
    BY <2>3, <2>4, <2>5, <2>6, <2>7, <2>8
<1> QED
  BY <1>2, <1>3, <1>4

LEMMA OnPaneOpenedKeeps ==
    ASSUME PaneInv, NEW o \in opens, OnPaneOpened(o)
    PROVE  PaneInv'
<1> USE DEF PaneInv, paneVars, OnPaneOpened
<1>a. /\ o.pane \in Panes /\ o.host \in HostIx /\ o.host \in Nat
      /\ status[o.pane] \in {"opening", "closed"} /\ HostIx' = HostIx
      /\ opens' \subseteq opens /\ \A q \in opens' : q.pane # o.pane
  BY DEF OpensAreFirst, HostIx
<1>b. \/ UNCHANGED <<status, hostOf>>
      \/ /\ status' = [status EXCEPT ![o.pane] = "Live"]
         /\ hostOf' = [hostOf EXCEPT ![o.pane] = o.host]
         /\ status[o.pane] = "opening"
  BY <1>a DEF PaneStillWanted, InTree, Shown
<1>c. \A t \in redials : o.pane \in t.panes => status[o.pane] = "closed"
  BY <1>a DEF RedialPanes
<1>d. UNCHANGED <<exited, quit, hosts, reconnecting, redials, rehosts>>
  OBVIOUS
<1> HIDE DEF OnPaneOpened
<1>1. PaneTypes'
  BY <1>a, <1>b, <1>c, <1>d DEF PaneTypes, Shown
<1>2. HostList'
  BY <1>a, <1>b, <1>c, <1>d DEF HostList
<1>3. RedialPanes'
  BY <1>a, <1>b, <1>c, <1>d DEF RedialPanes, Tasks, Answers, HostIx, PaneTypes
<1>4. OpensAreFirst'
  BY <1>a, <1>b, <1>c, <1>d DEF OpensAreFirst, Links, HostIx, PaneTypes
<1>5. MovesOfShown'
  BY <1>a, <1>b, <1>c, <1>d DEF MovesOfShown, Rehost, Answers, PaneTypes, Shown
<1>6. HostsExist'
  BY <1>a, <1>b, <1>c, <1>d DEF HostsExist, HostIx, PaneTypes
<1>7. LeftAreShownSo'
  BY <1>a, <1>b, <1>c, <1>d DEF LeftAreShownSo, PaneTypes
<1>8. OneRedialPerHost'
  BY <1>a, <1>b, <1>c, <1>d DEF OneRedialPerHost
<1>9. ExitedNotRedialled'
  BY <1>a, <1>b, <1>c, <1>d DEF ExitedNotRedialled, RedialPanes, Tasks, PaneTypes
<1> QED
  BY <1>1, <1>2, <1>3, <1>4, <1>5, <1>6, <1>7, <1>8, <1>9

LEMMA OnPaneOpenErrKeeps ==
    ASSUME PaneInv, NEW o \in opens, OnPaneOpenErr(o)
    PROVE  PaneInv'
<1> USE DEF PaneInv, paneVars, OnPaneOpenErr
<1>1. PaneTypes'
  BY DEF PaneTypes, Shown
<1>2. HostList'
  BY DEF HostList
<1>3. RedialPanes'
  BY DEF RedialPanes, Tasks, Answers, HostIx, PaneTypes
<1>4. OpensAreFirst'
  BY DEF OpensAreFirst, Links, HostIx, PaneTypes
<1>5. MovesOfShown'
  BY DEF MovesOfShown, Rehost, Answers, PaneTypes, Shown
<1>6. HostsExist'
  BY DEF HostsExist, HostIx, PaneTypes
<1>7. LeftAreShownSo'
  BY DEF LeftAreShownSo, PaneTypes
<1>8. OneRedialPerHost'
  BY DEF OneRedialPerHost
<1>9. ExitedNotRedialled'
  BY DEF ExitedNotRedialled, RedialPanes, Tasks, PaneTypes
<1> QED
  BY <1>1, <1>2, <1>3, <1>4, <1>5, <1>6, <1>7, <1>8, <1>9

LEMMA RehostAnswersKeeps ==
    ASSUME PaneInv, NEW r \in rehosts, RehostAnswers(r)
    PROVE  PaneInv'
<1> USE DEF PaneInv, paneVars, RehostAnswers
<1>1. PaneTypes'
  BY DEF PaneTypes, Shown
<1>2. HostList'
  BY DEF HostList
<1>3. RedialPanes'
  BY DEF RedialPanes, Tasks, Answers, HostIx, PaneTypes
<1>4. OpensAreFirst'
  BY DEF OpensAreFirst, Links, HostIx, PaneTypes
<1>5. MovesOfShown'
  BY DEF MovesOfShown, Rehost, Answers, PaneTypes, Shown
<1>6. HostsExist'
  BY DEF HostsExist, HostIx, PaneTypes
<1>7. LeftAreShownSo'
  BY DEF LeftAreShownSo, PaneTypes
<1>8. OneRedialPerHost'
  BY DEF OneRedialPerHost
<1>9. ExitedNotRedialled'
  BY DEF ExitedNotRedialled, RedialPanes, Tasks, PaneTypes
<1> QED
  BY <1>1, <1>2, <1>3, <1>4, <1>5, <1>6, <1>7, <1>8, <1>9

LEMMA OnPaneRehostedKeeps ==
    ASSUME PaneInv, NEW r \in rehosts, OnPaneRehosted(r)
    PROVE  PaneInv'
<1> DEFINE p == r.pane
           n == Len(hosts) + 1
<1> USE DEF PaneInv, paneVars
<1>1. /\ p \in Panes /\ rehosts' \subseteq rehosts
      /\ status[p] \notin {"unborn", "opening"}
      /\ UNCHANGED <<reconnecting, redials, opens>>
  BY DEF OnPaneRehosted, MovesOfShown, Rehost
<1>2. CASE RecordsOf(p) = {} \/ ~InTree(p)
  <2>1. UNCHANGED <<paneVars, hosts>>
    BY <1>2 DEF OnPaneRehosted
  <2> QED
    BY <1>1, <2>1
       DEF PaneTypes, HostList, RedialPanes, HostIx, OpensAreFirst, MovesOfShown,
           HostsExist, LeftAreShownSo, OneRedialPerHost, ExitedNotRedialled
<1>3. CASE RecordsOf(p) # {} /\ InTree(p)
  <2>1. PICK x : hosts' = Append(hosts, x)
    BY <1>3 DEF OnPaneRehosted
  <2>2. /\ hostOf' = [hostOf EXCEPT ![p] = n]
        /\ status' = [status EXCEPT ![p] = "Live"]
        /\ exited' = [exited EXCEPT ![p] = FALSE]
        /\ quit' = [quit EXCEPT ![p] = FALSE]
    BY <1>3 DEF OnPaneRehosted
  <2>3. HostList' /\ n \notin HostIx /\ HostIx' = HostIx \union {n} /\ n \in Nat
    BY <2>1, HostAdded DEF HostList
  <2>4. \A o \in opens : o.pane # p
    BY <1>1, <1>3 DEF OpensAreFirst, InTree, Shown
  <2> HIDE DEF n, p
  <2>5. PaneTypes' /\ MovesOfShown' /\ HostsExist' /\ LeftAreShownSo'
    BY <1>1, <2>2, <2>3
       DEF PaneTypes, Shown, MovesOfShown, HostsExist, LeftAreShownSo
  <2>6. RedialPanes'
    BY <1>1, <2>2, <2>3 DEF RedialPanes, Tasks, PaneTypes
  <2>7. OpensAreFirst'
    BY <1>1, <1>3, <2>2, <2>3, <2>4 DEF OpensAreFirst, PaneTypes
  <2>8. OneRedialPerHost' /\ ExitedNotRedialled'
    BY <1>1, <2>2, <2>3
       DEF OneRedialPerHost, ExitedNotRedialled, RedialPanes, Tasks, PaneTypes
  <2> QED
    BY <2>3, <2>5, <2>6, <2>7, <2>8
<1> QED
  BY <1>2, <1>3

LEMMA OnPaneRehostErrKeeps ==
    ASSUME PaneInv, NEW r \in rehosts, OnPaneRehostErr(r)
    PROVE  PaneInv'
<1> USE DEF PaneInv, paneVars, OnPaneRehostErr
<1>1. PaneTypes'
  BY DEF PaneTypes, Shown
<1>2. HostList'
  BY DEF HostList
<1>3. RedialPanes'
  BY DEF RedialPanes, Tasks, Answers, HostIx, PaneTypes
<1>4. OpensAreFirst'
  <2>1. status[r.pane] \notin {"unborn", "opening"} /\ r.pane \in Panes
    BY DEF MovesOfShown, Rehost
  <2>2. \A o \in opens : status'[o.pane] = status[o.pane]
    BY <2>1 DEF OpensAreFirst, InTree, Shown, PaneTypes
  <2> QED
    BY <2>2 DEF OpensAreFirst, HostIx
<1>5. MovesOfShown'
  BY DEF MovesOfShown, Rehost, Answers, PaneTypes, Shown
<1>6. HostsExist'
  BY DEF HostsExist, HostIx, PaneTypes
<1>7. LeftAreShownSo'
  BY DEF LeftAreShownSo, PaneTypes
<1>8. OneRedialPerHost'
  BY DEF OneRedialPerHost
<1>9. ExitedNotRedialled'
  BY DEF ExitedNotRedialled, RedialPanes, Tasks, PaneTypes
<1> QED
  BY <1>1, <1>2, <1>3, <1>4, <1>5, <1>6, <1>7, <1>8, <1>9

LEMMA PaneInvIsKept == PaneInv /\ [Next]_vars => PaneInv'
<1> SUFFICES ASSUME PaneInv, [Next]_vars PROVE PaneInv'
  OBVIOUS
<1>1. ASSUME NEW h \in HostIx, LinkDies(h) PROVE PaneInv'
  BY <1>1, LinkDiesKeeps
<1>2. ASSUME NEW p \in Panes, OldLinkDies(p) PROVE PaneInv'
  BY <1>2, OldLinkDiesKeeps
<1>3. ASSUME NEW p \in Panes, ShellExits(p) PROVE PaneInv'
  BY <1>3, ShellExitsKeeps
<1>4. ASSUME NEW t \in redials, AnswerGoesStale(t) PROVE PaneInv'
  BY <1>4, AnswerGoesStaleKeeps
<1>5. ASSUME NEW f \in Panes, NEW p \in Panes, Split(f, p) PROVE PaneInv'
  BY <1>5, SplitKeeps
<1>6. ASSUME NEW p \in Panes, ClosePane(p) PROVE PaneInv'
  BY <1>6, ClosePaneKeeps
<1>7. ASSUME NEW p \in Panes, NEW m \in Machines, PickRehost(p, m) PROVE PaneInv'
  BY <1>7, PickRehostKeeps
<1>8. ASSUME NEW p \in Panes, Pump(p) PROVE PaneInv'
  BY <1>8, PumpKeeps
<1>9. ASSUME DriveReconnects PROVE PaneInv'
  BY <1>9, DriveReconnectsKeeps
<1>10. ASSUME NEW t \in redials, RedialAnswers(t) PROVE PaneInv'
  BY <1>10, RedialAnswersKeeps
<1>11. ASSUME NEW t \in redials, OnPaneReconnected(t) PROVE PaneInv'
  BY <1>11, OnPaneReconnectedKeeps
<1>12. ASSUME NEW t \in redials, OnPaneReconnectErr(t) PROVE PaneInv'
  BY <1>12, OnPaneReconnectErrKeeps
<1>13. ASSUME NEW o \in opens, OnPaneOpened(o) PROVE PaneInv'
  BY <1>13, OnPaneOpenedKeeps
<1>14. ASSUME NEW o \in opens, OnPaneOpenErr(o) PROVE PaneInv'
  BY <1>14, OnPaneOpenErrKeeps
<1>15. ASSUME NEW r \in rehosts, RehostAnswers(r) PROVE PaneInv'
  BY <1>15, RehostAnswersKeeps
<1>16. ASSUME NEW r \in rehosts, OnPaneRehosted(r) PROVE PaneInv'
  BY <1>16, OnPaneRehostedKeeps
<1>17. ASSUME NEW r \in rehosts, OnPaneRehostErr(r) PROVE PaneInv'
  BY <1>17, OnPaneRehostErrKeeps
<1>18. CASE UNCHANGED vars
  BY <1>18
     DEF PaneInv, vars, paneVars, PaneTypes, HostList, RedialPanes, HostIx,
         OpensAreFirst, MovesOfShown, HostsExist, LeftAreShownSo,
         OneRedialPerHost, ExitedNotRedialled
<1> QED
  BY <1>1, <1>2, <1>3, <1>4, <1>5, <1>6, <1>7, <1>8, <1>9, <1>10, <1>11, <1>12,
     <1>13, <1>14, <1>15, <1>16, <1>17, <1>18
     DEF Next, Environment, User, App, RedialStep

LEMMA PaneInvInitially == Init => PaneInv
<1> SUFFICES ASSUME Init PROVE PaneInv
  OBVIOUS
<1> USE DEF Init
<1>1. HostList /\ HostIx = {1}
  <2>1. PICK x : hosts = <<x>>
    OBVIOUS
  <2>2. hosts \in Seq({x}) /\ Len(hosts) = 1
    BY <2>1
  <2>3. HostList
    BY <2>2, Zenon DEF HostList
  <2>4. HostIx = {1}
    BY <2>2 DEF HostIx
  <2> QED
    BY <2>3, <2>4
<1>2. PaneTypes
  BY DEF PaneTypes, Shown
<1>3. RedialPanes /\ OpensAreFirst /\ MovesOfShown /\ LeftAreShownSo
  BY DEF RedialPanes, OpensAreFirst, MovesOfShown, LeftAreShownSo
<1>4. HostsExist
  BY <1>1 DEF HostsExist
<1>5. OneRedialPerHost /\ ExitedNotRedialled
  BY DEF OneRedialPerHost, ExitedNotRedialled
<1> QED
  BY <1>1, <1>2, <1>3, <1>4, <1>5 DEF PaneInv

\* No step puts another leaf in the place of a closed one.
ClosedKept == \A p \in Panes : status[p] = "closed" => status'[p] = "closed"

LEMMA StepKeepsClosed == PaneInv /\ [Next]_vars => ClosedKept
<1> SUFFICES ASSUME PaneInv, [Next]_vars PROVE ClosedKept
  OBVIOUS
<1> USE DEF ClosedKept, PaneInv, PaneTypes, Shown, paneVars
<1>1. ASSUME NEW h \in HostIx, LinkDies(h) PROVE ClosedKept
  BY <1>1 DEF LinkDies
<1>2. ASSUME NEW p \in Panes, OldLinkDies(p) PROVE ClosedKept
  BY <1>2 DEF OldLinkDies
<1>3. ASSUME NEW p \in Panes, ShellExits(p) PROVE ClosedKept
  BY <1>3 DEF ShellExits
<1>4. ASSUME NEW t \in redials, AnswerGoesStale(t) PROVE ClosedKept
  BY <1>4 DEF AnswerGoesStale
<1>5. ASSUME NEW f \in Panes, NEW p \in Panes, Split(f, p) PROVE ClosedKept
  BY <1>5 DEF Split
<1>6. ASSUME NEW p \in Panes, ClosePane(p) PROVE ClosedKept
  BY <1>6 DEF ClosePane, InTree
<1>7. ASSUME NEW p \in Panes, NEW m \in Machines, PickRehost(p, m) PROVE ClosedKept
  BY <1>7 DEF PickRehost
<1>8. ASSUME NEW p \in Panes, Pump(p) PROVE ClosedKept
  BY <1>8 DEF Pump, Closed
<1>9. ASSUME DriveReconnects PROVE ClosedKept
  BY <1>9 DEF DriveReconnects
<1>10. ASSUME NEW t \in redials, RedialAnswers(t) PROVE ClosedKept
  BY <1>10 DEF RedialAnswers
<1>11. ASSUME NEW t \in redials, OnPaneReconnected(t) PROVE ClosedKept
  BY <1>11 DEF OnPaneReconnected, Reattached, Strays
<1>12. ASSUME NEW t \in redials, OnPaneReconnectErr(t) PROVE ClosedKept
  BY <1>12 DEF OnPaneReconnectErr
<1>13. ASSUME NEW o \in opens, OnPaneOpened(o) PROVE ClosedKept
  BY <1>13 DEF OnPaneOpened, PaneStillWanted, InTree
<1>14. ASSUME NEW o \in opens, OnPaneOpenErr(o) PROVE ClosedKept
  BY <1>14 DEF OnPaneOpenErr
<1>15. ASSUME NEW r \in rehosts, RehostAnswers(r) PROVE ClosedKept
  BY <1>15 DEF RehostAnswers
<1>16. ASSUME NEW r \in rehosts, OnPaneRehosted(r) PROVE ClosedKept
  BY <1>16 DEF OnPaneRehosted, InTree
<1>17. ASSUME NEW r \in rehosts, OnPaneRehostErr(r) PROVE ClosedKept
  BY <1>17 DEF OnPaneRehostErr, InTree
<1>18. CASE UNCHANGED vars
  BY <1>18 DEF vars
<1> QED
  BY <1>1, <1>2, <1>3, <1>4, <1>5, <1>6, <1>7, <1>8, <1>9, <1>10, <1>11, <1>12,
     <1>13, <1>14, <1>15, <1>16, <1>17, <1>18
     DEF Next, Environment, User, App, RedialStep

-----------------------------------------------------------------------------
(* Moves to another machine, their records and the hosts they append.      *)

Hosts == [cfg : Machines, at : Machines, up : BOOLEAN]
Record == [pane : Panes, machine : Machines]

\* Every move under way keeps room for the host it may append.
MovesFit ==
    /\ IsFiniteSet(rehosts)
    /\ Len(hosts) + Cardinality(rehosts) <= MaxHosts
    /\ Cardinality(rehosts) <= MaxRehosts

MoveInv ==
    /\ link \in [Panes -> Links]
    /\ hosts \in Seq(Hosts) /\ Len(hosts) >= 1
    /\ pending \in Seq(Record)
    /\ \A t \in redials : t.attempt <= MaxAttempts
    /\ MovesFit

\* A record is one of a move under way, and the only one of its pane.
MovesRecorded ==
    /\ \A i \in DOMAIN pending : \E r \in rehosts :
          pending[i].pane = r.pane /\ pending[i].machine = r.machine
    /\ \A i, j \in DOMAIN pending : pending[i].pane = pending[j].pane => i = j

-----------------------------------------------------------------------------
\* Taking the i-th record moves the last one to its place.
LEMMA Swapped ==
    ASSUME NEW S, NEW s \in Seq(S), NEW i \in DOMAIN s
    PROVE  /\ SwapRemove(s, i) \in Seq(S)
           /\ DOMAIN SwapRemove(s, i) = 1 .. Len(s) - 1
           /\ \A j \in 1 .. Len(s) - 1 :
                 SwapRemove(s, i)[j] = s[IF j = i THEN Len(s) ELSE j]
<1>1. Len(s) \in Nat \ {0} /\ DOMAIN s = 1 .. Len(s) /\ \A j \in 1 .. Len(s) : s[j] \in S
  OBVIOUS
<1> QED
  BY <1>1 DEF SwapRemove

\* There is a first record of a pane that has any.
LEMMA FirstRecord ==
    ASSUME pending \in Seq(Record), NEW p, RecordsOf(p) # {}
    PROVE  FirstOf(RecordsOf(p)) \in RecordsOf(p)
<1>1. RecordsOf(p) \in SUBSET Nat
  BY DEF RecordsOf
<1> DEFINE below == {xy \in Nat \X Nat : xy[1] < xy[2]}
<1>2. IsWellFoundedOn(below, Nat)
  BY NatLessThanWellFounded, Zenon DEF OpToRel
<1>3. PICK i \in RecordsOf(p) : \A j \in RecordsOf(p) : <<j, i>> \notin below
  BY <1>1, <1>2, WFMin
<1>4. \A j \in RecordsOf(p) : i <= j
  <2>1. \A j \in RecordsOf(p) : <<j, i>> \in Nat \X Nat /\ <<j, i>>[1] = j /\ <<j, i>>[2] = i
    BY <1>1
  <2>2. \A j \in RecordsOf(p) : ~(j < i)
    BY <1>3, <2>1
  <2> QED
    BY <1>1, <2>2
<1> QED
  BY <1>4 DEF FirstOf

\* The records that are left when those of pane p are dropped.
LEMMA Dropped ==
    ASSUME pending \in Seq(Record), NEW p, RecordsDropped(p)
    PROVE  /\ pending' \in Seq(Record)
           /\ \E f \in [DOMAIN pending' -> DOMAIN pending \ RecordsOf(p)] :
                 /\ \A m, n \in DOMAIN pending' : f[m] = f[n] => m = n
                 /\ \A n \in DOMAIN pending' : pending'[n] = pending[f[n]]
<1> DEFINE kept == DOMAIN pending \ RecordsOf(p)
<1>1. PICK f \in [1 .. Cardinality(kept) -> kept] :
         /\ \A m, n \in DOMAIN f : m < n => f[m] < f[n]
         /\ pending' = [n \in DOMAIN f |-> pending[f[n]]]
  BY DEF RecordsDropped
<1>2. /\ DOMAIN pending = 1 .. Len(pending) /\ Len(pending) \in Nat
      /\ \A j \in 1 .. Len(pending) : pending[j] \in Record
  OBVIOUS
<1>3. IsFiniteSet(DOMAIN pending)
  BY <1>2, FS_Interval
<1>4. Cardinality(kept) \in Nat
  BY <1>3, FS_Subset, FS_CardinalityType
<1>5. DOMAIN pending' = 1 .. Cardinality(kept) /\ DOMAIN f = 1 .. Cardinality(kept)
  BY <1>1
<1>a. \A j \in kept : j \in Nat /\ pending[j] \in Record
  BY <1>2
<1>b. \A n \in 1 .. Cardinality(kept) : f[n] \in kept
  BY <1>1
<1> HIDE DEF kept
<1>6. \A n \in DOMAIN pending' : f[n] \in kept /\ f[n] \in Nat
  BY <1>a, <1>b, <1>5
<1>c. \A n \in 1 .. Cardinality(kept) : pending'[n] \in Record
  BY <1>1, <1>a, <1>b, <1>5
<1>d. pending' = [n \in 1 .. Cardinality(kept) |-> pending'[n]]
  BY <1>1, <1>5
<1>7. pending' \in Seq(Record)
  BY <1>4, <1>c, <1>d
<1>8. \A m, n \in DOMAIN pending' : f[m] = f[n] => m = n
  <2> SUFFICES ASSUME NEW m \in DOMAIN pending', NEW n \in DOMAIN pending', f[m] = f[n]
               PROVE  m = n
    OBVIOUS
  <2>0. f[m] \in Nat /\ f[n] \in Nat
    BY <1>6
  <2>1. ~(f[m] < f[n]) /\ ~(f[n] < f[m])
    BY <2>0
  <2>2. ~(m < n) /\ ~(n < m)
    BY <1>1, <1>5, <2>1
  <2>3. m \in Nat /\ n \in Nat
    BY <1>4, <1>5
  <2> QED
    BY <2>2, <2>3
<1>9. f \in [DOMAIN pending' -> kept] /\ \A n \in DOMAIN pending' : pending'[n] = pending[f[n]]
  BY <1>1, <1>5
<1> QED
  BY <1>7, <1>8, <1>9 DEF kept

-----------------------------------------------------------------------------
\* An entry of the list of hosts is replaced by another.
LEMMA HostReplaced ==
    ASSUME hosts \in Seq(Hosts), NEW h \in HostIx, NEW x \in Hosts,
           hosts' = [hosts EXCEPT ![h] = x]
    PROVE  hosts' \in Seq(Hosts) /\ Len(hosts') = Len(hosts)
BY DEF HostIx

\* A move answers: its task is replaced.
LEMMA MoveGoesOn ==
    ASSUME MovesFit, NEW r \in rehosts, NEW x, rehosts' = (rehosts \ {r}) \union {x},
           hosts' = hosts
    PROVE  MovesFit'
<1>1. IsFiniteSet(rehosts \ {r}) /\ Cardinality(rehosts \ {r}) = Cardinality(rehosts) - 1
      /\ Cardinality(rehosts) \in Nat
  BY FS_RemoveElement, FS_CardinalityType DEF MovesFit
<1>2. /\ IsFiniteSet(rehosts')
      /\ Cardinality(rehosts') \in Nat /\ Cardinality(rehosts') <= Cardinality(rehosts)
  <2>1. /\ IsFiniteSet((rehosts \ {r}) \union {x})
        /\ \/ Cardinality((rehosts \ {r}) \union {x}) = Cardinality(rehosts \ {r})
           \/ Cardinality((rehosts \ {r}) \union {x}) = Cardinality(rehosts \ {r}) + 1
    BY <1>1, FS_AddElement
  <2>2. Cardinality(rehosts \ {r}) \in Nat
    BY <1>1, FS_CardinalityType
  <2> QED
    BY <1>1, <2>1, <2>2
<1> QED
  BY <1>1, <1>2, PaneConstants DEF MovesFit

\* A move ends, and appends its host at most.
LEMMA MoveEnds ==
    ASSUME MovesFit, hosts \in Seq(Hosts), NEW r \in rehosts, rehosts' = rehosts \ {r},
           hosts' = hosts \/ \E x : hosts' = Append(hosts, x)
    PROVE  MovesFit'
<1>1. /\ IsFiniteSet(rehosts \ {r})
      /\ Cardinality(rehosts \ {r}) = Cardinality(rehosts) - 1
      /\ Cardinality(rehosts) \in Nat
  BY FS_RemoveElement, FS_CardinalityType DEF MovesFit
<1>2. Len(hosts) \in Nat /\ (Len(hosts') = Len(hosts) \/ Len(hosts') = Len(hosts) + 1)
  OBVIOUS
<1> QED
  BY <1>1, <1>2, PaneConstants DEF MovesFit

LEMMA MoveInvInitially == Init => MoveInv
<1> SUFFICES ASSUME Init PROVE MoveInv
  OBVIOUS
<1>1. hosts \in Seq(Hosts) /\ Len(hosts) = 1
  <2>1. PICK x \in Hosts : hosts = <<x>>
    BY PaneConstants DEF Init, Hosts
  <2> QED
    BY <2>1
<1>2. IsFiniteSet(rehosts) /\ Cardinality(rehosts) = 0
  BY FS_EmptySet DEF Init
<1> QED
  BY <1>1, <1>2, PaneConstants DEF Init, MoveInv, MovesFit, Links

\* Steps that touch neither the moves nor the list of hosts.
LEMMA MovesUntouched ==
    ASSUME MoveInv, UNCHANGED <<hosts, pending, rehosts>>,
           link' \in [Panes -> Links], \A t \in redials' : t.attempt <= MaxAttempts
    PROVE  MoveInv'
BY DEF MoveInv, MovesFit

LEMMA MoveInvIsKept == PaneInv /\ MoveInv /\ [Next]_vars => MoveInv'
<1> SUFFICES ASSUME PaneInv, MoveInv, [Next]_vars PROVE MoveInv'
  OBVIOUS
<1> USE DEF paneVars
<1>0. /\ link \in [Panes -> Links] /\ hosts \in Seq(Hosts) /\ Len(hosts) >= 1
      /\ pending \in Seq(Record) /\ MovesFit /\ MaxAttempts \in Nat
      /\ \A t \in redials : t.attempt <= MaxAttempts
      /\ \A t \in redials : t.attempt \in Nat /\ t.host \in HostIx /\ t.up \in BOOLEAN
  BY PaneConstants DEF MoveInv, PaneInv, RedialPanes, Tasks
<1>1. ASSUME NEW h \in HostIx, LinkDies(h) PROVE MoveInv'
  <2>1. link' \in [Panes -> Links]
    BY <1>0, <1>1 DEF LinkDies, LosesLink, Links
  <2>2. hosts' \in Seq(Hosts) /\ Len(hosts') = Len(hosts)
    <3>1. hosts[h] \in Hosts
      BY <1>0 DEF HostIx
    <3>2. [hosts[h] EXCEPT !.up = FALSE] \in Hosts
      BY <3>1 DEF Hosts
    <3>3. hosts' = [hosts EXCEPT ![h] = [hosts[h] EXCEPT !.up = FALSE]]
      BY <1>1 DEF LinkDies
    <3> QED
      BY <1>0, <3>2, <3>3, HostReplaced
  <2>3. UNCHANGED <<pending, rehosts, redials>>
    BY <1>1 DEF LinkDies
  <2> QED
    BY <1>0, <2>1, <2>2, <2>3 DEF MoveInv, MovesFit
<1>2. ASSUME NEW p \in Panes, OldLinkDies(p) PROVE MoveInv'
  BY <1>0, <1>2, MovesUntouched DEF OldLinkDies, Links
<1>3. ASSUME NEW p \in Panes, ShellExits(p) PROVE MoveInv'
  BY <1>0, <1>3, MovesUntouched DEF ShellExits
<1>4. ASSUME NEW t \in redials, AnswerGoesStale(t) PROVE MoveInv'
  <2>1. [t EXCEPT !.up = FALSE].attempt = t.attempt
    BY DEF PaneInv, RedialPanes, Tasks
  <2> QED
    BY <1>0, <1>4, <2>1, MovesUntouched DEF AnswerGoesStale
<1>5. ASSUME NEW f \in Panes, NEW p \in Panes, Split(f, p) PROVE MoveInv'
  BY <1>0, <1>5, MovesUntouched DEF Split
<1>6. ASSUME NEW p \in Panes, ClosePane(p) PROVE MoveInv'
  BY <1>0, <1>6, MovesUntouched DEF ClosePane, Links
<1>7. ASSUME NEW p \in Panes, NEW m \in Machines, PickRehost(p, m) PROVE MoveInv'
  <2>1. PICK r : rehosts' = rehosts \union {r} /\ r \notin rehosts
    BY <1>7 DEF PickRehost
  <2>2. IsFiniteSet(rehosts') /\ Cardinality(rehosts') = Cardinality(rehosts) + 1
        /\ Cardinality(rehosts) \in Nat
    BY <1>0, <2>1, FS_AddElement, FS_CardinalityType DEF MovesFit
  <2>3. /\ Cardinality(rehosts) < MaxRehosts
        /\ Len(hosts) + Cardinality(rehosts) < MaxHosts
        /\ UNCHANGED <<link, hosts, redials>>
    BY <1>7 DEF PickRehost
  <2>4. pending' \in Seq(Record)
    <3>1. PICK x \in Record : pending' = Append(pending, x)
      BY <1>7 DEF PickRehost, Record
    <3> QED
      BY <1>0, <3>1
  <2>5. Len(hosts) \in Nat
    BY <1>0
  <2>6. MovesFit'
    BY <2>2, <2>3, <2>5, PaneConstants DEF MovesFit
  <2> QED
    BY <1>0, <2>3, <2>4, <2>6 DEF MoveInv
<1>8. ASSUME NEW p \in Panes, Pump(p) PROVE MoveInv'
  BY <1>0, <1>8, MovesUntouched DEF Pump
<1>9. ASSUME DriveReconnects PROVE MoveInv'
  <2>1. \A h \in HostsToRedial : Spawned(h, 0).attempt = 0
    BY DEF Spawned
  <2>2. \A t \in redials' : t.attempt <= MaxAttempts
    BY <1>0, <1>9, <2>1 DEF DriveReconnects
  <2> QED
    BY <1>0, <1>9, <2>2, MovesUntouched DEF DriveReconnects
<1>10. ASSUME NEW t \in redials, RedialAnswers(t) PROVE MoveInv'
  <2>1. \A a \in {"ok", "err"} : [t EXCEPT !.answer = a].attempt = t.attempt
    BY DEF PaneInv, RedialPanes, Tasks
  <2> QED
    BY <1>0, <1>10, <2>1, MovesUntouched DEF RedialAnswers
<1>11. ASSUME NEW t \in redials, OnPaneReconnected(t) PROVE MoveInv'
  <2>1. \A u \in redials' : u.attempt <= MaxAttempts
    BY <1>0, <1>11 DEF OnPaneReconnected
  <2>2. UNCHANGED <<pending, rehosts>>
    BY <1>11 DEF OnPaneReconnected
  <2>3. CASE Reattached(t) = {}
    BY <1>0, <1>11, <2>1, <2>2, <2>3, MovesUntouched DEF OnPaneReconnected
  <2>4. CASE Reattached(t) # {}
    <3>1. link' \in [Panes -> Links]
      BY <1>0, <1>11, <2>4 DEF OnPaneReconnected, Outlived, Links
    <3>2. hosts' \in Seq(Hosts) /\ Len(hosts') = Len(hosts)
      <4>1. hosts[t.host] \in Hosts
        BY <1>0 DEF HostIx
      <4>2. [cfg |-> hosts[t.host].cfg, at |-> hosts[t.host].cfg, up |-> t.up] \in Hosts
        BY <1>0, <4>1 DEF Hosts
      <4>3. hosts' = [hosts EXCEPT ![t.host] =
                         [cfg |-> hosts[t.host].cfg, at |-> hosts[t.host].cfg, up |-> t.up]]
        BY <1>11, <2>4 DEF OnPaneReconnected
      <4> QED
        BY <1>0, <4>2, <4>3, HostReplaced
    <3> QED
      BY <1>0, <2>1, <2>2, <3>1, <3>2 DEF MoveInv, MovesFit
  <2> QED
    BY <2>3, <2>4
<1>12. ASSUME NEW t \in redials, OnPaneReconnectErr(t) PROVE MoveInv'
  <2>1. t.attempt + 1 <= MaxAttempts => Spawned(t.host, t.attempt + 1).attempt <= MaxAttempts
    BY DEF Spawned
  <2>2. \A u \in redials' : u.attempt <= MaxAttempts
    BY <1>0, <1>12, <2>1 DEF OnPaneReconnectErr, HasDelay
  <2> QED
    BY <1>0, <1>12, <2>2, MovesUntouched DEF OnPaneReconnectErr
<1>13. ASSUME NEW o \in opens, OnPaneOpened(o) PROVE MoveInv'
  <2>1. o.link \in Links
    BY DEF PaneInv, OpensAreFirst
  <2> QED
    BY <1>0, <1>13, <2>1, MovesUntouched DEF OnPaneOpened
<1>14. ASSUME NEW o \in opens, OnPaneOpenErr(o) PROVE MoveInv'
  BY <1>0, <1>14, MovesUntouched DEF OnPaneOpenErr
<1>15. ASSUME NEW r \in rehosts, RehostAnswers(r) PROVE MoveInv'
  <2>1. PICK x : rehosts' = (rehosts \ {r}) \union {x}
    BY <1>15 DEF RehostAnswers
  <2>2. UNCHANGED <<link, hosts, pending, redials>>
    BY <1>15 DEF RehostAnswers
  <2> QED
    BY <1>0, <2>1, <2>2, MoveGoesOn DEF MoveInv
<1>16. ASSUME NEW r \in rehosts, OnPaneRehosted(r) PROVE MoveInv'
  <2>0. /\ rehosts' = rehosts \ {r} /\ UNCHANGED redials
        /\ r.machine \in Machines /\ r.up \in BOOLEAN
    BY <1>16 DEF OnPaneRehosted, PaneInv, MovesOfShown, Rehost
  <2>1. CASE RecordsOf(r.pane) = {}
    <3>1. UNCHANGED <<link, hosts, pending>>
      BY <1>16, <2>1 DEF OnPaneRehosted
    <3> QED
      BY <1>0, <2>0, <3>1, MoveEnds DEF MoveInv
  <2>2. CASE RecordsOf(r.pane) # {}
    <3>1. PICK i : i = FirstOf(RecordsOf(r.pane))
      OBVIOUS
    <3>2. i \in RecordsOf(r.pane)
      BY <1>0, <2>2, <3>1, FirstRecord
    <3>3. pending' = SwapRemove(pending, i)
      BY <1>16, <2>2, <3>1 DEF OnPaneRehosted
    <3>4. i \in DOMAIN pending /\ pending[i] \in Record
      BY <1>0, <3>2 DEF RecordsOf
    <3>5. pending' \in Seq(Record)
      BY <1>0, <3>3, <3>4, Swapped
    <3>6. CASE InTree(r.pane)
      <4>1. PICK x \in Hosts : hosts' = Append(hosts, x)
        BY <1>16, <2>0, <2>2, <3>1, <3>4, <3>6 DEF OnPaneRehosted, Hosts, Record
      <4>2. hosts' \in Seq(Hosts) /\ Len(hosts') >= 1
        BY <1>0, <4>1
      <4>3. link' \in [Panes -> Links]
        BY <1>0, <1>16, <2>2, <3>6 DEF OnPaneRehosted, Links
      <4>4. MovesFit'
        BY <1>0, <2>0, <4>1, MoveEnds
      <4> QED
        BY <1>0, <2>0, <3>5, <4>2, <4>3, <4>4 DEF MoveInv
    <3>7. CASE ~InTree(r.pane)
      <4>1. UNCHANGED <<link, hosts>>
        BY <1>16, <2>2, <3>7 DEF OnPaneRehosted
      <4> QED
        BY <1>0, <2>0, <3>5, <4>1, MoveEnds DEF MoveInv
    <3> QED
      BY <3>6, <3>7
  <2> QED
    BY <2>1, <2>2
<1>17. ASSUME NEW r \in rehosts, OnPaneRehostErr(r) PROVE MoveInv'
  <2>1. /\ rehosts' = rehosts \ {r} /\ UNCHANGED <<link, hosts, redials>>
        /\ RecordsDropped(r.pane)
    BY <1>17 DEF OnPaneRehostErr
  <2> QED
    BY <1>0, <2>1, MoveEnds, Dropped DEF MoveInv
<1>18. CASE UNCHANGED vars
  BY <1>0, <1>18, MovesUntouched DEF vars
<1> QED
  BY <1>1, <1>2, <1>3, <1>4, <1>5, <1>6, <1>7, <1>8, <1>9, <1>10, <1>11, <1>12,
     <1>13, <1>14, <1>15, <1>16, <1>17, <1>18
     DEF Next, Environment, User, App, RedialStep

-----------------------------------------------------------------------------
(* With one move of a pane at a time every record is its own move's.       *)

RightMachines == MovesRecorded /\ ChannelOnItsMachine

\* Steps that touch no move: the hosts keep what they lead to, or lead where
\* they should.
LEMMA MachinesUntouched ==
    ASSUME RightMachines, UNCHANGED pending, HostIx' = HostIx,
           \A r \in rehosts : \E x \in rehosts' : r.pane = x.pane /\ r.machine = x.machine,
           \A h \in HostIx : \/ hosts'[h].cfg = hosts[h].cfg /\ hosts'[h].at = hosts[h].at
                             \/ hosts'[h].cfg = hosts'[h].at
    PROVE  RightMachines'
<1>1. MovesRecorded'
  BY DEF RightMachines, MovesRecorded
<1>2. ChannelOnItsMachine'
  BY DEF RightMachines, ChannelOnItsMachine
<1> QED
  BY <1>1, <1>2 DEF RightMachines

\* A move that starts: there is no other of its pane, so no record either.
LEMMA PickIsRecorded ==
    ASSUME RightMachines, pending \in Seq(Record), OneMovePerPane',
           NEW p \in Panes, NEW m \in Machines, PickRehost(p, m)
    PROVE  RightMachines'
<1> DEFINE r == [pane |-> p, machine |-> m, answer |-> "none", up |-> TRUE]
<1>1. /\ rehosts' = rehosts \union {r} /\ r \notin rehosts /\ hosts' = hosts
      /\ pending' = Append(pending, [pane |-> p, machine |-> m])
      /\ r.pane = p /\ r.machine = m
  BY DEF PickRehost
<1> HIDE DEF r
<1>2. \A x \in rehosts : x.pane # p
  BY <1>1 DEF OneMovePerPane
<1>3. /\ DOMAIN pending = 1 .. Len(pending) /\ Len(pending) \in Nat
      /\ DOMAIN pending' = 1 .. Len(pending) + 1
      /\ \A i \in 1 .. Len(pending) : pending'[i] = pending[i]
      /\ pending'[Len(pending) + 1] = [pane |-> p, machine |-> m]
  BY <1>1
<1>4. \A i \in DOMAIN pending : pending[i].pane # p
  BY <1>2 DEF RightMachines, MovesRecorded
<1>5. \A i \in DOMAIN pending' : i \in DOMAIN pending \/ i = Len(pending) + 1
  BY <1>3
<1>6. \A i \in DOMAIN pending' : \E x \in rehosts' :
        pending'[i].pane = x.pane /\ pending'[i].machine = x.machine
  <2>1. CASE pending'[Len(pending) + 1].pane = r.pane /\ pending'[Len(pending) + 1].machine = r.machine
    BY <1>1, <1>3, <1>5, <2>1 DEF RightMachines, MovesRecorded
  <2> QED
    BY <1>1, <1>3, <2>1
<1>7. \A i, j \in DOMAIN pending' : pending'[i].pane = pending'[j].pane => i = j
  BY <1>3, <1>4, <1>5 DEF RightMachines, MovesRecorded
<1>8. ChannelOnItsMachine'
  BY <1>1 DEF RightMachines, ChannelOnItsMachine, HostIx
<1> QED
  BY <1>6, <1>7, <1>8 DEF RightMachines, MovesRecorded

\* A move that arrives finds its own record, and takes it along.
LEMMA ArrivalTakesItsRecord ==
    ASSUME RightMachines, pending \in Seq(Record), hosts \in Seq(Hosts), OneMovePerPane,
           NEW r \in rehosts, OnPaneRehosted(r)
    PROVE  RightMachines'
<1>1. rehosts' = rehosts \ {r}
  BY DEF OnPaneRehosted
<1>2. CASE RecordsOf(r.pane) = {}
  <2>1. UNCHANGED <<pending, hosts>>
    BY <1>2 DEF OnPaneRehosted
  <2>2. \A i \in DOMAIN pending : pending[i].pane # r.pane
    BY <1>2 DEF RecordsOf
  <2> QED
    BY <1>1, <2>1, <2>2 DEF RightMachines, MovesRecorded, ChannelOnItsMachine, HostIx
<1>3. CASE RecordsOf(r.pane) # {}
  <2>1. PICK i : i = FirstOf(RecordsOf(r.pane))
    OBVIOUS
  <2>2. i \in DOMAIN pending /\ pending[i].pane = r.pane
    BY <1>3, <2>1, FirstRecord DEF RecordsOf
  <2>3. pending[i].machine = r.machine
    BY <2>2 DEF RightMachines, MovesRecorded, OneMovePerPane
  <2>4. pending' = SwapRemove(pending, i)
    BY <1>3, <2>1 DEF OnPaneRehosted
  <2>5. /\ DOMAIN pending = 1 .. Len(pending) /\ Len(pending) \in Nat
        /\ DOMAIN pending' = 1 .. Len(pending) - 1
        /\ \A j \in 1 .. Len(pending) - 1 :
              pending'[j] = pending[IF j = i THEN Len(pending) ELSE j]
    BY <2>2, <2>4, Swapped
  <2> DEFINE was(j) == IF j = i THEN Len(pending) ELSE j
  <2>6. \A j \in DOMAIN pending' :
           was(j) \in DOMAIN pending /\ was(j) # i /\ pending'[j] = pending[was(j)]
    BY <2>2, <2>5
  <2>7. \A j, k \in DOMAIN pending' : was(j) = was(k) => j = k
    BY <2>2, <2>5
  <2> HIDE DEF was
  <2>8. MovesRecorded'
    <3>1. \A j \in DOMAIN pending' : \E x \in rehosts' :
             pending'[j].pane = x.pane /\ pending'[j].machine = x.machine
      <4> SUFFICES ASSUME NEW j \in DOMAIN pending'
                   PROVE  \E x \in rehosts' :
                             pending'[j].pane = x.pane /\ pending'[j].machine = x.machine
        OBVIOUS
      <4>1. PICK x \in rehosts :
               pending[was(j)].pane = x.pane /\ pending[was(j)].machine = x.machine
        BY <2>6 DEF RightMachines, MovesRecorded
      <4>2. x # r
        BY <2>2, <2>6, <4>1 DEF RightMachines, MovesRecorded
      <4> QED
        BY <1>1, <2>6, <4>1, <4>2
    <3>2. \A j, k \in DOMAIN pending' : pending'[j].pane = pending'[k].pane => j = k
      BY <2>6, <2>7 DEF RightMachines, MovesRecorded
    <3> QED
      BY <3>1, <3>2 DEF MovesRecorded
  <2>9. ChannelOnItsMachine'
    <3>1. CASE ~InTree(r.pane)
      BY <1>3, <3>1 DEF OnPaneRehosted, RightMachines, ChannelOnItsMachine, HostIx
    <3>2. CASE InTree(r.pane)
      <4>1. PICK x : x = [cfg |-> r.machine, at |-> r.machine, up |-> r.up]
        OBVIOUS
      <4>2. hosts' = Append(hosts, x) /\ x.cfg = x.at
        BY <1>3, <2>1, <2>3, <3>2, <4>1 DEF OnPaneRehosted
      <4>3. /\ HostIx' = 1 .. Len(hosts) + 1 /\ Len(hosts) \in Nat
            /\ \A h \in 1 .. Len(hosts) : hosts'[h] = hosts[h]
            /\ hosts'[Len(hosts) + 1] = x
        BY <4>2 DEF HostIx
      <4>4. \A h \in HostIx' : h \in 1 .. Len(hosts) \/ h = Len(hosts) + 1
        BY <4>3
      <4> QED
        BY <4>2, <4>3, <4>4 DEF RightMachines, ChannelOnItsMachine, HostIx
    <3> QED
      BY <3>1, <3>2
  <2> QED
    BY <2>8, <2>9 DEF RightMachines
<1> QED
  BY <1>2, <1>3

\* A move that fails takes the records of its pane along.
LEMMA FailureTakesItsRecord ==
    ASSUME RightMachines, pending \in Seq(Record), NEW r \in rehosts, OnPaneRehostErr(r)
    PROVE  RightMachines'
<1>1. /\ rehosts' = rehosts \ {r} /\ hosts' = hosts /\ RecordsDropped(r.pane)
  BY DEF OnPaneRehostErr
<1>2. PICK f \in [DOMAIN pending' -> DOMAIN pending \ RecordsOf(r.pane)] :
        /\ \A m, n \in DOMAIN pending' : f[m] = f[n] => m = n
        /\ \A n \in DOMAIN pending' : pending'[n] = pending[f[n]]
  BY <1>1, Dropped
<1>3. \A n \in DOMAIN pending' : f[n] \in DOMAIN pending /\ pending[f[n]].pane # r.pane
  BY <1>2 DEF RecordsOf
<1>4. \A n \in DOMAIN pending' : \E x \in rehosts' :
         pending'[n].pane = x.pane /\ pending'[n].machine = x.machine
  <2> SUFFICES ASSUME NEW n \in DOMAIN pending'
               PROVE  \E x \in rehosts' :
                         pending'[n].pane = x.pane /\ pending'[n].machine = x.machine
    OBVIOUS
  <2>1. PICK x \in rehosts :
           pending[f[n]].pane = x.pane /\ pending[f[n]].machine = x.machine
    BY <1>3 DEF RightMachines, MovesRecorded
  <2> QED
    BY <1>1, <1>2, <1>3, <2>1
<1>5. \A m, n \in DOMAIN pending' : pending'[m].pane = pending'[n].pane => m = n
  BY <1>2, <1>3 DEF RightMachines, MovesRecorded
<1>6. ChannelOnItsMachine'
  BY <1>1 DEF RightMachines, ChannelOnItsMachine, HostIx
<1> QED
  BY <1>4, <1>5, <1>6 DEF RightMachines, MovesRecorded

LEMMA RightMachinesKept ==
    PaneInv /\ MoveInv /\ RightMachines /\ OneMovePerPane /\ [Next]_vars /\ OneMovePerPane'
        => RightMachines'
<1> SUFFICES ASSUME PaneInv, MoveInv, RightMachines, OneMovePerPane, [Next]_vars,
                    OneMovePerPane'
             PROVE  RightMachines'
  OBVIOUS
<1>0. hosts \in Seq(Hosts) /\ pending \in Seq(Record)
  BY DEF MoveInv
<1>1. CASE UNCHANGED <<hosts, pending, rehosts>>
  BY <1>1, MachinesUntouched DEF HostIx
<1>2. ASSUME NEW h \in HostIx, LinkDies(h) PROVE RightMachines'
  <2>1. /\ UNCHANGED <<pending, rehosts>>
        /\ hosts' = [hosts EXCEPT ![h] = [hosts[h] EXCEPT !.up = FALSE]]
    BY <1>2 DEF LinkDies
  <2>2. /\ hosts[h] \in Hosts
        /\ [hosts[h] EXCEPT !.up = FALSE] \in Hosts
        /\ [hosts[h] EXCEPT !.up = FALSE].cfg = hosts[h].cfg
        /\ [hosts[h] EXCEPT !.up = FALSE].at = hosts[h].at
    <3>1. hosts[h] \in Hosts
      BY <1>0 DEF HostIx
    <3> QED
      BY <3>1 DEF Hosts
  <2>3. HostIx' = HostIx /\ DOMAIN hosts = HostIx
    BY <1>0, <2>1, <2>2, HostReplaced DEF HostIx
  <2>4. \A k \in HostIx : hosts'[k].cfg = hosts[k].cfg /\ hosts'[k].at = hosts[k].at
    BY <2>1, <2>2, <2>3
  <2> QED
    BY <2>1, <2>3, <2>4, MachinesUntouched
<1>3. ASSUME NEW t \in redials, OnPaneReconnected(t) PROVE RightMachines'
  <2>1. UNCHANGED <<pending, rehosts>> /\ t.host \in HostIx /\ t.up \in BOOLEAN
    BY <1>3 DEF OnPaneReconnected, PaneInv, RedialPanes, Tasks
  <2>2. CASE hosts' = hosts
    BY <1>1, <2>1, <2>2
  <2>3. ASSUME NEW x, x = [cfg |-> hosts[t.host].cfg, at |-> hosts[t.host].cfg, up |-> t.up],
               hosts' = [hosts EXCEPT ![t.host] = x]
        PROVE  RightMachines'
    <3>1. x \in Hosts /\ x.cfg = x.at
      <4>1. hosts[t.host] \in Hosts
        BY <1>0, <2>1 DEF HostIx
      <4> QED
        BY <2>1, <2>3, <4>1 DEF Hosts
    <3>2. HostIx' = HostIx /\ DOMAIN hosts = HostIx
      BY <1>0, <2>1, <2>3, <3>1, HostReplaced DEF HostIx
    <3>3. \A k \in HostIx : hosts'[k] = hosts[k] \/ hosts'[k].cfg = hosts'[k].at
      BY <2>3, <3>1, <3>2
    <3> QED
      BY <2>1, <3>2, <3>3, MachinesUntouched
  <2> QED
    BY <1>3, <2>2, <2>3 DEF OnPaneReconnected
<1>4. ASSUME NEW p \in Panes, NEW m \in Machines, PickRehost(p, m) PROVE RightMachines'
  BY <1>0, <1>4, PickIsRecorded
<1>5. ASSUME NEW r \in rehosts, RehostAnswers(r) PROVE RightMachines'
  <2>1. PICK a \in {"ok", "err"} : rehosts' = (rehosts \ {r}) \union {[r EXCEPT !.answer = a]}
    BY <1>5 DEF RehostAnswers
  <2>2. /\ [r EXCEPT !.answer = a].pane = r.pane
        /\ [r EXCEPT !.answer = a].machine = r.machine
    BY DEF PaneInv, MovesOfShown, Rehost
  <2>3. UNCHANGED <<hosts, pending>>
    BY <1>5 DEF RehostAnswers
  <2>4. \A y \in rehosts : \E x \in rehosts' : y.pane = x.pane /\ y.machine = x.machine
    BY <2>1, <2>2
  <2> QED
    BY <2>3, <2>4, MachinesUntouched DEF HostIx
<1>6. ASSUME NEW r \in rehosts, OnPaneRehosted(r) PROVE RightMachines'
  BY <1>0, <1>6, ArrivalTakesItsRecord
<1>7. ASSUME NEW r \in rehosts, OnPaneRehostErr(r) PROVE RightMachines'
  BY <1>0, <1>7, FailureTakesItsRecord
<1>8. ASSUME NEW p \in Panes, OldLinkDies(p) \/ ShellExits(p) \/ Pump(p) \/ ClosePane(p)
      PROVE  RightMachines'
  BY <1>1, <1>8 DEF OldLinkDies, ShellExits, Pump, ClosePane
<1>9. ASSUME NEW f \in Panes, NEW p \in Panes, Split(f, p) PROVE RightMachines'
  BY <1>1, <1>9 DEF Split
<1>10. ASSUME NEW t \in redials, AnswerGoesStale(t) \/ RedialAnswers(t) \/ OnPaneReconnectErr(t)
       PROVE  RightMachines'
  BY <1>1, <1>10 DEF AnswerGoesStale, RedialAnswers, OnPaneReconnectErr
<1>11. ASSUME NEW o \in opens, OnPaneOpened(o) \/ OnPaneOpenErr(o) PROVE RightMachines'
  BY <1>1, <1>11 DEF OnPaneOpened, OnPaneOpenErr
<1>12. CASE DriveReconnects
  BY <1>1, <1>12 DEF DriveReconnects
<1>13. CASE UNCHANGED vars
  BY <1>1, <1>13 DEF vars
<1> QED
  BY <1>2, <1>3, <1>4, <1>5, <1>6, <1>7, <1>8, <1>9, <1>10, <1>11, <1>12, <1>13
     DEF Next, Environment, User, App, RedialStep

-----------------------------------------------------------------------------
(* The theorems.                                                           *)

\* The invariant holds of every behaviour.
THEOREM PaneInvariance == Spec => []PaneInv
<1> QED
  BY PaneInvInitially, PaneInvIsKept, PTL DEF Spec

\* However frames, answers, moves and the user's panes interleave, a host is
\* redialled by one task at a time, and the reconnecting table of App lists
\* just these tasks with their attempts.
THEOREM RedialsAreListed == Spec => []OneRedialPerHost
<1>1. PaneInv => OneRedialPerHost
  BY DEF PaneInv
<1> QED
  BY <1>1, PaneInvariance, PTL

\* No redial opens a channel for a pane of its host whose shell the user left,
\* whichever other panes of the host are redialled for.
THEOREM NobodyDialsForTheLeft == Spec => []ExitedNotRedialled
<1>1. PaneInv => ExitedNotRedialled
  BY DEF PaneInv
<1> QED
  BY <1>1, PaneInvariance, PTL

\* A pane that has been closed stays closed, whatever channel, redial or move
\* was under way for it.
THEOREM ClosedPanesStayClosed == Spec => ClosedStaysClosed
<1>1. PaneInv /\ [Next]_vars
      => [\A p \in Panes : status[p] = "closed" => status'[p] = "closed"]_vars
  BY StepKeepsClosed DEF ClosedKept
<1> QED
  BY <1>1, PaneInvariance, PTL DEF Spec, ClosedStaysClosed

\* The moves keep their types, and every one under way has room for its host.
THEOREM MoveInvariance == Spec => []MoveInv
BY MoveInvInitially, MoveInvIsKept, PaneInvariance, PTL DEF Spec

\* Every variable keeps its type; in particular no redial is numbered beyond the
\* back-off table, and no pane hangs on a host that is not there.
THEOREM PaneTypesHold == Spec => []TypeOK
<1>1. PaneInv /\ MoveInv => TypeOK
  <2> SUFFICES ASSUME PaneInv, MoveInv PROVE TypeOK
    OBVIOUS
  <2>1. Len(hosts) \in 1 .. MaxHosts /\ HostIx \subseteq 1 .. MaxHosts
    <3>1. Cardinality(rehosts) \in Nat
      BY FS_CardinalityType DEF MoveInv, MovesFit
    <3> QED
      BY <3>1, PaneConstants DEF MoveInv, MovesFit, HostIx
  <2>2. hostOf \in [Panes -> 1 .. MaxHosts]
    BY <2>1 DEF PaneInv, PaneTypes, HostsExist
  <2>3. \A t \in redials : t.host \in 1 .. MaxHosts /\ t.attempt \in 0 .. MaxAttempts
    BY <2>1, PaneConstants DEF PaneInv, RedialPanes, Tasks, MoveInv
  <2>4. redials \subseteq Redial
    BY <2>3 DEF PaneInv, RedialPanes, Tasks, Redial
  <2>5. reconnecting \subseteq (1 .. MaxHosts) \X (0 .. MaxAttempts)
    BY <2>3 DEF PaneInv, OneRedialPerHost
  <2>6. opens \subseteq [pane : Panes, host : 1 .. MaxHosts, link : Links]
    BY <2>1 DEF PaneInv, OpensAreFirst
  <2> QED
    BY <2>1, <2>2, <2>4, <2>5, <2>6
       DEF TypeOK, PaneInv, PaneTypes, MoveInv, MovesOfShown, Hosts, Record
<1> QED
  BY <1>1, PaneInvariance, MoveInvariance, PTL

\* As long as a pane is moved once at a time, every host entry names the machine
\* its connection leads to, however moves, redials and splits interleave.
THEOREM OneMoveOneMachine == Spec /\ []OneMovePerPane => []ChannelOnItsMachine
<1>1. Init => RightMachines
  BY DEF Init, RightMachines, MovesRecorded, ChannelOnItsMachine, HostIx
<1>2. RightMachines => ChannelOnItsMachine
  BY DEF RightMachines
<1> QED
  BY <1>1, <1>2, RightMachinesKept, PaneInvariance, MoveInvariance, PTL DEF Spec

\* In particular with one move of the tab under way at a time.
THEOREM MovesFindTheirMachine ==
    ASSUME MaxRehosts = 1
    PROVE  Spec => []ChannelOnItsMachine
<1>1. MoveInv => OneMovePerPane
  <2> SUFFICES ASSUME MoveInv, NEW r \in rehosts, NEW x \in rehosts, r # x PROVE FALSE
    BY DEF OneMovePerPane
  <2>1. IsFiniteSet(rehosts) /\ Cardinality(rehosts) <= 1
    BY DEF MoveInv, MovesFit
  <2>2. /\ IsFiniteSet(rehosts \ {r}) /\ Cardinality(rehosts \ {r}) = Cardinality(rehosts) - 1
        /\ x \in rehosts \ {r}
    BY <2>1, FS_RemoveElement
  <2>3. /\ Cardinality((rehosts \ {r}) \ {x}) = Cardinality(rehosts \ {r}) - 1
        /\ IsFiniteSet((rehosts \ {r}) \ {x})
    BY <2>2, FS_RemoveElement
  <2>4. Cardinality(rehosts) \in Nat /\ Cardinality((rehosts \ {r}) \ {x}) \in Nat
    BY <2>1, <2>3, FS_CardinalityType
  <2> QED
    BY <2>1, <2>2, <2>3, <2>4
<1> QED
  BY <1>1, MoveInvariance, OneMoveOneMachine, PTL
=============================================================================
