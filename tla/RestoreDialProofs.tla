------------------------- MODULE RestoreDialProofs -------------------------
(***************************************************************************)
(* Proofs about RestoreDial, for every set of tabs and records, every      *)
(* number of far leaves and every bound: the button of a placeholder is    *)
(* disabled exactly while the gate is held for it, the slot and the ledger *)
(* know just the dials that are under way, and neither queue waits for     *)
(* something that has already happened.                                    *)
(*                                                                         *)
(* The handlers are functions on the part of App they share, so most of    *)
(* the argument is about these functions: what is right of the part        *)
(* before one of them is right of it afterwards.                           *)
(***************************************************************************)
EXTENDS RestoreDial, FiniteSetTheorems, WellFoundedInduction, TLAPS

AppTypes ==
    [content : [Tabs -> Contents], dialing : [Tabs -> BOOLEAN],
     pending : Slots, probing : Slots,
     auto : [on : BOOLEAN, tried : SUBSET Tabs],
     dials : [Slots -> Nat], tickets : [Slots -> Nat]]

\* Whom the gate is held for.
Holder(a) == {a.pending, a.probing} \ {None}

\* What is right of the part of App that dials, between any two handlers.
Right(a) ==
    /\ a \in AppTypes
    /\ \A t \in Tabs : a.dialing[t] <=> a.content[t] = "restored" /\ t \in Holder(a)
    /\ \A t \in Holder(a) : a.content[t] \in {"restored", "closed"}
    /\ a.pending = None \/ a.probing = None
    /\ a.pending # None => a.dials[a.pending] > 0
    /\ a.tickets = a.dials

\* The automatic queue waits for whom the gate is held for.
Waits(a) == a.auto.on => ~GateOpen(a)

LeafTypes ==
    /\ queue \in Seq(Leaves)
    /\ busy \in BOOLEAN
    /\ rehosts \subseteq Leaves \union Moves

\* The queue of leaves waits for one that is being dialled.
LeavesWait ==
    /\ busy => rehosts \cap Leaves # {}
    /\ queue # <<>> => busy

DialsRight == Right(App) /\ Waits(App)

RestoreInv == DialsRight /\ LeafTypes /\ LeavesWait

-----------------------------------------------------------------------------
(* The functions on App.                                                   *)

Below == {xy \in Nat \X Nat : xy[1] < xy[2]}

LEMMA MinExists ==
    ASSUME NEW S \in SUBSET Nat, S # {}
    PROVE  Min(S) \in S /\ \A y \in S : Min(S) <= y
<1>1. IsWellFoundedOn(Below, Nat)
  BY NatLessThanWellFounded, Zenon DEF OpToRel, Below
<1>2. PICK x \in S : \A y \in S : <<y, x>> \notin Below
  BY <1>1, WFMin
<1>3. \A y \in S : x <= y
  <2>1. \A y \in S : <<y, x>> \in Nat \X Nat /\ <<y, x>>[1] = y /\ <<y, x>>[2] = x
    OBVIOUS
  <2>2. \A y \in S : ~(y < x)
    BY <1>2, <2>1 DEF Below
  <2> QED
    BY <2>2
<1> QED
  BY <1>3 DEF Min

\* spawn_connect adds a dial and its ticket.
LEMMA SpawnAdds ==
    ASSUME NEW a \in AppTypes, NEW s \in Slots
    PROVE  /\ SpawnConnect(a, s) \in AppTypes
           /\ SpawnConnect(a, s).content = a.content
           /\ SpawnConnect(a, s).dialing = a.dialing
           /\ SpawnConnect(a, s).pending = a.pending
           /\ SpawnConnect(a, s).probing = a.probing
           /\ SpawnConnect(a, s).auto = a.auto
           /\ SpawnConnect(a, s).dials = [a.dials EXCEPT ![s] = @ + 1]
           /\ SpawnConnect(a, s).tickets = [a.tickets EXCEPT ![s] = @ + 1]
<1> DEFINE d == [a.dials EXCEPT ![s] = @ + 1]
           k == [a.tickets EXCEPT ![s] = @ + 1]
<1>1. d \in [Slots -> Nat] /\ k \in [Slots -> Nat]
  BY DEF AppTypes
<1>2. SpawnConnect(a, s) = [a EXCEPT !.dials = d, !.tickets = k]
  BY DEF SpawnConnect, AppTypes
<1> HIDE DEF d, k
<1>3. /\ SpawnConnect(a, s) \in AppTypes
      /\ SpawnConnect(a, s).dials = d /\ SpawnConnect(a, s).tickets = k
      /\ SpawnConnect(a, s).content = a.content
      /\ SpawnConnect(a, s).dialing = a.dialing
      /\ SpawnConnect(a, s).pending = a.pending
      /\ SpawnConnect(a, s).probing = a.probing
      /\ SpawnConnect(a, s).auto = a.auto
  BY <1>1, <1>2 DEF AppTypes
<1> QED
  BY <1>3 DEF d, k

LEMMA DiallingIsRight ==
    ASSUME NEW a, Right(a), NEW t \in Tabs, Startable(a, t)
    PROVE  /\ Right(Dialled(a, t)) /\ ~GateOpen(Dialled(a, t))
           /\ Dialled(a, t).auto = a.auto
<1> DEFINE d == Dialled(a, t)
<1>1. t # None /\ t \in Slots /\ a \in AppTypes
  BY RestoreConstants DEF Right, Slots
<1>2. /\ d \in AppTypes
      /\ d.content = a.content /\ d.auto = a.auto /\ d.probing = a.probing
      /\ d.pending = t /\ d.dialing = [a.dialing EXCEPT ![t] = TRUE]
      /\ d.dials = [a.dials EXCEPT ![t] = @ + 1]
      /\ d.tickets = [a.tickets EXCEPT ![t] = @ + 1]
  <2> DEFINE b == [a EXCEPT !.pending = t, !.dialing[t] = TRUE]
  <2>1. /\ b \in AppTypes
        /\ b.content = a.content /\ b.auto = a.auto /\ b.probing = a.probing
        /\ b.pending = t /\ b.dialing = [a.dialing EXCEPT ![t] = TRUE]
        /\ b.dials = a.dials /\ b.tickets = a.tickets
    BY <1>1 DEF AppTypes
  <2>2. d = SpawnConnect(b, t)
    BY DEF Dialled
  <2> HIDE DEF b, d
  <2> QED
    BY <1>1, <2>1, <2>2, SpawnAdds
<1> HIDE DEF d
<1>3. Right(d) /\ ~GateOpen(d)
  BY <1>1, <1>2 DEF Right, Startable, GateOpen, Holder, AppTypes
<1> QED
  BY <1>2, <1>3 DEF d

LEMMA ProbingIsRight ==
    ASSUME NEW a, Right(a), NEW t \in Tabs, Startable(a, t)
    PROVE  /\ Right(Probed(a, t)) /\ ~GateOpen(Probed(a, t))
           /\ Probed(a, t).auto = a.auto
<1> DEFINE d == Probed(a, t)
<1>1. t # None /\ t \in Slots /\ a \in AppTypes
  BY RestoreConstants DEF Right, Slots
<1>2. /\ d \in AppTypes
      /\ d.content = a.content /\ d.auto = a.auto /\ d.pending = a.pending
      /\ d.probing = t /\ d.dialing = [a.dialing EXCEPT ![t] = TRUE]
      /\ d.dials = a.dials /\ d.tickets = a.tickets
  BY <1>1 DEF Probed, AppTypes
<1> HIDE DEF d
<1>3. Right(d) /\ ~GateOpen(d)
  BY <1>1, <1>2 DEF Right, Startable, GateOpen, Holder, AppTypes
<1> QED
  BY <1>2, <1>3 DEF d

LEMMA StartingIsRight ==
    ASSUME NEW a, Right(a), NEW t \in Tabs, Startable(a, t)
    PROVE  Right(Started(a, t)) /\ ~GateOpen(Started(a, t))
BY DiallingIsRight, ProbingIsRight DEF Started

\* reconnect_tab
LEMMA ReconnectIsRight ==
    ASSUME NEW a, Right(a), NEW t \in Tabs
    PROVE  Right(Reconnect(a, t)) /\ (Waits(a) => Waits(Reconnect(a, t)))
BY StartingIsRight DEF Reconnect, Waits

\* What the automatic queue remembers does not matter to the rest.
LEMMA AutoIsFree ==
    ASSUME NEW a, Right(a), NEW x \in [on : BOOLEAN, tried : SUBSET Tabs]
    PROVE  /\ Right([a EXCEPT !.auto = x])
           /\ \A t \in Tabs : Startable([a EXCEPT !.auto = x], t) <=> Startable(a, t)
<1> DEFINE d == [a EXCEPT !.auto = x]
<1>1. /\ d \in AppTypes
      /\ d.content = a.content /\ d.dialing = a.dialing /\ d.pending = a.pending
      /\ d.probing = a.probing /\ d.dials = a.dials /\ d.tickets = a.tickets
  BY DEF Right, AppTypes
<1> HIDE DEF d
<1>2. Right(d) /\ \A t \in Tabs : Startable(d, t) <=> Startable(a, t)
  BY <1>1 DEF Right, Holder, Startable, GateOpen
<1> QED
  BY <1>2 DEF d

\* advance_auto_dial
LEMMA AdvancingIsRight ==
    ASSUME NEW a, Right(a)
    PROVE  Right(AdvanceAuto(a)) /\ Waits(AdvanceAuto(a))
<1> DEFINE able == {t \in Untried(a) : Startable(a, t)}
           next == Min(able)
           seen == a.auto.tried \union {t \in Untried(a) : t <= next}
           b == [a EXCEPT !.auto.tried = @ \union
                            {t \in Untried(a) : t <= next}]
<1>1. a.auto \in [on : BOOLEAN, tried : SUBSET Tabs] /\ a \in AppTypes
  BY DEF Right, AppTypes
<1>2. CASE ~a.auto.on
  BY <1>2 DEF AdvanceAuto, Waits
<1>3. CASE a.auto.on /\ able = {}
  <2>1. AdvanceAuto(a) = AutoOff(a)
    BY <1>3 DEF AdvanceAuto
  <2>2. Right(AutoOff(a))
    BY AutoIsFree DEF AutoOff
  <2>3. ~AutoOff(a).auto.on
    BY <1>1 DEF AutoOff, AppTypes
  <2> QED
    BY <2>1, <2>2, <2>3 DEF Waits
<1>4. CASE a.auto.on /\ able # {}
  <2>1. next \in Tabs /\ Startable(a, next)
    <3>1. able \in SUBSET Nat /\ able \subseteq Tabs
      BY RestoreConstants DEF Untried
    <3>2. next \in able
      <4> HIDE DEF able
      <4> QED
        BY <1>4, <3>1, MinExists
    <3> QED
      BY <3>1, <3>2
  <2>2. AdvanceAuto(a) = Started(b, next)
    BY <1>4 DEF AdvanceAuto
  <2>3. b = [a EXCEPT !.auto = [a.auto EXCEPT !.tried = seen]]
    BY <1>1 DEF AppTypes
  <2>4. Right(b) /\ Startable(b, next)
    <3>1. [a.auto EXCEPT !.tried = seen] \in [on : BOOLEAN, tried : SUBSET Tabs]
      BY <1>1 DEF Untried
    <3> HIDE DEF b, seen, next
    <3> QED
      BY <2>1, <2>3, <3>1, AutoIsFree
  <2> QED
    BY <2>1, <2>2, <2>4, StartingIsRight DEF Waits
<1> QED
  BY <1>2, <1>3, <1>4

\* A claimed ticket goes with its dial.
LEMMA ClaimTakes ==
    ASSUME NEW a \in AppTypes, NEW s \in Slots, a.dials[s] > 0, a.tickets = a.dials
    PROVE  /\ Claim(a, s) \in AppTypes
           /\ Claim(a, s).content = a.content
           /\ Claim(a, s).dialing = a.dialing
           /\ Claim(a, s).pending = a.pending
           /\ Claim(a, s).probing = a.probing
           /\ Claim(a, s).auto = a.auto
           /\ Claim(a, s).dials = [a.dials EXCEPT ![s] = @ - 1]
           /\ Claim(a, s).tickets = Claim(a, s).dials
<1> DEFINE d == [a.dials EXCEPT ![s] = @ - 1]
<1>1. d \in [Slots -> Nat] /\ d = [a.tickets EXCEPT ![s] = @ - 1]
  BY DEF AppTypes
<1>2. Claim(a, s) = [a EXCEPT !.dials = d, !.tickets = d]
  BY <1>1 DEF Claim, AppTypes
<1> HIDE DEF d
<1>3. /\ Claim(a, s) \in AppTypes
      /\ Claim(a, s).dials = d /\ Claim(a, s).tickets = d
      /\ Claim(a, s).content = a.content
      /\ Claim(a, s).dialing = a.dialing
      /\ Claim(a, s).pending = a.pending
      /\ Claim(a, s).probing = a.probing
      /\ Claim(a, s).auto = a.auto
  BY <1>1, <1>2 DEF AppTypes
<1> QED
  BY <1>3 DEF d

\* What a handler leaves is what the next one finds.
LEMMA FoundAsLeft ==
    ASSUME NEW b, Right(b), Waits(b), Becomes(b)
    PROVE  Right(App)' /\ Waits(App)'
<1> DEFINE a == [content |-> content', dialing |-> dialing', pending |-> pending',
                 probing |-> probing', auto |-> auto', dials |-> dials',
                 tickets |-> tickets']
<1>1. /\ a.content = b.content /\ a.dialing = b.dialing
      /\ a.pending = b.pending /\ a.probing = b.probing
      /\ a.auto = b.auto /\ a.dials = b.dials /\ a.tickets = b.tickets
  BY DEF Becomes
<1>2. a \in AppTypes
  BY <1>1 DEF Right, AppTypes
<1> HIDE DEF a
<1>3. Right(a) /\ Waits(a)
  BY <1>1, <1>2 DEF Right, Waits, Holder, GateOpen
<1>4. (Right(App)' <=> Right(a)) /\ (Waits(App)' <=> Waits(a))
  BY DEF App, a, Right, Waits, Holder, GateOpen, AppTypes
<1> QED
  BY <1>3, <1>4

LEMMA PartsOfApp ==
    /\ App.content = content /\ App.dialing = dialing
    /\ App.pending = pending /\ App.probing = probing
    /\ App.auto = auto /\ App.dials = dials /\ App.tickets = tickets
BY DEF App
-----------------------------------------------------------------------------
(* The handlers.                                                           *)

LEMMA RestoreHistoryKeeps ==
    ASSUME DialsRight, NEW r \in Records, RestoreHistory(r)
    PROVE  DialsRight'
<1> DEFINE c == [t \in Tabs |-> IF t \in r \ gone THEN "restored"
                                             ELSE App.content[t]]
           x == [on |-> TRUE, tried |-> {}]
           b == [App EXCEPT !.content = c, !.auto = x]
<1>1. /\ App \in AppTypes /\ Right(App)
      /\ \A t \in r : content[t] = "absent"
      /\ r \subseteq Tabs
  BY RestoreConstants DEF DialsRight, Right, RestoreHistory
<1>2. Becomes(AdvanceAuto(b))
  BY DEF RestoreHistory
<1>3. c \in [Tabs -> Contents] /\ x \in [on : BOOLEAN, tried : SUBSET Tabs]
  BY <1>1, PartsOfApp DEF AppTypes, Contents
<1>4. \A t \in Tabs : \/ c[t] = content[t]
                      \/ content[t] = "absent" /\ c[t] = "restored"
  BY <1>1, PartsOfApp
<1> HIDE DEF c, x
<1>5. /\ b \in AppTypes /\ b.content = c /\ b.dialing = dialing
      /\ b.pending = pending /\ b.probing = probing
      /\ b.dials = dials /\ b.tickets = tickets
  BY <1>1, <1>3, PartsOfApp DEF AppTypes
<1> HIDE DEF b
<1>6. Right(b)
  <2>1. Holder(b) = Holder(App) /\ Holder(App) \subseteq Tabs
    BY <1>1, <1>5, PartsOfApp DEF Holder, AppTypes, Slots
  <2>2. \A t \in Holder(App) : content[t] # "absent" /\ c[t] = content[t]
    BY <1>1, <1>4, <2>1, PartsOfApp DEF Right
  <2>3. \A t \in Tabs : t \notin Holder(App) => ~dialing[t]
    BY <1>1, PartsOfApp DEF Right
  <2>4. \A t \in Tabs : dialing[t] <=> c[t] = "restored" /\ t \in Holder(App)
    BY <1>1, <2>2, <2>3, PartsOfApp DEF Right
  <2> QED
    BY <1>1, <1>5, <2>1, <2>2, <2>4, PartsOfApp DEF Right
<1> QED
  BY <1>2, <1>6, AdvancingIsRight, FoundAsLeft DEF DialsRight

LEMMA UserConnectKeeps ==
    ASSUME DialsRight, UserConnect
    PROVE  DialsRight'
<1> DEFINE b == SpawnConnect(App, None)
<1>1. App \in AppTypes /\ None \in Slots
  BY DEF DialsRight, Right, Slots
<1>2. Becomes(b)
  BY DEF UserConnect
<1>3. /\ b \in AppTypes /\ b.content = App.content /\ b.dialing = App.dialing
      /\ b.pending = App.pending /\ b.probing = App.probing
      /\ b.auto = App.auto /\ b.dials = [App.dials EXCEPT ![None] = @ + 1]
      /\ b.tickets = [App.tickets EXCEPT ![None] = @ + 1]
  BY <1>1, SpawnAdds
<1> HIDE DEF b
<1>4. Right(b) /\ Waits(b)
  BY <1>1, <1>3 DEF DialsRight, Right, Waits, Holder, GateOpen
<1> QED
  BY <1>2, <1>4, FoundAsLeft DEF DialsRight

LEMMA UserCloseTabKeeps ==
    ASSUME DialsRight, NEW t \in Tabs, UserCloseTab(t)
    PROVE  DialsRight'
<1> DEFINE c == [content EXCEPT ![t] = "closed"]
           f == [dialing EXCEPT ![t] = FALSE]
           b == [App EXCEPT !.content = c, !.dialing = f]
<1>1. App \in AppTypes /\ Right(App)
  BY DEF DialsRight, Right
<1>2. c \in [Tabs -> Contents] /\ f \in [Tabs -> BOOLEAN]
  BY <1>1, PartsOfApp DEF AppTypes, Contents
<1>3. /\ b \in AppTypes /\ b.content = c /\ b.dialing = f
      /\ b.pending = pending /\ b.probing = probing /\ b.auto = auto
      /\ b.dials = dials /\ b.tickets = tickets
  BY <1>1, <1>2, PartsOfApp DEF AppTypes
<1>4. Becomes(b)
  BY <1>3 DEF UserCloseTab, Becomes
<1> HIDE DEF b
<1>5. Right(b)
  BY <1>1, <1>2, <1>3, PartsOfApp DEF Right, Holder, AppTypes
<1>6. Waits(b)
  BY <1>3, PartsOfApp DEF DialsRight, Waits, GateOpen
<1> QED
  BY <1>4, <1>5, <1>6, FoundAsLeft DEF DialsRight

LEMMA DemoteFilesTabKeeps ==
    ASSUME DialsRight, NEW t \in Tabs, DemoteFilesTab(t)
    PROVE  DialsRight'
<1> DEFINE c == [content EXCEPT ![t] = "restored"]
           b == [App EXCEPT !.content = c]
<1>1. App \in AppTypes /\ Right(App) /\ content[t] = "files"
  BY DEF DialsRight, Right, DemoteFilesTab
<1>2. c \in [Tabs -> Contents]
  BY <1>1, PartsOfApp DEF AppTypes, Contents
<1>3. /\ b \in AppTypes /\ b.content = c /\ b.dialing = dialing
      /\ b.pending = pending /\ b.probing = probing /\ b.auto = auto
      /\ b.dials = dials /\ b.tickets = tickets
  BY <1>1, <1>2, PartsOfApp DEF AppTypes
<1>4. Becomes(Reconnect(b, t))
  <2>1. [App EXCEPT !.content[t] = "restored"] = b
    BY <1>1, PartsOfApp DEF AppTypes
  <2> HIDE DEF b
  <2> QED
    BY <2>1 DEF DemoteFilesTab
<1> HIDE DEF b
<1>5. Right(b)
  BY <1>1, <1>2, <1>3, PartsOfApp DEF Right, Holder, AppTypes
<1>6. Waits(b)
  BY <1>3, PartsOfApp DEF DialsRight, Waits, GateOpen
<1> QED
  BY <1>4, <1>5, <1>6, ReconnectIsRight, FoundAsLeft DEF DialsRight

LEMMA OnConnectErrKeeps ==
    ASSUME DialsRight, NEW s \in Slots, OnConnectErr(s)
    PROVE  DialsRight'
<1> DEFINE a == Claim(App, s)
           b == SlotCleared(a)
<1>1. App \in AppTypes /\ Right(App) /\ None \in Slots
  BY DEF DialsRight, Right, Slots
<1>2. Becomes(AdvanceAuto(b))
  BY DEF OnConnectErr
<1>3. /\ a \in AppTypes /\ a.content = content /\ a.dialing = dialing
      /\ a.pending = pending /\ a.probing = probing
      /\ a.tickets = a.dials
  BY <1>1, ClaimTakes, PartsOfApp DEF OnConnectErr, Right
<1> HIDE DEF a
<1>4. CASE pending = None
  <2>1. b = a
    BY <1>3, <1>4 DEF SlotCleared
  <2> HIDE DEF b
  <2>2. Right(b)
    BY <1>1, <1>3, <1>4, <2>1, PartsOfApp DEF Right, Holder
  <2> QED
    BY <1>2, <2>2, AdvancingIsRight, FoundAsLeft DEF DialsRight
<1>5. CASE pending # None
  <2>1. b = [a EXCEPT !.dialing[pending] = FALSE, !.pending = None]
    BY <1>3, <1>5 DEF SlotCleared
  <2>2. pending \in Tabs
    BY <1>1, <1>5, PartsOfApp DEF AppTypes, Slots
  <2> HIDE DEF b
  <2>3. /\ b \in AppTypes /\ b.content = content /\ b.pending = None
        /\ b.probing = probing /\ b.dialing = [dialing EXCEPT ![pending] = FALSE]
        /\ b.tickets = b.dials
    BY <1>1, <1>3, <2>1, <2>2, PartsOfApp DEF AppTypes
  <2>4. Right(b)
    BY <1>1, <1>5, <2>2, <2>3, PartsOfApp DEF Right, Holder, AppTypes
  <2> QED
    BY <1>2, <2>4, AdvancingIsRight, FoundAsLeft DEF DialsRight
<1> QED
  BY <1>4, <1>5

LEMMA OnConnectOkKeeps ==
    ASSUME DialsRight, NEW s \in Slots, OnConnectOk(s)
    PROVE  DialsRight'
<1> DEFINE p == pending
           a == Claim(App, s)
           over == [a EXCEPT !.pending = None]
<1>1. App \in AppTypes /\ Right(App) /\ None \in Slots
  BY DEF DialsRight, Right, Slots
<1>2. /\ over \in AppTypes /\ over.content = content /\ over.dialing = dialing
      /\ over.pending = None /\ over.probing = probing
      /\ over.tickets = over.dials
  <2>1. /\ a \in AppTypes /\ a.content = content /\ a.dialing = dialing
        /\ a.probing = probing /\ a.tickets = a.dials
    BY <1>1, ClaimTakes, PartsOfApp DEF OnConnectOk, Right
  <2> HIDE DEF a
  <2> QED
    BY <1>1, <2>1 DEF AppTypes
<1>3. CASE p # None /\ content[p] = "restored"
  <2>1. PICK kind \in Brings(s) :
           Becomes(AdvanceAuto([over EXCEPT !.content[p] = kind,
                                            !.dialing[p] = FALSE]))
    BY <1>3 DEF OnConnectOk
  <2> DEFINE b == [over EXCEPT !.content[p] = kind, !.dialing[p] = FALSE]
  <2>2. p \in Tabs /\ kind \in Connected /\ kind \in Contents
    BY <1>1, <1>3, PartsOfApp DEF AppTypes, Slots, Brings, Connected, Contents
  <2> HIDE DEF over
  <2>3. /\ b \in AppTypes /\ b.content = [content EXCEPT ![p] = kind]
        /\ b.dialing = [dialing EXCEPT ![p] = FALSE] /\ b.pending = None
        /\ b.probing = probing /\ b.tickets = b.dials
    BY <1>1, <1>2, <2>2, PartsOfApp DEF AppTypes
  <2> HIDE DEF b
  <2>4. Right(b)
    BY <1>1, <1>3, <2>2, <2>3, PartsOfApp DEF Right, Holder, AppTypes, Connected
  <2> QED
    BY <2>1, <2>4, AdvancingIsRight, FoundAsLeft DEF DialsRight, b
<1>4. CASE ~(p # None /\ content[p] = "restored")
  <2>1. Becomes(AdvanceAuto(over))
    BY <1>4 DEF OnConnectOk
  <2> HIDE DEF over
  <2>2. Right(over)
    BY <1>1, <1>2, <1>4, PartsOfApp DEF Right, Holder, AppTypes
  <2> QED
    BY <2>1, <2>2, AdvancingIsRight, FoundAsLeft DEF DialsRight
<1> QED
  BY <1>3, <1>4

LEMMA OnRestoreNodesPickedKeeps ==
    ASSUME DialsRight, OnRestoreNodesPicked
    PROVE  DialsRight'
<1> DEFINE t == probing
           a == [App EXCEPT !.probing = None]
<1>1. /\ App \in AppTypes /\ Right(App) /\ None \in Slots
      /\ probing # None /\ t \in Tabs /\ pending = None
  BY PartsOfApp DEF DialsRight, Right, Slots, AppTypes, OnRestoreNodesPicked
<1>2. /\ a \in AppTypes /\ a.content = content /\ a.dialing = dialing
      /\ a.pending = None /\ a.probing = None
      /\ a.dials = dials /\ a.tickets = dials
  BY <1>1, PartsOfApp DEF AppTypes, Right
<1>3. CASE content[t] # "restored"
  <2>1. Becomes(AdvanceAuto(a))
    BY <1>3 DEF OnRestoreNodesPicked
  <2> HIDE DEF a
  <2>2. Right(a)
    BY <1>1, <1>2, <1>3, PartsOfApp DEF Right, Holder
  <2> QED
    BY <2>1, <2>2, AdvancingIsRight, FoundAsLeft DEF DialsRight
<1> DEFINE b == Freed(a, t)
<1>4. /\ b \in AppTypes /\ b.content = content
      /\ b.dialing = [dialing EXCEPT ![t] = FALSE]
      /\ b.pending = None /\ b.probing = None
      /\ b.dials = dials /\ b.tickets = dials
  <2> HIDE DEF a
  <2> QED
    BY <1>1, <1>2 DEF Freed, AppTypes
<1>5. Right(b)
  <2> HIDE DEF b
  <2> QED
    BY <1>1, <1>4, PartsOfApp DEF Right, Holder, AppTypes
<1>6. CASE content[t] = "restored" /\ Startable(a, t)
  <2>1. Becomes(Dialled(a, t))
    BY <1>6 DEF OnRestoreNodesPicked
  <2> DEFINE x == [a EXCEPT !.pending = t, !.dialing[t] = TRUE]
             d == SpawnConnect(x, t)
  <2> HIDE DEF a
  <2>2. /\ x \in AppTypes /\ x.content = content /\ x.pending = t
        /\ x.probing = None /\ x.dials = dials /\ x.tickets = dials
        /\ x.dialing = [dialing EXCEPT ![t] = TRUE]
    BY <1>1, <1>2 DEF AppTypes, Slots
  <2>3. Becomes(d)
    BY <2>1 DEF Dialled
  <2> HIDE DEF x
  <2>4. /\ d \in AppTypes /\ d.content = content /\ d.pending = t
        /\ d.probing = None /\ d.dials = [dials EXCEPT ![t] = @ + 1]
        /\ d.tickets = d.dials /\ d.dialing = [dialing EXCEPT ![t] = TRUE]
    BY <1>1, <2>2, SpawnAdds DEF Slots
  <2> HIDE DEF d
  <2>5. Right(d) /\ Waits(d)
    BY <1>1, <1>6, <2>4, PartsOfApp DEF Right, Waits, GateOpen, Holder, AppTypes
  <2> QED
    BY <2>3, <2>5, FoundAsLeft DEF DialsRight
<1>7. CASE content[t] = "restored" /\ ~Startable(a, t)
  <2>1. Becomes(AdvanceAuto(b))
    BY <1>7 DEF OnRestoreNodesPicked
  <2> QED
    BY <2>1, <1>5, AdvancingIsRight, FoundAsLeft DEF DialsRight
<1> QED
  BY <1>3, <1>6, <1>7
-----------------------------------------------------------------------------
(* The queue of leaves.                                                    *)

LEMMA FarLeavesAreLeaves ==
    ASSUME NEW t \in Tabs
    PROVE  FarLeavesOf(t) \in Seq(Leaves)
<1>1. FarLeaves[t] \in Nat
  BY RestoreConstants
<1>2. \A i \in 1 .. FarLeaves[t] : <<t, i>> \in Leaves
  BY DEF Leaves
<1> QED
  BY <1>1, <1>2 DEF FarLeavesOf

\* drive_restore_dial leaves a queue only behind a leaf that is being dialled.
LEMMA DrivingKeepsLeaves ==
    ASSUME NEW c, NEW q \in Seq(Leaves), NEW b \in BOOLEAN,
           NEW rs \in SUBSET (Leaves \union Moves),
           b => rs \cap Leaves # {},
           DriveRestoreDial(c, q, b, rs)
    PROVE  LeafTypes' /\ LeavesWait'
<1> DEFINE able == {i \in DOMAIN q : Dialable(c, q[i])}
           k == Min(able)
<1>1. CASE b
  BY <1>1 DEF DriveRestoreDial, LeafTypes, LeavesWait
<1>2. CASE ~b /\ able = {}
  <2>1. queue' = <<>> /\ busy' = FALSE /\ rehosts' = rs
    BY <1>2 DEF DriveRestoreDial
  <2>2. <<>> \in Seq(Leaves)
    OBVIOUS
  <2> QED
    BY <2>1, <2>2 DEF LeafTypes, LeavesWait
<1>3. CASE ~b /\ able # {}
  <2>1. k \in 1 .. Len(q)
    <3>1. able \in SUBSET Nat /\ able \subseteq 1 .. Len(q)
      OBVIOUS
    <3> HIDE DEF able
    <3> QED
      BY <1>3, <3>1, MinExists
  <2>2. /\ queue' = SubSeq(q, k + 1, Len(q)) /\ busy' = TRUE
        /\ rehosts' = rs \union {q[k]}
    BY <1>3 DEF DriveRestoreDial
  <2> HIDE DEF k
  <2>3. q[k] \in Leaves /\ SubSeq(q, k + 1, Len(q)) \in Seq(Leaves)
    BY <2>1
  <2> QED
    BY <2>2, <2>3 DEF LeafTypes, LeavesWait
<1> QED
  BY <1>1, <1>2, <1>3

-----------------------------------------------------------------------------

LEMMA RestoreInvIsKept == RestoreInv /\ [Next]_vars => RestoreInv'
<1> SUFFICES ASSUME RestoreInv, [Next]_vars PROVE RestoreInv'
  OBVIOUS
<1> USE DEF RestoreInv
<1>0. ASSUME UNCHANGED leafVars PROVE LeafTypes' /\ LeavesWait'
  BY <1>0 DEF leafVars, LeafTypes, LeavesWait
<1>a. ASSUME UNCHANGED restoreVars PROVE DialsRight'
  BY <1>a DEF restoreVars, DialsRight, Right, Waits, GateOpen, Holder, App
<1>1. ASSUME NEW r \in Records, RestoreHistory(r) PROVE RestoreInv'
  BY <1>0, <1>1, RestoreHistoryKeeps DEF RestoreHistory
<1>2. ASSUME NEW t \in Tabs, UserReconnect(t) PROVE RestoreInv'
  BY <1>0, <1>2, ReconnectIsRight, FoundAsLeft DEF UserReconnect, DialsRight
<1>3. ASSUME NEW t \in Tabs, UserCloseTab(t) PROVE RestoreInv'
  BY <1>0, <1>3, UserCloseTabKeeps DEF UserCloseTab
<1>4. ASSUME NEW t \in Tabs, UserDeletesSession(t) PROVE RestoreInv'
  BY <1>0, <1>a, <1>4 DEF UserDeletesSession
<1>5. ASSUME NEW t \in Tabs, DemoteFilesTab(t) PROVE RestoreInv'
  BY <1>0, <1>5, DemoteFilesTabKeeps DEF DemoteFilesTab
<1>6. ASSUME NEW t \in Tabs, UserMovesPane(t) PROVE RestoreInv'
  <2>1. LeafTypes' /\ LeavesWait'
    BY <1>6 DEF UserMovesPane, LeafTypes, LeavesWait, Moves
  <2> QED
    BY <1>a, <1>6, <2>1 DEF UserMovesPane
<1>7. CASE UserConnect
  BY <1>0, <1>7, UserConnectKeeps DEF UserConnect
<1>8. ASSUME NEW s \in Slots, OnConnectOk(s) PROVE RestoreInv'
  <2>1. CASE UNCHANGED leafVars
    BY <1>0, <1>8, <2>1, OnConnectOkKeeps
  <2>2. CASE ~UNCHANGED leafVars
    <3>1. PICK c : DriveRestoreDial(c, queue \o FarLeavesOf(pending), busy, rehosts)
      BY <1>8, <2>2 DEF OnConnectOk
    <3>2. pending \in Tabs
      BY <1>8, <2>2, PartsOfApp
         DEF OnConnectOk, DialsRight, Right, AppTypes, Slots
    <3>3. queue \o FarLeavesOf(pending) \in Seq(Leaves)
      BY <3>2, FarLeavesAreLeaves DEF LeafTypes
    <3> QED
      BY <1>8, <3>1, <3>3, DrivingKeepsLeaves, OnConnectOkKeeps
         DEF LeafTypes, LeavesWait
  <2> QED
    BY <2>1, <2>2
<1>9. ASSUME NEW s \in Slots, OnConnectErr(s) PROVE RestoreInv'
  BY <1>0, <1>9, OnConnectErrKeeps DEF OnConnectErr
<1>10. CASE OnRestoreNodesPicked
  BY <1>0, <1>10, OnRestoreNodesPickedKeeps DEF OnRestoreNodesPicked
<1>11. ASSUME NEW r \in Leaves \union Moves, RehostEnds(r) PROVE RestoreInv'
  <2>1. DriveRestoreDial(content, queue, FALSE, rehosts \ {r})
    BY <1>11 DEF RehostEnds, NoLongerBusy
  <2>2. LeafTypes' /\ LeavesWait'
    BY <2>1, DrivingKeepsLeaves DEF LeafTypes
  <2> QED
    BY <1>a, <1>11, <2>2 DEF RehostEnds
<1>12. CASE UNCHANGED vars
  BY <1>0, <1>a, <1>12 DEF vars
<1> QED
  BY <1>1, <1>2, <1>3, <1>4, <1>5, <1>6, <1>7, <1>8, <1>9, <1>10, <1>11, <1>12
     DEF Next, User, DialEnds

LEMMA RestoreInvInitially == Init => RestoreInv
<1> SUFFICES ASSUME Init PROVE RestoreInv
  OBVIOUS
<1> USE DEF Init
<1>1. App \in AppTypes
  BY DEF App, AppTypes, Contents, Slots
<1>2. DialsRight
  <2>1. Holder(App) = {} /\ App.pending = None /\ App.tickets = App.dials
    BY PartsOfApp DEF Holder
  <2>2. \A t \in Tabs : ~App.dialing[t]
    BY PartsOfApp
  <2>3. ~App.auto.on
    BY PartsOfApp
  <2> QED
    BY <1>1, <2>1, <2>2, <2>3 DEF DialsRight, Right, Waits
<1>3. LeafTypes /\ LeavesWait
  <2>1. <<>> \in Seq(Leaves)
    OBVIOUS
  <2> QED
    BY <2>1 DEF LeafTypes, LeavesWait
<1> QED
  BY <1>2, <1>3 DEF RestoreInv

-----------------------------------------------------------------------------
(* The bounds of the model, for the types of its variables.  A dial is      *)
(* counted by its ticket and a probe by the dial that may follow it; the     *)
(* claim of one event makes room for what the automatic queue starts next.   *)

Flight(d) == UNION {{s} \X (1 .. d[s]) : s \in Slots}
Held(a) == IF a.probing = None THEN 0 ELSE 1

\* At most m dials are in flight, the one a probe may become included.
Carries(a, m) ==
    /\ IsFiniteSet(Flight(a.dials))
    /\ Cardinality(Flight(a.dials)) + Held(a) <= m

TablesBounded ==
    /\ Carries(App, MaxDials)
    /\ gone \subseteq Tabs
    /\ demotions \in 0 .. MaxDemotions

LEMMA OneMoreDial ==
    ASSUME NEW d \in [Slots -> Nat], NEW s \in Slots, IsFiniteSet(Flight(d))
    PROVE  LET e == [d EXCEPT ![s] = @ + 1]
           IN  /\ IsFiniteSet(Flight(e))
               /\ Cardinality(Flight(e)) <= Cardinality(Flight(d)) + 1
<1> DEFINE e == [d EXCEPT ![s] = @ + 1]
           new == <<s, d[s] + 1>>
<1>1. Flight(e) = Flight(d) \union {new}
  <2>1. \A u \in Slots : u # s => e[u] = d[u]
    OBVIOUS
  <2>2. {s} \X (1 .. e[s]) = ({s} \X (1 .. d[s])) \union {new}
    <3>1. e[s] = d[s] + 1 /\ d[s] \in Nat
      OBVIOUS
    <3>2. 1 .. e[s] = (1 .. d[s]) \union {d[s] + 1}
      BY <3>1
    <3> QED
      BY <3>2
  <2> HIDE DEF e, new
  <2>3. \A u \in Slots : {u} \X (1 .. e[u]) \subseteq Flight(d) \union {new}
    BY <2>1, <2>2 DEF Flight
  <2>4. \A u \in Slots : {u} \X (1 .. d[u]) \subseteq Flight(e)
    BY <2>1, <2>2 DEF Flight
  <2>5. new \in Flight(e)
    BY <2>2 DEF Flight
  <2> QED
    BY <2>3, <2>4, <2>5 DEF Flight
<1> HIDE DEF e, new
<1>2. Cardinality(Flight(d)) \in Nat
  BY FS_CardinalityType
<1>3. /\ IsFiniteSet(Flight(e))
      /\ Cardinality(Flight(e)) <= Cardinality(Flight(d)) + 1
  <2>1. /\ IsFiniteSet(Flight(d) \union {new})
        /\ Cardinality(Flight(d) \union {new}) =
             IF new \in Flight(d) THEN Cardinality(Flight(d))
                                  ELSE Cardinality(Flight(d)) + 1
    BY FS_AddElement, Zenon
  <2> QED
    BY <1>1, <1>2, <2>1
<1> QED
  BY <1>3 DEF e

LEMMA OneDialLess ==
    ASSUME NEW d \in [Slots -> Nat], NEW s \in Slots, d[s] > 0,
           IsFiniteSet(Flight(d))
    PROVE  LET e == [d EXCEPT ![s] = @ - 1]
           IN  /\ IsFiniteSet(Flight(e))
               /\ Cardinality(Flight(e)) = Cardinality(Flight(d)) - 1
<1> DEFINE e == [d EXCEPT ![s] = @ - 1]
           last == <<s, d[s]>>
<1>1. Flight(e) = Flight(d) \ {last} /\ last \in Flight(d)
  <2>1. \A u \in Slots : u # s => e[u] = d[u]
    OBVIOUS
  <2>2. {s} \X (1 .. e[s]) = ({s} \X (1 .. d[s])) \ {last}
    <3>1. e[s] = d[s] - 1 /\ d[s] \in Nat
      OBVIOUS
    <3>2. 1 .. e[s] = (1 .. d[s]) \ {d[s]}
      BY <3>1
    <3> QED
      BY <3>2
  <2>3. last \in {s} \X (1 .. d[s])
    OBVIOUS
  <2>4. \A u \in Slots : u # s => last \notin {u} \X (1 .. d[u])
    OBVIOUS
  <2> HIDE DEF e, last
  <2>5. \A u \in Slots : {u} \X (1 .. e[u]) = ({u} \X (1 .. d[u])) \ {last}
    BY <2>1, <2>2, <2>4
  <2> QED
    BY <2>3, <2>5 DEF Flight
<1> HIDE DEF e, last
<1>2. /\ IsFiniteSet(Flight(e))
      /\ Cardinality(Flight(e)) = Cardinality(Flight(d)) - 1
  BY <1>1, FS_RemoveElement
<1> QED
  BY <1>2 DEF e

LEMMA DiallingAddsOne ==
    ASSUME NEW a \in AppTypes, NEW t \in Tabs, a.probing = None,
           NEW m \in Int, Carries(a, m - 1)
    PROVE  Carries(Dialled(a, t), m)
<1> DEFINE x == [a EXCEPT !.pending = t, !.dialing[t] = TRUE]
           b == Dialled(a, t)
<1>1. /\ t \in Slots /\ a.dials \in [Slots -> Nat]
      /\ Cardinality(Flight(a.dials)) \in Nat
  BY FS_CardinalityType DEF Slots, AppTypes, Carries
<1>2. x \in AppTypes /\ x.dials = a.dials /\ x.probing = None
  BY <1>1 DEF AppTypes
<1>3. b = SpawnConnect(x, t)
  BY DEF Dialled
<1> HIDE DEF x, b
<1>4. b.dials = [a.dials EXCEPT ![t] = @ + 1] /\ b.probing = None
  <2>1. /\ SpawnConnect(x, t).dials = [x.dials EXCEPT ![t] = @ + 1]
        /\ SpawnConnect(x, t).probing = x.probing
    BY <1>1, <1>2, SpawnAdds, Zenon
  <2> QED
    BY <1>2, <1>3, <2>1
<1>5. /\ IsFiniteSet(Flight(b.dials))
      /\ Cardinality(Flight(b.dials)) <= Cardinality(Flight(a.dials)) + 1
  BY <1>1, <1>4, OneMoreDial DEF Carries
<1>6. Cardinality(Flight(b.dials)) \in Nat /\ Held(a) = 0 /\ Held(b) = 0
  BY <1>4, <1>5, FS_CardinalityType DEF Held
<1>7. Carries(b, m)
  BY <1>1, <1>5, <1>6 DEF Carries
<1> QED
  BY <1>7 DEF b

\* reconnect_tab holds the gate for one dial or one probe more.
LEMMA StartingAddsOne ==
    ASSUME NEW a \in AppTypes, NEW t \in Tabs, Startable(a, t),
           NEW m \in Int, Carries(a, m - 1)
    PROVE  Carries(Started(a, t), m)
<1>1. a.probing = None /\ Cardinality(Flight(a.dials)) \in Nat
  BY FS_CardinalityType DEF Startable, GateOpen, Carries
<1>2. CASE t \in ProjectTabs
  <2> DEFINE b == Probed(a, t)
  <2>1. b.dials = a.dials
    BY DEF Probed, AppTypes
  <2> HIDE DEF b
  <2>2. Held(a) = 0 /\ Held(b) \in {0, 1}
    BY <1>1 DEF Held
  <2>3. Carries(b, m)
    BY <1>1, <2>1, <2>2 DEF Carries
  <2> QED
    BY <1>2, <2>3 DEF Started, b
<1>3. CASE t \notin ProjectTabs
  BY <1>1, <1>3, DiallingAddsOne DEF Started
<1> QED
  BY <1>2, <1>3

LEMMA RoomForMore ==
    ASSUME NEW a, NEW m \in Int, Carries(a, m - 1) PROVE Carries(a, m)
<1>1. Cardinality(Flight(a.dials)) \in Nat /\ Held(a) \in {0, 1}
  BY FS_CardinalityType DEF Carries, Held
<1> QED
  BY <1>1 DEF Carries

LEMMA ReconnectAddsOne ==
    ASSUME NEW a \in AppTypes, NEW t \in Tabs, NEW m \in Int, Carries(a, m - 1)
    PROVE  Carries(Reconnect(a, t), m)
BY StartingAddsOne, RoomForMore DEF Reconnect

\* advance_auto_dial leaves what it has found, but for what the automatic queue
\* remembers, or starts one placeholder that can be started.
LEMMA AdvanceForms ==
    ASSUME NEW a \in AppTypes
    PROVE  \E b \in AppTypes :
              /\ b.content = a.content /\ b.dialing = a.dialing
              /\ b.pending = a.pending /\ b.probing = a.probing
              /\ b.dials = a.dials /\ b.tickets = a.tickets
              /\ \/ AdvanceAuto(a) = b
                 \/ \E t \in Tabs : Startable(b, t) /\ AdvanceAuto(a) = Started(b, t)
<1> DEFINE able == {t \in Untried(a) : Startable(a, t)}
           next == Min(able)
           seen == a.auto.tried \union {t \in Untried(a) : t <= next}
<1>1. a.auto \in [on : BOOLEAN, tried : SUBSET Tabs]
  BY DEF AppTypes
<1>2. \A x \in [on : BOOLEAN, tried : SUBSET Tabs] :
         LET b == [a EXCEPT !.auto = x]
         IN  /\ b \in AppTypes /\ b.content = a.content /\ b.dialing = a.dialing
             /\ b.pending = a.pending /\ b.probing = a.probing
             /\ b.dials = a.dials /\ b.tickets = a.tickets
  BY DEF AppTypes
<1>3. CASE ~a.auto.on
  BY <1>3 DEF AdvanceAuto
<1>4. CASE a.auto.on /\ able = {}
  <2>1. AdvanceAuto(a) = AutoOff(a)
    BY <1>4 DEF AdvanceAuto
  <2> QED
    BY <1>2, <2>1 DEF AutoOff
<1>5. CASE a.auto.on /\ able # {}
  <2>1. next \in Tabs /\ Startable(a, next)
    <3>1. able \in SUBSET Nat /\ able \subseteq Tabs
      BY RestoreConstants DEF Untried
    <3>2. next \in able
      <4> HIDE DEF able
      <4> QED
        BY <1>5, <3>1, MinExists
    <3> QED
      BY <3>1, <3>2
  <2> DEFINE b == [a EXCEPT !.auto.tried = @ \union
                               {t \in Untried(a) : t <= next}]
  <2>2. AdvanceAuto(a) = Started(b, next)
    BY <1>5 DEF AdvanceAuto
  <2>3. b = [a EXCEPT !.auto = [a.auto EXCEPT !.tried = seen]]
    BY <1>1 DEF AppTypes
  <2>4. [a.auto EXCEPT !.tried = seen] \in [on : BOOLEAN, tried : SUBSET Tabs]
    BY <1>1 DEF Untried
  <2> HIDE DEF b, seen, next
  <2>5. /\ b \in AppTypes /\ b.content = a.content /\ b.dialing = a.dialing
        /\ b.pending = a.pending /\ b.probing = a.probing
        /\ b.dials = a.dials /\ b.tickets = a.tickets
    BY <1>2, <2>3, <2>4
  <2>6. Startable(b, next)
    BY <2>1, <2>5 DEF Startable, GateOpen
  <2> QED
    BY <2>1, <2>2, <2>5, <2>6
<1> QED
  BY <1>3, <1>4, <1>5

\* So it starts at most one.
LEMMA AdvancingAddsOne ==
    ASSUME NEW a \in AppTypes, NEW m \in Int, Carries(a, m - 1)
    PROVE  Carries(AdvanceAuto(a), m)
<1>1. PICK b \in AppTypes :
         /\ b.probing = a.probing /\ b.dials = a.dials
         /\ \/ AdvanceAuto(a) = b
            \/ \E t \in Tabs : Startable(b, t) /\ AdvanceAuto(a) = Started(b, t)
  BY AdvanceForms
<1>2. Carries(b, m - 1)
  BY <1>1 DEF Carries, Held
<1> QED
  BY <1>1, <1>2, RoomForMore, StartingAddsOne

\* What a handler leaves is what the next one counts.
LEMMA CountedAsLeft ==
    ASSUME NEW b, Becomes(b), Carries(b, MaxDials)
    PROVE  Carries(App, MaxDials)'
<1>1. dials' = b.dials /\ probing' = b.probing
  BY DEF Becomes
<1>2. Flight(dials') = Flight(b.dials) /\ Flight(App.dials)' = Flight(dials')
  BY <1>1 DEF Flight, App, Slots
<1>3. Held(App)' = Held(b)
  BY <1>1 DEF Held, App
<1> QED
  BY <1>2, <1>3 DEF Carries

\* A handler of the user's starts only what there is room for.
LEMMA RoomLeavesOne ==
    ASSUME DialsRight, Room
    PROVE  IsFiniteSet(Flight(dials)) => Carries(App, MaxDials - 1)
<1>1. InFlight = Cardinality(Flight(dials)) /\ Held(App) = IF probing = None THEN 0 ELSE 1
  BY PartsOfApp DEF InFlight, Flight, Held
<1>2. IsFiniteSet(Flight(dials)) => Cardinality(Flight(dials)) \in Nat
  BY FS_CardinalityType
<1> QED
  BY <1>1, <1>2, PartsOfApp, RestoreConstants DEF Room, Carries

\* A handler that ends with a claimed dial, or with the probe, has made room
\* for what it starts.
LEMMA ClaimMakesRoom ==
    ASSUME DialsRight, NEW s \in Slots, dials[s] > 0, Carries(App, MaxDials)
    PROVE  LET a == Claim(App, s)
           IN  a \in AppTypes /\ Carries(a, MaxDials - 1)
<1> DEFINE a == Claim(App, s)
<1>1. /\ a \in AppTypes /\ a.probing = probing
      /\ a.dials = [dials EXCEPT ![s] = @ - 1] /\ dials \in [Slots -> Nat]
  BY ClaimTakes, PartsOfApp DEF DialsRight, Right, AppTypes
<1> HIDE DEF a
<1>2. /\ IsFiniteSet(Flight(dials)) /\ Cardinality(Flight(dials)) \in Nat
      /\ Cardinality(Flight(dials)) + Held(App) <= MaxDials
  BY FS_CardinalityType, PartsOfApp DEF Carries
<1>3. /\ IsFiniteSet(Flight(a.dials))
      /\ Cardinality(Flight(a.dials)) = Cardinality(Flight(dials)) - 1
  BY <1>1, <1>2, OneDialLess
<1>4. Held(a) = Held(App) /\ Held(a) \in {0, 1}
  BY <1>1, PartsOfApp DEF Held
<1>5. Carries(a, MaxDials - 1)
  BY <1>2, <1>3, <1>4, RestoreConstants DEF Carries
<1> QED
  BY <1>1, <1>5 DEF a

LEMMA ProbeMakesRoom ==
    ASSUME DialsRight, probing # None, Carries(App, MaxDials)
    PROVE  LET a == [App EXCEPT !.probing = None]
           IN  a \in AppTypes /\ a.probing = None /\ Carries(a, MaxDials - 1)
<1> DEFINE a == [App EXCEPT !.probing = None]
<1>1. a \in AppTypes /\ a.probing = None /\ a.dials = dials
  BY PartsOfApp DEF DialsRight, Right, AppTypes, Slots
<1> HIDE DEF a
<1>2. /\ IsFiniteSet(Flight(dials)) /\ Cardinality(Flight(dials)) \in Nat
      /\ Cardinality(Flight(dials)) + Held(App) <= MaxDials
      /\ Held(App) = 1 /\ Held(a) = 0
  BY <1>1, FS_CardinalityType, PartsOfApp DEF Carries, Held
<1>3. Carries(a, MaxDials - 1)
  BY <1>1, <1>2, RestoreConstants DEF Carries
<1> QED
  BY <1>1, <1>3 DEF a

\* What is written of App but its dials and its probe does not count.
LEMMA OnlyDialsCount ==
    ASSUME NEW a, NEW b, NEW m, Carries(a, m),
           b.dials = a.dials, b.probing = a.probing
    PROVE  Carries(b, m)
BY DEF Carries, Held

LEMMA DialsStayBounded ==
    ASSUME DialsRight, Carries(App, MaxDials), Next
    PROVE  Carries(App, MaxDials)'
<1>1. /\ App \in AppTypes /\ MaxDials \in Int /\ MaxDials - 1 \in Int
      /\ IsFiniteSet(Flight(dials)) /\ None \in Slots
  BY PartsOfApp, RestoreConstants DEF DialsRight, Right, Carries, Slots
<1>2. Room => Carries(App, MaxDials - 1)
  BY <1>1, RoomLeavesOne
<1>3. ASSUME UNCHANGED <<dials, probing>> PROVE Carries(App, MaxDials)'
  BY <1>3 DEF Carries, Flight, Held, App, Slots
<1>4. ASSUME NEW r \in Records, RestoreHistory(r) PROVE Carries(App, MaxDials)'
  <2> DEFINE c == [t \in Tabs |-> IF t \in r \ gone THEN "restored"
                                               ELSE App.content[t]]
             b == [App EXCEPT !.content = c, !.auto = [on |-> TRUE, tried |-> {}]]
  <2>1. Becomes(AdvanceAuto(b)) /\ Room
    BY <1>4 DEF RestoreHistory
  <2>2. c \in [Tabs -> Contents]
    BY <1>1 DEF AppTypes, Contents
  <2> HIDE DEF c
  <2>3. b \in AppTypes /\ b.dials = App.dials /\ b.probing = App.probing
    BY <1>1, <2>2 DEF AppTypes
  <2> HIDE DEF b
  <2> QED
    BY <1>1, <1>2, <2>1, <2>3, OnlyDialsCount, AdvancingAddsOne, CountedAsLeft
<1>5. ASSUME NEW t \in Tabs, UserReconnect(t) PROVE Carries(App, MaxDials)'
  BY <1>1, <1>2, <1>5, ReconnectAddsOne, CountedAsLeft DEF UserReconnect
<1>6. ASSUME NEW t \in Tabs, DemoteFilesTab(t) PROVE Carries(App, MaxDials)'
  <2> DEFINE b == [App EXCEPT !.content[t] = "restored"]
  <2>1. Becomes(Reconnect(b, t)) /\ Room
    BY <1>6 DEF DemoteFilesTab
  <2>2. b \in AppTypes /\ b.dials = App.dials /\ b.probing = App.probing
    BY <1>1 DEF AppTypes, Contents
  <2> HIDE DEF b
  <2> QED
    BY <1>1, <1>2, <2>1, <2>2, OnlyDialsCount, ReconnectAddsOne, CountedAsLeft
<1>7. CASE UserConnect
  <2> DEFINE b == SpawnConnect(App, None)
  <2>1. Becomes(b) /\ Carries(App, MaxDials - 1)
    BY <1>2, <1>7 DEF UserConnect
  <2>2. b.dials = [dials EXCEPT ![None] = @ + 1] /\ b.probing = probing
    BY <1>1, SpawnAdds, PartsOfApp
  <2> HIDE DEF b
  <2>3. /\ IsFiniteSet(Flight(b.dials))
        /\ Cardinality(Flight(b.dials)) <= Cardinality(Flight(dials)) + 1
    BY <1>1, <2>2, OneMoreDial, PartsOfApp DEF AppTypes
  <2>4. /\ Cardinality(Flight(dials)) \in Nat /\ Cardinality(Flight(b.dials)) \in Nat
        /\ Held(b) = Held(App) /\ Held(b) \in {0, 1}
        /\ Cardinality(Flight(dials)) + Held(App) <= MaxDials - 1
    BY <1>1, <2>1, <2>2, <2>3, FS_CardinalityType, PartsOfApp DEF Held, Carries
  <2>5. Carries(b, MaxDials)
    BY <1>1, <2>3, <2>4 DEF Carries
  <2> QED
    BY <2>1, <2>5, CountedAsLeft
<1>8. ASSUME NEW s \in Slots, OnConnectOk(s) PROVE Carries(App, MaxDials)'
  <2> DEFINE a == Claim(App, s)
             over == [a EXCEPT !.pending = None]
             p == pending
  <2>1. a \in AppTypes /\ Carries(a, MaxDials - 1)
    BY <1>8, ClaimMakesRoom DEF OnConnectOk
  <2>2. \/ Becomes(AdvanceAuto(over))
        \/ /\ p \in Tabs
           /\ \E kind \in Connected :
                 Becomes(AdvanceAuto([over EXCEPT !.content[p] = kind,
                                                  !.dialing[p] = FALSE]))
    <3>1. p # None => p \in Tabs
      BY <1>1, PartsOfApp DEF AppTypes, Slots
    <3>2. Brings(s) \subseteq Connected
      BY DEF Brings, Connected
    <3> QED
      BY <1>8, <3>1, <3>2 DEF OnConnectOk
  <2> HIDE DEF a
  <2>3. over \in AppTypes /\ over.dials = a.dials /\ over.probing = a.probing
    BY <1>1, <2>1 DEF AppTypes
  <2> HIDE DEF over
  <2>4. \A kind \in Connected : p \in Tabs =>
           LET b == [over EXCEPT !.content[p] = kind, !.dialing[p] = FALSE]
           IN  b \in AppTypes /\ b.dials = a.dials /\ b.probing = a.probing
    BY <2>3 DEF AppTypes, Contents, Connected
  <2>5. CASE Becomes(AdvanceAuto(over))
    BY <1>1, <2>1, <2>3, <2>5, OnlyDialsCount, AdvancingAddsOne, CountedAsLeft
  <2>6. ASSUME p \in Tabs, NEW kind \in Connected,
               Becomes(AdvanceAuto([over EXCEPT !.content[p] = kind,
                                                !.dialing[p] = FALSE]))
        PROVE  Carries(App, MaxDials)'
    <3> DEFINE b == [over EXCEPT !.content[p] = kind, !.dialing[p] = FALSE]
    <3>1. b \in AppTypes /\ b.dials = a.dials /\ b.probing = a.probing
      BY <2>4, <2>6
    <3>2. Becomes(AdvanceAuto(b))
      BY <2>6
    <3> HIDE DEF b
    <3> QED
      BY <1>1, <2>1, <3>1, <3>2, OnlyDialsCount, AdvancingAddsOne, CountedAsLeft
  <2> QED
    BY <2>2, <2>5, <2>6
<1>9. ASSUME NEW s \in Slots, OnConnectErr(s) PROVE Carries(App, MaxDials)'
  <2> DEFINE a == Claim(App, s)
             b == SlotCleared(a)
  <2>1. a \in AppTypes /\ Carries(a, MaxDials - 1)
    BY <1>9, ClaimMakesRoom DEF OnConnectErr
  <2>2. Becomes(AdvanceAuto(b))
    BY <1>9 DEF OnConnectErr
  <2> HIDE DEF a
  <2>3. b \in AppTypes /\ b.dials = a.dials /\ b.probing = a.probing
    BY <1>1, <2>1 DEF SlotCleared, AppTypes, Slots
  <2> HIDE DEF b
  <2> QED
    BY <1>1, <2>1, <2>2, <2>3, OnlyDialsCount, AdvancingAddsOne, CountedAsLeft
<1>10. CASE OnRestoreNodesPicked
  <2> DEFINE t == probing
             a == [App EXCEPT !.probing = None]
  <2>1. a \in AppTypes /\ a.probing = None /\ Carries(a, MaxDials - 1)
    BY <1>10, ProbeMakesRoom DEF OnRestoreNodesPicked
  <2>2. t \in Tabs
    BY <1>1, <1>10, PartsOfApp DEF AppTypes, Slots, OnRestoreNodesPicked
  <2>3. \/ Becomes(AdvanceAuto(a))
        \/ Becomes(Dialled(a, t))
        \/ Becomes(AdvanceAuto(Freed(a, t)))
    BY <1>10 DEF OnRestoreNodesPicked
  <2> HIDE DEF a
  <2>4. /\ Freed(a, t) \in AppTypes /\ Freed(a, t).dials = a.dials
        /\ Freed(a, t).probing = a.probing
    BY <2>1 DEF Freed, AppTypes
  <2>5. Carries(Freed(a, t), MaxDials - 1)
    BY <2>1, <2>4, OnlyDialsCount
  <2> QED
    BY <1>1, <2>1, <2>2, <2>3, <2>4, <2>5, AdvancingAddsOne, DiallingAddsOne,
       CountedAsLeft
<1>11. ASSUME NEW t \in Tabs, UserCloseTab(t) \/ UserDeletesSession(t) \/ UserMovesPane(t)
       PROVE  Carries(App, MaxDials)'
  BY <1>3, <1>11 DEF UserCloseTab, UserDeletesSession, UserMovesPane, restoreVars
<1>12. ASSUME NEW r \in Leaves \union Moves, RehostEnds(r)
       PROVE  Carries(App, MaxDials)'
  BY <1>3, <1>12 DEF RehostEnds, restoreVars
<1> QED
  BY <1>4, <1>5, <1>6, <1>7, <1>8, <1>9, <1>10, <1>11, <1>12
     DEF Next, User, DialEnds

LEMMA TablesStayBounded ==
    ASSUME RestoreInv, TablesBounded, [Next]_vars
    PROVE  TablesBounded'
<1>1. CASE UNCHANGED vars
  BY <1>1 DEF TablesBounded, vars, restoreVars, Carries, Flight, Held, App, Slots
<1>2. CASE Next
  <2>1. Carries(App, MaxDials)'
    BY <1>2, DialsStayBounded DEF RestoreInv, TablesBounded
  <2>2. \/ gone' = gone
        \/ \E t \in Tabs : gone' = gone \union {t}
    BY <1>2 DEF Next, User, DialEnds, RestoreHistory, UserReconnect,
           UserConnect, UserCloseTab, UserDeletesSession, DemoteFilesTab,
           UserMovesPane, OnConnectOk, OnConnectErr, OnRestoreNodesPicked,
           RehostEnds
  <2>3. \/ demotions' = demotions
        \/ demotions < MaxDemotions /\ demotions' = demotions + 1
    BY <1>2 DEF Next, User, DialEnds, RestoreHistory, UserReconnect,
           UserConnect, UserCloseTab, UserDeletesSession, DemoteFilesTab,
           UserMovesPane, OnConnectOk, OnConnectErr, OnRestoreNodesPicked,
           RehostEnds
  <2>4. gone' \subseteq Tabs
    BY <2>2 DEF TablesBounded
  <2>5. demotions' \in 0 .. MaxDemotions
    BY <2>3, RestoreConstants DEF TablesBounded
  <2> QED
    BY <2>1, <2>4, <2>5 DEF TablesBounded
<1> QED
  BY <1>1, <1>2

LEMMA TablesBoundedInitially == Init => TablesBounded
<1> SUFFICES ASSUME Init PROVE TablesBounded
  OBVIOUS
<1>1. Flight(dials) = {} /\ Held(App) = 0
  BY PartsOfApp DEF Init, Flight, Held
<1>2. Carries(App, MaxDials)
  <2>1. App.dials = dials /\ IsFiniteSet({}) /\ Cardinality({}) = 0
    BY FS_EmptySet, PartsOfApp
  <2>2. Flight(App.dials) = {}
    BY <1>1, <2>1
  <2>3. IsFiniteSet(Flight(App.dials)) /\ Cardinality(Flight(App.dials)) = 0
    BY <2>1, <2>2
  <2>4. MaxDials \in Nat
    BY RestoreConstants
  <2> QED
    BY <1>1, <2>3, <2>4 DEF Carries
<1> QED
  BY <1>2, RestoreConstants DEF Init, TablesBounded

-----------------------------------------------------------------------------
(* The theorems.                                                           *)

\* The invariant holds of every behaviour.
THEOREM RestoreInvariance == Spec => []RestoreInv
<1> QED
  BY RestoreInvInitially, RestoreInvIsKept, PTL DEF Spec

\* The button of a placeholder is disabled while pending_restore or
\* restore_probing names its tab, and at no other time.
THEOREM ButtonsFollowTheGate == Spec => []DialingHoldsGate
<1>1. RestoreInv => DialingHoldsGate
  BY PartsOfApp, RestoreConstants
     DEF RestoreInv, DialsRight, Right, Holder, DialingHoldsGate
<1> QED
  BY <1>1, RestoreInvariance, PTL

\* A tab in the slot has its dial in flight, and the DialLedger holds the
\* tickets of the dials in flight, no fewer and no more.
THEOREM EveryDialIsKnown == Spec => []DialsAccountedFor
<1>1. RestoreInv => DialsAccountedFor
  BY PartsOfApp DEF RestoreInv, DialsRight, Right, DialsAccountedFor
<1> QED
  BY <1>1, RestoreInvariance, PTL

\* Neither the automatic queue nor the queue of leaves waits for something
\* that has already happened.
THEOREM QueuesNeverStall == Spec => []QueuesWaitForSomething
<1>1. RestoreInv => QueuesWaitForSomething
  BY PartsOfApp
     DEF RestoreInv, DialsRight, Waits, LeavesWait, QueuesWaitForSomething
<1> QED
  BY <1>1, RestoreInvariance, PTL

\* The bounds hold of every behaviour.
THEOREM BoundInvariance == Spec => []TablesBounded
<1>1. RestoreInv /\ TablesBounded /\ [Next]_vars => TablesBounded'
  BY TablesStayBounded
<1> QED
  BY <1>1, TablesBoundedInitially, RestoreInvariance, PTL DEF Spec

\* Every variable keeps its type: among them the dials in flight, which stay
\* within the model's bound although a claimed dial may start the next one.
THEOREM RestoreTypesHold == Spec => []TypeOK
<1>1. RestoreInv /\ TablesBounded => TypeOK
  <2> SUFFICES ASSUME RestoreInv, TablesBounded PROVE TypeOK
    OBVIOUS
  <2>1. dials \in [Slots -> Nat] /\ App \in AppTypes /\ tickets = dials
    BY PartsOfApp DEF RestoreInv, DialsRight, Right, AppTypes
  <2>2. ASSUME NEW s \in Slots PROVE dials[s] \in 0 .. MaxDials
    <3>1. {s} \X (1 .. dials[s]) \in SUBSET Flight(dials)
      BY DEF Flight
    <3>2. /\ IsFiniteSet(Flight(dials)) /\ Cardinality(Flight(dials)) \in Nat
          /\ Cardinality(Flight(dials)) <= MaxDials
      <4>1. IsFiniteSet(Flight(dials)) /\ Cardinality(Flight(dials)) \in Nat
        BY FS_CardinalityType, PartsOfApp DEF TablesBounded, Carries
      <4> QED
        BY <4>1, PartsOfApp, RestoreConstants DEF TablesBounded, Carries, Held
    <3>3. Cardinality({s} \X (1 .. dials[s])) <= Cardinality(Flight(dials))
      BY <3>1, <3>2, FS_Subset
    <3>4. Cardinality({s} \X (1 .. dials[s])) = dials[s]
      <4>1. dials[s] \in Nat /\ 1 \in Int
        BY <2>1
      <4>2. /\ IsFiniteSet(1 .. dials[s])
            /\ Cardinality(1 .. dials[s]) = dials[s]
        BY <4>1, FS_Interval
      <4>3. IsFiniteSet({s}) /\ Cardinality({s}) = 1
        BY FS_Singleton
      <4>4. Cardinality({s} \X (1 .. dials[s])) = 1 * dials[s]
        BY <4>2, <4>3, FS_Product
      <4> QED
        BY <4>1, <4>4
    <3> QED
      BY <2>1, <3>2, <3>3, <3>4, RestoreConstants
  <2>3. dials \in [Slots -> 0 .. MaxDials]
    BY <2>1, <2>2
  <2> QED
    BY <2>1, <2>3, PartsOfApp
       DEF TypeOK, RestoreInv, LeafTypes, TablesBounded, AppTypes
<1> QED
  BY <1>1, RestoreInvariance, BoundInvariance, PTL

-----------------------------------------------------------------------------
(* The loops of the source, which RestoreDial has in closed form.           *)

\* advance_auto_dial: the next placeholder is marked as tried; where that starts
\* something the loop returns, otherwise it goes on.
AdvanceLoopBody(a) ==
    LET next == Min(Untried(a))
        b == [a EXCEPT !.auto.tried = @ \union {next}]
    IN  CASE ~a.auto.on -> a
          [] a.auto.on /\ Untried(a) = {} -> AutoOff(a)
          [] a.auto.on /\ Untried(a) # {} /\ Startable(b, next) -> Started(b, next)
          [] a.auto.on /\ Untried(a) # {} /\ ~Startable(b, next) -> AdvanceAuto(b)

LEMMA MinIsLeast ==
    ASSUME NEW S \in SUBSET Nat, NEW n \in S, \A m \in S : n <= m
    PROVE  Min(S) = n
<1>1. PICK m \in S : m = Min(S) /\ m <= n
  BY MinExists
<1>2. n <= m /\ n \in Nat /\ m \in Nat
  OBVIOUS
<1> QED
  BY <1>1, <1>2

\* AdvanceAuto is what the loop computes: it satisfies the equation of its
\* body, in which each round leaves fewer placeholders untried.
THEOREM AdvanceUnrolls ==
    ASSUME NEW a \in AppTypes
    PROVE  AdvanceAuto(a) = AdvanceLoopBody(a)
<1> DEFINE next == Min(Untried(a))
           seen == a.auto.tried \union {next}
           b == [a EXCEPT !.auto.tried = @ \union {next}]
           able == {t \in Untried(a) : Startable(a, t)}
<1>1. a.auto \in [on : BOOLEAN, tried : SUBSET Tabs] /\ Untried(a) \in SUBSET Nat
  BY RestoreConstants DEF AppTypes, Untried
<1>2. CASE ~a.auto.on \/ Untried(a) = {}
  BY <1>2 DEF AdvanceAuto, AdvanceLoopBody
<1>3. CASE a.auto.on /\ Untried(a) # {}
  <2>1. next \in Untried(a) /\ \A t \in Untried(a) : next <= t
    BY <1>1, <1>3, MinExists
  <2>2. /\ b = [a EXCEPT !.auto = [a.auto EXCEPT !.tried = seen]]
        /\ [a.auto EXCEPT !.tried = seen] \in [on : BOOLEAN, tried : SUBSET Tabs]
    BY <1>1, <2>1 DEF AppTypes, Untried
  <2> HIDE DEF next, b
  <2>3. /\ b \in AppTypes /\ b.content = a.content /\ b.pending = a.pending
        /\ b.probing = a.probing /\ b.auto.on = a.auto.on /\ b.auto.tried = seen
    BY <1>1, <2>2 DEF AppTypes
  <2>4. \A t : Startable(b, t) <=> Startable(a, t)
    BY <2>3 DEF Startable, GateOpen
  <2>5. Untried(b) = Untried(a) \ {next}
    BY <2>3 DEF Untried
  <2>6. CASE Startable(b, next)
    <3>1. Min(able) = next /\ able # {}
      BY <1>1, <2>1, <2>4, <2>6, MinIsLeast
    <3>2. {t \in Untried(a) : t <= next} = {next}
      BY <1>1, <2>1
    <3>3. AdvanceAuto(a) = Started([a EXCEPT !.auto.tried = @ \union {next}], next)
      <4> HIDE DEF able
      <4> QED
        BY <1>3, <3>1, <3>2 DEF AdvanceAuto, able
    <3> QED
      BY <1>3, <2>6, <3>3 DEF AdvanceLoopBody, next, b
  <2>7. CASE ~Startable(b, next)
    <3> DEFINE rest == {t \in Untried(b) : Startable(b, t)}
    <3>1. rest = able
      BY <2>4, <2>5, <2>7
    <3>2. AdvanceLoopBody(a) = AdvanceAuto(b)
      BY <1>3, <2>7 DEF AdvanceLoopBody, next, b
    <3>3. CASE able = {}
      <4>1. AdvanceAuto(a) = AutoOff(a) /\ AdvanceAuto(b) = AutoOff(b)
        BY <1>3, <2>3, <3>1, <3>3 DEF AdvanceAuto
      <4>2. AutoOff(a) = AutoOff(b)
        BY <2>2 DEF AutoOff, AppTypes
      <4> QED
        BY <3>2, <4>1, <4>2
    <3>4. CASE able # {}
      <4> DEFINE n == Min(able)
                 x == [a EXCEPT !.auto.tried = @ \union {t \in Untried(a) : t <= n}]
                 y == [b EXCEPT !.auto.tried = @ \union {t \in Untried(b) : t <= n}]
      <4>1. AdvanceAuto(a) = Started(x, n)
        BY <1>3, <3>4 DEF AdvanceAuto
      <4>2. AdvanceAuto(b) = Started(y, n)
        BY <1>3, <2>3, <3>1, <3>4 DEF AdvanceAuto
      <4>3. n \in Untried(a) /\ next <= n
        <5>1. able \in SUBSET Nat
          BY <1>1
        <5>2. n \in able
          <6> HIDE DEF able
          <6> QED
            BY <3>4, <5>1, MinExists
        <5> QED
          BY <2>1, <5>2
      <4> HIDE DEF able, n
      <4>4. a.auto.tried \union {t \in Untried(a) : t <= n}
               = b.auto.tried \union {t \in Untried(b) : t <= n}
        BY <2>1, <2>3, <2>5, <4>3
      <4>5. x = y
        BY <2>2, <2>3, <4>4 DEF AppTypes
      <4> QED
        BY <3>2, <4>1, <4>2, <4>5
    <3> QED
      BY <3>3, <3>4
  <2> QED
    BY <2>6, <2>7
<1> QED
  BY <1>2, <1>3

\* drive_restore_dial: the first leaf of the queue is taken; where its dial can
\* be started the loop returns, otherwise it goes on with the next.
DriveLoopBody(c, q, b, rs) ==
    \/ (b \/ q = <<>>) /\ queue' = q /\ busy' = b /\ rehosts' = rs
    \/ /\ ~b /\ q # <<>> /\ Dialable(c, Head(q))
       /\ queue' = Tail(q) /\ busy' = TRUE /\ rehosts' = rs \union {Head(q)}
    \/ /\ ~b /\ q # <<>> /\ ~Dialable(c, Head(q))
       /\ DriveRestoreDial(c, Tail(q), FALSE, rs)

\* DriveRestoreDial is what the loop does: it satisfies the equation of its
\* body, in which each round leaves a shorter queue.
THEOREM DriveUnrolls ==
    ASSUME NEW c, NEW q \in Seq(Leaves), NEW b \in BOOLEAN, NEW rs
    PROVE  DriveRestoreDial(c, q, b, rs) <=> DriveLoopBody(c, q, b, rs)
<1> DEFINE able == {i \in DOMAIN q : Dialable(c, q[i])}
           k == Min(able)
<1>1. able \in SUBSET Nat /\ DOMAIN q = 1 .. Len(q) /\ Len(q) \in Nat
  OBVIOUS
<1>2. CASE b \/ q = <<>>
  <2>1. CASE b
    BY <2>1 DEF DriveRestoreDial, DriveLoopBody
  <2>2. CASE ~b /\ q = <<>>
    <3>1. able = {} /\ b = FALSE
      BY <2>2
    <3>2. DriveRestoreDial(c, q, b, rs) <=>
             queue' = <<>> /\ busy' = FALSE /\ rehosts' = rs
      BY <2>2, <3>1 DEF DriveRestoreDial
    <3> QED
      BY <2>2, <3>1, <3>2 DEF DriveLoopBody
  <2> QED
    BY <1>2, <2>1, <2>2
<1>3. CASE ~b /\ q # <<>>
  <2> DEFINE tail == Tail(q)
             rest == {i \in DOMAIN tail : Dialable(c, tail[i])}
  <2>1. /\ Len(q) >= 1 /\ Head(q) = q[1] /\ tail \in Seq(Leaves)
        /\ DOMAIN tail = 1 .. Len(q) - 1 /\ Len(tail) = Len(q) - 1
        /\ \A i \in 1 .. Len(q) - 1 : tail[i] = q[i + 1]
    BY <1>1, <1>3
  <2>2. CASE Dialable(c, Head(q))
    <3>1. 1 \in able /\ \A i \in able : 1 <= i
      BY <1>1, <2>1, <2>2
    <3>2. k = 1
      <4> HIDE DEF able
      <4> QED
        BY <1>1, <3>1, MinIsLeast
    <3>3. SubSeq(q, 1 + 1, Len(q)) = Tail(q)
      BY <1>1, <2>1
    <3>4. DriveRestoreDial(c, q, b, rs) <=>
             /\ queue' = SubSeq(q, k + 1, Len(q)) /\ busy' = TRUE
             /\ rehosts' = rs \union {q[k]}
      BY <1>3, <3>1 DEF DriveRestoreDial
    <3> HIDE DEF k
    <3> QED
      BY <1>3, <2>1, <2>2, <3>2, <3>3, <3>4 DEF DriveLoopBody
  <2>3. CASE ~Dialable(c, Head(q))
    <3>1. DriveLoopBody(c, q, b, rs) <=> DriveRestoreDial(c, tail, FALSE, rs)
      BY <1>3, <2>3 DEF DriveLoopBody
    <3>2. \A i \in able : i - 1 \in rest
      BY <1>1, <2>1, <2>3
    <3>3. \A i \in rest : i + 1 \in able
      BY <1>1, <2>1
    <3> HIDE DEF tail
    <3>4. CASE able = {}
      <4>1. rest = {}
        <5> HIDE DEF able, rest
        <5> QED
          BY <3>3, <3>4
      <4> QED
        BY <1>3, <3>1, <3>4, <4>1 DEF DriveRestoreDial
    <3>5. CASE able # {}
      <4> DEFINE n == Min(rest)
      <4>1. rest # {} /\ rest \in SUBSET Nat /\ rest \subseteq 1 .. Len(q) - 1
        <5>1. rest \subseteq 1 .. Len(q) - 1 /\ rest \in SUBSET Nat
          BY <2>1, <1>1
        <5> HIDE DEF able, rest
        <5> QED
          BY <3>2, <3>5, <5>1
      <4>2. k = n + 1 /\ n \in 1 .. Len(q) - 1
        <5> HIDE DEF able, rest
        <5> HIDE DEF n
        <5>1. n \in rest /\ \A i \in rest : n <= i
          BY <4>1, MinExists DEF n
        <5>2. \A i \in able : n <= i - 1 /\ i \in Nat
          BY <1>1, <3>2, <5>1
        <5>3. n + 1 \in able /\ n \in 1 .. Len(q) - 1
          BY <3>3, <4>1, <5>1
        <5>4. \A i \in able : n + 1 <= i
          BY <1>1, <5>2, <5>3
        <5> QED
          BY <1>1, <5>3, <5>4, MinIsLeast
      <4>3. DriveRestoreDial(c, q, b, rs) <=>
               /\ queue' = SubSeq(q, k + 1, Len(q)) /\ busy' = TRUE
               /\ rehosts' = rs \union {q[k]}
        BY <1>3, <3>5 DEF DriveRestoreDial
      <4>4. DriveRestoreDial(c, tail, FALSE, rs) <=>
               /\ queue' = SubSeq(tail, n + 1, Len(tail)) /\ busy' = TRUE
               /\ rehosts' = rs \union {tail[n]}
        BY <4>1 DEF DriveRestoreDial
      <4> HIDE DEF able, rest, k, n
      <4>5. tail[n] = q[k]
        BY <2>1, <4>2
      <4>6. SubSeq(tail, n + 1, Len(tail)) = SubSeq(q, k + 1, Len(q))
        <5>1. \A i \in 1 .. Len(q) - k : tail[i + n] = q[i + k]
          BY <1>1, <2>1, <4>2
        <5> QED
          BY <1>1, <2>1, <4>2, <5>1
      <4> QED
        BY <3>1, <4>3, <4>4, <4>5, <4>6
    <3> QED
      BY <3>4, <3>5
  <2> QED
    BY <2>2, <2>3
<1> QED
  BY <1>2, <1>3

-----------------------------------------------------------------------------
(* PlaceholderGetsItsDial is violated by a dial of the user's own, and by    *)
(* nothing else.                                                             *)

\* The tab in the slot has the only dial in flight.
Alone(a) ==
    \A s \in Slots : a.dials[s] = IF a.pending # None /\ s = a.pending THEN 1 ELSE 0

LEMMA DiallingIsAlone ==
    ASSUME NEW a \in AppTypes, Alone(a), NEW t \in Tabs, a.pending = None
    PROVE  Alone(Dialled(a, t)) /\ Dialled(a, t).content = a.content
<1> DEFINE x == [a EXCEPT !.pending = t, !.dialing[t] = TRUE]
           b == Dialled(a, t)
<1>1. t \in Slots /\ t # None /\ a.dials \in [Slots -> Nat]
  BY RestoreConstants DEF Slots, AppTypes
<1>2. /\ x \in AppTypes /\ x.dials = a.dials /\ x.pending = t
      /\ x.content = a.content
  BY <1>1 DEF AppTypes
<1>3. b = SpawnConnect(x, t)
  BY DEF Dialled
<1> HIDE DEF x, b
<1>4. b.dials = [a.dials EXCEPT ![t] = @ + 1] /\ b.pending = t /\ b.content = a.content
  <2>1. /\ SpawnConnect(x, t).dials = [x.dials EXCEPT ![t] = @ + 1]
        /\ SpawnConnect(x, t).pending = x.pending
        /\ SpawnConnect(x, t).content = x.content
    BY <1>1, <1>2, SpawnAdds, Zenon
  <2> QED
    BY <1>2, <1>3, <2>1
<1>5. Alone(b)
  BY <1>1, <1>4 DEF Alone
<1> QED
  BY <1>4, <1>5 DEF b

LEMMA StartingIsAlone ==
    ASSUME NEW a \in AppTypes, Alone(a), NEW t \in Tabs, Startable(a, t)
    PROVE  Alone(Started(a, t)) /\ Started(a, t).content = a.content
<1>1. a.pending = None
  BY DEF Startable, GateOpen
<1>2. CASE t \in ProjectTabs
  <2> DEFINE b == Probed(a, t)
  <2>1. b.dials = a.dials /\ b.pending = a.pending /\ b.content = a.content
    BY DEF Probed, AppTypes
  <2> HIDE DEF b
  <2>2. Alone(b)
    BY <2>1 DEF Alone
  <2> QED
    BY <1>2, <2>1, <2>2 DEF Started, b
<1>3. CASE t \notin ProjectTabs
  BY <1>1, <1>3, DiallingIsAlone DEF Started
<1> QED
  BY <1>2, <1>3

LEMMA ReconnectIsAlone ==
    ASSUME NEW a \in AppTypes, Alone(a), NEW t \in Tabs
    PROVE  Alone(Reconnect(a, t))
BY StartingIsAlone DEF Reconnect

LEMMA AdvancingIsAlone ==
    ASSUME NEW a \in AppTypes, Alone(a)
    PROVE  Alone(AdvanceAuto(a)) /\ AdvanceAuto(a).content = a.content
<1>1. PICK b \in AppTypes :
         /\ b.pending = a.pending /\ b.dials = a.dials /\ b.content = a.content
         /\ \/ AdvanceAuto(a) = b
            \/ \E t \in Tabs : Startable(b, t) /\ AdvanceAuto(a) = Started(b, t)
  BY AdvanceForms
<1>2. Alone(b)
  BY <1>1 DEF Alone
<1> QED
  BY <1>1, <1>2, StartingIsAlone

LEMMA AloneAsLeft ==
    ASSUME NEW b, Becomes(b), Alone(b)
    PROVE  Alone(App)'
<1>1. dials' = b.dials /\ pending' = b.pending
  BY DEF Becomes
<1> QED
  BY <1>1 DEF Alone, App, Slots

\* The dial that comes back is the one of the tab in the slot, which it clears.
LEMMA LastDialClaimed ==
    ASSUME Right(App), Alone(App), NEW s \in Slots, dials[s] > 0
    PROVE  /\ pending = s /\ s # None
           /\ LET a == Claim(App, s)
              IN  /\ a \in AppTypes /\ a.pending = s /\ a.content = content
                  /\ \A u \in Slots : a.dials[u] = 0
<1> DEFINE a == Claim(App, s)
<1>1. dials \in [Slots -> Nat] /\ App \in AppTypes /\ App.tickets = App.dials
  BY PartsOfApp DEF Right, AppTypes
<1>2. pending = s /\ s # None
  BY <1>1, PartsOfApp DEF Alone
<1>3. /\ a \in AppTypes /\ a.pending = pending /\ a.content = content
      /\ a.dials = [dials EXCEPT ![s] = @ - 1]
  BY <1>1, ClaimTakes, PartsOfApp
<1> HIDE DEF a
<1>4. \A u \in Slots : a.dials[u] = 0
  BY <1>1, <1>2, <1>3, PartsOfApp DEF Alone
<1> QED
  BY <1>2, <1>3, <1>4 DEF a

LEMMA OwnDialArrives ==
    ASSUME Right(App), Alone(App), NEW s \in Slots, OnConnectOk(s)
    PROVE  /\ Alone(App)'
           /\ \A t \in Tabs : content[t] = "restored" /\ content'[t] \in Connected
                 => s = t
<1> DEFINE a == Claim(App, s)
           over == [a EXCEPT !.pending = None]
           p == pending
<1>1. /\ p = s /\ s # None /\ a \in AppTypes /\ a.content = content
      /\ \A u \in Slots : a.dials[u] = 0
  BY LastDialClaimed DEF OnConnectOk
<1>2. p \in Tabs /\ content \in [Tabs -> Contents]
  BY <1>1, PartsOfApp DEF Right, AppTypes, Slots
<1>3. \/ Becomes(AdvanceAuto(over))
      \/ \E kind \in Connected :
            Becomes(AdvanceAuto([over EXCEPT !.content[p] = kind, !.dialing[p] = FALSE]))
  <2>1. Brings(s) \subseteq Connected
    BY DEF Brings, Connected
  <2> QED
    BY <2>1 DEF OnConnectOk
<1> HIDE DEF a
<1>4. /\ over \in AppTypes /\ over.content = content /\ over.pending = None
      /\ over.dials = a.dials
  BY <1>1 DEF AppTypes, Slots
<1> HIDE DEF over
<1>5. CASE Becomes(AdvanceAuto(over))
  <2>1. Alone(over)
    BY <1>1, <1>4 DEF Alone
  <2>2. content' = content
    BY <1>4, <1>5, <2>1, AdvancingIsAlone DEF Becomes
  <2> QED
    BY <1>4, <1>5, <2>1, <2>2, AdvancingIsAlone, AloneAsLeft DEF Connected
<1>6. ASSUME NEW kind \in Connected,
             Becomes(AdvanceAuto([over EXCEPT !.content[p] = kind, !.dialing[p] = FALSE]))
      PROVE  /\ Alone(App)'
             /\ \A t \in Tabs : content[t] = "restored" /\ content'[t] \in Connected
                   => s = t
  <2> DEFINE b == [over EXCEPT !.content[p] = kind, !.dialing[p] = FALSE]
  <2>1. /\ b \in AppTypes /\ b.dials = a.dials /\ b.pending = None
        /\ b.content = [content EXCEPT ![p] = kind]
    BY <1>2, <1>4 DEF AppTypes, Contents, Connected
  <2>2. Becomes(AdvanceAuto(b))
    BY <1>6
  <2> HIDE DEF b
  <2>3. Alone(b)
    BY <1>1, <2>1 DEF Alone
  <2>4. content' = [content EXCEPT ![p] = kind]
    BY <2>1, <2>2, <2>3, AdvancingIsAlone DEF Becomes
  <2>5. \A t \in Tabs : t # p => content'[t] = content[t]
    BY <1>2, <2>4
  <2> QED
    BY <1>1, <2>1, <2>2, <2>3, <2>5, AdvancingIsAlone, AloneAsLeft DEF Connected
<1> QED
  BY <1>3, <1>5, <1>6

LEMMA AloneIsKept ==
    ASSUME Right(App), Alone(App), Next, ~UserConnect
    PROVE  Alone(App)'
<1>1. App \in AppTypes /\ None \in Slots
  BY DEF Right, Slots
<1>2. ASSUME UNCHANGED <<dials, pending>> PROVE Alone(App)'
  BY <1>2 DEF Alone, App, Slots
<1>3. ASSUME NEW r \in Records, RestoreHistory(r) PROVE Alone(App)'
  <2> DEFINE c == [t \in Tabs |-> IF t \in r \ gone THEN "restored"
                                               ELSE App.content[t]]
             b == [App EXCEPT !.content = c, !.auto = [on |-> TRUE, tried |-> {}]]
  <2>1. Becomes(AdvanceAuto(b))
    BY <1>3 DEF RestoreHistory
  <2>2. c \in [Tabs -> Contents]
    BY <1>1 DEF AppTypes, Contents
  <2> HIDE DEF c
  <2>3. b \in AppTypes /\ b.dials = App.dials /\ b.pending = App.pending
    BY <1>1, <2>2 DEF AppTypes
  <2> HIDE DEF b
  <2>4. Alone(b)
    BY <2>3 DEF Alone
  <2> QED
    BY <2>1, <2>3, <2>4, AdvancingIsAlone, AloneAsLeft
<1>4. ASSUME NEW t \in Tabs, UserReconnect(t) PROVE Alone(App)'
  BY <1>1, <1>4, ReconnectIsAlone, AloneAsLeft DEF UserReconnect
<1>5. ASSUME NEW t \in Tabs, DemoteFilesTab(t) PROVE Alone(App)'
  <2> DEFINE b == [App EXCEPT !.content[t] = "restored"]
  <2>1. Becomes(Reconnect(b, t))
    BY <1>5 DEF DemoteFilesTab
  <2>2. b \in AppTypes /\ b.dials = App.dials /\ b.pending = App.pending
    BY <1>1 DEF AppTypes, Contents
  <2> HIDE DEF b
  <2>3. Alone(b)
    BY <2>2 DEF Alone
  <2> QED
    BY <2>1, <2>2, <2>3, ReconnectIsAlone, AloneAsLeft
<1>6. ASSUME NEW s \in Slots, OnConnectOk(s) PROVE Alone(App)'
  BY <1>6, OwnDialArrives
<1>7. ASSUME NEW s \in Slots, OnConnectErr(s) PROVE Alone(App)'
  <2> DEFINE a == Claim(App, s)
             b == SlotCleared(a)
  <2>1. /\ a \in AppTypes /\ a.pending = s /\ s # None
        /\ \A u \in Slots : a.dials[u] = 0
    BY <1>7, LastDialClaimed DEF OnConnectErr
  <2>2. Becomes(AdvanceAuto(b))
    BY <1>7 DEF OnConnectErr
  <2> HIDE DEF a
  <2>3. b \in AppTypes /\ b.dials = a.dials /\ b.pending = None
    BY <1>1, <2>1 DEF SlotCleared, AppTypes, Slots
  <2> HIDE DEF b
  <2>4. Alone(b)
    BY <2>1, <2>3 DEF Alone
  <2> QED
    BY <2>2, <2>3, <2>4, AdvancingIsAlone, AloneAsLeft
<1>8. CASE OnRestoreNodesPicked
  <2> DEFINE t == probing
             a == [App EXCEPT !.probing = None]
  <2>1. t \in Tabs /\ pending = None
    BY <1>1, <1>8, PartsOfApp DEF Right, AppTypes, Slots, OnRestoreNodesPicked
  <2>2. a \in AppTypes /\ a.pending = None /\ a.dials = dials
    BY <1>1, <2>1, PartsOfApp DEF AppTypes
  <2>3. \/ Becomes(AdvanceAuto(a))
        \/ Becomes(Dialled(a, t))
        \/ Becomes(AdvanceAuto(Freed(a, t)))
    BY <1>8 DEF OnRestoreNodesPicked
  <2> HIDE DEF a
  <2>4. /\ Freed(a, t) \in AppTypes /\ Freed(a, t).dials = a.dials
        /\ Freed(a, t).pending = a.pending
    BY <2>1, <2>2 DEF Freed, AppTypes
  <2>5. Alone(a) /\ Alone(Freed(a, t))
    BY <2>1, <2>2, <2>4, PartsOfApp DEF Alone
  <2> QED
    BY <2>1, <2>2, <2>3, <2>4, <2>5, AdvancingIsAlone, DiallingIsAlone, AloneAsLeft
<1>9. ASSUME NEW t \in Tabs, UserCloseTab(t) \/ UserDeletesSession(t) \/ UserMovesPane(t)
      PROVE  Alone(App)'
  BY <1>2, <1>9 DEF UserCloseTab, UserDeletesSession, UserMovesPane, restoreVars
<1>10. ASSUME NEW r \in Leaves \union Moves, RehostEnds(r) PROVE Alone(App)'
  BY <1>2, <1>10 DEF RehostEnds, restoreVars
<1> QED
  BY <1>3, <1>4, <1>5, <1>6, <1>7, <1>8, <1>9, <1>10 DEF Next, User, DialEnds

\* As long as the user opens nothing else while a restored tab is dialled, a
\* connection replaces the placeholder that had asked for it and no other,
\* whatever is closed, deleted or lost meanwhile: the comment in accept_connect_ok
\* fails because of UserConnect, and of nothing else.
THEOREM OnlyOwnDialsArrive == Spec /\ [][~UserConnect]_vars => PlaceholderGetsItsDial
<1>1. Init => Alone(App)
  BY PartsOfApp DEF Init, Alone
<1>2. RestoreInv /\ Alone(App) /\ [Next]_vars /\ [~UserConnect]_vars => Alone(App)'
  <2> SUFFICES ASSUME RestoreInv, Alone(App), [Next]_vars, [~UserConnect]_vars
               PROVE  Alone(App)'
    OBVIOUS
  <2>1. CASE UNCHANGED vars
    BY <2>1 DEF vars, restoreVars, Alone, App, Slots
  <2>2. CASE Next /\ ~UserConnect
    BY <2>2, AloneIsKept DEF RestoreInv, DialsRight
  <2> QED
    BY <2>1, <2>2
<1>3. RestoreInv /\ Alone(App) /\ [Next]_vars =>
         [\A s \in Slots : OnConnectOk(s) =>
             \A t \in Tabs : content[t] = "restored" /\ content'[t] \in Connected
                => s = t]_vars
  BY OwnDialArrives DEF RestoreInv, DialsRight
<1> QED
  BY <1>1, <1>2, <1>3, RestoreInvariance, PTL DEF Spec, PlaceholderGetsItsDial

=============================================================================
