-------------------------- MODULE ChannelIoProofs --------------------------
(***************************************************************************)
(* Proofs about ChannelIo, for every number of channels and every capacity *)
(* of the queues: the queues keep their bounds, the ledger counts exactly  *)
(* the channels whose task runs, and the server counts no channel the      *)
(* ledger has forgotten but those whose output nobody was left to take.    *)
(***************************************************************************)
EXTENDS ChannelIo, FiniteSetTheorems, TLAPS

\* The places of a task at which the ledger counts its channel.
OnTheBooks == Serving \union {"pty"}
Books == {c \in Channels : Counted(c)}

LedgerRight == held = Cardinality(Books)

QueuesOK ==
    /\ cmds \in [Channels -> Seq({"write", "close"})]
    /\ \A c \in Channels : Len(cmds[c]) <= CmdMax

Holders == {"event", "pane", "automation"}
HandlesOK == handles \in [Channels -> SUBSET Holders]

OtherTypes ==
    /\ task \in [Channels -> Tasks]
    /\ inbound \in [Channels -> 0 .. InMax]
    /\ receiver \in [Channels -> {"none", "alive", "dropped"}]
    /\ slot \in [Channels -> {"free", "taken", "closed"}]
    /\ held \in 0 .. Cardinality(Channels)
    /\ appConn \in BOOLEAN
    /\ linkUp \in BOOLEAN

\* A task that serves was given a receiver when it was spawned.
TasksHaveReceivers ==
    \A c \in Channels : task[c] \in Serving => receiver[c] # "none"

\* What is not on the books the server has forgotten too, or will never hear of.
NothingForgotten ==
    \A c \in Channels : Taken(c) => Counted(c) \/ receiver[c] = "dropped"

ChannelInv ==
    /\ TypeOK
    /\ LedgerRight
    /\ NothingForgotten
    /\ TasksHaveReceivers

-----------------------------------------------------------------------------
(* The ledger.                                                             *)

LEMMA BooksAreFinite == IsFiniteSet(Books) /\ Cardinality(Books) \in Nat
BY ChannelConstants, FS_Subset, FS_CardinalityType DEF Books

\* When one task moves, the books stay right if the count moves with it.
LEMMA LedgerFollows ==
    ASSUME TypeOK, held = Cardinality(Books), NEW c \in Channels, NEW x \in Tasks,
           task' = [task EXCEPT ![c] = x],
           held' = IF x \in OnTheBooks
                   THEN IF Counted(c) THEN held ELSE held + 1
                   ELSE IF Counted(c) THEN held - 1 ELSE held
    PROVE  held' = Cardinality(Books')
<1>1. /\ Counted(c)' <=> x \in OnTheBooks
      /\ \A d \in Channels \ {c} : Counted(d)' <=> Counted(d)
  BY DEF TypeOK, Counted, OnTheBooks
<1>2. CASE x \in OnTheBooks
  <2>1. Books' = Books \union {c}
    BY <1>1, <1>2 DEF Books
  <2> QED
    BY <1>2, <2>1, BooksAreFinite, FS_AddElement DEF Books
<1>3. CASE x \notin OnTheBooks
  <2>1. Books' = Books \ {c}
    BY <1>1, <1>3 DEF Books
  <2> QED
    BY <1>3, <2>1, BooksAreFinite, FS_RemoveElement DEF Books
<1> QED
  BY <1>2, <1>3

-----------------------------------------------------------------------------
(* Types, holds and receivers.                                             *)

LEMMA SendKeepsBound ==
    ASSUME TypeOK, NEW c \in Channels, NEW cmd \in {"write", "close"}
    PROVE  /\ TrySend(c, cmd) \in Seq({"write", "close"})
           /\ Len(TrySend(c, cmd)) <= CmdMax
BY ChannelConstants DEF TypeOK, TrySend

LEMMA LeavingEmptiesQueue ==
    ASSUME TypeOK, NEW c \in Channels, Leave(c)
    PROVE  QueuesOK'
<1>1. <<>> \in Seq({"write", "close"}) /\ Len(<<>>) <= CmdMax
  BY ChannelConstants
<1> QED
  BY <1>1 DEF Leave, TypeOK, QueuesOK

LEMMA HolderSets ==
    /\ {{}, {"event"}, {"pane"}, {"pane", "automation"}} \subseteq SUBSET Holders
    /\ \A S \in SUBSET Holders : \A x : S \ {x} \in SUBSET Holders
    /\ \A S \in SUBSET Holders : S \intersect {"event"} \in SUBSET Holders
BY DEF Holders

\* A task that leaves its loop is taken off the books.
LEMMA LeavingLeavesTheBooks ==
    ASSUME ChannelInv, NEW c \in Channels, task[c] \in Serving, Leave(c)
    PROVE  LedgerRight'
<1>1. "ended" \in Tasks /\ "ended" \notin OnTheBooks /\ Counted(c)
  BY DEF Tasks, OnTheBooks, Serving, Counted
<1> QED
  BY <1>1, LedgerFollows DEF Leave, ChannelInv, LedgerRight

\* A connection that has been let go, or is dead, stays so.
HoldsEnd == (ConnHeld' => ConnHeld) /\ (linkUp' => linkUp)

\* No step takes hold of it again, or brings it back.
LEMMA HoldsOnlyEnd ==
    ASSUME ChannelInv, [Next]_vars
    PROVE  HoldsEnd
<1> USE DEF HoldsEnd, ChannelInv, TypeOK, ConnHeld, Serving
<1>1. ASSUME NEW c \in Channels, Open(c) PROVE HoldsEnd
  BY <1>1 DEF Open
<1>2. ASSUME NEW c \in Channels, SessionOpened(c) PROVE HoldsEnd
  BY <1>2 DEF SessionOpened
<1>3. ASSUME NEW c \in Channels, OpenDenied(c) PROVE HoldsEnd
  BY <1>3 DEF OpenDenied
<1>4. ASSUME NEW c \in Channels, PtyGranted(c) PROVE HoldsEnd
  BY <1>4 DEF PtyGranted
<1>5. ASSUME NEW c \in Channels, PtyRefused(c) PROVE HoldsEnd
  BY <1>5 DEF PtyRefused
<1>6. ASSUME NEW c \in Channels, PaneOpened(c) PROVE HoldsEnd
  BY <1>6 DEF PaneOpened
<1>7. ASSUME NEW c \in Channels, Write(c) PROVE HoldsEnd
  BY <1>7 DEF Write
<1>8. ASSUME NEW c \in Channels, AutomationWrites(c) PROVE HoldsEnd
  BY <1>8 DEF AutomationWrites
<1>9. ASSUME NEW c \in Channels, AutomationEnds(c) PROVE HoldsEnd
  BY <1>9 DEF AutomationEnds
<1>10. ASSUME NEW c \in Channels, Drain(c) PROVE HoldsEnd
  BY <1>10 DEF Drain
<1>11. ASSUME NEW c \in Channels, ClosePane(c) PROVE HoldsEnd
  BY <1>11 DEF ClosePane
<1>12. ASSUME NEW c \in Channels, ReadData(c) PROVE HoldsEnd
  BY <1>12 DEF ReadData, Deliver, Leave
<1>13. ASSUME NEW c \in Channels, SendDone(c) PROVE HoldsEnd
  BY <1>13 DEF SendDone, Deliver, Leave
<1>14. ASSUME NEW c \in Channels, ReadEnd(c) PROVE HoldsEnd
  BY <1>14 DEF ReadEnd, Leave
<1>15. ASSUME NEW c \in Channels, RecvCmd(c) PROVE HoldsEnd
  BY <1>15 DEF RecvCmd, Closes, Leave
<1>16. ASSUME NEW c \in Channels, RecvNone(c) PROVE HoldsEnd
  BY <1>16 DEF RecvNone, Closes, Leave
<1>17. ASSUME NEW c \in Channels, WriteDone(c) PROVE HoldsEnd
  BY <1>17 DEF WriteDone
<1>18. ASSUME NEW c \in Channels, ServerCloses(c) PROVE HoldsEnd
  BY <1>18 DEF ServerCloses
<1>19. CASE CloseTab
  BY <1>19 DEF CloseTab
<1>20. CASE LinkDies
  BY <1>20 DEF LinkDies
<1>21. CASE UNCHANGED vars
  BY <1>21 DEF vars
<1> QED
  BY <1>1, <1>2, <1>3, <1>4, <1>5, <1>6, <1>7, <1>8, <1>9, <1>10, <1>11, <1>12, <1>13, <1>14, <1>15, <1>16, <1>17, <1>18, <1>19, <1>20, <1>21
     DEF Next, OpenPtyStep, IoTaskStep

\* Nothing is forgotten by a step that takes a channel off the books only when
\* the server has given it up or its receiver is gone.
LEMMA ForgettingNeedsALoss ==
    ASSUME ChannelInv, [Next]_vars,
           \A c \in Channels :
              /\ slot'[c] = "taken" => slot[c] = "taken" \/ Counted(c)'
              /\ receiver[c] = "dropped" => receiver'[c] = "dropped" \/ Counted(c)'
              /\ Counted(c) => \/ Counted(c)' \/ receiver'[c] = "dropped"
                               \/ slot'[c] # "taken" \/ ~Taken(c)
    PROVE  NothingForgotten'
BY HoldsOnlyEnd DEF HoldsEnd, ChannelInv, NothingForgotten, Taken

-----------------------------------------------------------------------------
(* The steps.                                                              *)

\* Every step that moves a task onto or off the books moves the count.
LEMMA LedgerIsKept == ChannelInv /\ [Next]_vars => LedgerRight'
<1> SUFFICES ASSUME ChannelInv, [Next]_vars PROVE LedgerRight'
  OBVIOUS
<1> USE DEF ChannelInv, LedgerRight, Tasks, OnTheBooks, Serving, Books, Counted
<1>1. ASSUME NEW c \in Channels, Open(c) PROVE LedgerRight'
  BY <1>1, LedgerFollows DEF Open
<1>2. ASSUME NEW c \in Channels, SessionOpened(c) PROVE LedgerRight'
  BY <1>2, LedgerFollows DEF SessionOpened
<1>3. ASSUME NEW c \in Channels, OpenDenied(c) PROVE LedgerRight'
  BY <1>3, LedgerFollows DEF OpenDenied
<1>4. ASSUME NEW c \in Channels, PtyGranted(c) PROVE LedgerRight'
  BY <1>4, LedgerFollows DEF PtyGranted
<1>5. ASSUME NEW c \in Channels, PtyRefused(c) PROVE LedgerRight'
  BY <1>5, LedgerFollows DEF PtyRefused
<1>6. ASSUME NEW c \in Channels, PaneOpened(c) PROVE LedgerRight'
  BY <1>6 DEF PaneOpened
<1>7. ASSUME NEW c \in Channels, Write(c) PROVE LedgerRight'
  BY <1>7 DEF Write
<1>8. ASSUME NEW c \in Channels, AutomationWrites(c) PROVE LedgerRight'
  BY <1>8 DEF AutomationWrites
<1>9. ASSUME NEW c \in Channels, AutomationEnds(c) PROVE LedgerRight'
  BY <1>9 DEF AutomationEnds
<1>10. ASSUME NEW c \in Channels, Drain(c) PROVE LedgerRight'
  BY <1>10 DEF Drain
<1>11. ASSUME NEW c \in Channels, ClosePane(c) PROVE LedgerRight'
  BY <1>11 DEF ClosePane
<1>12. ASSUME NEW c \in Channels, ReadData(c) PROVE LedgerRight'
  <2>1. CASE Leave(c)
    BY <1>12, <2>1, LeavingLeavesTheBooks DEF ReadData
  <2>2. CASE ~Leave(c)
    BY <1>12, <2>2, LedgerFollows DEF ReadData, Deliver
  <2> QED
    BY <2>1, <2>2
<1>13. ASSUME NEW c \in Channels, SendDone(c) PROVE LedgerRight'
  <2>1. CASE Leave(c)
    BY <1>13, <2>1, LeavingLeavesTheBooks DEF SendDone
  <2>2. CASE ~Leave(c)
    BY <1>13, <2>2, LedgerFollows DEF SendDone, Deliver
  <2> QED
    BY <2>1, <2>2
<1>14. ASSUME NEW c \in Channels, ReadEnd(c) PROVE LedgerRight'
  BY <1>14, LeavingLeavesTheBooks DEF ReadEnd, Leave
<1>15. ASSUME NEW c \in Channels, RecvCmd(c) PROVE LedgerRight'
  <2>1. CASE Head(cmds[c]) = "close"
    BY <1>15, <2>1, LeavingLeavesTheBooks DEF RecvCmd, Closes
  <2>2. CASE Head(cmds[c]) # "close"
    BY <1>15, <2>2, LedgerFollows DEF RecvCmd
  <2> QED
    BY <2>1, <2>2
<1>16. ASSUME NEW c \in Channels, RecvNone(c) PROVE LedgerRight'
  BY <1>16, LeavingLeavesTheBooks DEF RecvNone, Closes, Leave
<1>17. ASSUME NEW c \in Channels, WriteDone(c) PROVE LedgerRight'
  BY <1>17, LedgerFollows DEF WriteDone
<1>18. ASSUME NEW c \in Channels, ServerCloses(c) PROVE LedgerRight'
  BY <1>18 DEF ServerCloses
<1>19. CASE CloseTab
  BY <1>19 DEF CloseTab
<1>20. CASE LinkDies
  BY <1>20 DEF LinkDies
<1>21. CASE UNCHANGED vars
  BY <1>21 DEF vars
<1> QED
  BY <1>1, <1>2, <1>3, <1>4, <1>5, <1>6, <1>7, <1>8, <1>9, <1>10, <1>11,
     <1>12, <1>13, <1>14, <1>15, <1>16, <1>17, <1>18, <1>19, <1>20, <1>21
     DEF Next, OpenPtyStep, IoTaskStep

\* A queue never outgrows its capacity.
LEMMA QueuesAreKept == ChannelInv /\ [Next]_vars => QueuesOK'
<1> SUFFICES ASSUME ChannelInv, [Next]_vars PROVE QueuesOK'
  OBVIOUS
<1> USE DEF ChannelInv, TypeOK, QueuesOK
<1>1. ASSUME NEW c \in Channels, Open(c) PROVE QueuesOK'
  BY <1>1 DEF Open
<1>2. ASSUME NEW c \in Channels, SessionOpened(c) PROVE QueuesOK'
  BY <1>2 DEF SessionOpened
<1>3. ASSUME NEW c \in Channels, OpenDenied(c) PROVE QueuesOK'
  BY <1>3 DEF OpenDenied
<1>4. ASSUME NEW c \in Channels, PtyGranted(c) PROVE QueuesOK'
  BY <1>4 DEF PtyGranted
<1>5. ASSUME NEW c \in Channels, PtyRefused(c) PROVE QueuesOK'
  BY <1>5 DEF PtyRefused
<1>6. ASSUME NEW c \in Channels, PaneOpened(c) PROVE QueuesOK'
  BY <1>6 DEF PaneOpened
<1>7. ASSUME NEW c \in Channels, Write(c) PROVE QueuesOK'
  BY <1>7, SendKeepsBound DEF Write
<1>8. ASSUME NEW c \in Channels, AutomationWrites(c) PROVE QueuesOK'
  BY <1>8, SendKeepsBound DEF AutomationWrites
<1>9. ASSUME NEW c \in Channels, AutomationEnds(c) PROVE QueuesOK'
  BY <1>9 DEF AutomationEnds
<1>10. ASSUME NEW c \in Channels, Drain(c) PROVE QueuesOK'
  <2>1. CASE cmds' = [cmds EXCEPT ![c] = TrySend(c, "write")]
    BY <2>1, SendKeepsBound
  <2>2. CASE UNCHANGED cmds
    BY <2>2
  <2> QED
    BY <1>10, <2>1, <2>2 DEF Drain
<1>11. ASSUME NEW c \in Channels, ClosePane(c) PROVE QueuesOK'
  BY <1>11, SendKeepsBound DEF ClosePane
<1>12. ASSUME NEW c \in Channels, ReadData(c) PROVE QueuesOK'
  BY <1>12, LeavingEmptiesQueue DEF ReadData, Deliver
<1>13. ASSUME NEW c \in Channels, SendDone(c) PROVE QueuesOK'
  BY <1>13, LeavingEmptiesQueue DEF SendDone, Deliver
<1>14. ASSUME NEW c \in Channels, ReadEnd(c) PROVE QueuesOK'
  BY <1>14, LeavingEmptiesQueue DEF ReadEnd
<1>15. ASSUME NEW c \in Channels, RecvCmd(c) PROVE QueuesOK'
  <2>1. CASE Head(cmds[c]) = "close"
    BY <1>15, <2>1, LeavingEmptiesQueue DEF RecvCmd, Closes
  <2>2. CASE Head(cmds[c]) # "close"
    <3>1. cmds[c] # <<>> /\ cmds' = [cmds EXCEPT ![c] = Tail(cmds[c])]
      BY <1>15, <2>2 DEF RecvCmd
    <3>2. Tail(cmds[c]) \in Seq({"write", "close"}) /\ Len(Tail(cmds[c])) <= Len(cmds[c])
      BY <3>1
    <3> QED
      BY <3>1, <3>2, ChannelConstants
  <2> QED
    BY <2>1, <2>2
<1>16. ASSUME NEW c \in Channels, RecvNone(c) PROVE QueuesOK'
  BY <1>16, LeavingEmptiesQueue DEF RecvNone, Closes
<1>17. ASSUME NEW c \in Channels, WriteDone(c) PROVE QueuesOK'
  BY <1>17 DEF WriteDone
<1>18. ASSUME NEW c \in Channels, ServerCloses(c) PROVE QueuesOK'
  BY <1>18 DEF ServerCloses
<1>19. CASE CloseTab
  BY <1>19, SendKeepsBound DEF CloseTab
<1>20. CASE LinkDies
  BY <1>20 DEF LinkDies
<1>21. CASE UNCHANGED vars
  BY <1>21 DEF vars
<1> QED
  BY <1>1, <1>2, <1>3, <1>4, <1>5, <1>6, <1>7, <1>8, <1>9, <1>10, <1>11,
     <1>12, <1>13, <1>14, <1>15, <1>16, <1>17, <1>18, <1>19, <1>20, <1>21
     DEF Next, OpenPtyStep, IoTaskStep

\* Only the holders the model knows ever hold a handle.
LEMMA HandlesAreKept == ChannelInv /\ [Next]_vars => HandlesOK'
<1> SUFFICES ASSUME ChannelInv, [Next]_vars PROVE HandlesOK'
  OBVIOUS
<1>0. HandlesOK
  BY DEF ChannelInv, TypeOK, HandlesOK, Holders
<1> USE <1>0 DEF HandlesOK
<1>1. ASSUME NEW c \in Channels, Open(c) PROVE HandlesOK'
  BY <1>1, HolderSets DEF Open
<1>2. ASSUME NEW c \in Channels, SessionOpened(c) PROVE HandlesOK'
  BY <1>2, HolderSets DEF SessionOpened
<1>3. ASSUME NEW c \in Channels, OpenDenied(c) PROVE HandlesOK'
  BY <1>3, HolderSets DEF OpenDenied
<1>4. ASSUME NEW c \in Channels, PtyGranted(c) PROVE HandlesOK'
  BY <1>4, HolderSets DEF PtyGranted
<1>5. ASSUME NEW c \in Channels, PtyRefused(c) PROVE HandlesOK'
  BY <1>5, HolderSets DEF PtyRefused
<1>6. ASSUME NEW c \in Channels, PaneOpened(c) PROVE HandlesOK'
  BY <1>6, HolderSets DEF PaneOpened
<1>7. ASSUME NEW c \in Channels, Write(c) PROVE HandlesOK'
  BY <1>7, HolderSets DEF Write
<1>8. ASSUME NEW c \in Channels, AutomationWrites(c) PROVE HandlesOK'
  BY <1>8, HolderSets DEF AutomationWrites
<1>9. ASSUME NEW c \in Channels, AutomationEnds(c) PROVE HandlesOK'
  BY <1>9, HolderSets DEF AutomationEnds
<1>10. ASSUME NEW c \in Channels, Drain(c) PROVE HandlesOK'
  BY <1>10, HolderSets DEF Drain
<1>11. ASSUME NEW c \in Channels, ClosePane(c) PROVE HandlesOK'
  BY <1>11, HolderSets DEF ClosePane
<1>12. ASSUME NEW c \in Channels, ReadData(c) PROVE HandlesOK'
  BY <1>12, HolderSets DEF ReadData, Deliver, Leave
<1>13. ASSUME NEW c \in Channels, SendDone(c) PROVE HandlesOK'
  BY <1>13, HolderSets DEF SendDone, Deliver, Leave
<1>14. ASSUME NEW c \in Channels, ReadEnd(c) PROVE HandlesOK'
  BY <1>14, HolderSets DEF ReadEnd, Leave
<1>15. ASSUME NEW c \in Channels, RecvCmd(c) PROVE HandlesOK'
  BY <1>15, HolderSets DEF RecvCmd, Closes, Leave
<1>16. ASSUME NEW c \in Channels, RecvNone(c) PROVE HandlesOK'
  BY <1>16, HolderSets DEF RecvNone, Closes, Leave
<1>17. ASSUME NEW c \in Channels, WriteDone(c) PROVE HandlesOK'
  BY <1>17, HolderSets DEF WriteDone
<1>18. ASSUME NEW c \in Channels, ServerCloses(c) PROVE HandlesOK'
  BY <1>18, HolderSets DEF ServerCloses
<1>19. CASE CloseTab
  <2>1. \A c \in Channels : handles[c] \intersect {"event"} \in SUBSET Holders
    BY HolderSets
  <2>2. handles' = [c \in Channels |-> handles[c] \intersect {"event"}]
    BY <1>19 DEF CloseTab
  <2> QED
    BY <2>1, <2>2
<1>20. CASE LinkDies
  BY <1>20 DEF LinkDies
<1>21. CASE UNCHANGED vars
  BY <1>21 DEF vars
<1> QED
  BY <1>1, <1>2, <1>3, <1>4, <1>5, <1>6, <1>7, <1>8, <1>9, <1>10, <1>11,
     <1>12, <1>13, <1>14, <1>15, <1>16, <1>17, <1>18, <1>19, <1>20, <1>21
     DEF Next, OpenPtyStep, IoTaskStep

\* Every step keeps the other types; the count is in its range because it is
\* that of a set of channels.
LEMMA OthersAreKept == ChannelInv /\ [Next]_vars => OtherTypes'
<1> SUFFICES ASSUME ChannelInv, [Next]_vars PROVE OtherTypes'
  OBVIOUS
<1>0. held' \in 0 .. Cardinality(Channels)
  <2>1. held' = Cardinality(Books') /\ Books' \subseteq Channels
    BY LedgerIsKept DEF LedgerRight, Books
  <2> QED
    BY <2>1, ChannelConstants, FS_Subset, FS_CardinalityType
<1>a. OtherTypes
  BY DEF ChannelInv, TypeOK, OtherTypes
<1> USE <1>0, <1>a DEF OtherTypes, Tasks, Serving
<1>1. ASSUME NEW c \in Channels, Open(c) PROVE OtherTypes'
  BY <1>1 DEF Open
<1>2. ASSUME NEW c \in Channels, SessionOpened(c) PROVE OtherTypes'
  BY <1>2 DEF SessionOpened
<1>3. ASSUME NEW c \in Channels, OpenDenied(c) PROVE OtherTypes'
  BY <1>3 DEF OpenDenied
<1>4. ASSUME NEW c \in Channels, PtyGranted(c) PROVE OtherTypes'
  BY <1>4 DEF PtyGranted
<1>5. ASSUME NEW c \in Channels, PtyRefused(c) PROVE OtherTypes'
  BY <1>5 DEF PtyRefused, SlotOnRefusal
<1>6. ASSUME NEW c \in Channels, PaneOpened(c) PROVE OtherTypes'
  BY <1>6 DEF PaneOpened
<1>7. ASSUME NEW c \in Channels, Write(c) PROVE OtherTypes'
  BY <1>7 DEF Write
<1>8. ASSUME NEW c \in Channels, AutomationWrites(c) PROVE OtherTypes'
  BY <1>8 DEF AutomationWrites
<1>9. ASSUME NEW c \in Channels, AutomationEnds(c) PROVE OtherTypes'
  BY <1>9 DEF AutomationEnds
<1>10. ASSUME NEW c \in Channels, Drain(c) PROVE OtherTypes'
  BY <1>10, ChannelConstants DEF Drain, LeftByPump
<1>11. ASSUME NEW c \in Channels, ClosePane(c) PROVE OtherTypes'
  BY <1>11, ChannelConstants DEF ClosePane
<1>12. ASSUME NEW c \in Channels, ReadData(c) PROVE OtherTypes'
  <2>1. CASE Leave(c)
    BY <1>12, <2>1 DEF ReadData, Deliver, Leave
  <2>2. CASE ~Leave(c)
    <3>1. inbound[c] < InMax => inbound[c] + 1 \in 0 .. InMax
      BY ChannelConstants
    <3> QED
      BY <1>12, <2>2, <3>1 DEF ReadData, Deliver
  <2> QED
    BY <2>1, <2>2
<1>13. ASSUME NEW c \in Channels, SendDone(c) PROVE OtherTypes'
  <2>1. CASE Leave(c)
    BY <1>13, <2>1 DEF SendDone, Deliver, Leave
  <2>2. CASE ~Leave(c)
    <3>1. inbound[c] < InMax => inbound[c] + 1 \in 0 .. InMax
      BY ChannelConstants
    <3> QED
      BY <1>13, <2>2, <3>1 DEF SendDone, Deliver
  <2> QED
    BY <2>1, <2>2
<1>14. ASSUME NEW c \in Channels, ReadEnd(c) PROVE OtherTypes'
  BY <1>14 DEF ReadEnd, Leave
<1>15. ASSUME NEW c \in Channels, RecvCmd(c) PROVE OtherTypes'
  BY <1>15 DEF RecvCmd, Closes, Leave
<1>16. ASSUME NEW c \in Channels, RecvNone(c) PROVE OtherTypes'
  BY <1>16 DEF RecvNone, Closes, Leave
<1>17. ASSUME NEW c \in Channels, WriteDone(c) PROVE OtherTypes'
  BY <1>17 DEF WriteDone
<1>18. ASSUME NEW c \in Channels, ServerCloses(c) PROVE OtherTypes'
  BY <1>18 DEF ServerCloses
<1>19. CASE CloseTab
  <2> DEFINE Closed == {c \in Channels : "pane" \in handles[c]}
  <2>1. \A c \in Channels :
           (IF c \in Closed THEN 0 ELSE inbound[c]) \in 0 .. InMax
    BY ChannelConstants
  <2>2. inbound' \in [Channels -> 0 .. InMax]
    <3>1. inbound' = [c \in Channels |-> IF c \in Closed THEN 0 ELSE inbound[c]]
      BY <1>19 DEF CloseTab
    <3> HIDE DEF Closed
    <3> QED
      BY <2>1, <3>1
  <2>3. receiver' \in [Channels -> {"none", "alive", "dropped"}]
    BY <1>19 DEF CloseTab
  <2> QED
    BY <1>19, <2>2, <2>3 DEF CloseTab
<1>20. CASE LinkDies
  BY <1>20 DEF LinkDies
<1>21. CASE UNCHANGED vars
  BY <1>21 DEF vars
<1> QED
  BY <1>1, <1>2, <1>3, <1>4, <1>5, <1>6, <1>7, <1>8, <1>9, <1>10, <1>11,
     <1>12, <1>13, <1>14, <1>15, <1>16, <1>17, <1>18, <1>19, <1>20, <1>21
     DEF Next, OpenPtyStep, IoTaskStep

\* A task serves from the moment its receiver exists.
LEMMA ReceiversAreKept == ChannelInv /\ [Next]_vars => TasksHaveReceivers'
<1> SUFFICES ASSUME ChannelInv, [Next]_vars PROVE TasksHaveReceivers'
  OBVIOUS
<1> USE DEF ChannelInv, TypeOK, TasksHaveReceivers, Serving
<1>1. ASSUME NEW c \in Channels, Open(c) PROVE TasksHaveReceivers'
  BY <1>1 DEF Open
<1>2. ASSUME NEW c \in Channels, SessionOpened(c) PROVE TasksHaveReceivers'
  BY <1>2 DEF SessionOpened
<1>3. ASSUME NEW c \in Channels, OpenDenied(c) PROVE TasksHaveReceivers'
  BY <1>3 DEF OpenDenied
<1>4. ASSUME NEW c \in Channels, PtyGranted(c) PROVE TasksHaveReceivers'
  BY <1>4 DEF PtyGranted
<1>5. ASSUME NEW c \in Channels, PtyRefused(c) PROVE TasksHaveReceivers'
  BY <1>5 DEF PtyRefused
<1>6. ASSUME NEW c \in Channels, PaneOpened(c) PROVE TasksHaveReceivers'
  BY <1>6 DEF PaneOpened
<1>7. ASSUME NEW c \in Channels, Write(c) PROVE TasksHaveReceivers'
  BY <1>7 DEF Write
<1>8. ASSUME NEW c \in Channels, AutomationWrites(c) PROVE TasksHaveReceivers'
  BY <1>8 DEF AutomationWrites
<1>9. ASSUME NEW c \in Channels, AutomationEnds(c) PROVE TasksHaveReceivers'
  BY <1>9 DEF AutomationEnds
<1>10. ASSUME NEW c \in Channels, Drain(c) PROVE TasksHaveReceivers'
  BY <1>10 DEF Drain
<1>11. ASSUME NEW c \in Channels, ClosePane(c) PROVE TasksHaveReceivers'
  BY <1>11 DEF ClosePane
<1>12. ASSUME NEW c \in Channels, ReadData(c) PROVE TasksHaveReceivers'
  BY <1>12 DEF ReadData, Deliver, Leave
<1>13. ASSUME NEW c \in Channels, SendDone(c) PROVE TasksHaveReceivers'
  BY <1>13 DEF SendDone, Deliver, Leave
<1>14. ASSUME NEW c \in Channels, ReadEnd(c) PROVE TasksHaveReceivers'
  BY <1>14 DEF ReadEnd, Leave
<1>15. ASSUME NEW c \in Channels, RecvCmd(c) PROVE TasksHaveReceivers'
  BY <1>15 DEF RecvCmd, Closes, Leave
<1>16. ASSUME NEW c \in Channels, RecvNone(c) PROVE TasksHaveReceivers'
  BY <1>16 DEF RecvNone, Closes, Leave
<1>17. ASSUME NEW c \in Channels, WriteDone(c) PROVE TasksHaveReceivers'
  BY <1>17 DEF WriteDone
<1>18. ASSUME NEW c \in Channels, ServerCloses(c) PROVE TasksHaveReceivers'
  BY <1>18 DEF ServerCloses
<1>19. CASE CloseTab
  BY <1>19 DEF CloseTab
<1>20. CASE LinkDies
  BY <1>20 DEF LinkDies
<1>21. CASE UNCHANGED vars
  BY <1>21 DEF vars
<1> QED
  BY <1>1, <1>2, <1>3, <1>4, <1>5, <1>6, <1>7, <1>8, <1>9, <1>10, <1>11,
     <1>12, <1>13, <1>14, <1>15, <1>16, <1>17, <1>18, <1>19, <1>20, <1>21
     DEF Next, OpenPtyStep, IoTaskStep

\* Every step that takes a channel off the books closes it, or its receiver
\* has been dropped.
LEMMA NothingIsForgotten == ChannelInv /\ [Next]_vars => NothingForgotten'
<1> SUFFICES ASSUME ChannelInv, [Next]_vars PROVE NothingForgotten'
  OBVIOUS
<1> USE DEF ChannelInv, TypeOK, TasksHaveReceivers, Serving, Counted
<1>1. ASSUME NEW c \in Channels, Open(c) PROVE NothingForgotten'
  BY <1>1, ForgettingNeedsALoss DEF Open
<1>2. ASSUME NEW c \in Channels, SessionOpened(c) PROVE NothingForgotten'
  BY <1>2, ForgettingNeedsALoss DEF SessionOpened
<1>3. ASSUME NEW c \in Channels, OpenDenied(c) PROVE NothingForgotten'
  BY <1>3, ForgettingNeedsALoss DEF OpenDenied
<1>4. ASSUME NEW c \in Channels, PtyGranted(c) PROVE NothingForgotten'
  BY <1>4, ForgettingNeedsALoss DEF PtyGranted
<1>5. ASSUME NEW c \in Channels, PtyRefused(c) PROVE NothingForgotten'
  BY <1>5, ForgettingNeedsALoss DEF PtyRefused, SlotOnRefusal
<1>6. ASSUME NEW c \in Channels, PaneOpened(c) PROVE NothingForgotten'
  BY <1>6, ForgettingNeedsALoss DEF PaneOpened
<1>7. ASSUME NEW c \in Channels, Write(c) PROVE NothingForgotten'
  BY <1>7, ForgettingNeedsALoss DEF Write
<1>8. ASSUME NEW c \in Channels, AutomationWrites(c) PROVE NothingForgotten'
  BY <1>8, ForgettingNeedsALoss DEF AutomationWrites
<1>9. ASSUME NEW c \in Channels, AutomationEnds(c) PROVE NothingForgotten'
  BY <1>9, ForgettingNeedsALoss DEF AutomationEnds
<1>10. ASSUME NEW c \in Channels, Drain(c) PROVE NothingForgotten'
  BY <1>10, ForgettingNeedsALoss DEF Drain
<1>11. ASSUME NEW c \in Channels, ClosePane(c) PROVE NothingForgotten'
  BY <1>11, ForgettingNeedsALoss DEF ClosePane
<1>12. ASSUME NEW c \in Channels, ReadData(c) PROVE NothingForgotten'
  BY <1>12, ForgettingNeedsALoss DEF ReadData, Deliver, Leave
<1>13. ASSUME NEW c \in Channels, SendDone(c) PROVE NothingForgotten'
  BY <1>13, ForgettingNeedsALoss DEF SendDone, Deliver, Leave
<1>14. ASSUME NEW c \in Channels, ReadEnd(c) PROVE NothingForgotten'
  BY <1>14, ForgettingNeedsALoss DEF ReadEnd, Leave
<1>15. ASSUME NEW c \in Channels, RecvCmd(c) PROVE NothingForgotten'
  BY <1>15, ForgettingNeedsALoss DEF RecvCmd, Closes, Leave
<1>16. ASSUME NEW c \in Channels, RecvNone(c) PROVE NothingForgotten'
  BY <1>16, ForgettingNeedsALoss DEF RecvNone, Closes, Leave
<1>17. ASSUME NEW c \in Channels, WriteDone(c) PROVE NothingForgotten'
  BY <1>17, ForgettingNeedsALoss DEF WriteDone
<1>18. ASSUME NEW c \in Channels, ServerCloses(c) PROVE NothingForgotten'
  BY <1>18, ForgettingNeedsALoss DEF ServerCloses
<1>19. CASE CloseTab
  BY <1>19, ForgettingNeedsALoss DEF CloseTab
<1>20. CASE LinkDies
  BY <1>20, ForgettingNeedsALoss DEF LinkDies
<1>21. CASE UNCHANGED vars
  BY <1>21, ForgettingNeedsALoss DEF vars
<1> QED
  BY <1>1, <1>2, <1>3, <1>4, <1>5, <1>6, <1>7, <1>8, <1>9, <1>10, <1>11,
     <1>12, <1>13, <1>14, <1>15, <1>16, <1>17, <1>18, <1>19, <1>20, <1>21
     DEF Next, OpenPtyStep, IoTaskStep

LEMMA TypesAreKept == ChannelInv /\ [Next]_vars => TypeOK'
BY QueuesAreKept, HandlesAreKept, OthersAreKept
   DEF QueuesOK, HandlesOK, Holders, OtherTypes, TypeOK

LEMMA InitialChannels == Init => ChannelInv
<1> SUFFICES ASSUME Init PROVE ChannelInv
  OBVIOUS
<1>1. Books = {}
  BY DEF Init, Books, Counted, Serving
<1>2. LedgerRight
  BY <1>1, FS_EmptySet DEF Init, LedgerRight
<1>3. Cardinality(Channels) \in Nat
  BY ChannelConstants, FS_CardinalityType
<1>4. TypeOK
  <2>1. QueuesOK
    BY ChannelConstants DEF Init, QueuesOK
  <2>2. HandlesOK
    BY DEF Init, HandlesOK
  <2>3. OtherTypes
    BY <1>3, ChannelConstants DEF Init, OtherTypes, Tasks
  <2> QED
    BY <2>1, <2>2, <2>3 DEF QueuesOK, HandlesOK, Holders, OtherTypes, TypeOK
<1>5. NothingForgotten /\ TasksHaveReceivers
  BY DEF Init, NothingForgotten, TasksHaveReceivers, Taken, Serving
<1> QED
  BY <1>2, <1>4, <1>5 DEF ChannelInv

-----------------------------------------------------------------------------
(* The theorems.                                                           *)

\* The invariant holds of every behaviour.
THEOREM ChannelInvariance == Spec => []ChannelInv
<1>1. Init => ChannelInv
  BY InitialChannels
<1>2. ChannelInv /\ [Next]_vars => ChannelInv'
  BY TypesAreKept, LedgerIsKept, NothingIsForgotten, ReceiversAreKept
     DEF ChannelInv
<1> QED
  BY <1>1, <1>2, PTL DEF Spec

\* Whatever the tasks, the application, the server and the network do, the
\* command queue and the inbound queue of a channel stay within their bounds.
THEOREM ChannelTypes == Spec => []TypeOK
<1>1. ChannelInv => TypeOK
  BY DEF ChannelInv
<1> QED
  BY <1>1, ChannelInvariance, PTL

\* The count behind ChannelLedger::held is the number of channels whose task
\* runs, and no channel the server still counts is missing from it but those
\* whose receiver was dropped before their task ended.
THEOREM SlotsAreAccountedFor == Spec => []SlotsAccountedFor
<1>1. ChannelInv => SlotsAccountedFor
  BY DEF ChannelInv, LedgerRight, Books, NothingForgotten, SlotsAccountedFor
<1> QED
  BY <1>1, ChannelInvariance, PTL

-----------------------------------------------------------------------------
(* The channels that are left behind.  A server may go on counting the     *)
(* channel of a pane that is gone (run channel_slot), for one reason only. *)

\* A chunk of output, read or waiting for room, finds the receiver alive.
OutputHasReceiver ==
    \A c \in Channels : ReadData(c) \/ SendDone(c) => receiver[c] = "alive"

\* A task that is over has left the server nothing to count on a link that
\* works, and one that has not opened its channel yet has nothing to leave.
NoneLeft ==
    \A c \in Channels :
        /\ task[c] \in {"failed", "ended"} => slot[c] # "taken" \/ ~linkUp
        /\ task[c] \in {"unborn", "opening"} => slot[c] = "free"

LEMMA NoneIsLeft ==
    ASSUME ChannelInv, NoneLeft, [Next]_vars, OutputHasReceiver \/ UNCHANGED vars
    PROVE  NoneLeft'
<1> USE DEF ChannelInv, TypeOK, NoneLeft, Serving
<1>1. ASSUME NEW c \in Channels, Open(c) PROVE NoneLeft'
  BY <1>1 DEF Open
<1>2. ASSUME NEW c \in Channels, SessionOpened(c) PROVE NoneLeft'
  BY <1>2 DEF SessionOpened
<1>3. ASSUME NEW c \in Channels, OpenDenied(c) PROVE NoneLeft'
  BY <1>3 DEF OpenDenied
<1>4. ASSUME NEW c \in Channels, PtyGranted(c) PROVE NoneLeft'
  BY <1>4 DEF PtyGranted
<1>5. ASSUME NEW c \in Channels, PtyRefused(c) PROVE NoneLeft'
  BY <1>5 DEF PtyRefused, SlotOnRefusal
<1>6. ASSUME NEW c \in Channels, PaneOpened(c) PROVE NoneLeft'
  BY <1>6 DEF PaneOpened
<1>7. ASSUME NEW c \in Channels, Write(c) PROVE NoneLeft'
  BY <1>7 DEF Write
<1>8. ASSUME NEW c \in Channels, AutomationWrites(c) PROVE NoneLeft'
  BY <1>8 DEF AutomationWrites
<1>9. ASSUME NEW c \in Channels, AutomationEnds(c) PROVE NoneLeft'
  BY <1>9 DEF AutomationEnds
<1>10. ASSUME NEW c \in Channels, Drain(c) PROVE NoneLeft'
  BY <1>10 DEF Drain
<1>11. ASSUME NEW c \in Channels, ClosePane(c) PROVE NoneLeft'
  BY <1>11 DEF ClosePane
<1>12. ASSUME NEW c \in Channels, ReadData(c) PROVE NoneLeft'
  <2>1. CASE UNCHANGED vars
    BY <2>1 DEF vars
  <2>2. CASE OutputHasReceiver
    BY <1>12, <2>2 DEF ReadData, Deliver, OutputHasReceiver
  <2> QED
    BY <2>1, <2>2
<1>13. ASSUME NEW c \in Channels, SendDone(c) PROVE NoneLeft'
  <2>1. CASE UNCHANGED vars
    BY <2>1 DEF vars
  <2>2. CASE OutputHasReceiver
    BY <1>13, <2>2 DEF SendDone, Deliver, OutputHasReceiver
  <2> QED
    BY <2>1, <2>2
<1>14. ASSUME NEW c \in Channels, ReadEnd(c) PROVE NoneLeft'
  BY <1>14 DEF ReadEnd, Leave, Taken, ConnHeld
<1>15. ASSUME NEW c \in Channels, RecvCmd(c) PROVE NoneLeft'
  BY <1>15 DEF RecvCmd, Closes, Leave
<1>16. ASSUME NEW c \in Channels, RecvNone(c) PROVE NoneLeft'
  BY <1>16 DEF RecvNone, Closes, Leave
<1>17. ASSUME NEW c \in Channels, WriteDone(c) PROVE NoneLeft'
  BY <1>17 DEF WriteDone
<1>18. ASSUME NEW c \in Channels, ServerCloses(c) PROVE NoneLeft'
  BY <1>18 DEF ServerCloses, Taken
<1>19. CASE CloseTab
  BY <1>19 DEF CloseTab
<1>20. CASE LinkDies
  BY <1>20 DEF LinkDies
<1>21. CASE UNCHANGED vars
  BY <1>21 DEF vars
<1> QED
  BY <1>1, <1>2, <1>3, <1>4, <1>5, <1>6, <1>7, <1>8, <1>9, <1>10, <1>11,
     <1>12, <1>13, <1>14, <1>15, <1>16, <1>17, <1>18, <1>19, <1>20, <1>21
     DEF Next, OpenPtyStep, IoTaskStep

\* As long as no output meets a receiver that was dropped, every channel whose
\* task is over is closed on the server: a Close that a full queue swallows, a
\* refused pty, a dead link and a tab closed in between lose no slot.  That one
\* exit of io_task, which does not close the channel, is all run channel_slot
\* finds.
THEOREM OnlyDroppedOutputLeaks ==
    Spec /\ [][OutputHasReceiver]_vars => []ClosedPaneFreesSlot
<1>1. Init => NoneLeft
  BY DEF Init, NoneLeft
<1>2. ChannelInv /\ NoneLeft /\ [Next]_vars /\ [OutputHasReceiver]_vars => NoneLeft'
  BY NoneIsLeft
<1>3. NoneLeft => ClosedPaneFreesSlot
  BY DEF NoneLeft, ClosedPaneFreesSlot, Taken
<1> QED
  BY <1>1, <1>2, <1>3, ChannelInvariance, PTL DEF Spec

=============================================================================
