----------------------------- MODULE ChannelIo -----------------------------
(***************************************************************************)
(* The PTY channels of one SSH connection: open_pty asks the server for a  *)
(* channel, io_task moves bytes between it and the queues of the           *)
(* application, and the connection lives as long as somebody holds it      *)
(* (session.rs and ledger.rs of mullion-ssh; the pane that owns a channel  *)
(* is shell/workspace/mod.rs and app.rs of mullion-app).                   *)
(*                                                                         *)
(* io_task serves both directions with one select!: while it waits for     *)
(* room in the inbound queue, or for the server to take what was typed, it *)
(* does neither.  A channel is given up in three ways that cross: a Close  *)
(* command, which a full queue swallows; the last sender of commands going *)
(* away; and the receiver of output going away.                            *)
(*                                                                         *)
(* A resize travels as a write does and is not told apart from it; the end *)
(* of file a server sends before it closes a channel is part of closing.   *)
(***************************************************************************)
EXTENDS Naturals, Sequences, FiniteSets

CONSTANTS
    Channels,  \* the channels ever asked for; none is used again
    CmdMax,    \* capacity of the command queue, 256 in the code
    InMax      \* capacity of the inbound queue, 256 in the code

ASSUME ChannelConstants ==
    /\ IsFiniteSet(Channels)
    /\ {CmdMax, InMax} \subseteq Nat \ {0}

VARIABLES
    task,      \* task[c]: how far open_pty and then io_task have got
    cmds,      \* cmds[c]: the queue behind cmd_tx
    inbound,   \* inbound[c]: length of the queue behind inbound_tx
    receiver,  \* receiver[c]: the receiving end of it, in the application
    handles,   \* handles[c]: who holds the SshSession, hence a sender
    slot,      \* slot[c]: the channel as the server counts it
    held,      \* ChannelLedger::held of the connection
    appConn,   \* the tab holds the connection
    linkUp     \* the connection works

vars == <<task, cmds, inbound, receiver, handles, slot, held, appConn, linkUp>>

\* Where the task of a channel can be: opening and pty await the server in
\* open_pty, selecting is io_task at its select!, sending waits for room in
\* the inbound queue and writing for the server to take data.
Serving == {"selecting", "sending", "writing"}
Tasks == Serving \union {"unborn", "opening", "pty", "failed", "ended"}

TypeOK ==
    /\ task \in [Channels -> Tasks]
    /\ cmds \in [Channels -> Seq({"write", "close"})]
    /\ \A c \in Channels : Len(cmds[c]) <= CmdMax
    /\ inbound \in [Channels -> 0 .. InMax]
    /\ receiver \in [Channels -> {"none", "alive", "dropped"}]
    /\ handles \in [Channels -> SUBSET {"event", "pane", "automation"}]
    /\ slot \in [Channels -> {"free", "taken", "closed"}]
    /\ held \in 0 .. Cardinality(Channels)
    /\ appConn \in BOOLEAN
    /\ linkUp \in BOOLEAN

Init ==
    /\ task = [c \in Channels |-> "unborn"]
    /\ cmds = [c \in Channels |-> <<>>]
    /\ inbound = [c \in Channels |-> 0]
    /\ receiver = [c \in Channels |-> "none"]
    /\ handles = [c \in Channels |-> {}]
    /\ slot = [c \in Channels |-> "free"]
    /\ held = 0
    /\ appConn = TRUE
    /\ linkUp = TRUE

\* Every task of the connection holds it; the last holder's drop ends it and
\* with it every channel the server still counts.
ConnHeld ==
    appConn \/ \E c \in Channels : task[c] \in Serving \union {"opening", "pty"}

Taken(c) == slot[c] = "taken" /\ linkUp /\ ConnHeld

-----------------------------------------------------------------------------
(* open_pty.                                                               *)

Open(c) ==
    /\ task[c] = "unborn" /\ appConn
    /\ task' = [task EXCEPT ![c] = "opening"]
    /\ UNCHANGED <<cmds, inbound, receiver, handles, slot, held, appConn,
                   linkUp>>

\* channel_open_session has succeeded: only now the ledger counts the channel.
SessionOpened(c) ==
    /\ task[c] = "opening" /\ linkUp
    /\ task' = [task EXCEPT ![c] = "pty"]
    /\ slot' = [slot EXCEPT ![c] = "taken"]
    /\ held' = held + 1
    /\ UNCHANGED <<cmds, inbound, receiver, handles, appConn, linkUp>>

OpenDenied(c) ==
    /\ task[c] = "opening"
    /\ task' = [task EXCEPT ![c] = "failed"]
    /\ UNCHANGED <<cmds, inbound, receiver, handles, slot, held, appConn,
                   linkUp>>

\* The halves are split, io_task is spawned, and the application is told.
PtyGranted(c) ==
    /\ task[c] = "pty" /\ linkUp
    /\ task' = [task EXCEPT ![c] = "selecting"]
    /\ receiver' = [receiver EXCEPT ![c] = "alive"]
    /\ handles' = [handles EXCEPT ![c] = {"event"}]
    /\ UNCHANGED <<cmds, inbound, slot, held, appConn, linkUp>>

\* What becomes of the channel when the pty or the shell is refused.
\* (Bug form: it is left to its destructor, which does not close it.)
SlotLeft(c) == slot[c]
SlotOnRefusal(c) == "closed"

PtyRefused(c) ==
    /\ task[c] = "pty"
    /\ task' = [task EXCEPT ![c] = "failed"]
    /\ slot' = [slot EXCEPT ![c] = SlotOnRefusal(c)]
    /\ held' = held - 1
    /\ UNCHANGED <<cmds, inbound, receiver, handles, appConn, linkUp>>

-----------------------------------------------------------------------------
(* The application's side of a channel.                                    *)

\* try_send: a full queue swallows the command, and so does an ended task.
\* (Bug form: a queue without a bound.)
UnboundedSend(c, cmd) ==
    IF task[c] \in Serving THEN Append(cmds[c], cmd) ELSE cmds[c]
TrySend(c, cmd) ==
    IF task[c] \in Serving /\ Len(cmds[c]) < CmdMax
    THEN Append(cmds[c], cmd) ELSE cmds[c]

\* PaneOpened.  The pane may have been closed, or its tab, while the channel
\* was opened: then both ends are dropped without a Close.
PaneOpened(c) ==
    /\ handles[c] = {"event"}
    /\ \/ /\ appConn
          /\ handles' \in {[handles EXCEPT ![c] = h] :
                             h \in {{"pane"}, {"pane", "automation"}}}
          /\ UNCHANGED receiver
       \/ /\ handles' = [handles EXCEPT ![c] = {}]
          /\ receiver' = [receiver EXCEPT ![c] = "dropped"]
    /\ UNCHANGED <<task, cmds, inbound, slot, held, appConn, linkUp>>

\* A key, a paste, a resize.
Write(c) ==
    /\ "pane" \in handles[c]
    /\ cmds' = [cmds EXCEPT ![c] = TrySend(c, "write")]
    /\ UNCHANGED <<task, inbound, receiver, handles, slot, held, appConn,
                   linkUp>>

\* A step of write_scheduled, on the handle the automation task shares.
AutomationWrites(c) ==
    /\ "automation" \in handles[c]
    /\ cmds' = [cmds EXCEPT ![c] = TrySend(c, "write")]
    /\ UNCHANGED <<task, inbound, receiver, handles, slot, held, appConn,
                   linkUp>>

\* write_scheduled ends: done, canceled, disconnected, or congested after
\* three attempts at a full queue.
AutomationEnds(c) ==
    /\ "automation" \in handles[c]
    /\ handles' = [handles EXCEPT ![c] = @ \ {"automation"}]
    /\ UNCHANGED <<task, cmds, inbound, receiver, slot, held, appConn, linkUp>>

\* What pump leaves in the inbound queue.  (Bug form: it stops one chunk short.)
OneLeft(c) == 1
LeftByPump(c) == 0

\* Workspace::pump drains the queue; what it read may call for an answer.
Drain(c) ==
    /\ "pane" \in handles[c] /\ inbound[c] > 0
    /\ inbound' = [inbound EXCEPT ![c] = LeftByPump(c)]
    /\ \/ cmds' = [cmds EXCEPT ![c] = TrySend(c, "write")]
       \/ UNCHANGED cmds
    /\ UNCHANGED <<task, receiver, handles, slot, held, appConn, linkUp>>

\* The pane goes, or takes another channel: a Close is tried and both of the
\* pane's ends are dropped.  The automation keeps its handle.
ClosePane(c) ==
    /\ "pane" \in handles[c]
    /\ cmds' = [cmds EXCEPT ![c] = TrySend(c, "close")]
    /\ handles' = [handles EXCEPT ![c] = @ \ {"pane"}]
    /\ receiver' = [receiver EXCEPT ![c] = "dropped"]
    /\ inbound' = [inbound EXCEPT ![c] = 0]
    /\ UNCHANGED <<task, slot, held, appConn, linkUp>>

\* wind_down: the automations are aborted, every pane is closed and the tab's
\* hold on the connection is dropped.  Channels on their way stay on it.
CloseTab ==
    LET Closed == {c \in Channels : "pane" \in handles[c]} IN
    /\ appConn
    /\ appConn' = FALSE
    /\ cmds' = [c \in Channels |->
                  IF c \in Closed THEN TrySend(c, "close") ELSE cmds[c]]
    /\ handles' = [c \in Channels |-> handles[c] \intersect {"event"}]
    /\ receiver' = [c \in Channels |->
                      IF c \in Closed THEN "dropped" ELSE receiver[c]]
    /\ inbound' = [c \in Channels |-> IF c \in Closed THEN 0 ELSE inbound[c]]
    /\ UNCHANGED <<task, slot, held, linkUp>>

-----------------------------------------------------------------------------
(* io_task.                                                                *)

\* The loop is left: the queues end and the guard's drop uncounts the channel.
Leave(c) ==
    /\ task' = [task EXCEPT ![c] = "ended"]
    /\ cmds' = [cmds EXCEPT ![c] = <<>>]
    /\ held' = held - 1

\* A chunk goes into the inbound queue, waits for room there, or finds that
\* the receiver is gone and ends the task, without closing the channel.
Deliver(c) ==
    CASE receiver[c] # "alive" -> Leave(c) /\ UNCHANGED inbound
      [] receiver[c] = "alive" /\ inbound[c] < InMax ->
            /\ inbound' = [inbound EXCEPT ![c] = @ + 1]
            /\ task' = [task EXCEPT ![c] = "selecting"]
            /\ UNCHANGED <<cmds, held>>
      [] OTHER -> /\ task' = [task EXCEPT ![c] = "sending"]
                  /\ UNCHANGED <<inbound, cmds, held>>

\* The server may have data at any time.
ReadData(c) ==
    /\ task[c] = "selecting" /\ Taken(c)
    /\ Deliver(c)
    /\ UNCHANGED <<receiver, handles, slot, appConn, linkUp>>

SendDone(c) ==
    /\ task[c] = "sending"
    /\ receiver[c] = "alive" => inbound[c] < InMax
    /\ Deliver(c)
    /\ UNCHANGED <<receiver, handles, slot, appConn, linkUp>>

\* The server has closed the channel, or the connection is dead.
ReadEnd(c) ==
    /\ task[c] = "selecting" /\ ~Taken(c)
    /\ Leave(c)
    /\ UNCHANGED <<inbound, receiver, handles, slot, appConn, linkUp>>

Closes(c) ==
    /\ slot' = [slot EXCEPT ![c] = "closed"]
    /\ Leave(c)

RecvCmd(c) ==
    /\ task[c] = "selecting" /\ cmds[c] # <<>>
    /\ CASE Head(cmds[c]) = "close" -> Closes(c)
         [] OTHER -> /\ task' = [task EXCEPT ![c] = "writing"]
                     /\ cmds' = [cmds EXCEPT ![c] = Tail(@)]
                     /\ UNCHANGED <<slot, held>>
    /\ UNCHANGED <<inbound, receiver, handles, appConn, linkUp>>

\* recv yields None.  (Bug form: the loop goes on.)
NeverNone(c) == FALSE
NoSenderLeft(c) == cmds[c] = <<>> /\ handles[c] = {}

RecvNone(c) ==
    /\ task[c] = "selecting" /\ NoSenderLeft(c)
    /\ Closes(c)
    /\ UNCHANGED <<inbound, receiver, handles, appConn, linkUp>>

\* The server has taken what was written, or the write has failed.
WriteDone(c) ==
    /\ task[c] = "writing"
    /\ task' = [task EXCEPT ![c] = "selecting"]
    /\ UNCHANGED <<cmds, inbound, receiver, handles, slot, held, appConn,
                   linkUp>>

-----------------------------------------------------------------------------
(* The server and the network.                                             *)

\* The shell has ended.
ServerCloses(c) ==
    /\ Taken(c) /\ task[c] # "pty"
    /\ slot' = [slot EXCEPT ![c] = "closed"]
    /\ UNCHANGED <<task, cmds, inbound, receiver, handles, held, appConn,
                   linkUp>>

LinkDies ==
    /\ linkUp
    /\ linkUp' = FALSE
    /\ UNCHANGED <<task, cmds, inbound, receiver, handles, slot, held, appConn>>

-----------------------------------------------------------------------------

OpenPtyStep(c) ==
    \/ SessionOpened(c) \/ OpenDenied(c) \/ PtyGranted(c) \/ PtyRefused(c)

IoTaskStep(c) ==
    \/ ReadData(c) \/ SendDone(c) \/ ReadEnd(c) \/ RecvCmd(c) \/ RecvNone(c)
    \/ WriteDone(c)

Next ==
    \/ \E c \in Channels :
          \/ Open(c) \/ OpenPtyStep(c) \/ PaneOpened(c)
          \/ Write(c) \/ AutomationWrites(c) \/ AutomationEnds(c)
          \/ Drain(c) \/ ClosePane(c) \/ IoTaskStep(c) \/ ServerCloses(c)
    \/ CloseTab
    \/ LinkDies

Spec == Init /\ [][Next]_vars

\* A channel that is given up gets no data for ever, so what ends its task is
\* the rest of the loop; select! picks among what is ready at random, so a
\* command that waits at it again and again is picked.  Frames come as long
\* as output does, a schedule of writes is finite, and the server is assumed
\* to take what is written to it in the end.
Fairness ==
    \A c \in Channels :
        /\ WF_vars(ReadEnd(c))
        /\ WF_vars(RecvNone(c))
        /\ WF_vars(SendDone(c))
        /\ WF_vars(WriteDone(c))
        /\ SF_vars(RecvCmd(c))
        /\ WF_vars(Drain(c))
        /\ WF_vars(PaneOpened(c))
        /\ WF_vars(AutomationEnds(c))

FairSpec == Spec /\ Fairness

-----------------------------------------------------------------------------

Counted(c) == task[c] \in Serving \union {"pty"}

\* The ledger counts the channels whose task runs, no more and no less, through
\* refusals, closes and dead links; and a channel the server still counts is
\* one the ledger counts, unless the receiver of its output was dropped before
\* its task ended.
SlotsAccountedFor ==
    /\ held = Cardinality({c \in Channels : Counted(c)})
    /\ \A c \in Channels :
          Taken(c) => Counted(c) \/ receiver[c] = "dropped"

\* io_task ends, and lets the connection go, once nobody can send to it any
\* more, whatever its queues held and wherever it was waiting, even if the
\* Close was lost.
ReleasedTaskEnds ==
    \A c \in Channels :
        task[c] \in Serving /\ handles[c] = {} ~> task[c] = "ended"

\* Output without end delays what is typed and never starves it: commands are
\* taken, or the task ends ("delayed, not a deadlock", session.rs).
InputServed ==
    \A c \in Channels :
        cmds[c] # <<>> ~> task[c] \in {"writing", "ended"}

\* A channel whose pane is gone and whose task has ended is closed on the
\* server: otherwise it takes one of the connection's session slots until the
\* whole connection ends (the None arm of io_task: "not sending it leaks a
\* channel slot").
ClosedPaneFreesSlot ==
    \A c \in Channels : task[c] \in {"failed", "ended"} => ~Taken(c)

=============================================================================
