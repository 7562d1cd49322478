----------------------------- MODULE RemoteEdit -----------------------------
(***************************************************************************)
(* Editing a remote file in an external editor                             *)
(* (mullion-app/src/edit/sessions.rs and the handlers of app.rs): the file *)
(* is read into a temporary one, a watcher polls that for changes, and     *)
(* each change is written back unless the remote file has changed          *)
(* meanwhile, in which case the user decides.                              *)
(*                                                                         *)
(* One remote file is edited through one tab; somebody else writes it too. *)
(* A version is the number of the write that made it, and stands for the   *)
(* remote stamp (mtime, size) as well: left out are two writes within a    *)
(* second that agree in size, as sessions.rs accepts, and a writer that    *)
(* puts an old mtime back.                                                 *)
(***************************************************************************)
EXTENDS Naturals, Sequences

CONSTANTS
    MaxVersions,  \* bound: how often the remote path is truncated or written
    MaxStamps,    \* bound: how often the temporary file is written
    MaxKeys,      \* bound: how many entries are ever made
    MaxEvents,    \* bound: events of readers and watchers in flight
    None          \* no version, no key, no entry, no watcher, no temporary file

Keys == 1 .. MaxKeys
Versions == 0 .. MaxVersions
Stamps == 0 .. MaxStamps   \* of the temporary file; 0 is not seen yet

ASSUME EditConstants ==
    /\ MaxVersions \in Nat /\ MaxStamps \in Nat /\ MaxKeys \in Nat /\ MaxEvents \in Nat
    /\ None \notin Nat

VARIABLES
    remote,   \* the version at the remote path
    local,    \* the temporary file: the stamp of its content
    stamp,    \* the stamp last given to one
    tabOpen,  \* the tab the file was opened from, and its sftp channel, exist
    reader,   \* read_for_edit: where it is and what it has read
    entry,    \* the EditEntry, its key and its EditState
    nextKey,  \* EditSessions::next
    watcher,  \* the task of watch_edit: its key and the stamp it last reported
    uploads,  \* the tasks of push_edit: write_back in progress
    events    \* EditOpened, EditTick and EditSaved, oldest first

\* What the user has seen and done (history; never read by an action).
VARIABLES
    cut,      \* keys a write-back of which was aborted
    theirs,   \* versions somebody else has written, and not late
    known,    \* versions an entry was made for, or he has uploaded or decided about
    settled,  \* those of them that concern the present entry
    sent      \* the local stamp he has last seen downloaded, uploaded or given up

localVars == <<local, stamp>>
deskVars == <<entry, nextKey, watcher>>
taskVars == <<reader, uploads>>
historyVars == <<cut, theirs, known, settled, sent>>
vars == <<remote, localVars, tabOpen, deskVars, taskVars, events, historyVars>>

Idle == [phase |-> "idle", version |-> None]
States == {"Watching", "Uploading", "Conflict", "Failed"}
Entry == [key : Keys, state : States, snapshot : Versions, seen : Stamps,
          conflict : Versions \union {None}]
Upload == [key : Keys, bytes : Stamps, snapshot : Versions,
           last : Versions \union {None},   \* (history) the version it last found or made
           phase : {"stat", "write", "writing", "check"}]
Event ==
    [kind : {"opened"}, version : Versions, snapshot : Versions]
    \union [kind : {"tick"}, key : Keys, stamp : Stamps]
    \union [kind : {"done"}, key : Keys, bytes : Stamps,
             own : Versions,                 \* (history) the version it has made
             remote : Versions]
    \union [kind : {"conflict"}, key : Keys, remote : Versions]
    \union [kind : {"failed"}, key : Keys]

TypeOK ==
    /\ remote \in Versions
    /\ stamp \in Stamps /\ local \in (1 .. stamp) \union {None}
    /\ tabOpen \in BOOLEAN
    /\ reader \in [phase : {"idle", "reading", "read"}, version : Versions \union {None}]
    /\ entry \in Entry \union {None}
    /\ nextKey \in 1 .. MaxKeys + 1
    /\ watcher \in [key : Keys, last : Stamps] \union {None}
    /\ uploads \subseteq Upload
    /\ events \in Seq(Event) /\ Len(events) <= MaxEvents + MaxKeys
    /\ cut \subseteq Keys
    /\ theirs \subseteq 1 .. remote /\ known \subseteq 0 .. remote /\ settled \subseteq known
    /\ sent \in (1 .. stamp) \union {None}

Init ==
    /\ remote = 0
    /\ local = None /\ stamp = 0
    /\ tabOpen = TRUE
    /\ reader = Idle
    /\ entry = None /\ nextKey = 1 /\ watcher = None
    /\ uploads = {}
    /\ events = <<>>
    /\ cut = {} /\ theirs = {} /\ known = {} /\ settled = {} /\ sent = None

-----------------------------------------------------------------------------
(* Steps shared by the actions.                                            *)

\* (Bound: readers and watchers wait while MaxEvents events are in flight.)
Post(e) == events' = Append(events, e)
Send(e) == Len(events) < MaxEvents /\ Post(e)
Received(kind) == events # <<>> /\ Head(events).kind = kind /\ events' = Tail(events)

\* The entry an event for key k is about.
IsFor(k) == entry # None /\ entry.key = k

\* changed_locally looks at an entry that is only being watched.
\* (Bug form, for the mutants: at any.)
WatchedAlways(e) == TRUE
Watched(e) == e.state = "Watching"

\* write_if_unchanged compares with the stamp of the last transfer.
\* (Bug form: the remote file is not looked at.)
MayWriteBlindly(u) == TRUE
MayWrite(u) == remote = u.snapshot

\* keep_remote: the remote file counts as seen.
\* (Bug form: the snapshot stays.)
KeptStale(e) == [e EXCEPT !.state = "Watching", !.conflict = None]
Kept(e) == [e EXCEPT !.state = "Watching", !.snapshot = e.conflict, !.conflict = None]

\* What on_edit_saved makes of a write-back that failed.
\* (Bug form: it is dropped like one whose entry is gone.)
UploadForgotten(e) == e
UploadFailed(e) == [e EXCEPT !.state = "Failed"]

\* What is at the remote path gets a new stamp.
Writes == remote < MaxVersions /\ remote' = remote + 1

\* (History.)
Settled(c) == known' = known \union {c} /\ settled' = settled \union {c}

\* push_edit of the entry e, which may have changed in the same handler.
Push(e) ==
    IF tabOpen
    THEN /\ entry' = [e EXCEPT !.state = "Uploading"]
         /\ uploads' = uploads \union {[key |-> e.key, bytes |-> local,
                                       snapshot |-> e.snapshot, last |-> None,
                                       phase |-> "stat"]}
    ELSE /\ entry' = [e EXCEPT !.state = "Failed"]
         /\ UNCHANGED uploads

\* The tasks of the tab are aborted.
AbortTasks ==
    /\ reader' = Idle
    /\ uploads' = {}
    /\ cut' = cut \union {u.key : u \in uploads}

-----------------------------------------------------------------------------
(* Opening.                                                                *)

\* start_edit.  (Bound: one open at a time.)
StartEdit ==
    /\ tabOpen /\ reader = Idle
    /\ reader' = [phase |-> "reading", version |-> None]
    /\ UNCHANGED <<remote, localVars, tabOpen, deskVars, uploads, events, historyVars>>

\* read_for_edit: read_all, then stat, then the event.
ReadAll ==
    /\ reader.phase = "reading"
    /\ reader' = [phase |-> "read", version |-> remote]
    /\ UNCHANGED <<remote, localVars, tabOpen, deskVars, uploads, events, historyVars>>

StatAfterRead ==
    /\ reader.phase = "read"
    /\ Send([kind |-> "opened", version |-> reader.version, snapshot |-> remote])
    /\ reader' = Idle
    /\ UNCHANGED <<remote, localVars, tabOpen, deskVars, uploads, historyVars>>

\* The read fails, which is only shown.
OpenFails ==
    /\ reader # Idle
    /\ reader' = Idle
    /\ UNCHANGED <<remote, localVars, tabOpen, deskVars, uploads, events, historyVars>>

\* finish_edit_open.  Without its tab, or when the temporary file cannot be written
\* (as at the bounds), nothing happens.  It is written; when no program can be
\* started for it that is all.  A path that is already being edited keeps its
\* entry (EditSessions::add) and gets a new watcher.
FinishEditOpen(launched) ==
    /\ Received("opened")
    /\ LET e == Head(events) IN
       IF ~(tabOpen /\ stamp < MaxStamps /\ nextKey <= MaxKeys)
       THEN UNCHANGED <<localVars, deskVars, known, settled, sent>>
       ELSE /\ stamp' = stamp + 1
            /\ local' = stamp + 1
            /\ IF ~launched THEN UNCHANGED <<deskVars, known, settled, sent>>
               ELSE /\ sent' = stamp + 1
                    /\ watcher' = [last |-> 0,
                                   key |-> IF entry = None THEN nextKey ELSE entry.key]
                    /\ IF entry # None THEN UNCHANGED <<entry, nextKey, known, settled>>
                       ELSE /\ known' = known \union {e.version}
                            /\ settled' = {e.version}
                            /\ nextKey' = nextKey + 1
                            /\ entry' = [key |-> nextKey, state |-> "Watching",
                                         snapshot |-> e.snapshot, seen |-> 0,
                                         conflict |-> None]
    /\ UNCHANGED <<remote, tabOpen, taskVars, cut, theirs>>

-----------------------------------------------------------------------------
(* Watching and writing back.                                              *)

\* The editor saves the temporary file.
UserSaves ==
    /\ local # None /\ stamp < MaxStamps
    /\ stamp' = stamp + 1 /\ local' = stamp + 1
    /\ UNCHANGED <<remote, tabOpen, deskVars, taskVars, events, historyVars>>

\* watch_edit polls, and reports only what differs from its last report.
Poll ==
    /\ watcher # None /\ local # None
    /\ watcher.last # local
    /\ Send([kind |-> "tick", key |-> watcher.key, stamp |-> local])
    /\ watcher' = [watcher EXCEPT !.last = local]
    /\ UNCHANGED <<remote, localVars, tabOpen, entry, nextKey, taskVars, historyVars>>

\* on_edit_tick and changed_locally: the first stamp is the baseline, another
\* one a change.
OnEditTick ==
    /\ Received("tick")
    /\ LET t == Head(events) IN
       IF IsFor(t.key) /\ Watched(entry)
       THEN LET e == [entry EXCEPT !.seen = t.stamp] IN
            IF entry.seen \in {0, t.stamp}
            THEN entry' = e /\ UNCHANGED uploads
            ELSE Push(e)
       ELSE UNCHANGED <<entry, uploads>>
    /\ UNCHANGED <<remote, localVars, tabOpen, nextKey, watcher, reader, historyVars>>

\* write_if_unchanged: look, write, look again.  Opening for the write truncates.
Becomes(u, v) == uploads' = (uploads \ {u}) \union {v}

StatBeforeWrite(u) ==
    /\ u.phase = "stat"
    /\ IF MayWrite(u)
       THEN /\ Becomes(u, [u EXCEPT !.phase = "write", !.last = remote])
            /\ UNCHANGED events
       ELSE /\ uploads' = uploads \ {u}
            /\ Post([kind |-> "conflict", key |-> u.key, remote |-> remote])
    /\ UNCHANGED <<remote, localVars, tabOpen, deskVars, reader, historyVars>>

Truncate(u) ==
    /\ u.phase = "write" /\ Writes
    /\ Becomes(u, [u EXCEPT !.phase = "writing", !.last = remote'])
    /\ UNCHANGED <<localVars, tabOpen, deskVars, reader, events, historyVars>>

WriteAll(u) ==
    /\ u.phase = "writing" /\ Writes
    /\ Becomes(u, [u EXCEPT !.phase = "check", !.last = remote'])
    /\ UNCHANGED <<localVars, tabOpen, deskVars, reader, events, historyVars>>

StatAfterWrite(u) ==
    /\ u.phase = "check"
    /\ uploads' = uploads \ {u}
    /\ Post([kind |-> "done", key |-> u.key, bytes |-> u.bytes, own |-> u.last,
             remote |-> remote])
    /\ UNCHANGED <<remote, localVars, tabOpen, deskVars, reader, historyVars>>

\* The write-back fails in any of its requests.
UploadBreaks(u) ==
    /\ uploads' = uploads \ {u}
    /\ Post([kind |-> "failed", key |-> u.key])
    /\ UNCHANGED <<remote, localVars, tabOpen, deskVars, reader, historyVars>>

\* on_edit_saved.  An event whose entry is gone is dropped.
OnEditDone ==
    /\ Received("done")
    /\ LET d == Head(events) IN
       IF IsFor(d.key)
       THEN /\ entry' = [entry EXCEPT !.state = "Watching", !.snapshot = d.remote,
                                      !.seen = local, !.conflict = None]
            /\ Settled(d.own)
            /\ sent' = d.bytes
       ELSE UNCHANGED <<entry, known, settled, sent>>
    /\ UNCHANGED <<remote, localVars, tabOpen, nextKey, watcher, taskVars, cut, theirs>>

OnEditConflict ==
    /\ Received("conflict")
    /\ entry' = IF IsFor(Head(events).key)
                THEN [entry EXCEPT !.state = "Conflict",
                                   !.conflict = Head(events).remote]
                ELSE entry
    /\ UNCHANGED <<remote, localVars, tabOpen, nextKey, watcher, taskVars, historyVars>>

OnEditFailed ==
    /\ Received("failed")
    /\ entry' = IF IsFor(Head(events).key) THEN UploadFailed(entry) ELSE entry
    /\ UNCHANGED <<remote, localVars, tabOpen, nextKey, watcher, taskVars, historyVars>>

-----------------------------------------------------------------------------
(* The user's decisions.                                                   *)

\* resolve_edit.  Without the stamp of the conflict nothing can be done.
\* (Bug form: it does not look.)
ResolvingUnasked == entry # None
Resolving == entry # None /\ entry.state = "Conflict" /\ entry.conflict # None

KeepRemote ==
    /\ Resolving
    /\ entry' = Kept(entry)
    /\ Settled(entry.conflict)
    /\ sent' = local
    /\ UNCHANGED <<remote, localVars, tabOpen, nextKey, watcher, taskVars, events, cut, theirs>>

Overwrite ==
    /\ Resolving
    /\ Push(Kept(entry))
    /\ Settled(entry.conflict)
    /\ UNCHANGED <<remote, localVars, tabOpen, nextKey, watcher, reader, events,
                   cut, theirs, sent>>

\* The copy goes to another path, in a task nobody waits for.
SaveCopy ==
    /\ Resolving
    /\ IF tabOpen
       THEN /\ entry' = Kept(entry)
            /\ Settled(entry.conflict)
            /\ sent' = local
       ELSE entry' = [entry EXCEPT !.state = "Failed"] /\ UNCHANGED <<known, settled, sent>>
    /\ UNCHANGED <<remote, localVars, tabOpen, nextKey, watcher, taskVars, events, cut, theirs>>

\* end_edit.  A write-back in progress goes on.
EndEdit ==
    /\ entry # None
    /\ entry' = None /\ watcher' = None /\ local' = None
    /\ sent' = None /\ settled' = {}
    /\ UNCHANGED <<remote, stamp, tabOpen, nextKey, taskVars, events, cut, theirs, known>>

\* wind_down of the tab; the entry stays.
CloseTab ==
    /\ tabOpen
    /\ tabOpen' = FALSE
    /\ AbortTasks
    /\ UNCHANGED <<remote, localVars, deskVars, events, theirs, known, settled, sent>>

\* on_pane_reconnected.
Reconnect ==
    /\ tabOpen
    /\ AbortTasks
    /\ UNCHANGED <<remote, localVars, tabOpen, deskVars, events, theirs, known, settled, sent>>

\* The content has been transferred; the stat that is to identify it has not.
StatOutstanding == reader.phase = "read" \/ \E u \in uploads : u.phase = "check"

\* Somebody else writes the remote file.  (History: a write that the outstanding
\* stat will take for what was transferred is late.)
TheyWrite ==
    /\ Writes
    /\ theirs' = IF StatOutstanding THEN theirs ELSE theirs \union {remote'}
    /\ UNCHANGED <<localVars, tabOpen, deskVars, taskVars, events, cut, known, settled, sent>>

-----------------------------------------------------------------------------
ReaderStep == ReadAll \/ StatAfterRead \/ OpenFails
UploadStep(u) ==
    \/ StatBeforeWrite(u) \/ Truncate(u) \/ WriteAll(u) \/ StatAfterWrite(u)
    \/ UploadBreaks(u)
Handle ==
    \/ \E launched \in BOOLEAN : FinishEditOpen(launched)
    \/ OnEditTick \/ OnEditDone \/ OnEditConflict \/ OnEditFailed
UserStep ==
    \/ StartEdit \/ UserSaves \/ KeepRemote \/ Overwrite \/ SaveCopy \/ EndEdit
    \/ CloseTab \/ Reconnect

Next ==
    \/ ReaderStep
    \/ \E u \in uploads : UploadStep(u)
    \/ Poll
    \/ Handle
    \/ UserStep
    \/ TheyWrite

\* Events are handled and requests return; the user owes nothing.
Fairness ==
    /\ WF_vars(Handle)
    /\ WF_vars(\E u \in uploads : UploadStep(u))

Spec == Init /\ [][Next]_vars
FairSpec == Spec /\ Fairness

-----------------------------------------------------------------------------
(* Properties.                                                             *)

\* A version somebody else has written, and that the write-back has looked at,
\* is destroyed only if the user's entry was made from it or he has decided about
\* it (D13).  Two kinds of versions are not protected: one that arrives between
\* the look and the write, and a late one, which gets the stamp of the content
\* transferred just before it (both read_for_edit and write_if_unchanged stat
\* after the transfer).
OverwritesOnlySeen ==
    [][\A u \in uploads :
          Truncate(u) /\ remote \in theirs /\ remote = u.last => remote \in known]_vars

\* Two write-backs of one entry never run at a time (changed_locally looks at
\* watched entries only), however saves, answers and reopenings interleave.
OneUploadPerEntry ==
    \A u, v \in uploads : u.key = v.key => u = v

\* A conflict is about a version the entry has neither uploaded itself nor had
\* settled by the user before: the same box does not come back after an answer
\* or after his own save (keep_remote, accept_write_back).
ConflictIsNews ==
    [][entry # None /\ entry' # None /\ entry.state = "Uploading" /\ entry'.state = "Conflict"
          => entry'.conflict \notin settled]_vars

\* An entry that is being uploaded comes to rest, unless its task was aborted
\* with the tab or the connection (no task is left to report).
UploadSettles ==
    (entry # None /\ entry.state = "Uploading") ~>
        (entry = None \/ entry.state # "Uploading" \/ entry.key \in cut)

\* The question asked before the program exits and purges the temporary files
\* (has_unsent_changes) has the right answer: an entry at rest whose every save
\* the watcher has reported has no content that was not sent.
WatchingIsSent ==
    entry # None /\ entry.state = "Watching" /\ events = <<>> /\ reader = Idle
        /\ watcher # None /\ watcher.last = local
    => local = sent
=============================================================================
