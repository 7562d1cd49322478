---------------------------- MODULE PasteBatches ----------------------------
(***************************************************************************)
(* The batches of mullion-app/src/paste_files.rs on top of the transfer    *)
(* queue: files pasted into a terminal are uploaded as one batch, and when *)
(* the whole batch has landed its paths are typed into the pane it was     *)
(* pasted into.  This module is the complete transfer system.              *)
(***************************************************************************)
EXTENDS TransferQueue

VARIABLES
    batch,     \* batch[b]: BatchTracker's entry for b and how it ended; "none" before
               \* b is enqueued and when b is a transfer that is not a paste
    landed,    \* Batch::finished, the jobs counted as landed
    unlanded   \* Batch::finished, the jobs counted as failed

Batches == {BatchOf[j] : j \in Jobs}

pasteVars == <<batch, landed, unlanded>>
allVars == <<vars, pasteVars>>

PasteTypeOK ==
    /\ batch \in [Batches -> {"none", "open", "filled", "abandoned", "dropped"}]
    /\ landed \subseteq Jobs /\ unlanded \subseteq Jobs
    /\ landed \intersect unlanded = {}

PasteInit ==
    /\ Init
    /\ batch = [b \in Batches |-> "none"]
    /\ landed = {} /\ unlanded = {}

InOpenBatch(j) == batch[BatchOf[j]] = "open"

\* landed_as_planned of a job that has finished in state s with answer c: under
\* the name that will be typed.  (Bug form, for the mutants: under any name.)
LandedAnyhow(s, c) == s = "Done"
LandedAsPlanned(s, c) == s = "Done" /\ c # "Rename"

\* job_finished counts a job of an open batch once.  (Bug form: each time.)
CountedEachTime(S, counted) == {j \in S : InOpenBatch(j)}
Counted(S, counted) == {j \in S \ counted : InOpenBatch(j)}

\* job_finished for the jobs of `good` and `bad`: a batch all of whose jobs have
\* been counted is settled.
JobsFinished(good, bad) ==
    /\ landed' = landed \union Counted(good, unlanded)
    /\ unlanded' = unlanded \union Counted(bad, landed)
    /\ batch' = [b \in Batches |->
          IF batch[b] = "open" /\ JobsOf(b) \subseteq landed' \union unlanded'
          THEN IF JobsOf(b) \intersect unlanded' = {} THEN "filled" ELSE "abandoned"
          ELSE batch[b]]

\* The jobs sweep_paste_batches finds to have failed without a TransferDone, in
\* the states s with the answers c.  (Bug form: none.)
SweptNone(s, c) == {}
Swept(s, c) == {j \in Jobs :
    \/ s[j] = "Cleared"
    \/ s[j] \in Finished /\ ~LandedAsPlanned(s[j], c[j])}

\* enqueue_paste_files: the dialog before it has listed `confirmed`, and its tab
\* is still there.
PasteFiles(b, confirmed) ==
    /\ \A j \in JobsOf(b) : Owner[j] \in open
    /\ confirmed \subseteq {j \in JobsOf(b) : dest[j] # "absent"}
    /\ Enqueue(b, confirmed)
    /\ batch' = [batch EXCEPT ![b] = "open"]
    /\ UNCHANGED <<landed, unlanded>>

\* TransferPlanned.
Plan(b) ==
    /\ Enqueue(b, {})
    /\ UNCHANGED pasteVars

\* A frame sweeps the batches after it has pumped the queue.
FrameAndSweep ==
    /\ \E lost \in SUBSET Runnable : Frame(lost)
    /\ JobsFinished({}, Swept(state', resolved'))

\* TransferDone tells the tracker about a job that has thereby finished.
ReportDone(j) ==
    /\ TransferDone(j)
    /\ IF state'[j] \in Finished
       THEN LET ok == LandedAsPlanned(state'[j], resolved'[j])
            IN  JobsFinished(IF ok THEN {j} ELSE {}, IF ok THEN {} ELSE {j})
       ELSE UNCHANGED pasteVars

\* A closed tab takes its batches with it (drop_generation).
CloseTabAndDrop(t) ==
    /\ CloseTab(t)
    /\ batch' = [b \in Batches |->
          IF batch[b] = "open" /\ \A j \in JobsOf(b) : Owner[j] = t
          THEN "dropped" ELSE batch[b]]
    /\ UNCHANGED <<landed, unlanded>>

Next ==
    \/ \E b \in Batches : \E confirmed \in SUBSET JobsOf(b) : PasteFiles(b, confirmed)
    \/ \E b \in Batches : Plan(b)
    \/ FrameAndSweep
    \/ \E j \in Jobs : ReportDone(j)
    \/ \E t \in Tabs : CloseTabAndDrop(t)
    \/ (\E t \in Tabs : Reconnect(t)) /\ UNCHANGED pasteVars
    \/ (\E j \in Jobs : WorkerStep(j)) /\ UNCHANGED pasteVars
    \/ UserStep /\ UNCHANGED pasteVars

\* Frames are drawn and events handled; every worker's I/O ends, if only because
\* keepalives end a dead connection.  The user owes nothing.
Fairness ==
    /\ WF_allVars(FrameAndSweep)
    /\ \A j \in Jobs : WF_allVars(ReportDone(j))
    /\ \A j \in Jobs : WF_allVars(WorkerStep(j) /\ UNCHANGED pasteVars)

Spec == PasteInit /\ [][Next]_allVars
FairSpec == Spec /\ Fairness

-----------------------------------------------------------------------------
(* Properties.                                                             *)

\* Paths are typed into a terminal only when every file of the batch is there,
\* whole and under that very path.
FilledBatchLanded ==
    \A b \in Batches : batch[b] = "filled" =>
        \A j \in JobsOf(b) : dest[j] = "whole"

\* Every batch is settled, however its jobs end, unless one of them waits for
\* the user's answer.
BatchSettles ==
    \A b \in Batches : (batch[b] = "open") ~>
        (batch[b] # "open" \/ \E j \in JobsOf(b) : state[j] = "Conflict")
=============================================================================
