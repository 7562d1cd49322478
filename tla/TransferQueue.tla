--------------------------- MODULE TransferQueue ---------------------------
(***************************************************************************)
(* The transfer queue of mullion-app/src/files/queue.rs with the glue of   *)
(* app.rs around it: pump_transfers starts a worker per released job, each *)
(* worker (run_transfer) works on its own sftp channel and reports through *)
(* a TransferDone event, and the user answers conflicts, cancels, clears,  *)
(* closes tabs and loses connections meanwhile.                            *)
(*                                                                         *)
(* Every job has a destination of its own; nobody but the workers touches  *)
(* the destinations.                                                       *)
(***************************************************************************)
EXTENDS Naturals, FiniteSets

CONSTANTS
    NumJobs,   \* bound: how many jobs are ever enqueued; ids are 1 .. NumJobs
    BatchOf,   \* BatchOf[j]: the batch job j is enqueued with, numbered in order
    Tabs,      \* the tabs (generations)
    Owner,     \* Owner[j]: the tab job j belongs to
    Limit      \* Queue::concurrency

Jobs == 1 .. NumJobs

ASSUME TransferConstants ==
    /\ NumJobs \in Nat
    /\ BatchOf \in [Jobs -> Nat]
    /\ Owner \in [Jobs -> Tabs]
    /\ \A j, k \in Jobs : BatchOf[j] = BatchOf[k] => Owner[j] = Owner[k]
    /\ Limit \in Nat \ {0}

VARIABLES
    state,      \* state[j]: its JobState, or "Unqueued" before and "Cleared" after
    resolved,   \* resolved[j]: Job::resolved
    blanket,    \* Queue::blanket
    specs,      \* the keys of TransferState::specs
    told,       \* told[j]: j's worker runs and its cancel flag is set
    worker,     \* worker[j]: where j's run_transfer is, or the result it has sent
    aborted,    \* jobs whose worker task has been aborted but may still be running
    open,       \* the tabs that are open
    asked,      \* the job the conflict dialog asks about, 0 for none
    dest        \* dest[j]: what is at the destination path

\* What the user has said (history; never read by an action).
VARIABLES
    agreed,      \* jobs the user himself has agreed to overwrite
    answeredAll  \* batches for which the user has said "overwrite all"

queueVars == <<state, resolved, blanket>>
glueVars == <<specs, open, asked>>
workVars == <<worker, told, aborted, dest>>
userVars == <<agreed, answeredAll>>
vars == <<queueVars, glueVars, workVars, userVars>>

Finished == {"Done", "Skipped", "Canceled", "Failed"}
JobStates == Finished \union {"Unqueued", "Pending", "Running", "Conflict", "Cleared"}
Choices == {"Overwrite", "Skip", "Rename"}
Writing == {"fresh", "inPlace", "renamed"}
Reports == {"Ok", "Conflict", "Cancel", "Error"}
Files == {"absent", "user", "partial", "whole"}

TypeOK ==
    /\ state \in [Jobs -> JobStates]
    /\ resolved \in [Jobs -> {"none", "Overwrite", "Rename"}]
    /\ blanket \in Choices \union {"none"}
    /\ specs \subseteq Jobs
    /\ told \in [Jobs -> BOOLEAN]
    /\ worker \in [Jobs -> {"none", "opening"} \union Writing \union Reports]
    /\ aborted \subseteq Jobs
    /\ open \subseteq Tabs
    /\ asked \in Jobs \union {0}
    /\ dest \in [Jobs -> Files]
    /\ agreed \subseteq Jobs
    /\ answeredAll \subseteq Nat

Init ==
    /\ state = [j \in Jobs |-> "Unqueued"]
    /\ resolved = [j \in Jobs |-> "none"]
    /\ blanket = "none"
    /\ specs = {}
    /\ told = [j \in Jobs |-> FALSE]
    /\ worker = [j \in Jobs |-> "none"]
    /\ aborted = {}
    /\ open = Tabs
    /\ asked = 0
    /\ dest \in [Jobs -> {"absent", "user"}]
    /\ agreed = {} /\ answeredAll = {}

-----------------------------------------------------------------------------
(* Operators of the queue.                                                 *)

JobsOf(b) == {j \in Jobs : BatchOf[j] = b}
InState(s) == {j \in Jobs : state[j] = s}
Unfinished(j) == state[j] \in {"Pending", "Running", "Conflict"}
Active(j) == worker[j] = "opening" \/ worker[j] \in Writing

\* take_runnable: the oldest pending jobs, as many as there are free slots.
\* (Bug form, for the mutants: the running jobs take no slot.)
Older(j) == {k \in InState("Pending") : k < j}
RunnableOverLimit ==
    {j \in InState("Pending") : Cardinality(Older(j)) < Limit}
Runnable ==
    {j \in InState("Pending") :
        Cardinality(Older(j)) + Cardinality(InState("Running")) < Limit}

\* take_runnable marks what it releases.  (Bug form: it does not.)
ReleasedUnmarked == "Pending"
Released == "Running"

\* first_conflict in the job states s, 0 for none.
FirstConflict(s) ==
    LET waiting == {j \in Jobs : s[j] = "Conflict"}
    IN  IF waiting = {} THEN 0
        ELSE CHOOSE j \in waiting : \A k \in waiting : j <= k

\* finish, with the blanket answer applied to a fresh conflict.
ConflictAnswered ==
    CASE blanket = "none" -> "Conflict"
      [] blanket = "Skip" -> "Skipped"
      [] OTHER            -> "Pending"
AfterReport(r) ==
    CASE r = "Ok"       -> "Done"
      [] r = "Cancel"   -> "Canceled"
      [] r = "Error"    -> "Failed"
      [] r = "Conflict" -> ConflictAnswered

\* cancel on every job of S that is not finished, and the cancel flags that are
\* set with it (cancels holds the flag of every running worker that has not
\* been told already).
CancelJobs(S) ==
    /\ state' = [j \in Jobs |-> IF j \in S /\ Unfinished(j) THEN "Canceled" ELSE state[j]]
    /\ told' = [j \in Jobs |-> told[j] \/ (j \in S /\ Active(j))]

\* What cancel_generation cancels and returns.  (Bug form: nothing.)
NoneOf(t) == {}
UnfinishedOf(t) == {j \in Jobs : Owner[j] = t /\ Unfinished(j)}

\* cancel_transfers_of, and the abort of the tab's sftp tasks next to it.
AbandonTransfersOf(t) ==
    /\ CancelJobs(UnfinishedOf(t))
    /\ specs' = specs \ UnfinishedOf(t)
    /\ aborted' = aborted \union {j \in Jobs : Owner[j] = t /\ Active(j)}

-----------------------------------------------------------------------------
(* The event loop.                                                         *)

\* TransferPlanned, or enqueue_paste_files: a batch enters the queue.  The jobs
\* of `confirmed` have been agreed to before, in the dialog of a paste.
Enqueue(b, confirmed) ==
    /\ JobsOf(b) # {}
    /\ JobsOf(b) \subseteq InState("Unqueued")
    /\ \A j \in Jobs : BatchOf[j] < b => state[j] # "Unqueued"
    /\ state' = [j \in Jobs |-> IF j \in JobsOf(b) THEN "Pending" ELSE state[j]]
    /\ resolved' = [j \in Jobs |-> IF j \in confirmed THEN "Overwrite" ELSE resolved[j]]
    /\ specs' = specs \union JobsOf(b)
    /\ agreed' = agreed \union confirmed
    /\ UNCHANGED <<blanket, open, asked, workVars, answeredAll>>

\* One frame: pump_transfers starts a worker for each released job that still
\* has its spec, its tab and a connection (not one of `lost`), then the
\* oldest conflict is asked about unless a dialog is open.
Frame(lost) ==
    LET started == {j \in Runnable \ lost : j \in specs /\ Owner[j] \in open}
        orphans == {j \in Runnable : j \in specs /\ Owner[j] \notin open}
    IN  /\ lost \subseteq Runnable
        /\ state' = [j \in Jobs |->
              CASE j \in started -> Released
                [] j \in orphans -> "Canceled"
                [] j \in Runnable \ (started \union orphans) -> "Failed"
                [] OTHER -> state[j]]
        /\ worker' = [j \in Jobs |-> IF j \in started THEN "opening" ELSE worker[j]]
        /\ asked' = IF asked # 0 THEN asked ELSE FirstConflict(state')
        /\ UNCHANGED <<resolved, blanket, specs, open, told, aborted, dest, userVars>>

\* resolve_conflict.  The dialog may be about a job that is no longer waiting.
Resolve(choice, all) ==
    /\ asked # 0
    /\ asked' = 0
    /\ blanket' = IF all THEN choice ELSE blanket
    /\ IF state[asked] # "Conflict" THEN UNCHANGED <<state, resolved>>
       ELSE IF choice = "Skip"
       THEN state' = [state EXCEPT ![asked] = "Skipped"] /\ UNCHANGED resolved
       ELSE state' = [state EXCEPT ![asked] = "Pending"] /\
            resolved' = [resolved EXCEPT ![asked] = choice]
    /\ agreed' = IF choice = "Overwrite" THEN agreed \union {asked} ELSE agreed
    /\ answeredAll' = IF choice = "Overwrite" /\ all
                      THEN answeredAll \union {BatchOf[asked]} ELSE answeredAll
    /\ UNCHANGED <<specs, open, workVars>>

Cancel(j) ==
    /\ Unfinished(j)
    /\ CancelJobs({j})
    /\ UNCHANGED <<resolved, blanket, glueVars, worker, aborted, dest, userVars>>

CancelAll ==
    /\ \E j \in Jobs : Unfinished(j)
    /\ CancelJobs(Jobs)
    /\ UNCHANGED <<resolved, blanket, glueVars, worker, aborted, dest, userVars>>

\* clear_finished, by the button or by the timer of AutoClear.
ClearFinished ==
    /\ state' = [j \in Jobs |-> IF state[j] \in Finished THEN "Cleared" ELSE state[j]]
    /\ UNCHANGED <<resolved, blanket, glueVars, workVars, userVars>>

CloseTab(t) ==
    /\ t \in open
    /\ open' = open \ {t}
    /\ AbandonTransfersOf(t)
    /\ UNCHANGED <<resolved, blanket, asked, worker, dest, userVars>>

\* on_pane_reconnected: the tasks on the dead connection are aborted.
Reconnect(t) ==
    /\ t \in open
    /\ AbandonTransfersOf(t)
    /\ UNCHANGED <<resolved, blanket, open, asked, worker, dest, userVars>>

\* The TransferDone event: finish, whatever the job's state has become; a job
\* that has been cleared is not found.
TransferDone(j) ==
    /\ worker[j] \in Reports
    /\ worker' = [worker EXCEPT ![j] = "none"]
    /\ state' = IF state[j] = "Cleared" THEN state
                ELSE [state EXCEPT ![j] = AfterReport(worker[j])]
    /\ resolved' = IF state'[j] = "Pending"
                   THEN [resolved EXCEPT ![j] = blanket] ELSE resolved
    /\ specs' = IF state'[j] \in Finished \union {"Cleared"} THEN specs \ {j} ELSE specs
    /\ UNCHANGED <<blanket, open, asked, told, aborted, dest, userVars>>

-----------------------------------------------------------------------------
(* The workers (run_transfer).                                             *)

\* staging_name: a new file goes through a .part file.  (Bug form: it does not.)
StagedInPlace == "inPlace"
StagedWhenFresh == "fresh"

\* How a worker goes on when the destination exists.
\* (Bug form: without an answer it overwrites.)
OverwritesUnasked(choice) == IF choice = "Rename" THEN "renamed" ELSE "inPlace"
WhenItExists(choice) ==
    CASE choice = "none"      -> "Conflict"
      [] choice = "Overwrite" -> "inPlace"
      [] choice = "Rename"    -> "renamed"

\* The worker reports r: nothing of it remains but the event.
Report(j, r) ==
    /\ worker' = [worker EXCEPT ![j] = r]
    /\ told' = [told EXCEPT ![j] = FALSE]
    /\ aborted' = aborted \ {j}
    /\ UNCHANGED <<queueVars, glueVars, userVars>>

\* The channel is opened, the destination looked at and the file created (an
\* existing one is truncated), unless the user has to be asked first.
Open(j) ==
    LET next == IF dest[j] = "absent" THEN StagedWhenFresh ELSE WhenItExists(resolved[j])
    IN  /\ worker[j] = "opening"
        /\ IF next \in Reports THEN Report(j, next)
           ELSE /\ worker' = [worker EXCEPT ![j] = next]
                /\ UNCHANGED <<queueVars, glueVars, told, aborted, userVars>>
        /\ dest' = IF next = "inPlace" THEN [dest EXCEPT ![j] = "partial"] ELSE dest

\* An I/O error: whatever has been written stays where it is.
Break(j) == Active(j) /\ Report(j, "Error") /\ UNCHANGED dest

\* The last chunk is written and a .part file renamed.  An upload whose source
\* has changed meanwhile is reported as an error.
Complete(j, r) ==
    /\ worker[j] \in Writing
    /\ Report(j, r)
    /\ dest' = IF worker[j] = "renamed" THEN dest ELSE [dest EXCEPT ![j] = "whole"]

\* The cancel flag is seen before the next chunk: the file being written goes.
SeeCancel(j) ==
    /\ worker[j] \in Writing /\ told[j]
    /\ Report(j, "Cancel")
    /\ dest' = IF worker[j] = "inPlace" THEN [dest EXCEPT ![j] = "absent"] ELSE dest

\* An aborted task ends at its next await, without a report.
Die(j) ==
    /\ j \in aborted
    /\ worker' = [worker EXCEPT ![j] = "none"]
    /\ told' = [told EXCEPT ![j] = FALSE]
    /\ aborted' = aborted \ {j}
    /\ UNCHANGED <<queueVars, glueVars, dest, userVars>>

WorkerStep(j) ==
    \/ Open(j) \/ Break(j) \/ SeeCancel(j) \/ Die(j)
    \/ Complete(j, "Ok") \/ Complete(j, "Error")

UserStep ==
    \/ \E choice \in Choices, all \in BOOLEAN : Resolve(choice, all)
    \/ \E j \in Jobs : Cancel(j)
    \/ CancelAll
    \/ ClearFinished

-----------------------------------------------------------------------------
(* Properties.                                                             *)

\* A job that holds one of the concurrency slots has a worker that will report:
\* a tab closed or a connection lost under it never leaks a slot (the comment
\* in on_pane_reconnected on what happens otherwise).
RunningHasWorker ==
    \A j \in InState("Running") : worker[j] # "none" /\ j \notin aborted

\* The same job is never given to two workers: while it is queued, none works
\* on it (take_runnable).
NoDoubleStart == \A j \in InState("Pending") : worker[j] = "none"

\* So states and workers agree, although neither the queue nor a worker looks at
\* the other: a job that holds a slot has its worker, one that waits has none.
WorkersMatchStates == RunningHasWorker /\ NoDoubleStart

\* take_runnable keeps to the limit, however jobs finish, are canceled, wait
\* for an answer and come back.
RunningWithinLimit == Cardinality(InState("Running")) <= Limit

\* A file of the user's is replaced only after the user has said "overwrite"
\* (F55: never silently).
OverwriteChosen ==
    [][\A j \in Jobs : dest[j] = "user" /\ dest'[j] # "user" =>
          j \in agreed \/ answeredAll # {}]_vars

\* Where there was nothing, nothing half-written ever appears under the final
\* name, whether the job fails, is canceled or is aborted (D19).
NoHalfFile == \A j \in Jobs : dest[j] = "partial" => resolved[j] = "Overwrite"

\* A queued job gets its turn: no sequence of cancels, closed tabs, lost
\* connections and unanswered conflicts jams the queue.
QueueNeverJams == \A j \in Jobs : (state[j] = "Pending") ~> (state[j] # "Pending")

\* The comment on Queue::blanket and the dialog's check box: "overwrite all" is
\* an answer for the batch it was given in.
OverwriteAnsweredForBatch ==
    [][\A j \in Jobs : dest[j] = "user" /\ dest'[j] # "user" =>
          j \in agreed \/ BatchOf[j] \in answeredAll]_vars
=============================================================================
