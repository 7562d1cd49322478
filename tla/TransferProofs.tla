--------------------------- MODULE TransferProofs ---------------------------
(***************************************************************************)
(* Proofs about the transfers, for every number of jobs, batches and tabs  *)
(* and every concurrency limit: a slot is never leaked nor doubled, nothing*)
(* is overwritten without an answer, nothing half-written appears under a  *)
(* new name, and only a landed batch has its paths typed.                  *)
(***************************************************************************)
EXTENDS PasteBatches, FiniteSetTheorems, WellFoundedInduction, TLAPS

\* A job has a worker only while it runs, or after it has been canceled.
SlotInv(j) ==
    /\ state[j] = "Running" => worker[j] # "none" /\ j \notin aborted
    /\ state[j] \in {"Unqueued", "Pending", "Conflict", "Done"} => worker[j] = "none"
    /\ j \in aborted => Active(j)

\* Where the worker is tells what the user has chosen and what is at the
\* destination; what he has chosen tells what he has said.
FileInv(j) ==
    /\ state[j] \in {"Unqueued", "Conflict"} => resolved[j] = "none"
    /\ worker[j] = "Conflict" => resolved[j] = "none"
    /\ worker[j] = "fresh" => dest[j] = "absent"
    /\ worker[j] = "inPlace" => resolved[j] = "Overwrite" /\ dest[j] = "partial"
    /\ worker[j] = "renamed" => resolved[j] = "Rename"
    /\ worker[j] = "Ok" /\ resolved[j] # "Rename" => dest[j] = "whole"
    /\ dest[j] = "partial" => resolved[j] = "Overwrite"
    /\ resolved[j] = "Overwrite" => j \in agreed \/ answeredAll # {}

BlanketInv == blanket = "Overwrite" => answeredAll # {}

QueueInv ==
    /\ TypeOK
    /\ BlanketInv
    /\ \A j \in Jobs : SlotInv(j) /\ FileInv(j)

\* A job counted as landed has landed and stays so; a filled batch is one all of
\* whose jobs are counted so.
LandedInv ==
    /\ \A j \in landed :
          dest[j] = "whole" /\ worker[j] = "none" /\ state[j] \in {"Done", "Cleared"}
    /\ \A b \in Batches : batch[b] = "filled" => JobsOf(b) \subseteq landed

TransferInv == QueueInv /\ PasteTypeOK /\ LandedInv

\* The steps of the queue, of the event loop around it and of the workers,
\* whatever they mean to the batches.
QueueStep ==
    \/ \E b \in Batches : \E confirmed \in SUBSET JobsOf(b) : Enqueue(b, confirmed)
    \/ \E lost \in SUBSET Runnable : Frame(lost)
    \/ \E j \in Jobs : TransferDone(j)
    \/ \E t \in Tabs : CloseTab(t)
    \/ \E t \in Tabs : Reconnect(t)
    \/ \E j \in Jobs : WorkerStep(j)
    \/ UserStep
    \/ UNCHANGED vars

-----------------------------------------------------------------------------
(* The queue.                                                              *)

\* A set of natural numbers has a least element.
LEMMA MinOfNats ==
    ASSUME NEW S \in SUBSET Nat, S # {}
    PROVE  \E m \in S : \A k \in S : m <= k
<1>1. PICK m \in S : \A k \in S : ~ (<<k, m>> \in OpToRel(<, Nat))
  BY NatLessThanWellFounded, WFMin
<1>2. ASSUME NEW k \in S PROVE m <= k
  <2>1. k \in Nat /\ m \in Nat
    BY <1>2
  <2>2. ~ (<<k, m>> \in OpToRel(<, Nat))
    BY <1>1, <1>2
  <2>3. ~ (k < m)
    BY <2>1, <2>2 DEF OpToRel
  <2> QED
    BY <2>1, <2>3
<1> QED
  BY <1>2

LEMMA NextIsQueueStep == [Next]_allVars => QueueStep
<1>1. ASSUME NEW b \in Batches, NEW confirmed \in SUBSET JobsOf(b), PasteFiles(b, confirmed)
      PROVE  QueueStep
  BY <1>1 DEF PasteFiles, QueueStep
<1>2. ASSUME NEW b \in Batches, Plan(b) PROVE QueueStep
  BY <1>2 DEF Plan, QueueStep
<1>3. CASE FrameAndSweep
  BY <1>3 DEF FrameAndSweep, QueueStep
<1>4. ASSUME NEW j \in Jobs, ReportDone(j) PROVE QueueStep
  BY <1>4 DEF ReportDone, QueueStep
<1>5. ASSUME NEW t \in Tabs, CloseTabAndDrop(t) PROVE QueueStep
  BY <1>5 DEF CloseTabAndDrop, QueueStep
<1>6. ASSUME NEW t \in Tabs, Reconnect(t) PROVE QueueStep
  BY <1>6 DEF QueueStep
<1>7. ASSUME NEW j \in Jobs, WorkerStep(j) PROVE QueueStep
  BY <1>7 DEF QueueStep
<1>8. CASE UserStep
  BY <1>8 DEF QueueStep
<1>9. CASE UNCHANGED allVars
  BY <1>9 DEF QueueStep, allVars
<1> QED
  BY <1>1, <1>2, <1>3, <1>4, <1>5, <1>6, <1>7, <1>8, <1>9 DEF Next

LEMMA QueueInitially == Init => QueueInv
BY TransferConstants DEF Init, QueueInv, TypeOK, BlanketInv, SlotInv, FileInv, Active, Writing,
   JobStates, Finished, Choices, Files, Reports

\* A conflict that is reported is answered by the blanket answer or by the user.
LEMMA ReportsAnswered ==
    ASSUME TypeOK, NEW r \in Reports
    PROVE  /\ AfterReport(r) \in JobStates \ {"Unqueued", "Running", "Cleared"}
           /\ AfterReport(r) \in {"Pending", "Conflict"} => r = "Conflict"
           /\ AfterReport(r) = "Pending" => blanket \in {"Overwrite", "Rename"}
           /\ AfterReport(r) = "Done" <=> r = "Ok"
BY DEF TypeOK, Reports, AfterReport, ConflictAnswered, JobStates, Finished, Choices

LEMMA EnqueueKeeps ==
    ASSUME QueueInv, NEW b \in Batches, NEW confirmed \in SUBSET JobsOf(b), Enqueue(b, confirmed)
    PROVE  QueueInv'
<1> USE DEF Enqueue, QueueInv, JobsOf, InState, workVars
<1>1. TypeOK'
  BY DEF TypeOK, JobStates
<1>2. ASSUME NEW j \in Jobs PROVE SlotInv(j)' /\ FileInv(j)'
  BY <1>2 DEF SlotInv, FileInv, TypeOK, Active
<1> QED
  BY <1>1, <1>2 DEF BlanketInv

LEMMA FrameKeeps ==
    ASSUME QueueInv, NEW lost \in SUBSET Runnable, Frame(lost)
    PROVE  QueueInv'
<1> USE DEF QueueInv, userVars
<1> DEFINE started == {j \in Runnable \ lost : j \in specs /\ Owner[j] \in open}
           orphans == {j \in Runnable : j \in specs /\ Owner[j] \notin open}
<1>1. /\ state' = [j \in Jobs |->
              CASE j \in started -> "Running"
                [] j \in orphans -> "Canceled"
                [] j \in Runnable \ (started \union orphans) -> "Failed"
                [] OTHER -> state[j]]
      /\ worker' = [j \in Jobs |-> IF j \in started THEN "opening" ELSE worker[j]]
      /\ asked' = IF asked # 0 THEN asked ELSE FirstConflict(state')
      /\ UNCHANGED <<resolved, blanket, specs, open, told, aborted, dest, agreed, answeredAll>>
  BY DEF Frame, Released
<1>2. \A j \in Runnable : j \in Jobs /\ state[j] = "Pending"
  BY DEF Runnable, InState
<1>3. started \subseteq Runnable /\ orphans \subseteq Runnable /\ started \intersect orphans = {}
  OBVIOUS
<1> HIDE DEF started, orphans
<1>4. \A j \in Jobs :
        \/ j \in Runnable /\ state'[j] = "Running" /\ worker'[j] = "opening"
        \/ j \in Runnable /\ state'[j] \in {"Canceled", "Failed"} /\ worker'[j] = worker[j]
        \/ state'[j] = state[j] /\ worker'[j] = worker[j]
  BY <1>1, <1>2, <1>3
<1>5. FirstConflict(state') \in Jobs \union {0}
  <2> DEFINE waiting == {j \in Jobs : state'[j] = "Conflict"}
  <2>1. CASE waiting = {}
    BY <2>1 DEF FirstConflict
  <2>2. CASE waiting # {}
    <3>1. waiting \in SUBSET Nat
      BY TransferConstants DEF Jobs
    <3> HIDE DEF waiting
    <3>2. \E j \in waiting : \A k \in waiting : j <= k
      BY <2>2, <3>1, MinOfNats
    <3> QED
      BY <3>2, <2>2 DEF FirstConflict, waiting
  <2> QED
    BY <2>1, <2>2
<1>6. TypeOK'
  BY <1>1, <1>2, <1>4, <1>5 DEF TypeOK, JobStates, Finished
<1>7. ASSUME NEW j \in Jobs PROVE SlotInv(j)' /\ FileInv(j)'
  BY <1>1, <1>2, <1>4, <1>7 DEF SlotInv, FileInv, TypeOK, Active, Writing
<1> QED
  BY <1>1, <1>6, <1>7 DEF BlanketInv

LEMMA TransferDoneKeeps ==
    ASSUME QueueInv, NEW j \in Jobs, TransferDone(j)
    PROVE  QueueInv'
<1> USE DEF QueueInv, TransferDone, userVars
<1>1. /\ AfterReport(worker[j]) \in JobStates \ {"Unqueued", "Running", "Cleared"}
      /\ AfterReport(worker[j]) \in {"Pending", "Conflict"} => worker[j] = "Conflict"
      /\ AfterReport(worker[j]) = "Pending" => blanket \in {"Overwrite", "Rename"}
  BY ReportsAnswered
<1> HIDE DEF AfterReport
<1>2. state'[j] = "Pending" => worker[j] = "Conflict" /\ blanket \in {"Overwrite", "Rename"}
  BY <1>1 DEF TypeOK, SlotInv
<1>3. TypeOK'
  <2>1. state' \in [Jobs -> JobStates]
    BY <1>1 DEF TypeOK
  <2>2. resolved' \in [Jobs -> {"none", "Overwrite", "Rename"}]
    BY <1>2 DEF TypeOK
  <2> QED
    BY <2>1, <2>2 DEF TypeOK
<1>4. ASSUME NEW k \in Jobs PROVE SlotInv(k)'
  BY <1>1 DEF SlotInv, TypeOK, Active, Reports, Writing
<1>5. ASSUME NEW k \in Jobs PROVE FileInv(k)'
  <2>1. CASE k # j
    BY <2>1 DEF FileInv, TypeOK
  <2>2. CASE k = j
    <3>1. worker'[j] = "none" /\ dest' = dest /\ agreed' = agreed /\ answeredAll' = answeredAll
      BY DEF TypeOK
    <3>2. resolved'[j] = IF state'[j] = "Pending" THEN blanket ELSE resolved[j]
      BY DEF TypeOK
    <3>3. dest[j] = "partial" => worker[j] # "Conflict"
      BY DEF FileInv
    <3>4. state'[j] \in {"Unqueued", "Conflict"} => resolved[j] = "none" /\ state'[j] # "Pending"
      BY <1>1 DEF TypeOK, FileInv
    <3> QED
      BY <2>2, <3>1, <3>2, <3>3, <3>4, <1>2 DEF FileInv, BlanketInv
  <2> QED
    BY <2>1, <2>2
<1> QED
  BY <1>3, <1>4, <1>5 DEF BlanketInv

\* Cancelling jobs, with or without aborting their workers, takes back what they
\* hold of the queue and nothing else.
LEMMA CancelKeeps ==
    ASSUME QueueInv, NEW S \in SUBSET Jobs, CancelJobs(S),
           NEW A \in SUBSET {j \in Jobs : Active(j) /\ (state[j] = "Running" => j \in S)},
           aborted' = aborted \union A, specs' \subseteq specs, open' \subseteq open,
           UNCHANGED <<resolved, blanket, asked, worker, dest, userVars>>
    PROVE  QueueInv'
<1> USE DEF QueueInv, CancelJobs, userVars
<1>1. TypeOK'
  BY DEF TypeOK, JobStates, Finished
<1>2. ASSUME NEW j \in Jobs PROVE SlotInv(j)' /\ FileInv(j)'
  BY DEF SlotInv, FileInv, TypeOK, Active, Unfinished
<1> QED
  BY <1>1, <1>2 DEF BlanketInv

LEMMA AbandonKeeps ==
    ASSUME QueueInv, NEW t \in Tabs, CloseTab(t) \/ Reconnect(t)
    PROVE  QueueInv'
<1> DEFINE A == {j \in Jobs : Owner[j] = t /\ Active(j)}
<1>1. /\ CancelJobs(UnfinishedOf(t))
      /\ aborted' = aborted \union A
      /\ specs' \subseteq specs
      /\ open' \subseteq open
      /\ UNCHANGED <<resolved, blanket, asked, worker, dest, userVars>>
  BY DEF CloseTab, Reconnect, AbandonTransfersOf
<1>2. A \in SUBSET {j \in Jobs : Active(j) /\ (state[j] = "Running" => j \in UnfinishedOf(t))}
  BY DEF UnfinishedOf, Unfinished
<1>3. UnfinishedOf(t) \in SUBSET Jobs
  BY DEF UnfinishedOf
<1> QED
  BY <1>1, <1>2, <1>3, CancelKeeps

LEMMA UserKeeps ==
    ASSUME QueueInv, UserStep
    PROVE  QueueInv'
<1> USE DEF QueueInv
<1>1. ASSUME NEW choice \in Choices, NEW all \in BOOLEAN, Resolve(choice, all)
      PROVE  QueueInv'
  <2> USE <1>1 DEF Resolve, workVars, Choices
  <2>1. asked \in Jobs
    BY DEF TypeOK
  <2>2. TypeOK'
    <3>1. state' \in [Jobs -> JobStates] /\ resolved' \in [Jobs -> {"none", "Overwrite", "Rename"}]
      BY <2>1 DEF TypeOK, JobStates, Finished
    <3>2. BatchOf[asked] \in Nat
      BY <2>1, TransferConstants
    <3>3. agreed' \subseteq Jobs /\ answeredAll' \subseteq Nat
      BY <2>1, <3>2 DEF TypeOK
    <3> QED
      BY <3>1, <3>3 DEF TypeOK
  <2>3. ASSUME NEW j \in Jobs PROVE SlotInv(j)' /\ FileInv(j)'
    BY <2>1 DEF SlotInv, FileInv, TypeOK, Active
  <2> QED
    BY <2>2, <2>3 DEF BlanketInv
<1>2. ASSUME NEW j \in Jobs, Cancel(j) PROVE QueueInv'
  <2>1. {j} \in SUBSET Jobs /\ {} \in SUBSET {k \in Jobs : Active(k) /\ (state[k] = "Running" => k \in {j})}
    OBVIOUS
  <2>2. /\ CancelJobs({j}) /\ aborted' = aborted \union {} /\ specs' \subseteq specs
        /\ open' \subseteq open /\ UNCHANGED <<resolved, blanket, asked, worker, dest, userVars>>
    BY <1>2 DEF Cancel, glueVars
  <2> QED
    BY <2>1, <2>2, CancelKeeps
<1>3. CASE CancelAll
  <2>1. Jobs \in SUBSET Jobs /\ {} \in SUBSET {k \in Jobs : Active(k) /\ (state[k] = "Running" => k \in Jobs)}
    OBVIOUS
  <2>2. /\ CancelJobs(Jobs) /\ aborted' = aborted \union {} /\ specs' \subseteq specs
        /\ open' \subseteq open /\ UNCHANGED <<resolved, blanket, asked, worker, dest, userVars>>
    BY <1>3 DEF CancelAll, glueVars
  <2> QED
    BY <2>1, <2>2, CancelKeeps
<1>4. CASE ClearFinished
  <2> USE <1>4 DEF ClearFinished, glueVars, workVars, userVars
  <2>1. TypeOK'
    BY DEF TypeOK, JobStates
  <2>2. ASSUME NEW j \in Jobs PROVE SlotInv(j)' /\ FileInv(j)'
    BY DEF SlotInv, FileInv, TypeOK, Active
  <2> QED
    BY <2>1, <2>2 DEF BlanketInv
<1> QED
  BY <1>1, <1>2, <1>3, <1>4 DEF UserStep

LEMMA WorkerKeeps ==
    ASSUME QueueInv, NEW j \in Jobs, WorkerStep(j)
    PROVE  QueueInv'
<1> USE DEF QueueInv, Report, queueVars, glueVars, userVars, Active, Writing, Reports
<1>1. CASE Open(j)
  <2> DEFINE next == IF dest[j] = "absent" THEN "fresh" ELSE WhenItExists(resolved[j])
  <2>1. /\ next \in Writing \union {"Conflict"}
        /\ next = "fresh" => dest[j] = "absent"
        /\ next = "inPlace" => resolved[j] = "Overwrite"
        /\ next = "renamed" => resolved[j] = "Rename"
        /\ next = "Conflict" => resolved[j] = "none"
    BY DEF WhenItExists, TypeOK
  <2>2. /\ worker[j] = "opening"
        /\ worker' = [worker EXCEPT ![j] = next]
        /\ dest' = IF next = "inPlace" THEN [dest EXCEPT ![j] = "partial"] ELSE dest
        /\ IF next = "Conflict" THEN aborted' = aborted \ {j} /\ told' = [told EXCEPT ![j] = FALSE]
           ELSE UNCHANGED <<aborted, told>>
        /\ UNCHANGED <<queueVars, glueVars, userVars>>
    BY <1>1, <2>1 DEF Open, StagedWhenFresh
  <2> HIDE DEF next
  <2>3. TypeOK'
    BY <2>1, <2>2 DEF TypeOK, Files
  <2>4. ASSUME NEW k \in Jobs PROVE SlotInv(k)'
    BY <2>1, <2>2 DEF SlotInv, TypeOK
  <2>5. ASSUME NEW k \in Jobs PROVE FileInv(k)'
    BY <2>1, <2>2 DEF FileInv, TypeOK
  <2> QED
    BY <2>2, <2>3, <2>4, <2>5 DEF BlanketInv
<1>2. CASE Break(j) \/ SeeCancel(j) \/ Complete(j, "Ok") \/ Complete(j, "Error")
  <2>1. /\ Active(j)
        /\ \E r \in {"Ok", "Error", "Cancel"} : worker' = [worker EXCEPT ![j] = r]
        /\ worker'[j] = "Ok" /\ worker[j] # "renamed" => dest'[j] = "whole"
        /\ \E f \in {dest[j], "whole", "absent"} : dest' = [dest EXCEPT ![j] = f]
        /\ aborted' = aborted \ {j} /\ told' = [told EXCEPT ![j] = FALSE]
        /\ UNCHANGED <<queueVars, glueVars, userVars>>
    BY <1>2 DEF Break, SeeCancel, Complete, TypeOK
  <2>2. TypeOK'
    BY <2>1 DEF TypeOK, Files
  <2>3. ASSUME NEW k \in Jobs PROVE SlotInv(k)'
    BY <2>1 DEF SlotInv, TypeOK
  <2>4. ASSUME NEW k \in Jobs PROVE FileInv(k)'
    BY <2>1 DEF FileInv, TypeOK
  <2> QED
    BY <2>1, <2>2, <2>3, <2>4 DEF BlanketInv
<1>3. CASE Die(j)
  <2> USE <1>3 DEF Die
  <2>1. TypeOK'
    BY DEF TypeOK
  <2>2. ASSUME NEW k \in Jobs PROVE SlotInv(k)' /\ FileInv(k)'
    BY DEF SlotInv, FileInv, TypeOK
  <2> QED
    BY <2>1, <2>2 DEF BlanketInv
<1> QED
  BY <1>1, <1>2, <1>3 DEF WorkerStep

LEMMA QueueStepKeeps == QueueInv /\ QueueStep => QueueInv'
<1>1. CASE UNCHANGED vars
  BY <1>1 DEF QueueInv, TypeOK, BlanketInv, SlotInv, FileInv, Active, vars, queueVars, glueVars,
     workVars, userVars
<1> QED
  BY <1>1, EnqueueKeeps, FrameKeeps, TransferDoneKeeps, AbandonKeeps, UserKeeps, WorkerKeeps
  DEF QueueStep

-----------------------------------------------------------------------------
(* The batches.                                                            *)

\* A job that has landed is finished with: no step brings it back.
LEMMA LandedStay ==
    ASSUME QueueInv, QueueStep, NEW j \in Jobs,
           dest[j] = "whole", worker[j] = "none", state[j] \in {"Done", "Cleared"}
    PROVE  dest'[j] = "whole" /\ worker'[j] = "none" /\ state'[j] \in {"Done", "Cleared"}
<1> USE DEF QueueInv, TypeOK
<1>1. ASSUME NEW b \in Batches, NEW confirmed \in SUBSET JobsOf(b), Enqueue(b, confirmed)
      PROVE  dest'[j] = "whole" /\ worker'[j] = "none" /\ state'[j] = state[j]
  BY <1>1 DEF Enqueue, InState, workVars
<1>2. ASSUME NEW lost \in SUBSET Runnable, Frame(lost)
      PROVE  dest'[j] = "whole" /\ worker'[j] = "none" /\ state'[j] = state[j]
  <2>1. j \notin Runnable
    BY DEF Runnable, InState
  <2> QED
    BY <1>2, <2>1 DEF Frame
<1>3. ASSUME NEW k \in Jobs, TransferDone(k)
      PROVE  dest'[j] = "whole" /\ worker'[j] = "none" /\ state'[j] = state[j]
  <2>1. k # j
    BY <1>3 DEF TransferDone, Reports
  <2> QED
    BY <1>3, <2>1 DEF TransferDone
<1>4. ASSUME NEW t \in Tabs, CloseTab(t) \/ Reconnect(t)
      PROVE  dest'[j] = "whole" /\ worker'[j] = "none" /\ state'[j] = state[j]
  BY <1>4 DEF CloseTab, Reconnect, AbandonTransfersOf, CancelJobs, Unfinished
<1>5. ASSUME NEW k \in Jobs, WorkerStep(k)
      PROVE  dest'[j] = "whole" /\ worker'[j] = "none" /\ state'[j] = state[j]
  <2>1. k # j
    BY <1>5 DEF WorkerStep, Open, Break, SeeCancel, Die, Complete, Active, Writing, QueueInv, SlotInv
  <2> QED
    BY <1>5, <2>1 DEF WorkerStep, Open, Break, SeeCancel, Die, Complete, Report, queueVars
<1>6. CASE UserStep
  BY <1>6 DEF UserStep, Resolve, Cancel, CancelAll, ClearFinished, CancelJobs, Unfinished, workVars,
     Finished
<1>7. CASE UNCHANGED vars
  BY <1>7 DEF vars, queueVars, workVars
<1> QED
  BY <1>1, <1>2, <1>3, <1>4, <1>5, <1>6, <1>7 DEF QueueStep

\* The tracker counts a job once, and only a batch of landed jobs is filled.
LEMMA CountingKeeps ==
    ASSUME PasteTypeOK, \A b \in Batches : batch[b] = "filled" => JobsOf(b) \subseteq landed,
           NEW good \in SUBSET Jobs, NEW bad \in SUBSET Jobs, good \intersect bad = {},
           JobsFinished(good, bad)
    PROVE  /\ PasteTypeOK'
           /\ \A b \in Batches : batch'[b] = "filled" => JobsOf(b) \subseteq landed'
           /\ landed' \subseteq landed \union good
<1> USE DEF JobsFinished, Counted
<1>1. PasteTypeOK'
  BY DEF PasteTypeOK
<1>2. ASSUME NEW b \in Batches, batch'[b] = "filled" PROVE JobsOf(b) \subseteq landed'
  BY <1>2 DEF PasteTypeOK
<1> QED
  BY <1>1, <1>2

\* A job whose worker's report counts as landed has landed.
LEMMA LandedAsReported ==
    ASSUME QueueInv, NEW j \in Jobs, TransferDone(j), LandedAsPlanned(state'[j], resolved'[j])
    PROVE  dest'[j] = "whole" /\ worker'[j] = "none" /\ state'[j] = "Done"
<1>1. state'[j] = "Done" /\ resolved'[j] # "Rename"
  BY DEF LandedAsPlanned
<1>2. resolved' = resolved /\ worker'[j] = "none" /\ dest' = dest
  BY <1>1 DEF TransferDone, QueueInv, TypeOK
<1>3. worker[j] = "Ok"
  <2>1. worker[j] \in Reports /\ AfterReport(worker[j]) = "Done" <=> worker[j] = "Ok"
    BY ReportsAnswered DEF TransferDone, QueueInv, Reports
  <2>2. state[j] # "Cleared"
    BY <1>1 DEF TransferDone
  <2> QED
    BY <1>1, <2>1, <2>2 DEF TransferDone, QueueInv, TypeOK
<1> QED
  BY <1>1, <1>2, <1>3 DEF QueueInv, FileInv

LEMMA BatchesKeep == TransferInv /\ [Next]_allVars => PasteTypeOK' /\ LandedInv'
<1> SUFFICES ASSUME TransferInv, [Next]_allVars
             PROVE  PasteTypeOK' /\ LandedInv'
  OBVIOUS
<1> USE DEF TransferInv
<1>1. QueueStep
  BY NextIsQueueStep
<1>2. \A j \in landed :
          dest'[j] = "whole" /\ worker'[j] = "none" /\ state'[j] \in {"Done", "Cleared"}
  BY <1>1, LandedStay DEF LandedInv, PasteTypeOK
<1>3. CASE FrameAndSweep
  <2>1. JobsFinished({}, Swept(state', resolved')) /\ Swept(state', resolved') \in SUBSET Jobs
    BY <1>3 DEF FrameAndSweep, Swept
  <2> QED
    BY <1>2, <2>1, CountingKeeps DEF LandedInv
<1>4. ASSUME NEW j \in Jobs, ReportDone(j) PROVE PasteTypeOK' /\ LandedInv'
  <2>1. CASE UNCHANGED pasteVars
    BY <1>2, <2>1 DEF PasteTypeOK, LandedInv, pasteVars
  <2>2. CASE LandedAsPlanned(state'[j], resolved'[j]) /\ JobsFinished({j}, {})
    <3>1. dest'[j] = "whole" /\ worker'[j] = "none" /\ state'[j] = "Done"
      BY <1>4, <2>2, LandedAsReported DEF ReportDone
    <3>2. {j} \in SUBSET Jobs /\ {} \in SUBSET Jobs /\ {j} \intersect {} = {}
      OBVIOUS
    <3>3. /\ PasteTypeOK'
          /\ \A b \in Batches : batch'[b] = "filled" => JobsOf(b) \subseteq landed'
          /\ landed' \subseteq landed \union {j}
      BY <2>2, <3>2, CountingKeeps DEF LandedInv
    <3> QED
      BY <1>2, <3>1, <3>3 DEF LandedInv
  <2>3. CASE JobsFinished({}, {j})
    <3>1. {j} \in SUBSET Jobs /\ {} \in SUBSET Jobs /\ {} \intersect {j} = {}
      OBVIOUS
    <3>2. /\ PasteTypeOK'
          /\ \A b \in Batches : batch'[b] = "filled" => JobsOf(b) \subseteq landed'
          /\ landed' \subseteq landed \union {}
      BY <2>3, <3>1, CountingKeeps DEF LandedInv
    <3> QED
      BY <1>2, <3>2 DEF LandedInv
  <2> QED
    BY <1>4, <2>1, <2>2, <2>3 DEF ReportDone
<1>5. ASSUME NEW b \in Batches, batch' = [batch EXCEPT ![b] = "open"], UNCHANGED <<landed, unlanded>>
      PROVE  PasteTypeOK' /\ LandedInv'
  BY <1>2, <1>5 DEF PasteTypeOK, LandedInv
<1>6. ASSUME NEW t \in Tabs, CloseTabAndDrop(t) PROVE PasteTypeOK' /\ LandedInv'
  BY <1>2, <1>6 DEF CloseTabAndDrop, PasteTypeOK, LandedInv
<1>7. CASE UNCHANGED pasteVars
  BY <1>2, <1>7 DEF PasteTypeOK, LandedInv, pasteVars
<1> QED
  BY <1>3, <1>4, <1>5, <1>6, <1>7 DEF Next, PasteFiles, Plan, allVars

-----------------------------------------------------------------------------
(* The limit.                                                              *)

\* What take_runnable releases fits into the free slots.
LEMMA RunnableFits ==
    ASSUME RunningWithinLimit
    PROVE  Cardinality(InState("Running") \union Runnable) <= Limit
<1> USE DEF RunningWithinLimit
<1>1. IsFiniteSet(Jobs) /\ Jobs \subseteq Nat /\ Limit \in Nat /\ NumJobs \in Nat
  BY TransferConstants, FS_Interval DEF Jobs
<1>2. IsFiniteSet(InState("Running")) /\ Cardinality(InState("Running")) \in Nat
  <2>1. InState("Running") \in SUBSET Jobs
    BY DEF InState
  <2> QED
    BY <1>1, <2>1, FS_Subset, FS_CardinalityType
<1>3. CASE Runnable = {}
  <2>1. InState("Running") \union Runnable = InState("Running")
    BY <1>3
  <2> QED
    BY <2>1
<1>4. CASE Runnable # {}
  <2>1. PICK last \in Runnable : \A j \in Runnable : j <= last
    <3> DEFINE S == {NumJobs - j : j \in Runnable}
    <3> Runnable \subseteq Jobs
      BY DEF Runnable, InState
    <3>1. S \in SUBSET Nat /\ S # {}
      <4>1. \A j \in Jobs : NumJobs - j \in Nat
        BY <1>1 DEF Jobs
      <4> QED
        BY <4>1, <1>4
    <3>2. PICK m \in S : \A k \in S : m <= k
      <4> HIDE DEF S
      <4> QED
        BY <3>1, MinOfNats
    <3>3. PICK j \in Runnable : m = NumJobs - j
      OBVIOUS
    <3>4. ASSUME NEW k \in Runnable PROVE k <= j
      <4>1. k \in Nat /\ j \in Nat
        BY <1>1 DEF Runnable, InState
      <4>2. NumJobs - j <= NumJobs - k
        BY <3>2, <3>3
      <4> QED
        BY <1>1, <4>1, <4>2
    <3> QED
      BY <3>4
  <2>2. Runnable \subseteq Older(last) \union {last}
    <3>1. ASSUME NEW j \in Runnable PROVE j = last \/ j \in Older(last)
      <4>1. j \in InState("Pending") /\ j \in Nat /\ last \in Nat /\ j <= last
        BY <1>1, <2>1 DEF Runnable, InState
      <4> QED
        BY <4>1 DEF Older
    <3> QED
      BY <3>1
  <2>3. Older(last) \in SUBSET Jobs /\ last \notin Older(last)
    <3>1. last \in Nat
      BY <1>1, <2>1 DEF Runnable, InState
    <3> QED
      BY <3>1 DEF Older, InState
  <2>4. IsFiniteSet(Older(last)) /\ Cardinality(Older(last)) \in Nat
    BY <1>1, <2>3, FS_Subset, FS_CardinalityType
  <2>5. /\ IsFiniteSet(Older(last) \union {last})
        /\ Cardinality(Older(last) \union {last}) = Cardinality(Older(last)) + 1
    BY <2>3, <2>4, FS_AddElement
  <2> DEFINE all == InState("Running") \union (Older(last) \union {last})
  <2>6. /\ IsFiniteSet(all)
        /\ Cardinality(all) <= Cardinality(InState("Running")) + Cardinality(Older(last)) + 1
    <3> DEFINE both == InState("Running") \intersect (Older(last) \union {last})
    <3>1. both \in SUBSET InState("Running")
      OBVIOUS
    <3>2. Cardinality(both) \in Nat
      BY <1>2, <3>1, FS_Subset, FS_CardinalityType
    <3>3. IsFiniteSet(all) /\ Cardinality(all) =
             Cardinality(InState("Running")) + Cardinality(Older(last) \union {last}) - Cardinality(both)
      BY <1>2, <2>5, FS_Union
    <3> HIDE DEF all, both
    <3> QED
      BY <1>2, <2>4, <2>5, <3>2, <3>3
  <2>7. Cardinality(Older(last)) + Cardinality(InState("Running")) < Limit
    BY <2>1 DEF Runnable
  <2>8. InState("Running") \union Runnable \in SUBSET all
    BY <2>2
  <2>9. /\ Cardinality(InState("Running") \union Runnable) <= Cardinality(all)
        /\ Cardinality(InState("Running") \union Runnable) \in Nat
        /\ Cardinality(all) \in Nat
    BY <2>6, <2>8, FS_Subset, FS_CardinalityType
  <2> HIDE DEF all
  <2> QED
    BY <1>1, <1>2, <2>4, <2>6, <2>7, <2>9
<1> QED
  BY <1>3, <1>4

\* Only a frame takes slots; what is released by it fits.
LEMMA LimitKept ==
    ASSUME QueueInv, QueueStep, RunningWithinLimit
    PROVE  RunningWithinLimit'
<1> DEFINE before == InState("Running") \union Runnable
<1>1. IsFiniteSet(before) /\ Cardinality(before) <= Limit
  <2>1. before \in SUBSET Jobs /\ IsFiniteSet(Jobs)
    BY TransferConstants, FS_Interval DEF Jobs, InState, Runnable
  <2> QED
    BY <2>1, RunnableFits, FS_Subset
<1>2. \A j \in Jobs : state'[j] = "Running" => state[j] = "Running" \/ j \in Runnable
  <2> SUFFICES ASSUME NEW j \in Jobs, state'[j] = "Running", j \notin Runnable
               PROVE  state[j] = "Running"
    OBVIOUS
  <2> USE DEF QueueInv, TypeOK
  <2>1. ASSUME NEW k \in Jobs, TransferDone(k) PROVE state[j] = "Running"
    <3>1. AfterReport(worker[k]) # "Running"
      BY <2>1, ReportsAnswered DEF TransferDone
    <3> QED
      BY <2>1, <3>1 DEF TransferDone
  <2>2. ASSUME NEW lost \in SUBSET Runnable, Frame(lost) PROVE state[j] = "Running"
    BY <2>2 DEF Frame
  <2>3. CASE UserStep
    BY <2>3 DEF UserStep, Resolve, Cancel, CancelAll, ClearFinished, CancelJobs
  <2>4. ASSUME NEW k \in Jobs, WorkerStep(k) PROVE state[j] = "Running"
    BY <2>4 DEF WorkerStep, Open, Break, SeeCancel, Die, Complete, Report, queueVars
  <2>5. ASSUME NEW t \in Tabs, CloseTab(t) \/ Reconnect(t) PROVE state[j] = "Running"
    BY <2>5 DEF CloseTab, Reconnect, AbandonTransfersOf, CancelJobs
  <2>6. ASSUME NEW b \in Batches, NEW confirmed \in SUBSET JobsOf(b), Enqueue(b, confirmed)
        PROVE  state[j] = "Running"
    BY <2>6 DEF Enqueue
  <2>7. CASE UNCHANGED vars
    BY <2>7 DEF vars, queueVars
  <2> QED
    BY <2>1, <2>2, <2>3, <2>4, <2>5, <2>6, <2>7 DEF QueueStep
<1>3. InState("Running")' \in SUBSET before
  BY <1>2 DEF InState
<1>4. /\ Cardinality(InState("Running")') <= Cardinality(before)
      /\ Cardinality(InState("Running")') \in Nat /\ Cardinality(before) \in Nat
  BY <1>1, <1>3, FS_Subset, FS_CardinalityType
<1>5. Limit \in Nat
  BY TransferConstants
<1> HIDE DEF before
<1> QED
  BY <1>1, <1>4, <1>5 DEF RunningWithinLimit

-----------------------------------------------------------------------------
(* The theorems.                                                           *)

\* The invariant.
THEOREM TransferInvariance == Spec => []TransferInv
<1>1. PasteInit => TransferInv
  BY QueueInitially DEF PasteInit, TransferInv, PasteTypeOK, LandedInv
<1>2. TransferInv /\ [Next]_allVars => TransferInv'
  BY NextIsQueueStep, QueueStepKeeps, BatchesKeep DEF TransferInv
<1> QED
  BY <1>1, <1>2, PTL DEF Spec

\* take_runnable never has more jobs running than the concurrency limit.
THEOREM WithinLimit == Spec => []RunningWithinLimit
<1>1. PasteInit => RunningWithinLimit
  <2> SUFFICES ASSUME Init PROVE RunningWithinLimit
    BY DEF PasteInit
  <2>1. InState("Running") = {}
    BY DEF Init, InState
  <2> QED
    BY <2>1, FS_EmptySet, TransferConstants DEF RunningWithinLimit
<1>2. TransferInv /\ [Next]_allVars /\ RunningWithinLimit => RunningWithinLimit'
  BY NextIsQueueStep, LimitKept DEF TransferInv
<1> QED
  BY <1>1, <1>2, TransferInvariance, PTL DEF Spec

\* Every variable keeps its type.
THEOREM TransferTypes == Spec => [](TypeOK /\ PasteTypeOK)
<1>1. TransferInv => TypeOK /\ PasteTypeOK
  BY DEF TransferInv, QueueInv
<1> QED
  BY <1>1, TransferInvariance, PTL

\* A running job has a worker that will report, and one that is queued has none:
\* no order of cancels, closed tabs and reconnects leaks a slot of take_runnable
\* or gives a job to two workers.
THEOREM OneWorkerPerSlot == Spec => []WorkersMatchStates
<1>1. TransferInv => RunningHasWorker
  BY DEF TransferInv, QueueInv, SlotInv, RunningHasWorker, InState
<1>2. TransferInv => NoDoubleStart
  BY DEF TransferInv, QueueInv, SlotInv, NoDoubleStart, InState
<1>3. TransferInv => WorkersMatchStates
  BY <1>1, <1>2 DEF WorkersMatchStates
<1> QED
  BY <1>3, TransferInvariance, PTL

\* run_transfer leaves nothing half-written under a name that was free.
THEOREM NothingHalfWritten == Spec => []NoHalfFile
<1>1. TransferInv => NoHalfFile
  BY DEF TransferInv, QueueInv, FileInv, NoHalfFile
<1> QED
  BY <1>1, TransferInvariance, PTL

\* Paths are typed into the terminal (BatchTracker) only for files that are there.
THEOREM TypedPathsExist == Spec => []FilledBatchLanded
<1>1. TransferInv => FilledBatchLanded
  BY DEF TransferInv, LandedInv, FilledBatchLanded
<1> QED
  BY <1>1, TransferInvariance, PTL

\* run_transfer replaces a file of the user's only where the job has the answer.
LEMMA ReplacedWhenAnswered ==
    ASSUME TransferInv, QueueStep, NEW j \in Jobs, dest[j] = "user", dest'[j] # "user"
    PROVE  resolved[j] = "Overwrite"
<1> USE DEF TransferInv, QueueInv
<1>1. PICK k \in Jobs : WorkerStep(k)
  BY DEF QueueStep, Enqueue, Frame, TransferDone, CloseTab, Reconnect, UserStep, Resolve, Cancel,
     CancelAll, ClearFinished, workVars, vars
<1>2. k = j
  BY <1>1 DEF WorkerStep, Open, Break, SeeCancel, Die, Complete, TypeOK
<1> QED
  BY <1>1, <1>2 DEF WorkerStep, Open, Break, SeeCancel, Die, Complete, TypeOK, FileInv,
     StagedWhenFresh, WhenItExists, Writing

\* run_transfer never replaces a file of the user's whom nobody has asked.
THEOREM NeverSilently == Spec => OverwriteChosen
<1> DEFINE Said == \A j \in Jobs : dest[j] = "user" /\ dest'[j] # "user" =>
                     j \in agreed \/ answeredAll # {}
<1>1. TransferInv /\ [Next]_allVars => [Said]_vars
  <2> SUFFICES ASSUME TransferInv, QueueStep, NEW j \in Jobs, dest[j] = "user", dest'[j] # "user"
               PROVE  j \in agreed \/ answeredAll # {}
    BY NextIsQueueStep
  <2> QED
    BY ReplacedWhenAnswered DEF TransferInv, QueueInv, FileInv
<1> QED
  BY <1>1, TransferInvariance, PTL DEF Spec, OverwriteChosen

-----------------------------------------------------------------------------
(* The blanket answer.  It reaches a batch it was not given for (run       *)
(* paste_blanket) in one way only.                                         *)

\* finish meets "overwrite all" only with a fresh conflict of a batch for which
\* the user has said it.
BlanketInItsBatch ==
    \A j \in Jobs :
        TransferDone(j) /\ worker[j] = "Conflict" /\ blanket = "Overwrite" =>
            BatchOf[j] \in answeredAll

\* Who has the answer got it for himself or for his batch.
AnsweredForBatch ==
    \A j \in Jobs :
        resolved[j] = "Overwrite" => j \in agreed \/ BatchOf[j] \in answeredAll

LEMMA AnsweredForBatchKept ==
    ASSUME QueueInv, QueueStep, AnsweredForBatch, BlanketInItsBatch \/ UNCHANGED allVars
    PROVE  AnsweredForBatch'
<1> USE DEF QueueInv, TypeOK, AnsweredForBatch
<1>1. ASSUME NEW b \in Batches, NEW confirmed \in SUBSET JobsOf(b), Enqueue(b, confirmed)
      PROVE  AnsweredForBatch'
  BY <1>1 DEF Enqueue
<1>2. ASSUME NEW j \in Jobs, TransferDone(j)
      PROVE  AnsweredForBatch'
  <2>1. CASE state'[j] # "Pending"
    BY <1>2, <2>1 DEF TransferDone, userVars
  <2>2. CASE state'[j] = "Pending"
    <3>1. worker[j] = "Conflict"
      <4>1. state[j] # "Cleared" /\ AfterReport(worker[j]) = "Pending" /\ worker[j] \in Reports
        BY <1>2, <2>2 DEF TransferDone, SlotInv
      <4> QED
        BY <4>1, ReportsAnswered
    <3>2. CASE UNCHANGED allVars
      BY <3>2 DEF allVars, vars, queueVars, userVars
    <3>3. CASE BlanketInItsBatch
      BY <1>2, <2>2, <3>1, <3>3 DEF BlanketInItsBatch, TransferDone, userVars
    <3> QED
      BY <3>2, <3>3
  <2> QED
    BY <2>1, <2>2
<1>3. ASSUME NEW choice \in Choices, NEW all \in BOOLEAN, Resolve(choice, all)
      PROVE  AnsweredForBatch'
  BY <1>3 DEF Resolve
<1>4. CASE UNCHANGED <<resolved, agreed, answeredAll>>
  BY <1>4
<1>5. ASSUME NEW j \in Jobs, WorkerStep(j)
      PROVE  UNCHANGED <<resolved, agreed, answeredAll>>
  BY <1>5 DEF WorkerStep, Open, Break, SeeCancel, Die, Complete, Report, queueVars, userVars
<1>6. ASSUME NEW t \in Tabs, CloseTab(t) \/ Reconnect(t)
      PROVE  UNCHANGED <<resolved, agreed, answeredAll>>
  BY <1>6 DEF CloseTab, Reconnect, userVars
<1>7. ASSUME NEW lost \in SUBSET Runnable, Frame(lost)
      PROVE  UNCHANGED <<resolved, agreed, answeredAll>>
  BY <1>7 DEF Frame, userVars
<1>8. ASSUME (\E j \in Jobs : Cancel(j)) \/ CancelAll \/ ClearFinished \/ UNCHANGED vars
      PROVE  UNCHANGED <<resolved, agreed, answeredAll>>
  BY <1>8 DEF Cancel, CancelAll, ClearFinished, vars, queueVars, userVars
<1> QED
  BY <1>1, <1>2, <1>3, <1>4, <1>5, <1>6, <1>7, <1>8 DEF QueueStep, UserStep

\* As long as no conflict of another batch comes while "overwrite all" stands,
\* that answer is one for the batch it was given in (the comment on
\* Queue::blanket): no cancel, closed tab, retry or second dialog carries it over.
THEOREM OnlyTheBlanketCarriesOver ==
    Spec /\ [][BlanketInItsBatch]_allVars => OverwriteAnsweredForBatch
<1> DEFINE Said == \A j \in Jobs : dest[j] = "user" /\ dest'[j] # "user" =>
                     j \in agreed \/ BatchOf[j] \in answeredAll
<1>1. PasteInit => AnsweredForBatch
  BY DEF PasteInit, Init, AnsweredForBatch
<1>2. TransferInv /\ AnsweredForBatch /\ [Next]_allVars /\ [BlanketInItsBatch]_allVars
         => AnsweredForBatch'
  <2> SUFFICES ASSUME TransferInv, AnsweredForBatch, [Next]_allVars, [BlanketInItsBatch]_allVars
               PROVE  AnsweredForBatch'
    OBVIOUS
  <2>1. QueueInv /\ QueueStep
    BY NextIsQueueStep DEF TransferInv
  <2>2. BlanketInItsBatch \/ UNCHANGED allVars
    OBVIOUS
  <2> QED
    BY <2>1, <2>2, AnsweredForBatchKept
<1>3. TransferInv /\ AnsweredForBatch /\ [Next]_allVars => [Said]_vars
  BY NextIsQueueStep, ReplacedWhenAnswered DEF AnsweredForBatch
<1> QED
  BY <1>1, <1>2, <1>3, TransferInvariance, PTL DEF Spec, OverwriteAnsweredForBatch
=============================================================================
