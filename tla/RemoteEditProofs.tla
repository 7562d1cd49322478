-------------------------- MODULE RemoteEditProofs --------------------------
(***************************************************************************)
(* Proof about RemoteEdit, for every number of versions, keys, stamps and  *)
(* events: two write-backs of one entry never run at a time.  What a write *)
(* transfers does not matter to that, so contents and stamps need no types *)
(* here.                                                                   *)
(***************************************************************************)
EXTENDS RemoteEdit, TLAPS

\* The answer to a write-back is on its way.
AnswerKinds == {"done", "conflict", "failed"}
AnswerAt(i) == i \in DOMAIN events /\ events[i].kind \in AnswerKinds
Answered(k) == \E i \in DOMAIN events : AnswerAt(i) /\ events[i].key = k

EventList == \E S : events \in Seq(S)

\* A key once given is not given again.
KeysAreOld ==
    /\ nextKey \in Nat
    /\ entry # None =>
          /\ {"key", "state"} \subseteq DOMAIN entry
          /\ entry.key \in Nat /\ entry.key < nextKey
    /\ \A u \in uploads :
          {"key", "phase"} \subseteq DOMAIN u /\ u.key \in Nat /\ u.key < nextKey
    /\ \A i \in DOMAIN events :
          AnswerAt(i) => events[i].key \in Nat /\ events[i].key < nextKey

\* A write-back runs or its answer is on its way, once for a key, and the entry
\* of the key is being uploaded meanwhile.
OneAtATime ==
    /\ OneUploadPerEntry
    /\ \A u \in uploads : ~Answered(u.key)
    /\ \A i, j \in DOMAIN events :
          AnswerAt(i) /\ AnswerAt(j) /\ events[i].key = events[j].key => i = j
    /\ \A u \in uploads : IsFor(u.key) => entry.state = "Uploading"
    /\ \A k : Answered(k) /\ IsFor(k) => entry.state = "Uploading"

EditInv == EventList /\ KeysAreOld /\ OneAtATime

-----------------------------------------------------------------------------
(* The queue of events.                                                    *)

\* The first event is taken out.
LEMMA EventTaken ==
    ASSUME EventList, NEW kind, Received(kind)
    PROVE  /\ EventList'
           /\ Len(events) \in Nat \ {0} /\ DOMAIN events = 1 .. Len(events)
           /\ events[1] = Head(events) /\ events[1].kind = kind
           /\ DOMAIN events' = 1 .. Len(events) - 1
           /\ \A i \in DOMAIN events' : i + 1 \in DOMAIN events /\ events'[i] = events[i + 1]
<1>1. PICK S : events \in Seq(S)
  BY DEF EventList
<1>2. events' \in Seq(S)
  BY <1>1 DEF Received
<1>3. EventList'
  BY <1>2, Zenon DEF EventList
<1> QED
  BY <1>1, <1>3 DEF Received

\* An event is added.
LEMMA EventPosted ==
    ASSUME EventList, NEW e, Post(e)
    PROVE  /\ EventList'
           /\ Len(events) \in Nat /\ DOMAIN events = 1 .. Len(events)
           /\ DOMAIN events' = 1 .. Len(events) + 1
           /\ events'[Len(events) + 1] = e
           /\ \A i \in DOMAIN events : events'[i] = events[i]
<1>1. PICK S : events \in Seq(S)
  BY DEF EventList
<1>2. events \in Seq(S \union {e}) /\ e \in S \union {e}
  BY <1>1
<1>3. events' \in Seq(S \union {e})
  BY <1>2 DEF Post
<1>4. EventList'
  BY <1>3, Zenon DEF EventList
<1> QED
  BY <1>2, <1>4 DEF Post

\* What is said of the events survives that one is taken.
EventsOK ==
    /\ EventList
    /\ \A i \in DOMAIN events :
          AnswerAt(i) => events[i].key \in Nat /\ events[i].key < nextKey
    /\ \A i, j \in DOMAIN events :
          AnswerAt(i) /\ AnswerAt(j) /\ events[i].key = events[j].key => i = j

LEMMA TakingLeavesOthers ==
    ASSUME EditInv, NEW kind, Received(kind), nextKey' \in Nat, nextKey <= nextKey'
    PROVE  /\ EventsOK'
           /\ \A k : Answered(k)' => Answered(k)
           /\ kind \in AnswerKinds => \A k : k = Head(events).key => ~Answered(k)'
<1> USE DEF EditInv
<1>1. /\ EventList' /\ Len(events) \in Nat \ {0} /\ DOMAIN events = 1 .. Len(events)
      /\ events[1] = Head(events) /\ events[1].kind = kind
      /\ DOMAIN events' = 1 .. Len(events) - 1
      /\ \A i \in DOMAIN events' : i + 1 \in DOMAIN events /\ events'[i] = events[i + 1]
  BY EventTaken
<1>2. \A i \in DOMAIN events' : AnswerAt(i)' => AnswerAt(i + 1) /\ i + 1 # 1
  BY <1>1 DEF AnswerAt
<1>3. EventsOK'
  <2>1. \A i \in DOMAIN events' : AnswerAt(i)' =>
           events'[i].key \in Nat /\ events'[i].key < nextKey'
    BY <1>1, <1>2 DEF KeysAreOld
  <2>2. \A i, j \in DOMAIN events' :
           AnswerAt(i)' /\ AnswerAt(j)' /\ events'[i].key = events'[j].key => i = j
    <3> SUFFICES ASSUME NEW i \in DOMAIN events', NEW j \in DOMAIN events',
                        AnswerAt(i)', AnswerAt(j)', events'[i].key = events'[j].key
                 PROVE  i = j
      OBVIOUS
    <3>1. i + 1 = j + 1
      BY <1>1, <1>2 DEF OneAtATime
    <3> QED
      BY <1>1, <3>1
  <2> QED
    BY <1>1, <2>1, <2>2 DEF EventsOK
<1>4. \A k : Answered(k)' => Answered(k)
  BY <1>1, <1>2 DEF Answered
<1>5. kind \in AnswerKinds => \A k : k = Head(events).key => ~Answered(k)'
  <2> SUFFICES ASSUME kind \in AnswerKinds, NEW i \in DOMAIN events', AnswerAt(i)',
                      events'[i].key = events[1].key
               PROVE  FALSE
    BY <1>1 DEF Answered
  <2>0. AnswerAt(1)
    BY <1>1 DEF AnswerAt
  <2>1. AnswerAt(i + 1) /\ i + 1 # 1 /\ events[i + 1].key = events[1].key
    BY <1>1, <1>2
  <2>2. 1 \in DOMAIN events /\ i + 1 \in DOMAIN events
    BY <2>0, <2>1 DEF AnswerAt
  <2> QED
    BY <2>0, <2>1, <2>2 DEF OneAtATime
<1> QED
  BY <1>3, <1>4, <1>5

\* What is said of them survives an event that is no answer, and the answer to
\* a write-back that had none.
LEMMA PostingKeepsOthers ==
    ASSUME EditInv, NEW e, Post(e), nextKey' = nextKey,
           e.kind \in AnswerKinds =>
              e.key \in Nat /\ e.key < nextKey /\ ~Answered(e.key)
    PROVE  /\ EventsOK'
           /\ \A k : Answered(k)' => \/ Answered(k)
                                     \/ e.kind \in AnswerKinds /\ k = e.key
<1> USE DEF EditInv
<1>1. /\ EventList' /\ Len(events) \in Nat /\ DOMAIN events = 1 .. Len(events)
      /\ DOMAIN events' = 1 .. Len(events) + 1
      /\ events'[Len(events) + 1] = e
      /\ \A i \in DOMAIN events : events'[i] = events[i]
  BY EventPosted
<1>2. \A i \in DOMAIN events' : AnswerAt(i)' =>
         \/ AnswerAt(i) /\ events'[i] = events[i]
         \/ i = Len(events) + 1 /\ events'[i] = e /\ e.kind \in AnswerKinds
  BY <1>1 DEF AnswerAt
<1>3. \A i \in DOMAIN events : AnswerAt(i) /\ e.kind \in AnswerKinds => events[i].key # e.key
  BY DEF Answered
<1>4. \A i \in DOMAIN events' : AnswerAt(i)' =>
         events'[i].key \in Nat /\ events'[i].key < nextKey'
  BY <1>1, <1>2 DEF KeysAreOld, AnswerAt
<1>5. \A i, j \in DOMAIN events' :
         AnswerAt(i)' /\ AnswerAt(j)' /\ events'[i].key = events'[j].key => i = j
  <2> SUFFICES ASSUME NEW i \in DOMAIN events', NEW j \in DOMAIN events',
                      AnswerAt(i)', AnswerAt(j)', events'[i].key = events'[j].key
               PROVE  i = j
    OBVIOUS
  <2>1. CASE AnswerAt(i) /\ events'[i] = events[i] /\ AnswerAt(j) /\ events'[j] = events[j]
    BY <2>1 DEF OneAtATime, AnswerAt
  <2>2. CASE i = Len(events) + 1 /\ j = Len(events) + 1
    BY <2>2
  <2>3. CASE /\ AnswerAt(i) /\ events'[i] = events[i]
             /\ events'[j] = e /\ e.kind \in AnswerKinds
    BY <1>3, <2>3 DEF AnswerAt
  <2>4. CASE /\ AnswerAt(j) /\ events'[j] = events[j]
             /\ events'[i] = e /\ e.kind \in AnswerKinds
    BY <1>3, <2>4 DEF AnswerAt
  <2> QED
    BY <1>2, <2>1, <2>2, <2>3, <2>4
<1>6. \A k : Answered(k)' => Answered(k) \/ (e.kind \in AnswerKinds /\ k = e.key)
  BY <1>2 DEF Answered, AnswerAt
<1> QED
  BY <1>1, <1>4, <1>5, <1>6 DEF EventsOK

LEMMA QueueUnchanged ==
    ASSUME EditInv, UNCHANGED <<events, nextKey>>
    PROVE  EventsOK' /\ \A k : Answered(k)' <=> Answered(k)
BY DEF EditInv, EventsOK, EventList, KeysAreOld, OneAtATime, AnswerAt, Answered

-----------------------------------------------------------------------------
(* The kinds of steps.                                                     *)

AnswersKept == EventsOK' /\ \A k : Answered(k)' => Answered(k)

\* Nothing is pushed; write-backs may be cut.
LEMMA NothingPushed ==
    ASSUME EditInv, AnswersKept, UNCHANGED <<entry, nextKey>>, uploads' \subseteq uploads
    PROVE  EditInv'
<1>1. EventList' /\ KeysAreOld'
  BY DEF EditInv, AnswersKept, EventsOK, KeysAreOld, AnswerAt
<1>2. OneAtATime'
  <2>1. /\ OneUploadPerEntry'
        /\ \A u \in uploads' : ~Answered(u.key)'
    BY DEF EditInv, AnswersKept, OneAtATime, OneUploadPerEntry
  <2>2. /\ \A u \in uploads' : IsFor(u.key)' => entry'.state = "Uploading"
        /\ \A k : Answered(k)' /\ IsFor(k)' => entry'.state = "Uploading"
    BY DEF EditInv, AnswersKept, OneAtATime, IsFor
  <2> QED
    BY <2>1, <2>2 DEF AnswersKept, EventsOK, OneAtATime
<1> QED
  BY <1>1, <1>2 DEF EditInv

\* A write-back goes on.
LEMMA UploadGoesOn ==
    ASSUME EditInv, UNCHANGED <<events, entry, nextKey>>,
           NEW u \in uploads, NEW v, Becomes(u, v),
           {"key", "phase"} \subseteq DOMAIN v, v.key = u.key
    PROVE  EditInv'
<1>1. AnswersKept
  BY QueueUnchanged DEF AnswersKept
<1>2. \A w \in uploads' : w = v \/ (w \in uploads /\ w # u)
  BY DEF Becomes
<1>3. EventList' /\ KeysAreOld'
  BY <1>1, <1>2 DEF EditInv, AnswersKept, EventsOK, KeysAreOld, AnswerAt
<1>4. OneAtATime'
  <2>1. /\ OneUploadPerEntry'
        /\ \A w \in uploads' : ~Answered(w.key)'
    BY <1>1, <1>2 DEF EditInv, AnswersKept, OneAtATime, OneUploadPerEntry
  <2>2. /\ \A w \in uploads' : IsFor(w.key)' => entry'.state = "Uploading"
        /\ \A k : Answered(k)' /\ IsFor(k)' => entry'.state = "Uploading"
    BY <1>1, <1>2 DEF EditInv, AnswersKept, OneAtATime, IsFor
  <2> QED
    BY <1>1, <2>1, <2>2 DEF AnswersKept, EventsOK, OneAtATime
<1> QED
  BY <1>3, <1>4 DEF EditInv

\* A write-back ends with its answer.
LEMMA UploadAnswered ==
    ASSUME EditInv, UNCHANGED <<entry, nextKey>>,
           NEW u \in uploads, uploads' = uploads \ {u},
           NEW e, Post(e), e.kind \in AnswerKinds, e.key = u.key
    PROVE  EditInv'
<1>1. u.key \in Nat /\ u.key < nextKey /\ ~Answered(u.key)
  BY DEF EditInv, KeysAreOld, OneAtATime
<1>2. EventsOK' /\ \A k : Answered(k)' => Answered(k) \/ k = u.key
  BY <1>1, PostingKeepsOthers
<1>3. \A w \in uploads' : w \in uploads /\ w.key # u.key
  BY DEF EditInv, OneAtATime, OneUploadPerEntry
<1>4. EventList' /\ KeysAreOld'
  BY <1>2, <1>3 DEF EditInv, EventsOK, KeysAreOld, AnswerAt
<1>5. OneAtATime'
  <2>1. /\ OneUploadPerEntry'
        /\ \A w \in uploads' : ~Answered(w.key)'
    BY <1>2, <1>3 DEF EditInv, OneAtATime, OneUploadPerEntry
  <2>2. /\ \A w \in uploads' : IsFor(w.key)' => entry'.state = "Uploading"
        /\ \A k : Answered(k)' /\ IsFor(k)' => entry'.state = "Uploading"
    BY <1>2, <1>3 DEF EditInv, OneAtATime, IsFor
  <2> QED
    BY <1>2, <2>1, <2>2 DEF EventsOK, OneAtATime
<1> QED
  BY <1>4, <1>5 DEF EditInv

\* The entry, at rest, changes its state or is pushed.
LEMMA EntryMoves ==
    ASSUME EditInv, AnswersKept, nextKey' = nextKey,
           entry # None, entry.state # "Uploading",
           {"key", "state"} \subseteq DOMAIN entry', entry'.key = entry.key,
           \/ uploads' = uploads
           \/ /\ entry'.state = "Uploading"
              /\ \E w : /\ uploads' = uploads \union {w}
                        /\ {"key", "phase"} \subseteq DOMAIN w /\ w.key = entry.key
    PROVE  EditInv'
<1>1. ~Answered(entry.key) /\ \A u \in uploads : u.key # entry.key
  BY DEF EditInv, OneAtATime, IsFor
<1>2. \A u \in uploads' :
         \/ u \in uploads
         \/ /\ {"key", "phase"} \subseteq DOMAIN u
            /\ u.key = entry.key /\ entry'.state = "Uploading"
  OBVIOUS
<1>3. \A u, v \in uploads' : u \notin uploads /\ v \notin uploads => u = v
  OBVIOUS
<1>4. EventList' /\ KeysAreOld'
  BY <1>2 DEF EditInv, AnswersKept, EventsOK, KeysAreOld, AnswerAt
<1>5. OneAtATime'
  <2>1. OneUploadPerEntry'
    BY <1>1, <1>2, <1>3 DEF EditInv, OneAtATime, OneUploadPerEntry
  <2>2. \A u \in uploads' : ~Answered(u.key)'
    BY <1>1, <1>2 DEF EditInv, AnswersKept, OneAtATime
  <2>3. /\ \A u \in uploads' : IsFor(u.key)' => entry'.state = "Uploading"
        /\ \A k : Answered(k)' /\ IsFor(k)' => entry'.state = "Uploading"
    BY <1>1, <1>2 DEF AnswersKept, IsFor
  <2> QED
    BY <2>1, <2>2, <2>3 DEF AnswersKept, EventsOK, OneAtATime
<1> QED
  BY <1>4, <1>5 DEF EditInv

\* What push_edit makes of an entry at rest.
LEMMA Pushed ==
    ASSUME EditInv, AnswersKept, nextKey' = nextKey,
           entry # None, entry.state # "Uploading",
           NEW e, {"key", "state"} \subseteq DOMAIN e, e.key = entry.key, Push(e)
    PROVE  EditInv'
<1>1. {"key", "state"} \subseteq DOMAIN entry' /\ entry'.key = entry.key
  BY DEF Push
<1>2. CASE tabOpen
  <2> DEFINE w == [key |-> e.key, bytes |-> local, snapshot |-> e.snapshot,
                   last |-> None, phase |-> "stat"]
  <2>1. {"key", "phase"} \subseteq DOMAIN w /\ w.key = entry.key
    OBVIOUS
  <2>2. uploads' = uploads \union {w} /\ entry'.state = "Uploading"
    BY <1>2 DEF Push
  <2> HIDE DEF w
  <2> QED
    BY <1>1, <2>1, <2>2, EntryMoves
<1>3. CASE ~tabOpen
  BY <1>1, <1>3, EntryMoves DEF Push
<1> QED
  BY <1>2, <1>3

\* An answer to a write-back is handled.
LEMMA AnswerHandled ==
    ASSUME EditInv, UNCHANGED <<uploads, nextKey>>,
           NEW kind \in AnswerKinds, Received(kind),
           \/ entry' = entry /\ ~IsFor(Head(events).key)
           \/ /\ IsFor(Head(events).key)
              /\ {"key", "state"} \subseteq DOMAIN entry' /\ entry'.key = entry.key
    PROVE  EditInv'
<1>0. nextKey' \in Nat /\ nextKey <= nextKey'
  BY DEF EditInv, KeysAreOld
<1>1. /\ EventsOK' /\ \A k : Answered(k)' => Answered(k)
      /\ \A k : k = Head(events).key => ~Answered(k)'
  BY <1>0, TakingLeavesOthers
<1>2. AnswersKept
  BY <1>1 DEF AnswersKept
<1>3. CASE entry' = entry
  BY <1>2, <1>3, NothingPushed
<1>4. CASE /\ IsFor(Head(events).key)
           /\ {"key", "state"} \subseteq DOMAIN entry' /\ entry'.key = entry.key
  <2>1. Answered(entry.key)
    <3>1. /\ events[1] = Head(events) /\ events[1].kind = kind
          /\ 1 \in DOMAIN events
      BY EventTaken DEF EditInv
    <3> QED
      BY <1>4, <3>1 DEF Answered, AnswerAt, IsFor
  <2>2. \A u \in uploads : u.key # entry.key
    BY <2>1 DEF EditInv, OneAtATime
  <2>3. EventList' /\ KeysAreOld'
    BY <1>1, <1>4 DEF EditInv, EventsOK, KeysAreOld, AnswerAt, IsFor
  <2>4. OneAtATime'
    <3>1. /\ OneUploadPerEntry'
          /\ \A u \in uploads' : ~Answered(u.key)'
      BY <1>1 DEF EditInv, OneAtATime, OneUploadPerEntry
    <3>2. /\ \A u \in uploads' : IsFor(u.key)' => entry'.state = "Uploading"
          /\ \A k : Answered(k)' /\ IsFor(k)' => entry'.state = "Uploading"
      BY <1>1, <1>4, <2>2 DEF IsFor
    <3> QED
      BY <1>1, <3>1, <3>2 DEF EventsOK, OneAtATime
  <2> QED
    BY <2>3, <2>4 DEF EditInv
<1> QED
  BY <1>3, <1>4

-----------------------------------------------------------------------------
(* The actions.                                                            *)

LEMMA InitEstablishesEdit == Init => EditInv
<1> SUFFICES ASSUME Init
             PROVE  EditInv
  OBVIOUS
<1>1. events \in Seq({}) /\ DOMAIN events = {}
  BY DEF Init
<1>2. EventList
  BY <1>1 DEF EventList
<1> QED
  BY <1>1, <1>2 DEF Init, EditInv, KeysAreOld, OneAtATime, OneUploadPerEntry, AnswerAt, Answered

\* The reader, the watcher and the user, where they push nothing.
LEMMA QuietSteps ==
    ASSUME EditInv,
           \/ ReaderStep \/ Poll \/ TheyWrite
           \/ StartEdit \/ UserSaves \/ CloseTab \/ Reconnect
           \/ UNCHANGED vars
    PROVE  EditInv'
<1> USE DEF EditInv
<1>1. CASE \/ ReadAll \/ OpenFails \/ TheyWrite \/ StartEdit \/ UserSaves
           \/ CloseTab \/ Reconnect \/ UNCHANGED vars
  <2>1. UNCHANGED <<events, entry, nextKey>> /\ uploads' \subseteq uploads
    BY <1>1 DEF ReadAll, OpenFails, TheyWrite, StartEdit, UserSaves, CloseTab, Reconnect,
                AbortTasks, deskVars, taskVars, vars
  <2>2. AnswersKept
    BY <2>1, QueueUnchanged DEF AnswersKept
  <2> QED
    BY <2>1, <2>2, NothingPushed
<1>2. ASSUME NEW e, Post(e), e.kind \notin AnswerKinds,
             UNCHANGED <<entry, nextKey, uploads>>
      PROVE  EditInv'
  <2>1. AnswersKept
    BY <1>2, PostingKeepsOthers DEF AnswersKept
  <2> QED
    BY <1>2, <2>1, NothingPushed
<1>3. CASE StatAfterRead
  <2> DEFINE e == [kind |-> "opened", version |-> reader.version, snapshot |-> remote]
  <2>1. Post(e) /\ UNCHANGED <<entry, nextKey, uploads>>
    BY <1>3 DEF StatAfterRead, Send, deskVars
  <2>2. e.kind \notin AnswerKinds
    BY DEF AnswerKinds
  <2> HIDE DEF e
  <2> QED
    BY <1>2, <2>1, <2>2
<1>4. CASE Poll
  <2> DEFINE e == [kind |-> "tick", key |-> watcher.key, stamp |-> local]
  <2>1. Post(e) /\ UNCHANGED <<entry, nextKey, uploads>>
    BY <1>4 DEF Poll, Send, taskVars
  <2>2. e.kind \notin AnswerKinds
    BY DEF AnswerKinds
  <2> HIDE DEF e
  <2> QED
    BY <1>2, <2>1, <2>2
<1> QED
  BY <1>1, <1>3, <1>4 DEF ReaderStep

\* The tasks of push_edit.
LEMMA UploadSteps ==
    ASSUME EditInv, NEW u \in uploads, UploadStep(u)
    PROVE  EditInv'
<1>1. {"key", "phase"} \subseteq DOMAIN u
  BY DEF EditInv, KeysAreOld
<1>2. ASSUME NEW v, Becomes(u, v), {"key", "phase"} \subseteq DOMAIN v, v.key = u.key,
             UNCHANGED <<events, entry, nextKey>>
      PROVE  EditInv'
  BY <1>2, UploadGoesOn
<1>3. ASSUME NEW e, Post(e), e.kind \in AnswerKinds, e.key = u.key,
             uploads' = uploads \ {u}, UNCHANGED <<entry, nextKey>>
      PROVE  EditInv'
  BY <1>3, UploadAnswered
<1>4. CASE StatBeforeWrite(u)
  <2>1. CASE MayWrite(u)
    <3> DEFINE v == [u EXCEPT !.phase = "write", !.last = remote]
    <3>1. {"key", "phase"} \subseteq DOMAIN v /\ v.key = u.key
      BY <1>1
    <3>2. Becomes(u, v) /\ UNCHANGED <<events, entry, nextKey>>
      BY <1>4, <2>1 DEF StatBeforeWrite, deskVars
    <3> HIDE DEF v
    <3> QED
      BY <1>2, <3>1, <3>2
  <2>2. CASE ~MayWrite(u)
    <3> DEFINE e == [kind |-> "conflict", key |-> u.key, remote |-> remote]
    <3>1. e.kind \in AnswerKinds /\ e.key = u.key
      BY DEF AnswerKinds
    <3>2. Post(e) /\ uploads' = uploads \ {u} /\ UNCHANGED <<entry, nextKey>>
      BY <1>4, <2>2 DEF StatBeforeWrite, deskVars
    <3> HIDE DEF e
    <3> QED
      BY <1>3, <3>1, <3>2
  <2> QED
    BY <2>1, <2>2
<1>5. CASE Truncate(u)
  <2> DEFINE v == [u EXCEPT !.phase = "writing", !.last = remote']
  <2>1. {"key", "phase"} \subseteq DOMAIN v /\ v.key = u.key
    BY <1>1
  <2>2. Becomes(u, v) /\ UNCHANGED <<events, entry, nextKey>>
    BY <1>5 DEF Truncate, deskVars
  <2> HIDE DEF v
  <2> QED
    BY <1>2, <2>1, <2>2
<1>6. CASE WriteAll(u)
  <2> DEFINE v == [u EXCEPT !.phase = "check", !.last = remote']
  <2>1. {"key", "phase"} \subseteq DOMAIN v /\ v.key = u.key
    BY <1>1
  <2>2. Becomes(u, v) /\ UNCHANGED <<events, entry, nextKey>>
    BY <1>6 DEF WriteAll, deskVars
  <2> HIDE DEF v
  <2> QED
    BY <1>2, <2>1, <2>2
<1>7. CASE StatAfterWrite(u)
  <2> DEFINE e == [kind |-> "done", key |-> u.key, bytes |-> u.bytes, own |-> u.last,
                   remote |-> remote]
  <2>1. e.kind \in AnswerKinds /\ e.key = u.key
    BY DEF AnswerKinds
  <2>2. Post(e) /\ uploads' = uploads \ {u} /\ UNCHANGED <<entry, nextKey>>
    BY <1>7 DEF StatAfterWrite, deskVars
  <2> HIDE DEF e
  <2> QED
    BY <1>3, <2>1, <2>2
<1>8. CASE UploadBreaks(u)
  <2> DEFINE e == [kind |-> "failed", key |-> u.key]
  <2>1. e.kind \in AnswerKinds /\ e.key = u.key
    BY DEF AnswerKinds
  <2>2. Post(e) /\ uploads' = uploads \ {u} /\ UNCHANGED <<entry, nextKey>>
    BY <1>8 DEF UploadBreaks, deskVars
  <2> HIDE DEF e
  <2> QED
    BY <1>3, <2>1, <2>2
<1> QED
  BY <1>4, <1>5, <1>6, <1>7, <1>8 DEF UploadStep

\* on_edit_saved.
LEMMA AnswerSteps ==
    ASSUME EditInv, OnEditDone \/ OnEditConflict \/ OnEditFailed
    PROVE  EditInv'
<1>1. IsFor(Head(events).key) => {"key", "state"} \subseteq DOMAIN entry
  BY DEF EditInv, KeysAreOld, IsFor
<1>2. UNCHANGED <<uploads, nextKey>>
  BY DEF OnEditDone, OnEditConflict, OnEditFailed, taskVars
<1>3. \/ entry' = entry /\ ~IsFor(Head(events).key)
      \/ /\ IsFor(Head(events).key)
         /\ {"key", "state"} \subseteq DOMAIN entry' /\ entry'.key = entry.key
  BY <1>1 DEF OnEditDone, OnEditConflict, OnEditFailed, UploadFailed
<1>4. \E kind \in AnswerKinds : Received(kind)
  BY DEF OnEditDone, OnEditConflict, OnEditFailed, AnswerKinds
<1> QED
  BY <1>2, <1>3, <1>4, AnswerHandled

\* Taking an event that is not an answer.
LEMMA TickTaken ==
    ASSUME EditInv, NEW kind, Received(kind), nextKey' \in Nat, nextKey <= nextKey'
    PROVE  AnswersKept
BY TakingLeavesOthers DEF AnswersKept

\* on_edit_tick.
LEMMA TickSteps ==
    ASSUME EditInv, OnEditTick
    PROVE  EditInv'
<1> DEFINE t == Head(events)
           e == [entry EXCEPT !.seen = t.stamp]
<1>1. nextKey' = nextKey /\ Received("tick") /\ nextKey \in Nat
  BY DEF OnEditTick, EditInv, KeysAreOld
<1>2. AnswersKept
  BY <1>1, TickTaken
<1>3. CASE IsFor(t.key) /\ Watched(entry)
  <2>1. /\ entry # None /\ entry.state # "Uploading"
        /\ {"key", "state"} \subseteq DOMAIN e /\ e.key = entry.key
    BY <1>3 DEF IsFor, Watched, EditInv, KeysAreOld
  <2>2. (entry' = e /\ uploads' = uploads) \/ Push(e)
    BY <1>3 DEF OnEditTick
  <2> HIDE DEF e
  <2>3. CASE entry' = e /\ uploads' = uploads
    BY <1>1, <1>2, <2>1, <2>3, EntryMoves
  <2>4. CASE Push(e)
    BY <1>1, <1>2, <2>1, <2>4, Pushed
  <2> QED
    BY <2>2, <2>3, <2>4
<1>4. CASE ~(IsFor(t.key) /\ Watched(entry))
  <2>1. UNCHANGED <<entry, uploads>>
    BY <1>4 DEF OnEditTick
  <2> QED
    BY <1>1, <1>2, <2>1, NothingPushed
<1> QED
  BY <1>3, <1>4

\* finish_edit_open makes an entry with a key of its own.
LEMMA OpenSteps ==
    ASSUME EditInv, NEW launched \in BOOLEAN, FinishEditOpen(launched)
    PROVE  EditInv'
<1>1. /\ Received("opened") /\ nextKey \in Nat /\ uploads' = uploads
      /\ nextKey' \in {nextKey, nextKey + 1}
  BY DEF FinishEditOpen, EditInv, KeysAreOld, deskVars, taskVars
<1>2. AnswersKept
  BY <1>1, TickTaken
<1>3. CASE UNCHANGED <<entry, nextKey>>
  BY <1>1, <1>2, <1>3, NothingPushed
<1>4. CASE ~UNCHANGED <<entry, nextKey>>
  <2>1. /\ entry = None /\ nextKey' = nextKey + 1
        /\ {"key", "state"} \subseteq DOMAIN entry' /\ entry'.key = nextKey
    BY <1>4 DEF FinishEditOpen, deskVars
  <2>2. ~Answered(nextKey) /\ \A u \in uploads : u.key # nextKey
    BY <1>1 DEF EditInv, KeysAreOld, Answered
  <2>3. EventList' /\ KeysAreOld'
    <3>1. EventsOK'
      BY <1>2 DEF AnswersKept
    <3>2. nextKey' \in Nat /\ nextKey < nextKey'
      BY <1>1, <2>1
    <3>3. \A u \in uploads' :
             {"key", "phase"} \subseteq DOMAIN u /\ u.key \in Nat /\ u.key < nextKey'
      BY <1>1, <3>2 DEF EditInv, KeysAreOld
    <3> QED
      BY <1>1, <2>1, <3>1, <3>2, <3>3 DEF EventsOK, KeysAreOld, AnswerAt
  <2>4. OneAtATime'
    <3>1. /\ OneUploadPerEntry'
          /\ \A u \in uploads' : ~Answered(u.key)'
      BY <1>1, <1>2 DEF EditInv, AnswersKept, OneAtATime, OneUploadPerEntry
    <3>2. /\ \A u \in uploads' : IsFor(u.key)' => entry'.state = "Uploading"
          /\ \A k : Answered(k)' /\ IsFor(k)' => entry'.state = "Uploading"
      BY <1>1, <1>2, <2>1, <2>2 DEF AnswersKept, IsFor
    <3> QED
      BY <1>2, <3>1, <3>2 DEF AnswersKept, EventsOK, OneAtATime
  <2> QED
    BY <2>3, <2>4 DEF EditInv
<1> QED
  BY <1>3, <1>4

\* resolve_edit and end_edit.
LEMMA DecisionSteps ==
    ASSUME EditInv, KeepRemote \/ Overwrite \/ SaveCopy \/ EndEdit
    PROVE  EditInv'
<1>1. UNCHANGED <<events, nextKey>>
  BY DEF KeepRemote, Overwrite, SaveCopy, EndEdit
<1>2. AnswersKept
  BY <1>1, QueueUnchanged DEF AnswersKept
<1>3. ASSUME Resolving
      PROVE  /\ entry # None /\ entry.state # "Uploading"
             /\ {"key", "state"} \subseteq DOMAIN entry
             /\ {"key", "state"} \subseteq DOMAIN Kept(entry) /\ Kept(entry).key = entry.key
  BY <1>3 DEF Resolving, Kept, EditInv, KeysAreOld
<1>4. CASE KeepRemote \/ SaveCopy
  <2>1. Resolving /\ uploads' = uploads
    BY <1>4 DEF KeepRemote, SaveCopy, taskVars
  <2>2. {"key", "state"} \subseteq DOMAIN entry' /\ entry'.key = entry.key
    BY <1>3, <1>4, <2>1 DEF KeepRemote, SaveCopy
  <2> QED
    BY <1>1, <1>2, <1>3, <2>1, <2>2, EntryMoves
<1>5. CASE Overwrite
  <2>1. Resolving /\ Push(Kept(entry))
    BY <1>5 DEF Overwrite
  <2> QED
    BY <1>1, <1>2, <1>3, <2>1, Pushed
<1>6. CASE EndEdit
  <2>1. entry' = None /\ uploads' = uploads
    BY <1>6 DEF EndEdit, taskVars
  <2>2. EventList' /\ KeysAreOld'
    BY <1>1, <1>2, <2>1 DEF EditInv, AnswersKept, EventsOK, KeysAreOld, AnswerAt
  <2>3. OneAtATime'
    BY <1>1, <1>2, <2>1
    DEF EditInv, AnswersKept, EventsOK, OneAtATime, OneUploadPerEntry, IsFor
  <2> QED
    BY <2>2, <2>3 DEF EditInv
<1> QED
  BY <1>4, <1>5, <1>6

LEMMA EditStep == EditInv /\ [Next]_vars => EditInv'
BY QuietSteps, UploadSteps, AnswerSteps, TickSteps, OpenSteps, DecisionSteps
DEF Next, Handle, UserStep

-----------------------------------------------------------------------------
\* An entry with a write-back running, or its answer on the way, is being
\* uploaded; only watched or conflicting entries are pushed.
THEOREM EditInvariance == Spec => []EditInv
BY EditStep, InitEstablishesEdit, PTL DEF Spec

\* Two write-backs of one entry never run at a time, however saves, answers,
\* reopenings and lost connections interleave (changed_locally, push_edit).
THEOREM WriteBacksTakeTurns == Spec => []OneUploadPerEntry
<1>1. EditInv => OneUploadPerEntry
  BY DEF EditInv, OneAtATime
<1> QED
  BY <1>1, EditInvariance, PTL
=============================================================================
