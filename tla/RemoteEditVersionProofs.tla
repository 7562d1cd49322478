---------------------- MODULE RemoteEditVersionProofs ----------------------
(***************************************************************************)
(* Proofs about RemoteEdit, for every number of versions, keys, stamps and *)
(* events: its types, that a write-back destroys only versions the user    *)
(* has seen, that a conflict is about a version that is new to him, and    *)
(* when what is watched is sent.                                           *)
(***************************************************************************)
EXTENDS RemoteEditProofs, FiniteSetTheorems

\* TypeOK but for the length of the queue, and what it rests on: whoever needs
\* the temporary file has it, and a stamp that is transferred was given before.
EventTypes(e) == e \in Event /\ (e.kind = "done" => e.bytes \in 1 .. stamp)
EventsTyped == \A i \in DOMAIN events : EventTypes(events[i])
UploadTypes(u) ==
    /\ u \in Upload /\ u.bytes \in 1 .. stamp
    /\ u.phase = "check" => u.last \in Versions

Types ==
    /\ remote \in Versions
    /\ stamp \in Stamps /\ local \in (1 .. stamp) \union {None}
    /\ tabOpen \in BOOLEAN
    /\ reader \in [phase : {"idle", "reading", "read"}, version : Versions \union {None}]
    /\ reader.phase = "read" => reader.version \in Versions
    /\ entry \in Entry \union {None}
    /\ entry # None => local # None
    /\ nextKey \in 1 .. MaxKeys + 1
    /\ watcher \in [key : Keys, last : Stamps] \union {None}
    /\ \A u \in uploads : UploadTypes(u)
    /\ events \in Seq(Event)
    /\ EventsTyped
    /\ cut \subseteq Keys
    /\ sent \in (1 .. stamp) \union {None}

-----------------------------------------------------------------------------
(* Types.                                                                  *)

\* Stamps only grow, so what is in flight keeps its types.
LEMMA TaskTypesStay ==
    ASSUME Types, stamp' \in Stamps, stamp <= stamp'
    PROVE  /\ \A u : UploadTypes(u) => UploadTypes(u)'
           /\ \A e : EventTypes(e) => EventTypes(e)'
BY EditConstants DEF Types, UploadTypes, EventTypes, Stamps, Versions, Upload, Event, Keys

LEMMA TypedEventTaken ==
    ASSUME Types, NEW kind, Received(kind), stamp' \in Stamps, stamp <= stamp'
    PROVE  /\ events' \in Seq(Event) /\ EventsTyped'
           /\ EventTypes(Head(events)) /\ Head(events).kind = kind
<1>1. /\ events' = Tail(events) /\ events # <<>> /\ Head(events).kind = kind
      /\ events \in Seq(Event)
  BY DEF Received, Types
<1>2. /\ events' \in Seq(Event) /\ Head(events) = events[1] /\ 1 \in DOMAIN events
      /\ \A i \in DOMAIN events' : i + 1 \in DOMAIN events /\ events'[i] = events[i + 1]
  BY <1>1
<1>3. /\ \A i \in DOMAIN events : EventTypes(events[i])
      /\ \A e : EventTypes(e) => EventTypes(e)'
  BY TaskTypesStay DEF Types, EventsTyped
<1>4. EventsTyped'
  BY <1>2, <1>3 DEF EventsTyped
<1> QED
  BY <1>1, <1>2, <1>3, <1>4

LEMMA TypedEventPosted ==
    ASSUME Types, NEW e, EventTypes(e), Post(e), stamp' = stamp
    PROVE  events' \in Seq(Event) /\ EventsTyped'
<1>1. events \in Seq(Event) /\ e \in Event /\ events' = Append(events, e)
  BY DEF Types, Post, EventTypes
<1>2. /\ events' \in Seq(Event)
      /\ \A i \in DOMAIN events' : events'[i] = e \/ (i \in DOMAIN events /\ events'[i] = events[i])
  BY <1>1
<1>3. /\ \A i \in DOMAIN events : EventTypes(events[i])
      /\ stamp' \in Stamps /\ stamp <= stamp'
  BY EditConstants DEF Types, EventsTyped, Stamps
<1>4. \A d : EventTypes(d) => EventTypes(d)'
  BY <1>3, TaskTypesStay
<1>5. EventsTyped'
  BY <1>2, <1>3, <1>4 DEF EventsTyped
<1> QED
  BY <1>2, <1>5

LEMMA InitTypes == Init => Types
BY EditConstants DEF Init, Types, EventsTyped, Idle, Versions, Stamps, Keys

\* The reader, the watcher, the user and the others, where they handle no event.
LEMMA QuietTypes ==
    ASSUME Types,
           \/ ReaderStep \/ Poll \/ TheyWrite
           \/ StartEdit \/ UserSaves \/ CloseTab \/ Reconnect \/ EndEdit
           \/ UNCHANGED vars
    PROVE  Types'
<1> USE EditConstants DEF Versions, Stamps
<1>1. stamp' \in Stamps /\ stamp <= stamp' /\ uploads' \subseteq uploads
  BY DEF Types, ReaderStep, ReadAll, StatAfterRead, OpenFails, Poll, TheyWrite, StartEdit, UserSaves,
         CloseTab, Reconnect, EndEdit, vars, localVars, taskVars, AbortTasks
<1>2. \A u \in uploads' : UploadTypes(u)'
  BY <1>1, TaskTypesStay DEF Types, EventsTyped
<1>3. events' \in Seq(Event) /\ EventsTyped'
  <2>1. CASE StatAfterRead
    <3> DEFINE e == [kind |-> "opened", version |-> reader.version, snapshot |-> remote]
    <3>1. EventTypes(e) /\ Post(e) /\ stamp' = stamp
      BY <2>1 DEF StatAfterRead, Send, Types, EventTypes, Event, localVars
    <3> HIDE DEF e
    <3> QED
      BY <3>1, TypedEventPosted
  <2>2. CASE Poll
    <3> DEFINE e == [kind |-> "tick", key |-> watcher.key, stamp |-> local]
    <3>1. EventTypes(e) /\ Post(e) /\ stamp' = stamp
      BY <2>2 DEF Poll, Send, Types, EventTypes, Event, localVars
    <3> HIDE DEF e
    <3> QED
      BY <3>1, TypedEventPosted
  <2>3. CASE ~StatAfterRead /\ ~Poll
    <3>1. events' = events
      BY <2>3 DEF ReaderStep, ReadAll, OpenFails, TheyWrite, StartEdit, UserSaves, CloseTab,
                  Reconnect, EndEdit, vars
    <3> QED
      BY <1>1, <3>1, TaskTypesStay DEF Types, EventsTyped
  <2> QED
    BY <2>1, <2>2, <2>3
<1>4. /\ remote' \in Versions /\ tabOpen' \in BOOLEAN
      /\ local' \in (1 .. stamp') \union {None}
      /\ sent' \in (1 .. stamp') \union {None}
  <2>1. remote' \in Versions
    BY DEF Types, ReaderStep, ReadAll, StatAfterRead, OpenFails, Poll, TheyWrite, StartEdit,
           UserSaves, CloseTab, Reconnect, EndEdit, vars, Writes
  <2>2. tabOpen' \in BOOLEAN
    BY DEF Types, ReaderStep, ReadAll, StatAfterRead, OpenFails, Poll, TheyWrite, StartEdit,
           UserSaves, CloseTab, Reconnect, EndEdit, vars
  <2>3. CASE UserSaves \/ EndEdit
    BY <1>1, <2>1, <2>2, <2>3 DEF UserSaves, EndEdit, historyVars, Types
  <2>4. CASE ~(UserSaves \/ EndEdit)
    <3>1. UNCHANGED <<local, stamp, sent>>
      BY <2>4 DEF ReaderStep, ReadAll, StatAfterRead, OpenFails, Poll, TheyWrite, StartEdit,
                  CloseTab, Reconnect, vars, localVars, historyVars
    <3> QED
      BY <2>1, <2>2, <3>1 DEF Types
  <2> QED
    BY <2>3, <2>4
<1>5. /\ reader' \in [phase : {"idle", "reading", "read"}, version : Versions \union {None}]
      /\ reader'.phase = "read" => reader'.version \in Versions
  BY DEF Types, ReaderStep, ReadAll, StatAfterRead, OpenFails, Poll, TheyWrite, StartEdit, UserSaves,
         CloseTab, Reconnect, EndEdit, vars, taskVars, AbortTasks, Idle
<1>6. /\ entry' \in Entry \union {None} /\ (entry' # None => local' # None)
      /\ nextKey' \in 1 .. MaxKeys + 1
      /\ watcher' \in [key : Keys, last : Stamps] \union {None}
  BY DEF Types, ReaderStep, ReadAll, StatAfterRead, OpenFails, Poll, TheyWrite, StartEdit, UserSaves,
         CloseTab, Reconnect, EndEdit, vars, localVars, deskVars
<1>7. cut' \subseteq Keys
  BY DEF Types, ReaderStep, ReadAll, StatAfterRead, OpenFails, Poll, TheyWrite, StartEdit, UserSaves,
         CloseTab, Reconnect, EndEdit, vars, historyVars, AbortTasks, UploadTypes, Upload
<1> QED
  BY <1>1, <1>2, <1>3, <1>4, <1>5, <1>6, <1>7 DEF Types

\* A write-back replaces itself or answers, and writes the remote path.
LEMMA UploadTypesKept ==
    ASSUME Types, NEW u \in uploads, UploadStep(u)
    PROVE  Types'
<1> USE EditConstants DEF Versions, Stamps
<1>1. /\ UNCHANGED <<localVars, tabOpen, deskVars, reader, cut, sent>>
      /\ remote' \in Versions
  BY DEF Types, UploadStep, StatBeforeWrite, Truncate, WriteAll, StatAfterWrite, UploadBreaks,
         historyVars, Writes
<1>2. stamp' \in Stamps /\ stamp <= stamp' /\ stamp' = stamp
  BY <1>1 DEF localVars, Types
<1>3. u \in Upload /\ u.bytes \in 1 .. stamp /\ (u.phase = "check" => u.last \in Versions)
  BY DEF Types, UploadTypes
<1>4. \A w \in uploads' : UploadTypes(w)'
  <2>1. \A w \in uploads : UploadTypes(w)'
    BY <1>2, TaskTypesStay DEF Types, EventsTyped
  <2>2. ASSUME NEW v, UploadTypes(v), Becomes(u, v)
        PROVE  \A w \in uploads' : UploadTypes(w)'
    BY <1>2, <2>1, <2>2, TaskTypesStay DEF Becomes
  <2>3. CASE uploads' = uploads \ {u}
    BY <2>1, <2>3
  <2>4. ASSUME NEW x \in Versions, NEW p \in {"write", "writing", "check"}
        PROVE  UploadTypes([u EXCEPT !.phase = p, !.last = x])
    BY <1>3 DEF UploadTypes, Upload
  <2>5. \/ \E x \in Versions, p \in {"write", "writing", "check"} :
              Becomes(u, [u EXCEPT !.phase = p, !.last = x])
        \/ uploads' = uploads \ {u}
    BY <1>1 DEF Types, UploadStep, StatBeforeWrite, Truncate, WriteAll, StatAfterWrite, UploadBreaks
  <2> QED
    BY <2>2, <2>3, <2>4, <2>5
<1>5. events' \in Seq(Event) /\ EventsTyped'
  <2>1. ASSUME NEW e, EventTypes(e), Post(e)
        PROVE  events' \in Seq(Event) /\ EventsTyped'
    BY <1>2, <2>1, TypedEventPosted
  <2>2. CASE events' = events
    BY <1>2, <2>2, TaskTypesStay DEF Types, EventsTyped
  <2>3. EventTypes([kind |-> "conflict", key |-> u.key, remote |-> remote])
    BY <1>3 DEF EventTypes, Event, Types, Upload
  <2>4. u.phase = "check" =>
           EventTypes([kind |-> "done", key |-> u.key, bytes |-> u.bytes, own |-> u.last,
                       remote |-> remote])
    BY <1>3 DEF EventTypes, Event, Types, Upload
  <2>5. EventTypes([kind |-> "failed", key |-> u.key])
    BY <1>3 DEF EventTypes, Event, Upload
  <2>6. \/ events' = events
        \/ Post([kind |-> "conflict", key |-> u.key, remote |-> remote])
        \/ /\ u.phase = "check"
           /\ Post([kind |-> "done", key |-> u.key, bytes |-> u.bytes, own |-> u.last,
                    remote |-> remote])
        \/ Post([kind |-> "failed", key |-> u.key])
    BY DEF UploadStep, StatBeforeWrite, Truncate, WriteAll, StatAfterWrite, UploadBreaks
  <2> QED
    BY <2>1, <2>2, <2>3, <2>4, <2>5, <2>6
<1> QED
  BY <1>1, <1>4, <1>5 DEF Types, localVars, deskVars

\* push_edit of an entry with its types.
LEMMA PushTypes ==
    ASSUME Types, NEW e \in Entry, local # None, Push(e), stamp' = stamp
    PROVE  entry' \in Entry /\ \A u \in uploads' : UploadTypes(u)'
<1> USE EditConstants DEF Versions, Stamps
<1>1. entry' \in Entry
  BY DEF Push, Entry, States
<1> DEFINE w == [key |-> e.key, bytes |-> local, snapshot |-> e.snapshot,
                 last |-> None, phase |-> "stat"]
<1>2. UploadTypes(w)
  BY DEF Types, UploadTypes, Upload, Entry
<1>3. uploads' \subseteq uploads \union {w}
  BY DEF Push
<1> HIDE DEF w
<1>4. \A u \in uploads' : UploadTypes(u)
  BY <1>2, <1>3 DEF Types
<1>5. stamp' \in Stamps /\ stamp <= stamp'
  BY DEF Types
<1> QED
  BY <1>1, <1>4, <1>5, TaskTypesStay

\* The handlers of events and the answers of the user.
LEMMA HandlerTypes ==
    ASSUME Types, Handle \/ KeepRemote \/ Overwrite \/ SaveCopy
    PROVE  Types'
<1> USE EditConstants DEF Versions, Stamps
<1>1. stamp' \in Stamps /\ stamp <= stamp'
  BY DEF Types, Handle, FinishEditOpen, OnEditTick, OnEditDone, OnEditConflict, OnEditFailed,
         KeepRemote, Overwrite, SaveCopy, localVars
<1>2. ASSUME \/ OnEditTick \/ OnEditDone \/ OnEditConflict \/ OnEditFailed
             \/ \E launched \in BOOLEAN : FinishEditOpen(launched)
      PROVE  \E kind \in {"opened", "tick", "done", "conflict", "failed"} : Received(kind)
  BY <1>2 DEF FinishEditOpen, OnEditTick, OnEditDone, OnEditConflict, OnEditFailed
<1>3. events' \in Seq(Event) /\ EventsTyped'
  <2>1. CASE Handle
    BY <1>1, <1>2, <2>1, TypedEventTaken DEF Handle
  <2>2. CASE KeepRemote \/ Overwrite \/ SaveCopy
    <3>1. events' = events
      BY <2>2 DEF KeepRemote, Overwrite, SaveCopy
    <3> QED
      BY <1>1, <3>1, TaskTypesStay DEF Types, EventsTyped
  <2> QED
    BY <2>1, <2>2
<1>4. UNCHANGED <<remote, tabOpen, reader, cut>>
  BY DEF Handle, FinishEditOpen, OnEditTick, OnEditDone, OnEditConflict, OnEditFailed,
         KeepRemote, Overwrite, SaveCopy, taskVars, historyVars
<1>5. ASSUME NEW kind, Received(kind)
      PROVE  Head(events) \in Event /\ Head(events).kind = kind /\ EventTypes(Head(events))
  BY <1>1, <1>5, TypedEventTaken DEF EventTypes
<1>6. CASE \E launched \in BOOLEAN : FinishEditOpen(launched)
  <2>1. Head(events).version \in Versions /\ Head(events).snapshot \in Versions
    BY <1>5, <1>6 DEF FinishEditOpen, Event
  <2>2. \A u \in uploads' : UploadTypes(u)'
    BY <1>1, <1>6, TaskTypesStay DEF FinishEditOpen, taskVars, Types
  <2>3. local' \in (1 .. stamp') \union {None} /\ sent' \in (1 .. stamp') \union {None}
    BY <1>6 DEF FinishEditOpen, Types, localVars
  <2>4. /\ entry' \in Entry \union {None} /\ (entry' # None => local' # None)
        /\ nextKey' \in 1 .. MaxKeys + 1
        /\ watcher' \in [key : Keys, last : Stamps] \union {None}
    <3>1. CASE UNCHANGED deskVars
      BY <1>6, <3>1 DEF FinishEditOpen, Types, localVars, deskVars
    <3>2. CASE ~UNCHANGED deskVars
      <4>1. /\ stamp' = stamp + 1 /\ local' = stamp + 1 /\ nextKey \in Keys
            /\ watcher' = [last |-> 0, key |-> IF entry = None THEN nextKey ELSE entry.key]
            /\ \/ entry # None /\ UNCHANGED <<entry, nextKey>>
               \/ /\ entry = None /\ nextKey' = nextKey + 1
                  /\ entry' = [key |-> nextKey, state |-> "Watching",
                               snapshot |-> Head(events).snapshot, seen |-> 0,
                               conflict |-> None]
        BY <1>6, <3>2 DEF FinishEditOpen, Types, Keys
      <4>2. local' # None /\ nextKey' \in 1 .. MaxKeys + 1
        BY <4>1 DEF Types, Keys
      <4>3. entry # None => entry.key \in Keys
        BY DEF Types, Entry
      <4>4. watcher' \in [key : Keys, last : Stamps]
        BY <4>1, <4>3
      <4>5. entry' \in Entry
        BY <2>1, <4>1 DEF Entry, States, Types
      <4> QED
        BY <4>2, <4>4, <4>5
    <3> QED
      BY <3>1, <3>2
  <2> QED
    BY <1>1, <1>3, <1>4, <2>2, <2>3, <2>4 DEF Types
<1>7. CASE \/ OnEditTick \/ OnEditDone \/ OnEditConflict \/ OnEditFailed
           \/ KeepRemote \/ Overwrite \/ SaveCopy
  <2>1. UNCHANGED <<localVars, nextKey, watcher>> /\ stamp' = stamp
    BY <1>7 DEF OnEditTick, OnEditDone, OnEditConflict, OnEditFailed,
                KeepRemote, Overwrite, SaveCopy, localVars
  <2>2. entry # None => local # None
    BY DEF Types
  <2>3. /\ entry' \in Entry \union {None} /\ (entry' # None => entry # None)
        /\ \A u \in uploads' : UploadTypes(u)'
    <3>1. ASSUME NEW e \in Entry, entry # None, Push(e)
          PROVE  entry' \in Entry /\ entry # None /\ \A u \in uploads' : UploadTypes(u)'
      BY <2>1, <2>2, <3>1, PushTypes
    <3>2. ASSUME uploads' = uploads
          PROVE  \A u \in uploads' : UploadTypes(u)'
      BY <1>1, <3>2, TaskTypesStay DEF Types, EventsTyped
    <3>3. CASE OnEditTick
      <4> DEFINE t == Head(events)
                 e == [entry EXCEPT !.seen = t.stamp]
      <4>1. t.stamp \in Stamps
        BY <1>5, <3>3 DEF OnEditTick, Event
      <4>2. IsFor(t.key) => e \in Entry /\ entry # None
        BY <4>1 DEF IsFor, Types, Entry
      <4>3. \/ UNCHANGED <<entry, uploads>>
            \/ IsFor(t.key) /\ entry' = e /\ uploads' = uploads
            \/ IsFor(t.key) /\ Push(e)
        BY <3>3 DEF OnEditTick
      <4> HIDE DEF e, t
      <4> QED
        BY <3>1, <3>2, <4>2, <4>3 DEF Types
    <3>4. CASE OnEditDone
      <4>1. Head(events).remote \in Versions
        BY <1>5, <3>4 DEF OnEditDone, Event
      <4>2. uploads' = uploads
        BY <3>4 DEF OnEditDone, taskVars
      <4>3. entry # None => local \in Stamps /\ entry \in Entry
        BY DEF Types
      <4>4. \/ entry' = entry
            \/ /\ entry # None
               /\ entry' = [entry EXCEPT !.state = "Watching", !.snapshot = Head(events).remote,
                                        !.seen = local, !.conflict = None]
        BY <3>4 DEF OnEditDone, IsFor
      <4>5. entry' \in Entry \union {None} /\ (entry' # None => entry # None)
        BY <4>1, <4>3, <4>4 DEF Entry, States, Types
      <4> QED
        BY <3>2, <4>2, <4>5
    <3>5. CASE OnEditConflict \/ OnEditFailed
      <4>1. OnEditConflict => Head(events).remote \in Versions
        BY <1>5 DEF OnEditConflict, Event
      <4>2. uploads' = uploads
        BY <3>5 DEF OnEditConflict, OnEditFailed, taskVars
      <4> QED
        BY <3>2, <3>5, <4>1, <4>2
        DEF OnEditConflict, OnEditFailed, UploadFailed, IsFor, Types, Entry, States
    <3>6. CASE KeepRemote \/ Overwrite \/ SaveCopy
      <4>1. entry # None /\ Kept(entry) \in Entry /\ entry \in Entry
        BY <3>6 DEF KeepRemote, Overwrite, SaveCopy, Resolving, Kept, Types, Entry, States
      <4>2. CASE Overwrite
        BY <3>1, <4>1, <4>2 DEF Overwrite
      <4>3. CASE KeepRemote \/ SaveCopy
        <5>1. uploads' = uploads
          BY <4>3 DEF KeepRemote, SaveCopy, taskVars
        <5>2. entry' = Kept(entry) \/ entry' = [entry EXCEPT !.state = "Failed"]
          BY <4>3 DEF KeepRemote, SaveCopy
        <5>3. [entry EXCEPT !.state = "Failed"] \in Entry
          BY <4>1 DEF Entry, States
        <5> QED
          BY <3>2, <4>1, <5>1, <5>2, <5>3
      <4> QED
        BY <3>6, <4>2, <4>3
    <3> QED
      BY <1>7, <3>3, <3>4, <3>5, <3>6
  <2>4. sent' \in (1 .. stamp) \union {None}
    <3>1. CASE OnEditDone
      BY <1>5, <3>1 DEF OnEditDone, EventTypes, Types
    <3>2. CASE ~OnEditDone
      BY <1>7, <3>2 DEF OnEditTick, OnEditConflict, OnEditFailed, KeepRemote, Overwrite, SaveCopy,
                        historyVars, Types
    <3> QED
      BY <3>1, <3>2
  <2> QED
    BY <1>1, <1>3, <1>4, <2>1, <2>2, <2>3, <2>4 DEF Types, localVars
<1> QED
  BY <1>6, <1>7 DEF Handle

\* Everything has its type, and an entry its temporary file.
LEMMA TypesKept == Types /\ [Next]_vars => Types'
BY QuietTypes, UploadTypesKept, HandlerTypes DEF Next, UserStep

-----------------------------------------------------------------------------
(* The length of the queue.  Readers and watchers post only while fewer    *)
(* than MaxEvents events wait, and an entry has one answer at most.        *)

Questions == {i \in DOMAIN events : ~AnswerAt(i)}
Answers == {i \in DOMAIN events : AnswerAt(i)}
QuestionsBounded == Cardinality(Questions) <= MaxEvents

LEMMA QueueFinite ==
    ASSUME Types
    PROVE  /\ Len(events) \in Nat /\ DOMAIN events = 1 .. Len(events)
           /\ IsFiniteSet(DOMAIN events) /\ Cardinality(DOMAIN events) = Len(events)
           /\ IsFiniteSet(Questions) /\ Cardinality(Questions) \in Nat
           /\ IsFiniteSet(Answers) /\ Cardinality(Answers) \in Nat
<1>1. Len(events) \in Nat /\ DOMAIN events = 1 .. Len(events)
  BY DEF Types
<1>2. IsFiniteSet(1 .. Len(events)) /\ Cardinality(1 .. Len(events)) = Len(events)
  <2>1. \A n \in Nat : IsFiniteSet(1 .. n) /\ Cardinality(1 .. n) = n
    BY FS_Interval
  <2> QED
    BY <1>1, <2>1
<1>3. IsFiniteSet(Questions) /\ IsFiniteSet(Answers)
  BY <1>1, <1>2, FS_Subset DEF Questions, Answers
<1> QED
  BY <1>1, <1>2, <1>3, FS_CardinalityType

\* An entry's answers are as many as its keys, so the queue is bounded.
LEMMA QueueBounded ==
    ASSUME Types, EditInv, QuestionsBounded
    PROVE  Len(events) <= MaxEvents + MaxKeys
<1> USE EditConstants
<1>1. \A i \in Answers : events[i].key \in Keys
  BY DEF Answers, AnswerAt, AnswerKinds, Types, EventsTyped, EventTypes, Event
<1>2. \A i, j \in Answers : events[i].key = events[j].key => i = j
  BY DEF Answers, EditInv, OneAtATime
<1> DEFINE f == [i \in Answers |-> events[i].key]
<1>3. f \in Injection(Answers, Keys)
  BY <1>1, <1>2 DEF Injection, IsInjective
<1>4. IsFiniteSet(Keys) /\ Cardinality(Keys) = MaxKeys
  BY FS_Interval DEF Keys
<1> HIDE DEF f
<1>5. Cardinality(Answers) <= MaxKeys
  BY <1>3, <1>4, FS_Injection
<1>6. DOMAIN events = Questions \union Answers /\ Questions \cap Answers = {}
  BY DEF Questions, Answers
<1>7. Cardinality(Questions \union Answers)
         = Cardinality(Questions) + Cardinality(Answers) - Cardinality({})
  BY <1>6, QueueFinite, FS_Union
<1>8. Cardinality({}) = 0
  BY FS_EmptySet
<1> QED
  BY <1>5, <1>6, <1>7, <1>8, QueueFinite DEF QuestionsBounded

LEMMA TakingKeepsBound ==
    ASSUME Types, Types', QuestionsBounded, NEW kind, Received(kind)
    PROVE  QuestionsBounded'
<1>1. \A i \in DOMAIN events' :
         /\ i \in Nat /\ i + 1 \in DOMAIN events /\ events'[i] = events[i + 1]
  BY DEF Received, Types
<1> DEFINE f == [i \in Questions' |-> i + 1]
<1>2. f \in Injection(Questions', Questions)
  BY <1>1 DEF Questions, AnswerAt, Injection, IsInjective
<1> HIDE DEF f
<1>3. Cardinality(Questions') <= Cardinality(Questions)
  BY <1>2, QueueFinite, FS_Injection
<1>4. Cardinality(Questions') \in Nat /\ Cardinality(Questions) \in Nat
  BY QueueFinite, <1>2, FS_Injection, FS_CardinalityType
<1> QED
  BY <1>3, <1>4, EditConstants DEF QuestionsBounded

LEMMA PostingKeepsBound ==
    ASSUME Types, Types', QuestionsBounded, NEW e, Post(e),
           e.kind \in AnswerKinds \/ Len(events) < MaxEvents
    PROVE  QuestionsBounded'
<1>1. /\ Len(events) \in Nat /\ DOMAIN events = 1 .. Len(events)
      /\ DOMAIN events' = 1 .. Len(events) + 1
      /\ events'[Len(events) + 1] = e
      /\ \A i \in DOMAIN events : events'[i] = events[i]
  BY EventPosted DEF EventList, Types
<1>2. CASE e.kind \in AnswerKinds
  <2>1. Questions' = Questions
    BY <1>1, <1>2 DEF Questions, AnswerAt
  <2> QED
    BY <2>1 DEF QuestionsBounded
<1>3. CASE Len(events) < MaxEvents
  <2>1. Questions' \in SUBSET (1 .. Len(events) + 1)
    BY <1>1 DEF Questions
  <2>2. /\ IsFiniteSet(1 .. Len(events) + 1)
        /\ Cardinality(1 .. Len(events) + 1) = Len(events) + 1
    BY <1>1, FS_Interval
  <2>3. IsFiniteSet(Questions') /\ Cardinality(Questions') <= Len(events) + 1
    BY <2>1, <2>2, FS_Subset
  <2>4. Cardinality(Questions') \in Nat
    BY <2>3, FS_CardinalityType
  <2> QED
    BY <1>1, <1>3, <2>3, <2>4, EditConstants DEF QuestionsBounded
<1> QED
  BY <1>2, <1>3

\* What a step does to the queue.
LEMMA QueueSteps ==
    ASSUME [Next]_vars
    PROVE  \/ events' = events
           \/ \E kind : Received(kind)
           \/ \E e : Send(e)
           \/ \E e : e.kind \in AnswerKinds /\ Post(e)
<1>1. CASE ReaderStep \/ Poll
  <2>1. CASE StatAfterRead
    BY <2>1 DEF StatAfterRead
  <2>2. CASE Poll
    BY <2>2 DEF Poll
  <2>3. CASE ReadAll \/ OpenFails
    BY <2>3 DEF ReadAll, OpenFails
  <2> QED
    BY <1>1, <2>1, <2>2, <2>3 DEF ReaderStep
<1>2. ASSUME NEW u \in uploads, UploadStep(u)
      PROVE  events' = events \/ \E e : e.kind \in AnswerKinds /\ Post(e)
  <2>1. CASE StatBeforeWrite(u)
    <3> DEFINE e == [kind |-> "conflict", key |-> u.key, remote |-> remote]
    <3>1. e.kind \in AnswerKinds
      BY DEF AnswerKinds
    <3>2. events' = events \/ Post(e)
      BY <2>1 DEF StatBeforeWrite
    <3> HIDE DEF e
    <3> QED
      BY <3>1, <3>2
  <2>2. CASE Truncate(u) \/ WriteAll(u)
    BY <2>2 DEF Truncate, WriteAll
  <2>3. CASE StatAfterWrite(u)
    <3> DEFINE e == [kind |-> "done", key |-> u.key, bytes |-> u.bytes, own |-> u.last,
                     remote |-> remote]
    <3>1. e.kind \in AnswerKinds
      BY DEF AnswerKinds
    <3>2. Post(e)
      BY <2>3 DEF StatAfterWrite
    <3> HIDE DEF e
    <3> QED
      BY <3>1, <3>2
  <2>4. CASE UploadBreaks(u)
    <3> DEFINE e == [kind |-> "failed", key |-> u.key]
    <3>1. e.kind \in AnswerKinds
      BY DEF AnswerKinds
    <3>2. Post(e)
      BY <2>4 DEF UploadBreaks
    <3> HIDE DEF e
    <3> QED
      BY <3>1, <3>2
  <2> QED
    BY <1>2, <2>1, <2>2, <2>3, <2>4 DEF UploadStep
<1>3. CASE Handle
  BY <1>3 DEF Handle, FinishEditOpen, OnEditTick, OnEditDone, OnEditConflict, OnEditFailed
<1>4. CASE UserStep \/ TheyWrite \/ UNCHANGED vars
  BY <1>4 DEF UserStep, StartEdit, UserSaves, KeepRemote, Overwrite, SaveCopy, EndEdit, CloseTab,
              Reconnect, TheyWrite, vars
<1> QED
  BY <1>1, <1>2, <1>3, <1>4 DEF Next

LEMMA BoundKept ==
    ASSUME Types, Types', QuestionsBounded, [Next]_vars
    PROVE  QuestionsBounded'
<1>1. CASE events' = events
  BY <1>1 DEF QuestionsBounded, Questions, AnswerAt
<1>2. CASE \E e : Send(e)
  BY <1>2, PostingKeepsBound DEF Send
<1> QED
  BY <1>1, <1>2, QueueSteps, TakingKeepsBound, PostingKeepsBound

-----------------------------------------------------------------------------
(* Versions.                                                               *)

\* If others have written c, the user has seen it.
Seen(c) == c \in theirs => c \in known

HistoryRight == theirs \subseteq 1 .. remote /\ known \subseteq 0 .. remote /\ settled \subseteq known

\* Until the reader has looked for the stamp, nobody's write counts.
ReaderRight ==
    reader.phase = "read" =>
        reader.version <= remote /\ (remote \in theirs => remote = reader.version)

\* The snapshot is no older than what is settled, and a conflict newer.
EntryRight ==
    entry # None =>
        /\ entry.snapshot <= remote /\ Seen(entry.snapshot)
        /\ \A c \in settled : c <= entry.snapshot
        /\ entry.state = "Conflict" =>
              /\ entry.conflict \in Versions
              /\ entry.snapshot < entry.conflict /\ entry.conflict <= remote

\* A write-back has the snapshot of its entry; it writes if that is what it found.
UploadRight(u) ==
    /\ u.snapshot <= remote /\ Seen(u.snapshot)
    /\ IsFor(u.key) => entry.snapshot = u.snapshot
    /\ u.phase = "write" => u.last = u.snapshot
    /\ u.phase = "check" => u.last <= remote /\ remote \notin theirs

EventRight(e) ==
    /\ e.kind = "opened" =>
          /\ e.version <= e.snapshot /\ e.snapshot <= remote
          /\ e.snapshot \in theirs => e.snapshot = e.version
    /\ e.kind = "done" =>
          /\ e.own <= e.remote /\ e.remote <= remote /\ e.remote \notin theirs
          /\ IsFor(e.key) => entry.snapshot <= e.remote
    /\ e.kind = "conflict" =>
          /\ e.remote <= remote
          /\ IsFor(e.key) => entry.snapshot < e.remote

VersionInv ==
    /\ HistoryRight /\ ReaderRight /\ EntryRight
    /\ \A u \in uploads : UploadRight(u)
    /\ \A i \in DOMAIN events : EventRight(events[i])

\* Versions are only added, and only known ones become known.
Grows ==
    /\ remote <= remote' /\ known \subseteq known'
    /\ \A c \in Versions : c <= remote /\ c \in theirs' => c \in theirs

\* The entry for key k, if there is one, was there and keeps its snapshot.
Stable(k) == IsFor(k)' => IsFor(k) /\ entry'.snapshot = entry.snapshot

LEMMA UploadStays ==
    ASSUME Types, Types', Grows, NEW u \in Upload, UploadRight(u), Stable(u.key),
           u.phase = "check" => u.last \in Versions /\ remote' \notin theirs'
    PROVE  UploadRight(u)'
<1>1. u.snapshot \in Versions /\ remote \in Versions /\ remote' \in Versions
  BY DEF Types, Upload
<1>2. \A c \in Versions : c <= remote => c <= remote'
  BY <1>1, EditConstants DEF Grows, Versions
<1>3. Seen(u.snapshot)'
  BY <1>1 DEF Seen, UploadRight, Grows
<1> QED
  BY <1>1, <1>2, <1>3 DEF UploadRight, Stable

LEMMA EventStays ==
    ASSUME Types, Types', Grows, NEW e \in Event, EventRight(e),
           e.kind \in AnswerKinds => Stable(e.key)
    PROVE  EventRight(e)'
<1>1. remote \in Versions /\ remote' \in Versions
  BY DEF Types
<1>2. \A c \in Versions : c <= remote => c <= remote' /\ (c \in theirs' => c \in theirs)
  BY <1>1, EditConstants DEF Grows, Versions
<1>3. CASE e.kind = "opened"
  <2>1. e.snapshot \in Versions /\ e.version \in Versions
    BY <1>3 DEF Event
  <2> QED
    BY <1>2, <1>3, <2>1 DEF EventRight
<1>4. CASE e.kind = "done"
  <2>1. e.remote \in Versions
    BY <1>4 DEF Event
  <2> QED
    BY <1>2, <1>4, <2>1 DEF EventRight, AnswerKinds, Stable
<1>5. CASE e.kind = "conflict"
  <2>1. e.remote \in Versions
    BY <1>5 DEF Event
  <2> QED
    BY <1>2, <1>5, <2>1 DEF EventRight, AnswerKinds, Stable
<1>6. CASE e.kind \notin {"opened", "done", "conflict"}
  BY <1>6 DEF EventRight
<1> QED
  BY <1>3, <1>4, <1>5, <1>6

\* What a step must see to: the reader, the entry, and what is new in flight.
OldEvent(e) == \E j \in DOMAIN events : events[j] = e

LEMMA VersionStep ==
    ASSUME Types, Types', VersionInv, Grows, HistoryRight', ReaderRight', EntryRight',
           \A u \in uploads : u.phase = "check" => remote' \notin theirs',
           \A u \in uploads' : (u \in uploads /\ Stable(u.key)) \/ UploadRight(u)',
           \A i \in DOMAIN events' : \A e : e = events'[i] =>
              \/ OldEvent(e) /\ (e.kind \in AnswerKinds => Stable(e.key))
              \/ EventRight(e)'
    PROVE  VersionInv'
<1>1. ASSUME NEW u \in uploads'
      PROVE  UploadRight(u)'
  <2>1. u \in Upload /\ (u.phase = "check" => u.last \in Versions)
    BY DEF Types, UploadTypes
  <2>2. CASE u \in uploads /\ Stable(u.key)
    BY <2>1, <2>2, UploadStays DEF VersionInv
  <2> QED
    BY <2>2
<1>2. ASSUME NEW i \in DOMAIN events', NEW e, e = events'[i]
      PROVE  EventRight(e)'
  <2>1. CASE OldEvent(e) /\ (e.kind \in AnswerKinds => Stable(e.key))
    <3>1. e \in Event /\ EventRight(e)
      BY <2>1 DEF OldEvent, VersionInv, Types
    <3> QED
      BY <2>1, <3>1, EventStays
  <2> QED
    BY <1>2, <2>1
<1>3. \A i \in DOMAIN events' : EventRight(events[i])'
  BY <1>2
<1> QED
  BY <1>1, <1>3 DEF VersionInv

-----------------------------------------------------------------------------
(* The actions.                                                            *)

LEMMA InitVersions == Init => VersionInv
BY DEF Init, VersionInv, HistoryRight, ReaderRight, EntryRight, Idle

\* An entry at rest has no write-back and no answer on its way.
LEMMA RestingIsAlone ==
    ASSUME EditInv, entry # None, entry.state # "Uploading"
    PROVE  /\ \A u \in uploads : u.key # entry.key
           /\ \A e : OldEvent(e) /\ e.kind \in AnswerKinds => e.key # entry.key
BY DEF EditInv, OneAtATime, IsFor, OldEvent, Answered, AnswerAt

LEMMA TakenWereOld ==
    ASSUME Types, NEW kind, Received(kind)
    PROVE  /\ \A i \in DOMAIN events' : OldEvent(events'[i])
           /\ OldEvent(Head(events)) /\ Head(events).kind = kind
<1>1. events' = Tail(events) /\ events # <<>> /\ events \in Seq(Event)
  BY DEF Types, Received
<1>2. /\ \A i \in DOMAIN events' : i + 1 \in DOMAIN events /\ events'[i] = events[i + 1]
      /\ 1 \in DOMAIN events /\ Head(events) = events[1]
  BY <1>1
<1> QED
  BY <1>2 DEF OldEvent, Received

LEMMA PostedIsNew ==
    ASSUME Types, NEW e, Post(e)
    PROVE  \A i \in DOMAIN events' : OldEvent(events'[i]) \/ events'[i] = e
BY DEF Types, Post, OldEvent

\* Steps that touch neither the history nor the remote file nor a snapshot.
LEMMA QuietVersions ==
    ASSUME Types, Types', VersionInv,
           UNCHANGED <<remote, theirs, known>>,
           entry' = None \/ (entry # None /\ entry'.key = entry.key
                               /\ entry'.snapshot = entry.snapshot),
           EntryRight', ReaderRight', settled' \subseteq settled,
           \A u \in uploads' : u \in uploads \/ UploadRight(u)',
           \A i \in DOMAIN events' : \A e : e = events'[i] => OldEvent(e) \/ EventRight(e)'
    PROVE  VersionInv'
<1>1. \A k : Stable(k)
  BY DEF Stable, IsFor
<1>2. Grows /\ HistoryRight'
  BY EditConstants DEF Grows, Types, Versions, VersionInv, HistoryRight
<1>3. \A u \in uploads : u.phase = "check" => remote' \notin theirs'
  BY DEF VersionInv, UploadRight
<1> QED
  BY <1>1, <1>2, <1>3, VersionStep

\* The reader and the watcher, and the user where he decides nothing.
LEMMA WatchingVersions ==
    ASSUME Types, Types', VersionInv,
           \/ ReaderStep \/ Poll
           \/ StartEdit \/ UserSaves \/ CloseTab \/ Reconnect \/ EndEdit
           \/ UNCHANGED vars
    PROVE  VersionInv'
<1>1. /\ UNCHANGED <<remote, theirs, known>> /\ settled' \subseteq settled
      /\ uploads' \subseteq uploads
      /\ entry' = None \/ (entry' = entry /\ settled' = settled)
  BY DEF ReaderStep, ReadAll, StatAfterRead, OpenFails, Poll, StartEdit, UserSaves, CloseTab,
         Reconnect, EndEdit, vars, deskVars, taskVars, historyVars, AbortTasks
<1>2. EntryRight'
  <2>1. CASE entry' = None
    BY <2>1 DEF EntryRight
  <2>2. CASE entry' = entry /\ settled' = settled
    BY <1>1, <2>2 DEF VersionInv, EntryRight, Seen
  <2> QED
    BY <1>1, <2>1, <2>2
<1>3. ReaderRight'
  <2>1. CASE ReadAll
    BY <2>1, EditConstants DEF ReadAll, ReaderRight, Types, Versions
  <2>2. CASE ~ReadAll
    <3>1. reader' = reader \/ reader'.phase # "read"
      BY <2>2 DEF ReaderStep, StatAfterRead, OpenFails, Poll, StartEdit, UserSaves, CloseTab,
                  Reconnect, EndEdit, vars, taskVars, AbortTasks, Idle
    <3> QED
      BY <1>1, <3>1 DEF VersionInv, ReaderRight
  <2> QED
    BY <2>1, <2>2
<1>4. \A i \in DOMAIN events' : \A e : e = events'[i] => OldEvent(e) \/ EventRight(e)'
  <2>1. CASE StatAfterRead
    <3>1. PICK e : /\ e = [kind |-> "opened", version |-> reader.version, snapshot |-> remote]
                   /\ Post(e)
      BY <2>1 DEF StatAfterRead, Send
    <3>2. EventRight(e)'
      BY <1>1, <2>1, <3>1, EditConstants
      DEF StatAfterRead, EventRight, VersionInv, ReaderRight, Types, Versions
    <3> QED
      BY <3>1, <3>2, PostedIsNew
  <2>2. CASE Poll
    <3>1. PICK e : e = [kind |-> "tick", key |-> watcher.key, stamp |-> local] /\ Post(e)
      BY <2>2 DEF Poll, Send
    <3>2. EventRight(e)'
      BY <3>1 DEF EventRight
    <3> QED
      BY <3>1, <3>2, PostedIsNew
  <2>3. CASE ~StatAfterRead /\ ~Poll
    <3>1. events' = events
      BY <2>3 DEF ReaderStep, ReadAll, OpenFails, StartEdit, UserSaves, CloseTab, Reconnect, EndEdit, vars
    <3> QED
      BY <3>1 DEF OldEvent
  <2> QED
    BY <2>1, <2>2, <2>3
<1> QED
  BY <1>1, <1>2, <1>3, <1>4, QuietVersions

\* Somebody writes the remote path.
LEMMA WritesGrow ==
    ASSUME Types, VersionInv, Writes, theirs' \subseteq theirs \union {remote'}, UNCHANGED <<known, settled>>
    PROVE  /\ Grows /\ HistoryRight'
           /\ remote' \notin theirs /\ remote' = remote + 1 /\ remote' \in Versions
           /\ \A c \in Versions : c <= remote => c <= remote' /\ (Seen(c) => Seen(c)')
<1>1. remote' = remote + 1 /\ remote \in Nat /\ remote' \in Versions
  BY EditConstants DEF Types, Versions, Writes
<1>2. theirs \subseteq 1 .. remote /\ known \subseteq 0 .. remote /\ settled \subseteq known
  BY DEF VersionInv, HistoryRight
<1>3. remote' \notin theirs
  BY <1>1, <1>2
<1>4. \A c \in Versions : c <= remote => c # remote'
  BY <1>1, EditConstants DEF Versions
<1>5. Grows
  BY <1>1, <1>4 DEF Grows
<1>6. HistoryRight'
  BY <1>1, <1>2 DEF HistoryRight
<1>7. \A c \in Versions : c <= remote => c <= remote' /\ (Seen(c) => Seen(c)')
  BY <1>1, <1>4, EditConstants DEF Seen, Versions
<1> QED
  BY <1>1, <1>3, <1>5, <1>6, <1>7

\* The entry has nothing to fear from a new version.
LEMMA EntryStaysRight ==
    ASSUME Types, Types', VersionInv, Grows, UNCHANGED <<entry, settled, known>>
    PROVE  EntryRight'
<1>1. remote \in Versions /\ remote' \in Versions /\ remote <= remote'
  BY DEF Types, Grows
<1>2. entry # None => entry.snapshot \in Versions
  BY DEF Types, Entry
<1> QED
  BY <1>1, <1>2, EditConstants DEF VersionInv, EntryRight, Grows, Seen, Versions

LEMMA ForeignWrites ==
    ASSUME Types, Types', VersionInv, TheyWrite
    PROVE  VersionInv'
<1>1. /\ Writes /\ theirs' \subseteq theirs \union {remote'}
      /\ UNCHANGED <<known, settled, entry, reader, uploads, events>>
  BY DEF TheyWrite, deskVars, taskVars
<1>2. Grows /\ HistoryRight' /\ remote' \notin theirs /\ remote' = remote + 1
  BY <1>1, WritesGrow
<1>3. StatOutstanding => remote' \notin theirs'
  BY <1>2 DEF TheyWrite
<1>4. ReaderRight'
  <2>1. reader.phase = "read" => remote' \notin theirs'
    BY <1>3 DEF StatOutstanding
  <2>2. reader.phase = "read" => reader.version \in Versions /\ reader.version <= remote
    BY DEF VersionInv, ReaderRight, Types
  <2> QED
    BY <1>1, <1>2, <2>1, <2>2, EditConstants DEF ReaderRight, Types, Versions
<1>5. \A u \in uploads : u.phase = "check" => remote' \notin theirs'
  BY <1>3 DEF StatOutstanding
<1>6. EntryRight'
  BY <1>1, <1>2, EntryStaysRight
<1>7. \A k : Stable(k)
  BY <1>1 DEF Stable, IsFor
<1>8. \A i \in DOMAIN events' : OldEvent(events'[i])
  BY <1>1 DEF OldEvent
<1> QED
  BY <1>1, <1>2, <1>4, <1>5, <1>6, <1>7, <1>8, VersionStep

\* A write-back writes the remote path: a version nobody else has made.
LEMMA OwnWrites ==
    ASSUME Types, Types', VersionInv, NEW u \in uploads, Truncate(u) \/ WriteAll(u)
    PROVE  VersionInv'
<1>1. /\ Writes /\ UNCHANGED <<theirs, known, settled, entry, reader, events>>
      /\ \E p \in {"writing", "check"} : Becomes(u, [u EXCEPT !.phase = p, !.last = remote'])
  BY DEF Truncate, WriteAll, deskVars, historyVars
<1>2. /\ Grows /\ HistoryRight' /\ remote' \notin theirs'
      /\ remote' = remote + 1 /\ remote' \in Versions
      /\ \A c \in Versions : c <= remote => c <= remote' /\ (Seen(c) => Seen(c)')
  BY <1>1, WritesGrow
<1>3. ReaderRight'
  <2>1. reader.phase = "read" => reader.version \in Versions /\ reader.version <= remote
    BY DEF VersionInv, ReaderRight, Types
  <2> QED
    BY <1>1, <1>2, <2>1 DEF ReaderRight
<1>4. EntryRight'
  BY <1>1, <1>2, EntryStaysRight
<1>5. \A k : Stable(k)
  BY <1>1 DEF Stable, IsFor
<1>6. \A i \in DOMAIN events' : OldEvent(events'[i])
  BY <1>1 DEF OldEvent
<1>7. u \in Upload /\ UploadRight(u)
  BY DEF Types, UploadTypes, VersionInv
<1>a. PICK p \in {"writing", "check"} :
         Becomes(u, [u EXCEPT !.phase = p, !.last = remote'])
  BY <1>1
<1>8. PICK v : v = [u EXCEPT !.phase = p, !.last = remote'] /\ Becomes(u, v)
  BY <1>a
<1>9. UploadRight(v)'
  <2>1. v.key = u.key /\ v.snapshot = u.snapshot /\ v.phase = p /\ v.last = remote'
    BY <1>7, <1>8, <1>a DEF Upload
  <2>2. u.snapshot \in Versions /\ u.snapshot <= remote /\ Seen(u.snapshot)
    BY <1>7 DEF Upload, UploadRight
  <2>3. v.snapshot <= remote' /\ Seen(v.snapshot)'
    BY <1>2, <2>1, <2>2
  <2>4. IsFor(v.key)' => entry'.snapshot = v.snapshot
    BY <1>1, <1>7, <2>1 DEF IsFor, UploadRight
  <2>5. v.phase # "write" /\ v.last <= remote'
    BY <1>a, <1>2, <2>1, EditConstants DEF Versions
  <2> QED
    BY <1>2, <2>3, <2>4, <2>5 DEF UploadRight
<1>10. \A w \in uploads' : w \in uploads \/ w = v
  BY <1>8 DEF Becomes
<1> QED
  BY <1>1, <1>2, <1>3, <1>4, <1>5, <1>6, <1>9, <1>10, VersionStep

\* A write-back looks before it writes, looks again afterwards, or fails.
LEMMA LookingVersions ==
    ASSUME Types, Types', VersionInv, NEW u \in uploads,
           StatBeforeWrite(u) \/ StatAfterWrite(u) \/ UploadBreaks(u)
    PROVE  VersionInv'
<1>1. UNCHANGED <<remote, theirs, known, settled, entry, reader>>
  BY DEF StatBeforeWrite, StatAfterWrite, UploadBreaks, deskVars, historyVars
<1>2. u \in Upload /\ UploadRight(u) /\ remote \in Versions /\ (u.phase = "check" => u.last \in Versions)
  BY DEF Types, UploadTypes, VersionInv
<1>3. EntryRight' /\ ReaderRight'
  BY <1>1 DEF VersionInv, EntryRight, ReaderRight, Seen
<1>4. \A w \in uploads' : w \in uploads \/ UploadRight(w)'
  <2>1. CASE StatBeforeWrite(u) /\ MayWrite(u)
    <3>1. PICK v : v = [u EXCEPT !.phase = "write", !.last = remote] /\ Becomes(u, v)
      BY <2>1 DEF StatBeforeWrite
    <3>2. /\ v.key = u.key /\ v.snapshot = u.snapshot /\ v.phase = "write"
          /\ v.last = remote /\ u.snapshot = remote
      BY <1>2, <2>1, <3>1 DEF Upload, MayWrite
    <3>3. UploadRight(v)'
      BY <1>1, <1>2, <3>2 DEF UploadRight, Seen, IsFor
    <3> QED
      BY <3>1, <3>3 DEF Becomes
  <2>2. CASE ~(StatBeforeWrite(u) /\ MayWrite(u))
    BY <2>2 DEF StatBeforeWrite, StatAfterWrite, UploadBreaks
  <2> QED
    BY <2>1, <2>2
<1>5. \A i \in DOMAIN events' : \A e : e = events'[i] => OldEvent(e) \/ EventRight(e)'
  <2>1. ASSUME NEW e, Post(e), EventRight(e)'
        PROVE  \A i \in DOMAIN events' : \A d : d = events'[i] => OldEvent(d) \/ EventRight(d)'
    BY <2>1, PostedIsNew
  <2>2. CASE StatBeforeWrite(u)
    <3>1. CASE MayWrite(u)
      BY <2>2, <3>1 DEF StatBeforeWrite, OldEvent
    <3>2. CASE ~MayWrite(u)
      <4>1. PICK e : e = [kind |-> "conflict", key |-> u.key, remote |-> remote] /\ Post(e)
        BY <2>2, <3>2 DEF StatBeforeWrite
      <4>2. u.snapshot < remote /\ u.snapshot \in Versions
        BY <1>2, <3>2, EditConstants DEF MayWrite, UploadRight, Upload, Versions
      <4>3. IsFor(u.key)' => entry'.snapshot = u.snapshot
        BY <1>1, <1>2 DEF IsFor, UploadRight
      <4>4. EventRight(e)'
        BY <1>1, <1>2, <4>1, <4>2, <4>3, EditConstants DEF EventRight, Versions
      <4> QED
        BY <2>1, <4>1, <4>4
    <3> QED
      BY <3>1, <3>2
  <2>3. CASE StatAfterWrite(u)
    <3>1. PICK e : /\ e = [kind |-> "done", key |-> u.key, bytes |-> u.bytes, own |-> u.last,
                           remote |-> remote]
                   /\ Post(e)
      BY <2>3 DEF StatAfterWrite
    <3>2. /\ u.last <= remote /\ remote \notin theirs /\ u.snapshot <= remote
          /\ IsFor(u.key)' => entry'.snapshot = u.snapshot
      BY <1>1, <1>2, <2>3 DEF StatAfterWrite, UploadRight, IsFor
    <3>3. EventRight(e)'
      BY <1>1, <1>2, <3>1, <3>2, EditConstants DEF EventRight, Versions
    <3> QED
      BY <2>1, <3>1, <3>3
  <2>4. CASE UploadBreaks(u)
    <3>1. PICK e : e = [kind |-> "failed", key |-> u.key] /\ Post(e)
      BY <2>4 DEF UploadBreaks
    <3>2. EventRight(e)'
      BY <3>1 DEF EventRight
    <3> QED
      BY <2>1, <3>1, <3>2
  <2> QED
    BY <2>2, <2>3, <2>4
<1> QED
  BY <1>1, <1>3, <1>4, <1>5, QuietVersions

\* A handler that leaves history and snapshots alone.
LEMMA PlainHandling ==
    ASSUME Types, Types', VersionInv,
           UNCHANGED <<remote, theirs, known, settled, reader>>,
           entry # None, entry'.key = entry.key, entry'.snapshot = entry.snapshot,
           entry'.state = "Conflict" =>
              /\ entry'.conflict \in Versions
              /\ entry.snapshot < entry'.conflict /\ entry'.conflict <= remote,
           \A u \in uploads' : u \in uploads \/ UploadRight(u)',
           \A i \in DOMAIN events' : OldEvent(events'[i])
    PROVE  VersionInv'
<1>1. EntryRight' /\ ReaderRight'
  BY DEF VersionInv, EntryRight, ReaderRight, Seen
<1> QED
  BY <1>1, QuietVersions

LEMMA NothingHandled ==
    ASSUME Types, Types', VersionInv,
           UNCHANGED <<remote, theirs, known, settled, reader, entry, uploads>>,
           \A i \in DOMAIN events' : OldEvent(events'[i])
    PROVE  VersionInv'
<1>1. EntryRight' /\ ReaderRight'
  BY DEF VersionInv, EntryRight, ReaderRight, Seen
<1> QED
  BY <1>1, QuietVersions

\* The version c is settled and becomes the snapshot.
LEMMA SnapshotMoves ==
    ASSUME Types, Types', VersionInv,
           UNCHANGED <<remote, theirs, reader>>,
           entry # None, entry'.key = entry.key, entry'.state # "Conflict",
           NEW c \in Versions, Settled(c),
           entry'.snapshot \in Versions, c <= entry'.snapshot,
           entry.snapshot <= entry'.snapshot, entry'.snapshot <= remote,
           entry'.snapshot = c \/ entry'.snapshot \notin theirs,
           \A u \in uploads' : (u \in uploads /\ u.key # entry.key) \/ UploadRight(u)',
           \A i \in DOMAIN events' : \A e : e = events'[i] =>
              OldEvent(e) /\ (e.kind \in AnswerKinds => e.key # entry.key)
    PROVE  VersionInv'
<1> USE EditConstants DEF Versions
<1>1. Grows /\ HistoryRight'
  BY DEF Settled, Types, VersionInv, HistoryRight, Grows
<1>2. EntryRight'
  <2>1. Seen(entry.snapshot)'
    BY DEF Seen, Settled
  <2>2. entry.snapshot \in Versions
    BY DEF Types, Entry
  <2>3. \A d \in settled : d <= entry.snapshot /\ d \in Versions
    BY DEF VersionInv, EntryRight, HistoryRight, Types
  <2>4. \A d \in settled' : d <= entry'.snapshot
    BY <2>2, <2>3 DEF Settled
  <2> QED
    BY <2>1, <2>4 DEF EntryRight
<1>3. ReaderRight'
  BY DEF VersionInv, ReaderRight
<1>4. \A k : k # entry.key => Stable(k)
  BY DEF Stable, IsFor
<1>5. \A u \in uploads : u.phase = "check" => remote' \notin theirs'
  BY DEF VersionInv, UploadRight
<1>6. \A u \in uploads' : (u \in uploads /\ Stable(u.key)) \/ UploadRight(u)'
  BY <1>4
<1> QED
  BY <1>1, <1>2, <1>3, <1>4, <1>5, <1>6, VersionStep

\* push_edit hands its write-back the snapshot of the entry.
LEMMA PushVersions ==
    ASSUME Types, NEW e \in Entry, Push(e), UNCHANGED <<remote, theirs>>, known \subseteq known',
           e.snapshot <= remote, e.snapshot \in theirs => e.snapshot \in known'
    PROVE  /\ entry'.key = e.key /\ entry'.snapshot = e.snapshot
           /\ entry'.state \in {"Uploading", "Failed"}
           /\ \A u \in uploads' : u \in uploads \/ UploadRight(u)'
<1>1. /\ entry'.key = e.key /\ entry'.snapshot = e.snapshot
      /\ entry'.state \in {"Uploading", "Failed"}
      /\ entry' = [e EXCEPT !.state = "Uploading"] \/ entry' = [e EXCEPT !.state = "Failed"]
  BY DEF Push, Entry
<1>2. PICK w : /\ w = [key |-> e.key, bytes |-> local, snapshot |-> e.snapshot,
                       last |-> None, phase |-> "stat"]
               /\ uploads' \subseteq uploads \union {w}
  BY DEF Push
<1>3. UploadRight(w)'
  BY <1>1, <1>2 DEF UploadRight, IsFor, Seen
<1> QED
  BY <1>1, <1>2, <1>3

\* on_edit_tick.
LEMMA TickVersions ==
    ASSUME Types, Types', VersionInv, OnEditTick
    PROVE  VersionInv'
<1>1. /\ UNCHANGED <<remote, theirs, known, settled, reader>>
      /\ \A i \in DOMAIN events' : OldEvent(events'[i])
      /\ Head(events) \in Event /\ Head(events).kind = "tick"
  <2>1. Received("tick") /\ stamp' = stamp /\ stamp \in Stamps
    BY DEF OnEditTick, localVars, Types
  <2>2. EventTypes(Head(events)) /\ Head(events).kind = "tick"
    BY <2>1, TypedEventTaken, EditConstants DEF Stamps
  <2> QED
    BY <2>1, <2>2, TakenWereOld DEF OnEditTick, historyVars, EventTypes
<1>2. CASE UNCHANGED <<entry, uploads>>
  BY <1>1, <1>2, NothingHandled
<1>3. CASE ~UNCHANGED <<entry, uploads>>
  <2>1. PICK t : t = Head(events)
    OBVIOUS
  <2>2. PICK e : e = [entry EXCEPT !.seen = t.stamp]
    OBVIOUS
  <2>3. /\ entry # None /\ entry.state = "Watching"
        /\ (entry' = e /\ uploads' = uploads) \/ Push(e)
    BY <1>3, <2>1, <2>2 DEF OnEditTick, IsFor, Watched
  <2>4. /\ e \in Entry /\ e.key = entry.key /\ e.snapshot = entry.snapshot
        /\ e.state = "Watching"
    BY <1>1, <2>1, <2>2, <2>3 DEF Types, Entry, Event
  <2>5. e.snapshot <= remote /\ (e.snapshot \in theirs => e.snapshot \in known')
    BY <1>1, <2>3, <2>4 DEF VersionInv, EntryRight, Seen
  <2>6. CASE entry' = e /\ uploads' = uploads
    BY <1>1, <2>3, <2>4, <2>6, PlainHandling
  <2>7. CASE Push(e)
    <3>1. /\ entry'.key = e.key /\ entry'.snapshot = e.snapshot
          /\ entry'.state \in {"Uploading", "Failed"}
          /\ \A u \in uploads' : u \in uploads \/ UploadRight(u)'
      BY <1>1, <2>4, <2>5, <2>7, PushVersions
    <3> QED
      BY <1>1, <2>3, <2>4, <3>1, PlainHandling
  <2> QED
    BY <2>3, <2>6, <2>7
<1> QED
  BY <1>2, <1>3

\* on_edit_saved after a write-back that was done.
LEMMA DoneVersions ==
    ASSUME Types, Types', EditInv, VersionInv, OnEditDone
    PROVE  VersionInv'
<1> USE EditConstants DEF Versions
<1>1. /\ Received("done") /\ UNCHANGED <<remote, theirs, reader, uploads, nextKey>>
      /\ UNCHANGED stamp
  BY DEF OnEditDone, taskVars, localVars
<1>2. /\ \A i \in DOMAIN events' : OldEvent(events'[i])
      /\ OldEvent(Head(events)) /\ Head(events).kind = "done"
  BY <1>1, TakenWereOld
<1>3. PICK d : d = Head(events)
  OBVIOUS
<1>4. /\ d \in Event /\ d.kind = "done" /\ EventRight(d)
      /\ d.own \in Versions /\ d.remote \in Versions
  <2>1. d \in Event /\ EventRight(d)
    BY <1>2, <1>3 DEF OldEvent, VersionInv, Types
  <2> QED
    BY <1>2, <1>3, <2>1 DEF Event
<1>5. CASE ~IsFor(d.key)
  <2>1. UNCHANGED <<known, settled, entry>>
    BY <1>3, <1>5 DEF OnEditDone
  <2> QED
    BY <1>1, <1>2, <2>1, NothingHandled
<1>6. CASE IsFor(d.key)
  <2>1. /\ entry # None /\ entry.key = d.key /\ entry \in Entry
        /\ entry' = [entry EXCEPT !.state = "Watching", !.snapshot = d.remote,
                                  !.seen = local, !.conflict = None]
        /\ Settled(d.own)
    BY <1>3, <1>6 DEF OnEditDone, IsFor, Types
  <2>2. entry'.key = entry.key /\ entry'.state = "Watching" /\ entry'.snapshot = d.remote
    BY <2>1 DEF Entry
  <2>3. /\ d.own <= d.remote /\ d.remote <= remote /\ d.remote \notin theirs
        /\ entry.snapshot <= d.remote
    BY <1>4, <1>6 DEF EventRight
  <2>4. \A i \in DOMAIN events' : events'[i].kind \in AnswerKinds => events'[i].key # d.key
    <3>1. nextKey' \in Nat /\ nextKey <= nextKey'
      BY <1>1 DEF EditInv, KeysAreOld
    <3>2. \A k : k = Head(events).key => ~Answered(k)'
      BY <1>1, <3>1, TakingLeavesOthers DEF AnswerKinds
    <3>3. ~Answered(d.key)'
      BY <1>3, <3>2
    <3> QED
      BY <3>3 DEF Answered, AnswerAt
  <2>5. \A u \in uploads : u.key # d.key
    <3>1. Answered(d.key)
      BY <1>2, <1>3 DEF OldEvent, Answered, AnswerAt, AnswerKinds
    <3> QED
      BY <3>1 DEF EditInv, OneAtATime
  <2> QED
    BY <1>1, <1>2, <1>4, <2>1, <2>2, <2>3, <2>4, <2>5, SnapshotMoves
<1> QED
  BY <1>5, <1>6

\* on_edit_saved after a write-back that met another version, or failed.
LEMMA BadNewsVersions ==
    ASSUME Types, Types', VersionInv, OnEditConflict \/ OnEditFailed
    PROVE  VersionInv'
<1>1. /\ UNCHANGED <<remote, theirs, known, settled, reader, uploads>>
      /\ \A i \in DOMAIN events' : OldEvent(events'[i])
      /\ OldEvent(Head(events))
      /\ OnEditConflict => Head(events).kind = "conflict"
  BY TakenWereOld DEF OnEditConflict, OnEditFailed, taskVars, historyVars
<1>2. PICK d : d = Head(events)
  OBVIOUS
<1>3. /\ d \in Event /\ EventRight(d)
      /\ OnEditConflict => d.kind = "conflict" /\ d.remote \in Versions
  BY <1>1, <1>2 DEF OldEvent, VersionInv, Types, Event
<1>4. CASE ~IsFor(d.key)
  <2>1. entry' = entry
    BY <1>2, <1>4 DEF OnEditConflict, OnEditFailed
  <2> QED
    BY <1>1, <2>1, NothingHandled
<1>5. CASE IsFor(d.key)
  <2>1. entry # None /\ entry \in Entry
    BY <1>5 DEF IsFor, Types
  <2>2. CASE OnEditConflict
    <3>1. entry' = [entry EXCEPT !.state = "Conflict", !.conflict = d.remote]
      BY <1>2, <1>5, <2>2 DEF OnEditConflict
    <3>2. /\ entry'.key = entry.key /\ entry'.snapshot = entry.snapshot
          /\ entry'.conflict = d.remote
      BY <2>1, <3>1 DEF Entry
    <3> QED
      BY <1>1, <1>3, <1>5, <2>1, <2>2, <3>2, PlainHandling DEF EventRight
  <2>3. CASE OnEditFailed
    <3>1. entry' = [entry EXCEPT !.state = "Failed"]
      BY <1>2, <1>5, <2>3 DEF OnEditFailed, UploadFailed
    <3>2. /\ entry'.key = entry.key /\ entry'.snapshot = entry.snapshot
          /\ entry'.state = "Failed"
      BY <2>1, <3>1 DEF Entry
    <3> QED
      BY <1>1, <2>1, <3>2, PlainHandling
  <2> QED
    BY <2>2, <2>3
<1> QED
  BY <1>4, <1>5

\* resolve_edit.
LEMMA DecisionVersions ==
    ASSUME Types, Types', EditInv, VersionInv, KeepRemote \/ Overwrite \/ SaveCopy
    PROVE  VersionInv'
<1> USE EditConstants DEF Versions
<1>1. /\ UNCHANGED <<remote, theirs, reader, events>>
      /\ entry # None /\ entry \in Entry /\ entry.state = "Conflict"
  BY DEF KeepRemote, Overwrite, SaveCopy, Resolving, taskVars, Types
<1>2. PICK c : c = entry.conflict
  OBVIOUS
<1>3. PICK e : e = Kept(entry)
  OBVIOUS
<1>4. c \in Versions /\ entry.snapshot < c /\ c <= remote /\ entry.snapshot \in Versions
  BY <1>1, <1>2 DEF VersionInv, EntryRight, Entry
<1>5. /\ e \in Entry /\ e.key = entry.key /\ e.snapshot = c /\ e.state = "Watching"
  BY <1>1, <1>2, <1>3, <1>4 DEF Kept, Entry, States
<1>6. \A i \in DOMAIN events' : OldEvent(events'[i])
  BY <1>1 DEF OldEvent
<1>7. /\ \A u \in uploads : u.key # entry.key
      /\ \A i \in DOMAIN events' : \A d : d = events'[i] =>
            OldEvent(d) /\ (d.kind \in AnswerKinds => d.key # entry.key)
  BY <1>1, <1>6, RestingIsAlone
<1>8. CASE ~tabOpen /\ SaveCopy
  <2>1. /\ UNCHANGED <<known, settled, uploads>>
        /\ entry' = [entry EXCEPT !.state = "Failed"]
    BY <1>8 DEF SaveCopy, taskVars
  <2>2. entry'.key = entry.key /\ entry'.snapshot = entry.snapshot /\ entry'.state = "Failed"
    BY <1>1, <2>1 DEF Entry
  <2> QED
    BY <1>1, <1>6, <2>1, <2>2, PlainHandling
<1>9. CASE KeepRemote \/ (tabOpen /\ SaveCopy)
  <2>1. Settled(c) /\ entry' = e /\ uploads' = uploads
    BY <1>2, <1>3, <1>9 DEF KeepRemote, SaveCopy, taskVars
  <2> QED
    BY <1>1, <1>4, <1>5, <1>7, <2>1, SnapshotMoves
<1>10. CASE Overwrite
  <2>1. Settled(c) /\ Push(e)
    BY <1>2, <1>3, <1>10 DEF Overwrite
  <2>2. known \subseteq known' /\ c \in known'
    BY <2>1 DEF Settled
  <2>3. /\ entry'.key = e.key /\ entry'.snapshot = e.snapshot
        /\ entry'.state \in {"Uploading", "Failed"}
        /\ \A u \in uploads' : u \in uploads \/ UploadRight(u)'
    BY <1>1, <1>4, <1>5, <2>1, <2>2, PushVersions
  <2> QED
    BY <1>1, <1>4, <1>5, <1>7, <2>1, <2>3, SnapshotMoves
<1> QED
  BY <1>8, <1>9, <1>10

\* finish_edit_open.
LEMMA OpenVersions ==
    ASSUME Types, Types', EditInv, VersionInv, NEW launched \in BOOLEAN, FinishEditOpen(launched)
    PROVE  VersionInv'
<1> USE EditConstants DEF Versions
<1>1. Received("opened") /\ UNCHANGED <<remote, theirs, reader, uploads>>
  BY DEF FinishEditOpen, taskVars
<1>2. /\ \A i \in DOMAIN events' : OldEvent(events'[i])
      /\ OldEvent(Head(events)) /\ Head(events).kind = "opened"
  BY <1>1, TakenWereOld
<1>3. PICK e : e = Head(events)
  OBVIOUS
<1>4. /\ e \in Event /\ e.kind = "opened" /\ EventRight(e)
      /\ e.version \in Versions /\ e.snapshot \in Versions
  <2>1. e \in Event /\ EventRight(e)
    BY <1>2, <1>3 DEF OldEvent, VersionInv, Types
  <2> QED
    BY <1>2, <1>3, <2>1 DEF Event
<1>5. CASE UNCHANGED <<entry, known, settled>>
  BY <1>1, <1>2, <1>5, NothingHandled
<1>6. CASE ~UNCHANGED <<entry, known, settled>>
  <2>1. /\ entry = None /\ known' = known \union {e.version} /\ settled' = {e.version}
        /\ entry'.key = nextKey /\ entry'.state = "Watching"
        /\ entry'.snapshot = e.snapshot
    BY <1>3, <1>6 DEF FinishEditOpen, deskVars
  <2>2. /\ e.version <= e.snapshot /\ e.snapshot <= remote
        /\ e.snapshot \in theirs => e.snapshot = e.version
    BY <1>4 DEF EventRight
  <2>3. Grows /\ HistoryRight'
    <3>1. e.version \in 0 .. remote /\ remote \in Nat
      BY <1>4, <2>2 DEF Types
    <3>2. known' \subseteq 0 .. remote /\ settled' \subseteq known'
      BY <2>1, <3>1 DEF HistoryRight, VersionInv
    <3> QED
      BY <1>1, <2>1, <3>1, <3>2 DEF Grows, HistoryRight, VersionInv
  <2>4. EntryRight' /\ ReaderRight'
    BY <1>1, <1>4, <2>1, <2>2 DEF EntryRight, Seen, VersionInv, ReaderRight
  <2>5. \A k : k # nextKey => Stable(k)
    BY <2>1 DEF Stable, IsFor
  <2>6. /\ \A u \in uploads : u.key # nextKey
        /\ \A d : OldEvent(d) /\ d.kind \in AnswerKinds => d.key # nextKey
    BY DEF EditInv, KeysAreOld, OldEvent, AnswerAt
  <2>7. \A u \in uploads : u.phase = "check" => remote' \notin theirs'
    BY <1>1 DEF VersionInv, UploadRight
  <2> QED
    BY <1>1, <1>2, <2>3, <2>4, <2>5, <2>6, <2>7, VersionStep
<1> QED
  BY <1>5, <1>6

LEMMA VersionsKept == Types /\ Types' /\ EditInv /\ VersionInv /\ [Next]_vars => VersionInv'
BY WatchingVersions, ForeignWrites, OwnWrites, LookingVersions, TickVersions, DoneVersions,
   BadNewsVersions, DecisionVersions, OpenVersions
DEF Next, UploadStep, Handle, UserStep

-----------------------------------------------------------------------------
(* Theorems.                                                               *)

VersionedInv == EditInv /\ Types /\ QuestionsBounded /\ VersionInv

LEMMA InitVersioned == Init => VersionedInv
<1> SUFFICES ASSUME Init
             PROVE  VersionedInv
  OBVIOUS
<1>1. Questions = {}
  BY DEF Init, Questions
<1>2. QuestionsBounded
  BY <1>1, FS_EmptySet, EditConstants DEF QuestionsBounded
<1> QED
  BY <1>2, InitEstablishesEdit, InitTypes, InitVersions DEF VersionedInv

\* Snapshots, what is in flight and what the user has seen agree in every state.
THEOREM VersionInvariance == Spec => []VersionedInv
<1>1. EditInv /\ [Next]_vars => EditInv'
  BY EditStep
<1>2. VersionedInv /\ [Next]_vars => VersionedInv'
  BY <1>1, TypesKept, BoundKept, VersionsKept DEF VersionedInv
<1> QED
  BY <1>2, InitVersioned, PTL DEF Spec

\* Everything has its type, what is open on the remote side stays in bounds, and
\* the queue of events is no longer than one answer per entry allows.
THEOREM EditTypes == Spec => []TypeOK
<1>1. VersionedInv => TypeOK
  <2> SUFFICES ASSUME VersionedInv
               PROVE  TypeOK
    OBVIOUS
  <2>1. Len(events) <= MaxEvents + MaxKeys
    BY QueueBounded DEF VersionedInv
  <2>2. uploads \subseteq Upload
    BY DEF VersionedInv, Types, UploadTypes
  <2> QED
    BY <2>1, <2>2 DEF VersionedInv, Types, VersionInv, HistoryRight, TypeOK
<1> QED
  BY <1>1, VersionInvariance, PTL

\* A write-back destroys only versions of others that the user has seen, and
\* those that came after it looked (D13, write_if_unchanged).
THEOREM OthersAreSafe == Spec => OverwritesOnlySeen
<1>1. VersionedInv /\ [Next]_vars =>
         [\A u \in uploads :
             Truncate(u) /\ remote \in theirs /\ remote = u.last => remote \in known]_vars
  <2> SUFFICES ASSUME VersionedInv, NEW u \in uploads, Truncate(u), remote \in theirs,
                      remote = u.last
               PROVE  remote \in known
    OBVIOUS
  <2> QED
    BY DEF VersionedInv, VersionInv, UploadRight, Truncate, Seen
<1> QED
  BY <1>1, VersionInvariance, PTL DEF Spec, OverwritesOnlySeen

\* The box of a conflict does not come back after an answer or after the user's
\* own save (keep_remote, accept_write_back).
THEOREM ConflictsAreNews == Spec => ConflictIsNews
<1>1. VersionedInv /\ VersionedInv' /\ [Next]_vars =>
         [entry # None /\ entry' # None /\ entry.state = "Uploading" /\ entry'.state = "Conflict"
            => entry'.conflict \notin settled]_vars
  <2> SUFFICES ASSUME VersionedInv, VersionedInv', Next,
                      entry # None, entry' # None, entry.state = "Uploading",
                      entry'.state = "Conflict"
               PROVE  entry'.conflict \notin settled
    BY DEF vars, deskVars
  <2>1. OnEditConflict
    <3>1. CASE ReaderStep \/ Poll \/ TheyWrite \/ \E u \in uploads : UploadStep(u)
      BY <3>1 DEF ReaderStep, ReadAll, StatAfterRead, OpenFails, Poll, TheyWrite, UploadStep,
                  StatBeforeWrite, Truncate, WriteAll, StatAfterWrite, UploadBreaks, deskVars
    <3>2. CASE \E launched \in BOOLEAN : FinishEditOpen(launched)
      BY <3>2 DEF FinishEditOpen, deskVars
    <3>3. CASE OnEditTick \/ OnEditDone \/ OnEditFailed
      <4>1. entry \in Entry
        BY DEF VersionedInv, Types
      <4> QED
        BY <3>3, <4>1 DEF OnEditTick, OnEditDone, OnEditFailed, UploadFailed, Watched, Push, Entry
    <3>4. CASE UserStep
      BY <3>4 DEF UserStep, StartEdit, UserSaves, KeepRemote, Overwrite, SaveCopy, EndEdit,
                  CloseTab, Reconnect, Resolving, deskVars
    <3> QED
      BY <3>1, <3>2, <3>3, <3>4 DEF Next, Handle
  <2>2. settled' = settled /\ entry'.snapshot = entry.snapshot
    <3>1. entry \in Entry
      BY DEF VersionedInv, Types
    <3> QED
      BY <2>1, <3>1 DEF OnEditConflict, historyVars, Entry
  <2>3. /\ \A c \in settled : c <= entry.snapshot /\ c \in Versions
        /\ entry.snapshot \in Versions
    <3>1. /\ \A c \in settled : c <= entry.snapshot
          /\ entry.snapshot \in Versions /\ remote \in Versions
      BY DEF VersionedInv, VersionInv, EntryRight, Types, Entry
    <3>2. settled \subseteq 0 .. remote
      BY DEF VersionedInv, VersionInv, HistoryRight
    <3> QED
      BY <3>1, <3>2, EditConstants DEF Versions
  <2>4. entry'.snapshot < entry'.conflict /\ entry'.conflict \in Versions
    BY DEF VersionedInv, VersionInv, EntryRight
  <2> QED
    BY <2>2, <2>3, <2>4, EditConstants DEF Versions
<1> QED
  BY <1>1, VersionInvariance, PTL DEF Spec, ConflictIsNews

-----------------------------------------------------------------------------
(* What is watched is sent.  An exit may delete an edit that was never     *)
(* sent (run edit_unsent), for two reasons only.                           *)

\* The temporary file changes only while nothing of it is being written back and
\* once the watcher's first look has been taken for the baseline.
ChangesAreSeen ==
    local' # local /\ entry # None /\ entry' # None =>
        entry.state # "Uploading" /\ entry.seen # 0

InQueue == {events[i] : i \in DOMAIN events}

\* A report of what the temporary file has now is on its way.
ReportComes ==
    watcher # None =>
        \/ watcher.last # local
        \/ [kind |-> "tick", key |-> entry.key, stamp |-> local] \in InQueue

\* What has been seen was written before.
StampsAreOld ==
    /\ entry # None => entry.seen <= stamp
    /\ watcher # None => watcher.last <= stamp
    /\ watcher # None /\ entry # None => watcher.key = entry.key
    /\ \A x \in InQueue : x.kind = "tick" => x.stamp \in 1 .. stamp

\* What is being written back is what the temporary file holds.
CurrentInFlight ==
    /\ \A u \in uploads : IsFor(u.key) => u.bytes = local
    /\ \A x \in InQueue : x.kind = "done" /\ IsFor(x.key) => x.bytes = local

\* A change that was not sent has not been seen, and a report of it is to come.
UnsentIsReported ==
    entry # None =>
        /\ entry.seen = 0 => local = sent
        /\ entry.state = "Watching" /\ local # sent => local # entry.seen /\ ReportComes

SentInv == StampsAreOld /\ CurrentInFlight /\ UnsentIsReported

\* The first event is taken out, or one is added.
LEMMA QueueTaken ==
    ASSUME Types, NEW kind, Received(kind)
    PROVE  /\ InQueue' \subseteq InQueue /\ InQueue \subseteq InQueue' \union {Head(events)}
           /\ Head(events) \in InQueue /\ Head(events).kind = kind
           /\ Head(events) \in Event
<1>1. events \in Seq(Event) /\ events # <<>> /\ events' = Tail(events) /\ Head(events).kind = kind
  BY DEF Types, Received
<1>2. /\ Head(events) = events[1] /\ 1 \in DOMAIN events /\ Head(events) \in Event
      /\ \A i \in DOMAIN events' : i + 1 \in DOMAIN events /\ events'[i] = events[i + 1]
      /\ \A i \in DOMAIN events : i = 1 \/ (i - 1 \in DOMAIN events' /\ events[i] = events'[i - 1])
  BY <1>1
<1> QED
  BY <1>1, <1>2 DEF InQueue

LEMMA QueuePosted ==
    ASSUME Types, NEW e, Post(e)
    PROVE  InQueue' = InQueue \union {e}
<1>1. events \in Seq(Event) /\ events' = Append(events, e)
  BY DEF Types, Post
<1>2. /\ Len(events) + 1 \in DOMAIN events' /\ events'[Len(events) + 1] = e
      /\ \A i \in DOMAIN events : i \in DOMAIN events' /\ events'[i] = events[i]
      /\ \A i \in DOMAIN events' : i \in DOMAIN events \/ events'[i] = e
  BY <1>1
<1> QED
  BY <1>2 DEF InQueue

LEMMA QueuedAnswers ==
    ASSUME NEW x \in InQueue, x.kind \in AnswerKinds
    PROVE  Answered(x.key)
BY DEF InQueue, Answered, AnswerAt

\* Steps that leave the entry and the temporary file alone.
LEMMA ElsewhereSent ==
    ASSUME Types, SentInv, UNCHANGED <<local, stamp, entry, watcher, sent>>,
           \A v \in uploads' : \E u \in uploads : v.key = u.key /\ v.bytes = u.bytes,
           \A x \in InQueue' :
              \/ x \in InQueue
              \/ x.kind \notin {"tick", "done"}
              \/ /\ x.kind = "done"
                 /\ \E u \in uploads : x.key = u.key /\ x.bytes = u.bytes,
           \A x \in InQueue : x.kind = "tick" => x \in InQueue'
    PROVE  SentInv'
<1>1. StampsAreOld'
  BY DEF SentInv, StampsAreOld
<1>2. CurrentInFlight'
  BY DEF SentInv, CurrentInFlight, IsFor
<1>3. UnsentIsReported'
  BY DEF SentInv, UnsentIsReported, ReportComes
<1> QED
  BY <1>1, <1>2, <1>3 DEF SentInv

\* Steps that change the entry alone, and may start a write-back.
LEMMA EntrySent ==
    ASSUME SentInv, UNCHANGED <<local, stamp, watcher>>,
           entry # None, entry'.key = entry.key, entry'.seen <= stamp,
           \A u \in uploads' : IsFor(u.key) => u \in uploads \/ u.bytes = local,
           InQueue' \subseteq InQueue, UnsentIsReported'
    PROVE  SentInv'
<1>1. StampsAreOld'
  BY DEF SentInv, StampsAreOld
<1>2. CurrentInFlight'
  BY DEF SentInv, CurrentInFlight, IsFor
<1> QED
  BY <1>1, <1>2 DEF SentInv

\* The tasks, the others, and the tab.
LEMMA TasksSent ==
    ASSUME Types, SentInv,
           \/ ReaderStep \/ TheyWrite \/ StartEdit \/ CloseTab \/ Reconnect
           \/ UNCHANGED vars
           \/ \E u \in uploads : UploadStep(u)
    PROVE  SentInv'
<1>1. CASE StatAfterRead
  <2> DEFINE e == [kind |-> "opened", version |-> reader.version, snapshot |-> remote]
  <2>1. Post(e) /\ e.kind = "opened"
    BY <1>1 DEF StatAfterRead, Send
  <2> HIDE DEF e
  <2>2. InQueue' = InQueue \union {e}
    BY <2>1, QueuePosted
  <2>3. UNCHANGED <<local, stamp, entry, watcher, sent, uploads>>
    BY <1>1 DEF StatAfterRead, localVars, deskVars, historyVars
  <2> QED
    BY <2>1, <2>2, <2>3, ElsewhereSent
<1>2. CASE \/ ReadAll \/ OpenFails \/ TheyWrite \/ StartEdit \/ CloseTab \/ Reconnect
           \/ UNCHANGED vars
  <2>1. UNCHANGED <<local, stamp, entry, watcher, sent, events>> /\ uploads' \subseteq uploads
    BY <1>2 DEF ReadAll, OpenFails, TheyWrite, StartEdit, CloseTab, Reconnect, AbortTasks, vars,
                localVars, deskVars, taskVars, historyVars
  <2>2. InQueue' = InQueue
    BY <2>1 DEF InQueue
  <2> QED
    BY <2>1, <2>2, ElsewhereSent
<1>3. CASE \E u \in uploads : UploadStep(u)
  <2>1. PICK u \in uploads : UploadStep(u)
    BY <1>3
  <2>2. UNCHANGED <<local, stamp, entry, watcher, sent>>
    BY <2>1 DEF UploadStep, StatBeforeWrite, Truncate, WriteAll, StatAfterWrite, UploadBreaks,
                localVars, deskVars, historyVars
  <2>3. \A v \in uploads' : \E w \in uploads : v.key = w.key /\ v.bytes = w.bytes
    <3>1. u \in Upload
      BY DEF Types, UploadTypes
    <3>2. ASSUME NEW v, Becomes(u, v), v.key = u.key, v.bytes = u.bytes
          PROVE  \A w \in uploads' : \E x \in uploads : w.key = x.key /\ w.bytes = x.bytes
      BY <3>2 DEF Becomes
    <3>3. \/ Becomes(u, [u EXCEPT !.phase = "write", !.last = remote])
          \/ Becomes(u, [u EXCEPT !.phase = "writing", !.last = remote'])
          \/ Becomes(u, [u EXCEPT !.phase = "check", !.last = remote'])
          \/ uploads' = uploads \ {u}
      BY <2>1 DEF UploadStep, StatBeforeWrite, Truncate, WriteAll, StatAfterWrite, UploadBreaks
    <3>4. ASSUME NEW x, NEW p
          PROVE  /\ [u EXCEPT !.phase = p, !.last = x].key = u.key
                 /\ [u EXCEPT !.phase = p, !.last = x].bytes = u.bytes
      BY <3>1 DEF Upload
    <3>5. CASE uploads' = uploads \ {u}
      BY <3>5
    <3> QED
      BY <3>2, <3>3, <3>4, <3>5
  <2>4. \A x \in InQueue' : x \in InQueue \/ (x.kind \in AnswerKinds /\ x.key = u.key
                                              /\ (x.kind = "done" => x.bytes = u.bytes))
    <3>1. ASSUME NEW e, Post(e), e.kind \in AnswerKinds, e.key = u.key,
                 e.kind = "done" => e.bytes = u.bytes
          PROVE  \A x \in InQueue' : x \in InQueue \/ (x.kind \in AnswerKinds /\ x.key = u.key
                                              /\ (x.kind = "done" => x.bytes = u.bytes))
      BY <3>1, QueuePosted
    <3>2. CASE events' = events
      BY <3>2 DEF InQueue
    <3>3. \/ events' = events
          \/ Post([kind |-> "conflict", key |-> u.key, remote |-> remote])
          \/ Post([kind |-> "done", key |-> u.key, bytes |-> u.bytes, own |-> u.last,
                   remote |-> remote])
          \/ Post([kind |-> "failed", key |-> u.key])
      BY <2>1 DEF UploadStep, StatBeforeWrite, Truncate, WriteAll, StatAfterWrite, UploadBreaks
    <3> QED
      BY <3>1, <3>2, <3>3 DEF AnswerKinds
  <2>5. InQueue \subseteq InQueue'
    <3>1. CASE events' = events
      BY <3>1 DEF InQueue
    <3>2. events' # events => \E e : Post(e)
      BY <2>1 DEF UploadStep, StatBeforeWrite, Truncate, WriteAll, StatAfterWrite, UploadBreaks
    <3> QED
      BY <3>1, <3>2, QueuePosted
  <2> QED
    BY <2>2, <2>3, <2>4, <2>5, ElsewhereSent DEF AnswerKinds
<1> QED
  BY <1>1, <1>2, <1>3 DEF ReaderStep

\* watch_edit reports what it finds.
LEMMA PollSent ==
    ASSUME Types, SentInv, Poll
    PROVE  SentInv'
<1> DEFINE e == [kind |-> "tick", key |-> watcher.key, stamp |-> local]
<1>1. Post(e) /\ UNCHANGED <<local, stamp, entry, sent, uploads>>
  BY DEF Poll, Send, localVars, taskVars, historyVars
<1>2. /\ watcher # None /\ local # None /\ local \in 1 .. stamp /\ stamp \in Nat
      /\ watcher'.key = watcher.key /\ watcher'.last = local
  BY EditConstants DEF Poll, Types, Stamps
<1>3. e.kind = "tick" /\ e.stamp = local /\ e.key = watcher.key
  OBVIOUS
<1>4. entry # None => watcher.key = entry.key
  BY <1>2 DEF SentInv, StampsAreOld
<1>5. entry # None => e = [kind |-> "tick", key |-> entry.key, stamp |-> local]
  BY <1>4
<1> HIDE DEF e
<1>6. InQueue' = InQueue \union {e}
  BY <1>1, QueuePosted
<1>7. StampsAreOld'
  BY <1>1, <1>2, <1>3, <1>4, <1>6 DEF SentInv, StampsAreOld
<1>8. CurrentInFlight'
  BY <1>1, <1>3, <1>6 DEF SentInv, CurrentInFlight, IsFor
<1>9. UnsentIsReported'
  BY <1>1, <1>5, <1>6 DEF SentInv, UnsentIsReported, ReportComes
<1> QED
  BY <1>7, <1>8, <1>9 DEF SentInv

\* push_edit of the entry, which takes the temporary file as it is now.
LEMMA PushSent ==
    ASSUME Types, SentInv, UNCHANGED <<local, stamp, watcher>>, InQueue' \subseteq InQueue,
           entry # None, NEW e \in Entry, e.key = entry.key, e.seen <= stamp,
           e.seen = 0 => local = sent', Push(e)
    PROVE  SentInv'
<1>1. /\ entry'.key = e.key /\ entry'.seen = e.seen /\ entry'.state \in {"Uploading", "Failed"}
  BY DEF Push, Entry
<1>2. \A u \in uploads' : u \in uploads \/ u.bytes = local
  BY DEF Push
<1>3. UnsentIsReported'
  BY <1>1 DEF UnsentIsReported
<1> QED
  BY <1>1, <1>2, <1>3, EntrySent

\* on_edit_tick.
LEMMA TickSent ==
    ASSUME Types, SentInv, OnEditTick
    PROVE  SentInv'
<1>1. Received("tick") /\ UNCHANGED <<local, stamp, watcher, sent>>
  BY DEF OnEditTick, localVars, historyVars
<1>2. PICK t : t = Head(events)
  OBVIOUS
<1>3. /\ InQueue' \subseteq InQueue /\ InQueue \subseteq InQueue' \union {t}
      /\ t \in InQueue /\ t.kind = "tick" /\ t.stamp \in 1 .. stamp /\ stamp \in Nat
  <2>1. t \in InQueue /\ t.kind = "tick" /\ InQueue' \subseteq InQueue
        /\ InQueue \subseteq InQueue' \union {t}
    BY <1>1, <1>2, QueueTaken
  <2> QED
    BY <2>1, EditConstants DEF SentInv, StampsAreOld, Types, Stamps
<1>4. CASE ~(IsFor(t.key) /\ Watched(entry))
  <2>1. UNCHANGED <<entry, uploads>>
    BY <1>2, <1>4 DEF OnEditTick
  <2>2. StampsAreOld' /\ CurrentInFlight'
    BY <1>1, <1>3, <2>1 DEF SentInv, StampsAreOld, CurrentInFlight, IsFor
  <2>3. ASSUME entry # None, entry.state = "Watching", ReportComes PROVE ReportComes'
    <3>1. t # [kind |-> "tick", key |-> entry.key, stamp |-> local]
      BY <1>4, <2>3 DEF IsFor, Watched
    <3> QED
      BY <1>1, <1>3, <2>1, <2>3, <3>1 DEF ReportComes
  <2>4. UnsentIsReported'
    BY <1>1, <2>1, <2>3 DEF SentInv, UnsentIsReported
  <2> QED
    BY <2>2, <2>4 DEF SentInv
<1>5. CASE IsFor(t.key) /\ Watched(entry)
  <2>1. PICK e : e = [entry EXCEPT !.seen = t.stamp]
    OBVIOUS
  <2>2. /\ entry # None /\ entry \in Entry /\ entry.state = "Watching"
        /\ entry.seen \in Stamps
    BY <1>5 DEF IsFor, Watched, Types, Entry
  <2>3. /\ e.seen = t.stamp /\ e.key = entry.key /\ e.state = "Watching" /\ e.seen # 0
        /\ e \in Entry /\ e.seen <= stamp
    <3>1. t.stamp \in Stamps
      BY <1>3, EditConstants DEF Types, Stamps
    <3> QED
      BY <1>3, <2>1, <2>2, <3>1 DEF Entry
  <2>4. CASE entry.seen \in {0, t.stamp}
    <3>1. entry' = e /\ uploads' = uploads
      BY <1>2, <1>5, <2>1, <2>4 DEF OnEditTick
    <3>2. UnsentIsReported'
      <4>1. CASE local = sent
        BY <1>1, <3>1, <2>3, <4>1 DEF UnsentIsReported
      <4>2. CASE local # sent
        <5>1. entry.seen = t.stamp /\ local # entry.seen /\ ReportComes
          BY <2>2, <2>4, <4>2 DEF SentInv, UnsentIsReported
        <5>2. t # [kind |-> "tick", key |-> entry.key, stamp |-> local]
          BY <5>1
        <5>3. ReportComes'
          BY <1>1, <1>3, <2>3, <3>1, <5>1, <5>2 DEF ReportComes
        <5> QED
          BY <1>1, <2>3, <3>1, <5>1, <5>3 DEF UnsentIsReported
      <4> QED
        BY <4>1, <4>2
    <3> QED
      BY <1>1, <1>3, <2>2, <2>3, <3>1, <3>2, EntrySent
  <2>5. CASE entry.seen \notin {0, t.stamp}
    <3>1. Push(e)
      BY <1>2, <1>5, <2>1, <2>5 DEF OnEditTick
    <3> QED
      BY <1>1, <1>3, <2>2, <2>3, <3>1, PushSent
  <2> QED
    BY <2>4, <2>5
<1> QED
  BY <1>4, <1>5

\* on_edit_saved.
LEMMA AnswerSent ==
    ASSUME Types, EditInv, SentInv, OnEditDone \/ OnEditConflict \/ OnEditFailed
    PROVE  SentInv'
<1>1. /\ UNCHANGED <<local, stamp, watcher, uploads>>
      /\ OnEditConflict \/ OnEditFailed => sent' = sent
      /\ \E kind \in AnswerKinds : Received(kind) /\ (OnEditDone => kind = "done")
  BY DEF OnEditDone, OnEditConflict, OnEditFailed, localVars, taskVars, historyVars, AnswerKinds
<1>2. PICK d : d = Head(events)
  OBVIOUS
<1>3. /\ InQueue' \subseteq InQueue /\ InQueue \subseteq InQueue' \union {d}
      /\ d \in InQueue /\ d.kind \in AnswerKinds /\ (OnEditDone => d.kind = "done")
  BY <1>1, <1>2, QueueTaken
<1>4. CASE ~IsFor(d.key)
  <2>1. UNCHANGED <<entry, sent>>
    BY <1>1, <1>2, <1>4 DEF OnEditDone, OnEditConflict, OnEditFailed
  <2> QED
    BY <1>1, <1>3, <2>1, ElsewhereSent DEF AnswerKinds
<1>5. CASE IsFor(d.key)
  <2>1. entry # None /\ entry \in Entry
    BY <1>5 DEF IsFor, Types
  <2>2. CASE OnEditDone
    <3>1. /\ entry' = [entry EXCEPT !.state = "Watching", !.snapshot = d.remote,
                                    !.seen = local, !.conflict = None]
          /\ sent' = d.bytes
      BY <1>2, <1>5, <2>2 DEF OnEditDone
    <3>2. entry'.key = entry.key /\ entry'.seen = local
      BY <2>1, <3>1 DEF Entry
    <3>3. sent' = local /\ local \in 1 .. stamp /\ stamp \in Nat
      BY <1>3, <1>5, <2>1, <2>2, <3>1, EditConstants
         DEF SentInv, CurrentInFlight, Types, Stamps
    <3>4. UnsentIsReported'
      BY <1>1, <3>3 DEF UnsentIsReported
    <3> QED
      BY <1>1, <1>3, <2>1, <3>2, <3>3, <3>4, EntrySent
  <2>3. CASE OnEditConflict \/ OnEditFailed
    <3>1. /\ entry'.key = entry.key /\ entry'.seen = entry.seen
          /\ entry'.state \in {"Conflict", "Failed"}
      BY <1>2, <1>5, <2>1, <2>3 DEF OnEditConflict, OnEditFailed, UploadFailed, Entry
    <3>2. UnsentIsReported'
      BY <1>1, <2>1, <2>3, <3>1 DEF SentInv, UnsentIsReported
    <3>3. entry'.seen <= stamp
      BY <2>1, <3>1 DEF SentInv, StampsAreOld
    <3> QED
      BY <1>1, <1>3, <2>1, <3>1, <3>2, <3>3, EntrySent
  <2> QED
    BY <1>5, <2>2, <2>3
<1> QED
  BY <1>4, <1>5

\* resolve_edit: the edit is given up, or written back.
LEMMA DecisionSent ==
    ASSUME Types, SentInv, KeepRemote \/ Overwrite \/ SaveCopy
    PROVE  SentInv'
<1>1. /\ UNCHANGED <<local, stamp, watcher>> /\ InQueue' = InQueue
      /\ entry # None /\ entry \in Entry /\ entry.state = "Conflict"
      /\ Kept(entry).key = entry.key /\ Kept(entry).seen = entry.seen
  BY DEF KeepRemote, Overwrite, SaveCopy, Resolving, localVars, InQueue, Types, Kept, Entry
<1>2. entry.seen <= stamp /\ (entry.seen = 0 => local = sent)
  BY <1>1 DEF SentInv, StampsAreOld, UnsentIsReported
<1>3. CASE Overwrite
  <2>1. sent' = sent /\ Push(Kept(entry))
    BY <1>3 DEF Overwrite
  <2>2. Kept(entry) \in Entry
    <3>1. entry.conflict \in Versions
      BY <1>1, <1>3 DEF Overwrite, Resolving, Entry
    <3> QED
      BY <1>1, <3>1 DEF Kept, Entry, States
  <2> QED
    BY <1>1, <1>2, <2>1, <2>2, PushSent
<1>4. CASE KeepRemote \/ SaveCopy
  <2>1. /\ entry'.key = entry.key /\ entry'.seen = entry.seen /\ uploads' = uploads
        /\ sent' = local \/ (entry'.state = "Failed" /\ sent' = sent)
    BY <1>1, <1>4 DEF KeepRemote, SaveCopy, taskVars, Entry
  <2>2. UnsentIsReported'
    BY <1>1, <1>2, <2>1 DEF UnsentIsReported
  <2> QED
    BY <1>1, <1>2, <2>1, <2>2, EntrySent
<1> QED
  BY <1>3, <1>4

\* The temporary file is written, or goes: the editor saves, the file is opened
\* once more, the user ends the edit.
LEMMA WritingSent ==
    ASSUME Types, EditInv, SentInv, ChangesAreSeen,
           \/ UserSaves \/ EndEdit \/ \E launched \in BOOLEAN : FinishEditOpen(launched)
    PROVE  SentInv'
<1> USE EditConstants DEF Stamps
<1>1. CASE EndEdit
  <2>1. entry' = None /\ watcher' = None /\ InQueue' = InQueue /\ stamp' = stamp
    BY <1>1 DEF EndEdit, InQueue
  <2> QED
    BY <2>1 DEF SentInv, StampsAreOld, CurrentInFlight, UnsentIsReported, IsFor
<1>2. CASE UserSaves \/ \E launched \in BOOLEAN : FinishEditOpen(launched)
  <2>1. /\ InQueue' \subseteq InQueue /\ uploads' = uploads
        /\ \A x \in InQueue : x.kind \in {"tick", "done"} => x \in InQueue'
    <3>1. CASE UserSaves
      BY <3>1 DEF UserSaves, InQueue, taskVars
    <3>2. CASE \E launched \in BOOLEAN : FinishEditOpen(launched)
      BY <3>2, QueueTaken DEF FinishEditOpen, taskVars
    <3> QED
      BY <1>2, <3>1, <3>2
  <2>2. CASE UNCHANGED <<localVars, deskVars, sent>>
    BY <2>1, <2>2, ElsewhereSent DEF localVars, deskVars
  <2>3. CASE ~UNCHANGED <<localVars, deskVars, sent>>
    <3>1. /\ stamp \in Nat /\ stamp' = stamp + 1 /\ local' = stamp + 1
          /\ local \in (1 .. stamp) \union {None} /\ None \notin Nat
      BY <1>2, <2>3 DEF UserSaves, FinishEditOpen, Types
    <3>2. local' # local
      BY <3>1
    <3>3. \/ entry' = entry
          \/ entry = None /\ entry'.key = nextKey /\ entry'.seen = 0 /\ sent' = local'
      BY <1>2, <3>1 DEF UserSaves, FinishEditOpen, deskVars
    <3>4. \/ UNCHANGED <<watcher, sent>>
          \/ /\ watcher'.last = 0 /\ sent' = local'
             /\ watcher'.key = IF entry = None THEN nextKey ELSE entry.key
      BY <1>2, <3>1 DEF UserSaves, FinishEditOpen, deskVars, historyVars
    <3>5. \/ UNCHANGED <<watcher, sent, entry>>
          \/ /\ watcher'.last = 0 /\ sent' = local'
             /\ watcher'.key = IF entry = None THEN nextKey ELSE entry.key
             /\ entry' = entry \/ (entry = None /\ entry'.key = nextKey /\ entry'.seen = 0)
      BY <1>2, <3>1 DEF UserSaves, FinishEditOpen, deskVars, historyVars
    <3>6. StampsAreOld'
      <4>1. \A x \in InQueue' : x.kind = "tick" => x.stamp \in 1 .. stamp'
        BY <2>1, <3>1 DEF SentInv, StampsAreOld
      <4>2. entry' # None => entry'.seen <= stamp'
        <5>1. entry # None => entry.seen \in Nat /\ entry.seen <= stamp
          BY DEF SentInv, StampsAreOld, Types, Entry
        <5> QED
          BY <3>1, <3>5, <5>1
      <4>3. watcher' # None => watcher'.last <= stamp'
        <5>1. watcher # None => watcher.last \in Nat /\ watcher.last <= stamp
          BY DEF SentInv, StampsAreOld, Types
        <5> QED
          BY <3>1, <3>5, <5>1
      <4>4. watcher' # None /\ entry' # None => watcher'.key = entry'.key
        BY <3>5 DEF SentInv, StampsAreOld
      <4> QED
        BY <4>1, <4>2, <4>3, <4>4 DEF StampsAreOld
    <3>7. CurrentInFlight'
      <4>1. ASSUME NEW k, IsFor(k)', (\E u \in uploads : u.key = k) \/ Answered(k)
            PROVE  FALSE
        <5>1. CASE entry' = entry
          BY <3>2, <4>1, <5>1 DEF IsFor, EditInv, OneAtATime, ChangesAreSeen
        <5>2. CASE entry = None /\ entry'.key = nextKey
          BY <4>1, <5>2 DEF IsFor, EditInv, KeysAreOld, Answered
        <5> QED
          BY <3>3, <5>1, <5>2
      <4>2. \A x \in InQueue' : x.kind = "done" => Answered(x.key)
        BY <2>1, QueuedAnswers DEF AnswerKinds
      <4> QED
        BY <2>1, <4>1, <4>2 DEF CurrentInFlight
    <3>8. UnsentIsReported'
      <4>1. CASE sent' = local' /\ ~UNCHANGED <<watcher, sent, entry>>
        BY <4>1 DEF UnsentIsReported
      <4>2. CASE UNCHANGED <<watcher, sent, entry>>
        <5>1. entry # None => entry.seen # 0 /\ entry.seen \in Nat /\ entry.seen <= stamp
          BY <3>2, <4>2 DEF ChangesAreSeen, SentInv, StampsAreOld, Types, Entry
        <5>2. watcher # None => watcher.last \in Nat /\ watcher.last <= stamp
          BY DEF SentInv, StampsAreOld, Types
        <5> QED
          BY <3>1, <4>2, <5>1, <5>2 DEF UnsentIsReported, ReportComes
      <4> QED
        BY <3>5, <4>1, <4>2
    <3> QED
      BY <3>6, <3>7, <3>8 DEF SentInv
  <2> QED
    BY <2>2, <2>3
<1> QED
  BY <1>1, <1>2

\* Every step, under that condition.
LEMMA SentKept ==
    ASSUME Types, EditInv, SentInv, [Next]_vars, ChangesAreSeen \/ UNCHANGED vars
    PROVE  SentInv'
<1>1. CASE UNCHANGED vars
  BY <1>1, TasksSent
<1>2. CASE Next /\ ChangesAreSeen
  BY <1>2, TasksSent, PollSent, TickSent, AnswerSent, DecisionSent, WritingSent
     DEF Next, Handle, UserStep
<1> QED
  BY <1>1, <1>2

\* The question asked before the exit has the right answer as long as the editor
\* saves only after the watcher's first look and not during a write-back, and the
\* path is not opened once more then.  These two moments are all that run
\* edit_unsent finds: no order of reports, conflicts, failures, answers and
\* closed tabs loses another edit.
THEOREM OnlyEarlyOrMidwaySavesAreLost ==
    Spec /\ [][ChangesAreSeen]_vars => []WatchingIsSent
<1>1. Init => SentInv
  BY DEF Init, SentInv, StampsAreOld, CurrentInFlight, UnsentIsReported, InQueue, IsFor
<1>2. VersionedInv /\ SentInv /\ [Next]_vars /\ [ChangesAreSeen]_vars => SentInv'
  BY SentKept DEF VersionedInv
<1>3. VersionedInv /\ SentInv => WatchingIsSent
  <2> SUFFICES ASSUME SentInv, entry # None, entry.state = "Watching", events = <<>>,
                      watcher # None, watcher.last = local
               PROVE  local = sent
    BY DEF WatchingIsSent
  <2>1. InQueue = {}
    BY DEF InQueue
  <2> QED
    BY <2>1 DEF SentInv, UnsentIsReported, ReportComes
<1> QED
  BY <1>1, <1>2, <1>3, VersionInvariance, PTL DEF Spec
=============================================================================
