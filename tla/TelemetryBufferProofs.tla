------------------------ MODULE TelemetryBufferProofs ------------------------
(***************************************************************************)
(* Proofs for TelemetryBuffer: for any number of callers and events, any   *)
(* sizes of queue, packs and batches, and any number of outages, refused   *)
(* messages, failing queries and ends of the process.                      *)
(***************************************************************************)
EXTENDS TelemetryBuffer, FiniteSetTheorems, TLAPS

(***************************************************************************)
(* The inductive invariant.  Ids only grow, and the table is finite.       *)
(***************************************************************************)
TableInv ==
    /\ IsFiniteSet(rows)
    /\ \A r \in rows : r.id <= lastId
    /\ point <= lastId
    /\ \A s \in nextBatch \cup db.got : s.id <= lastId

\* A batch leaves out no row of the table in front of one of its own.
Front(batch) == \A r \in rows, s \in batch : r.id <= s.id => r \in batch

\* A row of the table that is in the batch is one of the first ones.
Early(batch) == batch \cap rows \subseteq FirstRows(rows)

BatchInv == /\ Front(nextBatch) /\ Early(nextBatch)
            /\ Front(db.got) /\ Early(db.got)

\* The rows the next deletion takes.
Doomed == {r \in rows : r.id <= point}

PointInv == /\ Doomed \subseteq FirstRows(rows)
            /\ \A r \in Doomed : r.ev \in offered

\* What the replay thread knows about the pack in its hands.
PackInv ==
    /\ replay.pc = "publish" /\ replay.ok
          => \A r \in replay.pack \ replay.todo : r.ev \in accepted
    /\ replay.pc = "delete" => \A r \in replay.pack : r.ev \in accepted

\* A batch read and not yet stored is all there is in front, as long as none
\* of its rows has been deleted.
GotInv ==
    /\ db.pc # "assign" => db.got = {}
    /\ db.got # {} /\ db.got \subseteq rows => FirstRows(rows) \subseteq db.got

\* As long as no late batch was stored, whatever the replay thread deletes is
\* in the pack it has just published.
LateInv ==
    ~late => /\ AcceptedBeforeDeleted
             /\ nextBatch # {} => Doomed \subseteq nextBatch
             /\ replay.pc \in {"publish", "delete"} => Doomed \subseteq replay.pack

IInv == /\ TypeOK /\ TableInv /\ BatchInv /\ PointInv /\ PackInv /\ GotInv
        /\ DeletedWereOffered /\ LateInv

-----------------------------------------------------------------------------
(***************************************************************************)
(* The rows in front.                                                      *)
(***************************************************************************)

\* What is in front of a row of the front is in the front itself.
LEMMA FirstRowsArePrefix ==
    ASSUME NEW T \in SUBSET Rows, IsFiniteSet(T),
           NEW r \in T, NEW s \in FirstRows(T), r.id <= s.id
    PROVE  r \in FirstRows(T)
<1> DEFINE Before(x) == {t \in T : t.id < x.id}
<1>1. IsFiniteSet(Before(s)) /\ Before(r) \in SUBSET Before(s)
  <2>1. IsFiniteSet(Before(s))
    BY FS_Subset
  <2>2. s \in T /\ \A t \in T : t.id \in Nat
    BY DEF FirstRows, Rows
  <2> QED BY <2>1, <2>2
<1>2. /\ Cardinality(Before(r)) <= Cardinality(Before(s))
      /\ Cardinality(Before(r)) \in Nat
      /\ Cardinality(Before(s)) \in Nat
  BY <1>1, FS_Subset, FS_CardinalityType
<1>3. Cardinality(Before(s)) < PackSize
  BY DEF FirstRows
<1>4. Cardinality(Before(r)) < PackSize
  BY <1>2, <1>3, ConstantsAssumption
<1> QED BY <1>4 DEF FirstRows

\* A row stays in the front when no row is put before it.
LEMMA FirstRowsStay ==
    ASSUME NEW T \in SUBSET Rows, IsFiniteSet(T),
           NEW U \in SUBSET Rows, NEW r \in FirstRows(T), r \in U,
           \A u \in U : u.id < r.id => u \in T
    PROVE  r \in FirstRows(U)
<1> DEFINE Before(V) == {t \in V : t.id < r.id}
<1>1. IsFiniteSet(Before(T)) /\ Before(U) \in SUBSET Before(T)
  BY FS_Subset
<1>2. /\ Cardinality(Before(U)) <= Cardinality(Before(T))
      /\ Cardinality(Before(U)) \in Nat
      /\ Cardinality(Before(T)) \in Nat
  BY <1>1, FS_Subset, FS_CardinalityType
<1>3. Cardinality(Before(T)) < PackSize
  BY DEF FirstRows
<1>4. Cardinality(Before(U)) < PackSize
  BY <1>2, <1>3, ConstantsAssumption
<1> QED BY <1>4 DEF FirstRows

\* The front is part of the table.
LEMMA FirstRowsSubset ==
    ASSUME NEW T
    PROVE  FirstRows(T) \subseteq T
BY DEF FirstRows

\* The inserted rows are well formed and behind all others, and finitely many.
LEMMA NewRowsFacts ==
    ASSUME TypeOK, NEW n \in 0 .. Len(db.batch)
    PROVE  /\ NewRows(n) \subseteq Rows
           /\ IsFiniteSet(NewRows(n))
           /\ \A r \in NewRows(n) : r.id > lastId /\ r.id <= lastId + n
<1>1. /\ lastId \in Nat /\ Len(db.batch) \in Nat /\ n \in Nat
      /\ \A i \in 1 .. n : db.batch[i] \in Events
  BY DEF TypeOK
<1>2. NewRows(n) \subseteq Rows
  BY <1>1 DEF NewRows, Rows
<1>3. \A r \in NewRows(n) : r.id > lastId /\ r.id <= lastId + n
  BY <1>1 DEF NewRows
<1>4. IsFiniteSet(NewRows(n))
  <2> DEFINE D == 1 .. n
             f == [i \in D |-> [id |-> lastId + i, ev |-> db.batch[i]]]
  <2>1. IsFiniteSet(D)
    BY <1>1, FS_Interval
  <2>2. f \in Surjection(D, NewRows(n))
    BY DEF Surjection, NewRows
  <2> QED BY <2>1, <2>2, FS_Surjection
<1> QED BY <1>2, <1>3, <1>4

-----------------------------------------------------------------------------
(***************************************************************************)
(* Types.                                                                  *)
(***************************************************************************)

\* The first event of a sequence and the rest of it.
LEMMA HeadAndTail ==
    ASSUME NEW s \in Seq(Events), s # <<>>
    PROVE  /\ Head(s) \in Events /\ Tail(s) \in Seq(Events)
           /\ Len(s) \in Nat /\ Len(Tail(s)) = Len(s) - 1
OBVIOUS

\* One more event at the end of a sequence.
LEMMA AppendOne ==
    ASSUME NEW s \in Seq(Events), NEW e \in Events
    PROVE  /\ Append(s, e) \in Seq(Events)
           /\ Len(s) \in Nat /\ Len(Append(s, e)) = Len(s) + 1
OBVIOUS

\* The initial state has the types.
LEMMA TypeInit == Init => TypeOK
<1> SUFFICES ASSUME Init PROVE TypeOK
  OBVIOUS
<1> USE ConstantsAssumption
<1>1. caller \in [Callers -> {Idle} \cup
                    [pc : {"queue", "full", "retry", "buffer"}, ev : Events]]
  BY DEF Init
<1>2. queue \in Seq(Events) /\ Len(queue) <= MaxQueue /\ writeQueue \in Seq(Events)
  BY DEF Init
<1>3. replay \in [pc : {"dead", "test", "length", "count", "pack", "publish",
                        "delete", "clear", "allow", "leaving"},
                  pack : SUBSET Rows, todo : SUBSET Rows, ok : BOOLEAN,
                  size : Nat]
  BY DEF Init, Dead
<1>4. /\ db \in [pc : {"top", "read", "assign", "forbid", "process", "collect"},
                 got : SUBSET Rows, batch : Seq(Events)]
      /\ Len(db.batch) <= BatchSize
  BY DEF Init, Top
<1>5. connected \in BOOLEAN /\ canPrepare \in BOOLEAN /\ late \in BOOLEAN
  BY DEF Init
<1>6. loop \in {Waiting} \cup [pc : {"send", "buffer"}, ev : Events]
  BY DEF Init
<1>7. /\ point \in Nat /\ lastId \in Nat /\ published \in 0 .. MaxEvents
      /\ outages \in 0 .. MaxOutages /\ refusals \in 0 .. MaxRefusals
      /\ failures \in 0 .. MaxFailures /\ net \in {"idle", "trigger"}
  BY DEF Init
<1>8. /\ nextBatch \subseteq Rows /\ rows \subseteq Rows /\ accepted \subseteq Events
      /\ offered \subseteq Events /\ deleted \subseteq Events /\ lost \subseteq Events
  BY DEF Init
<1> QED BY <1>1, <1>2, <1>3, <1>4, <1>5, <1>6, <1>7, <1>8 DEF TypeOK

\* publish() keeps the types.
LEMMA TypeCaller ==
    ASSUME TypeOK, NEW c \in Callers, Publish(c) \/ Caller(c)
    PROVE  TypeOK'
<1> USE ConstantsAssumption
<1> DEFINE Calls == {Idle} \cup
                    [pc : {"queue", "full", "retry", "buffer"}, ev : Events]
<1>0. /\ caller[c].pc # "idle" => caller[c].ev \in Events
      /\ caller \in [Callers -> Calls] /\ queue \in Seq(Events)
      /\ writeQueue \in Seq(Events) /\ Len(queue) <= MaxQueue
      /\ Len(queue) \in Nat
  BY DEF TypeOK, Idle
<1>1. CASE Publish(c)
  BY <1>1 DEF TypeOK, Publish, storageVars, Events
<1>2. CASE PutNowait(c)
  <2>1. caller' \in [Callers -> Calls]
    <3>1. CASE caller' = [caller EXCEPT ![c] = Idle]
      BY <1>0, <3>1
    <3>2. CASE caller' = [caller EXCEPT ![c].pc = "full"]
      BY <1>0, <1>2, <3>2 DEF PutNowait, Idle
    <3> QED BY <1>2, <3>1, <3>2 DEF PutNowait
  <2>2. queue' \in Seq(Events) /\ Len(queue') <= MaxQueue
    <3>1. CASE queue' = Append(queue, caller[c].ev) /\ HasRoom
      BY <1>0, <1>2, <3>1, AppendOne DEF PutNowait, HasRoom
    <3>2. CASE queue' = queue
      BY <1>0, <3>2
    <3> QED BY <1>2, <3>1, <3>2 DEF PutNowait
  <2>3. UNCHANGED << connected, net, loop, replay, point, writeQueue, db,
                     nextBatch, canPrepare, rows, lastId, published, accepted,
                     offered, deleted, lost, late, outages, refusals, failures >>
    BY <1>2 DEF PutNowait, storageVars
  <2> QED BY <2>1, <2>2, <2>3 DEF TypeOK
<1>3. CASE DropOldest(c)
  <2>1. caller' \in [Callers -> Calls]
    BY SMTT(30), <1>0, <1>3 DEF DropOldest, Idle
  <2>2. queue' \in Seq(Events) /\ Len(queue') <= MaxQueue
    <3>1. CASE queue # <<>> /\ queue' = Tail(queue)
      BY <1>0, <3>1, HeadAndTail
    <3>2. CASE queue' = queue
      BY <1>0, <3>2
    <3> QED BY <1>3, <3>1, <3>2 DEF DropOldest
  <2>3. lost' \subseteq Events
    <3>1. lost \subseteq Events
      BY DEF TypeOK
    <3>2. CASE queue # <<>> /\ lost' = lost \cup {Head(queue)}
      BY <1>0, <3>1, <3>2, HeadAndTail
    <3>3. CASE lost' = lost
      BY <3>1, <3>3
    <3> QED BY <1>3, <3>2, <3>3 DEF DropOldest
  <2> QED BY SMTT(30), <1>3, <2>1, <2>2, <2>3 DEF TypeOK, DropOldest, storageVars
<1>4. CASE PutAgain(c)
  <2>1. caller' \in [Callers -> Calls]
    BY <1>0, <1>4 DEF PutAgain
  <2>2. queue' \in Seq(Events) /\ Len(queue') <= MaxQueue
    <3>1. CASE queue' = Append(queue, caller[c].ev) /\ HasRoom
      BY <1>0, <1>4, <3>1, AppendOne DEF PutAgain, HasRoom
    <3>2. CASE queue' = queue
      BY <1>0, <3>2
    <3> QED BY <1>4, <3>1, <3>2 DEF PutAgain
  <2>3. lost' \subseteq Events
    BY <1>0, <1>4 DEF PutAgain, TypeOK
  <2> QED BY <1>4, <2>1, <2>2, <2>3 DEF TypeOK, PutAgain, storageVars
<1>5. CASE PublishOffline(c)
  <2>1. caller' \in [Callers -> Calls] /\ writeQueue' \in Seq(Events)
    BY <1>0, <1>5 DEF PublishOffline, BufferEvent
  <2> QED BY <1>5, <2>1 DEF TypeOK, PublishOffline, BufferEvent
<1> QED BY <1>1, <1>2, <1>3, <1>4, <1>5 DEF Caller

\* The publisher thread keeps the types.
LEMMA TypePublisher ==
    ASSUME TypeOK, Publisher
    PROVE  TypeOK'
<1> USE ConstantsAssumption
<1>0. /\ loop.pc # "get" => loop.ev \in Events
      /\ queue \in Seq(Events) /\ writeQueue \in Seq(Events)
      /\ Len(queue) <= MaxQueue /\ Len(queue) \in Nat
  BY DEF TypeOK, Waiting
<1>1. CASE LoopGet
  <2>1. /\ loop' \in {Waiting} \cup [pc : {"send", "buffer"}, ev : Events]
        /\ queue' \in Seq(Events) /\ Len(queue') <= MaxQueue
    BY <1>0, <1>1 DEF LoopGet
  <2> QED BY <1>1, <2>1 DEF TypeOK, LoopGet, storageVars
<1>2. CASE LoopSend
  <2>1. loop' \in {Waiting} \cup [pc : {"send", "buffer"}, ev : Events]
    BY <1>0, <1>2 DEF LoopSend, TypeOK, Waiting
  <2>2. accepted' \subseteq Events /\ refusals' \in 0 .. MaxRefusals
    <3>1. accepted \subseteq Events /\ refusals \in 0 .. MaxRefusals
      BY DEF TypeOK
    <3>2. \/ accepted' = accepted
          \/ loop.pc = "send" /\ accepted' = accepted \cup {loop.ev}
      BY <1>2 DEF LoopSend
    <3>3. \/ refusals' = refusals
          \/ refusals < MaxRefusals /\ refusals' = refusals + 1
      BY <1>2 DEF LoopSend
    <3> QED BY <1>0, <3>1, <3>2, <3>3
  <2>3. UNCHANGED << connected, net, caller, queue, replay, point, writeQueue,
                     db, nextBatch, canPrepare, rows, lastId, published,
                     offered, deleted, lost, late, outages, failures >>
    BY <1>2 DEF LoopSend, storageVars
  <2> QED BY SMTT(30), <2>1, <2>2, <2>3 DEF TypeOK
<1>3. CASE LoopBuffer
  <2>1. writeQueue' \in Seq(Events)
    BY <1>0, <1>3 DEF LoopBuffer, BufferEvent
  <2> QED BY <1>3, <2>1 DEF TypeOK, LoopBuffer, BufferEvent
<1> QED BY <1>1, <1>2, <1>3 DEF Publisher

\* The network thread and the replay thread keep the types.
LEMMA TypeReplayer ==
    ASSUME TypeOK, Network \/ Replayer
    PROVE  TypeOK'
<1> USE ConstantsAssumption
<1> DEFINE Threads == [pc : {"dead", "test", "length", "count", "pack",
                             "publish", "delete", "clear", "allow", "leaving"},
                       pack : SUBSET Rows, todo : SUBSET Rows, ok : BOOLEAN,
                       size : Nat]
<1>0. /\ replay \in Threads
      /\ \A s \in {"test", "length", "leaving", "clear"} :
            [Dead EXCEPT !.pc = s] \in Threads
  BY DEF TypeOK, Dead
<1>1. CASE Network
  <2>1. CASE OnConnect
    BY <2>1 DEF TypeOK, OnConnect, storageVars
  <2>3. CASE OnDisconnect
    <3>1. connected' \in BOOLEAN
      BY <2>3 DEF OnDisconnect
    <3>2. outages \in 0 .. MaxOutages
      BY DEF TypeOK
    <3>3. outages' \in 0 .. MaxOutages
      BY <2>3, <3>2 DEF OnDisconnect
    <3> QED BY <2>3, <3>1, <3>3 DEF TypeOK, OnDisconnect, storageVars
  <2>2. CASE TriggerReplay
    <3>1. replay' \in Threads
      BY <1>0, <2>2 DEF TriggerReplay
    <3> QED BY <2>2, <3>1 DEF TypeOK, TriggerReplay, storageVars
  <2> QED BY <1>1, <2>1, <2>2, <2>3 DEF Network
<1>2. CASE ReplayTest \/ ReplayFinish \/ ReplayEnds
  <2>1. replay' \in Threads
    <3>1. CASE ReplayTest
      BY <1>0, <3>1 DEF ReplayTest
    <3>2. CASE ReplayFinish
      BY <1>0, <3>2 DEF ReplayFinish
    <3>3. CASE ReplayEnds
      BY <3>3 DEF ReplayEnds, Dead
    <3> QED BY <1>2, <3>1, <3>2, <3>3
  <2> QED BY <1>2, <2>1 DEF TypeOK, ReplayTest, ReplayFinish, ReplayEnds, storageVars
<1>3. CASE ReplayLength \/ ReplayCount
  <2>1. replay' \in Threads
    <3>1. CASE ReplayLength
      <4>1. Len(writeQueue) \in Nat
        BY DEF TypeOK
      <4> QED BY <1>0, <3>1, <4>1 DEF ReplayLength
    <3>2. CASE ReplayCount
      BY <1>0, <3>2 DEF ReplayCount
    <3> QED BY <1>3, <3>1, <3>2
  <2> QED BY <1>3, <2>1 DEF TypeOK, ReplayLength, ReplayCount, storageVars
<1>4. CASE GetEventPack
  <2>1. ReadData \subseteq Rows
    BY DEF ReadData, FirstRows, TypeOK
  <2>2. replay' \in Threads
    <3>1. CASE replay' = [replay EXCEPT !.pc = "test"]
      BY <1>0, <3>1
    <3>2. CASE replay' = [replay EXCEPT !.pc = "publish", !.pack = ReadData,
                                        !.todo = ReadData, !.ok = TRUE]
      BY <1>0, <2>1, <3>2
    <3> QED BY <1>4, <3>1, <3>2 DEF GetEventPack
  <2>3. point' \in Nat /\ offered' \subseteq Events
    <3>1. \A r \in ReadData : r.id \in Nat /\ r.ev \in Events
      BY <2>1 DEF Rows
    <3>2. point \in Nat /\ offered \subseteq Events
      BY DEF TypeOK
    <3> QED BY <1>4, <3>1, <3>2 DEF GetEventPack
  <2> QED BY <1>4, <2>2, <2>3 DEF TypeOK, GetEventPack
<1>5. CASE ReplayPublish
  <2>1. replay' \in Threads
    <3>1. ASSUME NEW r, replay' = [replay EXCEPT !.todo = @ \ {r}]
          PROVE  replay' \in Threads
      BY <1>0, <3>1
    <3>2. ASSUME NEW r, replay' = [replay EXCEPT !.todo = @ \ {r}, !.ok = FALSE]
          PROVE  replay' \in Threads
      BY <1>0, <3>2
    <3>3. CASE replay' = [replay EXCEPT !.todo = {}, !.ok = FALSE]
      BY <1>0, <3>3
    <3> QED BY <1>5, <3>1, <3>2, <3>3 DEF ReplayPublish
  <2>2. \A r \in replay.todo : r.ev \in Events
    BY <1>0 DEF Rows
  <2>3. accepted' \subseteq Events /\ refusals' \in 0 .. MaxRefusals
    <3>1. accepted \subseteq Events /\ refusals \in 0 .. MaxRefusals
      BY DEF TypeOK
    <3>2. \/ accepted' = accepted
          \/ \E r \in replay.todo : accepted' = accepted \cup {r.ev}
      BY <1>5 DEF ReplayPublish
    <3>3. \/ refusals' = refusals
          \/ refusals < MaxRefusals /\ refusals' = refusals + 1
      BY <1>5 DEF ReplayPublish
    <3> QED BY <2>2, <3>1, <3>2, <3>3
  <2> QED BY <1>5, <2>1, <2>3 DEF TypeOK, ReplayPublish, storageVars
<1>6. CASE DeleteData
  <2>1. replay' \in Threads
    BY <1>0, <1>6 DEF DeleteData
  <2>2. \A r \in rows : r.ev \in Events
    BY DEF Rows, TypeOK
  <2>3. rows' \subseteq Rows /\ deleted' \subseteq Events
    BY SMTT(30), <1>6, <2>2 DEF DeleteData, Kept, TypeOK
  <2> QED BY <1>6, <2>1, <2>3 DEF TypeOK, DeleteData
<1>8. CASE CountFails \/ PackFails \/ DeleteFails
  <2>1. replay' \in Threads
    <3>1. CASE CountFails
      BY <1>0, <3>1 DEF CountFails
    <3>2. CASE PackFails
      BY <1>0, <3>2 DEF PackFails
    <3>3. CASE DeleteFails
      BY <1>0, <3>3 DEF DeleteFails
    <3> QED BY <1>8, <3>1, <3>2, <3>3
  <2>2. failures \in 0 .. MaxFailures
    BY DEF TypeOK
  <2>3. failures' \in 0 .. MaxFailures
    BY <1>8, <2>2 DEF CountFails, PackFails, DeleteFails
  <2>4. UNCHANGED << connected, net, caller, queue, loop, point, writeQueue, db,
                     nextBatch, canPrepare, rows, lastId, published, accepted,
                     offered, deleted, lost, late, outages, refusals >>
    BY <1>8 DEF CountFails, PackFails, DeleteFails, storageVars
  <2> QED BY <2>1, <2>3, <2>4 DEF TypeOK
<1>7. CASE ClearNextBatch \/ CanPrepareNewBatch
  <2>1. replay' \in Threads
    BY <1>0, <1>7 DEF ClearNextBatch, CanPrepareNewBatch
  <2>2. nextBatch' \subseteq Rows /\ canPrepare' \in BOOLEAN
    BY <1>7 DEF ClearNextBatch, CanPrepareNewBatch, TypeOK
  <2>3. UNCHANGED << connected, net, caller, queue, loop, point, writeQueue, db,
                     rows, lastId, published, accepted, offered, deleted, lost,
                     late, outages, refusals, failures >>
    BY <1>7 DEF ClearNextBatch, CanPrepareNewBatch
  <2> QED BY SMTT(30), <2>1, <2>2, <2>3 DEF TypeOK
<1> QED BY <1>1, <1>2, <1>3, <1>4, <1>5, <1>6, <1>7, <1>8 DEF Replayer

\* The database thread keeps the types.
LEMMA TypeDatabase ==
    ASSUME TypeOK, DatabaseThread
    PROVE  TypeOK'
<1> USE ConstantsAssumption
<1> DEFINE Threads == [pc : {"top", "read", "assign", "forbid", "process",
                             "collect"},
                       got : SUBSET Rows, batch : Seq(Events)]
<1>0. /\ db \in Threads /\ Len(db.batch) <= BatchSize
      /\ Top \in Threads /\ Len(Top.batch) <= BatchSize
      /\ writeQueue \in Seq(Events)
  BY DEF TypeOK, Top
<1>1. CASE DbTop \/ DbRead \/ DbAssign \/ DbForbid
  <2>1. db' \in Threads /\ db'.batch = db.batch
    <3>1. FirstRows(rows) \subseteq Rows
      BY DEF FirstRows, TypeOK
    <3> QED BY <1>0, <1>1, <3>1 DEF DbTop, DbRead, DbAssign, DbForbid
  <2>2. nextBatch' \subseteq Rows
    BY <1>0, <1>1 DEF DbTop, DbRead, DbAssign, DbForbid, TypeOK
  <2>3. late' \in BOOLEAN /\ canPrepare' \in BOOLEAN
    BY <1>1 DEF DbTop, DbRead, DbAssign, DbForbid, TypeOK
  <2> QED BY SMTT(30), <1>0, <1>1, <2>1, <2>2, <2>3
      DEF TypeOK, DbTop, DbRead, DbAssign, DbForbid, DbUnchanged
<1>2. CASE DbIdle
  BY <1>0, <1>2 DEF TypeOK, DbIdle, DbUnchanged
<1>3. CASE DbCollect
  <2>1. db' \in Threads /\ Len(db'.batch) <= BatchSize
    <3>1. /\ Append(db.batch, Head(writeQueue)) \in Seq(Events)
          /\ Len(Append(db.batch, Head(writeQueue))) <= BatchSize
      BY <1>0, <1>3, HeadAndTail, AppendOne DEF DbCollect
    <3> QED BY <1>0, <1>3, <3>1 DEF DbCollect
  <2>2. writeQueue' \in Seq(Events)
    BY <1>0, <1>3 DEF DbCollect
  <2> QED BY SMTT(30), <1>3, <2>1, <2>2 DEF TypeOK, DbCollect, DbUnchanged
<1>4. CASE DbWrite
  <2>1. Len(db.batch) \in Nat /\ Len(db.batch) \in 0 .. Len(db.batch)
    BY DEF TypeOK
  <2>2. rows' \subseteq Rows /\ lastId' \in Nat
    <3>1. NewRows(Len(db.batch)) \subseteq Rows
      BY <2>1, NewRowsFacts
    <3>2. rows \subseteq Rows /\ lastId \in Nat
      BY DEF TypeOK
    <3>3. rows' = rows \cup NewRows(Len(db.batch)) /\ lastId' = lastId + Len(db.batch)
      BY <1>4 DEF DbWrite, Insert
    <3> QED BY <2>1, <3>1, <3>2, <3>3
  <2> QED BY <1>0, <1>4, <2>2 DEF TypeOK, DbWrite, DbUnchanged
<1>5. CASE DbWriteFails
  <2>1. PICK n \in 0 .. Len(db.batch) - 1 :
          /\ Insert(n)
          /\ lost' = lost \cup {db.batch[i] : i \in n + 1 .. Len(db.batch)}
    BY <1>5 DEF DbWriteFails
  <2>2. n \in 0 .. Len(db.batch)
    BY <1>0, <2>1
  <2>3. rows' \subseteq Rows /\ lastId' \in Nat
    <3>1. NewRows(n) \subseteq Rows
      BY <2>2, NewRowsFacts
    <3>2. rows \subseteq Rows /\ lastId \in Nat /\ n \in Nat
      BY <2>2 DEF TypeOK
    <3>3. rows' = rows \cup NewRows(n) /\ lastId' = lastId + n
      BY <2>1 DEF Insert
    <3> QED BY <3>1, <3>2, <3>3
  <2>4. lost' \subseteq Events
    <3>1. db.batch \in Seq(Events) /\ lost \subseteq Events /\ n \in Nat
      BY <1>0, <2>2 DEF TypeOK
    <3>2. \A i \in n + 1 .. Len(db.batch) : db.batch[i] \in Events
      BY <3>1
    <3> QED BY <2>1, <3>1, <3>2
  <2>5. failures' \in 0 .. MaxFailures
    <3>1. failures \in 0 .. MaxFailures
      BY DEF TypeOK
    <3>2. failures < MaxFailures /\ failures' = failures + 1
      BY <1>5 DEF DbWriteFails
    <3> QED BY <3>1, <3>2
  <2>6. /\ db' = Top /\ UNCHANGED << writeQueue, nextBatch, canPrepare, late >>
        /\ DbUnchanged
    BY <1>5 DEF DbWriteFails
  <2> HIDE <1>5, <2>1
  <2> QED BY <1>0, <2>3, <2>4, <2>5, <2>6 DEF TypeOK, DbUnchanged
<1>6. CASE DbReadFails
  <2>1. db' \in Threads /\ db'.batch = db.batch
    BY <1>0, <1>6 DEF DbReadFails
  <2>2. failures \in 0 .. MaxFailures
    BY DEF TypeOK
  <2>3. failures' \in 0 .. MaxFailures
    BY <1>6, <2>2 DEF DbReadFails
  <2> QED BY SMTT(30), <1>0, <1>6, <2>1, <2>3 DEF TypeOK, DbReadFails, DbUnchanged
<1> QED BY <1>1, <1>2, <1>3, <1>4, <1>5, <1>6 DEF DatabaseThread

\* The end of the process keeps the types.
LEMMA TypeRestart ==
    ASSUME TypeOK, Restart
    PROVE  TypeOK'
<1> USE ConstantsAssumption
<1>1. caller' \in [Callers -> {Idle} \cup
                    [pc : {"queue", "full", "retry", "buffer"}, ev : Events]]
  BY DEF Restart
<1>2. queue' \in Seq(Events) /\ Len(queue') <= MaxQueue /\ writeQueue' \in Seq(Events)
  BY DEF Restart
<1>3. replay' \in [pc : {"dead", "test", "length", "count", "pack", "publish",
                         "delete", "clear", "allow", "leaving"},
                   pack : SUBSET Rows, todo : SUBSET Rows, ok : BOOLEAN,
                   size : Nat]
  BY DEF Restart, Dead
<1>4. /\ db' \in [pc : {"top", "read", "assign", "forbid", "process", "collect"},
                  got : SUBSET Rows, batch : Seq(Events)]
      /\ Len(db'.batch) <= BatchSize
  BY DEF Restart, Top
<1>5. accepted' \subseteq Events /\ lost' \subseteq Events
  <2>1. /\ EventsIn(queue) \subseteq Events /\ EventsIn(writeQueue) \subseteq Events
        /\ EventsIn(db.batch) \subseteq Events
    BY DEF TypeOK, EventsIn
  <2>2. /\ \A c \in Callers : caller[c].ev \in Events \cup {0}
        /\ loop.ev \in Events \cup {0}
    BY DEF TypeOK, Idle, Waiting
  <2>3. InMemory \ {0} \subseteq Events
    BY <2>1, <2>2 DEF InMemory
  <2>4. PICK sent \in SUBSET EventsIn(queue) :
           /\ accepted' = accepted \cup sent
           /\ lost' = lost \cup ((InMemory \ sent) \ {0})
    BY DEF Restart
  <2> QED BY <2>1, <2>3, <2>4 DEF TypeOK
<1>6. failures' \in 0 .. MaxFailures
  BY DEF Restart, TypeOK
<1> QED BY <1>1, <1>2, <1>3, <1>4, <1>5, <1>6 DEF Restart, TypeOK

\* Every step keeps the types.
LEMMA TypeNext ==
    ASSUME TypeOK, [Next]_vars
    PROVE  TypeOK'
<1>1. CASE UNCHANGED vars
  BY <1>1 DEF TypeOK, vars
<1>2. CASE Restart
  BY <1>2, TypeRestart
<1>3. CASE Network \/ Replayer
  BY <1>3, TypeReplayer
<1>4. CASE DatabaseThread
  BY <1>4, TypeDatabase
<1>5. CASE \E c \in Callers : Publish(c) \/ Caller(c)
  BY <1>5, TypeCaller
<1>6. CASE Publisher
  BY <1>6, TypePublisher
<1> QED BY <1>1, <1>2, <1>3, <1>4, <1>5, <1>6 DEF Next

-----------------------------------------------------------------------------
(***************************************************************************)
(* The rest of the invariant.                                              *)
(***************************************************************************)
Rest == TableInv /\ BatchInv /\ PointInv /\ PackInv /\ GotInv
          /\ DeletedWereOffered /\ LateInv

\* A step that leaves the table, the batches and the pack alone.
Quiet ==
    /\ UNCHANGED << rows, lastId, point, nextBatch, offered, deleted, late >>
    /\ db'.got = db.got
    /\ db'.pc = "assign" <=> db.pc = "assign"
    /\ replay' = replay \/ replay'.pc \notin {"publish", "delete"}
    /\ accepted \subseteq accepted'

\* Such a step keeps the invariant.
LEMMA QuietStep ==
    ASSUME TypeOK, Rest, Quiet
    PROVE  Rest'
<1>1. TableInv'
  BY DEF Rest, TableInv, Quiet
<1>2. BatchInv'
  BY DEF Rest, BatchInv, Front, Early, Quiet
<1>3. PointInv'
  BY DEF Rest, PointInv, Doomed, Quiet
<1>4. PackInv'
  BY DEF Rest, PackInv, Quiet
<1>5. GotInv'
  BY DEF Rest, GotInv, Quiet
<1>6. DeletedWereOffered'
  BY DEF Rest, DeletedWereOffered, Quiet
<1>7. LateInv'
  BY DEF Rest, LateInv, AcceptedBeforeDeleted, Doomed, Quiet
<1> QED BY <1>1, <1>2, <1>3, <1>4, <1>5, <1>6, <1>7 DEF Rest

\* The steps of the callers, of the publisher and of the network thread.
LEMMA SendersAreQuiet ==
    ASSUME TypeOK,
           \/ UNCHANGED vars \/ Publisher \/ Network
           \/ \E c \in Callers : Publish(c) \/ Caller(c)
    PROVE  Quiet
<1>1. CASE UNCHANGED vars
  BY <1>1 DEF vars, Quiet
<1>2. CASE Publisher
  BY <1>2 DEF Publisher, LoopGet, LoopSend, LoopBuffer, BufferEvent,
      storageVars, Quiet
<1>3. CASE Network
  <2>1. CASE OnConnect \/ OnDisconnect
    BY <2>1 DEF OnConnect, OnDisconnect, storageVars, Quiet
  <2>2. CASE TriggerReplay
    <3>1. replay' = replay \/ replay'.pc = "test"
      BY <2>2 DEF TriggerReplay, Dead
    <3> QED BY <2>2, <3>1 DEF TriggerReplay, storageVars, Quiet
  <2> QED BY <1>3, <2>1, <2>2 DEF Network
<1>4. ASSUME NEW c \in Callers, Publish(c) \/ Caller(c)
      PROVE  Quiet
  BY <1>4 DEF Publish, Caller, PutNowait, DropOldest, PutAgain,
      PublishOffline, BufferEvent, storageVars, Quiet
<1> QED BY <1>1, <1>2, <1>3, <1>4

\* The steps of the replay thread that only move it on.
LEMMA ReplayIsQuiet ==
    ASSUME TypeOK,
           \/ ReplayTest \/ ReplayLength \/ ReplayCount
           \/ CanPrepareNewBatch \/ ReplayEnds
           \/ GetEventPack /\ ReadData = {}
           \/ CountFails \/ PackFails \/ DeleteFails
    PROVE  Quiet
<1>1. CASE ReplayTest
  <2>1. replay'.pc \in {"length", "leaving"}
    BY <1>1 DEF ReplayTest, Dead
  <2> QED BY <1>1, <2>1 DEF ReplayTest, storageVars, Quiet
<1>2. CASE ReplayLength
  <2>1. replay'.pc = "count"
    BY <1>2 DEF ReplayLength, TypeOK
  <2> QED BY <1>2, <2>1 DEF ReplayLength, storageVars, Quiet
<1>3. CASE ReplayCount
  <2>1. replay'.pc \in {"leaving", "pack"}
    BY <1>3 DEF ReplayCount, TypeOK
  <2> QED BY <1>3, <2>1 DEF ReplayCount, storageVars, Quiet
<1>4. CASE CanPrepareNewBatch
  <2>1. replay'.pc = "test"
    BY <1>4 DEF CanPrepareNewBatch, TypeOK
  <2> QED BY <1>4, <2>1 DEF CanPrepareNewBatch, Quiet
<1>5. CASE ReplayEnds
  <2>1. replay'.pc = "dead"
    BY <1>5 DEF ReplayEnds, Dead
  <2> QED BY <1>5, <2>1 DEF ReplayEnds, storageVars, Quiet
<1>6. CASE GetEventPack /\ ReadData = {}
  <2>1. replay'.pc = "test"
    BY <1>6 DEF GetEventPack, TypeOK
  <2> QED BY <1>6, <2>1 DEF GetEventPack, Quiet
<1>7. CASE CountFails \/ PackFails \/ DeleteFails
  <2>1. replay'.pc \in {"leaving", "pack", "test", "clear"}
    BY <1>7 DEF CountFails, PackFails, DeleteFails, Dead, TypeOK
  <2> QED BY <1>7, <2>1 DEF CountFails, PackFails, DeleteFails, storageVars, Quiet
<1> QED BY <1>1, <1>2, <1>3, <1>4, <1>5, <1>6, <1>7

\* The steps of the database thread that touch neither table nor batches.
LEMMA DatabaseIsQuiet ==
    ASSUME TypeOK, Rest,
           DbTop \/ DbForbid \/ DbIdle \/ DbCollect
    PROVE  Quiet
<1>1. /\ db.pc # "assign" => db.got = {}
      /\ Top.got = {} /\ Top.pc # "assign"
  BY DEF Rest, GotInv, Top
<1>2. db.pc # "assign" /\ db'.pc # "assign" /\ db'.got = db.got
  <2>1. CASE DbTop
    BY <2>1 DEF DbTop, TypeOK
  <2>2. CASE DbForbid
    BY <2>2 DEF DbForbid, TypeOK
  <2>3. CASE DbIdle
    BY <1>1, <2>3 DEF DbIdle
  <2>4. CASE DbCollect
    BY <2>4 DEF DbCollect, TypeOK
  <2> QED BY <2>1, <2>2, <2>3, <2>4
<1> QED BY <1>2 DEF DbTop, DbForbid, DbIdle, DbCollect, DbUnchanged, Quiet

\* get_event_pack: the pack has every row up to its greatest id, so the new
\* delete_time_point endangers only rows of the pack.
LEMMA PackStep ==
    ASSUME TypeOK, Rest, GetEventPack, ReadData # {}
    PROVE  Rest'
<1> DEFINE P == ReadData
<1>1. /\ rows \subseteq Rows /\ IsFiniteSet(rows) /\ point \in Nat
      /\ lastId \in Nat /\ nextBatch \subseteq Rows
  BY DEF TypeOK, Rest, TableInv
<1>2. P \subseteq Rows /\ \A s \in P : s.id \in Nat /\ s.id <= lastId
  <2>1. \A s \in rows \cup nextBatch : s.id \in Nat /\ s.id <= lastId
    BY <1>1 DEF Rows, Rest, TableInv
  <2> QED BY <1>1, <2>1, FirstRowsSubset DEF ReadData
<1>3. \A r \in rows, s \in P : r.id <= s.id => r \in P
  BY <1>1, FirstRowsArePrefix DEF ReadData, Rest, BatchInv, Front
<1>4. P \cap rows \subseteq FirstRows(rows)
  BY DEF ReadData, Rest, BatchInv, Early
<1>5. /\ UNCHANGED << rows, lastId, nextBatch, db, deleted, late, accepted >>
      /\ replay'.pc = "publish" /\ replay'.pack = P /\ replay'.todo = P
      /\ offered' = offered \cup {r.ev : r \in P}
      /\ point' \in {point} \cup {r.id : r \in P}
      /\ point <= point'
  BY DEF GetEventPack, TypeOK
<1>6. ASSUME NEW r \in rows, r.id <= point'
      PROVE  r \in Doomed \/ r \in P
  BY <1>3, <1>5, <1>6 DEF Doomed
<1>7. TableInv'
  BY <1>1, <1>2, <1>5 DEF Rest, TableInv
<1>8. BatchInv'
  BY <1>5 DEF Rest, BatchInv, Front, Early
<1>9. PointInv'
  BY <1>4, <1>5, <1>6 DEF Rest, PointInv, Doomed
<1>10. PackInv'
  BY <1>5 DEF PackInv
<1>11. GotInv'
  BY <1>5 DEF Rest, GotInv
<1>12. DeletedWereOffered'
  BY <1>5 DEF Rest, DeletedWereOffered
<1>13. LateInv'
  <2> SUFFICES ASSUME ~late PROVE LateInv'
    BY <1>5 DEF LateInv
  <2>1. Doomed \subseteq P
    BY DEF Rest, LateInv, PointInv, ReadData
  <2>2. Doomed' \subseteq P
    BY <1>5, <1>6, <2>1 DEF Doomed
  <2>3. nextBatch # {} => P = nextBatch
    BY DEF ReadData
  <2> QED BY <1>5, <2>2, <2>3 DEF Rest, LateInv, AcceptedBeforeDeleted
<1> QED BY <1>7, <1>8, <1>9, <1>10, <1>11, <1>12, <1>13 DEF Rest

\* The loop over the pack, and its end.
LEMMA PublishStep ==
    ASSUME TypeOK, Rest, ReplayPublish \/ ReplayFinish
    PROVE  Rest'
<1>1. UNCHANGED << rows, lastId, point, nextBatch, db, offered, deleted, late >>
  BY DEF ReplayPublish, ReplayFinish, storageVars
<1>2. replay.pc = "publish" /\ accepted \subseteq accepted'
  BY DEF ReplayPublish, ReplayFinish
<1>3. /\ replay'.pc \in {"publish", "delete"} => replay'.pack = replay.pack
      /\ PackInv'
  <2>1. CASE ReplayFinish
    <3>1. CASE PackAccepted
      <4>1. replay'.pc = "delete" /\ replay'.pack = replay.pack
        BY <2>1, <3>1 DEF ReplayFinish, TypeOK
      <4>2. \A r \in replay.pack : r.ev \in accepted
        BY <1>2, <3>1 DEF PackAccepted, Rest, PackInv
      <4> QED BY <1>2, <4>1, <4>2 DEF PackInv
    <3>2. CASE ~PackAccepted
      <4>1. replay'.pc = "test"
        BY <2>1, <3>2 DEF ReplayFinish, Dead
      <4> QED BY <4>1 DEF PackInv
    <3> QED BY <3>1, <3>2
  <2>2. ASSUME NEW r \in replay.todo, accepted' = accepted \cup {r.ev},
               replay' = [replay EXCEPT !.todo = @ \ {r}]
        PROVE  replay'.pack = replay.pack /\ PackInv'
    <3>1. /\ replay'.pc = "publish" /\ replay'.pack = replay.pack
          /\ replay'.todo = replay.todo \ {r} /\ replay'.ok = replay.ok
      BY <1>2, <2>2 DEF TypeOK
    <3> QED BY <1>2, <2>2, <3>1 DEF Rest, PackInv
  <2>3. ASSUME NEW t, replay' = [replay EXCEPT !.todo = t, !.ok = FALSE]
        PROVE  replay'.pack = replay.pack /\ PackInv'
    <3>1. /\ replay'.pc = "publish" /\ replay'.pack = replay.pack
          /\ replay'.ok = FALSE
      BY <1>2, <2>3 DEF TypeOK
    <3> QED BY <3>1 DEF PackInv
  <2>4. CASE ReplayPublish
    <3>1. \/ \E r \in replay.todo :
                /\ accepted' = accepted \cup {r.ev}
                /\ replay' = [replay EXCEPT !.todo = @ \ {r}]
          \/ \E t : replay' = [replay EXCEPT !.todo = t, !.ok = FALSE]
      BY <2>4 DEF ReplayPublish
    <3> QED BY <2>2, <2>3, <3>1
  <2> QED BY <2>1, <2>4
<1>4. TableInv' /\ BatchInv' /\ PointInv' /\ GotInv' /\ DeletedWereOffered'
  BY <1>1 DEF Rest, TableInv, BatchInv, Front, Early, PointInv, Doomed, GotInv,
      DeletedWereOffered
<1>5. LateInv'
  BY <1>1, <1>2, <1>3 DEF Rest, LateInv, AcceptedBeforeDeleted, Doomed
<1> QED BY <1>3, <1>4, <1>5 DEF Rest

\* The deletion: it takes the doomed rows, which were offered, and which are in
\* the published pack unless a late batch was stored.
LEMMA DeleteStep ==
    ASSUME TypeOK, Rest, DeleteData
    PROVE  Rest'
<1>1. /\ rows \subseteq Rows /\ IsFiniteSet(rows) /\ point \in Nat
      /\ \A r \in rows : r.id \in Nat
  BY DEF TypeOK, Rest, TableInv, Rows
<1>2. /\ UNCHANGED << lastId, point, nextBatch, db, offered, late, accepted >>
      /\ replay.pc = "delete" /\ replay'.pc = "clear"
      /\ rows' = {r \in rows : r.id > point}
      /\ deleted' = deleted \cup {r.ev : r \in Doomed}
  <2>1. rows \ Kept = Doomed
    BY <1>1 DEF Kept, Doomed
  <2> QED BY <2>1 DEF DeleteData, Kept, Dead
<1>3. rows' \subseteq rows /\ rows' \subseteq Rows /\ Doomed' = {}
  BY <1>1, <1>2 DEF Doomed
<1>4. \A r \in rows' : r \in FirstRows(rows) => r \in FirstRows(rows')
  BY <1>1, <1>3, FirstRowsStay
<1>5. TableInv'
  <2>1. IsFiniteSet(rows')
    BY <1>1, <1>3, FS_Subset
  <2> QED BY <1>2, <1>3, <2>1 DEF Rest, TableInv
<1>6. BatchInv'
  BY <1>2, <1>3, <1>4 DEF Rest, BatchInv, Front, Early
<1>7. PointInv'
  BY <1>3 DEF PointInv
<1>8. PackInv'
  BY <1>2 DEF PackInv
<1>9. GotInv'
  <2> SUFFICES ASSUME db.got # {}, db.got \subseteq rows'
               PROVE  FirstRows(rows') \subseteq db.got
    BY <1>2 DEF Rest, GotInv
  <2>1. FirstRows(rows) \subseteq db.got
    BY <1>3 DEF Rest, GotInv
  <2>2. PICK g \in db.got : g \in rows /\ g.id > point
    BY <1>2
  <2>3. \A d \in rows : d.id > point
    <3> SUFFICES ASSUME NEW d \in rows, d.id <= point PROVE FALSE
      BY <1>1
    <3>1. d.id <= g.id
      BY <1>1, <2>2
    <3>2. d \in db.got
      BY <2>2, <3>1 DEF Rest, BatchInv, Front
    <3> QED BY <1>1, <1>2, <3>2
  <2>4. rows' = rows
    BY <1>2, <2>3
  <2> QED BY <2>1, <2>4
<1>10. DeletedWereOffered'
  BY <1>2 DEF Rest, DeletedWereOffered, PointInv
<1>11. LateInv'
  <2> SUFFICES ASSUME ~late PROVE LateInv'
    BY <1>2 DEF LateInv
  <2>1. \A r \in Doomed : r.ev \in accepted
    BY <1>2 DEF Rest, LateInv, PackInv
  <2>2. AcceptedBeforeDeleted'
    BY <1>2, <2>1 DEF Rest, LateInv, AcceptedBeforeDeleted
  <2> QED BY <1>2, <1>3, <2>2 DEF LateInv
<1> QED BY <1>5, <1>6, <1>7, <1>8, <1>9, <1>10, <1>11 DEF Rest

\* The prepared batch is given up.
LEMMA ClearStep ==
    ASSUME TypeOK, Rest, ClearNextBatch
    PROVE  Rest'
<1>1. /\ UNCHANGED << rows, lastId, point, db, offered, deleted, late, accepted >>
      /\ nextBatch' = {} /\ replay'.pc = "allow"
  BY DEF ClearNextBatch, TypeOK
<1>2. TableInv' /\ BatchInv' /\ PointInv' /\ GotInv' /\ DeletedWereOffered'
  BY <1>1 DEF Rest, TableInv, BatchInv, Front, Early, PointInv, Doomed, GotInv,
      DeletedWereOffered
<1>3. PackInv' /\ LateInv'
  BY <1>1 DEF Rest, PackInv, LateInv, AcceptedBeforeDeleted
<1> QED BY <1>2, <1>3 DEF Rest

\* The database thread reads a batch.
LEMMA ReadStep ==
    ASSUME TypeOK, Rest, DbRead
    PROVE  Rest'
<1>1. /\ UNCHANGED << rows, lastId, point, nextBatch, offered, deleted, late,
                      accepted, replay >>
      /\ db'.got = FirstRows(rows) /\ db'.pc = "assign"
  BY DEF DbRead, DbUnchanged, TypeOK
<1>2. TableInv'
  BY <1>1, FirstRowsSubset DEF Rest, TableInv
<1>3. BatchInv'
  <2>1. rows \subseteq Rows /\ IsFiniteSet(rows)
    BY DEF TypeOK, Rest, TableInv
  <2>2. Front(FirstRows(rows))
    BY <2>1, FirstRowsArePrefix DEF Front
  <2>3. Early(FirstRows(rows))
    BY DEF Early
  <2> QED BY <1>1, <2>2, <2>3 DEF Rest, BatchInv, Front, Early
<1>4. PointInv' /\ PackInv' /\ GotInv' /\ DeletedWereOffered' /\ LateInv'
  BY <1>1 DEF Rest, PointInv, PackInv, Doomed, GotInv, DeletedWereOffered,
      LateInv, AcceptedBeforeDeleted
<1> QED BY <1>2, <1>3, <1>4 DEF Rest

\* Its query fails.
LEMMA ReadFailsStep ==
    ASSUME TypeOK, Rest, DbReadFails
    PROVE  Rest'
<1>1. /\ UNCHANGED << rows, lastId, point, nextBatch, offered, deleted, late,
                      accepted, replay >>
      /\ db'.got = {} /\ db'.pc = "assign"
  BY DEF DbReadFails, DbUnchanged, TypeOK
<1>2. TableInv' /\ BatchInv' /\ PointInv' /\ PackInv' /\ GotInv'
  BY <1>1 DEF Rest, TableInv, BatchInv, Front, Early, PointInv, Doomed, PackInv,
      GotInv
<1>3. DeletedWereOffered' /\ LateInv'
  BY <1>1 DEF Rest, Doomed, DeletedWereOffered, LateInv, AcceptedBeforeDeleted
<1> QED BY <1>2, <1>3 DEF Rest

\* The database thread stores the batch it has read.
LEMMA AssignStep ==
    ASSUME TypeOK, Rest, DbAssign
    PROVE  Rest'
<1>1. /\ UNCHANGED << rows, lastId, point, offered, deleted, accepted, replay >>
      /\ nextBatch' = db.got /\ db'.got = {} /\ db'.pc = "forbid"
      /\ late' = (late \/ ~(db.got \subseteq rows))
  BY DEF DbAssign, DbUnchanged, TypeOK
<1>2. TableInv'
  BY <1>1 DEF Rest, TableInv
<1>3. BatchInv'
  BY <1>1 DEF Rest, BatchInv, Front, Early
<1>4. PointInv' /\ PackInv' /\ GotInv' /\ DeletedWereOffered'
  BY <1>1 DEF Rest, PointInv, PackInv, Doomed, GotInv, DeletedWereOffered
<1>5. LateInv'
  <2> SUFFICES ASSUME ~late, db.got \subseteq rows PROVE LateInv'
    BY <1>1 DEF LateInv
  <2>1. db.got # {} => Doomed \subseteq db.got
    BY DEF Rest, GotInv, PointInv
  <2>2. Doomed' = Doomed
    BY <1>1 DEF Doomed
  <2> QED BY <1>1, <2>1, <2>2 DEF Rest, LateInv, AcceptedBeforeDeleted
<1> QED BY <1>2, <1>3, <1>4, <1>5 DEF Rest

\* The insertion, complete or not: new rows are behind every row and every batch.
LEMMA WriteStep ==
    ASSUME TypeOK, Rest, DbWrite \/ DbWriteFails
    PROVE  Rest'
<1>0. PICK n \in 0 .. Len(db.batch) : Insert(n)
  <2>1. Len(db.batch) \in Nat
    BY DEF TypeOK
  <2> QED BY <2>1 DEF DbWrite, DbWriteFails
<1>1. /\ UNCHANGED << point, nextBatch, offered, deleted, late, accepted, replay >>
      /\ rows' = rows \cup NewRows(n) /\ lastId' = lastId + n
      /\ db'.pc = "top" /\ db'.got = {}
  BY <1>0 DEF DbWrite, DbWriteFails, DbUnchanged, Insert, Top
<1>2. /\ rows \subseteq Rows /\ IsFiniteSet(rows) /\ point \in Nat
      /\ lastId \in Nat /\ n \in Nat /\ nextBatch \subseteq Rows
      /\ point <= lastId
      /\ \A r \in rows \cup nextBatch : r.id \in Nat /\ r.id <= lastId
  BY DEF TypeOK, Rest, TableInv, Rows
<1>3. /\ NewRows(n) \subseteq Rows /\ IsFiniteSet(NewRows(n))
      /\ \A r \in NewRows(n) : r.id \in Nat /\ r.id > lastId
                                 /\ r.id <= lastId + n
  BY NewRowsFacts DEF Rows
<1>4. rows' \subseteq Rows
  BY <1>1, <1>2, <1>3
<1>5. \A r \in FirstRows(rows) : r \in FirstRows(rows')
  <2> SUFFICES ASSUME NEW r \in FirstRows(rows) PROVE r \in FirstRows(rows')
    OBVIOUS
  <2>1. r \in rows /\ r \in rows'
    BY <1>1, FirstRowsSubset
  <2>2. \A u \in rows' : u.id < r.id => u \in rows
    BY <1>1, <1>2, <1>3, <2>1
  <2> QED BY <1>2, <1>4, <2>1, <2>2, FirstRowsStay
<1>6. TableInv'
  <2>1. IsFiniteSet(rows')
    BY <1>1, <1>2, <1>3, FS_Union
  <2>2. \A r \in rows' : r.id <= lastId'
    BY <1>1, <1>2, <1>3
  <2>3. point' <= lastId' /\ \A r \in nextBatch' \cup db'.got : r.id <= lastId'
    BY <1>1, <1>2
  <2> QED BY <2>1, <2>2, <2>3 DEF TableInv
<1>7. BatchInv'
  <2>1. Front(nextBatch)'
    BY <1>1, <1>2, <1>3 DEF Rest, BatchInv, Front
  <2>2. Early(nextBatch)'
    <3>1. nextBatch \cap rows' \subseteq nextBatch \cap rows
      BY <1>1, <1>2, <1>3
    <3> QED BY <1>1, <1>5, <3>1 DEF Rest, BatchInv, Early
  <2>3. Front(db.got)' /\ Early(db.got)'
    BY <1>1 DEF Front, Early
  <2> QED BY <2>1, <2>2, <2>3 DEF BatchInv
<1>8. Doomed' = Doomed
  BY <1>1, <1>2, <1>3 DEF Doomed
<1>9. PointInv'
  BY <1>1, <1>5, <1>8 DEF Rest, PointInv
<1>10. PackInv' /\ GotInv' /\ DeletedWereOffered'
  BY <1>1 DEF Rest, PackInv, GotInv, DeletedWereOffered
<1>11. LateInv'
  BY <1>1, <1>8 DEF Rest, LateInv, AcceptedBeforeDeleted
<1> QED BY <1>6, <1>7, <1>9, <1>10, <1>11 DEF Rest

\* After a restart only the table is left.
LEMMA RestartStep ==
    ASSUME TypeOK, Rest, Restart
    PROVE  Rest'
<1>1. /\ UNCHANGED << rows, lastId, offered, deleted, late >>
      /\ point' = 0 /\ nextBatch' = {} /\ db'.got = {} /\ db'.pc = "top"
      /\ replay'.pc = "dead" /\ accepted \subseteq accepted'
  BY DEF Restart, Top, Dead
<1>2. lastId \in Nat /\ Doomed' = {}
  BY <1>1 DEF TypeOK, Rows, Doomed
<1>3. TableInv' /\ BatchInv' /\ PointInv' /\ GotInv'
  BY <1>1, <1>2 DEF Rest, TableInv, BatchInv, Front, Early, PointInv, GotInv
<1>4. PackInv' /\ DeletedWereOffered' /\ LateInv'
  BY <1>1 DEF Rest, PackInv, DeletedWereOffered, LateInv, AcceptedBeforeDeleted
<1> QED BY <1>3, <1>4 DEF Rest

-----------------------------------------------------------------------------
(***************************************************************************)
(* Every state of every behaviour satisfies the inductive invariant.       *)
(***************************************************************************)
THEOREM Inductive == Spec => []IInv
<1>1. Init => IInv
  <2> SUFFICES ASSUME Init PROVE Rest
    BY TypeInit DEF IInv, Rest
  <2>1. TableInv
    BY FS_EmptySet DEF Init, TableInv, Top
  <2>2. BatchInv /\ PointInv /\ PackInv /\ GotInv
    BY DEF Init, BatchInv, Front, Early, PointInv, Doomed, PackInv, GotInv, Top,
        Dead
  <2>3. DeletedWereOffered /\ LateInv
    BY DEF Init, DeletedWereOffered, LateInv, AcceptedBeforeDeleted, Dead
  <2> QED BY <2>1, <2>2, <2>3 DEF Rest
<1>2. IInv /\ [Next]_vars => IInv'
  <2> SUFFICES ASSUME TypeOK, Rest, [Next]_vars PROVE Rest'
    BY TypeNext DEF IInv, Rest
  <2>1. CASE Quiet
    BY <2>1, QuietStep
  <2>2. CASE \/ UNCHANGED vars \/ Publisher \/ Network
             \/ \E c \in Callers : Publish(c) \/ Caller(c)
    BY <2>1, <2>2, SendersAreQuiet
  <2>3. CASE Replayer
    BY <2>1, <2>3, ReplayIsQuiet, PackStep, PublishStep, DeleteStep, ClearStep
       DEF Replayer
  <2>4. CASE DatabaseThread
    BY <2>1, <2>4, DatabaseIsQuiet, ReadStep, ReadFailsStep, AssignStep,
       WriteStep
       DEF DatabaseThread
  <2>5. CASE Restart
    BY <2>5, RestartStep
  <2> QED BY <2>2, <2>3, <2>4, <2>5 DEF Next
<1> QED BY <1>1, <1>2, PTL DEF Spec

\* The variables keep their types; the queue never exceeds its bound.
THEOREM TypeCorrectness == Spec => []TypeOK
<1>1. IInv => TypeOK
  BY DEF IInv
<1> QED BY Inductive, <1>1, PTL

(***************************************************************************)
(* event_pack_processing_done deletes by id; it never deletes a row that   *)
(* no pack of get_event_pack has contained.                                *)
(***************************************************************************)
THEOREM NoBlindDeletion == Spec => []DeletedWereOffered
<1>1. IInv => DeletedWereOffered
  BY DEF IInv
<1> QED BY Inductive, <1>1, PTL

(***************************************************************************)
(* _replay_loop deletes only what the MQTT client has accepted, as long as *)
(* Database.run stores no batch whose rows were deleted after it was read. *)
(***************************************************************************)
THEOREM DeletionsAreSafe == Spec => []AcceptedUnlessLate
<1>1. IInv => AcceptedUnlessLate
  BY DEF IInv, LateInv, AcceptedUnlessLate
<1> QED BY Inductive, <1>1, PTL

-----------------------------------------------------------------------------
(***************************************************************************)
(* Where the events are.  A step moves an event from one place to another: *)
(* the places together never give one up.  This needs no more than the     *)
(* types and that the database thread holds a batch only between           *)
(* collecting and writing it.                                              *)
(***************************************************************************)
HeldInv == db.pc # "collect" => db.batch = <<>>

Known == InMemory \cup Buffered \cup accepted \cup lost \cup deleted

Somewhere == 1 .. published \subseteq Known

\* What an appended event adds to a sequence's events.
LEMMA EventsInAppend ==
    ASSUME NEW s \in Seq(Events), NEW e \in Events
    PROVE  EventsIn(Append(s, e)) = EventsIn(s) \cup {e}
<1>1. /\ Len(s) \in Nat /\ Len(Append(s, e)) = Len(s) + 1
      /\ \A i \in 1 .. Len(s) : Append(s, e)[i] = s[i]
      /\ Append(s, e)[Len(s) + 1] = e
  OBVIOUS
<1>2. \A i \in 1 .. Len(s) + 1 : i \in 1 .. Len(s) \/ i = Len(s) + 1
  BY <1>1
<1>3. /\ \A i \in 1 .. Len(s) : i \in 1 .. Len(s) + 1
      /\ Len(s) + 1 \in 1 .. Len(s) + 1
  BY <1>1
<1> QED BY <1>1, <1>2, <1>3 DEF EventsIn

\* The events of a sequence are its first one and those of the rest.
LEMMA EventsInTail ==
    ASSUME NEW s \in Seq(Events), s # <<>>
    PROVE  EventsIn(s) = {Head(s)} \cup EventsIn(Tail(s))
<1>1. /\ Len(s) \in Nat /\ Len(s) > 0 /\ Len(Tail(s)) = Len(s) - 1
      /\ Head(s) = s[1]
      /\ \A i \in 1 .. Len(s) - 1 : Tail(s)[i] = s[i + 1]
  OBVIOUS
<1>2. \A i \in 1 .. Len(s) : i = 1 \/ (i - 1 \in 1 .. Len(s) - 1 /\ (i - 1) + 1 = i)
  BY <1>1
<1>3. 1 \in 1 .. Len(s) /\ \A i \in 1 .. Len(s) - 1 : i + 1 \in 1 .. Len(s)
  BY <1>1
<1>4. ASSUME NEW e \in EventsIn(s) PROVE e = Head(s) \/ e \in EventsIn(Tail(s))
  <2>1. PICK i \in 1 .. Len(s) : e = s[i]
    BY DEF EventsIn
  <2>2. CASE i = 1
    BY <1>1, <2>1, <2>2
  <2>3. CASE i # 1
    <3>1. i - 1 \in 1 .. Len(s) - 1 /\ (i - 1) + 1 = i
      BY <1>2, <2>3
    <3>2. Tail(s)[i - 1] = s[i]
      BY <1>1, <3>1
    <3> QED BY <1>1, <2>1, <3>1, <3>2 DEF EventsIn
  <2> QED BY <2>2, <2>3
<1>5. ASSUME NEW e \in EventsIn(Tail(s)) PROVE e \in EventsIn(s)
  <2>1. PICK i \in 1 .. Len(s) - 1 : e = Tail(s)[i]
    BY <1>1 DEF EventsIn
  <2>2. i + 1 \in 1 .. Len(s) /\ e = s[i + 1]
    BY <1>1, <1>3, <2>1
  <2> QED BY <2>2 DEF EventsIn
<1>6. Head(s) \in EventsIn(s)
  BY <1>1, <1>3 DEF EventsIn
<1> QED BY <1>4, <1>5, <1>6

\* A caller keeps its event or gives it to the queue, to the write queue or up.
LEMMA KnownCaller ==
    ASSUME TypeOK, NEW c \in Callers, Publish(c) \/ Caller(c)
    PROVE  Known \ {0} \subseteq Known'
<1>0. /\ caller[c].pc = "idle" => caller[c].ev = 0
      /\ caller[c].pc # "idle" => caller[c].ev \in Events
      /\ DOMAIN caller = Callers
      /\ caller[c] = [pc |-> caller[c].pc, ev |-> caller[c].ev]
      /\ queue \in Seq(Events) /\ writeQueue \in Seq(Events)
  BY DEF TypeOK, Idle
<1>1. /\ UNCHANGED << loop, db, rows, accepted, deleted >>
      /\ lost \subseteq lost'
      /\ \A d \in Callers \ {c} : caller'[d] = caller[d]
  BY <1>0 DEF Publish, Caller, PutNowait, DropOldest, PutAgain, PublishOffline,
      BufferEvent, storageVars
<1>2. EventsIn(queue) \subseteq EventsIn(queue') \cup lost'
  <2>1. CASE queue' = queue
    BY <2>1
  <2>2. CASE caller[c].ev \in Events /\ queue' = Append(queue, caller[c].ev)
    BY <1>0, <2>2, EventsInAppend
  <2>3. CASE queue # <<>> /\ queue' = Tail(queue) /\ lost' = lost \cup {Head(queue)}
    BY <1>0, <2>3, EventsInTail
  <2> QED BY <1>0, <2>1, <2>2, <2>3 DEF Publish, Caller, PutNowait, DropOldest,
          PutAgain, PublishOffline
<1>3. EventsIn(writeQueue) \subseteq EventsIn(writeQueue')
  <2>1. CASE writeQueue' = writeQueue
    BY <2>1
  <2>2. CASE caller[c].ev \in Events /\ writeQueue' = Append(writeQueue, caller[c].ev)
    BY <1>0, <2>2, EventsInAppend
  <2> QED BY <1>0, <2>1, <2>2 DEF Publish, Caller, PutNowait, DropOldest,
          PutAgain, PublishOffline, BufferEvent, storageVars
<1>4. \/ caller[c].ev = 0
      \/ caller'[c].ev = caller[c].ev
      \/ caller[c].ev \in EventsIn(queue') \cup EventsIn(writeQueue') \cup lost'
  <2>1. CASE Publish(c)
    BY <1>0, <2>1 DEF Publish
  <2>2. CASE PutNowait(c)
    <3>1. CASE queue' = Append(queue, caller[c].ev)
      BY <1>0, <2>2, <3>1, EventsInAppend DEF PutNowait
    <3>2. CASE caller' = [caller EXCEPT ![c].pc = "full"]
      BY <1>0, <3>2
    <3> QED BY <2>2, <3>1, <3>2 DEF PutNowait
  <2>3. CASE DropOldest(c)
    BY <1>0, <2>3 DEF DropOldest
  <2>4. CASE PutAgain(c)
    <3>1. CASE queue' = Append(queue, caller[c].ev)
      BY <1>0, <2>4, <3>1, EventsInAppend DEF PutAgain
    <3>2. CASE lost' = lost \cup {caller[c].ev}
      BY <3>2
    <3> QED BY <2>4, <3>1, <3>2 DEF PutAgain
  <2>5. CASE PublishOffline(c)
    BY <1>0, <2>5, EventsInAppend DEF PublishOffline, BufferEvent
  <2> QED BY <2>1, <2>2, <2>3, <2>4, <2>5 DEF Caller
<1>5. ASSUME NEW d \in Callers
      PROVE  \/ caller[d].ev = 0
             \/ caller[d].ev \in {caller'[x].ev : x \in Callers}
             \/ caller[d].ev \in EventsIn(queue') \cup EventsIn(writeQueue') \cup lost'
  <2>1. CASE d = c
    BY <1>4, <2>1
  <2>2. CASE d # c
    BY <1>1, <2>2
  <2> QED BY <2>1, <2>2
<1>6. Buffered' = Buffered /\ EventsIn(db.batch)' = EventsIn(db.batch)
  BY <1>1 DEF Buffered, EventsIn
<1>7. InMemory \ {0} \subseteq InMemory' \cup lost'
  <2>1. InMemory' = {caller'[x].ev : x \in Callers} \cup EventsIn(queue')
                      \cup {loop'.ev} \cup EventsIn(writeQueue')
                      \cup EventsIn(db'.batch)
    BY DEF InMemory, EventsIn
  <2> QED BY <1>1, <1>2, <1>3, <1>5, <1>6, <2>1 DEF InMemory
<1> QED BY <1>1, <1>6, <1>7 DEF Known

\* The publisher thread takes an event from the queue to the client or to the
\* write queue.
LEMMA KnownPublisher ==
    ASSUME TypeOK, Publisher
    PROVE  Known \ {0} \subseteq Known' /\ UNCHANGED << db, published >>
<1>0. /\ loop.pc = "get" => loop.ev = 0
      /\ loop.pc # "get" => loop.ev \in Events
      /\ loop = [pc |-> loop.pc, ev |-> loop.ev]
      /\ queue \in Seq(Events) /\ writeQueue \in Seq(Events)
  BY DEF TypeOK, Waiting
<1>1. /\ UNCHANGED << caller, db, rows, lost, deleted, published >>
      /\ accepted \subseteq accepted'
  BY DEF Publisher, LoopGet, LoopSend, LoopBuffer, BufferEvent, storageVars
<1>2. EventsIn(queue) \subseteq EventsIn(queue') \cup {loop'.ev}
  <2>1. CASE queue' = queue
    BY <2>1
  <2>2. CASE LoopGet
    BY <1>0, <2>2, EventsInTail DEF LoopGet
  <2> QED BY <2>1, <2>2 DEF Publisher, LoopSend, LoopBuffer
<1>3. EventsIn(writeQueue) \subseteq EventsIn(writeQueue')
  <2>1. CASE writeQueue' = writeQueue
    BY <2>1
  <2>2. CASE LoopBuffer
    BY <1>0, <2>2, EventsInAppend DEF LoopBuffer, BufferEvent
  <2> QED BY <2>1, <2>2 DEF Publisher, LoopGet, LoopSend, storageVars
<1>4. loop.ev = 0 \/ loop.ev = loop'.ev \/ loop.ev \in accepted' \cup EventsIn(writeQueue')
  <2>1. CASE LoopGet
    BY <1>0, <2>1 DEF LoopGet
  <2>2. CASE LoopSend
    BY <1>0, <2>2 DEF LoopSend
  <2>3. CASE LoopBuffer
    BY <1>0, <2>3, EventsInAppend DEF LoopBuffer, BufferEvent
  <2> QED BY <2>1, <2>2, <2>3 DEF Publisher
<1>5. Buffered' = Buffered
  BY <1>1 DEF Buffered
<1>6. InMemory' = {caller[x].ev : x \in Callers} \cup EventsIn(queue')
                    \cup {loop'.ev} \cup EventsIn(writeQueue') \cup EventsIn(db.batch)
  BY <1>1 DEF InMemory, EventsIn
<1> QED BY <1>1, <1>2, <1>3, <1>4, <1>5, <1>6 DEF Known, InMemory

\* The network thread moves nothing; the replay thread only deletes rows.
LEMMA KnownReplayer ==
    ASSUME TypeOK, Network \/ Replayer
    PROVE  Known \subseteq Known' /\ UNCHANGED << db, published >>
<1>1. /\ UNCHANGED << caller, queue, loop, writeQueue, db, lost, published >>
      /\ accepted \subseteq accepted' /\ deleted \subseteq deleted'
      /\ rows' = rows \/ DeleteData
  <2>1. CASE Network
    BY <2>1 DEF Network, OnConnect, TriggerReplay, OnDisconnect, storageVars
  <2>2. CASE ReplayTest \/ ReplayLength \/ ReplayCount \/ CountFails \/ PackFails
    BY <2>2 DEF ReplayTest, ReplayLength, ReplayCount, CountFails, PackFails,
        storageVars
  <2>3. CASE GetEventPack
    BY <2>3 DEF GetEventPack
  <2>4. CASE ReplayPublish
    <3>1. UNCHANGED << caller, queue, loop, writeQueue, db, rows, lost, published,
                       deleted >>
      BY Zenon, <2>4 DEF ReplayPublish, storageVars
    <3>2. accepted' = accepted \/ \E r \in replay.todo : accepted' = accepted \cup {r.ev}
      BY Zenon, <2>4 DEF ReplayPublish
    <3> QED BY <3>1, <3>2
  <2>5. CASE ReplayFinish \/ DeleteFails \/ ReplayEnds
    BY <2>5 DEF ReplayFinish, DeleteFails, ReplayEnds, storageVars
  <2>6. CASE DeleteData \/ ClearNextBatch \/ CanPrepareNewBatch
    BY <2>6 DEF DeleteData, ClearNextBatch, CanPrepareNewBatch
  <2> QED BY <2>1, <2>2, <2>3, <2>4, <2>5, <2>6 DEF Replayer
<1>2. InMemory' = InMemory
  BY <1>1 DEF InMemory, EventsIn
<1>3. Buffered \subseteq Buffered' \cup deleted'
  <2>1. CASE DeleteData
    BY <2>1 DEF DeleteData, Buffered
  <2>2. CASE ~DeleteData
    BY <1>1, <2>2 DEF Buffered
  <2> QED BY <2>1, <2>2
<1> QED BY <1>1, <1>2, <1>3 DEF Known

\* The database thread takes events from the write queue to its batch and from
\* there to the table; what a failing insertion leaves out is lost.
LEMMA KnownDatabase ==
    ASSUME TypeOK, HeldInv, DatabaseThread
    PROVE  Known \subseteq Known' /\ HeldInv' /\ published' = published
<1>0. /\ writeQueue \in Seq(Events) /\ db.batch \in Seq(Events) /\ lastId \in Nat
      /\ Len(db.batch) \in Nat
  BY DEF TypeOK
<1>1. /\ UNCHANGED << caller, queue, loop, accepted, deleted, published >>
      /\ lost \subseteq lost'
  BY DEF DatabaseThread, DbTop, DbRead, DbReadFails, DbAssign, DbForbid, DbIdle,
      DbCollect, DbWrite, DbWriteFails, DbUnchanged
<1>2. InMemory' = {caller[x].ev : x \in Callers} \cup EventsIn(queue)
                    \cup {loop.ev} \cup EventsIn(writeQueue') \cup EventsIn(db'.batch)
  BY <1>1 DEF InMemory, EventsIn
<1>3. CASE DbTop \/ DbRead \/ DbReadFails \/ DbAssign \/ DbForbid
  <2>1. /\ UNCHANGED << writeQueue, rows >> /\ db'.batch = db.batch
        /\ db.pc # "collect" /\ db'.pc # "collect"
    BY <1>3 DEF TypeOK, DbTop, DbRead, DbReadFails, DbAssign, DbForbid
  <2>2. Buffered' = Buffered
    BY <2>1 DEF Buffered
  <2> QED BY <1>1, <1>2, <2>1, <2>2 DEF Known, InMemory, HeldInv
<1>4. CASE DbIdle
  <2>1. UNCHANGED << writeQueue, rows >> /\ db'.batch = db.batch
    BY <1>4 DEF DbIdle, HeldInv, Top
  <2>2. Buffered' = Buffered
    BY <2>1 DEF Buffered
  <2>3. HeldInv'
    BY <1>4 DEF DbIdle, HeldInv, Top
  <2> QED BY <1>1, <1>2, <2>1, <2>2, <2>3 DEF Known, InMemory
<1>5. CASE DbCollect
  <2>1. /\ writeQueue # <<>> /\ writeQueue' = Tail(writeQueue)
        /\ db'.batch = Append(db.batch, Head(writeQueue)) /\ db'.pc = "collect"
        /\ rows' = rows
    BY <1>5 DEF DbCollect, TypeOK
  <2>2. Head(writeQueue) \in Events
    BY <1>0, <2>1
  <2>3. EventsIn(db'.batch) = EventsIn(db.batch) \cup {Head(writeQueue)}
    BY <1>0, <2>1, <2>2, EventsInAppend
  <2>4. EventsIn(writeQueue) = {Head(writeQueue)} \cup EventsIn(writeQueue')
    BY <1>0, <2>1, EventsInTail
  <2>5. Buffered' = Buffered
    BY <2>1 DEF Buffered
  <2>6. HeldInv'
    BY <2>1 DEF HeldInv
  <2> QED BY <1>1, <1>2, <2>3, <2>4, <2>5, <2>6 DEF Known, InMemory
<1>6. CASE DbWrite \/ DbWriteFails
  <2>1. PICK n \in 0 .. Len(db.batch) :
              /\ Insert(n)
              /\ \A i \in n + 1 .. Len(db.batch) : db.batch[i] \in lost'
    <3>1. CASE DbWrite
      <4>1. Len(db.batch) + 1 .. Len(db.batch) = {}
        BY <1>0
      <4> QED BY <1>0, <3>1, <4>1 DEF DbWrite
    <3>2. CASE DbWriteFails
      <4>1. PICK n \in 0 .. Len(db.batch) - 1 :
                  /\ Insert(n)
                  /\ lost' = lost \cup {db.batch[i] : i \in n + 1 .. Len(db.batch)}
        BY <3>2 DEF DbWriteFails
      <4>2. n \in 0 .. Len(db.batch)
        BY <1>0
      <4> QED BY <4>1, <4>2
    <3> QED BY <1>6, <3>1, <3>2
  <2>2. Buffered \cup {db.batch[i] : i \in 1 .. n} \subseteq Buffered'
    <3>1. rows' = rows \cup NewRows(n)
      BY <2>1 DEF Insert
    <3>2. ASSUME NEW i \in 1 .. n
          PROVE  \E r \in NewRows(n) : r.ev = db.batch[i]
      <4> DEFINE r == [id |-> lastId + i, ev |-> db.batch[i]]
      <4>1. r \in NewRows(n) /\ r.ev = db.batch[i]
        BY DEF NewRows
      <4> QED BY <4>1
    <3> QED BY <3>1, <3>2 DEF Buffered
  <2>3. EventsIn(db.batch) \subseteq Buffered' \cup lost'
    <3> SUFFICES ASSUME NEW i \in 1 .. Len(db.batch)
                 PROVE  db.batch[i] \in Buffered' \cup lost'
      BY DEF EventsIn
    <3>1. i \in 1 .. n \/ i \in n + 1 .. Len(db.batch)
      BY <1>0
    <3> QED BY <2>1, <2>2, <3>1
  <2>4. writeQueue' = writeQueue
    BY <1>6 DEF DbWrite, DbWriteFails
  <2>5. HeldInv'
    BY <1>6 DEF DbWrite, DbWriteFails, HeldInv, Top
  <2> QED BY <1>1, <1>2, <2>2, <2>3, <2>4, <2>5 DEF Known, InMemory
<1> QED BY <1>3, <1>4, <1>5, <1>6 DEF DatabaseThread

\* At the end of the process what is in memory is sent or lost.
LEMMA KnownRestart ==
    ASSUME TypeOK, Restart
    PROVE  Known \ {0} \subseteq Known' /\ HeldInv' /\ published' = published
<1>1. InMemory \ {0} \subseteq accepted' \cup lost'
  BY DEF Restart
<1>2. /\ accepted \subseteq accepted' /\ lost \subseteq lost' /\ deleted' = deleted
      /\ rows' = rows /\ published' = published
  BY DEF Restart
<1>3. Buffered' = Buffered
  BY <1>2 DEF Buffered
<1>4. HeldInv'
  BY DEF Restart, HeldInv, Top
<1> QED BY <1>1, <1>2, <1>3, <1>4 DEF Known

\* Every published event is somewhere.
LEMMA SomewhereStep ==
    ASSUME TypeOK, HeldInv, Somewhere, [Next]_vars
    PROVE  Somewhere' /\ HeldInv'
<1>0. published \in Nat
  BY ConstantsAssumption DEF TypeOK
<1>1. CASE \E c \in Callers : Publish(c) \/ Caller(c)
  <2>1. PICK c \in Callers : Publish(c) \/ Caller(c)
    BY <1>1
  <2>2. Known \ {0} \subseteq Known'
    BY <2>1, KnownCaller
  <2>3. HeldInv'
    BY <2>1 DEF Publish, Caller, PutNowait, DropOldest, PutAgain, PublishOffline,
        BufferEvent, storageVars, HeldInv
  <2>4. CASE Publish(c)
    <3>1. published' = published + 1 /\ caller'[c].ev = published + 1
      BY <2>4 DEF Publish, TypeOK
    <3>2. published + 1 \in Known'
      <4>1. caller'[c].ev \in InMemory'
        BY DEF InMemory
      <4> QED BY <3>1, <4>1 DEF Known
    <3>3. \A e \in 1 .. published + 1 : e # 0 /\ (e \in 1 .. published \/ e = published + 1)
      BY <1>0
    <3> QED BY <2>2, <2>3, <3>1, <3>2, <3>3 DEF Somewhere
  <2>5. CASE Caller(c)
    <3>1. published' = published
      BY <2>5 DEF Caller, PutNowait, DropOldest, PutAgain, PublishOffline
    <3>2. \A e \in 1 .. published : e # 0
      BY <1>0
    <3> QED BY <2>2, <2>3, <3>1, <3>2 DEF Somewhere
  <2> QED BY <2>1, <2>4, <2>5
<1>2. CASE Publisher \/ Network \/ Replayer \/ DatabaseThread \/ Restart
  <2>1. published' = published /\ Known \ {0} \subseteq Known'
    BY <1>2, KnownPublisher, KnownReplayer, KnownDatabase, KnownRestart
  <2>3. HeldInv'
    BY <1>2, KnownPublisher, KnownReplayer, KnownDatabase, KnownRestart DEF HeldInv
  <2>4. \A e \in 1 .. published : e # 0
    BY <1>0
  <2> QED BY <2>1, <2>3, <2>4 DEF Somewhere
<1>3. CASE UNCHANGED vars
  <2>1. /\ UNCHANGED << caller, queue, loop, writeQueue, db, rows, accepted,
                        lost, deleted, published >>
    BY <1>3 DEF vars
  <2>2. Known' = Known
    BY <2>1 DEF Known, InMemory, Buffered, EventsIn
  <2> QED BY <2>1, <2>2 DEF Somewhere, HeldInv
<1> QED BY <1>1, <1>2, <1>3 DEF Next

(***************************************************************************)
(* publish(), _publish_loop, _replay_loop, Database.run and the end of the *)
(* process, in any order: an event that was published and not accepted is  *)
(* in some thread's hands, in a queue or in the table, or was lost by      *)
(* overflow, by a failing insertion or by the end of the process, unless a *)
(* late batch was stored.                                                  *)
(***************************************************************************)
THEOREM EventsAreKept == Spec => []NothingVanishes
<1>1. Init => Somewhere /\ HeldInv
  BY DEF Init, Somewhere, HeldInv, Top
<1>2. IInv /\ Somewhere /\ HeldInv /\ [Next]_vars => Somewhere' /\ HeldInv'
  BY SomewhereStep DEF IInv
<1>3. IInv /\ Somewhere => NothingVanishes
  BY DEF IInv, LateInv, AcceptedBeforeDeleted, Somewhere, Known, NothingVanishes
<1> QED BY Inductive, <1>1, <1>2, <1>3, PTL DEF Spec

=============================================================================
