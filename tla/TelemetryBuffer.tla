--------------------------- MODULE TelemetryBuffer ---------------------------
(***************************************************************************)
(* Store and forward: the way of a telemetry event from publish() to the   *)
(* MQTT client, through the bounded in-memory queue while the broker is    *)
(* reachable and through the SQLite buffer while it is not                 *)
(* (novena_gateway/gateway/novena_mqtt_publisher.py and                    *)
(* novena_gateway/storage/sqlite).                                         *)
(*                                                                         *)
(* Five kinds of threads meet here: the callers of publish(), the          *)
(* publisher thread, paho's network thread, the replay thread and the      *)
(* database thread.  One step of the model is what one of them does        *)
(* between two points where another can be seen to interfere.              *)
(*                                                                         *)
(* Within one claim of an operational gateway: no release, no change of    *)
(* credentials.  One database file, below its size limit, whose rows are   *)
(* younger than the retention time.                                        *)
(***************************************************************************)
EXTENDS Integers, Sequences, FiniteSets

CONSTANTS
    Callers,     \* threads that call publish()
    MaxQueue,    \* max_queue_size
    PackSize,    \* max_read_records_count
    BatchSize,   \* writing_batch_size
    MaxEvents,   \* bound: events published
    MaxOutages,  \* bound: disconnects
    MaxRefusals, \* bound: messages the MQTT client does not accept
    MaxFailures  \* bound: failing queries and ends of the process

ASSUME ConstantsAssumption ==
    /\ MaxQueue \in Nat \ {0}
    /\ PackSize \in Nat \ {0}
    /\ BatchSize \in Nat \ {0}
    /\ MaxEvents \in Nat
    /\ MaxOutages \in Nat
    /\ MaxRefusals \in Nat
    /\ MaxFailures \in Nat

VARIABLES
    connected,  \* _connected
    net,        \* where paho's thread is inside _on_connect
    caller,     \* the calls of publish()
    queue,      \* _queue
    loop,       \* _publish_loop
    replay,     \* _replay_loop
    point,      \* SQLiteEventStorage.delete_time_point
    writeQueue, \* SQLiteEventStorage.write_queue
    db,         \* the database thread, Database.run
    nextBatch,  \* Database.__next_batch
    canPrepare, \* Database.__can_prepare_new_batch
    rows,       \* the table messages, on disk
    lastId,     \* the AUTOINCREMENT sequence of the table
    \* What an observer outside the process has seen.
    published,  \* number of events given to publish()
    accepted,   \* events the MQTT client accepted
    offered,    \* events some pack of the replay thread has contained
    deleted,    \* events whose rows the replay thread deleted
    lost,       \* events lost by overflow, failing write or end of process
    late,       \* the database thread stored a batch of deleted rows
    outages,    \* disconnects so far
    refusals,   \* messages not accepted so far
    failures    \* failing queries and ends of the process so far

vars == << connected, net, caller, queue, loop, replay, point, writeQueue, db,
           nextBatch, canPrepare, rows, lastId, published, accepted, offered,
           deleted, lost, late, outages, refusals, failures >>

storageVars == << point, writeQueue, db, nextBatch, canPrepare, rows, lastId >>

Events == 1 .. MaxEvents
Rows   == [id : Nat \ {0}, ev : Events]

Idle    == [pc |-> "idle", ev |-> 0]
Waiting == [pc |-> "get", ev |-> 0]
Dead    == [pc |-> "dead", pack |-> {}, todo |-> {}, ok |-> FALSE, size |-> 0]
Top     == [pc |-> "top", got |-> {}, batch |-> <<>>]

\* SELECT ... FROM messages LIMIT ?: the rows in front, in order of id.
FirstRows(table) ==
    {r \in table : Cardinality({s \in table : s.id < r.id}) < PackSize}

Init ==
    /\ connected = FALSE
    /\ net = "idle"
    /\ caller = [c \in Callers |-> Idle]
    /\ queue = <<>>
    /\ loop = Waiting
    /\ replay = Dead
    /\ point = 0
    /\ writeQueue = <<>>
    /\ db = Top
    /\ nextBatch = {}
    /\ canPrepare = TRUE
    /\ rows = {}
    /\ lastId = 0
    /\ published = 0
    /\ accepted = {}
    /\ offered = {}
    /\ deleted = {}
    /\ lost = {}
    /\ late = FALSE
    /\ outages = 0
    /\ refusals = 0
    /\ failures = 0

-----------------------------------------------------------------------------
(***************************************************************************)
(* publish(): _connected is read once, then the event goes to the queue or *)
(* to the buffer.  A full queue gives up its oldest event first; when      *)
(* another caller takes the place, the second put_nowait raises Full.      *)
(***************************************************************************)
\* Mutant: the queue takes one event too many.
HasRoomForOneMore == Len(queue) <= MaxQueue

HasRoom == Len(queue) < MaxQueue

Publish(c) ==
    /\ caller[c].pc = "idle"
    /\ published < MaxEvents
    /\ published' = published + 1
    /\ caller' = [caller EXCEPT ![c] =
                    [pc |-> IF connected THEN "queue" ELSE "buffer",
                     ev |-> published + 1]]
    /\ UNCHANGED << connected, net, queue, loop, replay, accepted, offered,
                    deleted, lost, late, outages, refusals, failures >>
    /\ UNCHANGED storageVars

PutNowait(c) ==
    /\ caller[c].pc = "queue"
    /\ \/ /\ HasRoom
          /\ queue' = Append(queue, caller[c].ev)
          /\ caller' = [caller EXCEPT ![c] = Idle]
       \/ /\ ~HasRoom
          /\ caller' = [caller EXCEPT ![c].pc = "full"]
          /\ UNCHANGED queue
    /\ UNCHANGED << connected, net, loop, replay, published, accepted, offered,
                    deleted, lost, late, outages, refusals, failures >>
    /\ UNCHANGED storageVars

DropOldest(c) ==
    /\ caller[c].pc = "full"
    /\ caller' = [caller EXCEPT ![c].pc = "retry"]
    /\ \/ /\ queue # <<>>
          /\ queue' = Tail(queue)
          /\ lost' = lost \cup {Head(queue)}
       \/ /\ queue = <<>>
          /\ UNCHANGED << queue, lost >>
    /\ UNCHANGED << connected, net, loop, replay, published, accepted, offered,
                    deleted, late, outages, refusals, failures >>
    /\ UNCHANGED storageVars

PutAgain(c) ==
    /\ caller[c].pc = "retry"
    /\ caller' = [caller EXCEPT ![c] = Idle]
    /\ \/ /\ HasRoom
          /\ queue' = Append(queue, caller[c].ev)
          /\ UNCHANGED lost
       \/ /\ ~HasRoom
          /\ lost' = lost \cup {caller[c].ev}
          /\ UNCHANGED queue
    /\ UNCHANGED << connected, net, loop, replay, published, accepted, offered,
                    deleted, late, outages, refusals, failures >>
    /\ UNCHANGED storageVars

\* Mutant: the event is not stored.
BufferNothing(ev) == UNCHANGED storageVars

\* _buffer_event and SQLiteEventStorage.put.
BufferEvent(ev) ==
    /\ writeQueue' = Append(writeQueue, ev)
    /\ UNCHANGED << point, db, nextBatch, canPrepare, rows, lastId >>

PublishOffline(c) ==
    /\ caller[c].pc = "buffer"
    /\ BufferEvent(caller[c].ev)
    /\ caller' = [caller EXCEPT ![c] = Idle]
    /\ UNCHANGED << connected, net, queue, loop, replay, published, accepted,
                    offered, deleted, lost, late, outages, refusals, failures >>

-----------------------------------------------------------------------------
(***************************************************************************)
(* The publisher thread.                                                   *)
(***************************************************************************)
LoopGet ==
    /\ loop.pc = "get"
    /\ queue # <<>>
    /\ loop' = [pc |-> "send", ev |-> Head(queue)]
    /\ queue' = Tail(queue)
    /\ UNCHANGED << connected, net, caller, replay, published, accepted,
                    offered, deleted, lost, late, outages, refusals, failures >>
    /\ UNCHANGED storageVars

LoopSend ==
    /\ loop.pc = "send"
    /\ \/ /\ connected
          /\ accepted' = accepted \cup {loop.ev}
          /\ loop' = Waiting
          /\ UNCHANGED refusals
       \/ /\ connected
          /\ refusals < MaxRefusals
          /\ refusals' = refusals + 1
          /\ loop' = [loop EXCEPT !.pc = "buffer"]
          /\ UNCHANGED accepted
       \/ /\ ~connected
          /\ loop' = [loop EXCEPT !.pc = "buffer"]
          /\ UNCHANGED << accepted, refusals >>
    /\ UNCHANGED << connected, net, caller, queue, replay, published, offered,
                    deleted, lost, late, outages, failures >>
    /\ UNCHANGED storageVars

LoopBuffer ==
    /\ loop.pc = "buffer"
    /\ BufferEvent(loop.ev)
    /\ loop' = Waiting
    /\ UNCHANGED << connected, net, caller, queue, replay, published, accepted,
                    offered, deleted, lost, late, outages, refusals, failures >>

-----------------------------------------------------------------------------
(***************************************************************************)
(* paho's network thread.  _on_connect sets _connected first and looks for *)
(* a living replay thread last.                                            *)
(***************************************************************************)
OnConnect ==
    /\ net = "idle"
    /\ ~connected
    /\ connected' = TRUE
    /\ net' = "trigger"
    /\ UNCHANGED << caller, queue, loop, replay, published, accepted, offered,
                    deleted, lost, late, outages, refusals, failures >>
    /\ UNCHANGED storageVars

TriggerReplay ==
    /\ net = "trigger"
    /\ net' = "idle"
    /\ replay' = IF replay.pc = "dead" THEN [Dead EXCEPT !.pc = "test"] ELSE replay
    /\ UNCHANGED << connected, caller, queue, loop, published, accepted,
                    offered, deleted, lost, late, outages, refusals, failures >>
    /\ UNCHANGED storageVars

OnDisconnect ==
    /\ net = "idle"
    /\ connected
    /\ outages < MaxOutages
    /\ outages' = outages + 1
    /\ connected' = FALSE
    /\ UNCHANGED << net, caller, queue, loop, replay, published, accepted,
                    offered, deleted, lost, late, refusals, failures >>
    /\ UNCHANGED storageVars

-----------------------------------------------------------------------------
(***************************************************************************)
(* The replay thread.  It ends when the connection is down or the storage  *)
(* looks empty; "leaving" is the thread after its last test, still alive.  *)
(***************************************************************************)
ReplayTest ==
    /\ replay.pc = "test"
    /\ replay' = [Dead EXCEPT !.pc = IF connected THEN "length" ELSE "leaving"]
    /\ UNCHANGED << connected, net, caller, queue, loop, published, accepted,
                    offered, deleted, lost, late, outages, refusals, failures >>
    /\ UNCHANGED storageVars

\* SQLiteEventStorage.len(), first half: the size of the write queue ...
ReplayLength ==
    /\ replay.pc = "length"
    /\ replay' = [replay EXCEPT !.pc = "count", !.size = Len(writeQueue)]
    /\ UNCHANGED << connected, net, caller, queue, loop, published, accepted,
                    offered, deleted, lost, late, outages, refusals, failures >>
    /\ UNCHANGED storageVars

\* ... and second half: the rows in the table.
ReplayCount ==
    /\ replay.pc = "count"
    /\ replay' = [replay EXCEPT !.size = 0,
                    !.pc = IF replay.size + Cardinality(rows) = 0
                           THEN "leaving" ELSE "pack"]
    /\ UNCHANGED << connected, net, caller, queue, loop, published, accepted,
                    offered, deleted, lost, late, outages, refusals, failures >>
    /\ UNCHANGED storageVars

\* A count that cannot be read is -1, which hides a waiting event.
CountFails ==
    /\ replay.pc = "count"
    /\ failures < MaxFailures
    /\ failures' = failures + 1
    /\ replay' = [replay EXCEPT !.size = 0,
                    !.pc = IF replay.size - 1 = 0 THEN "leaving" ELSE "pack"]
    /\ UNCHANGED << connected, net, caller, queue, loop, published, accepted,
                    offered, deleted, lost, late, outages, refusals >>
    /\ UNCHANGED storageVars

\* Database.read_data: the prepared batch, or a query of its own.
ReadData == IF nextBatch # {} THEN nextBatch ELSE FirstRows(rows)

\* get_event_pack.  delete_time_point only ever grows.
GetEventPack ==
    /\ replay.pc = "pack"
    /\ LET pack == ReadData
       IN  \/ /\ pack = {}
              /\ replay' = [replay EXCEPT !.pc = "test"]
              /\ UNCHANGED << point, offered >>
           \/ /\ pack # {}
              /\ replay' = [replay EXCEPT !.pc = "publish", !.pack = pack,
                                          !.todo = pack, !.ok = TRUE]
              /\ offered' = offered \cup {r.ev : r \in pack}
              /\ \E m \in {point} \cup {r.id : r \in pack} :
                    /\ \A r \in pack : r.id <= m
                    /\ point <= m
                    /\ point' = m
    /\ UNCHANGED << connected, net, caller, queue, loop, writeQueue, db,
                    nextBatch, canPrepare, rows, lastId, published, accepted,
                    deleted, lost, late, outages, refusals, failures >>

\* The query fails: nothing to publish this time.
PackFails ==
    /\ replay.pc = "pack"
    /\ nextBatch = {}
    /\ failures < MaxFailures
    /\ failures' = failures + 1
    /\ replay' = [replay EXCEPT !.pc = "test"]
    /\ UNCHANGED << connected, net, caller, queue, loop, published, accepted,
                    offered, deleted, lost, late, outages, refusals >>
    /\ UNCHANGED storageVars

\* One turn of the loop over the pack; a refused message does not end it.
ReplayPublish ==
    /\ replay.pc = "publish"
    /\ \/ /\ connected
          /\ \E r \in replay.todo :
                /\ \A s \in replay.todo : r.id <= s.id
                /\ \/ /\ accepted' = accepted \cup {r.ev}
                      /\ replay' = [replay EXCEPT !.todo = @ \ {r}]
                      /\ UNCHANGED refusals
                   \/ /\ refusals < MaxRefusals
                      /\ refusals' = refusals + 1
                      /\ replay' = [replay EXCEPT !.todo = @ \ {r}, !.ok = FALSE]
                      /\ UNCHANGED accepted
       \/ /\ ~connected
          /\ replay.todo # {}
          /\ replay' = [replay EXCEPT !.todo = {}, !.ok = FALSE]
          /\ UNCHANGED << accepted, refusals >>
    /\ UNCHANGED << connected, net, caller, queue, loop, published, offered,
                    deleted, lost, late, outages, failures >>
    /\ UNCHANGED storageVars

\* Mutant: it is enough that the loop over the pack came to its end.
PackFinished == replay.todo = {}

\* success_count == len(pack) decides over the whole pack.
PackAccepted == replay.todo = {} /\ replay.ok

ReplayFinish ==
    /\ replay.pc = "publish"
    /\ replay.todo = {}
    /\ replay' = IF PackAccepted THEN [replay EXCEPT !.pc = "delete"]
                                 ELSE [Dead EXCEPT !.pc = "test"]
    /\ UNCHANGED << connected, net, caller, queue, loop, published, accepted,
                    offered, deleted, lost, late, outages, refusals, failures >>
    /\ UNCHANGED storageVars

\* Mutant: DELETE FROM messages.
KeptNothing == {}

\* event_pack_processing_done: DELETE FROM messages WHERE id <= ? ...
Kept == {r \in rows : r.id > point}

DeleteData ==
    /\ replay.pc = "delete"
    /\ rows' = Kept
    /\ deleted' = deleted \cup {r.ev : r \in rows \ Kept}
    /\ replay' = [Dead EXCEPT !.pc = "clear"]
    /\ UNCHANGED << connected, net, caller, queue, loop, point, writeQueue, db,
                    nextBatch, canPrepare, lastId, published, accepted,
                    offered, lost, late, outages, refusals, failures >>

\* The deletion fails: the rows stay and will be published again.
DeleteFails ==
    /\ replay.pc = "delete"
    /\ failures < MaxFailures
    /\ failures' = failures + 1
    /\ replay' = [Dead EXCEPT !.pc = "clear"]
    /\ UNCHANGED << connected, net, caller, queue, loop, published, accepted,
                    offered, deleted, lost, late, outages, refusals >>
    /\ UNCHANGED storageVars

\* Mutant: the prepared batch is not reset.
KeepNextBatch ==
    /\ replay.pc = "clear"
    /\ replay' = [replay EXCEPT !.pc = "allow"]
    /\ UNCHANGED << connected, net, caller, queue, loop, point, writeQueue, db,
                    nextBatch, canPrepare, rows, lastId, published, accepted,
                    offered, deleted, lost, late, outages, refusals, failures >>

\* ... then can_prepare_new_batch, in two assignments.
ClearNextBatch ==
    /\ replay.pc = "clear"
    /\ nextBatch' = {}
    /\ replay' = [replay EXCEPT !.pc = "allow"]
    /\ UNCHANGED << connected, net, caller, queue, loop, point, writeQueue, db,
                    canPrepare, rows, lastId, published, accepted, offered,
                    deleted, lost, late, outages, refusals, failures >>

CanPrepareNewBatch ==
    /\ replay.pc = "allow"
    /\ canPrepare' = TRUE
    /\ replay' = [replay EXCEPT !.pc = "test"]
    /\ UNCHANGED << connected, net, caller, queue, loop, point, writeQueue, db,
                    nextBatch, rows, lastId, published, accepted, offered,
                    deleted, lost, late, outages, refusals, failures >>

ReplayEnds ==
    /\ replay.pc = "leaving"
    /\ replay' = Dead
    /\ UNCHANGED << connected, net, caller, queue, loop, published, accepted,
                    offered, deleted, lost, late, outages, refusals, failures >>
    /\ UNCHANGED storageVars

-----------------------------------------------------------------------------
(***************************************************************************)
(* The database thread: one turn prepares a batch for the reader if it may *)
(* and then writes what waits in the write queue.                          *)
(***************************************************************************)
DbUnchanged ==
    UNCHANGED << connected, net, caller, queue, loop, replay, point, published,
                 accepted, offered, deleted, outages, refusals >>

DbTop ==
    /\ db.pc = "top"
    /\ db' = [db EXCEPT !.pc = IF canPrepare /\ nextBatch = {} THEN "read"
                                                              ELSE "process"]
    /\ UNCHANGED << writeQueue, nextBatch, canPrepare, rows, lastId, lost,
                    late, failures >>
    /\ DbUnchanged

DbRead ==
    /\ db.pc = "read"
    /\ db' = [db EXCEPT !.pc = "assign", !.got = FirstRows(rows)]
    /\ UNCHANGED << writeQueue, nextBatch, canPrepare, rows, lastId, lost,
                    late, failures >>
    /\ DbUnchanged

DbReadFails ==
    /\ db.pc = "read"
    /\ failures < MaxFailures
    /\ failures' = failures + 1
    /\ db' = [db EXCEPT !.pc = "assign", !.got = {}]
    /\ UNCHANGED << writeQueue, nextBatch, canPrepare, rows, lastId, lost, late >>
    /\ DbUnchanged

DbAssign ==
    /\ db.pc = "assign"
    /\ nextBatch' = db.got
    /\ late' = (late \/ ~(db.got \subseteq rows))
    /\ db' = [db EXCEPT !.pc = "forbid", !.got = {}]
    /\ UNCHANGED << writeQueue, canPrepare, rows, lastId, lost, failures >>
    /\ DbUnchanged

DbForbid ==
    /\ db.pc = "forbid"
    /\ canPrepare' = FALSE
    /\ db' = [db EXCEPT !.pc = "process"]
    /\ UNCHANGED << writeQueue, nextBatch, rows, lastId, lost, late, failures >>
    /\ DbUnchanged

\* process(): nothing to write, ...
DbIdle ==
    /\ db.pc = "process"
    /\ writeQueue = <<>>
    /\ db' = Top
    /\ UNCHANGED << writeQueue, nextBatch, canPrepare, rows, lastId, lost,
                    late, failures >>
    /\ DbUnchanged

\* ... or one more event for the batch, ...
DbCollect ==
    /\ db.pc \in {"process", "collect"}
    /\ writeQueue # <<>>
    /\ Len(db.batch) < BatchSize
    /\ db' = [db EXCEPT !.pc = "collect", !.batch = Append(@, Head(writeQueue))]
    /\ writeQueue' = Tail(writeQueue)
    /\ UNCHANGED << nextBatch, canPrepare, rows, lastId, lost, late, failures >>
    /\ DbUnchanged

\* ... or the insertion of the batch, row by row: its first n rows.
NewRows(n) == {[id |-> lastId + i, ev |-> db.batch[i]] : i \in 1 .. n}

Insert(n) ==
    /\ rows' = rows \cup NewRows(n)
    /\ lastId' = lastId + n

EventsIn(s) == {s[i] : i \in 1 .. Len(s)}

DbWrite ==
    /\ db.pc = "collect"
    /\ Insert(Len(db.batch))
    /\ db' = Top
    /\ UNCHANGED << writeQueue, nextBatch, canPrepare, lost, late, failures >>
    /\ DbUnchanged

\* The insertion fails after n rows: execute_many_write swallows the error, the
\* commit keeps these n rows, and the others are not put back.
DbWriteFails ==
    /\ db.pc = "collect"
    /\ failures < MaxFailures
    /\ failures' = failures + 1
    /\ \E n \in 0 .. Len(db.batch) - 1 :
          /\ Insert(n)
          /\ lost' = lost \cup {db.batch[i] : i \in n + 1 .. Len(db.batch)}
    /\ db' = Top
    /\ UNCHANGED << writeQueue, nextBatch, canPrepare, late >>
    /\ DbUnchanged

-----------------------------------------------------------------------------
(***************************************************************************)
(* The process ends and starts again: only the table survives.  At an      *)
(* orderly end disconnect() stops the database thread and then publishes   *)
(* what it can of the queue (sent); a crash publishes nothing.             *)
(***************************************************************************)
InMemory == {caller[c].ev : c \in Callers} \cup EventsIn(queue) \cup {loop.ev}
              \cup EventsIn(writeQueue) \cup EventsIn(db.batch)

\* _flush_queue takes all events out; a refused one is not put back.
Flush(sent) == sent # {} => connected

Restart ==
    /\ failures < MaxFailures
    /\ failures' = failures + 1
    /\ \E sent \in SUBSET EventsIn(queue) :
          /\ Flush(sent)
          /\ accepted' = accepted \cup sent
          /\ lost' = lost \cup ((InMemory \ sent) \ {0})
    /\ connected' = FALSE
    /\ net' = "idle"
    /\ caller' = [c \in Callers |-> Idle]
    /\ queue' = <<>>
    /\ loop' = Waiting
    /\ replay' = Dead
    /\ point' = 0
    /\ writeQueue' = <<>>
    /\ db' = Top
    /\ nextBatch' = {}
    /\ canPrepare' = TRUE
    /\ UNCHANGED << rows, lastId, published, offered, deleted, late, outages,
                    refusals >>

-----------------------------------------------------------------------------
Network  == OnConnect \/ TriggerReplay \/ OnDisconnect

Caller(c) == PutNowait(c) \/ DropOldest(c) \/ PutAgain(c) \/ PublishOffline(c)

Publisher == LoopGet \/ LoopSend \/ LoopBuffer

Replayer == \/ ReplayTest \/ ReplayLength \/ ReplayCount \/ CountFails
            \/ GetEventPack \/ PackFails \/ ReplayPublish \/ ReplayFinish
            \/ DeleteData \/ DeleteFails \/ ClearNextBatch
            \/ CanPrepareNewBatch \/ ReplayEnds

DatabaseThread == \/ DbTop \/ DbRead \/ DbReadFails \/ DbAssign \/ DbForbid \/ DbIdle
                  \/ DbCollect \/ DbWrite \/ DbWriteFails

Next ==
    \/ \E c \in Callers : Publish(c) \/ Caller(c)
    \/ Publisher
    \/ Network
    \/ Replayer
    \/ DatabaseThread
    \/ Restart

Spec == Init /\ [][Next]_vars

(***************************************************************************)
(* Every thread keeps running.  The client accepts, the broker comes back  *)
(* and the batch is written in the end because refusals, outages and       *)
(* failures are finite.                                                    *)
(***************************************************************************)
FairSpec ==
    /\ Spec
    /\ \A c \in Callers : WF_vars(Caller(c))
    /\ WF_vars(Publisher)
    /\ WF_vars(TriggerReplay)
    /\ WF_vars(Replayer)
    /\ WF_vars(DatabaseThread)

-----------------------------------------------------------------------------
(***************************************************************************)
(* Types: every variable keeps the shape the code gives it, the queue its  *)
(* bound, and a row its id.                                                *)
(***************************************************************************)
TypeOK ==
    /\ connected \in BOOLEAN
    /\ net \in {"idle", "trigger"}
    /\ caller \in [Callers -> {Idle} \cup
                     [pc : {"queue", "full", "retry", "buffer"}, ev : Events]]
    /\ queue \in Seq(Events)
    /\ Len(queue) <= MaxQueue
    /\ loop \in {Waiting} \cup [pc : {"send", "buffer"}, ev : Events]
    /\ replay \in [pc : {"dead", "test", "length", "count", "pack", "publish",
                         "delete", "clear", "allow", "leaving"},
                   pack : SUBSET Rows, todo : SUBSET Rows, ok : BOOLEAN,
                   size : Nat]
    /\ point \in Nat
    /\ writeQueue \in Seq(Events)
    /\ db \in [pc : {"top", "read", "assign", "forbid", "process", "collect"},
               got : SUBSET Rows, batch : Seq(Events)]
    /\ Len(db.batch) <= BatchSize
    /\ nextBatch \subseteq Rows
    /\ canPrepare \in BOOLEAN
    /\ rows \subseteq Rows
    /\ lastId \in Nat
    /\ published \in 0 .. MaxEvents
    /\ accepted \subseteq Events
    /\ offered \subseteq Events
    /\ deleted \subseteq Events
    /\ lost \subseteq Events
    /\ late \in BOOLEAN
    /\ outages \in 0 .. MaxOutages
    /\ refusals \in 0 .. MaxRefusals
    /\ failures \in 0 .. MaxFailures

Buffered == {r.ev : r \in rows}

(***************************************************************************)
(* The replay thread deletes rows by id, not row by row: everything up to  *)
(* delete_time_point.  No row that was in none of its packs is ever        *)
(* deleted, although rows are inserted while it works and a batch may have *)
(* been prepared before the last deletion.                                 *)
(***************************************************************************)
DeletedWereOffered == deleted \subseteq offered

(***************************************************************************)
(* What the replay loop's comment demands: a batch is deleted only when    *)
(* every event in it was accepted by the MQTT client.                      *)
(***************************************************************************)
AcceptedBeforeDeleted == deleted \subseteq accepted

(***************************************************************************)
(* The demand is met unless the database thread stored a prepared batch    *)
(* whose rows had been deleted since it read them.                         *)
(***************************************************************************)
AcceptedUnlessLate == ~late => AcceptedBeforeDeleted

(***************************************************************************)
(* No event vanishes: one that was published and not accepted is in some   *)
(* thread's hands, in a queue or in the table, or was lost in one of the   *)
(* three known ways (queue overflow, a failing insertion, the end of the   *)
(* process), unless the late batch made the replay thread delete it.       *)
(***************************************************************************)
NothingVanishes ==
    ~late => 1 .. published \subseteq InMemory \cup Buffered \cup accepted \cup lost

(***************************************************************************)
(* While the replay thread works and the connection lasts, a buffered      *)
(* event is replayed: refused messages, new events and batches prepared in *)
(* the meantime do not keep it in the table for ever.                      *)
(***************************************************************************)
RunningReplayDrains ==
    \A e \in Events :
        (e \in Buffered /\ replay.pc \notin {"dead", "leaving"})
            ~> (e \notin Buffered \/ ~connected)

(***************************************************************************)
(* What the deployment checklist promises: after an outage the buffer is   *)
(* replayed.  If the connection is up for good, the buffer gets empty.     *)
(***************************************************************************)
BufferEmpty == rows = {} /\ writeQueue = <<>> /\ db.batch = <<>>

ReplaysAfterOutage == <>[]connected => []<>BufferEmpty

=============================================================================
