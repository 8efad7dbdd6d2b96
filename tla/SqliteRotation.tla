--------------------------- MODULE SqliteRotation ---------------------------
(***************************************************************************)
(* The database files of SQLiteEventStorage: a write database that is      *)
(* followed by a new file when it reaches its size limit, a read database  *)
(* that is deleted when it is exhausted, and the limit on their number.    *)
(*                                                                         *)
(* Files are numbered in the order of their names.  The Database object    *)
(* made for writing to file f has a thread, whose state is writer[f]; the  *)
(* read database is either that object too or an object of its own, whose  *)
(* thread only reads ahead (TelemetryBuffer models that part) and is left  *)
(* out.  A batch is one event.  A file's size is the largest number of     *)
(* rows it ever held: SQLite reuses freed pages and gives none back.       *)
(***************************************************************************)
EXTENDS Integers, Sequences, SequencesExt, FiniteSets

CONSTANTS MaxDb,           \* max_db_amount
          SizeLimit,       \* rows at which a file reaches size_limit
          MaxPuts,         \* calls of put()
          StorageRestarts, \* restarts of the process
          MaxUnread        \* rows that failing checks for records hide

ASSUME RotationAssumption ==
    MaxDb \in Nat \ {0, 1} /\ SizeLimit \in Nat \ {0} /\ MaxPuts \in Nat /\ StorageRestarts \in Nat
    /\ MaxUnread \in Nat

StoredEvent == 1 .. MaxPuts
FileId == 1 .. 2 * MaxPuts + 2     \* a bound: the files ever made
NoFile == 0
NoEvent == 0

VARIABLES
    files,       \* _database_files
    rows,        \* the rows of each file that exists
    peak,        \* the size of each file
    writer,      \* the thread that writes to the file, see Writers
    readDb,      \* the read database: its file, and whether it is the writer's object
    writeDb,     \* the file of the write database
    writeQueue,  \* write_queue, shared by every Database
    maxReached,  \* __is_max_db_amount_reached
    reader,      \* the thread that replays: its place and the pack in hand
    book         \* history: puts, accepted, replayed, excused, unread events, ever full, restarts

rotationVars == <<files, rows, peak, writer, readDb, writeDb, writeQueue, maxReached, reader, book>>

Writers == [at : {"none", "run", "spin", "ended"}, batch : StoredEvent \cup {NoEvent},
            write : BOOLEAN, limit : BOOLEAN]

NoWriter == [at |-> "none", batch |-> NoEvent, write |-> FALSE, limit |-> FALSE]
NewWriter == [NoWriter EXCEPT !.at = "run", !.write = TRUE]

\* database_stopped_event is set: a thread with a batch in hand stays in
\* execute_many_write, which counts no try any more and never returns
Stopped(w) == [w EXCEPT !.at = IF w.batch = NoEvent THEN "ended" ELSE "spin"]

Oversize(f) == peak[f] >= SizeLimit
NewFile == Cardinality({f \in FileId : writer[f].at # "none"}) + 1

RotationInit ==
    /\ files = <<1>> /\ rows = [f \in FileId |-> {}] /\ peak = [f \in FileId |-> 0]
    /\ writer = [f \in FileId |-> IF f = 1 THEN NewWriter ELSE NoWriter]
    /\ readDb = [file |-> 1, shared |-> TRUE] /\ writeDb = 1
    /\ writeQueue = <<>> /\ maxReached = FALSE
    /\ reader = [at |-> "idle", pack |-> {}]
    /\ book = [puts |-> 0, accepted |-> {}, replayed |-> {}, excused |-> {}, unread |-> {},
               full |-> FALSE, restarts |-> 0]

----------------------------------------------------------------------------
(* put().                                                                  *)
Full(fs) == Len(fs) >= MaxDb

Put ==
    /\ book.puts < MaxPuts
    /\ LET e == book.puts + 1
           full == writer[writeDb].limit /\ Full(files)
           taken == ~maxReached /\ ~full
       IN /\ maxReached' = (maxReached \/ full)
          /\ writeQueue' = IF taken THEN Append(writeQueue, e) ELSE writeQueue
          /\ book' = [book EXCEPT !.puts = e, !.full = @ \/ full,
                         !.accepted = IF taken THEN @ \cup {e} ELSE @]
    /\ UNCHANGED <<files, rows, peak, writer, readDb, writeDb, reader>>

----------------------------------------------------------------------------
(* The thread of a Database that writes.                                   *)
Running(f) == writer[f].at = "run"

\* an event that the thread of another file than the write database's takes
\* is a stray one: that thread may never be told to stop
ProcessTake(f) ==
    /\ Running(f) /\ writer[f].write /\ writer[f].batch = NoEvent /\ writeQueue # <<>>
    /\ writer' = [writer EXCEPT ![f].batch = Head(writeQueue)]
    /\ writeQueue' = Tail(writeQueue)
    /\ book' = [book EXCEPT !.excused = IF f = writeDb THEN @ ELSE @ \cup {Head(writeQueue)}]
    /\ UNCHANGED <<files, rows, peak, readDb, writeDb, maxReached, reader>>

\* execute_many_write and commit; a removed file keeps what is written to it
\* out of reach
ProcessWrite(f) ==
    /\ Running(f) /\ writer[f].batch # NoEvent
    /\ writer' = [writer EXCEPT ![f].batch = NoEvent]
    /\ rows' = [rows EXCEPT ![f] = IF \E i \in DOMAIN files : files[i] = f
                                   THEN @ \cup {writer[f].batch} ELSE @]
    /\ peak' = [peak EXCEPT ![f] = IF Cardinality(rows'[f]) > @ THEN Cardinality(rows'[f]) ELSE @]
    /\ UNCHANGED <<files, readDb, writeDb, writeQueue, maxReached, reader, book>>

\* mutant: a write database that is also the read database goes on writing
RotateWriterKept(ws, g) == [ws EXCEPT ![g] = NewWriter]

\* on_write_database_callback with __cleanup_write_db_after_thread_termination
\* and __start_write_database: the oversize database stops writing (and ends,
\* if it is not the read database), g is the new one
RotateWriter(ws, g) ==
    [ws EXCEPT ![writeDb] = IF readDb.shared /\ readDb.file = writeDb
                            THEN [@ EXCEPT !.write = FALSE] ELSE Stopped(@),
               ![g] = NewWriter]

MayRotate(ws) == ws[writeDb].limit /\ ~Full(files)

\* process_file_limit of the object that writes to f; it acts on the write
\* database, whichever that is now
LimitReached(f, ws, unseen, unread) ==
    IF MayRotate(ws) /\ ws[f].write
    THEN /\ NewFile \in FileId
         /\ writer' = RotateWriter(ws, NewFile) /\ writeDb' = NewFile
         /\ files' = Append(files, NewFile)
         /\ book' = [book EXCEPT !.unread = @ \cup unread, !.excused = @ \cup unseen \cup
                                     (IF f = writeDb THEN {} ELSE {ws[writeDb].batch})]
    ELSE /\ writer' = ws /\ UNCHANGED <<writeDb, files>>
         /\ book' = [book EXCEPT !.unread = @ \cup unread, !.excused = @ \cup unseen]

ProcessFileLimit(f) ==
    /\ Running(f) /\ writer[f].batch = NoEvent /\ ~writer[f].limit /\ Oversize(f)
    /\ LimitReached(f, [writer EXCEPT ![f].limit = TRUE], {}, {})
    /\ UNCHANGED <<rows, peak, readDb, writeQueue, maxReached, reader>>

----------------------------------------------------------------------------
(* The replaying thread.                                                   *)

GetEventPack ==
    /\ reader.at = "idle" /\ rows[readDb.file] # {}
    /\ reader' = [at |-> "done", pack |-> rows[readDb.file]]
    /\ UNCHANGED <<files, rows, peak, writer, readDb, writeDb, writeQueue, maxReached, book>>

\* what the thread of the read database holds while the file looks empty
InHand == IF readDb.shared THEN {writer[readDb.file].batch} ELSE {}

\* mutant: whether the file still has records is not asked
OversizeAlone(failed) == TRUE

\* database_has_records also answers False when its query fails: no cursor
\* (closed, locked, any error in execute_read), a DatabaseError, no memory
NoRecords(failed) == failed \/ rows[readDb.file] = {}

\* the rows that such an answer hides
Unread(failed) == IF failed THEN rows[readDb.file] ELSE {}

\* whether the check fails
Failing == {b \in BOOLEAN : b => Cardinality(book.unread \cup rows[readDb.file]) <= MaxUnread}

\* nothing read (read_data answers [] on the same failures), several files,
\* no records: rotate
GetNothing ==
    /\ reader.at = "idle" /\ Len(files) > 1
    /\ \E failed \in Failing :
       /\ NoRecords(failed)
       /\ book' = [book EXCEPT !.excused = @ \cup InHand, !.unread = @ \cup Unread(failed)]
    /\ reader' = [reader EXCEPT !.at = "rotate"]
    /\ UNCHANGED <<files, rows, peak, writer, readDb, writeDb, writeQueue, maxReached>>

\* delete_data of event_pack_processing_done
DeleteData ==
    /\ reader.at = "done"
    /\ rows' = [rows EXCEPT ![readDb.file] = @ \ reader.pack]
    /\ book' = [book EXCEPT !.replayed = @ \cup reader.pack]
    /\ reader' = [at |-> "check", pack |-> {}]
    /\ UNCHANGED <<files, peak, writer, readDb, writeDb, writeQueue, maxReached>>

\* database_has_records, then process_file_limit of the read database; what
\* its thread has in hand at this moment is not seen
CheckExhausted ==
    /\ reader.at = "check"
    /\ \E failed \in Failing :
       IF NoRecords(failed) /\ Oversize(readDb.file)
       THEN /\ reader' = [reader EXCEPT !.at = "rotate"]
            /\ IF readDb.shared
               THEN LimitReached(readDb.file, [writer EXCEPT ![readDb.file].limit = TRUE],
                                 InHand, Unread(failed))
               ELSE /\ book' = [book EXCEPT !.unread = @ \cup Unread(failed)]
                    /\ UNCHANGED <<writer, writeDb, files>>
       ELSE reader' = [reader EXCEPT !.at = "idle"] /\ UNCHANGED <<writer, writeDb, files, book>>
    /\ UNCHANGED <<rows, peak, readDb, writeQueue, maxReached>>

\* __delete_db_files: the read database's own thread is stopped.  What it
\* wrote or still holds since the file was found empty goes with the file
DeleteFiles ==
    /\ reader.at = "rotate"
    /\ writer' = IF readDb.shared THEN [writer EXCEPT ![readDb.file] = Stopped(@)] ELSE writer
    /\ rows' = [rows EXCEPT ![readDb.file] = {}]
    /\ files' = RemoveFirst(files, readDb.file)
    /\ reader' = [reader EXCEPT !.at = "switch"]
    /\ UNCHANGED <<peak, readDb, writeDb, writeQueue, maxReached, book>>

\* mutant: the rotation does not look at the number of files again
LeaveMaxCount == UNCHANGED <<maxReached, writer, writeDb, files>>

\* __check_and_handle_max_db_count: the write database is replaced, and the
\* thread of the one before it is left as it is
CheckMaxCount ==
    IF Full(files)
    THEN maxReached' = TRUE /\ UNCHANGED <<writer, writeDb, files>>
    ELSE /\ maxReached' = FALSE
         /\ IF maxReached
            THEN /\ NewFile \in FileId
                 /\ writer' = [writer EXCEPT ![NewFile] = NewWriter] /\ writeDb' = NewFile
                 /\ files' = Append(files, NewFile)
            ELSE UNCHANGED <<writer, writeDb, files>>

\* __create_read_database, or the write database if only one file is left
NextReadDb == IF Len(files) > 1 THEN [file |-> files[1], shared |-> FALSE]
                                ELSE [file |-> writeDb, shared |-> TRUE]

\* the rest of __rotate_read_database
SwitchRead ==
    /\ reader.at = "switch"
    /\ readDb' = NextReadDb
    /\ CheckMaxCount
    /\ reader' = [reader EXCEPT !.at = "idle"]
    /\ book' = [book EXCEPT !.full = @ \/ maxReached',
                   !.excused = IF writeDb' = writeDb THEN @ ELSE @ \cup {writer[writeDb].batch}]
    /\ UNCHANGED <<rows, peak, writeQueue>>

----------------------------------------------------------------------------
(* stop() or a crash, and __init__ on the files that are left.             *)
StorageRestart ==
    /\ book.restarts < StorageRestarts
    /\ LET fs == IF files = <<>> THEN <<writeDb>> ELSE files IN
       /\ files' = fs
       /\ readDb' = [file |-> fs[1], shared |-> Len(fs) = 1]
       /\ writeDb' = fs[Len(fs)]
       /\ writer' = [f \in FileId |-> IF f = fs[Len(fs)] THEN NewWriter
                                      ELSE [writer[f] EXCEPT !.at = IF @ = "none" THEN @ ELSE "ended",
                                                             !.batch = NoEvent]]
    /\ book' = [book EXCEPT !.restarts = @ + 1,
                   !.excused = @ \cup {writer[f].batch : f \in FileId}
                                 \cup {writeQueue[i] : i \in DOMAIN writeQueue}]
    /\ writeQueue' = <<>> /\ maxReached' = FALSE
    /\ reader' = [at |-> "check", pack |-> {}]
    /\ UNCHANGED <<rows, peak>>

WriterThread(f) == ProcessTake(f) \/ ProcessWrite(f) \/ ProcessFileLimit(f)
ReplayThread == GetEventPack \/ GetNothing \/ DeleteData \/ CheckExhausted \/ DeleteFiles \/ SwitchRead

RotationNext == Put \/ ReplayThread \/ StorageRestart \/ \E f \in FileId : WriterThread(f)

RotationSpec == RotationInit /\ [][RotationNext]_rotationVars

\* both threads are scheduled, and the link stays up so that packs are read
RotationFairness == WF_rotationVars(ReplayThread)
                    /\ \A f \in FileId : WF_rotationVars(WriterThread(f))
----------------------------------------------------------------------------
(* Properties.                                                             *)

\* The shapes of the state.
RotationTypeOK ==
    /\ \A i \in DOMAIN files : files[i] \in FileId
    /\ rows \in [FileId -> SUBSET StoredEvent] /\ peak \in [FileId -> 0 .. MaxPuts]
    /\ writer \in [FileId -> Writers]
    /\ readDb \in [file : FileId, shared : BOOLEAN] /\ writeDb \in FileId
    /\ maxReached \in BOOLEAN

\* Where an accepted event still is.
Kept == (UNION {rows[f] : f \in FileId}) \cup {writeQueue[i] : i \in DOMAIN writeQueue}
        \cup {writer[f].batch : f \in {g \in FileId : Running(g)}} \cup book.replayed

\* An event that put() accepted is replayed or still stored, unless the
\* rotation did not see it.  The exceptions are the rows of a file whose check
\* for records failed, which database_has_records answers like an empty table
\* and the rotation deletes (unread); the events that were in memory at a
\* restart; the one batch that the read database's own thread held when the
\* file was taken for empty (it is deleted with the file, or its thread spins
\* in execute_many_write); and those taken by, or in the hands of, a writing
\* thread that a rotation leaves behind.  Where no check fails, no stored row
\* is ever deleted unreplayed.
LostOnlyUnseen == book.accepted \subseteq Kept \cup book.excused \cup book.unread

\* Two threads write from the queue only once the number of files had
\* reached its maximum: every other rotation retires the former writer.
OneWriterUntilFull ==
    ~book.full => \A f \in FileId : Running(f) /\ writer[f].write => f = writeDb

\* A storage that refuses events because of the number of files accepts
\* them again as long as it is replayed (__check_and_handle_max_db_count).
AcceptsAgain == maxReached ~> ~maxReached
=============================================================================
