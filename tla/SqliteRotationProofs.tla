----------------------- MODULE SqliteRotationProofs -----------------------
(***************************************************************************)
(* Proofs for SqliteRotation: for any number of files, any size limit, any *)
(* number of events and any number of restarts.                            *)
(***************************************************************************)
EXTENDS SqliteRotation, FiniteSetTheorems, TLAPS

Books == [puts : 0 .. MaxPuts, accepted : SUBSET StoredEvent, replayed : SUBSET StoredEvent,
          excused : SUBSET (StoredEvent \cup {NoEvent}), unread : SUBSET StoredEvent,
          full : BOOLEAN, restarts : Nat]
Readers == [at : {"idle", "done", "check", "rotate", "switch"}, pack : SUBSET StoredEvent]

\* The shapes, of the whole state.
StorageShapes ==
    /\ files \in Seq(FileId) /\ rows \in [FileId -> SUBSET StoredEvent]
    /\ peak \in [FileId -> 0 .. MaxPuts] /\ writer \in [FileId -> Writers]
    /\ readDb \in [file : FileId, shared : BOOLEAN] /\ writeDb \in FileId
    /\ writeQueue \in Seq(StoredEvent) /\ maxReached \in BOOLEAN
    /\ reader \in Readers /\ book \in Books

\* The files ever made are the first ones, k of them.
MadeUpTo(ws, k) == \A f \in FileId : ws[f].at # "none" <=> f <= k

\* The list of files: in the order they were made, the read database first
\* until it is deleted, the write database last and its thread running.
FilesInv ==
    /\ \E k \in FileId : MadeUpTo(writer, k)
    /\ files # <<>> /\ files[Len(files)] = writeDb
    /\ \A i, j \in 1 .. Len(files) : i < j => files[i] < files[j]
    /\ \A i \in 1 .. Len(files) : writer[files[i]].at # "none"
    /\ writer[readDb.file].at # "none"
    /\ writer[writeDb].at = "run" /\ writer[writeDb].write
    /\ reader.at # "switch" => readDb.file = files[1]
    /\ reader.at = "switch" => readDb.file < files[1]
    /\ reader.at = "rotate" => Len(files) > 1
    /\ ~readDb.shared => readDb.file # writeDb

\* A thread that writes to another file than the write database's holds only
\* an event that is excused; a file taken for empty holds only such events
\* and those that the failing check did not read.
HandInv ==
    /\ \A f \in FileId : Running(f) /\ f # writeDb =>
           writer[f].batch \in book.excused \cup {NoEvent}
    /\ reader.at = "rotate" =>
           rows[readDb.file] \subseteq book.excused \cup book.unread \cup {NoEvent}

FullInv == (maxReached => book.full) /\ OneWriterUntilFull

RotationInv == StorageShapes /\ FilesInv /\ HandInv /\ FullInv /\ LostOnlyUnseen

-----------------------------------------------------------------------------
(***************************************************************************)
(* Operators.                                                              *)
(***************************************************************************)

\* The names of the files are an initial segment of the numbers.
LEMMA FilesAreNumbers ==
    /\ FileId \subseteq Nat /\ 1 \in FileId
    /\ \A f \in FileId : f >= 1 /\ 1 .. f \subseteq FileId
<1>1. MaxPuts \in Nat /\ 2 * MaxPuts + 2 \in Nat /\ 1 <= 2 * MaxPuts + 2
  BY RotationAssumption
<1> QED BY <1>1 DEF FileId

\* A new file comes after every file made so far.
LEMMA NewFileIsNew ==
    ASSUME NEW k \in FileId, MadeUpTo(writer, k)
    PROVE  NewFile = k + 1
<1>1. k \in Nat /\ 1 .. k \subseteq FileId /\ \A f \in FileId : f \in Nat /\ f >= 1
  BY FilesAreNumbers
<1>2. {f \in FileId : writer[f].at # "none"} = 1 .. k
  <2>1. \A f \in FileId : writer[f].at # "none" <=> f \in 1 .. k
    BY <1>1 DEF MadeUpTo
  <2> QED BY <1>1, <2>1
<1>3. Cardinality(1 .. k) = k
  BY <1>1, FS_Interval
<1> QED BY <1>2, <1>3 DEF NewFile

\* list.remove of the first entry.
LEMMA RemoveHead ==
    ASSUME NEW S, NEW s \in Seq(S), s # <<>>
    PROVE  RemoveFirst(s, s[1]) = Tail(s)
<1> DEFINE I == {i \in 1 .. Len(s) : s[i] = s[1]}
<1>1. Len(s) \in Nat /\ 1 \in 1 .. Len(s)
  OBVIOUS
<1>2. 1 \in I /\ \A i \in I : 1 <= i /\ (i <= 1 => i = 1)
  BY <1>1
<1>3. Min(I) = 1
  BY <1>2 DEF Min
<1>4. SelectInSeq(s, LAMBDA v : v = s[1]) = 1
  BY <1>2, <1>3 DEF SelectInSeq
<1>5. RemoveFirst(s, s[1]) = RemoveAt(s, 1)
  BY <1>1, <1>4 DEF RemoveFirst
<1>6. RemoveAt(s, 1) = Tail(s)
  BY <1>1 DEF RemoveAt
<1> QED BY <1>5, <1>6

\* A thread that was just started writes and holds nothing.
LEMMA NewWriterFacts ==
    /\ NewWriter \in Writers /\ NewWriter.at = "run" /\ NewWriter.write
    /\ NewWriter.batch = NoEvent
BY DEF NewWriter, NoWriter, Writers

\* A stopped thread keeps its batch and is no longer running.
LEMMA StoppedFacts ==
    ASSUME NEW w \in Writers
    PROVE  /\ Stopped(w) \in Writers /\ Stopped(w).at \in {"ended", "spin"}
           /\ Stopped(w).batch = w.batch
BY DEF Stopped, Writers

\* The rotation retires the former writer.
LEMMA RotateFacts ==
    ASSUME NEW ws \in [FileId -> Writers], NEW g \in FileId, writeDb \in FileId,
           g # writeDb, ws[writeDb].at = "run"
    PROVE  /\ RotateWriter(ws, g) \in [FileId -> Writers]
           /\ RotateWriter(ws, g)[g] = NewWriter
           /\ RotateWriter(ws, g)[writeDb].at # "none"
           /\ RotateWriter(ws, g)[writeDb].batch = ws[writeDb].batch
           /\ RotateWriter(ws, g)[writeDb].at = "run" => ~RotateWriter(ws, g)[writeDb].write
           /\ \A h \in FileId : h # g /\ h # writeDb => RotateWriter(ws, g)[h] = ws[h]
<1> DEFINE w == IF readDb.shared /\ readDb.file = writeDb
                THEN [ws[writeDb] EXCEPT !.write = FALSE] ELSE Stopped(ws[writeDb])
<1>1. RotateWriter(ws, g) = [ws EXCEPT ![writeDb] = w, ![g] = NewWriter]
  BY DEF RotateWriter
<1>2. /\ w \in Writers /\ w.at # "none" /\ w.batch = ws[writeDb].batch
      /\ (w.at = "run" => ~w.write)
  <2>1. ws[writeDb] \in Writers
    OBVIOUS
  <2>2. CASE readDb.shared /\ readDb.file = writeDb
    BY <2>1, <2>2 DEF Writers
  <2>3. CASE ~(readDb.shared /\ readDb.file = writeDb)
    BY <2>1, <2>3, StoppedFacts
  <2> QED BY <2>2, <2>3
<1> HIDE DEF w
<1>3. NewWriter \in Writers
  BY NewWriterFacts
<1> QED BY <1>1, <1>2, <1>3

-----------------------------------------------------------------------------
(***************************************************************************)
(* process_file_limit, by a writing thread or by the replaying thread.     *)
(***************************************************************************)

\* The list with one more file at its end.
LEMMA OneMoreFile ==
    ASSUME FilesInv, files \in Seq(FileId), NEW k \in FileId, MadeUpTo(writer, k),
           k + 1 \in FileId
    PROVE  /\ Append(files, k + 1) \in Seq(FileId) /\ Append(files, k + 1) # <<>>
           /\ Len(Append(files, k + 1)) = Len(files) + 1
           /\ Append(files, k + 1)[1] = files[1]
           /\ Append(files, k + 1)[Len(files) + 1] = k + 1
           /\ \A i \in 1 .. Len(files) : Append(files, k + 1)[i] = files[i]
           /\ \A i, j \in 1 .. Len(files) + 1 :
                 i < j => Append(files, k + 1)[i] < Append(files, k + 1)[j]
           /\ \A f \in FileId : f <= k => f # k + 1
           /\ Len(files) \in Nat /\ Len(files) >= 1
<1> DEFINE s == Append(files, k + 1)
<1>1. /\ Len(files) \in Nat /\ Len(files) >= 1 /\ files # <<>>
      /\ \A i \in 1 .. Len(files) : files[i] \in FileId
  BY DEF FilesInv
<1>2. /\ s \in Seq(FileId) /\ s # <<>> /\ Len(s) = Len(files) + 1
      /\ s[Len(files) + 1] = k + 1 /\ \A i \in 1 .. Len(files) : s[i] = files[i]
  BY <1>1
<1>3. k \in Nat /\ \A f \in FileId : f \in Nat
  BY FilesAreNumbers
<1>4. \A i \in 1 .. Len(files) : files[i] <= k /\ files[i] \in Nat
  BY <1>1, <1>3 DEF FilesInv, MadeUpTo
<1>5. \A i, j \in 1 .. Len(files) + 1 : i < j => s[i] < s[j]
  <2> HIDE DEF s
  <2> SUFFICES ASSUME NEW i \in 1 .. Len(files) + 1, NEW j \in 1 .. Len(files) + 1, i < j
               PROVE  s[i] < s[j]
    OBVIOUS
  <2>1. i \in 1 .. Len(files) /\ s[i] = files[i]
    BY <1>1, <1>2
  <2>2. CASE j = Len(files) + 1
    BY <1>2, <1>3, <1>4, <2>1, <2>2
  <2>3. CASE j # Len(files) + 1
    <3>1. j \in 1 .. Len(files) /\ s[j] = files[j]
      BY <1>1, <1>2, <2>3
    <3> QED BY <2>1, <3>1 DEF FilesInv
  <2> QED BY <2>2, <2>3
<1>6. s[1] = files[1]
  BY <1>1, <1>2
<1>7. \A f \in FileId : f <= k => f # k + 1
  BY <1>3
<1> QED BY <1>1, <1>2, <1>5, <1>6, <1>7

\* Whether an event is kept, place by place.
Held(e, rs, q, ws, done) ==
    \/ \E f \in FileId : e \in rs[f]
    \/ \E i \in DOMAIN q : e = q[i]
    \/ \E f \in FileId : ws[f].at = "run" /\ e = ws[f].batch
    \/ e \in done

\* An event is kept if a file, the queue, a thread or the reader's book has it.
LEMMA KeptIsHeld ==
    /\ \A e : e \in Kept <=> Held(e, rows, writeQueue, writer, book.replayed)
    /\ \A e : e \in Kept' <=> Held(e, rows', writeQueue', writer', book'.replayed)
<1>1. ASSUME NEW e PROVE e \in Kept <=> Held(e, rows, writeQueue, writer, book.replayed)
  <2>1. e \in UNION {rows[f] : f \in FileId} <=> \E f \in FileId : e \in rows[f]
    BY Zenon
  <2>2. e \in {writeQueue[i] : i \in DOMAIN writeQueue}
           <=> \E i \in DOMAIN writeQueue : e = writeQueue[i]
    BY Zenon
  <2>3. e \in {writer[f].batch : f \in {g \in FileId : Running(g)}}
           <=> \E f \in FileId : writer[f].at = "run" /\ e = writer[f].batch
    BY Zenon DEF Running
  <2> DEFINE A == UNION {rows[f] : f \in FileId}
             B == {writeQueue[i] : i \in DOMAIN writeQueue}
             C == {writer[f].batch : f \in {g \in FileId : Running(g)}}
  <2>4. Kept = A \cup B \cup C \cup book.replayed
    BY Zenon DEF Kept
  <2>5. /\ (e \in A <=> \E f \in FileId : e \in rows[f])
        /\ (e \in B <=> \E i \in DOMAIN writeQueue : e = writeQueue[i])
        /\ (e \in C <=> \E f \in FileId : writer[f].at = "run" /\ e = writer[f].batch)
    BY <2>1, <2>2, <2>3
  <2> HIDE DEF A, B, C
  <2> QED BY <2>4, <2>5 DEF Held
<1>2. ASSUME NEW e
      PROVE  e \in Kept' <=> Held(e, rows', writeQueue', writer', book'.replayed)
  <2>1. e \in UNION {rows'[f] : f \in FileId} <=> \E f \in FileId : e \in rows'[f]
    BY Zenon
  <2>2. e \in {writeQueue'[i] : i \in DOMAIN writeQueue'}
           <=> \E i \in DOMAIN writeQueue' : e = writeQueue'[i]
    BY Zenon
  <2>3. e \in {writer'[f].batch : f \in {g \in FileId : Running(g)'}}
           <=> \E f \in FileId : writer'[f].at = "run" /\ e = writer'[f].batch
    BY Zenon DEF Running
  <2> DEFINE A == UNION {rows'[f] : f \in FileId}
             B == {writeQueue'[i] : i \in DOMAIN writeQueue'}
             C == {writer'[f].batch : f \in {g \in FileId : Running(g)'}}
  <2>4. Kept' = A \cup B \cup C \cup book'.replayed
    BY Zenon DEF Kept
  <2>5. /\ (e \in A <=> \E f \in FileId : e \in rows'[f])
        /\ (e \in B <=> \E i \in DOMAIN writeQueue' : e = writeQueue'[i])
        /\ (e \in C <=> \E f \in FileId : writer'[f].at = "run" /\ e = writer'[f].batch)
    BY <2>1, <2>2, <2>3
  <2> HIDE DEF A, B, C
  <2> QED BY <2>4, <2>5 DEF Held
<1> QED BY <1>1, <1>2, Zenon

\* What a limit that is reached does, whoever notices it; unseen is what the
\* caller could not see in the thread's hand.
LEMMA LimitStep ==
    ASSUME RotationInv, NEW f \in FileId, NEW unseen \in SUBSET (StoredEvent \cup {NoEvent}),
           NEW unread \in SUBSET StoredEvent,
           f = writeDb => writer[f].batch \in unseen \cup {NoEvent},
           NEW ws, ws = [writer EXCEPT ![f].limit = TRUE], LimitReached(f, ws, unseen, unread),
           UNCHANGED <<rows, readDb, writeQueue, maxReached>>
    PROVE  /\ files' \in Seq(FileId) /\ writer' \in [FileId -> Writers]
           /\ writeDb' \in FileId /\ book' \in Books
           /\ files' # <<>> /\ files'[1] = files[1] /\ files'[Len(files')] = writeDb'
           /\ Len(files') >= Len(files)
           /\ (f = writeDb => Len(files') > 1 \/ Full(files))
           /\ \A i, j \in 1 .. Len(files') : i < j => files'[i] < files'[j]
           /\ \A i \in 1 .. Len(files') : writer'[files'[i]].at # "none"
           /\ \E k \in FileId : MadeUpTo(writer', k)
           /\ writer'[readDb.file].at # "none"
           /\ writer'[writeDb'].at = "run" /\ writer'[writeDb'].write
           /\ (readDb.file # writeDb => readDb.file # writeDb')
           /\ book.excused \cup unseen \subseteq book'.excused
           /\ book'.unread = book.unread \cup unread
           /\ \A h \in FileId : writer'[h].at = "run" /\ h # writeDb' =>
                  writer'[h].batch \in book'.excused \cup {NoEvent}
           /\ FullInv' /\ LostOnlyUnseen'
<1>0. /\ StorageShapes /\ FilesInv /\ HandInv /\ FullInv /\ LostOnlyUnseen
  BY DEF RotationInv
<1>1. /\ writer \in [FileId -> Writers] /\ files \in Seq(FileId) /\ writeDb \in FileId
      /\ book \in Books /\ readDb.file \in FileId
  BY <1>0 DEF StorageShapes
<1>2. /\ ws \in [FileId -> Writers] /\ ws[f].limit
      /\ \A h \in FileId : /\ ws[h].at = writer[h].at /\ ws[h].batch = writer[h].batch
                           /\ ws[h].write = writer[h].write
  <2>1. writer[f] \in Writers /\ ws = [writer EXCEPT ![f] = [writer[f] EXCEPT !.limit = TRUE]]
    BY <1>1
  <2>2. /\ [writer[f] EXCEPT !.limit = TRUE] \in Writers
        /\ [writer[f] EXCEPT !.limit = TRUE].at = writer[f].at
        /\ [writer[f] EXCEPT !.limit = TRUE].batch = writer[f].batch
        /\ [writer[f] EXCEPT !.limit = TRUE].write = writer[f].write
        /\ [writer[f] EXCEPT !.limit = TRUE].limit
    BY <2>1 DEF Writers
  <2>3. ws[f] = [writer[f] EXCEPT !.limit = TRUE]
        /\ \A h \in FileId : h # f => ws[h] = writer[h]
    BY <1>1, <2>1
  <2> QED BY <1>1, <2>1, <2>2, <2>3
<1>3. /\ writer[writeDb].at = "run" /\ writer[writeDb].write /\ files # <<>>
      /\ files[Len(files)] = writeDb /\ writer[readDb.file].at # "none"
      /\ \A i \in 1 .. Len(files) : files[i] \in FileId /\ writer[files[i]].at # "none"
      /\ Len(files) \in Nat /\ Len(files) >= 1
  BY <1>0, <1>1 DEF FilesInv
<1>4. PICK k \in FileId : MadeUpTo(writer, k)
  BY <1>0 DEF FilesInv
<1>5. NewFile = k + 1
  BY <1>4, NewFileIsNew
<1>6. \A e : e \in book.accepted => e \in StoredEvent /\ e # NoEvent
  BY <1>1, RotationAssumption DEF Books, StoredEvent, NoEvent
<1>7. CASE MayRotate(ws) /\ ws[f].write
  <2> DEFINE g == k + 1
  <2>1. /\ g \in FileId /\ writer' = RotateWriter(ws, g) /\ writeDb' = g
        /\ files' = Append(files, g)
        /\ book' = [book EXCEPT !.unread = @ \cup unread, !.excused = @ \cup unseen \cup
                                   (IF f = writeDb THEN {} ELSE {ws[writeDb].batch})]
    BY <1>5, <1>7 DEF LimitReached
  <2>2. /\ files' \in Seq(FileId) /\ files' # <<>> /\ Len(files') = Len(files) + 1
        /\ files'[1] = files[1] /\ files'[Len(files) + 1] = g
        /\ \A i \in 1 .. Len(files) : files'[i] = files[i]
        /\ \A i, j \in 1 .. Len(files) + 1 : i < j => files'[i] < files'[j]
        /\ \A h \in FileId : h <= k => h # g
    BY <1>0, <1>1, <1>4, <2>1, OneMoreFile
  <2>3. \A h \in FileId : writer[h].at # "none" => h # g
    BY <1>4, <2>2 DEF MadeUpTo
  <2> HIDE DEF g
  <2>4. g # writeDb /\ ws[writeDb].at = "run"
    BY <1>1, <1>2, <1>3, <2>3
  <2>5. /\ writer' \in [FileId -> Writers] /\ writer'[g] = NewWriter
        /\ writer'[writeDb].at # "none" /\ writer'[writeDb].batch = ws[writeDb].batch
        /\ (writer'[writeDb].at = "run" => ~writer'[writeDb].write)
        /\ \A h \in FileId : h # g /\ h # writeDb => writer'[h] = ws[h]
    <3>1. /\ RotateWriter(ws, g) \in [FileId -> Writers] /\ RotateWriter(ws, g)[g] = NewWriter
          /\ RotateWriter(ws, g)[writeDb].at # "none"
          /\ RotateWriter(ws, g)[writeDb].batch = ws[writeDb].batch
          /\ (RotateWriter(ws, g)[writeDb].at = "run" => ~RotateWriter(ws, g)[writeDb].write)
          /\ \A h \in FileId : h # g /\ h # writeDb => RotateWriter(ws, g)[h] = ws[h]
      <4>1. ws \in [FileId -> Writers] /\ g \in FileId /\ writeDb \in FileId
        BY <1>1, <1>2, <2>1
      <4> QED BY <2>4, <4>1, RotateFacts
    <3> QED BY <2>1, <3>1
  <2>6. NewWriter.at = "run" /\ NewWriter.write /\ NewWriter.batch = NoEvent
    BY NewWriterFacts
  <2>7. writer[writeDb].batch \in StoredEvent \cup {NoEvent}
    BY <1>1 DEF Writers
  <2>8. /\ book' \in Books /\ book'.accepted = book.accepted
        /\ book'.replayed = book.replayed /\ book'.full = book.full
        /\ book'.unread = book.unread \cup unread
        /\ book'.excused = book.excused \cup unseen \cup
                              (IF f = writeDb THEN {} ELSE {writer[writeDb].batch})
    BY <1>1, <1>2, <2>1, <2>7 DEF Books
  <2>9. writer[writeDb].batch \in book'.excused \cup {NoEvent}
    BY <2>8
  <2>10. /\ \A i \in 1 .. Len(files') : writer'[files'[i]].at # "none"
    <3> SUFFICES ASSUME NEW i \in 1 .. Len(files') PROVE writer'[files'[i]].at # "none"
      OBVIOUS
    <3>1. CASE i = Len(files) + 1
      BY <2>2, <2>5, <2>6, <3>1
    <3>2. CASE i # Len(files) + 1
      <4>1. i \in 1 .. Len(files)
        BY <1>3, <2>2, <3>2
      <4>2. files'[i] \in FileId /\ writer[files'[i]].at # "none"
        BY <1>3, <2>2, <4>1
      <4> QED BY <1>2, <2>3, <2>5, <4>2
    <3> QED BY <3>1, <3>2
  <2>11. MadeUpTo(writer', g)
    <3>1. ASSUME NEW h \in FileId
          PROVE  writer'[h].at # "none" <=> writer[h].at # "none" \/ h = g
      <4>1. CASE h = g
        BY <2>5, <2>6, <4>1
      <4>2. CASE h = writeDb
        BY <1>3, <2>5, <4>2
      <4>3. CASE h # g /\ h # writeDb
        BY <1>2, <2>5, <4>3
      <4> QED BY <4>1, <4>2, <4>3
    <3>2. \A h \in FileId : h <= g <=> h <= k \/ h = g
      BY <1>4, FilesAreNumbers DEF g
    <3> QED BY <1>4, <3>1, <3>2 DEF MadeUpTo
  <2>12. /\ writer'[readDb.file].at # "none" /\ writer'[writeDb'].at = "run"
         /\ writer'[writeDb'].write /\ readDb.file # writeDb'
    <3>1. readDb.file # g
      BY <1>1, <1>3, <2>3
    <3>2. writer'[readDb.file].at # "none"
      <4>1. CASE readDb.file = writeDb
        BY <2>5, <4>1
      <4>2. CASE readDb.file # writeDb
        <5>1. writer'[readDb.file] = ws[readDb.file]
          BY <1>1, <2>5, <3>1, <4>2
        <5>2. ws[readDb.file].at = writer[readDb.file].at
          BY <1>1, <1>2
        <5> QED BY <1>3, <5>1, <5>2
      <4> QED BY <4>1, <4>2
    <3> QED BY <2>1, <2>5, <2>6, <3>1, <3>2
  <2>13. \A h \in FileId : writer'[h].at = "run" /\ h # writeDb' =>
             writer'[h].batch \in book'.excused \cup {NoEvent}
    <3> SUFFICES ASSUME NEW h \in FileId, writer'[h].at = "run", h # writeDb'
                 PROVE  writer'[h].batch \in book'.excused \cup {NoEvent}
      OBVIOUS
    <3>1. CASE h = writeDb
      BY <1>1, <1>2, <2>5, <2>9, <3>1
    <3>2. CASE h # writeDb
      <4>1. writer'[h] = ws[h] /\ ws[h].at = writer[h].at /\ ws[h].batch = writer[h].batch
        BY <1>2, <2>1, <2>5, <3>2
      <4>2. writer[h].batch \in book.excused \cup {NoEvent}
        BY <1>0, <3>2, <4>1 DEF HandInv, Running
      <4> QED BY <2>8, <4>1, <4>2
    <3> QED BY <3>1, <3>2
  <2>14. FullInv'
    <3>1. \A h \in FileId : Running(h)' /\ writer'[h].write => h = writeDb' \/ book.full
      <4> SUFFICES ASSUME NEW h \in FileId, writer'[h].at = "run", writer'[h].write,
                          h # writeDb'
                   PROVE  book.full
        BY DEF Running
      <4>1. h # g /\ h # writeDb
        BY <2>1, <2>5
      <4>2. writer[h].at = "run" /\ writer[h].write
        BY <1>2, <2>5, <4>1
      <4> QED BY <1>0, <4>1, <4>2 DEF FullInv, OneWriterUntilFull, Running
    <3> QED BY <1>0, <2>8, <3>1 DEF FullInv, OneWriterUntilFull
  <2>15. LostOnlyUnseen'
    <3> SUFFICES ASSUME NEW e \in book.accepted
                 PROVE  e \in Kept' \cup book'.excused \cup book'.unread
      BY <2>8 DEF LostOnlyUnseen
    <3>1. e \in Kept \/ e \in book'.excused \cup book'.unread
      BY <1>0, <2>8 DEF LostOnlyUnseen
    <3>2. ASSUME NEW h \in FileId, writer[h].at = "run", e = writer[h].batch
          PROVE  e \in Kept' \cup book'.excused \cup book'.unread
      <4>1. CASE h = writeDb
        BY <1>6, <2>9, <3>2, <4>1
      <4>2. CASE h # writeDb
        <5>1. writer'[h].at = "run" /\ writer'[h].batch = e
          BY <1>2, <2>3, <2>5, <3>2, <4>2
        <5> QED BY <5>1, KeptIsHeld DEF Held
      <4> QED BY <4>1, <4>2
    <3>3. CASE e \in Kept
      <4>1. Held(e, rows, writeQueue, writer, book.replayed)
        BY <3>3, KeptIsHeld
      <4>2. CASE \E h \in FileId : writer[h].at = "run" /\ e = writer[h].batch
        BY <3>2, <4>2
      <4>3. CASE \/ \E h \in FileId : e \in rows[h]
                 \/ \E i \in DOMAIN writeQueue : e = writeQueue[i]
                 \/ e \in book.replayed
        <5>1. Held(e, rows', writeQueue', writer', book'.replayed)
          BY <2>8, <4>3 DEF Held
        <5> QED BY <5>1, KeptIsHeld
      <4> QED BY <4>1, <4>2, <4>3 DEF Held
    <3> QED BY <3>1, <3>3
  <2>16. /\ files'[Len(files')] = writeDb' /\ Len(files') >= Len(files) /\ Len(files') > 1
         /\ \A i, j \in 1 .. Len(files') : i < j => files'[i] < files'[j]
    BY <1>3, <2>1, <2>2
  <2>17. /\ writeDb' \in FileId /\ book.excused \cup unseen \subseteq book'.excused
         /\ \E m \in FileId : MadeUpTo(writer', m)
    BY <2>1, <2>8, <2>11
  <2> QED BY <2>2, <2>5, <2>8, <2>10, <2>12, <2>13, <2>14, <2>15, <2>16, <2>17
<1>8. CASE ~(MayRotate(ws) /\ ws[f].write)
  <2>1. /\ writer' = ws /\ UNCHANGED <<writeDb, files>>
        /\ book' = [book EXCEPT !.unread = @ \cup unread, !.excused = @ \cup unseen]
    BY <1>8 DEF LimitReached
  <2>2. /\ book' \in Books /\ book'.accepted = book.accepted
        /\ book'.replayed = book.replayed /\ book'.full = book.full
        /\ book'.unread = book.unread \cup unread
        /\ book'.excused = book.excused \cup unseen
    BY <1>1, <2>1 DEF Books
  <2>3. f = writeDb => Full(files)
    BY <1>2, <1>3, <1>8 DEF MayRotate
  <2>4. MadeUpTo(writer', k)
    BY <1>2, <1>4, <2>1 DEF MadeUpTo
  <2>5. \A h \in FileId : writer'[h].at = "run" /\ h # writeDb' =>
             writer'[h].batch \in book'.excused \cup {NoEvent}
    BY <1>0, <1>2, <2>1, <2>2 DEF HandInv, Running
  <2>6. FullInv'
    BY <1>0, <1>2, <2>1, <2>2 DEF FullInv, OneWriterUntilFull, Running
  <2>7. LostOnlyUnseen'
    <3> SUFFICES ASSUME NEW e \in book.accepted
                 PROVE  e \in Kept' \cup book'.excused \cup book'.unread
      BY <2>2 DEF LostOnlyUnseen
    <3>1. e \in Kept \/ e \in book'.excused \cup book'.unread
      BY <1>0, <2>2 DEF LostOnlyUnseen
    <3> QED BY <1>2, <2>1, <2>2, <3>1, KeptIsHeld DEF Held
  <2>8. \A i, j \in 1 .. Len(files') : i < j => files'[i] < files'[j]
    BY <1>0, <2>1 DEF FilesInv
  <2>9. \A i \in 1 .. Len(files') : writer'[files'[i]].at # "none"
    BY <1>2, <1>3, <2>1
  <2>10. writer'[readDb.file].at # "none" /\ writer'[writeDb'].at = "run" /\ writer'[writeDb'].write
    BY <1>1, <1>2, <1>3, <2>1
  <2> QED BY <1>1, <1>2, <1>3, <2>1, <2>2, <2>3, <2>4, <2>5, <2>6, <2>7, <2>8, <2>9, <2>10
<1> QED BY <1>7, <1>8

\* An accepted event is held or excused after the step if it was before.
LEMMA StillHeld ==
    ASSUME LostOnlyUnseen, book.excused \subseteq book'.excused,
           book.unread \subseteq book'.unread,
           \A e \in book'.accepted :
               e \in book.accepted \/ Held(e, rows', writeQueue', writer', book'.replayed),
           \A e \in book.accepted :
               Held(e, rows, writeQueue, writer, book.replayed) =>
                   \/ Held(e, rows', writeQueue', writer', book'.replayed)
                   \/ e \in book'.excused \cup book'.unread
    PROVE  LostOnlyUnseen'
<1> SUFFICES ASSUME NEW e \in book'.accepted
             PROVE  e \in Kept' \/ e \in book'.excused \cup book'.unread
  BY DEF LostOnlyUnseen
<1>1. CASE Held(e, rows', writeQueue', writer', book'.replayed)
  BY <1>1, KeptIsHeld
<1>2. CASE e \in book.accepted
  <2>1. e \in Kept \/ e \in book.excused \cup book.unread
    BY <1>2 DEF LostOnlyUnseen
  <2>2. e \in Kept => Held(e, rows, writeQueue, writer, book.replayed)
    BY KeptIsHeld
  <2>3. Held(e, rows', writeQueue', writer', book'.replayed) => e \in Kept'
    BY KeptIsHeld
  <2> QED BY <1>2, <2>1, <2>2, <2>3
<1> QED BY <1>1, <1>2

\* A batch is taken or written: nothing else of the writers changes.
LEMMA BatchChanges ==
    ASSUME writer \in [FileId -> Writers], NEW f \in FileId,
           NEW e \in StoredEvent \cup {NoEvent}, writer' = [writer EXCEPT ![f].batch = e]
    PROVE  /\ writer' \in [FileId -> Writers] /\ writer'[f].batch = e
           /\ \A h \in FileId : writer'[h].at = writer[h].at /\ writer'[h].write = writer[h].write
           /\ \A h \in FileId : h # f => writer'[h] = writer[h]
<1>1. writer[f] \in Writers
      /\ writer' = [writer EXCEPT ![f] = [writer[f] EXCEPT !.batch = e]]
  OBVIOUS
<1>2. /\ [writer[f] EXCEPT !.batch = e] \in Writers
      /\ [writer[f] EXCEPT !.batch = e].at = writer[f].at
      /\ [writer[f] EXCEPT !.batch = e].write = writer[f].write
      /\ [writer[f] EXCEPT !.batch = e].batch = e
  BY <1>1 DEF Writers
<1>3. writer'[f] = [writer[f] EXCEPT !.batch = e]
      /\ \A h \in FileId : h # f => writer'[h] = writer[h]
  BY <1>1
<1> QED BY <1>1, <1>2, <1>3

\* The list of files does not depend on what the threads hold.
LEMMA FilesFrame ==
    ASSUME FilesInv, StorageShapes, UNCHANGED <<files, readDb, writeDb>>,
           \A h \in FileId : writer'[h].at = writer[h].at /\ writer'[h].write = writer[h].write,
           reader'.at = "switch" <=> reader.at = "switch",
           reader'.at = "rotate" => reader.at = "rotate" \/ Len(files) > 1
    PROVE  FilesInv'
<1>1. /\ writeDb \in FileId /\ readDb.file \in FileId
      /\ \A i \in 1 .. Len(files) : files[i] \in FileId
  BY DEF StorageShapes
<1>2. PICK k \in FileId : MadeUpTo(writer, k)
  BY DEF FilesInv
<1>3. MadeUpTo(writer', k)
  BY <1>2 DEF MadeUpTo
<1>4. /\ files # <<>> /\ files[Len(files)] = writeDb
      /\ \A i, j \in 1 .. Len(files) : i < j => files[i] < files[j]
      /\ (reader.at # "switch" => readDb.file = files[1])
      /\ (reader.at = "switch" => readDb.file < files[1])
      /\ (reader.at = "rotate" => Len(files) > 1)
      /\ (~readDb.shared => readDb.file # writeDb)
  BY DEF FilesInv
<1>5. /\ \A i \in 1 .. Len(files) : writer'[files[i]].at # "none"
      /\ writer'[readDb.file].at # "none"
      /\ writer'[writeDb].at = "run" /\ writer'[writeDb].write
  BY <1>1 DEF FilesInv
<1> QED BY <1>3, <1>4, <1>5 DEF FilesInv

\* With several files, the first one is not the write database's.
LEMMA FirstIsNotWritten ==
    ASSUME FilesInv, StorageShapes, Len(files) > 1
    PROVE  files[1] # writeDb
<1>1. /\ \A i, j \in 1 .. Len(files) : i < j => files[i] < files[j]
      /\ files[Len(files)] = writeDb
  BY DEF FilesInv
<1>2. /\ files \in Seq(FileId) /\ Len(files) \in Nat /\ writeDb \in FileId
  BY DEF StorageShapes
<1>3. 1 \in 1 .. Len(files) /\ Len(files) \in 1 .. Len(files) /\ 1 < Len(files)
  BY <1>2
<1>4. files[1] < writeDb
  BY <1>1, <1>3
<1>5. files[1] \in FileId
  BY <1>2, <1>3
<1>6. files[1] \in Nat /\ writeDb \in Nat
  BY <1>2, <1>5, FilesAreNumbers
<1> QED BY <1>4, <1>6

-----------------------------------------------------------------------------
(***************************************************************************)
(* Every action keeps the invariant.                                       *)
(***************************************************************************)

\* put() queues an event, or refuses it when the storage is full.
LEMMA PutKeeps ==
    ASSUME RotationInv, Put
    PROVE  RotationInv'
<1> DEFINE e == book.puts + 1
           full == writer[writeDb].limit /\ Full(files)
           taken == ~maxReached /\ ~full
<1>0. StorageShapes /\ FilesInv /\ HandInv /\ FullInv /\ LostOnlyUnseen
  BY DEF RotationInv
<1>1. /\ book.puts < MaxPuts /\ maxReached' = (maxReached \/ full)
      /\ writeQueue' = (IF taken THEN Append(writeQueue, e) ELSE writeQueue)
      /\ book' = [book EXCEPT !.puts = e, !.full = @ \/ full,
                     !.accepted = IF taken THEN @ \cup {e} ELSE @]
      /\ UNCHANGED <<files, rows, peak, writer, readDb, writeDb, reader>>
  BY DEF Put
<1>2. /\ book \in Books /\ writeQueue \in Seq(StoredEvent) /\ maxReached \in BOOLEAN
      /\ writer[writeDb].limit \in BOOLEAN
  BY <1>0 DEF StorageShapes, Writers
<1>3. e \in StoredEvent /\ e \in 0 .. MaxPuts
  BY <1>1, <1>2, RotationAssumption DEF Books, StoredEvent
<1>4. full \in BOOLEAN
  BY <1>2
<1> HIDE DEF e, full
<1>5. /\ book' \in Books /\ book'.excused = book.excused /\ book'.replayed = book.replayed
      /\ (book'.full <=> book.full \/ full) /\ book'.unread = book.unread
      /\ book'.accepted = (IF taken THEN book.accepted \cup {e} ELSE book.accepted)
  BY <1>1, <1>2, <1>3, <1>4 DEF Books
<1>6. /\ writeQueue' \in Seq(StoredEvent)
      /\ \A i \in DOMAIN writeQueue : i \in DOMAIN writeQueue' /\ writeQueue'[i] = writeQueue[i]
      /\ taken => \E i \in DOMAIN writeQueue' : writeQueue'[i] = e
  <2>1. CASE taken
    <3>1. writeQueue' = Append(writeQueue, e) /\ Len(writeQueue) \in Nat
      BY <1>1, <1>2, <2>1
    <3>2. /\ writeQueue' \in Seq(StoredEvent) /\ DOMAIN writeQueue' = 1 .. Len(writeQueue) + 1
          /\ DOMAIN writeQueue = 1 .. Len(writeQueue)
          /\ writeQueue'[Len(writeQueue) + 1] = e
          /\ \A i \in 1 .. Len(writeQueue) : writeQueue'[i] = writeQueue[i]
      BY <1>2, <1>3, <3>1
    <3>3. Len(writeQueue) + 1 \in DOMAIN writeQueue'
          /\ \A i \in DOMAIN writeQueue : i \in DOMAIN writeQueue'
      BY <3>1, <3>2
    <3> QED BY <3>2, <3>3
  <2>2. CASE ~taken
    BY <1>1, <1>2, <2>2
  <2> QED BY <2>1, <2>2
<1>7. StorageShapes'
  BY <1>0, <1>1, <1>2, <1>4, <1>5, <1>6 DEF StorageShapes
<1>8. FilesInv'
  BY <1>0, <1>1 DEF FilesInv, MadeUpTo
<1>9. HandInv'
  BY <1>0, <1>1, <1>5 DEF HandInv, Running
<1>10. FullInv'
  BY <1>0, <1>1, <1>5 DEF FullInv, OneWriterUntilFull, Running
<1>11. LostOnlyUnseen'
  <2>1. \A x \in book'.accepted :
            x \in book.accepted \/ Held(x, rows', writeQueue', writer', book'.replayed)
    BY <1>5, <1>6 DEF Held
  <2>2. \A x : Held(x, rows, writeQueue, writer, book.replayed) =>
                  Held(x, rows', writeQueue', writer', book'.replayed)
    BY <1>1, <1>5, <1>6 DEF Held
  <2> QED BY <1>0, <1>5, <2>1, <2>2, StillHeld
<1> QED BY <1>7, <1>8, <1>9, <1>10, <1>11 DEF RotationInv

\* A thread takes an event from the queue ...
LEMMA ProcessTakeKeeps ==
    ASSUME RotationInv, NEW f \in FileId, ProcessTake(f)
    PROVE  RotationInv'
<1> DEFINE e == Head(writeQueue)
<1>0. StorageShapes /\ FilesInv /\ HandInv /\ FullInv /\ LostOnlyUnseen
  BY DEF RotationInv
<1>1. /\ writer[f].at = "run" /\ writer[f].write /\ writer[f].batch = NoEvent
      /\ writeQueue # <<>> /\ writer' = [writer EXCEPT ![f].batch = e]
      /\ writeQueue' = Tail(writeQueue)
      /\ book' = [book EXCEPT !.excused = IF f = writeDb THEN @ ELSE @ \cup {e}]
      /\ UNCHANGED <<files, rows, peak, readDb, writeDb, maxReached, reader>>
  BY DEF ProcessTake, Running
<1>2. /\ book \in Books /\ writeQueue \in Seq(StoredEvent) /\ writer \in [FileId -> Writers]
      /\ writeDb \in FileId /\ readDb.file \in FileId
      /\ \A i \in 1 .. Len(files) : files[i] \in FileId
  BY <1>0 DEF StorageShapes
<1>3. /\ e \in StoredEvent /\ Tail(writeQueue) \in Seq(StoredEvent)
      /\ \A i \in DOMAIN writeQueue :
            writeQueue[i] = e \/ \E j \in DOMAIN Tail(writeQueue) : Tail(writeQueue)[j] = writeQueue[i]
  <2>1. /\ Len(writeQueue) \in Nat /\ Len(writeQueue) >= 1 /\ e = writeQueue[1]
        /\ DOMAIN writeQueue = 1 .. Len(writeQueue)
        /\ \A i \in 1 .. Len(writeQueue) : writeQueue[i] \in StoredEvent
    BY <1>1, <1>2
  <2>2. /\ Tail(writeQueue) \in Seq(StoredEvent)
        /\ DOMAIN Tail(writeQueue) = 1 .. Len(writeQueue) - 1
        /\ \A j \in 1 .. Len(writeQueue) - 1 : Tail(writeQueue)[j] = writeQueue[j + 1]
    BY <1>1, <1>2
  <2>3. ASSUME NEW i \in DOMAIN writeQueue, writeQueue[i] # e
        PROVE  \E j \in DOMAIN Tail(writeQueue) : Tail(writeQueue)[j] = writeQueue[i]
    <3>1. i \in Nat /\ i > 1 /\ i <= Len(writeQueue)
      BY <2>1, <2>3
    <3>2. i - 1 \in 1 .. Len(writeQueue) - 1 /\ (i - 1) + 1 = i
      BY <2>1, <3>1
    <3> QED BY <2>2, <3>2
  <2> QED BY <2>1, <2>2, <2>3
<1> HIDE DEF e
<1>4. /\ writer' \in [FileId -> Writers] /\ writer'[f].batch = e
      /\ \A h \in FileId : writer'[h].at = writer[h].at /\ writer'[h].write = writer[h].write
      /\ \A h \in FileId : h # f => writer'[h] = writer[h]
  BY <1>1, <1>2, <1>3, BatchChanges
<1>5. /\ book' \in Books /\ book'.accepted = book.accepted /\ book'.replayed = book.replayed
      /\ book'.full = book.full /\ book'.unread = book.unread
      /\ book'.excused = (IF f = writeDb THEN book.excused ELSE book.excused \cup {e})
  BY <1>1, <1>2, <1>3 DEF Books
<1>6. StorageShapes'
  BY <1>0, <1>1, <1>3, <1>4, <1>5 DEF StorageShapes
<1>7. FilesInv'
  BY <1>0, <1>1, <1>4, FilesFrame
<1>8. HandInv'
  <2>1. \A h \in FileId : Running(h)' /\ h # writeDb' =>
            writer'[h].batch \in book'.excused \cup {NoEvent}
    <3> SUFFICES ASSUME NEW h \in FileId, writer'[h].at = "run", h # writeDb
                 PROVE  writer'[h].batch \in book'.excused \cup {NoEvent}
      BY <1>1 DEF Running
    <3>1. CASE h = f
      BY <1>4, <1>5, <3>1
    <3>2. CASE h # f
      BY <1>0, <1>4, <1>5, <3>2 DEF HandInv, Running
    <3> QED BY <3>1, <3>2
  <2> QED BY <1>0, <1>1, <1>5, <2>1 DEF HandInv
<1>9. FullInv'
  BY <1>0, <1>1, <1>4, <1>5 DEF FullInv, OneWriterUntilFull, Running
<1>10. LostOnlyUnseen'
  <2>0. \A x \in book.accepted : x # NoEvent
    BY <1>2, RotationAssumption DEF Books, StoredEvent, NoEvent
  <2>1. ASSUME NEW x \in book.accepted, Held(x, rows, writeQueue, writer, book.replayed)
        PROVE  Held(x, rows', writeQueue', writer', book'.replayed)
    <3>1. CASE \E i \in DOMAIN writeQueue : x = writeQueue[i]
      <4>1. x = e \/ \E j \in DOMAIN writeQueue' : x = writeQueue'[j]
        BY <1>1, <1>3, <3>1
      <4> QED BY <1>1, <1>4, <4>1 DEF Held
    <3>2. CASE \E h \in FileId : writer[h].at = "run" /\ x = writer[h].batch
      <4>1. PICK h \in FileId : writer[h].at = "run" /\ x = writer[h].batch
        BY <3>2
      <4>2. h # f
        BY <1>1, <2>0, <4>1
      <4>3. writer'[h].at = "run" /\ writer'[h].batch = x
        BY <1>4, <4>1, <4>2
      <4> QED BY <4>3 DEF Held
    <3>3. CASE (\E h \in FileId : x \in rows[h]) \/ x \in book.replayed
      BY <1>1, <1>5, <3>3 DEF Held
    <3> QED BY <2>1, <3>1, <3>2, <3>3 DEF Held
  <2> QED BY <1>0, <1>5, <2>1, StillHeld
<1> QED BY <1>6, <1>7, <1>8, <1>9, <1>10 DEF RotationInv

\* ... and writes it to its file.
LEMMA ProcessWriteKeeps ==
    ASSUME RotationInv, NEW f \in FileId, ProcessWrite(f)
    PROVE  RotationInv'
<1> DEFINE b == writer[f].batch
           listed == \E i \in DOMAIN files : files[i] = f
<1>0. StorageShapes /\ FilesInv /\ HandInv /\ FullInv /\ LostOnlyUnseen
  BY DEF RotationInv
<1>1. /\ writer[f].at = "run" /\ b # NoEvent /\ writer' = [writer EXCEPT ![f].batch = NoEvent]
      /\ rows' = [rows EXCEPT ![f] = IF listed THEN @ \cup {b} ELSE @]
      /\ peak' = [peak EXCEPT ![f] = IF Cardinality(rows'[f]) > @ THEN Cardinality(rows'[f]) ELSE @]
      /\ UNCHANGED <<files, readDb, writeDb, writeQueue, maxReached, reader, book>>
  BY DEF ProcessWrite, Running
<1>2. /\ book \in Books /\ writer \in [FileId -> Writers] /\ rows \in [FileId -> SUBSET StoredEvent]
      /\ peak \in [FileId -> 0 .. MaxPuts] /\ files \in Seq(FileId)
      /\ readDb.file \in FileId /\ writeDb \in FileId
  BY <1>0 DEF StorageShapes
<1>3. b \in StoredEvent
  BY <1>1, <1>2 DEF Writers
<1> HIDE DEF b, listed
<1>4. /\ rows' \in [FileId -> SUBSET StoredEvent]
      /\ rows'[f] = (IF listed THEN rows[f] \cup {b} ELSE rows[f])
      /\ \A h \in FileId : h # f => rows'[h] = rows[h]
  BY <1>1, <1>2, <1>3
<1>5. /\ writer' \in [FileId -> Writers] /\ writer'[f].batch = NoEvent
      /\ \A h \in FileId : writer'[h].at = writer[h].at /\ writer'[h].write = writer[h].write
      /\ \A h \in FileId : h # f => writer'[h] = writer[h]
  <2>1. NoEvent \in StoredEvent \cup {NoEvent}
    OBVIOUS
  <2> QED BY <1>1, <1>2, <2>1, BatchChanges
<1>6. Cardinality(rows'[f]) \in 0 .. MaxPuts
  <2>1. IsFiniteSet(StoredEvent) /\ Cardinality(StoredEvent) = MaxPuts
    <3>1. 1 \in Int /\ MaxPuts \in Nat /\ (1 > MaxPuts => MaxPuts = 0)
      BY RotationAssumption
    <3> QED BY <3>1, FS_Interval DEF StoredEvent
  <2>2. rows'[f] \subseteq StoredEvent
    BY <1>4
  <2>3. /\ IsFiniteSet(rows'[f]) /\ Cardinality(rows'[f]) <= Cardinality(StoredEvent)
    BY <2>1, <2>2, FS_Subset
  <2>4. Cardinality(rows'[f]) \in Nat
    BY <2>3, FS_CardinalityType
  <2> QED BY <2>1, <2>3, <2>4, RotationAssumption
<1>7. peak' \in [FileId -> 0 .. MaxPuts]
  <2> DEFINE p == IF Cardinality(rows'[f]) > peak[f] THEN Cardinality(rows'[f]) ELSE peak[f]
  <2>1. peak' = [peak EXCEPT ![f] = p]
    BY <1>1, <1>2
  <2>2. p \in 0 .. MaxPuts
    BY <1>2, <1>6
  <2> HIDE DEF p
  <2> QED BY <1>2, <2>1, <2>2
<1>8. StorageShapes'
  BY <1>0, <1>1, <1>4, <1>5, <1>7 DEF StorageShapes
<1>9. FilesInv'
  BY <1>0, <1>1, <1>5, FilesFrame
<1>10. /\ \A h \in FileId : writer[h].at = "run" /\ h # writeDb =>
             writer[h].batch \in book.excused \cup {NoEvent}
       /\ (reader.at = "rotate" =>
              rows[readDb.file] \subseteq book.excused \cup book.unread \cup {NoEvent})
  BY <1>0 DEF HandInv, Running
<1>11. HandInv'
  <2>1. ASSUME NEW h \in FileId, writer'[h].at = "run", h # writeDb
        PROVE  writer'[h].batch \in book.excused \cup {NoEvent}
    BY <1>5, <1>10, <2>1
  <2>2. ASSUME reader.at = "rotate"
        PROVE  rows'[readDb.file] \subseteq book.excused \cup book.unread \cup {NoEvent}
    <3>1. CASE f # readDb.file
      BY <1>2, <1>4, <1>10, <2>2, <3>1
    <3>2. CASE f = readDb.file
      <4>1. Len(files) > 1 /\ readDb.file = files[1]
        BY <1>0, <2>2 DEF FilesInv
      <4>3. f # writeDb
        BY <1>0, <3>2, <4>1, FirstIsNotWritten
      <4>4. b \in book.excused \cup {NoEvent}
        BY <1>1, <1>10, <4>3 DEF b
      <4> QED BY <1>4, <1>10, <2>2, <3>2, <4>4
    <3> QED BY <3>1, <3>2
  <2> QED BY <1>1, <2>1, <2>2 DEF HandInv, Running
<1>12. FullInv'
  BY <1>0, <1>1, <1>5 DEF FullInv, OneWriterUntilFull, Running
<1>13. LostOnlyUnseen'
  <2>1. ASSUME NEW x \in book.accepted, Held(x, rows, writeQueue, writer, book.replayed)
        PROVE  Held(x, rows', writeQueue', writer', book'.replayed)
               \/ x \in book'.excused \cup book'.unread
    <3>0. x # NoEvent
      BY <1>2, RotationAssumption DEF Books, StoredEvent, NoEvent
    <3>1. CASE \E h \in FileId : x \in rows[h]
      <4>1. \E h \in FileId : x \in rows'[h]
        BY <1>4, <3>1
      <4> QED BY <4>1 DEF Held
    <3>2. CASE \E h \in FileId : writer[h].at = "run" /\ x = writer[h].batch
      <4>1. PICK h \in FileId : writer[h].at = "run" /\ x = writer[h].batch
        BY <3>2
      <4>2. CASE h # f
        <5>1. writer'[h].at = "run" /\ writer'[h].batch = x
          BY <1>5, <4>1, <4>2
        <5> QED BY <5>1 DEF Held
      <4>3. CASE h = f /\ listed
        BY <1>4, <4>1, <4>3 DEF Held, b
      <4>4. CASE h = f /\ ~listed
        <5>1. writeDb = files[Len(files)] /\ Len(files) \in DOMAIN files
          BY <1>0, <1>2 DEF FilesInv
        <5>2. f # writeDb
          BY <4>4, <5>1 DEF listed
        <5> QED BY <1>1, <1>10, <3>0, <4>1, <4>4, <5>2
      <4> QED BY <4>2, <4>3, <4>4
    <3>3. CASE (\E i \in DOMAIN writeQueue : x = writeQueue[i]) \/ x \in book.replayed
      BY <1>1, <3>3 DEF Held
    <3> QED BY <2>1, <3>1, <3>2, <3>3 DEF Held
  <2> QED BY <1>0, <1>1, <2>1, StillHeld
<1> QED BY <1>8, <1>9, <1>11, <1>12, <1>13 DEF RotationInv

\* A file that reached its size limit is followed by a new one.
LEMMA ProcessFileLimitKeeps ==
    ASSUME RotationInv, NEW f \in FileId, ProcessFileLimit(f)
    PROVE  RotationInv'
<1> DEFINE ws == [writer EXCEPT ![f].limit = TRUE]
<1>0. StorageShapes /\ FilesInv /\ HandInv
  BY DEF RotationInv
<1>1. /\ writer[f].batch = NoEvent /\ LimitReached(f, ws, {}, {})
      /\ UNCHANGED <<rows, peak, readDb, writeQueue, maxReached, reader>>
  BY DEF ProcessFileLimit
<1>2. {} \in SUBSET (StoredEvent \cup {NoEvent}) /\ {} \in SUBSET StoredEvent
      /\ writer[f].batch \in {} \cup {NoEvent}
  BY <1>1
<1> HIDE DEF ws
<1>3. ws = [writer EXCEPT ![f].limit = TRUE]
  BY DEF ws
<1>4. /\ files' \in Seq(FileId) /\ writer' \in [FileId -> Writers]
      /\ writeDb' \in FileId /\ book' \in Books
      /\ files' # <<>> /\ files'[1] = files[1] /\ files'[Len(files')] = writeDb'
      /\ Len(files') >= Len(files)
      /\ \A i, j \in 1 .. Len(files') : i < j => files'[i] < files'[j]
      /\ \A i \in 1 .. Len(files') : writer'[files'[i]].at # "none"
      /\ \E k \in FileId : MadeUpTo(writer', k)
      /\ writer'[readDb.file].at # "none"
      /\ writer'[writeDb'].at = "run" /\ writer'[writeDb'].write
      /\ (readDb.file # writeDb => readDb.file # writeDb')
      /\ book.excused \cup {} \subseteq book'.excused /\ book'.unread = book.unread \cup {}
      /\ \A h \in FileId : writer'[h].at = "run" /\ h # writeDb' =>
             writer'[h].batch \in book'.excused \cup {NoEvent}
      /\ FullInv' /\ LostOnlyUnseen'
  BY <1>1, <1>2, <1>3, LimitStep
<1>5. StorageShapes'
  BY <1>0, <1>1, <1>4 DEF StorageShapes
<1>6. FilesInv'
  <2>1. /\ (reader.at # "switch" => readDb.file = files[1])
        /\ (reader.at = "switch" => readDb.file < files[1])
        /\ (~readDb.shared => readDb.file # writeDb)
    BY <1>0 DEF FilesInv
  <2>2. reader.at = "rotate" => Len(files') > 1
    BY <1>0, <1>4 DEF FilesInv, StorageShapes
  <2> QED BY <1>1, <1>4, <2>1, <2>2 DEF FilesInv
<1>7. HandInv'
  BY <1>0, <1>1, <1>4 DEF HandInv, Running
<1> QED BY <1>4, <1>5, <1>6, <1>7 DEF RotationInv

\* The reader takes a pack from the read database ...
LEMMA GetEventPackKeeps ==
    ASSUME RotationInv, GetEventPack
    PROVE  RotationInv'
<1>0. StorageShapes /\ FilesInv /\ HandInv /\ FullInv /\ LostOnlyUnseen
  BY DEF RotationInv
<1>1. /\ reader.at = "idle" /\ reader' = [at |-> "done", pack |-> rows[readDb.file]]
      /\ UNCHANGED <<files, rows, peak, writer, readDb, writeDb, writeQueue, maxReached, book>>
  BY DEF GetEventPack
<1>2. reader' \in Readers /\ reader'.at = "done"
  BY <1>0, <1>1 DEF StorageShapes, Readers
<1>3. StorageShapes'
  BY <1>0, <1>1, <1>2 DEF StorageShapes
<1>4. FilesInv'
  BY <1>0, <1>1, <1>2, FilesFrame
<1>5. HandInv'
  BY <1>0, <1>1, <1>2 DEF HandInv, Running
<1>6. FullInv'
  BY <1>0, <1>1 DEF FullInv, OneWriterUntilFull, Running
<1>7. LostOnlyUnseen'
  BY <1>0, <1>1, StillHeld
<1> QED BY <1>3, <1>4, <1>5, <1>6, <1>7 DEF RotationInv

\* ... or finds nothing in it.
LEMMA GetNothingKeeps ==
    ASSUME RotationInv, GetNothing
    PROVE  RotationInv'
<1>0. StorageShapes /\ FilesInv /\ HandInv /\ FullInv /\ LostOnlyUnseen
  BY DEF RotationInv
<1>1. PICK failed \in Failing :
      /\ reader.at = "idle" /\ Len(files) > 1 /\ NoRecords(failed)
      /\ reader' = [reader EXCEPT !.at = "rotate"]
      /\ book' = [book EXCEPT !.excused = @ \cup InHand, !.unread = @ \cup Unread(failed)]
      /\ UNCHANGED <<files, rows, peak, writer, readDb, writeDb, writeQueue, maxReached>>
  BY DEF GetNothing
<1>2. /\ writer \in [FileId -> Writers] /\ readDb.file \in FileId
      /\ reader \in Readers /\ book \in Books
  BY <1>0 DEF StorageShapes
<1>3. /\ InHand \subseteq StoredEvent \cup {NoEvent} /\ Unread(failed) \subseteq StoredEvent
      /\ rows[readDb.file] \subseteq Unread(failed)
  <2>1. rows[readDb.file] \subseteq StoredEvent
    BY <1>0 DEF StorageShapes
  <2> QED BY <1>1, <1>2, <2>1 DEF InHand, Writers, Unread, NoRecords
<1>4. /\ book' \in Books /\ book'.accepted = book.accepted /\ book'.replayed = book.replayed
      /\ book'.full = book.full /\ book.excused \subseteq book'.excused
      /\ book'.unread = book.unread \cup Unread(failed)
  BY <1>1, <1>2, <1>3 DEF Books
<1>5. reader' \in Readers /\ reader'.at = "rotate"
  BY <1>1, <1>2 DEF Readers
<1>6. StorageShapes'
  BY <1>0, <1>1, <1>4, <1>5 DEF StorageShapes
<1>7. FilesInv'
  BY <1>0, <1>1, <1>5, FilesFrame
<1>8. HandInv'
  BY <1>0, <1>1, <1>3, <1>4, <1>5 DEF HandInv, Running
<1>9. FullInv'
  BY <1>0, <1>1, <1>4 DEF FullInv, OneWriterUntilFull, Running
<1>10. LostOnlyUnseen'
  BY <1>0, <1>1, <1>4, StillHeld
<1> QED BY <1>6, <1>7, <1>8, <1>9, <1>10 DEF RotationInv

\* What was replayed is deleted.
LEMMA DeleteDataKeeps ==
    ASSUME RotationInv, DeleteData
    PROVE  RotationInv'
<1>0. StorageShapes /\ FilesInv /\ HandInv /\ FullInv /\ LostOnlyUnseen
  BY DEF RotationInv
<1>1. /\ reader.at = "done" /\ rows' = [rows EXCEPT ![readDb.file] = @ \ reader.pack]
      /\ book' = [book EXCEPT !.replayed = @ \cup reader.pack]
      /\ reader' = [at |-> "check", pack |-> {}]
      /\ UNCHANGED <<files, peak, writer, readDb, writeDb, writeQueue, maxReached>>
  BY DEF DeleteData
<1>2. /\ rows \in [FileId -> SUBSET StoredEvent] /\ readDb.file \in FileId
      /\ reader.pack \subseteq StoredEvent /\ book \in Books
  BY <1>0 DEF StorageShapes, Readers
<1>3. /\ book' \in Books /\ book'.accepted = book.accepted /\ book'.full = book.full
      /\ book'.excused = book.excused /\ book'.unread = book.unread
      /\ book'.replayed = book.replayed \cup reader.pack
  BY <1>1, <1>2 DEF Books
<1>4. reader' \in Readers /\ reader'.at = "check"
  BY <1>1 DEF Readers
<1>5. /\ rows' \in [FileId -> SUBSET StoredEvent]
      /\ \A h \in FileId : rows[h] \subseteq rows'[h] \cup reader.pack
  BY <1>1, <1>2
<1>6. StorageShapes'
  BY <1>0, <1>1, <1>3, <1>4, <1>5 DEF StorageShapes
<1>7. FilesInv'
  BY <1>0, <1>1, <1>4, FilesFrame
<1>8. HandInv'
  BY <1>0, <1>1, <1>3, <1>4 DEF HandInv, Running
<1>9. FullInv'
  BY <1>0, <1>1, <1>3 DEF FullInv, OneWriterUntilFull, Running
<1>10. LostOnlyUnseen'
  <2>1. \A x : Held(x, rows, writeQueue, writer, book.replayed) =>
                  Held(x, rows', writeQueue', writer', book'.replayed)
    BY <1>1, <1>3, <1>5 DEF Held
  <2> QED BY <1>0, <1>3, <2>1, StillHeld
<1> QED BY <1>6, <1>7, <1>8, <1>9, <1>10 DEF RotationInv

\* A file that is full and found without records is exhausted, ...
LEMMA CheckExhaustedKeeps ==
    ASSUME RotationInv, CheckExhausted
    PROVE  RotationInv'
<1>0. StorageShapes /\ FilesInv /\ HandInv /\ FullInv /\ LostOnlyUnseen
  BY DEF RotationInv
<1>1. reader.at = "check" /\ UNCHANGED <<rows, peak, readDb, writeQueue, maxReached>>
  BY DEF CheckExhausted
<1>2. /\ writer \in [FileId -> Writers] /\ readDb.file \in FileId /\ readDb.shared \in BOOLEAN
      /\ reader \in Readers /\ files \in Seq(FileId) /\ Len(files) \in Nat
  BY <1>0 DEF StorageShapes
<1>3. readDb.file = files[1] /\ files[Len(files)] = writeDb /\ files # <<>>
  BY <1>0, <1>1 DEF FilesInv
<1>4. readDb.file # writeDb => Len(files) > 1
  <2>1. Len(files) >= 1
    BY <1>2, <1>3
  <2>2. Len(files) = 1 => files[Len(files)] = files[1]
    OBVIOUS
  <2> QED BY <1>2, <1>3, <2>1, <2>2
<1>5. CASE /\ reader' = [reader EXCEPT !.at = "idle"] /\ UNCHANGED <<writer, writeDb, files, book>>
  <2>1. reader' \in Readers /\ reader'.at = "idle"
    BY <1>2, <1>5 DEF Readers
  <2>2. StorageShapes'
    BY <1>0, <1>1, <1>5, <2>1 DEF StorageShapes
  <2>3. FilesInv'
    BY <1>0, <1>1, <1>5, <2>1, FilesFrame
  <2>4. HandInv'
    BY <1>0, <1>1, <1>5, <2>1 DEF HandInv, Running
  <2>5. FullInv'
    BY <1>0, <1>1, <1>5 DEF FullInv, OneWriterUntilFull, Running
  <2>6. LostOnlyUnseen'
    BY <1>0, <1>1, <1>5, StillHeld
  <2> QED BY <2>2, <2>3, <2>4, <2>5, <2>6 DEF RotationInv
<1>6. ASSUME NEW failed \in Failing, NoRecords(failed), reader' = [reader EXCEPT !.at = "rotate"],
             ~readDb.shared, book' = [book EXCEPT !.unread = @ \cup Unread(failed)],
             UNCHANGED <<writer, writeDb, files>>
      PROVE  RotationInv'
  <2>1. reader' \in Readers /\ reader'.at = "rotate"
    BY <1>2, <1>6 DEF Readers
  <2>7. Unread(failed) \subseteq StoredEvent /\ rows[readDb.file] \subseteq Unread(failed)
    <3>1. rows[readDb.file] \subseteq StoredEvent
      BY <1>0 DEF StorageShapes
    <3> QED BY <1>6, <3>1 DEF Unread, NoRecords
  <2>8. /\ book' \in Books /\ book'.accepted = book.accepted /\ book'.replayed = book.replayed
        /\ book'.full = book.full /\ book'.excused = book.excused
        /\ book'.unread = book.unread \cup Unread(failed)
    BY <1>0, <1>6, <2>7 DEF StorageShapes, Books
  <2>2. StorageShapes'
    BY <1>0, <1>1, <1>6, <2>1, <2>8 DEF StorageShapes
  <2>3. FilesInv'
    <3>1. Len(files) > 1
      BY <1>0, <1>4, <1>6 DEF FilesInv
    <3> QED BY <1>0, <1>1, <1>6, <2>1, <3>1, FilesFrame
  <2>4. HandInv'
    BY <1>0, <1>1, <1>6, <2>1, <2>7, <2>8 DEF HandInv, Running
  <2>5. FullInv'
    BY <1>0, <1>1, <1>6, <2>8 DEF FullInv, OneWriterUntilFull, Running
  <2>6. LostOnlyUnseen'
    BY <1>0, <1>1, <1>6, <2>8, StillHeld
  <2> QED BY <2>2, <2>3, <2>4, <2>5, <2>6 DEF RotationInv
<1>7. ASSUME NEW failed \in Failing, NoRecords(failed), reader' = [reader EXCEPT !.at = "rotate"],
             readDb.shared,
             LimitReached(readDb.file, [writer EXCEPT ![readDb.file].limit = TRUE],
                          InHand, Unread(failed))
      PROVE  RotationInv'
  <2> DEFINE f == readDb.file
             ws == [writer EXCEPT ![f].limit = TRUE]
  <2>1. InHand \in SUBSET (StoredEvent \cup {NoEvent}) /\ writer[f].batch \in InHand
    BY <1>2, <1>7 DEF InHand, Writers
  <2>9. Unread(failed) \in SUBSET StoredEvent /\ rows[readDb.file] \subseteq Unread(failed)
    <3>1. rows[readDb.file] \subseteq StoredEvent
      BY <1>0 DEF StorageShapes
    <3> QED BY <1>7, <3>1 DEF Unread, NoRecords
  <2>2. reader' \in Readers /\ reader'.at = "rotate"
    BY <1>2, <1>7 DEF Readers
  <2>3. f \in FileId /\ LimitReached(f, ws, InHand, Unread(failed))
        /\ ws = [writer EXCEPT ![f].limit = TRUE]
    BY <1>2, <1>7
  <2> HIDE DEF ws, f
  <2>4. /\ files' \in Seq(FileId) /\ writer' \in [FileId -> Writers]
        /\ writeDb' \in FileId /\ book' \in Books
        /\ files' # <<>> /\ files'[1] = files[1] /\ files'[Len(files')] = writeDb'
        /\ Len(files') >= Len(files)
        /\ (f = writeDb => Len(files') > 1 \/ Full(files))
        /\ \A i, j \in 1 .. Len(files') : i < j => files'[i] < files'[j]
        /\ \A i \in 1 .. Len(files') : writer'[files'[i]].at # "none"
        /\ \E k \in FileId : MadeUpTo(writer', k)
        /\ writer'[readDb.file].at # "none"
        /\ writer'[writeDb'].at = "run" /\ writer'[writeDb'].write
        /\ book.excused \cup InHand \subseteq book'.excused
        /\ book'.unread = book.unread \cup Unread(failed)
        /\ \A h \in FileId : writer'[h].at = "run" /\ h # writeDb' =>
               writer'[h].batch \in book'.excused \cup {NoEvent}
        /\ FullInv' /\ LostOnlyUnseen'
    BY <1>1, <2>1, <2>3, <2>9, LimitStep
  <2>5. StorageShapes'
    BY <1>0, <1>1, <2>2, <2>4 DEF StorageShapes
  <2>6. Len(files') > 1
    <3>1. Len(files') \in Nat
      BY <2>4
    <3>2. Full(files) => Len(files) > 1
      BY <1>2, RotationAssumption DEF Full
    <3>3. Len(files) > 1 => Len(files') > 1
      BY <1>2, <2>4, <3>1
    <3> QED BY <1>4, <2>4, <3>2, <3>3 DEF f
  <2>7. FilesInv'
    BY <1>1, <1>3, <1>7, <2>2, <2>4, <2>6 DEF FilesInv
  <2>8. HandInv'
    BY <1>1, <1>7, <2>2, <2>4, <2>9 DEF HandInv, Running
  <2> QED BY <2>4, <2>5, <2>7, <2>8 DEF RotationInv
<1> QED BY <1>5, <1>6, <1>7 DEF CheckExhausted

\* ... it is deleted, ...
LEMMA DeleteFilesKeeps ==
    ASSUME RotationInv, DeleteFiles
    PROVE  RotationInv'
<1> DEFINE f == readDb.file
<1>0. StorageShapes /\ FilesInv /\ HandInv /\ FullInv /\ LostOnlyUnseen
  BY DEF RotationInv
<1>1. /\ reader.at = "rotate"
      /\ writer' = (IF readDb.shared THEN [writer EXCEPT ![f] = Stopped(writer[f])] ELSE writer)
      /\ rows' = [rows EXCEPT ![f] = {}] /\ files' = RemoveFirst(files, f)
      /\ reader' = [reader EXCEPT !.at = "switch"]
      /\ UNCHANGED <<peak, readDb, writeDb, writeQueue, maxReached, book>>
  BY DEF DeleteFiles
<1>2. /\ writer \in [FileId -> Writers] /\ f \in FileId /\ readDb.shared \in BOOLEAN
      /\ reader \in Readers /\ files \in Seq(FileId) /\ Len(files) \in Nat
      /\ rows \in [FileId -> SUBSET StoredEvent] /\ writeDb \in FileId
      /\ book \in Books
  BY <1>0 DEF StorageShapes
<1>3. f = files[1] /\ files[Len(files)] = writeDb /\ files # <<>> /\ Len(files) > 1
  BY <1>0, <1>1 DEF FilesInv
<1>4. f # writeDb
  BY <1>0, <1>3, FirstIsNotWritten
<1> HIDE DEF f
<1>5. /\ files' = Tail(files) /\ files' \in Seq(FileId) /\ Len(files') = Len(files) - 1
      /\ \A i \in 1 .. Len(files) - 1 : files'[i] = files[i + 1]
  <2>1. files' = Tail(files)
    BY <1>1, <1>2, <1>3, RemoveHead
  <2> QED BY <1>2, <1>3, <2>1
<1>6. /\ files' # <<>> /\ files'[Len(files')] = writeDb /\ files'[1] = files[2]
  <2>1. /\ Len(files') \in 1 .. Len(files) - 1 /\ Len(files') + 1 = Len(files)
        /\ 1 \in 1 .. Len(files) - 1 /\ Len(files') # 0
    BY <1>2, <1>3, <1>5
  <2>2. files'[Len(files')] = files[Len(files') + 1] /\ files'[1] = files[1 + 1]
    BY <1>5, <2>1
  <2>3. files' # <<>>
    BY <2>1
  <2> QED BY <1>3, <2>1, <2>2, <2>3
<1>7. \A i, j \in 1 .. Len(files') : i < j => files'[i] < files'[j]
  <2> SUFFICES ASSUME NEW i \in 1 .. Len(files'), NEW j \in 1 .. Len(files'), i < j
               PROVE  files'[i] < files'[j]
    OBVIOUS
  <2>1. i + 1 \in 1 .. Len(files) /\ j + 1 \in 1 .. Len(files) /\ i + 1 < j + 1
    BY <1>2, <1>5
  <2>2. files[i + 1] < files[j + 1]
    BY <1>0, <2>1 DEF FilesInv
  <2> QED BY <1>5, <2>2
<1>8. /\ writer' \in [FileId -> Writers]
      /\ \A h \in FileId : h # f => writer'[h] = writer[h]
      /\ \A h \in FileId : writer'[h].at = "none" <=> writer[h].at = "none"
      /\ writer'[f] = writer[f] \/ writer'[f].at # "run"
  <2>1. writer[f].at # "none"
    BY <1>0 DEF FilesInv, f
  <2>2. CASE readDb.shared
    <3>1. Stopped(writer[f]) \in Writers /\ Stopped(writer[f]).at \in {"ended", "spin"}
      BY <1>2, StoppedFacts
    <3>2. writer' = [writer EXCEPT ![f] = Stopped(writer[f])]
      BY <1>1, <2>2
    <3>3. /\ writer' \in [FileId -> Writers] /\ writer'[f] = Stopped(writer[f])
          /\ \A h \in FileId : h # f => writer'[h] = writer[h]
      BY <1>2, <3>1, <3>2
    <3> QED BY <2>1, <3>1, <3>3
  <2>3. CASE ~readDb.shared
    BY <1>1, <1>2, <2>3
  <2> QED BY <1>2, <2>2, <2>3
<1>9. reader' \in Readers /\ reader'.at = "switch"
  BY <1>1, <1>2 DEF Readers
<1>10. /\ rows' \in [FileId -> SUBSET StoredEvent]
       /\ \A h \in FileId : h # f => rows'[h] = rows[h]
  BY <1>1, <1>2
<1>11. StorageShapes'
  BY <1>0, <1>1, <1>5, <1>8, <1>9, <1>10 DEF StorageShapes
<1>12. FilesInv'
  <2>1. PICK k \in FileId : MadeUpTo(writer, k)
    BY <1>0 DEF FilesInv
  <2>2. MadeUpTo(writer', k)
    BY <1>8, <2>1 DEF MadeUpTo
  <2>3. \A i \in 1 .. Len(files') : writer'[files'[i]].at # "none"
    <3> SUFFICES ASSUME NEW i \in 1 .. Len(files') PROVE writer'[files'[i]].at # "none"
      OBVIOUS
    <3>1. i + 1 \in 1 .. Len(files) /\ files'[i] = files[i + 1]
      BY <1>2, <1>5
    <3>2. files[i + 1] \in FileId /\ writer[files[i + 1]].at # "none"
      BY <1>0, <1>2, <3>1 DEF FilesInv
    <3> QED BY <1>8, <3>1, <3>2
  <2>4. /\ writer'[f].at # "none" /\ writer'[writeDb].at = "run" /\ writer'[writeDb].write
    BY <1>0, <1>2, <1>4, <1>8 DEF FilesInv, f
  <2>5. f < files'[1]
    <3>1. 1 \in 1 .. Len(files) /\ 2 \in 1 .. Len(files)
      BY <1>2, <1>3
    <3>2. files[1] < files[2]
      BY <1>0, <3>1 DEF FilesInv
    <3> QED BY <1>3, <1>6, <3>2
  <2> QED BY <1>1, <1>4, <1>6, <1>7, <1>9, <2>2, <2>3, <2>4, <2>5 DEF FilesInv, f
<1>13. /\ \A h \in FileId : writer[h].at = "run" /\ h # writeDb =>
             writer[h].batch \in book.excused \cup {NoEvent}
       /\ rows[f] \subseteq book.excused \cup book.unread \cup {NoEvent}
  BY <1>0, <1>1 DEF HandInv, Running, f
<1>14. HandInv'
  <2>1. \A h \in FileId : writer'[h].at = "run" => writer'[h] = writer[h]
    BY <1>8
  <2> QED BY <1>1, <1>9, <1>13, <2>1 DEF HandInv, Running
<1>15. FullInv'
  <2>1. \A h \in FileId : writer'[h].at = "run" => writer'[h] = writer[h]
    BY <1>8
  <2> QED BY <1>0, <1>1, <2>1 DEF FullInv, OneWriterUntilFull, Running
<1>16. LostOnlyUnseen'
  <2>1. ASSUME NEW x \in book.accepted, Held(x, rows, writeQueue, writer, book.replayed)
        PROVE  Held(x, rows', writeQueue', writer', book'.replayed)
               \/ x \in book'.excused \cup book'.unread
    <3>0. x # NoEvent
      BY <1>2, RotationAssumption DEF Books, StoredEvent, NoEvent
    <3>1. CASE \E h \in FileId : x \in rows[h]
      <4>1. PICK h \in FileId : x \in rows[h]
        BY <3>1
      <4>2. CASE h = f
        BY <1>1, <1>13, <3>0, <4>1, <4>2
      <4>3. CASE h # f
        <5>1. x \in rows'[h]
          BY <1>10, <4>1, <4>3
        <5> QED BY <5>1 DEF Held
      <4> QED BY <4>2, <4>3
    <3>2. CASE \E h \in FileId : writer[h].at = "run" /\ x = writer[h].batch
      <4>1. PICK h \in FileId : writer[h].at = "run" /\ x = writer[h].batch
        BY <3>2
      <4>2. CASE h = f
        BY <1>1, <1>4, <1>13, <3>0, <4>1, <4>2
      <4>3. CASE h # f
        <5>1. writer'[h].at = "run" /\ writer'[h].batch = x
          BY <1>8, <4>1, <4>3
        <5> QED BY <5>1 DEF Held
      <4> QED BY <4>2, <4>3
    <3>3. CASE (\E i \in DOMAIN writeQueue : x = writeQueue[i]) \/ x \in book.replayed
      BY <1>1, <3>3 DEF Held
    <3> QED BY <2>1, <3>1, <3>2, <3>3 DEF Held
  <2> QED BY <1>0, <1>1, <2>1, StillHeld
<1> QED BY <1>11, <1>12, <1>14, <1>15, <1>16 DEF RotationInv

\* The next read database is the first file's.
LEMMA NextReadFacts ==
    ASSUME StorageShapes, FilesInv
    PROVE  /\ NextReadDb \in [file : FileId, shared : BOOLEAN]
           /\ NextReadDb.file = files[1] /\ files[1] \in FileId
           /\ (~NextReadDb.shared => NextReadDb.file # writeDb)
<1>1. /\ files \in Seq(FileId) /\ Len(files) \in Nat /\ writeDb \in FileId
      /\ files # <<>> /\ files[Len(files)] = writeDb
  BY DEF StorageShapes, FilesInv
<1>2. Len(files) >= 1 /\ files[1] \in FileId
  BY <1>1
<1>3. CASE Len(files) > 1
  <2>1. files[1] # writeDb
    BY <1>3, FirstIsNotWritten
  <2> QED BY <1>2, <1>3, <2>1 DEF NextReadDb
<1>4. CASE ~(Len(files) > 1)
  <2>0. Len(files) \in Nat /\ Len(files) >= 1
    BY <1>1, <1>2
  <2>1. Len(files) = 1
    BY <1>4, <2>0
  <2>2. files[1] = writeDb
    BY <1>1, <2>1
  <2> QED BY <1>1, <1>2, <1>4, <2>2 DEF NextReadDb
<1> QED BY <1>3, <1>4

\* ... and the next becomes the read database.
LEMMA SwitchReadKeeps ==
    ASSUME RotationInv, SwitchRead
    PROVE  RotationInv'
<1>0. StorageShapes /\ FilesInv /\ HandInv /\ FullInv /\ LostOnlyUnseen
  BY DEF RotationInv
<1>1. /\ reader.at = "switch" /\ readDb' = NextReadDb /\ CheckMaxCount
      /\ reader' = [reader EXCEPT !.at = "idle"]
      /\ book' = [book EXCEPT !.full = @ \/ maxReached',
                     !.excused = IF writeDb' = writeDb THEN @ ELSE @ \cup {writer[writeDb].batch}]
      /\ UNCHANGED <<rows, peak, writeQueue>>
  BY DEF SwitchRead
<1>2. /\ writer \in [FileId -> Writers] /\ writeDb \in FileId /\ maxReached \in BOOLEAN
      /\ reader \in Readers /\ files \in Seq(FileId) /\ book \in Books
  BY <1>0 DEF StorageShapes
<1>3. /\ readDb' \in [file : FileId, shared : BOOLEAN] /\ readDb'.file = files[1]
      /\ files[1] \in FileId /\ (~readDb'.shared => readDb'.file # writeDb)
  BY <1>0, <1>1, NextReadFacts
<1>4. reader' \in Readers /\ reader'.at = "idle"
  BY <1>1, <1>2 DEF Readers
<1>5. maxReached' \in BOOLEAN
  BY <1>1 DEF CheckMaxCount
<1>6. writer[writeDb].batch \in StoredEvent \cup {NoEvent}
  BY <1>2 DEF Writers
<1>7. /\ book' \in Books /\ book'.accepted = book.accepted /\ book'.replayed = book.replayed
      /\ book'.full = (book.full \/ maxReached') /\ book.excused \subseteq book'.excused
      /\ book'.unread = book.unread
      /\ (writeDb' # writeDb => writer[writeDb].batch \in book'.excused)
  BY <1>1, <1>2, <1>5, <1>6 DEF Books
<1>8. /\ \A h \in FileId : writer[h].at = "run" /\ h # writeDb =>
             writer[h].batch \in book.excused \cup {NoEvent}
      /\ \A h \in FileId : writer[h].at = "run" /\ writer[h].write => h = writeDb \/ book.full
      /\ (maxReached => book.full)
  BY <1>0 DEF HandInv, FullInv, OneWriterUntilFull, Running
<1>9. /\ files # <<>> /\ files[Len(files)] = writeDb /\ writer[writeDb].at = "run"
      /\ writer[writeDb].write
      /\ \A i, j \in 1 .. Len(files) : i < j => files[i] < files[j]
      /\ \A i \in 1 .. Len(files) : writer[files[i]].at # "none" /\ files[i] \in FileId
      /\ Len(files) \in Nat /\ Len(files) >= 1
  BY <1>0, <1>2 DEF FilesInv
<1>10. PICK k \in FileId : MadeUpTo(writer, k)
  BY <1>0 DEF FilesInv
<1>11. CASE UNCHANGED <<writer, writeDb, files>>
  <2>1. StorageShapes'
    BY <1>0, <1>1, <1>3, <1>4, <1>5, <1>7, <1>11 DEF StorageShapes
  <2>2. FilesInv'
    <3>1. writer[files[1]].at # "none"
      BY <1>9
    <3> QED BY <1>3, <1>4, <1>9, <1>10, <1>11, <3>1 DEF FilesInv
  <2>3. HandInv'
    BY <1>4, <1>7, <1>8, <1>11 DEF HandInv, Running
  <2>4. FullInv'
    BY <1>7, <1>8, <1>11 DEF FullInv, OneWriterUntilFull, Running
  <2>5. LostOnlyUnseen'
    BY <1>0, <1>1, <1>7, <1>11, StillHeld
  <2> QED BY <2>1, <2>2, <2>3, <2>4, <2>5 DEF RotationInv
<1>12. CASE /\ maxReached /\ NewFile \in FileId
            /\ writer' = [writer EXCEPT ![NewFile] = NewWriter] /\ writeDb' = NewFile
            /\ files' = Append(files, NewFile)
  <2> DEFINE g == k + 1
  <2>0. NewFile = g
    BY <1>10, NewFileIsNew
  <2>1. /\ files' \in Seq(FileId) /\ files' # <<>> /\ Len(files') = Len(files) + 1
        /\ files'[1] = files[1] /\ files'[Len(files) + 1] = g
        /\ \A i \in 1 .. Len(files) : files'[i] = files[i]
        /\ \A i, j \in 1 .. Len(files) + 1 : i < j => files'[i] < files'[j]
        /\ \A h \in FileId : h <= k => h # g
    BY <1>0, <1>2, <1>10, <1>12, <2>0, OneMoreFile
  <2>2. \A h \in FileId : writer[h].at # "none" => h # g
    BY <1>10, <2>1 DEF MadeUpTo
  <2>3. \A h \in FileId : h <= g <=> h <= k \/ h = g
    BY <1>10, FilesAreNumbers
  <2> HIDE DEF g
  <2>4. NewWriter \in Writers /\ NewWriter.at = "run" /\ NewWriter.write /\ NewWriter.batch = NoEvent
    BY NewWriterFacts
  <2>5. /\ g \in FileId /\ writer' \in [FileId -> Writers] /\ writer'[g] = NewWriter
        /\ \A h \in FileId : h # g => writer'[h] = writer[h]
    BY <1>2, <1>12, <2>0, <2>4
  <2>6. writeDb' = g /\ writeDb # g /\ files[1] # g /\ writer[files[1]].at # "none"
    BY <1>2, <1>9, <1>12, <2>0, <2>2
  <2>7. StorageShapes'
    BY <1>0, <1>1, <1>3, <1>4, <1>5, <1>7, <2>1, <2>5, <2>6 DEF StorageShapes
  <2>8. FilesInv'
    <3>1. MadeUpTo(writer', g)
      BY <1>10, <2>3, <2>4, <2>5 DEF MadeUpTo
    <3>2. ASSUME NEW i \in 1 .. Len(files') PROVE writer'[files'[i]].at # "none"
      <4>1. CASE i = Len(files) + 1
        BY <2>1, <2>4, <2>5, <4>1
      <4>2. CASE i # Len(files) + 1
        <5>1. i \in 1 .. Len(files)
          BY <1>9, <2>1, <4>2
        <5>2. files'[i] \in FileId /\ writer[files'[i]].at # "none"
          BY <1>9, <2>1, <5>1
        <5> QED BY <2>2, <2>5, <5>2
      <4> QED BY <4>1, <4>2
    <3>3. writer'[files[1]].at # "none"
      BY <1>3, <2>5, <2>6
    <3>4. files'[Len(files')] = writeDb'
      BY <2>1, <2>6
    <3>5. writer'[writeDb'].at = "run" /\ writer'[writeDb'].write
      BY <2>4, <2>5, <2>6
    <3>6. \A i, j \in 1 .. Len(files') : i < j => files'[i] < files'[j]
      BY <2>1
    <3> QED BY <1>3, <1>4, <2>1, <2>5, <2>6, <3>1, <3>2, <3>3, <3>4, <3>5, <3>6 DEF FilesInv
  <2>9. HandInv'
    <3> SUFFICES ASSUME NEW h \in FileId, writer'[h].at = "run", h # writeDb'
                 PROVE  writer'[h].batch \in book'.excused \cup {NoEvent}
      BY <1>4 DEF HandInv, Running
    <3>1. writer'[h] = writer[h]
      BY <2>5, <2>6
    <3>2. CASE h = writeDb
      BY <1>7, <2>6, <3>1, <3>2
    <3>3. CASE h # writeDb
      BY <1>7, <1>8, <3>1, <3>3
    <3> QED BY <3>2, <3>3
  <2>10. FullInv'
    BY <1>7, <1>8, <1>12 DEF FullInv, OneWriterUntilFull
  <2>11. LostOnlyUnseen'
    <3>1. ASSUME NEW x, Held(x, rows, writeQueue, writer, book.replayed)
          PROVE  Held(x, rows', writeQueue', writer', book'.replayed)
      <4>1. CASE \E h \in FileId : writer[h].at = "run" /\ x = writer[h].batch
        <5>1. PICK h \in FileId : writer[h].at = "run" /\ x = writer[h].batch
          BY <4>1
        <5>2. writer'[h].at = "run" /\ x = writer'[h].batch
          BY <2>2, <2>5, <5>1
        <5> QED BY <5>2 DEF Held
      <4>2. CASE \/ \E h \in FileId : x \in rows[h]
                 \/ \E i \in DOMAIN writeQueue : x = writeQueue[i]
                 \/ x \in book.replayed
        BY <1>1, <1>7, <4>2 DEF Held
      <4> QED BY <3>1, <4>1, <4>2 DEF Held
    <3> QED BY <1>0, <1>7, <3>1, StillHeld
  <2> QED BY <2>7, <2>8, <2>9, <2>10, <2>11 DEF RotationInv
<1> QED BY <1>1, <1>11, <1>12 DEF CheckMaxCount

\* A restart begins with the files that are left.
LEMMA StorageRestartKeeps ==
    ASSUME RotationInv, StorageRestart
    PROVE  RotationInv'
<1>0. StorageShapes /\ FilesInv /\ HandInv /\ FullInv /\ LostOnlyUnseen
  BY DEF RotationInv
<1>1. /\ writer \in [FileId -> Writers] /\ writeDb \in FileId /\ book \in Books
      /\ files \in Seq(FileId) /\ writeQueue \in Seq(StoredEvent)
      /\ files # <<>> /\ files[Len(files)] = writeDb
      /\ Len(files) \in Nat /\ Len(files) >= 1
  BY <1>0 DEF StorageShapes, FilesInv
<1> DEFINE old(f) == [writer[f] EXCEPT !.at = IF writer[f].at = "none" THEN writer[f].at ELSE "ended",
                                       !.batch = NoEvent]
<1>2. /\ files' = files /\ readDb' = [file |-> files[1], shared |-> Len(files) = 1]
      /\ writeDb' = writeDb
      /\ writer' = [f \in FileId |-> IF f = writeDb THEN NewWriter ELSE old(f)]
      /\ book' = [book EXCEPT !.restarts = @ + 1,
                     !.excused = @ \cup {writer[f].batch : f \in FileId}
                                   \cup {writeQueue[i] : i \in DOMAIN writeQueue}]
      /\ writeQueue' = <<>> /\ maxReached' = FALSE
      /\ reader' = [at |-> "check", pack |-> {}]
      /\ UNCHANGED <<rows, peak>>
  <2>1. (IF files = <<>> THEN <<writeDb>> ELSE files) = files
    BY <1>1
  <2>2. /\ files' = files /\ readDb' = [file |-> files[1], shared |-> Len(files) = 1]
        /\ writeDb' = files[Len(files)]
        /\ writer' = [f \in FileId |-> IF f = files[Len(files)] THEN NewWriter ELSE old(f)]
    BY <2>1, Zenon DEF StorageRestart
  <2>3. /\ book' = [book EXCEPT !.restarts = @ + 1,
                        !.excused = @ \cup {writer[f].batch : f \in FileId}
                                      \cup {writeQueue[i] : i \in DOMAIN writeQueue}]
        /\ writeQueue' = <<>> /\ maxReached' = FALSE
        /\ reader' = [at |-> "check", pack |-> {}]
        /\ UNCHANGED <<rows, peak>>
    BY Zenon DEF StorageRestart
  <2>4. writeDb' = writeDb
        /\ writer' = [f \in FileId |-> IF f = writeDb THEN NewWriter ELSE old(f)]
    <3> HIDE DEF old
    <3> QED BY <1>1, <2>2
  <2> QED BY <2>2, <2>3, <2>4, Zenon
<1>3. ASSUME NEW f \in FileId
      PROVE  /\ old(f) \in Writers /\ old(f).at # "run"
             /\ (old(f).at = "none" <=> writer[f].at = "none")
  <2>1. writer[f] \in Writers
    BY <1>1
  <2> QED BY <2>1 DEF Writers
<1>4. NewWriter \in Writers /\ NewWriter.at = "run" /\ NewWriter.write
  BY NewWriterFacts
<1> HIDE DEF old
<1>5. /\ writer' \in [FileId -> Writers] /\ writer'[writeDb] = NewWriter
      /\ \A f \in FileId : f # writeDb => writer'[f] = old(f)
  BY <1>1, <1>2, <1>3, <1>4
<1>6. /\ {writer[f].batch : f \in FileId} \subseteq StoredEvent \cup {NoEvent}
      /\ {writeQueue[i] : i \in DOMAIN writeQueue} \subseteq StoredEvent
  <2>1. \A f \in FileId : writer[f].batch \in StoredEvent \cup {NoEvent}
    BY <1>1 DEF Writers
  <2>2. \A i \in DOMAIN writeQueue : writeQueue[i] \in StoredEvent
    BY <1>1
  <2> QED BY <2>1, <2>2
<1> DEFINE B == {writer[f].batch : f \in FileId}
           Q == {writeQueue[i] : i \in DOMAIN writeQueue}
<1>7. /\ \A f \in FileId : writer[f].batch \in B
      /\ \A i \in DOMAIN writeQueue : writeQueue[i] \in Q
      /\ B \subseteq StoredEvent \cup {NoEvent} /\ Q \subseteq StoredEvent
      /\ book' = [book EXCEPT !.restarts = @ + 1, !.excused = @ \cup B \cup Q]
  BY <1>2, <1>6
<1> HIDE DEF B, Q
<1>8. /\ book' \in Books /\ book'.accepted = book.accepted /\ book'.replayed = book.replayed
      /\ book'.full = book.full /\ book'.excused = book.excused \cup B \cup Q
      /\ book'.unread = book.unread
  <2>1. book.restarts \in Nat /\ book.restarts + 1 \in Nat
    BY <1>1 DEF Books
  <2>2. book.excused \cup B \cup Q \subseteq StoredEvent \cup {NoEvent}
    BY <1>1, <1>7 DEF Books
  <2> DEFINE r == book.restarts + 1
             x == book.excused \cup B \cup Q
  <2>3. book' = [book EXCEPT !.restarts = r, !.excused = x]
    BY <1>1, <1>7 DEF Books
  <2>4. r \in Nat /\ x \in SUBSET (StoredEvent \cup {NoEvent})
    BY <2>1, <2>2
  <2> HIDE DEF r, x
  <2>5. /\ book' \in Books /\ book'.accepted = book.accepted /\ book'.replayed = book.replayed
        /\ book'.full = book.full /\ book'.excused = x /\ book'.unread = book.unread
    BY <1>1, <2>3, <2>4 DEF Books
  <2> QED BY <2>5 DEF x
<1>9. /\ readDb' \in [file : FileId, shared : BOOLEAN] /\ readDb'.file = files[1]
      /\ files[1] \in FileId /\ (~readDb'.shared => files[1] # writeDb)
  <2>1. files[1] \in FileId
    BY <1>1
  <2>0. Len(files) \in Nat /\ Len(files) >= 1
    BY <1>1
  <2>2. Len(files) # 1 => Len(files) > 1
    <3>1. \A n \in Nat : n >= 1 /\ n # 1 => n > 1
      OBVIOUS
    <3> QED BY <2>0, <3>1
  <2> QED BY <1>0, <1>2, <2>1, <2>2, FirstIsNotWritten
<1>10. reader' \in Readers /\ reader'.at = "check"
  BY <1>2 DEF Readers
<1>11. writeQueue' \in Seq(StoredEvent)
  BY <1>2
<1>12. StorageShapes'
  BY <1>0, <1>1, <1>2, <1>5, <1>8, <1>9, <1>10, <1>11 DEF StorageShapes
<1>13. FilesInv'
  <2>1. PICK k \in FileId : MadeUpTo(writer, k)
    BY <1>0 DEF FilesInv
  <2>2. \A f \in FileId : writer'[f].at = "none" <=> writer[f].at = "none"
    BY <1>0, <1>1, <1>3, <1>4, <1>5 DEF FilesInv
  <2>3. MadeUpTo(writer', k)
    BY <2>1, <2>2 DEF MadeUpTo
  <2>4. \A i \in 1 .. Len(files) : writer'[files[i]].at # "none"
    <3> SUFFICES ASSUME NEW i \in 1 .. Len(files) PROVE writer'[files[i]].at # "none"
      OBVIOUS
    <3>1. files[i] \in FileId /\ writer[files[i]].at # "none"
      BY <1>0, <1>1 DEF FilesInv
    <3> QED BY <2>2, <3>1
  <2>5. writer'[files[1]].at # "none"
    BY <1>1, <2>4
  <2>6. writer'[writeDb].at = "run" /\ writer'[writeDb].write
    BY <1>4, <1>5
  <2>7. \A i, j \in 1 .. Len(files) : i < j => files[i] < files[j]
    BY <1>0 DEF FilesInv
  <2> QED BY <1>1, <1>2, <1>9, <1>10, <2>3, <2>4, <2>5, <2>6, <2>7 DEF FilesInv
<1>14. HandInv'
  BY <1>2, <1>3, <1>5, <1>10 DEF HandInv, Running
<1>15. FullInv'
  BY <1>2, <1>3, <1>5 DEF FullInv, OneWriterUntilFull, Running
<1>16. LostOnlyUnseen'
  <2>1. ASSUME NEW x \in book.accepted, Held(x, rows, writeQueue, writer, book.replayed)
        PROVE  Held(x, rows', writeQueue', writer', book'.replayed)
               \/ x \in book'.excused \cup book'.unread
    <3>1. CASE \/ \E i \in DOMAIN writeQueue : x = writeQueue[i]
               \/ \E h \in FileId : writer[h].at = "run" /\ x = writer[h].batch
      BY <1>7, <1>8, <3>1
    <3>2. CASE (\E h \in FileId : x \in rows[h]) \/ x \in book.replayed
      BY <1>2, <1>8, <3>2 DEF Held
    <3> QED BY <2>1, <3>1, <3>2 DEF Held
  <2> QED BY <1>0, <1>8, <2>1, StillHeld
<1> QED BY <1>12, <1>13, <1>14, <1>15, <1>16 DEF RotationInv

\* One empty file: the invariant holds ...
LEMMA RotationStarts == RotationInit => RotationInv
<1> SUFFICES ASSUME RotationInit PROVE RotationInv
  OBVIOUS
<1>1. /\ files = <<1>> /\ rows = [f \in FileId |-> {}] /\ peak = [f \in FileId |-> 0]
      /\ writer = [f \in FileId |-> IF f = 1 THEN NewWriter ELSE NoWriter]
      /\ readDb = [file |-> 1, shared |-> TRUE] /\ writeDb = 1
      /\ writeQueue = <<>> /\ maxReached = FALSE
      /\ reader = [at |-> "idle", pack |-> {}]
      /\ book = [puts |-> 0, accepted |-> {}, replayed |-> {}, excused |-> {}, unread |-> {},
                 full |-> FALSE, restarts |-> 0]
  BY DEF RotationInit
<1>2. 1 \in FileId /\ \A f \in FileId : f \in Nat /\ f >= 1
  BY FilesAreNumbers
<1>3. /\ NewWriter \in Writers /\ NewWriter.at = "run" /\ NewWriter.write
      /\ NoWriter \in Writers /\ NoWriter.at = "none"
  BY NewWriterFacts DEF NoWriter, Writers
<1>4. /\ writer \in [FileId -> Writers] /\ writer[1] = NewWriter
      /\ \A f \in FileId : f # 1 => writer[f] = NoWriter
  BY <1>1, <1>2, <1>3
<1>5. book \in Books /\ book.accepted = {}
  BY <1>1, RotationAssumption DEF Books
<1>6. peak \in [FileId -> 0 .. MaxPuts]
  BY <1>1, RotationAssumption
<1>7. reader \in Readers /\ reader.at = "idle"
  BY <1>1 DEF Readers
<1>8. files \in Seq(FileId) /\ Len(files) = 1 /\ files[1] = 1 /\ files # <<>>
  BY <1>1, <1>2
<1>9. StorageShapes
  <2>1. rows \in [FileId -> SUBSET StoredEvent] /\ maxReached \in BOOLEAN
    BY <1>1
  <2>2. readDb \in [file : FileId, shared : BOOLEAN] /\ writeDb \in FileId
    BY <1>1, <1>2
  <2>3. writeQueue \in Seq(StoredEvent)
    BY <1>1
  <2> QED BY <1>4, <1>5, <1>6, <1>7, <1>8, <2>1, <2>2, <2>3 DEF StorageShapes
<1>10. FilesInv
  <2>1. MadeUpTo(writer, 1)
    BY <1>2, <1>3, <1>4 DEF MadeUpTo
  <2>2. \A i \in 1 .. Len(files) : i = 1
    BY <1>8
  <2>3. \A i, j \in 1 .. Len(files) : i < j => files[i] < files[j]
    BY <1>8
  <2>4. readDb.file = 1 /\ readDb.shared /\ writeDb = 1
    BY <1>1
  <2>5. writer[1].at = "run" /\ writer[1].write
    BY <1>3, <1>4
  <2>6. reader.at # "switch" /\ reader.at # "rotate"
    BY <1>7
  <2> QED BY <1>2, <1>8, <2>1, <2>2, <2>3, <2>4, <2>5, <2>6 DEF FilesInv
<1>11. HandInv
  BY <1>1, <1>3, <1>4, <1>7 DEF HandInv, Running
<1>12. FullInv
  BY <1>1, <1>3, <1>4 DEF FullInv, OneWriterUntilFull, Running
<1>13. LostOnlyUnseen
  BY <1>5 DEF LostOnlyUnseen
<1> QED BY <1>9, <1>10, <1>11, <1>12, <1>13 DEF RotationInv

\* ... and what changes nothing keeps it.
LEMMA RotationStutters ==
    ASSUME RotationInv, UNCHANGED rotationVars
    PROVE  RotationInv'
<1>0. StorageShapes /\ FilesInv /\ HandInv /\ FullInv /\ LostOnlyUnseen
  BY DEF RotationInv
<1>1. UNCHANGED <<files, rows, peak, writer, readDb, writeDb, writeQueue, maxReached, reader, book>>
  BY DEF rotationVars
<1>2. StorageShapes'
  BY <1>0, <1>1 DEF StorageShapes
<1>3. FilesInv'
  BY <1>0, <1>1, FilesFrame
<1>4. HandInv' /\ FullInv'
  BY <1>0, <1>1 DEF HandInv, FullInv, OneWriterUntilFull, Running
<1>5. LostOnlyUnseen'
  BY <1>0, <1>1, StillHeld
<1> QED BY <1>2, <1>3, <1>4, <1>5 DEF RotationInv

-----------------------------------------------------------------------------
(***************************************************************************)
(* Theorems.                                                               *)
(***************************************************************************)

\* ... and every step keeps it.
LEMMA RotationStep == RotationInv /\ [RotationNext]_rotationVars => RotationInv'
<1> SUFFICES ASSUME RotationInv, [RotationNext]_rotationVars PROVE RotationInv'
  OBVIOUS
<1>1. CASE Put
  BY <1>1, PutKeeps
<1>2. CASE ReplayThread
  BY <1>2, GetEventPackKeeps, GetNothingKeeps, DeleteDataKeeps, CheckExhaustedKeeps,
     DeleteFilesKeeps, SwitchReadKeeps DEF ReplayThread
<1>3. CASE StorageRestart
  BY <1>3, StorageRestartKeeps
<1>4. ASSUME NEW f \in FileId, WriterThread(f) PROVE RotationInv'
  BY <1>4, ProcessTakeKeeps, ProcessWriteKeeps, ProcessFileLimitKeeps DEF WriterThread
<1>5. CASE UNCHANGED rotationVars
  BY <1>5, RotationStutters
<1> QED BY <1>1, <1>2, <1>3, <1>4, <1>5 DEF RotationNext

\* The inductive invariant of the rotation holds in every reachable state:
\* the files are listed in the order they were made, the read database is
\* the first and the write database the last of them, a file that is about
\* to be deleted holds only excused events.
THEOREM RotationInvariant == RotationSpec => []RotationInv
<1> QED BY RotationStarts, RotationStep, PTL DEF RotationSpec

\* The invariant keeps the shapes of the state ...
LEMMA RotationShaped == RotationInv => RotationTypeOK
<1> SUFFICES ASSUME RotationInv PROVE RotationTypeOK
  OBVIOUS
<1>1. StorageShapes
  BY DEF RotationInv
<1>2. \A i \in DOMAIN files : files[i] \in FileId
  BY <1>1 DEF StorageShapes
<1> QED BY <1>1, <1>2 DEF StorageShapes, RotationTypeOK

\* ... which therefore hold in every reachable state.
THEOREM RotationTypes == RotationSpec => []RotationTypeOK
<1> QED BY RotationShaped, RotationInvariant, PTL

\* Until the number of files has reached its maximum, only the thread of the
\* write database takes events from the queue: on_write_database_callback
\* retires the former writer in every rotation.
THEOREM OneWriter == RotationSpec => []OneWriterUntilFull
<1>1. RotationInv => OneWriterUntilFull
  BY DEF RotationInv, FullInv
<1> QED BY <1>1, RotationInvariant, PTL

\* An event that put() accepted is never lost in a rotation, except in the
\* hand of a thread that the rotation or a restart leaves behind, and except
\* the rows of a file whose check for records failed: database_has_records
\* answers False then too, and the file is deleted.
THEOREM EventsSurviveRotation == RotationSpec => []LostOnlyUnseen
<1>1. RotationInv => LostOnlyUnseen
  BY DEF RotationInv
<1> QED BY <1>1, RotationInvariant, PTL

=============================================================================
