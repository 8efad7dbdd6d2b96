------------------------------ MODULE RemoteLog ------------------------------
(***************************************************************************)
(* RemoteLogHandler: log records are buffered and published in batches;    *)
(* a warning or an error that repeats within a window is counted instead,  *)
(* and a summary takes its place later.  A record is its signature (level, *)
(* logger, message); an entry of the buffer is the set of the records it   *)
(* stands for, numbered as they were emitted: one, or all a summary counts.*)
(* Records below the level or of the publisher's own loggers never enter.  *)
(***************************************************************************)
EXTENDS Integers, Sequences, FiniteSets, SequencesExt

CONSTANTS Signatures,      \* the records that may be suppressed
          Exempt,          \* those that never are (levels, loggers, terms)
          DuplicateWindow, \* _duplicate_window
          DuplicateCache,  \* _duplicate_cache_size
          LogBuffer,       \* max_buffer_size
          MaxEmits,        \* records emitted
          MaxLogClock      \* the last tick of the clock

ASSUME RemoteLogAssumption ==
    /\ {DuplicateWindow, DuplicateCache, LogBuffer} \subseteq Nat \ {0}
    /\ MaxEmits \in Nat /\ MaxLogClock \in Nat

LogThreads == {"flusher", "stopper"}

VARIABLES
    logBuffer,    \* _buffer
    duplicates,   \* _duplicate_records, oldest first: [sig, at, suppressed]
    inFlush,      \* the entries each flushing thread has taken and not published
    logClock,     \* monotonic()
    logStopped,   \* _stopped
    tally         \* history: how many records were emitted; those published, and those dropped
                  \* by the full buffer or a failed publish

logVars == <<logBuffer, duplicates, inFlush, logClock, logStopped, tally>>

\* The records that a sequence of entries stands for.
Records(entries) == UNION {entries[i] : i \in DOMAIN entries}

\* The elements of s at the positions in S, in their order.
Position(S, i) == CHOOSE j \in S : Cardinality({k \in S : k <= j}) = i
Picked(s, S) == [i \in 1 .. Cardinality(S) |-> s[Position(S, i)]]

RemoteLogInit ==
    /\ logBuffer = <<>> /\ duplicates = <<>> /\ inFlush = [t \in LogThreads |-> <<>>]
    /\ logClock = 0 /\ logStopped = FALSE
    /\ tally = [emitted |-> 0, published |-> {}, dropped |-> {}]

----------------------------------------------------------------------------
\* _append_duplicate_summary of some duplicates: entries for the buffer
Counts(ds) == [i \in DOMAIN ds |-> ds[i].suppressed]
Summaries(ds) == Picked(Counts(ds), {i \in DOMAIN ds : ds[i].suppressed # {}})

\* mutant: a deque without maxlen
AppendedUnbounded(entries) == [kept |-> logBuffer \o entries, dropped |-> {}]

\* a deque with maxlen drops from its left end
Appended(entries) ==
    LET all == logBuffer \o entries
        cut == IF Len(all) > LogBuffer THEN Len(all) - LogBuffer ELSE 0
    IN  [kept |-> SubSeq(all, cut + 1, Len(all)), dropped |-> Records(SubSeq(all, 1, cut))]

Fresh(sig) == [sig |-> sig, at |-> logClock, suppressed |-> {}]
Expired(d) == logClock - d.at >= DuplicateWindow

\* mutant: the signature that leaves the cache takes its count with it
EvictSilently(ds) == <<>>

\* _remember_duplicate: a full cache gives up its oldest signatures
Evict(ds) == Summaries(SubSeq(ds, 1, Len(ds) - DuplicateCache))

Put1(entries, ds) ==
    /\ logBuffer' = Appended(entries).kept
    /\ duplicates' = ds
    /\ tally' = [tally EXCEPT !.emitted = @ + 1, !.dropped = @ \cup Appended(entries).dropped]

Emit(sig) ==
    LET record == tally.emitted + 1
        one == <<{record}>>
        known == {i \in DOMAIN duplicates : duplicates[i].sig = sig}
    IN
    /\ tally.emitted < MaxEmits
    /\ \/ sig \in Exempt /\ Put1(one, duplicates)
       \/ /\ sig \notin Exempt /\ known = {}                 \* first of its kind
          /\ LET ds == Append(duplicates, Fresh(sig))
             IN  Put1(Evict(ds) \o one, IF Len(ds) > DuplicateCache THEN Tail(ds) ELSE ds)
       \/ /\ sig \notin Exempt
          /\ \E i \in known :
                /\ ~Expired(duplicates[i])
                /\ Put1(<<>>, Append(RemoveAt(duplicates, i),
                                     [duplicates[i] EXCEPT !.suppressed = @ \cup {record}]))
       \/ /\ sig \notin Exempt
          /\ \E i \in known :
                /\ Expired(duplicates[i])
                /\ Put1(Summaries(<<duplicates[i]>>) \o one,
                        Append(RemoveAt(duplicates, i), Fresh(sig)))
    /\ UNCHANGED <<inFlush, logClock, logStopped>>

----------------------------------------------------------------------------
\* _flush, the locked part: the final flush does not wait for the window
Collect(t) ==
    LET due == {i \in DOMAIN duplicates : logStopped \/ Expired(duplicates[i])}
        all == Appended(Summaries(Picked(duplicates, due)))
    IN  /\ inFlush[t] = <<>> /\ (t = "stopper" => logStopped)
        /\ logBuffer # <<>> \/ duplicates # <<>>
        /\ inFlush' = [inFlush EXCEPT ![t] = all.kept]
        /\ logBuffer' = <<>>
        /\ duplicates' = Picked(duplicates, DOMAIN duplicates \ due)
        /\ tally' = [tally EXCEPT !.dropped = @ \cup all.dropped]
        /\ UNCHANGED <<logClock, logStopped>>

\* publish_logs of the batches, which may raise
PublishLogs(t) ==
    /\ inFlush[t] # <<>>
    /\ inFlush' = [inFlush EXCEPT ![t] = <<>>]
    /\ \/ tally' = [tally EXCEPT !.published = @ \cup Records(inFlush[t])]
       \/ tally' = [tally EXCEPT !.dropped = @ \cup Records(inFlush[t])]
    /\ UNCHANGED <<logBuffer, duplicates, logClock, logStopped>>

StopLog ==
    /\ ~logStopped /\ logStopped' = TRUE
    /\ UNCHANGED <<logBuffer, duplicates, inFlush, logClock, tally>>

LogTick ==
    /\ logClock < MaxLogClock /\ logClock' = logClock + 1
    /\ UNCHANGED <<logBuffer, duplicates, inFlush, logStopped, tally>>

RemoteLogNext == (\E sig \in Signatures : Emit(sig))
                 \/ (\E t \in LogThreads : Collect(t) \/ PublishLogs(t))
                 \/ StopLog \/ LogTick

RemoteLogSpec == RemoteLogInit /\ [][RemoteLogNext]_logVars
----------------------------------------------------------------------------
(* Properties.                                                             *)

\* The shapes of the state.
Emitted == SUBSET (1 .. MaxEmits)
Duplicate == [sig : Signatures \ Exempt, at : 0 .. MaxLogClock, suppressed : Emitted]

RemoteLogTypeOK ==
    /\ logBuffer \in Seq(Emitted) /\ Len(logBuffer) <= LogBuffer
    /\ duplicates \in Seq(Duplicate) /\ Len(duplicates) <= DuplicateCache
    /\ inFlush \in [LogThreads -> Seq(Emitted)]
    /\ logClock \in 0 .. MaxLogClock /\ logStopped \in BOOLEAN
    /\ tally \in [emitted : 0 .. MaxEmits, published : Emitted, dropped : Emitted]

\* However the window, the cache, the two flushing threads and the clock
\* meet, every record is in exactly one place: published, in the buffer or
\* in a thread's hands (itself or in a summary), counted under its
\* signature, or dropped by the full buffer or a publish that raised.
Apart(entries) == \A i, j \in DOMAIN entries : i # j => entries[i] \cap entries[j] = {}
Shares == <<Records(logBuffer), Records(inFlush["flusher"]), Records(inFlush["stopper"]),
          Records(Counts(duplicates)), tally.published, tally.dropped>>

EveryRecordAccounted ==
    /\ Records(Shares) = 1 .. tally.emitted
    /\ Apart(Shares) /\ Apart(logBuffer) /\ Apart(Counts(duplicates))
    /\ \A t \in LogThreads : Apart(inFlush[t])
=============================================================================
