----------------------- MODULE GovernedCommandsProofs -----------------------
(***************************************************************************)
(* Proofs about GovernedCommands, for any set of commands, devices, threads *)
(* and policies and any number of restarts, failing writes and resets.      *)
(***************************************************************************)
EXTENDS GovernedCommands, TLAPS

-----------------------------------------------------------------------------
(* What the operators and the actions do, in the form the proofs use *)

\* What DurableCommandJournal.write does to a journal.
LEMMA WriteFacts ==
    ASSUME NEW j \in Journals, NEW c \in Commands, NEW rec \in Records
    PROVE  /\ Write(j, c, rec) \in Journals
           /\ Write(j, c, rec).commands[c] = rec
           /\ \A e \in Commands : e # c => Write(j, c, rec).commands[e] = j.commands[e]
           /\ Sequence[c] <= Write(j, c, rec).sequences[Device[c]]
           /\ \A d \in Devices : j.sequences[d] <= Write(j, c, rec).sequences[d]
           /\ Write(j, c, rec).max_epoch = j.max_epoch
  BY ConstantsAssumption DEF Write, Journals, Larger

\* A fresh journal is typed, remembers no command and has no epoch.
LEMMA EmptyJournalFacts ==
    /\ EmptyJournal \in Journals
    /\ \A c \in Commands : EmptyJournal.commands[c] = "none"
    /\ EmptyJournal.max_epoch = 0
  BY DEF EmptyJournal, Journals, Records

\* Thread t goes to l with outcome o; the other threads stay.
MovesTo(t, l, o) ==
    /\ thr' \in [Threads -> ThreadRecords]
    /\ thr'[t].pc = l /\ thr'[t].out = o
    /\ thr'[t].cmd = thr[t].cmd /\ thr'[t].era = thr[t].era
    /\ \A u \in Threads : u # t => thr'[u] = thr[u]

\* Thread t ends; the other threads stay.
Ends(t) ==
    /\ thr' \in [Threads -> ThreadRecords]
    /\ thr'[t].pc = "idle" /\ thr'[t].era = 0
    /\ \A u \in Threads : u # t => thr'[u] = thr[u]

\* No thread survives.
AllEnd ==
    /\ thr' \in [Threads -> ThreadRecords]
    /\ \A u \in Threads : thr'[u].pc = "idle" /\ thr'[u].era = 0

\* Thread t gives up whatever lock it holds, or no lock changes.
Unlocks(t) ==
    /\ lock' \in [Devices -> Threads \cup {None}]
    /\ \A d \in Devices : lock'[d] # lock[d] => lock[d] = t

\* The log of field actions gains at most one entry, thread t's.
LogGrows(t) ==
    /\ \A i \in DOMAIN fieldLog' :
          \/ i \in DOMAIN fieldLog /\ fieldLog'[i] = fieldLog[i]
          \/ /\ i \notin DOMAIN fieldLog
             /\ fieldLog'[i].cmd = thr[t].cmd /\ fieldLog'[i].era = thr[t].era
             /\ fieldLog'[i].boot = boot
    /\ \A i, j \in DOMAIN fieldLog' : i < j => i \in DOMAIN fieldLog

\* The journal gets a record for c, in memory and, when ok, in the file.
Journaled(c, rec, ok) ==
    /\ mem' \in Journals /\ disk' \in Journals
    /\ mem'.commands[c] = rec
    /\ \A e \in Commands : e # c => mem'.commands[e] = mem.commands[e]
    /\ Sequence[c] <= mem'.sequences[Device[c]]
    /\ \A d \in Devices : mem.sequences[d] <= mem'.sequences[d]
    /\ mem'.max_epoch = mem.max_epoch
    /\ ok => disk' = mem'
    /\ ~ok => disk' = disk
    /\ faults' \in Nat

\* Moving one thread leaves every other thread where it is.
LEMMA ThreadMoves ==
    ASSUME TypeOK, NEW t \in Threads, NEW l \in Pcs, NEW o \in Outcomes \cup {None}
    PROVE  /\ thr' = [thr EXCEPT ![t].pc = l] => MovesTo(t, l, thr[t].out)
           /\ thr' = [thr EXCEPT ![t].pc = l, ![t].out = o] => MovesTo(t, l, o)
           /\ thr' = [thr EXCEPT ![t] = IdleThread] => Ends(t)
           /\ thr' = [u \in Threads |-> IdleThread] => AllEnd
  <1>0. thr \in [Threads -> ThreadRecords] /\ IdleThread \in ThreadRecords
    BY DEF TypeOK, GuardTypeOK, ThreadTypeOK, ObserverTypeOK, IdleThread,
        ThreadRecords, Pcs
  <1>1. ASSUME thr' = [thr EXCEPT ![t].pc = l]
        PROVE  MovesTo(t, l, thr[t].out)
    BY <1>0, <1>1 DEF MovesTo, ThreadRecords
  <1>2. ASSUME thr' = [thr EXCEPT ![t].pc = l, ![t].out = o]
        PROVE  MovesTo(t, l, o)
    BY <1>0, <1>2 DEF MovesTo, ThreadRecords
  <1>3. ASSUME thr' = [thr EXCEPT ![t] = IdleThread]
        PROVE  Ends(t)
    BY <1>0, <1>3 DEF Ends, IdleThread
  <1>4. ASSUME thr' = [u \in Threads |-> IdleThread]
        PROVE  AllEnd
    BY <1>0, <1>4 DEF AllEnd, IdleThread
  <1> QED
    BY <1>1, <1>2, <1>3, <1>4

\* A release, or no change, takes no lock from another thread.
LEMMA LockReleases ==
    ASSUME TypeOK, NEW t \in Threads
    PROVE  /\ Release(t) => Unlocks(t)
           /\ UNCHANGED lock => Unlocks(t)
  BY DEF TypeOK, GuardTypeOK, ThreadTypeOK, ObserverTypeOK, Release, Unlocks

\* A field action of thread t leaves a well-formed log.
LEMMA FieldLogTypes ==
    ASSUME TypeOK, NEW t \in Threads, thr[t].cmd \in Commands
    PROVE  Append(fieldLog, [cmd |-> thr[t].cmd, era |-> thr[t].era, boot |-> boot])
             \in Seq(Actions)
<1>1. thr[t].era \in Nat
  BY DEF TypeOK, ThreadTypeOK, ThreadRecords
<1>2. boot \in Nat /\ fieldLog \in Seq(Actions)
  BY DEF TypeOK, ObserverTypeOK
<1>3. [cmd |-> thr[t].cmd, era |-> thr[t].era, boot |-> boot]
        \in Actions
  BY <1>1, <1>2 DEF Actions
<1> QED
  BY <1>2, <1>3

\* The log of field actions only grows, by the action that is appended.
LEMMA LogFacts ==
    ASSUME TypeOK, NEW t \in Threads,
           \/ fieldLog' = Append(fieldLog, [cmd |-> thr[t].cmd, era |-> thr[t].era,
                                            boot |-> boot])
           \/ fieldLog' = fieldLog
    PROVE  LogGrows(t)
  <1>1. fieldLog \in Seq(Actions)
    BY DEF TypeOK, ObserverTypeOK
  <1>2. DOMAIN fieldLog = 1 .. Len(fieldLog) /\ Len(fieldLog) \in Nat
    BY <1>1
  <1>3. CASE fieldLog' = fieldLog
    BY <1>2, <1>3 DEF LogGrows
  <1>4. CASE fieldLog' = Append(fieldLog, [cmd |-> thr[t].cmd, era |-> thr[t].era,
                                           boot |-> boot])
    <2>1. DOMAIN fieldLog' = 1 .. (Len(fieldLog) + 1)
      BY <1>1, <1>4
    <2>2. \A i \in 1 .. Len(fieldLog) : fieldLog'[i] = fieldLog[i]
      BY <1>1, <1>4
    <2>3. fieldLog'[Len(fieldLog) + 1] = [cmd |-> thr[t].cmd, era |-> thr[t].era,
                                          boot |-> boot]
      BY <1>1, <1>4
    <2> QED
      BY <1>2, <2>1, <2>2, <2>3 DEF LogGrows
  <1> QED
    BY <1>3, <1>4

\* _persist either makes the file equal to the memory or leaves the file alone.
LEMMA PersistFacts ==
    ASSUME TypeOK, NEW c \in Commands, NEW rec \in Records, NEW ok \in BOOLEAN,
           Persist(ok, Write(mem, c, rec))
    PROVE  Journaled(c, rec, ok)
  <1>1. mem \in Journals /\ disk \in Journals /\ faults \in Nat
    BY DEF TypeOK, GuardTypeOK, ThreadTypeOK, ObserverTypeOK
  <1> QED
    BY <1>1, WriteFacts DEF Persist, Journaled

\* The effect of each action of a thread and of an accepted command.
LEMMA AcceptEffect ==
    ASSUME TypeOK, NEW c \in Commands, NEW t \in Threads, AcceptCommand(c, t)
    PROVE  /\ Fresh(c) /\ thr[t].pc = "idle"
           /\ thr' \in [Threads -> ThreadRecords]
           /\ thr'[t].pc = "waiting" /\ thr'[t].cmd = c /\ thr'[t].era = era
           /\ \A u \in Threads : u # t => thr'[u] = thr[u]
           /\ raced \subseteq raced' /\ raced' \subseteq raced \cup {c}
           /\ \A u \in Threads : Live(u) /\ Device[thr[u].cmd] = Device[c] => c \in raced'
           /\ UNCHANGED <<guardVars, mem, disk, lock, fieldLog, replies, acked, era,
                          boot, faults, faulted, lost, restored>>
  BY DEF AcceptCommand, TypeOK, GuardTypeOK, ThreadTypeOK, ObserverTypeOK,
      ThreadRecords, Pcs, Live

\* AcquireLock changes the thread and the lock of its device, nothing durable.
LEMMA AcquireEffect ==
    ASSUME TypeOK, NEW t \in Threads, AcquireLock(t)
    PROVE  /\ thr[t].pc = "waiting" /\ MovesTo(t, "holding", thr[t].out)
           /\ thr[t].cmd \in Commands
           /\ lock' \in [Devices -> Threads \cup {None}]
           /\ lock[Device[thr[t].cmd]] = None /\ lock'[Device[thr[t].cmd]] = t
           /\ \A d \in Devices : d # Device[thr[t].cmd] => lock'[d] = lock[d]
           /\ UNCHANGED <<guardVars, mem, disk, obsVars>>
  <1>1. thr[t].pc = "waiting" /\ thr[t].cmd \in Commands /\ Device[thr[t].cmd] \in Devices
    BY ConstantsAssumption DEF AcquireLock, TypeOK, GuardTypeOK, ThreadTypeOK,
        ObserverTypeOK, Live
  <1>2. MovesTo(t, "holding", thr[t].out)
    BY ThreadMoves DEF AcquireLock, Pcs
  <1> QED
    BY <1>1, <1>2 DEF AcquireLock, TypeOK, GuardTypeOK, ThreadTypeOK, ObserverTypeOK

\* RefusePrerequisites gives up the lock and touches neither journal nor field.
LEMMA RefuseEffect ==
    ASSUME TypeOK, NEW t \in Threads, RefusePrerequisites(t)
    PROVE  /\ thr[t].pc = "holding" /\ MovesTo(t, "failing", thr[t].out) /\ Unlocks(t)
           /\ UNCHANGED <<guardVars, mem, disk, obsVars>>
  BY ThreadMoves, LockReleases DEF RefusePrerequisites, Pcs

\* MarkExecuting puts the command and its sequence in the journal before the field.
LEMMA ExecutingEffect ==
    ASSUME TypeOK, NEW t \in Threads, NEW ok \in BOOLEAN, MarkExecuting(t, ok)
    PROVE  /\ thr[t].pc = "holding" /\ thr[t].cmd \in Commands
           /\ Journaled(thr[t].cmd, "executing", ok)
           /\ Unlocks(t)
           /\ ok => MovesTo(t, "journaled", thr[t].out) /\ UNCHANGED <<lock, faulted>>
           /\ ~ok => /\ MovesTo(t, "failing", thr[t].out)
                     /\ faulted' = faulted \cup {thr[t].cmd}
           /\ UNCHANGED <<guardVars, fieldLog, replies, acked, era, boot, raced, lost,
                          restored>>
  <1>1. thr[t].pc = "holding" /\ thr[t].cmd \in Commands
    BY DEF MarkExecuting, TypeOK, GuardTypeOK, ThreadTypeOK, ObserverTypeOK, Live
  <1>2. Journaled(thr[t].cmd, "executing", ok)
    BY <1>1, PersistFacts DEF MarkExecuting, Records
  <1> QED
    BY <1>1, <1>2, ThreadMoves, LockReleases DEF MarkExecuting, Pcs

\* FieldAction appends one action to the log and leaves the journal alone.
LEMMA FieldEffect ==
    ASSUME TypeOK, NEW t \in Threads, NEW out \in Outcomes, FieldAction(t, out)
    PROVE  /\ thr[t].pc = "journaled" /\ thr[t].cmd \in Commands
           /\ MovesTo(t, "acted", out) /\ LogGrows(t)
           /\ fieldLog' \in Seq(Actions)
           /\ UNCHANGED <<guardVars, mem, disk, lock, replies, acked, era, boot,
                          faults, raced, faulted, lost, restored>>
  <1>1. thr[t].pc = "journaled" /\ thr[t].cmd \in Commands
    BY DEF FieldAction, TypeOK, GuardTypeOK, ThreadTypeOK, ObserverTypeOK, Live
  <1>2. LogGrows(t) /\ MovesTo(t, "acted", out)
    BY LogFacts, ThreadMoves DEF FieldAction, Pcs
  <1>3. fieldLog' \in Seq(Actions)
    BY <1>1, FieldLogTypes DEF FieldAction
  <1> QED
    BY <1>1, <1>2, <1>3 DEF FieldAction

\* HandlerRaises may have reached the field; the journal stays as it was.
LEMMA RaisesEffect ==
    ASSUME TypeOK, NEW t \in Threads, NEW reached \in BOOLEAN, HandlerRaises(t, reached)
    PROVE  /\ thr[t].pc = "journaled" /\ thr[t].cmd \in Commands
           /\ MovesTo(t, "failing", thr[t].out) /\ Unlocks(t) /\ LogGrows(t)
           /\ fieldLog' \in Seq(Actions)
           /\ UNCHANGED <<guardVars, mem, disk, replies, acked, era, boot, faults,
                          raced, faulted, lost, restored>>
  <1>1. thr[t].pc = "journaled" /\ thr[t].cmd \in Commands
    BY DEF HandlerRaises, TypeOK, GuardTypeOK, ThreadTypeOK, ObserverTypeOK, Live
  <1>2. LogGrows(t) /\ MovesTo(t, "failing", thr[t].out) /\ Unlocks(t)
    BY LogFacts, ThreadMoves, LockReleases DEF HandlerRaises, Pcs
  <1>3. fieldLog' \in Seq(Actions)
    BY <1>1, FieldLogTypes DEF HandlerRaises, TypeOK, GuardTypeOK, ThreadTypeOK,
        ObserverTypeOK
  <1> QED
    BY <1>1, <1>2, <1>3 DEF HandlerRaises

\* MarkTerminal replaces the entry of the thread's command and of no other.
LEMMA TerminalEffect ==
    ASSUME TypeOK, NEW t \in Threads, NEW ok \in BOOLEAN, MarkTerminal(t, ok)
    PROVE  /\ thr[t].pc = "acted" /\ thr[t].cmd \in Commands /\ thr[t].out \in Outcomes
           /\ Journaled(thr[t].cmd, thr[t].out, ok)
           /\ Unlocks(t)
           /\ ok => MovesTo(t, "terminal", thr[t].out) /\ UNCHANGED <<lock, faulted>>
           /\ ~ok => /\ MovesTo(t, "failing", thr[t].out)
                     /\ faulted' = faulted \cup {thr[t].cmd}
           /\ UNCHANGED <<guardVars, fieldLog, replies, acked, era, boot, raced, lost,
                          restored>>
  <1>1. thr[t].pc = "acted" /\ thr[t].cmd \in Commands /\ thr[t].out \in Outcomes
    BY DEF MarkTerminal, TypeOK, GuardTypeOK, ThreadTypeOK, ObserverTypeOK, Live
  <1>2. Journaled(thr[t].cmd, thr[t].out, ok)
    BY <1>1, PersistFacts DEF MarkTerminal, Records
  <1> QED
    BY <1>1, <1>2, ThreadMoves, LockReleases DEF MarkTerminal, Pcs

\* MarkFailed replaces the entry of the thread's command by a failure.
LEMMA FailedEffect ==
    ASSUME TypeOK, NEW t \in Threads, NEW ok \in BOOLEAN, MarkFailed(t, ok)
    PROVE  /\ thr[t].pc = "failing" /\ thr[t].cmd \in Commands
           /\ Journaled(thr[t].cmd, "failed", ok)
           /\ ok => MovesTo(t, "terminal", "failed") /\ UNCHANGED faulted
           /\ ~ok => /\ Ends(t)
                     /\ faulted' = faulted \cup {thr[t].cmd}
           /\ UNCHANGED <<guardVars, lock, fieldLog, replies, acked, era, boot, raced,
                          lost, restored>>
  <1>1. thr[t].pc = "failing" /\ thr[t].cmd \in Commands
    BY DEF MarkFailed, TypeOK, GuardTypeOK, ThreadTypeOK, ObserverTypeOK, Live
  <1>2. Journaled(thr[t].cmd, "failed", ok)
    BY <1>1, PersistFacts DEF MarkFailed, Records, Outcomes
  <1> QED
    BY <1>1, <1>2, ThreadMoves DEF MarkFailed, Pcs, Outcomes

\* Respond answers with the outcome the thread carries and frees it.
LEMMA RespondEffect ==
    ASSUME TypeOK, NEW t \in Threads, Respond(t)
    PROVE  /\ thr[t].pc = "terminal" /\ thr[t].cmd \in Commands /\ thr[t].out \in Outcomes
           /\ Ends(t) /\ Unlocks(t)
           /\ replies' \in [Commands -> SUBSET Outcomes]
           /\ \A c \in Commands : \A o \in replies'[c] :
                 o \in replies[c] \/ (c = thr[t].cmd /\ o = thr[t].out /\ thr[t].era = era)
           /\ UNCHANGED <<guardVars, mem, disk, fieldLog, acked, era, boot, faults,
                          raced, faulted, lost, restored>>
  <1>1. thr[t].pc = "terminal" /\ thr[t].cmd \in Commands /\ thr[t].out \in Outcomes
    BY DEF Respond, TypeOK, GuardTypeOK, ThreadTypeOK, ObserverTypeOK, Live
  <1>2. Ends(t) /\ Unlocks(t)
    BY ThreadMoves, LockReleases DEF Respond, Pcs, Outcomes
  <1> QED
    BY <1>1, <1>2 DEF Respond, TypeOK, GuardTypeOK, ThreadTypeOK, ObserverTypeOK

\* Restart reloads the journal from its file and forgets threads and locks.
LEMMA RestartEffect ==
    ASSUME TypeOK, NEW readable \in BOOLEAN, Restart(readable)
    PROVE  /\ AllEnd /\ boot' = boot + 1
           /\ mem' \in Journals
           /\ readable => mem' = disk /\ lost' = lost /\ acked' = acked
           /\ ~readable => /\ mem' = EmptyJournal /\ acked' = 0
                           /\ lost' = lost \cup {c \in Commands : disk.commands[c] # "none"}
           /\ lock' = [d \in Devices |-> None]
           /\ policy' \in {policyFile, None} /\ net' = "idle"
           /\ UNCHANGED <<policyFile, disk, mode, connectors, fieldLog, replies, era,
                          faults, raced, faulted, restored>>
  <1>1. AllEnd
    BY DEF Restart, AllEnd, ThreadRecords, IdleThread, Pcs
  <1> QED
    BY <1>1, EmptyJournalFacts DEF Restart, TypeOK, GuardTypeOK, ThreadTypeOK,
        ObserverTypeOK

\* RestorePolicy is a restart that finds another policy file.
LEMMA RestoreEffect ==
    ASSUME TypeOK, NEW p \in Policies, RestorePolicy(p)
    PROVE  /\ AllEnd /\ boot' = boot + 1
           /\ mem' = disk /\ policyFile' = p /\ policy' = p
           /\ lock' = [d \in Devices |-> None] /\ net' = "idle"
           /\ UNCHANGED <<disk, mode, connectors, fieldLog, replies, acked, era, faults,
                          raced, faulted, lost>>
  <1>1. AllEnd
    BY DEF RestorePolicy, AllEnd, ThreadRecords, IdleThread, Pcs
  <1> QED
    BY <1>1 DEF RestorePolicy, TypeOK, GuardTypeOK, ThreadTypeOK, ObserverTypeOK

\* RecordEpoch raises the journal's epoch and keeps its commands.
LEMMA EpochEffect ==
    ASSUME TypeOK, NEW ok \in BOOLEAN, RecordEpoch(ok)
    PROVE  /\ net = "anchor" /\ policy \in Policies
           /\ mem' \in Journals /\ disk' \in Journals
           /\ mem'.commands = mem.commands /\ mem'.sequences = mem.sequences
           /\ policy.epoch <= mem'.max_epoch /\ mem.max_epoch <= mem'.max_epoch
           /\ ok => disk' = mem' /\ acked' \in {acked, policy.epoch}
           /\ ~ok => disk' = disk /\ acked' = acked
           /\ net' = "idle" /\ faults' \in Nat
           /\ UNCHANGED <<policy, policyFile, thr, lock, mode, connectors, fieldLog,
                          replies, era, boot, raced, faulted, lost, restored>>
  <1>1. policy \in Policies /\ policy.epoch \in Nat
    BY ConstantsAssumption DEF RecordEpoch, TypeOK, GuardTypeOK, ThreadTypeOK,
        ObserverTypeOK
  <1>2. mem \in Journals /\ mem.max_epoch \in Nat
    BY DEF TypeOK, GuardTypeOK, ThreadTypeOK, ObserverTypeOK, Journals
  <1>3. mem' = [mem EXCEPT !.max_epoch = Larger(policy.epoch, mem.max_epoch)]
    BY DEF RecordEpoch, Persist
  <1>4. /\ mem' \in Journals
        /\ mem'.commands = mem.commands /\ mem'.sequences = mem.sequences
        /\ policy.epoch <= mem'.max_epoch /\ mem.max_epoch <= mem'.max_epoch
    BY <1>1, <1>2, <1>3 DEF Journals, Larger
  <1>5. /\ ok => disk' = mem' /\ UNCHANGED faults
        /\ ~ok => disk' = disk /\ faults' = faults + 1
    BY DEF RecordEpoch, Persist
  <1>6. ok => acked' \in {acked, policy.epoch}
    BY DEF RecordEpoch, Larger
  <1>7. ~ok => acked' = acked
    BY DEF RecordEpoch
  <1>8. disk' \in Journals /\ faults' \in Nat
    BY <1>4, <1>5 DEF TypeOK, GuardTypeOK, ThreadTypeOK, ObserverTypeOK
  <1> QED
    BY <1>1, <1>4, <1>5, <1>6, <1>7, <1>8 DEF RecordEpoch

\* A claim reset empties the journal in memory, and on disk unless the write fails.
LEMMA ResetEffect ==
    ASSUME TypeOK, NEW ok \in BOOLEAN, ResetJournal(ok)
    PROVE  /\ mem' = EmptyJournal
           /\ disk' \in {disk, EmptyJournal}
           /\ era' = era + 1 /\ acked' = 0 /\ replies' = [c \in Commands |-> {}]
           /\ net' \in {"remove_policy", "idle"} /\ faults' \in Nat
           /\ UNCHANGED <<policy, policyFile, thr, lock, mode, connectors, fieldLog,
                          boot, raced, faulted, lost, restored>>
  BY DEF ResetJournal, Persist, TypeOK, GuardTypeOK, ThreadTypeOK, ObserverTypeOK

-----------------------------------------------------------------------------
(* Types *)

\* A thread's move keeps the threads' types.
LEMMA ThreadTypes ==
    ASSUME TypeOK, NEW t \in Threads
    PROVE  /\ \A l \in Pcs, o \in Outcomes \cup {None} :
                 /\ MovesTo(t, l, o) /\ thr[t].cmd \in Commands
                 /\ l \in {"acted", "terminal"} => o \in Outcomes
                 => ThreadTypeOK'
           /\ Ends(t) => ThreadTypeOK'
           /\ AllEnd => ThreadTypeOK'
<1>1. ASSUME NEW l \in Pcs, NEW o \in Outcomes \cup {None}, MovesTo(t, l, o),
             thr[t].cmd \in Commands, l \in {"acted", "terminal"} => o \in Outcomes
      PROVE  ThreadTypeOK'
  BY <1>1 DEF MovesTo, TypeOK, ThreadTypeOK, Live
<1>2. Ends(t) => ThreadTypeOK'
  BY DEF Ends, TypeOK, ThreadTypeOK, Live
<1>3. AllEnd => ThreadTypeOK'
  BY DEF AllEnd, ThreadTypeOK, Live
<1> QED
  BY <1>1, <1>2, <1>3

\* Every step keeps the types.
LEMMA TypeStep ==
    ASSUME TypeOK, [Next]_vars
    PROVE  TypeOK'
<1>1. ASSUME NEW c \in Commands, NEW t \in Threads, AcceptCommand(c, t)
      PROVE  TypeOK'
  <2>1. GuardTypeOK' /\ (mem \in Journals /\ disk \in Journals)'
    BY ConstantsAssumption, <1>1, AcceptEffect
    DEF Fresh, TypeOK, GuardTypeOK, guardVars, obsVars
  <2>2. ThreadTypeOK'
    BY ConstantsAssumption, <1>1, AcceptEffect
    DEF Fresh, TypeOK, ThreadTypeOK, Live, guardVars, obsVars
  <2>3. (lock \in [Devices -> Threads \cup {None}])'
    BY ConstantsAssumption, <1>1, AcceptEffect
    DEF Fresh, TypeOK, guardVars, obsVars
  <2>4. ObserverTypeOK'
    BY ConstantsAssumption, <1>1, AcceptEffect
    DEF Fresh, TypeOK, ObserverTypeOK, guardVars, obsVars
  <2> QED
    BY <2>1, <2>2, <2>3, <2>4 DEF TypeOK
<1>2. ASSUME NEW c \in Commands, ReplayOutcome(c)
      PROVE  TypeOK'
  <2>1. GuardTypeOK' /\ (mem \in Journals /\ disk \in Journals)'
    BY ConstantsAssumption, <1>2
    DEF ReplayOutcome, Outcomes, TypeOK, GuardTypeOK, guardVars, obsVars
  <2>2. ThreadTypeOK'
    BY ConstantsAssumption, <1>2
    DEF ReplayOutcome, Outcomes, TypeOK, ThreadTypeOK, Live, guardVars, obsVars
  <2>3. (lock \in [Devices -> Threads \cup {None}])'
    BY ConstantsAssumption, <1>2
    DEF ReplayOutcome, Outcomes, TypeOK, guardVars, obsVars
  <2>4. ObserverTypeOK'
    BY ConstantsAssumption, <1>2
    DEF ReplayOutcome, Outcomes, TypeOK, ObserverTypeOK, guardVars, obsVars
  <2> QED
    BY <2>1, <2>2, <2>3, <2>4 DEF TypeOK
<1>3. ASSUME RejectCommand
      PROVE  TypeOK'
  <2>1. GuardTypeOK' /\ (mem \in Journals /\ disk \in Journals)'
    BY ConstantsAssumption, <1>3
    DEF RejectCommand, vars, TypeOK, GuardTypeOK, guardVars, obsVars
  <2>2. ThreadTypeOK'
    BY ConstantsAssumption, <1>3
    DEF RejectCommand, vars, TypeOK, ThreadTypeOK, Live, guardVars, obsVars
  <2>3. (lock \in [Devices -> Threads \cup {None}])'
    BY ConstantsAssumption, <1>3
    DEF RejectCommand, vars, TypeOK, guardVars, obsVars
  <2>4. ObserverTypeOK'
    BY ConstantsAssumption, <1>3
    DEF RejectCommand, vars, TypeOK, ObserverTypeOK, guardVars, obsVars
  <2> QED
    BY <2>1, <2>2, <2>3, <2>4 DEF TypeOK
<1>4. ASSUME NEW p \in Policies, InstallPolicy(p)
      PROVE  TypeOK'
  <2>1. GuardTypeOK' /\ (mem \in Journals /\ disk \in Journals)'
    BY ConstantsAssumption, <1>4
    DEF InstallPolicy, TypeOK, GuardTypeOK, guardVars, obsVars
  <2>2. ThreadTypeOK'
    BY ConstantsAssumption, <1>4
    DEF InstallPolicy, TypeOK, ThreadTypeOK, Live, guardVars, obsVars
  <2>3. (lock \in [Devices -> Threads \cup {None}])'
    BY ConstantsAssumption, <1>4
    DEF InstallPolicy, TypeOK, guardVars, obsVars
  <2>4. ObserverTypeOK'
    BY ConstantsAssumption, <1>4
    DEF InstallPolicy, TypeOK, ObserverTypeOK, guardVars, obsVars
  <2> QED
    BY <2>1, <2>2, <2>3, <2>4 DEF TypeOK
<1>5. ASSUME NEW ok \in BOOLEAN, RecordEpoch(ok)
      PROVE  TypeOK'
  <2>1. GuardTypeOK' /\ (mem \in Journals /\ disk \in Journals)'
    BY ConstantsAssumption, <1>5, EpochEffect
    DEF TypeOK, GuardTypeOK, guardVars, obsVars
  <2>2. ThreadTypeOK'
    BY ConstantsAssumption, <1>5, EpochEffect
    DEF TypeOK, ThreadTypeOK, Live, guardVars, obsVars
  <2>3. (lock \in [Devices -> Threads \cup {None}])'
    BY ConstantsAssumption, <1>5, EpochEffect
    DEF TypeOK, guardVars, obsVars
  <2>4. ObserverTypeOK'
    BY ConstantsAssumption, <1>5, EpochEffect
    DEF TypeOK, ObserverTypeOK, guardVars, obsVars
  <2> QED
    BY <2>1, <2>2, <2>3, <2>4 DEF TypeOK
<1>6. ASSUME NEW ok \in BOOLEAN, ResetJournal(ok)
      PROVE  TypeOK'
  <2>1. GuardTypeOK' /\ (mem \in Journals /\ disk \in Journals)'
    BY ConstantsAssumption, <1>6, ResetEffect, EmptyJournalFacts
    DEF TypeOK, GuardTypeOK, guardVars, obsVars
  <2>2. ThreadTypeOK'
    BY ConstantsAssumption, <1>6, ResetEffect, EmptyJournalFacts
    DEF TypeOK, ThreadTypeOK, Live, guardVars, obsVars
  <2>3. (lock \in [Devices -> Threads \cup {None}])'
    BY ConstantsAssumption, <1>6, ResetEffect, EmptyJournalFacts
    DEF TypeOK, guardVars, obsVars
  <2>4. ObserverTypeOK'
    BY ConstantsAssumption, <1>6, ResetEffect, EmptyJournalFacts
    DEF TypeOK, ObserverTypeOK, guardVars, obsVars
  <2> QED
    BY <2>1, <2>2, <2>3, <2>4 DEF TypeOK
<1>7. ASSUME NEW m \in {"operational", "release_pending"}, BeginReset(m)
      PROVE  TypeOK'
  <2>1. GuardTypeOK' /\ (mem \in Journals /\ disk \in Journals)'
    BY ConstantsAssumption, <1>7
    DEF BeginReset, TypeOK, GuardTypeOK, guardVars, obsVars
  <2>2. ThreadTypeOK'
    BY ConstantsAssumption, <1>7
    DEF BeginReset, TypeOK, ThreadTypeOK, Live, guardVars, obsVars
  <2>3. (lock \in [Devices -> Threads \cup {None}])'
    BY ConstantsAssumption, <1>7
    DEF BeginReset, TypeOK, guardVars, obsVars
  <2>4. ObserverTypeOK'
    BY ConstantsAssumption, <1>7
    DEF BeginReset, TypeOK, ObserverTypeOK, guardVars, obsVars
  <2> QED
    BY <2>1, <2>2, <2>3, <2>4 DEF TypeOK
<1>8. ASSUME RemovePolicyFile
      PROVE  TypeOK'
  <2>1. GuardTypeOK' /\ (mem \in Journals /\ disk \in Journals)'
    BY ConstantsAssumption, <1>8
    DEF RemovePolicyFile, TypeOK, GuardTypeOK, guardVars, obsVars
  <2>2. ThreadTypeOK'
    BY ConstantsAssumption, <1>8
    DEF RemovePolicyFile, TypeOK, ThreadTypeOK, Live, guardVars, obsVars
  <2>3. (lock \in [Devices -> Threads \cup {None}])'
    BY ConstantsAssumption, <1>8
    DEF RemovePolicyFile, TypeOK, guardVars, obsVars
  <2>4. ObserverTypeOK'
    BY ConstantsAssumption, <1>8
    DEF RemovePolicyFile, TypeOK, ObserverTypeOK, guardVars, obsVars
  <2> QED
    BY <2>1, <2>2, <2>3, <2>4 DEF TypeOK
<1>9. ASSUME ApplyConnectors
      PROVE  TypeOK'
  <2>1. GuardTypeOK' /\ (mem \in Journals /\ disk \in Journals)'
    BY ConstantsAssumption, <1>9
    DEF ApplyConnectors, TypeOK, GuardTypeOK, guardVars, obsVars
  <2>2. ThreadTypeOK'
    BY ConstantsAssumption, <1>9
    DEF ApplyConnectors, TypeOK, ThreadTypeOK, Live, guardVars, obsVars
  <2>3. (lock \in [Devices -> Threads \cup {None}])'
    BY ConstantsAssumption, <1>9
    DEF ApplyConnectors, TypeOK, guardVars, obsVars
  <2>4. ObserverTypeOK'
    BY ConstantsAssumption, <1>9
    DEF ApplyConnectors, TypeOK, ObserverTypeOK, guardVars, obsVars
  <2> QED
    BY <2>1, <2>2, <2>3, <2>4 DEF TypeOK
<1>10. ASSUME NEW t \in Threads, AcquireLock(t)
      PROVE  TypeOK'
  <2>1. GuardTypeOK' /\ (mem \in Journals /\ disk \in Journals)'
    BY <1>10, AcquireEffect
    DEF TypeOK, GuardTypeOK, guardVars, obsVars
  <2>2. ThreadTypeOK'
    <3>1. thr[t].out \in Outcomes \cup {None} /\ (Live(t) => thr[t].cmd \in Commands)
      BY DEF TypeOK, ThreadTypeOK, ThreadRecords
    <3> QED
      BY <3>1, <1>10, AcquireEffect, ThreadTypes DEF Pcs, Live
  <2>3. (lock \in [Devices -> Threads \cup {None}])'
    BY <1>10, AcquireEffect
    DEF TypeOK, guardVars, obsVars
  <2>4. ObserverTypeOK'
    BY <1>10, AcquireEffect
    DEF TypeOK, ObserverTypeOK, guardVars, obsVars
  <2> QED
    BY <2>1, <2>2, <2>3, <2>4 DEF TypeOK
<1>11. ASSUME NEW t \in Threads, RefusePrerequisites(t)
      PROVE  TypeOK'
  <2>1. GuardTypeOK' /\ (mem \in Journals /\ disk \in Journals)'
    BY <1>11, RefuseEffect
    DEF TypeOK, GuardTypeOK, guardVars, obsVars
  <2>2. ThreadTypeOK'
    <3>1. thr[t].out \in Outcomes \cup {None} /\ (Live(t) => thr[t].cmd \in Commands)
      BY DEF TypeOK, ThreadTypeOK, ThreadRecords
    <3> QED
      BY <3>1, <1>11, RefuseEffect, ThreadTypes DEF Pcs, Live
  <2>3. (lock \in [Devices -> Threads \cup {None}])'
    BY <1>11, RefuseEffect
    DEF Unlocks, TypeOK, guardVars, obsVars
  <2>4. ObserverTypeOK'
    BY <1>11, RefuseEffect
    DEF TypeOK, ObserverTypeOK, guardVars, obsVars
  <2> QED
    BY <2>1, <2>2, <2>3, <2>4 DEF TypeOK
<1>12. ASSUME NEW t \in Threads, NEW ok \in BOOLEAN, MarkExecuting(t, ok)
      PROVE  TypeOK'
  <2>1. GuardTypeOK' /\ (mem \in Journals /\ disk \in Journals)'
    BY <1>12, ExecutingEffect
    DEF Journaled, TypeOK, GuardTypeOK, guardVars, obsVars
  <2>2. ThreadTypeOK'
    <3>1. thr[t].out \in Outcomes \cup {None}
      BY DEF TypeOK, ThreadTypeOK, ThreadRecords
    <3>2. CASE ok
      BY <3>1, <3>2, <1>12, ExecutingEffect, ThreadTypes DEF Pcs, Outcomes
    <3>3. CASE ~ok
      BY <3>1, <3>3, <1>12, ExecutingEffect, ThreadTypes DEF Pcs
    <3> QED
      BY <3>2, <3>3
  <2>3. (lock \in [Devices -> Threads \cup {None}])'
    BY <1>12, ExecutingEffect
    DEF Unlocks, TypeOK, guardVars, obsVars
  <2>4. ObserverTypeOK'
    <3>1. (faulted \subseteq Commands)' /\ (faults \in Nat)'
      BY <1>12, ExecutingEffect DEF Journaled, TypeOK, ObserverTypeOK
    <3>2. UNCHANGED <<fieldLog, replies, acked, era, boot, raced, lost, restored>>
      BY <1>12, ExecutingEffect
    <3> QED
      BY <3>1, <3>2 DEF TypeOK, ObserverTypeOK
  <2> QED
    BY <2>1, <2>2, <2>3, <2>4 DEF TypeOK
<1>13. ASSUME NEW t \in Threads, NEW out \in Outcomes, FieldAction(t, out)
      PROVE  TypeOK'
  <2>1. GuardTypeOK' /\ (mem \in Journals /\ disk \in Journals)'
    BY <1>13, FieldEffect
    DEF TypeOK, GuardTypeOK, guardVars, obsVars
  <2>2. ThreadTypeOK'
    <3>1. thr[t].out \in Outcomes \cup {None} /\ (Live(t) => thr[t].cmd \in Commands)
      BY DEF TypeOK, ThreadTypeOK, ThreadRecords
    <3> QED
      BY <3>1, <1>13, FieldEffect, ThreadTypes DEF Pcs, Live
  <2>3. (lock \in [Devices -> Threads \cup {None}])'
    BY <1>13, FieldEffect
    DEF TypeOK, guardVars, obsVars
  <2>4. ObserverTypeOK'
    <3>1. (fieldLog \in Seq(Actions))'
      BY <1>13, FieldEffect
    <3>2. UNCHANGED <<replies, acked, era, boot, faults, raced, faulted, lost,
        restored>>
      BY <1>13, FieldEffect
    <3> QED
      BY <3>1, <3>2 DEF TypeOK, ObserverTypeOK
  <2> QED
    BY <2>1, <2>2, <2>3, <2>4 DEF TypeOK
<1>14. ASSUME NEW t \in Threads, NEW reached \in BOOLEAN, HandlerRaises(t, reached)
      PROVE  TypeOK'
  <2>1. GuardTypeOK' /\ (mem \in Journals /\ disk \in Journals)'
    BY <1>14, RaisesEffect
    DEF TypeOK, GuardTypeOK, guardVars, obsVars
  <2>2. ThreadTypeOK'
    <3>1. thr[t].out \in Outcomes \cup {None} /\ (Live(t) => thr[t].cmd \in Commands)
      BY DEF TypeOK, ThreadTypeOK, ThreadRecords
    <3> QED
      BY <3>1, <1>14, RaisesEffect, ThreadTypes DEF Pcs, Live
  <2>3. (lock \in [Devices -> Threads \cup {None}])'
    BY <1>14, RaisesEffect
    DEF Unlocks, TypeOK, guardVars, obsVars
  <2>4. ObserverTypeOK'
    <3>1. (fieldLog \in Seq(Actions))'
      BY <1>14, RaisesEffect
    <3>2. UNCHANGED <<replies, acked, era, boot, faults, raced, faulted, lost,
        restored>>
      BY <1>14, RaisesEffect
    <3> QED
      BY <3>1, <3>2 DEF TypeOK, ObserverTypeOK
  <2> QED
    BY <2>1, <2>2, <2>3, <2>4 DEF TypeOK
<1>15. ASSUME NEW t \in Threads, NEW ok \in BOOLEAN, MarkTerminal(t, ok)
      PROVE  TypeOK'
  <2>1. GuardTypeOK' /\ (mem \in Journals /\ disk \in Journals)'
    BY <1>15, TerminalEffect
    DEF Journaled, TypeOK, GuardTypeOK, guardVars, obsVars
  <2>2. ThreadTypeOK'
    <3>1. thr[t].out \in Outcomes \cup {None}
      BY DEF TypeOK, ThreadTypeOK, ThreadRecords
    <3>2. CASE ok
      BY <3>1, <3>2, <1>15, TerminalEffect, ThreadTypes DEF Pcs, Outcomes
    <3>3. CASE ~ok
      BY <3>1, <3>3, <1>15, TerminalEffect, ThreadTypes DEF Pcs
    <3> QED
      BY <3>2, <3>3
  <2>3. (lock \in [Devices -> Threads \cup {None}])'
    BY <1>15, TerminalEffect
    DEF Unlocks, TypeOK, guardVars, obsVars
  <2>4. ObserverTypeOK'
    <3>1. (faulted \subseteq Commands)' /\ (faults \in Nat)'
      BY <1>15, TerminalEffect DEF Journaled, TypeOK, ObserverTypeOK
    <3>2. UNCHANGED <<fieldLog, replies, acked, era, boot, raced, lost, restored>>
      BY <1>15, TerminalEffect
    <3> QED
      BY <3>1, <3>2 DEF TypeOK, ObserverTypeOK
  <2> QED
    BY <2>1, <2>2, <2>3, <2>4 DEF TypeOK
<1>16. ASSUME NEW t \in Threads, NEW ok \in BOOLEAN, MarkFailed(t, ok)
      PROVE  TypeOK'
  <2>1. GuardTypeOK' /\ (mem \in Journals /\ disk \in Journals)'
    BY <1>16, FailedEffect
    DEF Journaled, TypeOK, GuardTypeOK, guardVars, obsVars
  <2>2. ThreadTypeOK'
    <3>1. thr[t].out \in Outcomes \cup {None}
      BY DEF TypeOK, ThreadTypeOK, ThreadRecords
    <3>2. CASE ok
      BY <3>1, <3>2, <1>16, FailedEffect, ThreadTypes DEF Pcs, Outcomes
    <3>3. CASE ~ok
      BY <3>1, <3>3, <1>16, FailedEffect, ThreadTypes DEF Pcs
    <3> QED
      BY <3>2, <3>3
  <2>3. (lock \in [Devices -> Threads \cup {None}])'
    BY <1>16, FailedEffect
    DEF TypeOK, guardVars, obsVars
  <2>4. ObserverTypeOK'
    <3>1. (faulted \subseteq Commands)' /\ (faults \in Nat)'
      BY <1>16, FailedEffect DEF Journaled, TypeOK, ObserverTypeOK
    <3>2. UNCHANGED <<fieldLog, replies, acked, era, boot, raced, lost, restored>>
      BY <1>16, FailedEffect
    <3> QED
      BY <3>1, <3>2 DEF TypeOK, ObserverTypeOK
  <2> QED
    BY <2>1, <2>2, <2>3, <2>4 DEF TypeOK
<1>17. ASSUME NEW t \in Threads, Respond(t)
      PROVE  TypeOK'
  <2>1. GuardTypeOK' /\ (mem \in Journals /\ disk \in Journals)'
    BY <1>17, RespondEffect
    DEF TypeOK, GuardTypeOK, guardVars, obsVars
  <2>2. ThreadTypeOK'
    BY <1>17, RespondEffect, ThreadTypes
  <2>3. (lock \in [Devices -> Threads \cup {None}])'
    BY <1>17, RespondEffect
    DEF Unlocks, TypeOK, guardVars, obsVars
  <2>4. ObserverTypeOK'
    BY <1>17, RespondEffect
    DEF TypeOK, ObserverTypeOK, guardVars, obsVars
  <2> QED
    BY <2>1, <2>2, <2>3, <2>4 DEF TypeOK
<1>18. ASSUME NEW readable \in BOOLEAN, Restart(readable)
      PROVE  TypeOK'
  <2>1. GuardTypeOK' /\ (mem \in Journals /\ disk \in Journals)'
    BY <1>18, RestartEffect, EmptyJournalFacts
    DEF TypeOK, GuardTypeOK, guardVars, obsVars
  <2>2. ThreadTypeOK'
    BY <1>18, RestartEffect, EmptyJournalFacts
    DEF AllEnd, ThreadTypeOK, Live
  <2>3. (lock \in [Devices -> Threads \cup {None}])'
    BY <1>18, RestartEffect, EmptyJournalFacts
    DEF TypeOK, guardVars, obsVars
  <2>4. ObserverTypeOK'
    BY <1>18, RestartEffect, EmptyJournalFacts
    DEF TypeOK, ObserverTypeOK, guardVars, obsVars
  <2> QED
    BY <2>1, <2>2, <2>3, <2>4 DEF TypeOK
<1>19. ASSUME NEW p \in Policies, RestorePolicy(p)
      PROVE  TypeOK'
  <2>1. GuardTypeOK' /\ (mem \in Journals /\ disk \in Journals)'
    BY <1>19, RestoreEffect
    DEF TypeOK, GuardTypeOK, guardVars, obsVars
  <2>2. ThreadTypeOK'
    BY <1>19, RestoreEffect
    DEF AllEnd, ThreadTypeOK, Live
  <2>3. (lock \in [Devices -> Threads \cup {None}])'
    BY <1>19, RestoreEffect
    DEF TypeOK, guardVars, obsVars
  <2>4. ObserverTypeOK'
    <3>1. boot' = boot + 1 /\ restored' = TRUE
      BY <1>19 DEF RestorePolicy
    <3>2. UNCHANGED <<fieldLog, replies, acked, era, faults, raced, faulted, lost>>
      BY <1>19, RestoreEffect
    <3> QED
      BY <3>1, <3>2 DEF TypeOK, ObserverTypeOK
  <2> QED
    BY <2>1, <2>2, <2>3, <2>4 DEF TypeOK
<1>20. CASE UNCHANGED vars
  BY <1>20 DEF vars, TypeOK, GuardTypeOK, ThreadTypeOK, ObserverTypeOK, Live
<1> QED
  BY <1>1, <1>2, <1>3, <1>4, <1>5, <1>6, <1>7, <1>8, <1>9, <1>10, <1>11, <1>12,
      <1>13, <1>14, <1>15, <1>16, <1>17, <1>18, <1>19, <1>20
  DEF Next, NetworkThread, Execute, Environment

-----------------------------------------------------------------------------
(* The parts of the inductive invariant *)

\* Plain consequences of the types.
LEMMA TagTypes ==
    ASSUME TypeOK
    PROVE  /\ era \in Nat /\ boot \in Nat
           /\ \A t \in Threads : thr[t].era \in Nat
           /\ \A i \in DOMAIN fieldLog : /\ fieldLog[i].cmd \in Commands
                                         /\ fieldLog[i].era \in Nat
                                         /\ fieldLog[i].boot \in Nat
<1>1. era \in Nat /\ boot \in Nat
      /\ fieldLog \in Seq(Actions)
  BY DEF TypeOK, ObserverTypeOK
<1>2. \A t \in Threads : thr[t].era \in Nat
  BY DEF TypeOK, ThreadTypeOK, ThreadRecords
<1>3. \A i \in DOMAIN fieldLog : fieldLog[i] \in Actions
  <2>1. DOMAIN fieldLog = 1 .. Len(fieldLog)
    BY <1>1
  <2>2. \A i \in 1 .. Len(fieldLog) : fieldLog[i] \in Actions
    BY <1>1
  <2> QED
    BY <2>1, <2>2
<1> QED
  BY <1>1, <1>2, <1>3 DEF Actions

\* A thread at work has a command, and the command a device.
LEMMA LockTypes ==
    ASSUME TypeOK, NEW t \in Threads
    PROVE  /\ thr[t].pc \in Pcs /\ None \notin Threads
           /\ thr[t].pc # "idle" => thr[t].cmd \in Commands /\ Device[thr[t].cmd] \in Devices
  BY ConstantsAssumption DEF TypeOK, ThreadTypeOK, ThreadRecords, Live

\* No thread and no field action is from a later era or a later run.
LEMMA TagsStep ==
    ASSUME TypeOK, TagsInv, [Next]_vars
    PROVE  TagsInv'
<1>1. ASSUME UNCHANGED <<thr, fieldLog, era, boot>>
      PROVE  TagsInv'
  BY <1>1 DEF TagsInv
<1>2. ASSUME NEW c \in Commands, NEW t \in Threads, AcceptCommand(c, t)
      PROVE  TagsInv'
  BY <1>2, AcceptEffect, TagTypes
  DEF TagsInv
<1>3. ASSUME NEW ok \in BOOLEAN, ResetJournal(ok)
      PROVE  TagsInv'
  BY <1>3, ResetEffect, TagTypes
  DEF TagsInv
<1>4. ASSUME NEW t \in Threads, AcquireLock(t)
      PROVE  TagsInv'
  BY <1>4, AcquireEffect
  DEF MovesTo, TagsInv, obsVars
<1>5. ASSUME NEW t \in Threads, RefusePrerequisites(t)
      PROVE  TagsInv'
  BY <1>5, RefuseEffect
  DEF MovesTo, TagsInv, obsVars
<1>6. ASSUME NEW t \in Threads, NEW ok \in BOOLEAN, MarkExecuting(t, ok)
      PROVE  TagsInv'
  BY <1>6, ExecutingEffect
  DEF MovesTo, TagsInv
<1>7. ASSUME NEW t \in Threads, NEW out \in Outcomes, FieldAction(t, out)
      PROVE  TagsInv'
  BY <1>7, FieldEffect, TagTypes
  DEF MovesTo, TagsInv, LogGrows
<1>8. ASSUME NEW t \in Threads, NEW reached \in BOOLEAN, HandlerRaises(t, reached)
      PROVE  TagsInv'
  BY <1>8, RaisesEffect, TagTypes
  DEF MovesTo, TagsInv, LogGrows
<1>9. ASSUME NEW t \in Threads, NEW ok \in BOOLEAN, MarkTerminal(t, ok)
      PROVE  TagsInv'
  BY <1>9, TerminalEffect
  DEF MovesTo, TagsInv
<1>10. ASSUME NEW t \in Threads, NEW ok \in BOOLEAN, MarkFailed(t, ok)
      PROVE  TagsInv'
  BY <1>10, FailedEffect, TagTypes
  DEF MovesTo, Ends, TagsInv
<1>11. ASSUME NEW t \in Threads, Respond(t)
      PROVE  TagsInv'
  BY <1>11, RespondEffect, TagTypes
  DEF Ends, TagsInv
<1>12. ASSUME NEW readable \in BOOLEAN, Restart(readable)
      PROVE  TagsInv'
  BY <1>12, RestartEffect, TagTypes
  DEF AllEnd, TagsInv
<1>13. ASSUME NEW p \in Policies, RestorePolicy(p)
      PROVE  TagsInv'
  BY <1>13, RestoreEffect, TagTypes
  DEF AllEnd, TagsInv
<1> QED
  BY <1>1, <1>2, <1>3, <1>4, <1>5, <1>6, <1>7, <1>8, <1>9, <1>10, <1>11, <1>12, <1>13
  DEF Next, NetworkThread, Execute, Environment, vars, guardVars, obsVars,
      ReplayOutcome, RejectCommand, InstallPolicy, RecordEpoch, BeginReset,
          RemovePolicyFile, ApplyConnectors

\* A thread between device_lock's entry and exit is the holder of its device's lock.
LEMMA LockStep ==
    ASSUME TypeOK, LockInv, [Next]_vars
    PROVE  LockInv'
<1>1. ASSUME UNCHANGED <<thr, lock>>
      PROVE  LockInv'
  BY <1>1 DEF LockInv
<1>2. ASSUME NEW c \in Commands, NEW t \in Threads, AcceptCommand(c, t)
      PROVE  LockInv'
  BY <1>2, AcceptEffect
  DEF LockInv
<1>3. ASSUME NEW t \in Threads, AcquireLock(t)
      PROVE  LockInv'
  BY <1>3, AcquireEffect, LockTypes
  DEF MovesTo, LockInv
<1>4. ASSUME NEW t \in Threads, RefusePrerequisites(t)
      PROVE  LockInv'
  BY <1>4, RefuseEffect, LockTypes
  DEF MovesTo, Unlocks, LockInv
<1>5. ASSUME NEW t \in Threads, NEW ok \in BOOLEAN, MarkExecuting(t, ok)
      PROVE  LockInv'
  BY <1>5, ExecutingEffect, LockTypes
  DEF MovesTo, Unlocks, LockInv
<1>6. ASSUME NEW t \in Threads, NEW out \in Outcomes, FieldAction(t, out)
      PROVE  LockInv'
  BY <1>6, FieldEffect, LockTypes
  DEF MovesTo, LockInv
<1>7. ASSUME NEW t \in Threads, NEW reached \in BOOLEAN, HandlerRaises(t, reached)
      PROVE  LockInv'
  BY <1>7, RaisesEffect, LockTypes
  DEF MovesTo, Unlocks, LockInv
<1>8. ASSUME NEW t \in Threads, NEW ok \in BOOLEAN, MarkTerminal(t, ok)
      PROVE  LockInv'
  BY <1>8, TerminalEffect, LockTypes
  DEF MovesTo, Unlocks, LockInv
<1>9. ASSUME NEW t \in Threads, NEW ok \in BOOLEAN, MarkFailed(t, ok)
      PROVE  LockInv'
  BY <1>9, FailedEffect, LockTypes
  DEF MovesTo, Ends, LockInv
<1>10. ASSUME NEW t \in Threads, Respond(t)
      PROVE  LockInv'
  BY <1>10, RespondEffect, LockTypes
  DEF Ends, Unlocks, LockInv
<1>11. ASSUME NEW readable \in BOOLEAN, Restart(readable)
      PROVE  LockInv'
  BY <1>11, RestartEffect
  DEF AllEnd, LockInv
<1>12. ASSUME NEW p \in Policies, RestorePolicy(p)
      PROVE  LockInv'
  BY <1>12, RestoreEffect
  DEF AllEnd, LockInv
<1> QED
  BY <1>1, <1>2, <1>3, <1>4, <1>5, <1>6, <1>7, <1>8, <1>9, <1>10, <1>11, <1>12
  DEF Next, NetworkThread, Execute, Environment, vars, guardVars, obsVars,
      ReplayOutcome, RejectCommand, InstallPolicy, RecordEpoch, ResetJournal,
          BeginReset, RemovePolicyFile, ApplyConnectors

\* The evidence for a command survives a journal write, and a write of its own
\* record that reached the file creates it.
LEMMA EvidenceKept ==
    ASSUME TypeOK, NEW c \in Commands, NEW rec \in Records \ {"none"},
           NEW ok \in BOOLEAN, Journaled(c, rec, ok)
    PROVE  /\ \A e \in Commands : Evidence(e) => Evidence(e)'
           /\ ok => Evidence(c)'
<1>1. ConstantsAssumption!1 /\ ConstantsAssumption!2
  BY ConstantsAssumption
<1>2. \A d \in Devices : /\ mem.sequences[d] \in Nat /\ disk.sequences[d] \in Nat
                         /\ mem'.sequences[d] \in Nat /\ disk'.sequences[d] \in Nat
  BY DEF TypeOK, Journals, Journaled
<1>3. ASSUME NEW e \in Commands, Evidence(e)
      PROVE  Evidence(e)'
  <2>1. Sequence[e] \in Nat /\ Device[e] \in Devices
    BY <1>1
  <2>2. mem'.commands[e] # "none" /\ Sequence[e] <= mem'.sequences[Device[e]]
    BY <1>2, <1>3, <2>1 DEF Evidence, Journaled
  <2>3. CASE ok
    BY <2>2, <2>3 DEF Evidence, Journaled
  <2>4. CASE ~ok
    BY <1>3, <2>2, <2>4 DEF Evidence, Journaled
  <2> QED
    BY <2>3, <2>4
<1>4. ASSUME ok
      PROVE  Evidence(c)'
  BY <1>4 DEF Evidence, Journaled
<1> QED
  BY <1>3, <1>4

\* Whatever acted on the field, or is about to, is known to both copies of the
\* journal.
LEMMA EvidenceStep ==
    ASSUME TypeOK, TagsInv, EvidenceInv, [Next]_vars
    PROVE  EvidenceInv'
<1>1. ASSUME UNCHANGED <<thr, fieldLog, era, lost, mem, disk>>
      PROVE  EvidenceInv'
  BY <1>1 DEF EvidenceInv, Recent, Evidence
<1>2. ASSUME NEW c \in Commands, NEW t \in Threads, AcceptCommand(c, t)
      PROVE  EvidenceInv'
  BY <1>2, AcceptEffect
  DEF EvidenceInv, Recent, Evidence
<1>3. ASSUME NEW ok \in BOOLEAN, RecordEpoch(ok)
      PROVE  EvidenceInv'
  <2>1. /\ \A e \in Commands : Evidence(e) => Evidence(e)'
        /\ UNCHANGED <<fieldLog, era, lost, thr>>
    BY <1>3, EpochEffect DEF Evidence
  <2> QED
    BY <2>1, TagTypes, LockTypes DEF EvidenceInv, Recent
<1>4. ASSUME NEW ok \in BOOLEAN, ResetJournal(ok)
      PROVE  EvidenceInv'
  BY <1>4, ResetEffect, TagTypes
  DEF EvidenceInv, Recent, TagsInv
<1>5. ASSUME NEW t \in Threads, AcquireLock(t)
      PROVE  EvidenceInv'
  BY <1>5, AcquireEffect
  DEF EvidenceInv, Recent, MovesTo, obsVars, Evidence
<1>6. ASSUME NEW t \in Threads, RefusePrerequisites(t)
      PROVE  EvidenceInv'
  BY <1>6, RefuseEffect
  DEF EvidenceInv, Recent, MovesTo, obsVars, Evidence
<1>7. ASSUME NEW t \in Threads, NEW ok \in BOOLEAN, MarkExecuting(t, ok)
      PROVE  EvidenceInv'
  <2>1. /\ \A e \in Commands : Evidence(e) => Evidence(e)'
        /\ \A e \in Commands : ok /\ e = thr[t].cmd => Evidence(e)'
        /\ thr[t].cmd \in Commands
        /\ UNCHANGED <<fieldLog, era, lost>>
    BY <1>7, ExecutingEffect, EvidenceKept DEF Records
  <2>2. \A u \in Threads : thr'[u].pc = "journaled" =>
           thr'[u] = thr[u] \/ (ok /\ thr'[u].cmd = thr[t].cmd)
    BY <1>7, ExecutingEffect DEF MovesTo
  <2> QED
    BY <2>1, <2>2, TagTypes, LockTypes DEF EvidenceInv, Recent
<1>8. ASSUME NEW t \in Threads, NEW out \in Outcomes, FieldAction(t, out)
      PROVE  EvidenceInv'
  BY <1>8, FieldEffect
  DEF EvidenceInv, Recent, MovesTo, LogGrows, Evidence
<1>9. ASSUME NEW t \in Threads, NEW reached \in BOOLEAN, HandlerRaises(t, reached)
      PROVE  EvidenceInv'
  BY <1>9, RaisesEffect
  DEF EvidenceInv, Recent, MovesTo, LogGrows, Evidence
<1>10. ASSUME NEW t \in Threads, NEW ok \in BOOLEAN, MarkTerminal(t, ok)
      PROVE  EvidenceInv'
  <2>1. /\ \A e \in Commands : Evidence(e) => Evidence(e)'
        /\ UNCHANGED <<fieldLog, era, lost>>
    BY <1>10, TerminalEffect, EvidenceKept DEF Records, Outcomes
  <2>2. \A u \in Threads : thr'[u].pc = "journaled" => thr'[u] = thr[u]
    BY <1>10, TerminalEffect DEF MovesTo, Ends
  <2> QED
    BY <2>1, <2>2, TagTypes, LockTypes DEF EvidenceInv, Recent
<1>11. ASSUME NEW t \in Threads, NEW ok \in BOOLEAN, MarkFailed(t, ok)
      PROVE  EvidenceInv'
  <2>1. /\ \A e \in Commands : Evidence(e) => Evidence(e)'
        /\ UNCHANGED <<fieldLog, era, lost>>
    BY <1>11, FailedEffect, EvidenceKept DEF Records, Outcomes
  <2>2. \A u \in Threads : thr'[u].pc = "journaled" => thr'[u] = thr[u]
    BY <1>11, FailedEffect DEF MovesTo, Ends
  <2> QED
    BY <2>1, <2>2, TagTypes, LockTypes DEF EvidenceInv, Recent
<1>12. ASSUME NEW t \in Threads, Respond(t)
      PROVE  EvidenceInv'
  BY <1>12, RespondEffect
  DEF EvidenceInv, Recent, Ends, Evidence
<1>13. ASSUME NEW readable \in BOOLEAN, Restart(readable)
      PROVE  EvidenceInv'
  BY <1>13, RestartEffect, TagTypes
  DEF EvidenceInv, Recent, AllEnd, Evidence
<1>14. ASSUME NEW p \in Policies, RestorePolicy(p)
      PROVE  EvidenceInv'
  BY <1>14, RestoreEffect, TagTypes
  DEF EvidenceInv, Recent, AllEnd, Evidence
<1> QED
  BY <1>1, <1>2, <1>3, <1>4, <1>5, <1>6, <1>7, <1>8, <1>9, <1>10, <1>11, <1>12,
      <1>13, <1>14
  DEF Next, NetworkThread, Execute, Environment, vars, guardVars, obsVars,
      ReplayOutcome, RejectCommand, InstallPolicy, BeginReset, RemovePolicyFile,
          ApplyConnectors

\* Two threads at work on one device: one of them was accepted in a race.
LEMMA RaceStep ==
    ASSUME TypeOK, RaceInv, [Next]_vars
    PROVE  RaceInv'
<1>1. ASSUME UNCHANGED <<thr, raced>>
      PROVE  RaceInv'
  BY <1>1 DEF RaceInv, Live
<1>2. ASSUME NEW c \in Commands, NEW t \in Threads, AcceptCommand(c, t)
      PROVE  RaceInv'
  BY <1>2, AcceptEffect
  DEF RaceInv, Live
<1>3. ASSUME NEW t \in Threads, AcquireLock(t)
      PROVE  RaceInv'
  BY <1>3, AcquireEffect
  DEF RaceInv, Live, MovesTo, obsVars
<1>4. ASSUME NEW t \in Threads, RefusePrerequisites(t)
      PROVE  RaceInv'
  BY <1>4, RefuseEffect
  DEF RaceInv, Live, MovesTo, obsVars
<1>5. ASSUME NEW t \in Threads, NEW ok \in BOOLEAN, MarkExecuting(t, ok)
      PROVE  RaceInv'
  BY <1>5, ExecutingEffect
  DEF RaceInv, Live, MovesTo
<1>6. ASSUME NEW t \in Threads, NEW out \in Outcomes, FieldAction(t, out)
      PROVE  RaceInv'
  BY <1>6, FieldEffect
  DEF RaceInv, Live, MovesTo
<1>7. ASSUME NEW t \in Threads, NEW reached \in BOOLEAN, HandlerRaises(t, reached)
      PROVE  RaceInv'
  BY <1>7, RaisesEffect
  DEF RaceInv, Live, MovesTo
<1>8. ASSUME NEW t \in Threads, NEW ok \in BOOLEAN, MarkTerminal(t, ok)
      PROVE  RaceInv'
  BY <1>8, TerminalEffect
  DEF RaceInv, Live, MovesTo
<1>9. ASSUME NEW t \in Threads, NEW ok \in BOOLEAN, MarkFailed(t, ok)
      PROVE  RaceInv'
  BY <1>9, FailedEffect
  DEF RaceInv, Live, MovesTo, Ends
<1>10. ASSUME NEW t \in Threads, Respond(t)
      PROVE  RaceInv'
  BY <1>10, RespondEffect
  DEF RaceInv, Live, Ends
<1>11. ASSUME NEW readable \in BOOLEAN, Restart(readable)
      PROVE  RaceInv'
  BY <1>11, RestartEffect
  DEF RaceInv, Live, AllEnd
<1>12. ASSUME NEW p \in Policies, RestorePolicy(p)
      PROVE  RaceInv'
  BY <1>12, RestoreEffect
  DEF RaceInv, Live, AllEnd
<1> QED
  BY <1>1, <1>2, <1>3, <1>4, <1>5, <1>6, <1>7, <1>8, <1>9, <1>10, <1>11, <1>12
  DEF Next, NetworkThread, Execute, Environment, vars, guardVars, obsVars,
      ReplayOutcome, RejectCommand, InstallPolicy, RecordEpoch, ResetJournal,
          BeginReset, RemovePolicyFile, ApplyConnectors

\* The order of the field actions on a device, and what it rests on: a thread
\* that has yet to act has the highest sequence number of its device.
LEMMA OrderStep ==
    ASSUME TypeOK, TagsInv, EvidenceInv, RaceInv, OrderInv,
           OrderedOnceUnlessRaced, [Next]_vars
    PROVE  (OrderInv /\ OrderedOnceUnlessRaced)'
<1>1. ASSUME UNCHANGED <<thr, fieldLog, era, raced, lost>>
      PROVE  (OrderInv /\ OrderedOnceUnlessRaced)'
  BY <1>1 DEF OrderInv, OrderedOnceUnlessRaced, YetToAct, Recent
<1>2. ASSUME NEW c \in Commands, NEW t \in Threads, AcceptCommand(c, t)
      PROVE  (OrderInv /\ OrderedOnceUnlessRaced)'
  <2>1. /\ UNCHANGED <<fieldLog, era, lost>> /\ raced \subseteq raced'
        /\ \A u \in Threads : u # t => thr'[u] = thr[u]
        /\ thr'[t].cmd = c
    BY <1>2, AcceptEffect
  <2>2. \A i \in DOMAIN fieldLog :
           Recent(i) /\ fieldLog[i].cmd \notin lost /\ Device[fieldLog[i].cmd] = Device[c]
             => Sequence[fieldLog[i].cmd] < Sequence[c]
    <3>1. c \in Commands /\ Sequence[c] > mem.sequences[Device[c]]
      BY <1>2, AcceptEffect DEF Fresh
    <3>2. Device[c] \in Devices /\ mem.sequences[Device[c]] \in Nat
      BY <3>1, ConstantsAssumption DEF TypeOK, Journals
    <3>3. \A e \in Commands : Sequence[e] \in Nat
      BY ConstantsAssumption
    <3> QED
      BY <3>1, <3>2, <3>3, TagTypes DEF EvidenceInv, Evidence
  <2>3. OrderInv'
    BY <2>1, <2>2 DEF OrderInv, YetToAct, Recent
  <2>4. OrderedOnceUnlessRaced'
    BY <2>1 DEF OrderedOnceUnlessRaced, Recent
  <2> QED
    BY <2>3, <2>4
<1>3. ASSUME NEW ok \in BOOLEAN, ResetJournal(ok)
      PROVE  (OrderInv /\ OrderedOnceUnlessRaced)'
  BY <1>3, ResetEffect, TagTypes
  DEF OrderInv, OrderedOnceUnlessRaced, YetToAct, Recent, TagsInv
<1>4. ASSUME NEW t \in Threads, AcquireLock(t)
      PROVE  (OrderInv /\ OrderedOnceUnlessRaced)'
  <2>1. /\ \A u \in Threads : YetToAct(u)' => YetToAct(u) /\ thr'[u].cmd = thr[u].cmd
        /\ UNCHANGED <<fieldLog, era, raced, lost, boot>>
    BY <1>4, AcquireEffect DEF MovesTo, YetToAct, obsVars
  <2> QED
    BY <2>1 DEF OrderInv, OrderedOnceUnlessRaced, Recent
<1>5. ASSUME NEW t \in Threads, RefusePrerequisites(t)
      PROVE  (OrderInv /\ OrderedOnceUnlessRaced)'
  <2>1. /\ \A u \in Threads : YetToAct(u)' => YetToAct(u) /\ thr'[u].cmd = thr[u].cmd
        /\ UNCHANGED <<fieldLog, era, raced, lost, boot>>
    BY <1>5, RefuseEffect DEF MovesTo, YetToAct, obsVars
  <2> QED
    BY <2>1 DEF OrderInv, OrderedOnceUnlessRaced, Recent
<1>6. ASSUME NEW t \in Threads, NEW ok \in BOOLEAN, MarkExecuting(t, ok)
      PROVE  (OrderInv /\ OrderedOnceUnlessRaced)'
  <2>1. /\ \A u \in Threads : YetToAct(u)' => YetToAct(u) /\ thr'[u].cmd = thr[u].cmd
        /\ UNCHANGED <<fieldLog, era, raced, lost, boot>>
    BY <1>6, ExecutingEffect DEF MovesTo, YetToAct
  <2> QED
    BY <2>1 DEF OrderInv, OrderedOnceUnlessRaced, Recent
<1>7. ASSUME NEW t \in Threads, NEW out \in Outcomes, FieldAction(t, out)
      PROVE  (OrderInv /\ OrderedOnceUnlessRaced)'
  <2>1. /\ YetToAct(t) <=> thr[t].era = era
        /\ thr[t].cmd \in Commands /\ Live(t) /\ UNCHANGED <<era, raced, lost>>
    BY <1>7, FieldEffect DEF YetToAct, Live
  <2>2. \A u \in Threads : YetToAct(u)' =>
           u # t /\ YetToAct(u) /\ Live(u) /\ thr'[u] = thr[u]
    BY <1>7, FieldEffect DEF MovesTo, YetToAct, Live
  <2>3. LogGrows(t)
    BY <1>7, FieldEffect
  <2>4. OrderInv'
    BY <2>1, <2>2, <2>3 DEF OrderInv, RaceInv, LogGrows, Recent
  <2>5. OrderedOnceUnlessRaced'
    BY <2>1, <2>3 DEF OrderInv, OrderedOnceUnlessRaced, LogGrows, Recent
  <2> QED
    BY <2>4, <2>5
<1>8. ASSUME NEW t \in Threads, NEW reached \in BOOLEAN, HandlerRaises(t, reached)
      PROVE  (OrderInv /\ OrderedOnceUnlessRaced)'
  <2>1. /\ YetToAct(t) <=> thr[t].era = era
        /\ thr[t].cmd \in Commands /\ Live(t) /\ UNCHANGED <<era, raced, lost>>
    BY <1>8, RaisesEffect DEF YetToAct, Live
  <2>2. \A u \in Threads : YetToAct(u)' =>
           u # t /\ YetToAct(u) /\ Live(u) /\ thr'[u] = thr[u]
    BY <1>8, RaisesEffect DEF MovesTo, YetToAct, Live
  <2>3. LogGrows(t)
    BY <1>8, RaisesEffect
  <2>4. OrderInv'
    BY <2>1, <2>2, <2>3 DEF OrderInv, RaceInv, LogGrows, Recent
  <2>5. OrderedOnceUnlessRaced'
    BY <2>1, <2>3 DEF OrderInv, OrderedOnceUnlessRaced, LogGrows, Recent
  <2> QED
    BY <2>4, <2>5
<1>9. ASSUME NEW t \in Threads, NEW ok \in BOOLEAN, MarkTerminal(t, ok)
      PROVE  (OrderInv /\ OrderedOnceUnlessRaced)'
  <2>1. /\ \A u \in Threads : YetToAct(u)' => YetToAct(u) /\ thr'[u].cmd = thr[u].cmd
        /\ UNCHANGED <<fieldLog, era, raced, lost, boot>>
    BY <1>9, TerminalEffect DEF MovesTo, YetToAct
  <2> QED
    BY <2>1 DEF OrderInv, OrderedOnceUnlessRaced, Recent
<1>10. ASSUME NEW t \in Threads, NEW ok \in BOOLEAN, MarkFailed(t, ok)
      PROVE  (OrderInv /\ OrderedOnceUnlessRaced)'
  <2>1. /\ \A u \in Threads : YetToAct(u)' => YetToAct(u) /\ thr'[u].cmd = thr[u].cmd
        /\ UNCHANGED <<fieldLog, era, raced, lost, boot>>
    BY <1>10, FailedEffect DEF MovesTo, Ends, YetToAct
  <2> QED
    BY <2>1 DEF OrderInv, OrderedOnceUnlessRaced, Recent
<1>11. ASSUME NEW t \in Threads, Respond(t)
      PROVE  (OrderInv /\ OrderedOnceUnlessRaced)'
  <2>1. /\ \A u \in Threads : YetToAct(u)' => YetToAct(u) /\ thr'[u].cmd = thr[u].cmd
        /\ UNCHANGED <<fieldLog, era, raced, lost, boot>>
    BY <1>11, RespondEffect DEF Ends, YetToAct
  <2> QED
    BY <2>1 DEF OrderInv, OrderedOnceUnlessRaced, Recent
<1>12. ASSUME NEW readable \in BOOLEAN, Restart(readable)
      PROVE  (OrderInv /\ OrderedOnceUnlessRaced)'
  BY <1>12, RestartEffect
  DEF OrderInv, OrderedOnceUnlessRaced, YetToAct, Recent, AllEnd
<1>13. ASSUME NEW p \in Policies, RestorePolicy(p)
      PROVE  (OrderInv /\ OrderedOnceUnlessRaced)'
  BY <1>13, RestoreEffect
  DEF OrderInv, OrderedOnceUnlessRaced, YetToAct, Recent, AllEnd
<1> QED
  BY <1>1, <1>2, <1>3, <1>4, <1>5, <1>6, <1>7, <1>8, <1>9, <1>10, <1>11, <1>12, <1>13
  DEF Next, NetworkThread, Execute, Environment, vars, guardVars, obsVars,
      ReplayOutcome, RejectCommand, InstallPolicy, RecordEpoch, BeginReset,
          RemovePolicyFile, ApplyConnectors

\* A thread that has yet to act repeats, if anything, an action of this run.
LEMMA BootStep ==
    ASSUME TypeOK, TagsInv, EvidenceInv, BootInv, NoRepeatAfterRestart, [Next]_vars
    PROVE  (BootInv /\ NoRepeatAfterRestart)'
<1>1. ASSUME UNCHANGED <<thr, fieldLog, era, boot, lost>>
      PROVE  (BootInv /\ NoRepeatAfterRestart)'
  BY <1>1 DEF BootInv, NoRepeatAfterRestart, YetToAct, Recent
<1>2. ASSUME NEW c \in Commands, NEW t \in Threads, AcceptCommand(c, t)
      PROVE  (BootInv /\ NoRepeatAfterRestart)'
  <2>1. /\ UNCHANGED <<fieldLog, era, lost, boot>>
        /\ \A u \in Threads : u # t => thr'[u] = thr[u]
        /\ thr'[t].cmd = c
    BY <1>2, AcceptEffect
  <2>2. \A i \in DOMAIN fieldLog : Recent(i) /\ fieldLog[i].cmd = c => c \in lost
    BY <1>2, AcceptEffect DEF Fresh, EvidenceInv, Evidence
  <2> QED
    BY <2>1, <2>2 DEF BootInv, NoRepeatAfterRestart, YetToAct, Recent
<1>3. ASSUME NEW ok \in BOOLEAN, ResetJournal(ok)
      PROVE  (BootInv /\ NoRepeatAfterRestart)'
  BY <1>3, ResetEffect, TagTypes
  DEF BootInv, NoRepeatAfterRestart, YetToAct, Recent, TagsInv
<1>4. ASSUME NEW t \in Threads, AcquireLock(t)
      PROVE  (BootInv /\ NoRepeatAfterRestart)'
  <2>1. /\ \A u \in Threads : YetToAct(u)' => YetToAct(u) /\ thr'[u].cmd = thr[u].cmd
        /\ UNCHANGED <<fieldLog, era, raced, lost, boot>>
    BY <1>4, AcquireEffect DEF MovesTo, YetToAct, obsVars
  <2> QED
    BY <2>1 DEF BootInv, NoRepeatAfterRestart, Recent
<1>5. ASSUME NEW t \in Threads, RefusePrerequisites(t)
      PROVE  (BootInv /\ NoRepeatAfterRestart)'
  <2>1. /\ \A u \in Threads : YetToAct(u)' => YetToAct(u) /\ thr'[u].cmd = thr[u].cmd
        /\ UNCHANGED <<fieldLog, era, raced, lost, boot>>
    BY <1>5, RefuseEffect DEF MovesTo, YetToAct, obsVars
  <2> QED
    BY <2>1 DEF BootInv, NoRepeatAfterRestart, Recent
<1>6. ASSUME NEW t \in Threads, NEW ok \in BOOLEAN, MarkExecuting(t, ok)
      PROVE  (BootInv /\ NoRepeatAfterRestart)'
  <2>1. /\ \A u \in Threads : YetToAct(u)' => YetToAct(u) /\ thr'[u].cmd = thr[u].cmd
        /\ UNCHANGED <<fieldLog, era, raced, lost, boot>>
    BY <1>6, ExecutingEffect DEF MovesTo, YetToAct
  <2> QED
    BY <2>1 DEF BootInv, NoRepeatAfterRestart, Recent
<1>7. ASSUME NEW t \in Threads, NEW out \in Outcomes, FieldAction(t, out)
      PROVE  (BootInv /\ NoRepeatAfterRestart)'
  <2>1. /\ YetToAct(t) <=> thr[t].era = era
        /\ UNCHANGED <<era, boot, lost>>
    BY <1>7, FieldEffect DEF YetToAct
  <2>2. \A u \in Threads : YetToAct(u)' => YetToAct(u) /\ thr'[u] = thr[u]
    BY <1>7, FieldEffect DEF MovesTo, YetToAct
  <2>3. LogGrows(t)
    BY <1>7, FieldEffect
  <2>4. BootInv'
    BY <2>1, <2>2, <2>3 DEF BootInv, LogGrows, Recent
  <2>5. NoRepeatAfterRestart'
    BY <2>1, <2>3 DEF BootInv, NoRepeatAfterRestart, LogGrows, Recent
  <2> QED
    BY <2>4, <2>5
<1>8. ASSUME NEW t \in Threads, NEW reached \in BOOLEAN, HandlerRaises(t, reached)
      PROVE  (BootInv /\ NoRepeatAfterRestart)'
  <2>1. /\ YetToAct(t) <=> thr[t].era = era
        /\ UNCHANGED <<era, boot, lost>>
    BY <1>8, RaisesEffect DEF YetToAct
  <2>2. \A u \in Threads : YetToAct(u)' => YetToAct(u) /\ thr'[u] = thr[u]
    BY <1>8, RaisesEffect DEF MovesTo, YetToAct
  <2>3. LogGrows(t)
    BY <1>8, RaisesEffect
  <2>4. BootInv'
    BY <2>1, <2>2, <2>3 DEF BootInv, LogGrows, Recent
  <2>5. NoRepeatAfterRestart'
    BY <2>1, <2>3 DEF BootInv, NoRepeatAfterRestart, LogGrows, Recent
  <2> QED
    BY <2>4, <2>5
<1>9. ASSUME NEW t \in Threads, NEW ok \in BOOLEAN, MarkTerminal(t, ok)
      PROVE  (BootInv /\ NoRepeatAfterRestart)'
  <2>1. /\ \A u \in Threads : YetToAct(u)' => YetToAct(u) /\ thr'[u].cmd = thr[u].cmd
        /\ UNCHANGED <<fieldLog, era, raced, lost, boot>>
    BY <1>9, TerminalEffect DEF MovesTo, YetToAct
  <2> QED
    BY <2>1 DEF BootInv, NoRepeatAfterRestart, Recent
<1>10. ASSUME NEW t \in Threads, NEW ok \in BOOLEAN, MarkFailed(t, ok)
      PROVE  (BootInv /\ NoRepeatAfterRestart)'
  <2>1. /\ \A u \in Threads : YetToAct(u)' => YetToAct(u) /\ thr'[u].cmd = thr[u].cmd
        /\ UNCHANGED <<fieldLog, era, raced, lost, boot>>
    BY <1>10, FailedEffect DEF MovesTo, Ends, YetToAct
  <2> QED
    BY <2>1 DEF BootInv, NoRepeatAfterRestart, Recent
<1>11. ASSUME NEW t \in Threads, Respond(t)
      PROVE  (BootInv /\ NoRepeatAfterRestart)'
  <2>1. /\ \A u \in Threads : YetToAct(u)' => YetToAct(u) /\ thr'[u].cmd = thr[u].cmd
        /\ UNCHANGED <<fieldLog, era, raced, lost, boot>>
    BY <1>11, RespondEffect DEF Ends, YetToAct
  <2> QED
    BY <2>1 DEF BootInv, NoRepeatAfterRestart, Recent
<1>12. ASSUME NEW readable \in BOOLEAN, Restart(readable)
      PROVE  (BootInv /\ NoRepeatAfterRestart)'
  BY <1>12, RestartEffect
  DEF BootInv, NoRepeatAfterRestart, YetToAct, Recent, AllEnd
<1>13. ASSUME NEW p \in Policies, RestorePolicy(p)
      PROVE  (BootInv /\ NoRepeatAfterRestart)'
  BY <1>13, RestoreEffect
  DEF BootInv, NoRepeatAfterRestart, YetToAct, Recent, AllEnd
<1> QED
  BY <1>1, <1>2, <1>3, <1>4, <1>5, <1>6, <1>7, <1>8, <1>9, <1>10, <1>11, <1>12, <1>13
  DEF Next, NetworkThread, Execute, Environment, vars, guardVars, obsVars,
      ReplayOutcome, RejectCommand, InstallPolicy, RecordEpoch, BeginReset,
          RemovePolicyFile, ApplyConnectors

\* A reply is an outcome, never the absence of a record.
LEMMA ReplyTypes ==
    ASSUME TypeOK
    PROVE  /\ \A c \in Commands : replies[c] \subseteq Outcomes
           /\ replies \in [Commands -> SUBSET Outcomes]
           /\ "none" \notin Outcomes /\ "executing" \notin Outcomes
  BY DEF TypeOK, ObserverTypeOK, Outcomes

\* What the Hub was told agrees with both copies of the journal, and a thread
\* that still has to answer has not been overtaken.
LEMMA AnswerStep ==
    ASSUME TypeOK, TagsInv, RaceInv, AnswerInv, [Next]_vars
    PROVE  AnswerInv'
<1>1. ASSUME UNCHANGED <<thr, mem, disk, replies, era, raced, faulted, lost>>
      PROVE  AnswerInv'
  BY <1>1 DEF AnswerInv, AnswersJournaled, FileFollowsMemory, ThreadAnswer, Live,
      Excused
<1>2. ASSUME NEW c \in Commands, NEW t \in Threads, AcceptCommand(c, t)
      PROVE  AnswerInv'
  <2>1. /\ UNCHANGED <<mem, disk, replies, era, faulted, lost>> /\ raced \subseteq raced'
        /\ \A u \in Threads : u # t => thr'[u] = thr[u]
        /\ thr'[t].cmd = c /\ thr'[t].pc = "waiting" /\ mem.commands[c] = "none"
    BY <1>2, AcceptEffect DEF Fresh
  <2>2. Excused \subseteq Excused'
    BY <2>1 DEF Excused
  <2> QED
    BY <2>1, <2>2 DEF AnswerInv, AnswersJournaled, FileFollowsMemory, ThreadAnswer,
                      Live, Outcomes
<1>3. ASSUME NEW c \in Commands, ReplayOutcome(c)
      PROVE  AnswerInv'
  <2>1. /\ UNCHANGED <<mem, disk, thr, era, raced, faulted, lost>>
        /\ mem.commands[c] # "none"
        /\ \A e \in Commands : \A o \in replies'[e] :
              o \in replies[e] \/ (e = c /\ o = mem.commands[c])
    BY <1>3, ReplyTypes DEF ReplayOutcome, Outcomes
  <2>2. Excused' = Excused /\ faulted \subseteq Excused
    BY <2>1 DEF Excused
  <2>3. AnswersJournaled'
    BY <2>1, <2>2 DEF AnswerInv, AnswersJournaled, FileFollowsMemory
  <2> QED
    BY <2>1, <2>2, <2>3 DEF AnswerInv, FileFollowsMemory, ThreadAnswer, Live
<1>4. ASSUME NEW ok \in BOOLEAN, RecordEpoch(ok)
      PROVE  AnswerInv'
  <2>1. /\ UNCHANGED <<thr, replies, era, raced, faulted, lost>>
        /\ mem'.commands = mem.commands
        /\ disk'.commands = disk.commands \/ disk'.commands = mem.commands
    BY <1>4, EpochEffect
  <2>2. Excused' = Excused
    BY <2>1 DEF Excused
  <2> QED
    BY <2>1, <2>2 DEF AnswerInv, AnswersJournaled, FileFollowsMemory, ThreadAnswer, Live
<1>5. ASSUME NEW ok \in BOOLEAN, ResetJournal(ok)
      PROVE  AnswerInv'
  <2>1. /\ UNCHANGED <<thr, raced, faulted, lost>> /\ mem' = EmptyJournal
        /\ era' = era + 1 /\ \A c \in Commands : replies'[c] = {}
    BY <1>5, ResetEffect
  <2>2. AnswersJournaled' /\ FileFollowsMemory'
    BY <2>1, EmptyJournalFacts DEF AnswersJournaled, FileFollowsMemory
  <2>3. ASSUME NEW t \in Threads
        PROVE  ThreadAnswer(t)'
    BY <2>1, EmptyJournalFacts, TagTypes, LockTypes
    DEF TagsInv, ThreadAnswer, Live, Outcomes
  <2> QED
    BY <2>2, <2>3 DEF AnswerInv
<1>6. ASSUME NEW t \in Threads, AcquireLock(t)
      PROVE  AnswerInv'
  <2>1. /\ UNCHANGED <<mem, disk, replies, era, raced, faulted, lost>>
        /\ \A u \in Threads : /\ thr'[u].cmd = thr[u].cmd /\ thr'[u].era = thr[u].era
                              /\ Live(u)' => Live(u)
                              /\ thr[u].pc = "terminal" <=> thr'[u].pc = "terminal"
                              /\ thr'[u].pc = "terminal" => thr'[u].out = thr[u].out
    BY <1>6, AcquireEffect DEF MovesTo, Live, obsVars
  <2>2. Excused' = Excused
    BY <2>1 DEF Excused
  <2> QED
    BY <2>1, <2>2 DEF AnswerInv, AnswersJournaled, FileFollowsMemory, ThreadAnswer
<1>7. ASSUME NEW t \in Threads, RefusePrerequisites(t)
      PROVE  AnswerInv'
  <2>1. /\ UNCHANGED <<mem, disk, replies, era, raced, faulted, lost>>
        /\ \A u \in Threads : /\ thr'[u].cmd = thr[u].cmd /\ thr'[u].era = thr[u].era
                              /\ Live(u)' => Live(u)
                              /\ thr[u].pc = "terminal" <=> thr'[u].pc = "terminal"
                              /\ thr'[u].pc = "terminal" => thr'[u].out = thr[u].out
    BY <1>7, RefuseEffect DEF MovesTo, Live, obsVars
  <2>2. Excused' = Excused
    BY <2>1 DEF Excused
  <2> QED
    BY <2>1, <2>2 DEF AnswerInv, AnswersJournaled, FileFollowsMemory, ThreadAnswer
<1>8. ASSUME NEW t \in Threads, NEW ok \in BOOLEAN, MarkExecuting(t, ok)
      PROVE  AnswerInv'
  <2>1. /\ Journaled(thr[t].cmd, "executing", ok)
        /\ thr[t].cmd \in Commands /\ Live(t) /\ thr[t].pc = "holding"
        /\ ok => faulted' = faulted
        /\ ~ok => faulted' = faulted \cup {thr[t].cmd}
        /\ UNCHANGED <<replies, era, raced, lost>>
    BY <1>8, ExecutingEffect DEF Live
  <2>2. /\ \A u \in Threads : u # t => thr'[u] = thr[u]
        /\ \A u \in Threads : Live(u) => thr[u].cmd \in Commands
    BY <1>8, ExecutingEffect, LockTypes DEF MovesTo, Ends, Live
  <2>3. Excused \subseteq Excused' /\ (~ok => thr[t].cmd \in Excused')
    BY <2>1 DEF Excused
  <2>4. thr[t].cmd \notin Excused => replies[thr[t].cmd] = {}
    BY <2>1, ReplyTypes DEF AnswerInv, AnswersJournaled, ThreadAnswer
  <2>5. \A u \in Threads : Live(u) /\ u # t /\ thr[u].cmd = thr[t].cmd => thr[u].cmd \in Excused
    BY <2>1 DEF RaceInv, Excused
  <2>6. AnswersJournaled'
    BY <2>1, <2>3, <2>4 DEF AnswerInv, AnswersJournaled, Journaled
  <2>7. FileFollowsMemory'
    BY <2>1 DEF AnswerInv, FileFollowsMemory, Journaled
  <2>8. ASSUME NEW u \in Threads, u # t
        PROVE  ThreadAnswer(u)'
    BY <2>1, <2>2, <2>3, <2>5, <2>8 DEF AnswerInv, ThreadAnswer, Journaled, Live
  <2>9. ThreadAnswer(t)'
    <3>1. CASE ok
      BY <1>8, <3>1, ExecutingEffect DEF MovesTo, Journaled, ThreadAnswer, Live,
          Outcomes
    <3>2. CASE ~ok
      BY <1>8, <2>1, <2>3, <3>2, ExecutingEffect DEF MovesTo, Ends, ThreadAnswer, Live
    <3> QED
      BY <3>1, <3>2
  <2> QED
    BY <2>6, <2>7, <2>8, <2>9 DEF AnswerInv
<1>9. ASSUME NEW t \in Threads, NEW out \in Outcomes, FieldAction(t, out)
      PROVE  AnswerInv'
  <2>1. /\ UNCHANGED <<mem, disk, replies, era, raced, faulted, lost>>
        /\ \A u \in Threads : /\ thr'[u].cmd = thr[u].cmd /\ thr'[u].era = thr[u].era
                              /\ Live(u)' => Live(u)
                              /\ thr[u].pc = "terminal" <=> thr'[u].pc = "terminal"
                              /\ thr'[u].pc = "terminal" => thr'[u].out = thr[u].out
    BY <1>9, FieldEffect DEF MovesTo, Live
  <2>2. Excused' = Excused
    BY <2>1 DEF Excused
  <2> QED
    BY <2>1, <2>2 DEF AnswerInv, AnswersJournaled, FileFollowsMemory, ThreadAnswer
<1>10. ASSUME NEW t \in Threads, NEW reached \in BOOLEAN, HandlerRaises(t, reached)
      PROVE  AnswerInv'
  <2>1. /\ UNCHANGED <<mem, disk, replies, era, raced, faulted, lost>>
        /\ \A u \in Threads : /\ thr'[u].cmd = thr[u].cmd /\ thr'[u].era = thr[u].era
                              /\ Live(u)' => Live(u)
                              /\ thr[u].pc = "terminal" <=> thr'[u].pc = "terminal"
                              /\ thr'[u].pc = "terminal" => thr'[u].out = thr[u].out
    BY <1>10, RaisesEffect DEF MovesTo, Live
  <2>2. Excused' = Excused
    BY <2>1 DEF Excused
  <2> QED
    BY <2>1, <2>2 DEF AnswerInv, AnswersJournaled, FileFollowsMemory, ThreadAnswer
<1>11. ASSUME NEW t \in Threads, NEW ok \in BOOLEAN, MarkTerminal(t, ok)
      PROVE  AnswerInv'
  <2>1. /\ Journaled(thr[t].cmd, thr[t].out, ok)
        /\ thr[t].cmd \in Commands /\ Live(t) /\ thr[t].pc = "acted"
        /\ ok => faulted' = faulted
        /\ ~ok => faulted' = faulted \cup {thr[t].cmd}
        /\ UNCHANGED <<replies, era, raced, lost>>
    BY <1>11, TerminalEffect DEF Live
  <2>2. /\ \A u \in Threads : u # t => thr'[u] = thr[u]
        /\ \A u \in Threads : Live(u) => thr[u].cmd \in Commands
    BY <1>11, TerminalEffect, LockTypes DEF MovesTo, Ends, Live
  <2>3. Excused \subseteq Excused' /\ (~ok => thr[t].cmd \in Excused')
    BY <2>1 DEF Excused
  <2>4. thr[t].cmd \notin Excused => replies[thr[t].cmd] = {}
    BY <2>1, ReplyTypes DEF AnswerInv, AnswersJournaled, ThreadAnswer
  <2>5. \A u \in Threads : Live(u) /\ u # t /\ thr[u].cmd = thr[t].cmd => thr[u].cmd \in Excused
    BY <2>1 DEF RaceInv, Excused
  <2>6. AnswersJournaled'
    BY <2>1, <2>3, <2>4 DEF AnswerInv, AnswersJournaled, Journaled
  <2>7. FileFollowsMemory'
    BY <2>1 DEF AnswerInv, FileFollowsMemory, Journaled
  <2>8. ASSUME NEW u \in Threads, u # t
        PROVE  ThreadAnswer(u)'
    BY <2>1, <2>2, <2>3, <2>5, <2>8 DEF AnswerInv, ThreadAnswer, Journaled, Live
  <2>9. ThreadAnswer(t)'
    <3>1. CASE ok
      BY <1>11, <3>1, TerminalEffect DEF MovesTo, Journaled, ThreadAnswer, Live,
          Outcomes
    <3>2. CASE ~ok
      BY <1>11, <2>1, <2>3, <3>2, TerminalEffect DEF MovesTo, Ends, ThreadAnswer, Live
    <3> QED
      BY <3>1, <3>2
  <2> QED
    BY <2>6, <2>7, <2>8, <2>9 DEF AnswerInv
<1>12. ASSUME NEW t \in Threads, NEW ok \in BOOLEAN, MarkFailed(t, ok)
      PROVE  AnswerInv'
  <2>1. /\ Journaled(thr[t].cmd, "failed", ok)
        /\ thr[t].cmd \in Commands /\ Live(t) /\ thr[t].pc = "failing"
        /\ ok => faulted' = faulted
        /\ ~ok => faulted' = faulted \cup {thr[t].cmd}
        /\ UNCHANGED <<replies, era, raced, lost>>
    BY <1>12, FailedEffect DEF Live
  <2>2. /\ \A u \in Threads : u # t => thr'[u] = thr[u]
        /\ \A u \in Threads : Live(u) => thr[u].cmd \in Commands
    BY <1>12, FailedEffect, LockTypes DEF MovesTo, Ends, Live
  <2>3. Excused \subseteq Excused' /\ (~ok => thr[t].cmd \in Excused')
    BY <2>1 DEF Excused
  <2>4. thr[t].cmd \notin Excused => replies[thr[t].cmd] = {}
    BY <2>1, ReplyTypes DEF AnswerInv, AnswersJournaled, ThreadAnswer
  <2>5. \A u \in Threads : Live(u) /\ u # t /\ thr[u].cmd = thr[t].cmd => thr[u].cmd \in Excused
    BY <2>1 DEF RaceInv, Excused
  <2>6. AnswersJournaled'
    BY <2>1, <2>3, <2>4 DEF AnswerInv, AnswersJournaled, Journaled
  <2>7. FileFollowsMemory'
    BY <2>1 DEF AnswerInv, FileFollowsMemory, Journaled
  <2>8. ASSUME NEW u \in Threads, u # t
        PROVE  ThreadAnswer(u)'
    BY <2>1, <2>2, <2>3, <2>5, <2>8 DEF AnswerInv, ThreadAnswer, Journaled, Live
  <2>9. ThreadAnswer(t)'
    <3>1. CASE ok
      BY <1>12, <3>1, FailedEffect DEF MovesTo, Journaled, ThreadAnswer, Live, Outcomes
    <3>2. CASE ~ok
      BY <1>12, <2>1, <2>3, <3>2, FailedEffect DEF MovesTo, Ends, ThreadAnswer, Live
    <3> QED
      BY <3>1, <3>2
  <2> QED
    BY <2>6, <2>7, <2>8, <2>9 DEF AnswerInv
<1>13. ASSUME NEW t \in Threads, Respond(t)
      PROVE  AnswerInv'
  <2>1. /\ UNCHANGED <<mem, disk, era, raced, faulted, lost>>
        /\ thr[t].pc = "terminal" /\ thr[t].cmd \in Commands /\ thr[t].out \in Outcomes
        /\ \A c \in Commands : \A o \in replies'[c] :
              o \in replies[c] \/ (c = thr[t].cmd /\ o = thr[t].out /\ thr[t].era = era)
        /\ \A u \in Threads : thr'[u] = thr[u] \/ thr'[u].pc = "idle"
    BY <1>13, RespondEffect DEF Ends
  <2>2. Excused' = Excused /\ faulted \subseteq Excused
    BY <2>1 DEF Excused
  <2>3. AnswersJournaled'
    BY <2>1, <2>2 DEF AnswerInv, AnswersJournaled, FileFollowsMemory, ThreadAnswer,
                      Live, Outcomes
  <2> QED
    BY <2>1, <2>2, <2>3 DEF AnswerInv, FileFollowsMemory, ThreadAnswer, Live
<1>14. ASSUME NEW readable \in BOOLEAN, Restart(readable)
      PROVE  AnswerInv'
  <2>1. /\ UNCHANGED <<disk, replies, raced, faulted>> /\ lost \subseteq lost'
        /\ \A u \in Threads : thr'[u].pc = "idle"
        /\ \/ mem' = disk
           \/ /\ mem' = EmptyJournal
              /\ \A c \in Commands : disk.commands[c] # "none" => c \in lost'
    BY <1>14, RestartEffect DEF AllEnd
  <2>2. Excused \subseteq Excused' /\ lost' \subseteq Excused'
    BY <2>1 DEF Excused
  <2>3. AnswersJournaled'
    BY <2>1, <2>2, ReplyTypes DEF AnswerInv, AnswersJournaled
  <2>4. FileFollowsMemory'
    BY <2>1, EmptyJournalFacts DEF FileFollowsMemory
  <2> QED
    BY <2>1, <2>3, <2>4 DEF AnswerInv, ThreadAnswer, Live
<1>15. ASSUME NEW p \in Policies, RestorePolicy(p)
      PROVE  AnswerInv'
  <2>1. /\ UNCHANGED <<disk, replies, raced, faulted, lost>> /\ mem' = disk
        /\ \A u \in Threads : thr'[u].pc = "idle"
    BY <1>15, RestoreEffect DEF AllEnd
  <2>2. Excused' = Excused
    BY <2>1 DEF Excused
  <2> QED
    BY <2>1, <2>2 DEF AnswerInv, AnswersJournaled, FileFollowsMemory, ThreadAnswer, Live
<1> QED
  BY <1>1, <1>2, <1>3, <1>4, <1>5, <1>6, <1>7, <1>8, <1>9, <1>10, <1>11, <1>12,
      <1>13, <1>14, <1>15
  DEF Next, NetworkThread, Execute, Environment, vars, guardVars, obsVars,
      RejectCommand, InstallPolicy, BeginReset, RemovePolicyFile, ApplyConnectors

\* The epochs are numbers.
LEMMA EpochTypes ==
    ASSUME TypeOK
    PROVE  /\ acked \in Nat /\ mem.max_epoch \in Nat /\ disk.max_epoch \in Nat
           /\ \A p \in Policies : p.epoch \in Nat /\ p # None
           /\ policy \in Policies \cup {None} /\ policyFile \in Policies \cup {None}
  BY ConstantsAssumption DEF TypeOK, GuardTypeOK, ObserverTypeOK, Journals

\* Neither copy of the anchor, nor the policy, is below the acknowledged epoch.
LEMMA EpochStep ==
    ASSUME TypeOK, EpochInv, [Next]_vars
    PROVE  EpochInv'
<1>1. ASSUME UNCHANGED <<policy, policyFile, net, mem, disk, acked, restored>>
      PROVE  EpochInv'
  BY <1>1 DEF EpochInv
<1>2. ASSUME NEW p \in Policies, InstallPolicy(p)
      PROVE  EpochInv'
  BY <1>2, EpochTypes
  DEF InstallPolicy, EpochInv
<1>3. ASSUME NEW ok \in BOOLEAN, RecordEpoch(ok)
      PROVE  EpochInv'
  <2>1. /\ net = "anchor" /\ net' = "idle" /\ policy.epoch \in Nat /\ policy # None
        /\ acked' \in Nat /\ mem'.max_epoch \in Nat /\ disk'.max_epoch \in Nat
        /\ policy.epoch <= mem'.max_epoch /\ mem.max_epoch <= mem'.max_epoch
        /\ \/ disk'.max_epoch = mem'.max_epoch /\ acked' \in {acked, policy.epoch}
           \/ disk'.max_epoch = disk.max_epoch /\ acked' = acked
        /\ UNCHANGED <<policy, policyFile, restored>>
    BY <1>3, EpochEffect, EpochTypes DEF Journals
  <2> QED
    BY <2>1, EpochTypes DEF EpochInv
<1>4. ASSUME NEW ok \in BOOLEAN, ResetJournal(ok)
      PROVE  EpochInv'
  <2>0. net = "reset_journal"
    BY <1>4 DEF ResetJournal
  <2>1. /\ acked' = 0 /\ mem'.max_epoch \in Nat /\ disk'.max_epoch \in Nat
        /\ net' # "anchor" /\ UNCHANGED <<policy, policyFile, restored>>
    BY <1>4, ResetEffect, EmptyJournalFacts, EpochTypes
  <2> QED
    BY <2>0, <2>1, EpochTypes DEF EpochInv
<1>5. ASSUME NEW m \in {"operational", "release_pending"}, BeginReset(m)
      PROVE  EpochInv'
  BY <1>5
  DEF BeginReset, EpochInv, obsVars
<1>6. ASSUME RemovePolicyFile
      PROVE  EpochInv'
  BY <1>6
  DEF RemovePolicyFile, EpochInv
<1>7. ASSUME NEW t \in Threads, NEW ok \in BOOLEAN, MarkExecuting(t, ok)
      PROVE  EpochInv'
  <2>1. /\ UNCHANGED <<acked, policy, policyFile, net, restored>>
        /\ mem'.max_epoch = mem.max_epoch
        /\ disk'.max_epoch \in {disk.max_epoch, mem.max_epoch}
    BY <1>7, ExecutingEffect DEF Journaled, guardVars
  <2> QED
    BY <2>1 DEF EpochInv
<1>8. ASSUME NEW t \in Threads, NEW ok \in BOOLEAN, MarkTerminal(t, ok)
      PROVE  EpochInv'
  <2>1. /\ UNCHANGED <<acked, policy, policyFile, net, restored>>
        /\ mem'.max_epoch = mem.max_epoch
        /\ disk'.max_epoch \in {disk.max_epoch, mem.max_epoch}
    BY <1>8, TerminalEffect DEF Journaled, guardVars
  <2> QED
    BY <2>1 DEF EpochInv
<1>9. ASSUME NEW t \in Threads, NEW ok \in BOOLEAN, MarkFailed(t, ok)
      PROVE  EpochInv'
  <2>1. /\ UNCHANGED <<acked, policy, policyFile, net, restored>>
        /\ mem'.max_epoch = mem.max_epoch
        /\ disk'.max_epoch \in {disk.max_epoch, mem.max_epoch}
    BY <1>9, FailedEffect DEF Journaled, guardVars
  <2> QED
    BY <2>1 DEF EpochInv
<1>10. ASSUME NEW readable \in BOOLEAN, Restart(readable)
      PROVE  EpochInv'
  <2>1. /\ UNCHANGED <<policyFile, disk, restored>>
        /\ policy' \in {policyFile, None} /\ net' = "idle"
        /\ \/ acked' = acked /\ mem' = disk
           \/ acked' = 0 /\ mem'.max_epoch = 0
    BY <1>10, RestartEffect, EmptyJournalFacts
  <2> QED
    BY <2>1, EpochTypes DEF EpochInv
<1>11. ASSUME NEW p \in Policies, RestorePolicy(p)
      PROVE  EpochInv'
  <2>1. UNCHANGED <<disk, acked>> /\ mem' = disk /\ net' = "idle"
    BY <1>11, RestoreEffect
  <2>2. restored'
    BY <1>11 DEF RestorePolicy
  <2> QED
    BY <2>1, <2>2 DEF EpochInv
<1> QED
  BY <1>1, <1>2, <1>3, <1>4, <1>5, <1>6, <1>7, <1>8, <1>9, <1>10, <1>11
  DEF Next, NetworkThread, Execute, Environment, vars, guardVars, obsVars,
      AcceptCommand, ReplayOutcome, RejectCommand, ApplyConnectors, AcquireLock,
          RefusePrerequisites, FieldAction, HandlerRaises, Respond

-----------------------------------------------------------------------------
(* The theorems *)

\* The initial state satisfies the inductive invariant.
LEMMA InitInductive ==
    Init => InductiveInv
<1> SUFFICES ASSUME Init PROVE InductiveInv
  OBVIOUS
<1>1. fieldLog = <<>> /\ DOMAIN fieldLog = {}
  BY DEF Init
<1>2. TypeOK
  <2>1. GuardTypeOK /\ mem \in Journals /\ disk \in Journals
    BY EmptyJournalFacts DEF Init, GuardTypeOK
  <2>2. ThreadTypeOK /\ lock \in [Devices -> Threads \cup {None}]
    BY DEF Init, ThreadTypeOK, ThreadRecords, IdleThread, Pcs, Live
  <2>3. ObserverTypeOK
    <3>1. fieldLog \in Seq(Actions) /\ replies \in [Commands -> SUBSET Outcomes]
      BY <1>1 DEF Init
    <3>2. restored \in BOOLEAN
      BY DEF Init
    <3> QED
      BY <3>1, <3>2 DEF Init, ObserverTypeOK
  <2> QED
    BY <2>1, <2>2, <2>3 DEF TypeOK
<1>3. \A t \in Threads : thr[t].pc = "idle" /\ thr[t].era = 0
  BY DEF Init, IdleThread
<1>4. TagsInv /\ LockInv /\ EvidenceInv /\ RaceInv
  BY <1>1, <1>3 DEF Init, TagsInv, LockInv, EvidenceInv, RaceInv, Live
<1>5. OrderInv /\ OrderedOnceUnlessRaced /\ BootInv /\ NoRepeatAfterRestart
  BY <1>1 DEF OrderInv, OrderedOnceUnlessRaced, BootInv, NoRepeatAfterRestart
<1>6. AnswerInv
  BY <1>3, EmptyJournalFacts
  DEF Init, AnswerInv, AnswersJournaled, FileFollowsMemory, ThreadAnswer, Live
<1>7. EpochInv
  BY EmptyJournalFacts DEF Init, EpochInv
<1> QED
  BY <1>2, <1>4, <1>5, <1>6, <1>7 DEF InductiveInv

\* Every step keeps the inductive invariant.
LEMMA InductiveStep ==
    InductiveInv /\ [Next]_vars => InductiveInv'
  BY TypeStep, TagsStep, LockStep, EvidenceStep, RaceStep, OrderStep, BootStep,
     AnswerStep, EpochStep
  DEF InductiveInv

\* The inductive invariant holds in every reachable state.
THEOREM Inductive ==
    Spec => []InductiveInv
  BY InitInductive, InductiveStep, PTL DEF Spec

\* The guard, the journal, the threads and the locks have their types.
THEOREM TypeCorrectness ==
    Spec => []TypeOK
<1>1. InductiveInv => TypeOK
  BY DEF InductiveInv
<1> QED
  BY <1>1, Inductive, PTL

\* Whatever was done to the field is recorded in the journal file, whichever
\* threads, failing writes and restarts came before (mark_executing, _persist).
THEOREM FieldActionsJournaled ==
    Spec => []FieldActionsAreJournaled
<1>1. InductiveInv => FieldActionsAreJournaled
  BY DEF InductiveInv, EvidenceInv, Evidence, FieldActionsAreJournaled
<1> QED
  BY <1>1, Inductive, PTL

\* No command acts on the field in two runs of the process unless the journal
\* was unreadable in between (validate, mark_executing, _load).
THEOREM RestartsNeverRepeat ==
    Spec => []NoRepeatAfterRestart
<1>1. InductiveInv => NoRepeatAfterRestart
  BY DEF InductiveInv
<1> QED
  BY <1>1, Inductive, PTL

\* Apart from commands accepted in a race, the commands of a device act once
\* each and in the order of their sequence numbers (validate, device_lock).
THEOREM OrderedOnce ==
    Spec => []OrderedOnceUnlessRaced
<1>1. InductiveInv => OrderedOnceUnlessRaced
  BY DEF InductiveInv
<1> QED
  BY <1>1, Inductive, PTL

\* Two threads never act on one device at the same time (device_lock).
THEOREM MutualExclusion ==
    Spec => []OneActorPerDevice
<1>1. InductiveInv => OneActorPerDevice
  BY DEF InductiveInv, LockInv, OneActorPerDevice
<1> QED
  BY <1>1, Inductive, PTL

\* An outcome the Hub was told stays in the journal file (mark_terminal,
\* _send_response, and the replay of validate's terminal record).
THEOREM DurableAnswers ==
    Spec => []AnswersAreDurable
<1>1. InductiveInv => AnswersAreDurable
  BY DEF InductiveInv, AnswerInv, AnswersJournaled, Excused, AnswersAreDurable
<1> QED
  BY <1>1, Inductive, PTL

\* The gateway never falls below an epoch it has acknowledged, except through a
\* policy file an operator puts back (install_policy, record_epoch).
THEOREM EpochsHold ==
    Spec => []AckedEpochHolds
<1>1. InductiveInv => AckedEpochHolds
  BY DEF InductiveInv, EpochInv, AckedEpochHolds
<1> QED
  BY <1>1, Inductive, PTL

\* No command of an epoch below an acknowledged one is accepted (validate).
THEOREM StaleEpochs ==
    Spec => StaleEpochNeverAccepted
<1>1. ASSUME InductiveInv, [Next]_vars, NEW t \in Threads,
             ~Live(t), Live(t)', ~restored
      PROVE  CommandEpoch[thr'[t].cmd] >= acked
  <2>1. TypeOK /\ EpochInv
    BY <1>1 DEF InductiveInv
  <2>2. ASSUME NEW c \in Commands, NEW u \in Threads, AcceptCommand(c, u)
        PROVE  CommandEpoch[thr'[t].cmd] >= acked
    <3>1. thr'[t].cmd = c
      BY <1>1, <2>1, <2>2, AcceptEffect DEF Live
    <3>2. policy # None /\ CommandEpoch[c] = policy.epoch
      BY <2>2 DEF AcceptCommand, Authorised
    <3> QED
      BY <1>1, <2>1, <3>1, <3>2, EpochTypes DEF EpochInv
  <2>3. ASSUME NEW u \in Threads, Execute(u)
        PROVE  FALSE
    <3>1. thr[u].pc # "idle" /\ \A v \in Threads : v # u => thr'[v] = thr[v]
      BY <2>1, <2>3, AcquireEffect, RefuseEffect, ExecutingEffect, FieldEffect,
         RaisesEffect, TerminalEffect, FailedEffect, RespondEffect
      DEF Execute, MovesTo, Ends
    <3> QED
      BY <1>1, <3>1 DEF Live
  <2>4. ASSUME Environment
        PROVE  FALSE
    <3>1. AllEnd
      BY <2>1, <2>4, RestartEffect, RestoreEffect DEF Environment
    <3> QED
      BY <1>1, <3>1 DEF AllEnd, Live
  <2>5. ASSUME UNCHANGED thr
        PROVE  FALSE
    BY <1>1, <2>5 DEF Live
  <2> QED
    BY <1>1, <2>2, <2>3, <2>4, <2>5
    DEF Next, NetworkThread, ReplayOutcome, RejectCommand, InstallPolicy, RecordEpoch,
        ResetJournal, BeginReset, RemovePolicyFile, ApplyConnectors, vars
<1>2. InductiveInv /\ [Next]_vars =>
        [\A t \in Threads : ~Live(t) /\ Live(t)' /\ ~restored
            => CommandEpoch[thr'[t].cmd] >= acked]_vars
  BY <1>1
<1> QED
  BY <1>2, Inductive, PTL DEF Spec, StaleEpochNeverAccepted

=============================================================================
