-------------------------- MODULE GovernedCommands --------------------------
(***************************************************************************)
(* Governed remote control at the edge: the durable command journal, the   *)
(* retained control policy, and the execution of state-changing commands   *)
(* (novena_gateway/gateway/governed_commands.py and rpc_handler.py).       *)
(*                                                                         *)
(* One network thread (paho's) runs every inbound handler: it validates a  *)
(* command and spawns a thread for it, installs policies, and resets the   *)
(* field state when the claim changes.  The spawned threads take the       *)
(* device's lock, journal "executing", act on the field, journal the       *)
(* outcome and answer.  The validation is NOT repeated under the lock.     *)
(*                                                                         *)
(* The process may stop at any moment and start again from its two files,  *)
(* the journal and the policy; the broker may deliver a command any number *)
(* of times and in any order; a write of the journal file may fail.        *)
(***************************************************************************)
EXTENDS Integers, Sequences

CONSTANTS
    Commands,      \* command ids the Hub has signed
    Devices,       \* canonical device ids
    Threads,       \* slots for concurrently running execute() threads
    Policies,      \* signed policy bundles: [epoch, controls]
    Device,        \* [Commands -> Devices]: target.device_id
    Sequence,      \* [Commands -> Nat]: sequence_number
    CommandEpoch,  \* [Commands -> Nat]: control_epoch of the envelope
    None,          \* absence (no policy, lock free)
    MaxDisturbances \* bound on restarts, failing journal writes and resets

ASSUME ConstantsAssumption ==
    /\ Device \in [Commands -> Devices]
    /\ Sequence \in [Commands -> Nat \ {0}]
    /\ CommandEpoch \in [Commands -> Nat]
    /\ Policies \subseteq [epoch : Nat, controls : SUBSET Commands]
    /\ None \notin Policies
    /\ None \notin Threads
    /\ MaxDisturbances \in Nat

VARIABLES
    policy,      \* GovernedCommandGuard._policy
    policyFile,  \* what COMMAND_POLICY_PATH holds
    mem,         \* DurableCommandJournal._state
    disk,        \* what COMMAND_JOURNAL_PATH holds
    net,         \* where the network thread is inside a handler
    thr,         \* the execute() threads
    lock,        \* GovernedCommandGuard._device_locks: the holder, or None
    mode,        \* config["mqtt"]["mode"]
    connectors,  \* the gateway has field connectors
    \* What an observer outside the process has seen.
    fieldLog,    \* the field actions, in the order they happened
    replies,     \* final outcomes sent to the Hub for each command
    acked,       \* highest control epoch acknowledged to the Hub
    era,         \* how often the journal was reset
    boot,        \* how often the process was restarted
    faults,      \* how often a journal write failed
    raced,       \* commands accepted while their device had a live thread
    faulted,     \* commands whose own journal write failed
    lost,        \* commands forgotten by an unreadable journal
    restored     \* the policy file came from an operator's backup

guardVars == <<policy, policyFile, net, mode, connectors>>
obsVars   == <<fieldLog, replies, acked, era, boot, faults, raced, faulted,
               lost, restored>>
vars == <<policy, policyFile, mem, disk, net, thr, lock, mode, connectors,
          fieldLog, replies, acked, era, boot, faults, raced, faulted, lost,
          restored>>

Outcomes == {"ok", "failed"}
Records  == {"none", "executing"} \cup Outcomes
Journals == [commands : [Commands -> Records],
             sequences : [Devices -> Nat],
             max_epoch : Nat]

\* The journal of a new installation, of a reset, and of an unreadable file.
EmptyJournal == [commands  |-> [c \in Commands |-> "none"],
                 sequences |-> [d \in Devices |-> 0],
                 max_epoch |-> 0]

\* Where an execute() thread is.
Pcs == {"idle", "waiting", "holding", "journaled", "acted", "failing", "terminal"}

ThreadRecords == [pc : Pcs, cmd : Commands \cup {None},
                  out : Outcomes \cup {None}, era : Nat]

\* A field action: the command, the era it was accepted in, the process run.
Actions == [cmd : Commands, era : Nat, boot : Nat]

IdleThread == [pc |-> "idle", cmd |-> None, out |-> None, era |-> 0]

\* Room for one more restart, failing write or reset.
Undisturbed == boot + faults + era < MaxDisturbances

Larger(a, b) == IF a >= b THEN a ELSE b

\* DurableCommandJournal.write: the state with the command's record replaced
\* and the device's high-water mark raised.
Write(j, c, rec) ==
    [commands  |-> [j.commands EXCEPT ![c] = rec],
     sequences |-> [j.sequences EXCEPT ![Device[c]] = Larger(Sequence[c], @)],
     max_epoch |-> j.max_epoch]

\* Mutant: a journal that is never written to its file.
PersistNothing(ok, j) == mem' = j /\ ok /\ UNCHANGED <<disk, faults>>

\* _persist replaces the whole file by the memory state, or fails and leaves
\* the file as it was while the memory state has already changed.
Persist(ok, j) ==
    /\ mem' = j
    /\ \/ ok /\ disk' = j /\ UNCHANGED faults
       \/ ~ok /\ Undisturbed /\ faults' = faults + 1 /\ UNCHANGED disk

Live(t) == thr[t].pc # "idle"

Release(t) == lock' = [d \in Devices |-> IF lock[d] = t THEN None ELSE lock[d]]

-----------------------------------------------------------------------------
Init ==
    /\ policy = None /\ policyFile = None
    /\ mem = EmptyJournal /\ disk = EmptyJournal
    /\ net = "idle"
    /\ thr = [t \in Threads |-> IdleThread]
    /\ lock = [d \in Devices |-> None]
    /\ mode = "operational" /\ connectors = TRUE
    /\ fieldLog = <<>>
    /\ replies = [c \in Commands |-> {}]
    /\ acked = 0 /\ era = 0 /\ boot = 0 /\ faults = 0
    /\ raced = {} /\ faulted = {} /\ lost = {} /\ restored = FALSE

-----------------------------------------------------------------------------
(* The network thread *)

\* Mutant: the command's epoch is not compared.
AuthorisedAnyEpoch(c) == policy # None /\ c \in policy.controls

\* GovernedCommandGuard.validate, the checks against state.  The envelope's
\* own checks (clock, signature, schema, identity, target, expiry) have no
\* state: a command that fails one is a delivery this model leaves out.
Authorised(c) ==
    /\ policy # None
    /\ CommandEpoch[c] = policy.epoch
    /\ c \in policy.controls

\* Mutant: the device's sequence is not compared.
FreshAnySequence(c) == mem.commands[c] = "none"

\* validate's last lines: no record of the command, and a fresh sequence.
Fresh(c) ==
    /\ mem.commands[c] = "none"
    /\ Sequence[c] > mem.sequences[Device[c]]

\* _on_rpc_request accepts c: "gateway_received" is sent and a thread started.
\* The journal cannot change between the two reads of validate in a way that
\* matters: a write of c in between raises the sequence that is read second.
AcceptCommand(c, t) ==
    /\ net = "idle" /\ mode = "operational"
    /\ Authorised(c) /\ Fresh(c)
    /\ ~Live(t)
    /\ thr' = [thr EXCEPT ![t] = [pc |-> "waiting", cmd |-> c, out |-> None,
                                  era |-> era]]
    /\ raced' = IF \E u \in Threads : Live(u) /\ Device[thr[u].cmd] = Device[c]
                THEN raced \cup {c} ELSE raced
    /\ UNCHANGED <<guardVars, mem, disk, lock, fieldLog, replies, acked, era,
                   boot, faults, faulted, lost, restored>>

\* _on_rpc_request finds a terminal record and answers with it.
ReplayOutcome(c) ==
    /\ net = "idle" /\ mode = "operational"
    /\ Authorised(c)
    /\ mem.commands[c] \in Outcomes
    /\ replies' = [replies EXCEPT ![c] = @ \cup {mem.commands[c]}]
    /\ UNCHANGED <<guardVars, mem, disk, thr, lock, fieldLog, acked, era, boot,
                   faults, raced, faulted, lost, restored>>

\* Every other request: a stale, unauthorised, uncertain or malformed one is
\* answered "rejected", and all are ignored while a release is pending.
RejectCommand ==
    /\ net = "idle"
    /\ UNCHANGED vars

\* Mutant: a policy below the anchored epoch is installed.
InstallAnyPolicy(p) ==
    /\ net = "idle" /\ mode = "operational"
    /\ policyFile' = p /\ policy' = p
    /\ net' = "anchor"
    /\ restored' = FALSE
    /\ UNCHANGED <<mem, disk, thr, lock, mode, connectors, fieldLog, replies,
                   acked, era, boot, faults, raced, faulted, lost>>

\* install_policy up to the replaced file and the memory copy ...
InstallPolicy(p) ==
    /\ net = "idle" /\ mode = "operational"
    /\ p.epoch >= mem.max_epoch
    /\ policyFile' = p /\ policy' = p
    /\ net' = "anchor"
    /\ restored' = FALSE
    /\ UNCHANGED <<mem, disk, thr, lock, mode, connectors, fieldLog, replies,
                   acked, era, boot, faults, raced, faulted, lost>>

\* ... then journal.record_epoch, and the acknowledgement of _on_control_policy
\* unless the journal could not be written.
RecordEpoch(ok) ==
    /\ net = "anchor"
    /\ Persist(ok, [mem EXCEPT !.max_epoch = Larger(policy.epoch, @)])
    /\ acked' = IF ok THEN Larger(policy.epoch, acked) ELSE acked
    /\ net' = "idle"
    /\ UNCHANGED <<policy, policyFile, thr, lock, mode, connectors, fieldLog,
                   replies, era, boot, raced, faulted, lost, restored>>

\* The config file gets its new mode and no connectors, then
\* _reset_field_state_for_new_claim stops the connectors and drops the policy.
\* Threads that are running are not waited for.
BeginReset(m) ==
    /\ net = "idle" /\ Undisturbed
    /\ mode' = m /\ connectors' = FALSE
    /\ policy' = None
    /\ net' = "reset_journal"
    /\ UNCHANGED <<policyFile, mem, disk, thr, lock, obsVars>>

\* journal.reset; an exception leaves the policy file where it is.
ResetJournal(ok) ==
    /\ net = "reset_journal"
    /\ Persist(ok, EmptyJournal)
    /\ net' = IF ok THEN "remove_policy" ELSE "idle"
    /\ era' = era + 1
    /\ replies' = [c \in Commands |-> {}] /\ acked' = 0
    /\ UNCHANGED <<policy, policyFile, thr, lock, mode, connectors, fieldLog,
                   boot, raced, faulted, lost, restored>>

\* os.remove of the policy file.
RemovePolicyFile ==
    /\ net = "remove_policy"
    /\ policyFile' = None
    /\ restored' = FALSE
    /\ net' = "idle"
    /\ UNCHANGED <<policy, mem, disk, thr, lock, mode, connectors, fieldLog,
                   replies, acked, era, boot, faults, raced, faulted, lost>>

\* A signed configuration brings connectors up again (RemoteConfigHandler).
ApplyConnectors ==
    /\ net = "idle" /\ mode = "operational" /\ ~connectors
    /\ connectors' = TRUE
    /\ UNCHANGED <<policy, policyFile, net, mode, mem, disk, thr, lock, obsVars>>

-----------------------------------------------------------------------------
(* A thread running execute() for its command *)

\* Mutant: the lock is taken from its holder.
SeizeLock(t) ==
    /\ thr[t].pc = "waiting"
    /\ lock' = [lock EXCEPT ![Device[thr[t].cmd]] = t]
    /\ thr' = [thr EXCEPT ![t].pc = "holding"]
    /\ UNCHANGED <<guardVars, mem, disk, obsVars>>

\* with self._governance.device_lock(device_id)
AcquireLock(t) ==
    /\ thr[t].pc = "waiting"
    /\ lock[Device[thr[t].cmd]] = None
    /\ lock' = [lock EXCEPT ![Device[thr[t].cmd]] = t]
    /\ thr' = [thr EXCEPT ![t].pc = "holding"]
    /\ UNCHANGED <<guardVars, mem, disk, obsVars>>

\* Mutant: the lock is not released when a prerequisite fails.
RefuseHoldingLock(t) ==
    /\ thr[t].pc = "holding"
    /\ thr' = [thr EXCEPT ![t].pc = "failing"]
    /\ UNCHANGED <<guardVars, mem, disk, lock, obsVars>>

\* enforce_prerequisites raises: the lock is left, the outcome is "failed".
RefusePrerequisites(t) ==
    /\ thr[t].pc = "holding"
    /\ thr' = [thr EXCEPT ![t].pc = "failing"]
    /\ Release(t)
    /\ UNCHANGED <<guardVars, mem, disk, obsVars>>

\* Mutant: the field is touched although "executing" could not be written.
MarkExecutingAnyway(t, ok) ==
    /\ thr[t].pc = "holding"
    /\ Persist(ok, Write(mem, thr[t].cmd, "executing"))
    /\ thr' = [thr EXCEPT ![t].pc = "journaled"]
    /\ UNCHANGED <<guardVars, lock, faulted, fieldLog, replies, acked, era, boot,
                   raced, lost, restored>>

\* The prerequisites hold; mark_executing, before the field is touched.
MarkExecuting(t, ok) ==
    /\ thr[t].pc = "holding"
    /\ Persist(ok, Write(mem, thr[t].cmd, "executing"))
    /\ IF ok THEN /\ thr' = [thr EXCEPT ![t].pc = "journaled"]
                  /\ UNCHANGED <<lock, faulted>>
             ELSE /\ thr' = [thr EXCEPT ![t].pc = "failing"]
                  /\ Release(t)
                  /\ faulted' = faulted \cup {thr[t].cmd}
    /\ UNCHANGED <<guardVars, fieldLog, replies, acked, era, boot, raced, lost,
                   restored>>

\* handler(params), with the readback that may follow: the device acts and the
\* outcome is known, ...
FieldAction(t, out) ==
    /\ thr[t].pc = "journaled" /\ connectors
    /\ fieldLog' = Append(fieldLog, [cmd |-> thr[t].cmd, era |-> thr[t].era,
                                     boot |-> boot])
    /\ thr' = [thr EXCEPT ![t].pc = "acted", ![t].out = out]
    /\ UNCHANGED <<guardVars, mem, disk, lock, replies, acked, era, boot, faults,
                   raced, faulted, lost, restored>>

\* ... or handler raises: before the device acts, as when the device is no
\* longer registered, or after it did (a timeout, an unusable readback).
HandlerRaises(t, reached) ==
    /\ thr[t].pc = "journaled"
    /\ reached => connectors
    /\ fieldLog' = IF reached
                   THEN Append(fieldLog, [cmd |-> thr[t].cmd, era |-> thr[t].era,
                                          boot |-> boot])
                   ELSE fieldLog
    /\ thr' = [thr EXCEPT ![t].pc = "failing"]
    /\ Release(t)
    /\ UNCHANGED <<guardVars, mem, disk, replies, acked, era, boot, faults, raced,
                   faulted, lost, restored>>

\* Mutant: the outcome is answered but not journaled.
MarkNothing(t, ok) ==
    /\ thr[t].pc = "acted" /\ ok
    /\ thr' = [thr EXCEPT ![t].pc = "terminal"]
    /\ UNCHANGED <<guardVars, mem, disk, lock, obsVars>>

\* mark_terminal with the outcome, still under the lock.
MarkTerminal(t, ok) ==
    /\ thr[t].pc = "acted"
    /\ Persist(ok, Write(mem, thr[t].cmd, thr[t].out))
    /\ IF ok THEN /\ thr' = [thr EXCEPT ![t].pc = "terminal"]
                  /\ UNCHANGED <<lock, faulted>>
             ELSE /\ thr' = [thr EXCEPT ![t].pc = "failing"]
                  /\ Release(t)
                  /\ faulted' = faulted \cup {thr[t].cmd}
    /\ UNCHANGED <<guardVars, fieldLog, replies, acked, era, boot, raced, lost,
                   restored>>

\* Mutant: the except clause answers without an outcome.
MarkFailedSilently(t, ok) ==
    /\ thr[t].pc = "failing"
    /\ Persist(ok, Write(mem, thr[t].cmd, "failed"))
    /\ thr' = [thr EXCEPT ![t].pc = "terminal"]
    /\ UNCHANGED <<guardVars, lock, fieldLog, replies, acked, era, boot, raced,
                   faulted, lost, restored>>

\* The except clause: mark_terminal("error") without the lock.  When that
\* raises too the thread dies and nothing is answered.
MarkFailed(t, ok) ==
    /\ thr[t].pc = "failing"
    /\ Persist(ok, Write(mem, thr[t].cmd, "failed"))
    /\ IF ok THEN /\ thr' = [thr EXCEPT ![t].pc = "terminal", ![t].out = "failed"]
                  /\ UNCHANGED faulted
             ELSE /\ thr' = [thr EXCEPT ![t] = IdleThread]
                  /\ faulted' = faulted \cup {thr[t].cmd}
    /\ UNCHANGED <<guardVars, lock, fieldLog, replies, acked, era, boot, raced,
                   lost, restored>>

\* _send_response with the final stage; the thread ends.
Respond(t) ==
    /\ thr[t].pc = "terminal"
    /\ replies' = IF thr[t].era = era
                  THEN [replies EXCEPT ![thr[t].cmd] = @ \cup {thr[t].out}]
                  ELSE replies
    /\ Release(t)
    /\ thr' = [thr EXCEPT ![t] = IdleThread]
    /\ UNCHANGED <<guardVars, mem, disk, fieldLog, acked, era, boot, faults, raced,
                   faulted, lost, restored>>

-----------------------------------------------------------------------------
(* Stops and starts *)

\* The process stops wherever its threads are and __init__ runs again.
\* _load falls back to an empty journal when the file cannot be read, and
\* _load_policy takes the policy file as it is, or no policy when that file
\* cannot be read or verified.
Restart(readable) ==
    /\ Undisturbed
    /\ boot' = boot + 1
    /\ mem' = IF readable THEN disk ELSE EmptyJournal
    /\ lost' = IF readable THEN lost
               ELSE lost \cup {c \in Commands : disk.commands[c] # "none"}
    /\ acked' = IF readable THEN acked ELSE 0
    /\ policy' \in {policyFile, None}
    /\ thr' = [t \in Threads |-> IdleThread]
    /\ lock' = [d \in Devices |-> None]
    /\ net' = "idle"
    /\ UNCHANGED <<policyFile, disk, mode, connectors, fieldLog, replies, era,
                   faults, raced, faulted, restored>>

\* An operator stops the gateway, puts back an older policy file, starts it.
RestorePolicy(p) ==
    /\ Undisturbed
    /\ boot' = boot + 1
    /\ mem' = disk
    /\ policyFile' = p /\ policy' = p
    /\ restored' = TRUE
    /\ thr' = [t \in Threads |-> IdleThread]
    /\ lock' = [d \in Devices |-> None]
    /\ net' = "idle"
    /\ UNCHANGED <<disk, mode, connectors, fieldLog, replies, acked, era, faults,
                   raced, faulted, lost>>

-----------------------------------------------------------------------------
NetworkThread ==
    \/ \E c \in Commands : ReplayOutcome(c) \/ \E t \in Threads : AcceptCommand(c, t)
    \/ RejectCommand
    \/ \E p \in Policies : InstallPolicy(p)
    \/ \E ok \in BOOLEAN : RecordEpoch(ok) \/ ResetJournal(ok)
    \/ \E m \in {"operational", "release_pending"} : BeginReset(m)
    \/ RemovePolicyFile
    \/ ApplyConnectors

Execute(t) ==
    \/ AcquireLock(t)
    \/ RefusePrerequisites(t)
    \/ \E out \in Outcomes : FieldAction(t, out)
    \/ \E reached \in BOOLEAN : HandlerRaises(t, reached)
    \/ \E ok \in BOOLEAN : MarkExecuting(t, ok) \/ MarkTerminal(t, ok) \/ MarkFailed(t, ok)
    \/ Respond(t)

Environment ==
    \/ \E readable \in BOOLEAN : Restart(readable)
    \/ \E p \in Policies : RestorePolicy(p)

Next == NetworkThread \/ (\E t \in Threads : Execute(t)) \/ Environment

Spec == Init /\ [][Next]_vars

\* The operating system runs every thread, field calls end (the connectors'
\* calls have timeouts), and paho's loop runs its handlers to the end.
FairSpec == Spec /\ \A t \in Threads : WF_vars(Execute(t))

-----------------------------------------------------------------------------
(* Properties *)

GuardTypeOK ==
    /\ policy \in Policies \cup {None}
    /\ policyFile \in Policies \cup {None}
    /\ net \in {"idle", "anchor", "reset_journal", "remove_policy"}
    /\ mode \in {"operational", "release_pending"} /\ connectors \in BOOLEAN
    /\ net = "anchor" => policy # None

ThreadTypeOK ==
    /\ thr \in [Threads -> ThreadRecords]
    /\ \A t \in Threads : Live(t) => thr[t].cmd \in Commands
    /\ \A t \in Threads : thr[t].pc \in {"acted", "terminal"} => thr[t].out \in Outcomes

ObserverTypeOK ==
    /\ fieldLog \in Seq(Actions)
    /\ replies \in [Commands -> SUBSET Outcomes]
    /\ acked \in Nat /\ era \in Nat /\ boot \in Nat /\ faults \in Nat
    /\ raced \subseteq Commands /\ faulted \subseteq Commands
    /\ lost \subseteq Commands /\ restored \in BOOLEAN

\* Type correctness of the guard's, the journal's and the threads' state.
TypeOK ==
    /\ GuardTypeOK
    /\ mem \in Journals /\ disk \in Journals
    /\ ThreadTypeOK
    /\ lock \in [Devices -> Threads \cup {None}]
    /\ ObserverTypeOK

\* The field actions since the last reset of the journal.
Recent(i) == i \in DOMAIN fieldLog /\ fieldLog[i].era = era

\* "It writes executing durably before the connector call": whatever was done
\* to the field has a record in the journal file, whichever threads, failing
\* writes and restarts came before or after (mark_executing, _persist).
FieldActionsAreJournaled ==
    \A i \in DOMAIN fieldLog :
        Recent(i) /\ fieldLog[i].cmd \notin lost
            => disk.commands[fieldLog[i].cmd] # "none"

\* "A restart with that state is an uncertain outcome and must never repeat the
\* command": no command acts on the field in two runs of the process, unless
\* the journal could not be read in between (validate, mark_executing).
NoRepeatAfterRestart ==
    \A i, j \in DOMAIN fieldLog :
        /\ Recent(i) /\ Recent(j)
        /\ fieldLog[i].cmd = fieldLog[j].cmd
        /\ fieldLog[i].boot # fieldLog[j].boot
        => fieldLog[i].cmd \in lost

\* On one device the commands act once each and in the order of their sequence
\* numbers; the only exceptions involve a command that was accepted while
\* another thread was still at work on that device (validate's sequence check).
OrderedOnceUnlessRaced ==
    \A i, j \in DOMAIN fieldLog :
        /\ Recent(i) /\ Recent(j) /\ i < j
        /\ Device[fieldLog[i].cmd] = Device[fieldLog[j].cmd]
        => \/ Sequence[fieldLog[i].cmd] < Sequence[fieldLog[j].cmd]
           \/ {fieldLog[i].cmd, fieldLog[j].cmd} \cap (raced \cup lost) # {}

\* Two threads never act on one device at the same time (device_lock).
OneActorPerDevice ==
    \A t, u \in Threads :
        /\ thr[t].pc \in {"holding", "journaled", "acted"}
        /\ thr[u].pc \in {"holding", "journaled", "acted"}
        /\ Device[thr[t].cmd] = Device[thr[u].cmd]
        => t = u

\* An outcome the Hub was told is in the journal file and stays there, so that
\* a redelivery replays the same answer; exempt are commands that were raced,
\* or whose own journal write failed, or whose journal was lost.
AnswersAreDurable ==
    \A c \in Commands \ (raced \cup faulted \cup lost) :
        \A o \in replies[c] : disk.commands[c] = o

\* Once the Hub has the acknowledgement of a control epoch, the gateway never
\* again works under a lower one: neither the anchor in the journal file nor the
\* policy in force is below it, crashes included (install_policy, record_epoch).
\* The exceptions are a policy file put back by an operator and an anchor lost
\* with an unreadable journal.
AckedEpochHolds ==
    /\ acked <= disk.max_epoch
    /\ policy # None /\ ~restored => acked <= policy.epoch

\* A command signed for an epoch below one the Hub has the acknowledgement of is
\* never accepted (validate's epoch check against the retained policy).
StaleEpochNeverAccepted ==
    [][\A t \in Threads : ~Live(t) /\ Live(t)' /\ ~restored
          => CommandEpoch[thr'[t].cmd] >= acked]_vars

\* Every accepted command comes to an end: the device lock is always released,
\* on every path out of execute().
EveryThreadEnds == \A t \in Threads : Live(t) ~> ~Live(t)

\* "durable exactly-once command evidence" (governed_commands.py): no command
\* acts on the field twice.
ExactlyOnce ==
    \A i, j \in DOMAIN fieldLog :
        Recent(i) /\ Recent(j) /\ i # j /\ fieldLog[i].cmd = fieldLog[j].cmd
            => fieldLog[i].cmd \in lost

\* "A restored policy whose epoch is below the journal epoch anchor is
\* rejected" (docs/governed_remote_control_edge.md).
RestoredPolicyRejected == policy # None => policy.epoch >= mem.max_epoch

-----------------------------------------------------------------------------
(* What makes the invariants inductive *)

Excused == raced \cup faulted \cup lost

\* Both copies of the journal know the command and its sequence number.
Evidence(c) ==
    /\ mem.commands[c] # "none" /\ disk.commands[c] # "none"
    /\ Sequence[c] <= mem.sequences[Device[c]]
    /\ Sequence[c] <= disk.sequences[Device[c]]

\* The thread has yet to act on the field, for the claim now in force.
YetToAct(t) ==
    /\ thr[t].pc \in {"waiting", "holding", "journaled"}
    /\ thr[t].era = era

TagsInv ==
    /\ \A t \in Threads : thr[t].era <= era
    /\ \A i \in DOMAIN fieldLog : fieldLog[i].era <= era /\ fieldLog[i].boot <= boot

LockInv ==
    \A t \in Threads : thr[t].pc \in {"holding", "journaled", "acted"}
        => lock[Device[thr[t].cmd]] = t

EvidenceInv ==
    /\ \A i \in DOMAIN fieldLog :
          Recent(i) /\ fieldLog[i].cmd \notin lost => Evidence(fieldLog[i].cmd)
    /\ \A t \in Threads :
          thr[t].pc = "journaled" /\ thr[t].era = era /\ thr[t].cmd \notin lost
            => Evidence(thr[t].cmd)

RaceInv ==
    \A t, u \in Threads :
        t # u /\ Live(t) /\ Live(u) /\ Device[thr[t].cmd] = Device[thr[u].cmd]
            => thr[t].cmd \in raced \/ thr[u].cmd \in raced

OrderInv ==
    \A t \in Threads : \A i \in DOMAIN fieldLog :
        /\ YetToAct(t) /\ Recent(i)
        /\ Device[fieldLog[i].cmd] = Device[thr[t].cmd]
        /\ thr[t].cmd \notin raced \cup lost
        /\ fieldLog[i].cmd \notin raced \cup lost
        => Sequence[fieldLog[i].cmd] < Sequence[thr[t].cmd]

BootInv ==
    \A t \in Threads : \A i \in DOMAIN fieldLog :
        /\ YetToAct(t) /\ Recent(i)
        /\ fieldLog[i].cmd = thr[t].cmd /\ thr[t].cmd \notin lost
        => fieldLog[i].boot = boot

AnswersJournaled ==
    \A c \in Commands \ Excused : \A o \in replies[c] :
        mem.commands[c] = o /\ disk.commands[c] = o

FileFollowsMemory ==
    \A c \in Commands \ faulted :
        mem.commands[c] # "none" => disk.commands[c] = mem.commands[c]

ThreadAnswer(t) ==
    Live(t) /\ thr[t].cmd \notin Excused =>
        IF thr[t].pc = "terminal"
        THEN thr[t].era = era => mem.commands[thr[t].cmd] = thr[t].out
        ELSE mem.commands[thr[t].cmd] \notin Outcomes

AnswerInv ==
    AnswersJournaled /\ FileFollowsMemory /\ \A t \in Threads : ThreadAnswer(t)

EpochInv ==
    /\ acked <= disk.max_epoch /\ acked <= mem.max_epoch
    /\ policy # None /\ ~restored => acked <= policy.epoch
    /\ policyFile # None /\ ~restored => acked <= policyFile.epoch
    /\ net = "anchor" => policy # None /\ policyFile = policy /\ ~restored
    /\ net \in {"reset_journal", "remove_policy"} => policy = None

\* The inductive invariant behind the theorems about this module.
InductiveInv ==
    /\ TypeOK /\ TagsInv /\ LockInv /\ EvidenceInv /\ RaceInv
    /\ OrderInv /\ OrderedOnceUnlessRaced /\ BootInv /\ NoRepeatAfterRestart
    /\ AnswerInv /\ EpochInv

=============================================================================
