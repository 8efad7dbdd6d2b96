--------------------------- MODULE ClaimLifecycle ---------------------------
(***************************************************************************)
(* The claims of a gateway: how NovenaMqttPublisher activates a claim,     *)
(* releases it on the Hub's request, retires its credentials and falls     *)
(* back to the bootstrap account, and what becomes of the former owner's   *)
(* samples, buffered events and governed state.                            *)
(*                                                                         *)
(* A claim is a number, None is "no claim" (and "no request", "no          *)
(* password").  A sample or an event is the claim it was measured under    *)
(* and the claim it is tagged with; its contents do not matter here.       *)
(*                                                                         *)
(* Threads: paho's network thread runs every handler (its place is         *)
(* `thread`), DataProcessor moves samples to the publisher, MQTT-Publisher *)
(* sends or buffers them, MQTT-Replayer sends the buffer.  The Hub and its *)
(* broker are external.                                                    *)
(***************************************************************************)
EXTENDS Integers, Sequences, FiniteSets

CONSTANTS MaxClaim,      \* claims the Hub hands out
          MaxRequest,    \* release requests the Hub issues
          MaxQueue,      \* samples or items waiting in one queue
          ClaimFaults    \* crashes, failing writes, lost acks, drops

ASSUME ClaimAssumption ==
    MaxClaim \in Nat /\ MaxRequest \in Nat /\ MaxQueue \in Nat /\ ClaimFaults \in Nat

None == 0
Claim == 0 .. MaxClaim
Event == [src : Claim, tag : Claim]

VARIABLES
    disk,      \* the mqtt section of config.json, and whether it has connectors
    mem,       \* the publisher's attributes
    session,   \* _connected
    failures,  \* _consecutive_failures
    thread,    \* the network thread: a step of a handler, or "idle"
    site,      \* the claim of the running connectors and of the governed state
    pipe,      \* the samples and items in memory
    buffer,    \* the events in SQLite
    hub,       \* the Hub: claim, request, phase, the broker's account
    trail      \* history: strays sent, field resets, interrupted resets, budget

claimVars == <<disk, mem, session, failures, thread, site, pipe, buffer, hub, trail>>

----------------------------------------------------------------------------
(* What __init__ reads back from the configuration file.                   *)
Retired(d) == d.mode = "release_pending" /\ d.request # None /\ d.creds = None

FromDisk(d) == [claim |-> d.claim, request |-> d.request, creds |-> d.creds,
                releasing |-> d.mode = "release_pending",
                retired |-> Retired(d), bootstrap |-> Retired(d)]

EmptyPipe == [samples |-> <<>>, hand |-> None, queue |-> <<>>, item |-> <<>>]

ClaimInit ==
    /\ \E c \in {None, 1} \cap Claim :
          /\ disk = [mode |-> "operational", claim |-> c, request |-> None,
                     creds |-> c, connectors |-> c # None]
          /\ site = [field |-> c, policy |-> c]
          /\ hub = [claim |-> c, request |-> None, account |-> c, released |-> {},
                    phase |-> IF c = None THEN "free" ELSE "owned"]
    /\ mem = FromDisk(disk)
    /\ session = FALSE /\ failures = 0 /\ thread = [at |-> "idle"]
    /\ pipe = EmptyPipe /\ buffer = {}
    /\ trail = [strays |-> 0, resets |-> 0, late |-> 0, interrupted |-> FALSE, faults |-> ClaimFaults]

(* One of the bounded faults.                                              *)
Fault == trail.faults > 0 /\ trail' = [trail EXCEPT !.faults = @ - 1]

Goto(at) == thread' = [thread EXCEPT !.at = at]
Idle == thread' = [at |-> "idle"]

----------------------------------------------------------------------------
(* The connection.  The broker accepts the bootstrap account and the one   *)
(* operational account the Hub keeps, and delivers nothing on the session  *)
(* of a revoked account (external).                                        *)

\* _switch_to_bootstrap_if_needed, after n failures and with attributes m
SwitchToBootstrap(m, n) ==
    IF /\ ~m.bootstrap /\ n >= 3
       /\ ~(m.releasing /\ m.request # None /\ ~m.retired)
    THEN [m EXCEPT !.bootstrap = TRUE, !.creds = None]
    ELSE m

\* _retire_revoked_operational_credentials
MayRetire == /\ mem.releasing /\ mem.request # None
             /\ ~mem.retired /\ ~mem.bootstrap
             /\ disk.mode = "release_pending" /\ disk.request = mem.request

\* the file first, then the attributes; counts as the second failure
RetireCredentials ==
    /\ disk' = [disk EXCEPT !.creds = None, !.claim = None]
    /\ mem' = SwitchToBootstrap([mem EXCEPT !.creds = None, !.claim = None, !.retired = TRUE], 3)

AuthorisedSession == mem.bootstrap \/ (mem.creds # None /\ mem.creds = hub.account)

OnConnect ==
    /\ thread.at = "idle" /\ ~session /\ AuthorisedSession
    /\ session' = TRUE /\ failures' = 0
    /\ UNCHANGED <<disk, mem, thread, site, pipe, buffer, hub, trail>>

\* the retiring file write may fail; the failure is still counted
OnRefused ==
    /\ thread.at = "idle" /\ ~session /\ ~AuthorisedSession
    /\ \/ MayRetire /\ RetireCredentials /\ failures' = 3 /\ UNCHANGED trail
       \/ /\ IF MayRetire THEN Fault ELSE UNCHANGED trail
          /\ failures' = IF failures < 3 THEN failures + 1 ELSE 3
          /\ mem' = SwitchToBootstrap(mem, failures')
          /\ UNCHANGED disk
    /\ UNCHANGED <<session, thread, site, pipe, buffer, hub>>

OnDisconnect ==
    /\ thread.at = "idle" /\ session
    /\ IF AuthorisedSession THEN Fault ELSE UNCHANGED trail
    /\ session' = FALSE
    /\ failures' = IF failures < 3 THEN failures + 1 ELSE 3
    /\ mem' = SwitchToBootstrap(mem, failures')
    /\ UNCHANGED <<disk, thread, site, pipe, buffer, hub>>

----------------------------------------------------------------------------
(* A signed release.                                                       *)

\* a claim id that is not the current one, or none, is refused
VerifyRelease == hub.claim = mem.claim /\ mem.claim # None

\* mutant: a repeated request is taken for one already answered
HandleReleaseOnce ==
    /\ thread.at = "idle" /\ session /\ ~mem.bootstrap
    /\ hub.phase = "releasing" /\ VerifyRelease /\ mem.request # hub.request
    /\ disk' = [disk EXCEPT !.connectors = FALSE, !.mode = "release_pending"]
    /\ mem' = [mem EXCEPT !.releasing = TRUE]
    /\ thread' = [at |-> "release_reset", request |-> hub.request]
    /\ UNCHANGED <<session, failures, site, pipe, buffer, hub, trail>>

\* the configuration without connectors and with mode release_pending; a
\* request that is already committed is only acknowledged again
HandleRelease ==
    /\ thread.at = "idle" /\ session /\ ~mem.bootstrap
    /\ hub.phase = "releasing" /\ VerifyRelease
    /\ \/ /\ mem.request = hub.request
          /\ thread' = [at |-> "release_ack", request |-> hub.request]
          /\ UNCHANGED <<disk, mem, trail>>
       \/ /\ mem.request # hub.request
          /\ disk' = [disk EXCEPT !.connectors = FALSE, !.mode = "release_pending"]
          /\ mem' = [mem EXCEPT !.releasing = TRUE]
          /\ thread' = [at |-> "release_reset", request |-> hub.request]
          /\ UNCHANGED trail
       \/ /\ mem.request # hub.request /\ Fault      \* the write fails
          /\ UNCHANGED <<disk, mem, thread>>
    /\ UNCHANGED <<session, failures, site, pipe, buffer, hub>>

\* mutants: the governed state stays; the queue of samples stays
ResetConnectorsOnly(ok) ==
    site' = [site EXCEPT !.field = None] /\ pipe' = [pipe EXCEPT !.samples = <<>>]
ResetSiteOnly(ok) == site' = [field |-> None, policy |-> None] /\ UNCHANGED pipe

\* _reset_field_state_for_new_claim under _field_claim_lock, which
\* DataProcessor takes as well: one step.  Connectors and samples go first,
\* then rollback copy, journals and policy, whose files may fail
ResetField(ok) ==
    /\ site' = [field |-> None, policy |-> IF ok THEN None ELSE site.policy]
    /\ pipe' = [pipe EXCEPT !.samples = <<>>]

ReleaseReset ==
    /\ thread.at = "release_reset"
    /\ \/ /\ ResetField(TRUE) /\ Goto("release_buffer")
          /\ trail' = [trail EXCEPT !.resets = @ + 1]
       \/ ResetField(FALSE) /\ Fault /\ Idle
    /\ UNCHANGED <<disk, mem, session, failures, buffer, hub>>

\* clear_claim_buffer; the replay thread may fail to end within 5 seconds
ClearClaimBuffer ==
    /\ thread.at = "release_buffer"
    /\ mem' = [mem EXCEPT !.releasing = TRUE]
    /\ pipe' = [pipe EXCEPT !.queue = <<>>]
    /\ \/ buffer' = {} /\ Goto("release_commit") /\ UNCHANGED trail
       \/ Fault /\ Idle /\ UNCHANGED buffer
    /\ UNCHANGED <<disk, session, failures, site, hub>>

ReleaseCommit ==
    /\ thread.at = "release_commit"
    /\ \/ /\ disk' = [disk EXCEPT !.request = thread.request]
          /\ mem' = [mem EXCEPT !.request = thread.request]
          /\ Goto("release_ack") /\ UNCHANGED trail
       \/ Fault /\ Idle /\ UNCHANGED <<disk, mem>>
    /\ UNCHANGED <<session, failures, site, pipe, buffer, hub>>

\* the receipt may be lost; the Hub then sends the request again
PublishReleaseAck ==
    /\ thread.at = "release_ack" /\ Idle
    /\ \/ /\ hub' = IF hub.phase = "releasing" /\ hub.request = thread.request
                    THEN [hub EXCEPT !.phase = "free", !.account = None,
                                     !.released = @ \cup {hub.claim}]
                    ELSE hub
          /\ UNCHANGED trail
       \/ Fault /\ UNCHANGED hub
    /\ UNCHANGED <<disk, mem, session, failures, site, pipe, buffer>>

----------------------------------------------------------------------------
(* Activation and password rotation.                                       *)

ClaimChanged(action, c) == action = "activate" /\ c # None /\ c # mem.claim

\* the file: credentials, mode and, for an activation, the claim
RotateFile(action, c) ==
    LET activates == action = "activate" /\ c # None IN
    [mode |-> "operational", creds |-> hub.account,
     claim |-> IF activates THEN c ELSE disk.claim,
     request |-> IF activates THEN None ELSE disk.request,
     connectors |-> disk.connectors /\ ~ClaimChanged(action, c)]

OnProvision ==
    /\ thread.at = "idle" /\ session /\ AuthorisedSession
    /\ \E action \in {"activate", "rotate_password"} :
          /\ hub.phase = (IF action = "activate" THEN "assigning" ELSE "owned")
          /\ action = "rotate_password" => ~mem.bootstrap
          /\ \/ /\ disk' = RotateFile(action, hub.claim)
                /\ thread' = [action |-> action, claim |-> hub.claim, creds |-> hub.account,
                              at |-> IF ClaimChanged(action, hub.claim)
                                     THEN "claim_changed" ELSE "rotate_memory"]
                /\ UNCHANGED trail
             \/ Fault /\ UNCHANGED <<disk, thread>>   \* acknowledged as failed
    /\ UNCHANGED <<mem, session, failures, site, pipe, buffer, hub>>

\* on_claim_changed; when it raises the memory keeps the former claim
OnClaimChanged ==
    /\ thread.at = "claim_changed"
    /\ \/ /\ ResetField(TRUE) /\ Goto("rotate_memory")
          /\ trail' = [trail EXCEPT !.resets = @ + 1]
       \/ ResetField(FALSE) /\ Fault /\ Idle
    /\ UNCHANGED <<disk, mem, session, failures, buffer, hub>>

RotateMemory ==
    /\ thread.at = "rotate_memory"
    /\ mem' = [mem EXCEPT !.creds = thread.creds, !.bootstrap = FALSE,
                  !.claim = IF thread.action = "activate" THEN thread.claim ELSE @,
                  !.request = IF thread.action = "activate" THEN None ELSE @,
                  !.releasing = @ /\ thread.action # "activate",
                  !.retired = @ /\ thread.action # "activate"]
    /\ \/ /\ hub' = IF hub.phase = "assigning" /\ thread.action = "activate" THEN [hub EXCEPT !.phase = "owned"] ELSE hub
          /\ UNCHANGED trail
       \/ Fault /\ UNCHANGED hub
    /\ session' = FALSE /\ Idle
    /\ UNCHANGED <<disk, failures, site, pipe, buffer>>

----------------------------------------------------------------------------
(* Samples: connector, DataProcessor, MQTT-Publisher, MQTT-Replayer.       *)

Sample ==
    /\ site.field # None /\ Len(pipe.samples) < MaxQueue
    /\ pipe' = [pipe EXCEPT !.samples = Append(@, site.field)]
    /\ UNCHANGED <<disk, mem, session, failures, thread, site, buffer, hub, trail>>

\* a connector thread that outlived close() still calls send_to_storage
LateSample ==
    /\ site.field = None /\ mem.claim # None
    /\ trail.faults > 0 /\ Len(pipe.samples) < MaxQueue
    /\ trail' = [trail EXCEPT !.faults = @ - 1, !.late = @ + 1]
    /\ pipe' = [pipe EXCEPT !.samples = Append(@, mem.claim)]
    /\ UNCHANGED <<disk, mem, session, failures, thread, site, buffer, hub>>

TakeSample ==
    /\ pipe.hand = None /\ pipe.samples # <<>>
    /\ pipe' = [pipe EXCEPT !.hand = Head(pipe.samples), !.samples = Tail(@)]
    /\ UNCHANGED <<disk, mem, session, failures, thread, site, buffer, hub, trail>>

\* mutant: the release flag is not looked at under the lock
BufferEventAnyway(e) == buffer' = buffer \cup {e}

\* _buffer_event
BufferEvent(e) == buffer' = IF mem.releasing THEN buffer ELSE buffer \cup {e}

\* the locked part of _data_processing_loop with publish()
ProcessSample ==
    LET e == [src |-> pipe.hand, tag |-> mem.claim] IN
    /\ pipe.hand # None
    /\ \/ /\ site.field = None \/ mem.releasing
          /\ pipe' = [pipe EXCEPT !.hand = None] /\ UNCHANGED buffer
       \/ /\ site.field # None /\ ~mem.releasing /\ session
          /\ Len(pipe.queue) < MaxQueue
          /\ pipe' = [pipe EXCEPT !.hand = None, !.queue = Append(@, e)]
          /\ UNCHANGED buffer
       \/ /\ site.field # None /\ ~mem.releasing /\ ~session
          /\ pipe' = [pipe EXCEPT !.hand = None] /\ BufferEvent(e)
    /\ UNCHANGED <<disk, mem, session, failures, thread, site, hub, trail>>

\* _publish_loop, the tests ...
LoopTake ==
    /\ pipe.item = <<>> /\ pipe.queue # <<>>
    /\ LET e == Head(pipe.queue) IN
       pipe' = [pipe EXCEPT !.queue = Tail(@),
                   !.item = IF e.tag = mem.claim /\ ~mem.releasing THEN <<e>> ELSE <<>>]
    /\ UNCHANGED <<disk, mem, session, failures, thread, site, buffer, hub, trail>>

Sent(e) == trail' = [trail EXCEPT !.strays = IF e.src = e.tag THEN @ ELSE @ + 1]

\* ... and what follows them
LoopSend ==
    /\ pipe.item # <<>>
    /\ pipe' = [pipe EXCEPT !.item = <<>>]
    /\ \/ session /\ ~mem.bootstrap /\ Sent(pipe.item[1]) /\ UNCHANGED buffer
       \/ (~session \/ mem.bootstrap) /\ BufferEvent(pipe.item[1]) /\ UNCHANGED trail
    /\ UNCHANGED <<disk, mem, session, failures, thread, site, hub>>

\* an event of another claim counts as replayed and is dropped
Replay ==
    /\ session /\ ~mem.bootstrap /\ ~mem.releasing
    /\ \E e \in buffer :
          /\ buffer' = buffer \ {e}
          /\ IF e.tag = mem.claim THEN Sent(e) ELSE UNCHANGED trail
    /\ UNCHANGED <<disk, mem, session, failures, thread, site, pipe, hub>>

----------------------------------------------------------------------------
(* A crash, and the restart from the configuration file.                   *)
Crash ==
    /\ trail.faults > 0
    /\ trail' = [trail EXCEPT !.faults = @ - 1,
                    !.interrupted = @ \/ disk.claim # mem.claim]
    /\ mem' = FromDisk(disk)
    /\ site' = [site EXCEPT !.field = IF disk.connectors THEN disk.claim ELSE None]
    /\ session' = FALSE /\ failures' = 0 /\ Idle /\ pipe' = EmptyPipe
    /\ UNCHANGED <<disk, buffer, hub>>

(* The Hub (external).                                                     *)
HubStep ==
    /\ \/ /\ hub.phase = "owned" /\ hub.request < MaxRequest
          /\ hub' = [hub EXCEPT !.phase = "releasing", !.request = @ + 1]
       \/ /\ hub.phase = "releasing" /\ hub.request < MaxRequest   \* expired: another
          /\ hub' = [hub EXCEPT !.request = @ + 1]
       \/ /\ hub.phase = "owned" /\ hub.claim < MaxClaim   \* withdrawn without a release
          /\ hub' = [hub EXCEPT !.phase = "free", !.account = None]
       \/ /\ hub.phase = "free" /\ hub.claim < MaxClaim
          /\ hub' = [hub EXCEPT !.phase = "assigning", !.claim = @ + 1, !.account = hub.claim + 1]
    /\ UNCHANGED <<disk, mem, session, failures, thread, site, pipe, buffer, trail>>

\* a configuration of the owner: connectors and control policy
ApplyOwnerConfig ==
    /\ thread.at = "idle" /\ session /\ ~mem.bootstrap /\ ~mem.releasing
    /\ hub.phase = "owned" /\ hub.claim = mem.claim /\ mem.claim # None
    /\ site' = [field |-> mem.claim, policy |-> mem.claim]
    /\ disk' = [disk EXCEPT !.connectors = TRUE]
    /\ UNCHANGED <<mem, session, failures, thread, pipe, buffer, hub, trail>>

NetworkThread == OnConnect \/ OnRefused \/ HandleRelease \/ ReleaseReset \/ ClearClaimBuffer
                 \/ ReleaseCommit \/ PublishReleaseAck \/ OnProvision \/ OnClaimChanged
                 \/ RotateMemory

ClaimNext == NetworkThread \/ OnDisconnect \/ Sample \/ LateSample \/ TakeSample
             \/ ProcessSample \/ LoopTake \/ LoopSend \/ Replay
             \/ Crash \/ HubStep \/ ApplyOwnerConfig

ClaimSpec == ClaimInit /\ [][ClaimNext]_claimVars
\* the network thread runs, the Hub repeats what is unanswered, and the
\* broker ends the session of a revoked account
ClaimFairness == WF_claimVars(NetworkThread) /\ WF_claimVars(OnDisconnect /\ ~AuthorisedSession)
----------------------------------------------------------------------------
(* Properties.                                                             *)

\* The shapes of the state.
ClaimTypeOK ==
    /\ disk \in [mode : {"operational", "release_pending"}, claim : Claim, creds : Claim,
                 request : 0 .. MaxRequest, connectors : BOOLEAN]
    /\ mem \in [claim : Claim, request : 0 .. MaxRequest, creds : Claim,
                releasing : BOOLEAN, retired : BOOLEAN, bootstrap : BOOLEAN]
    /\ session \in BOOLEAN /\ failures \in 0 .. 3
    /\ site \in [field : Claim, policy : Claim]
    /\ pipe.hand \in Claim /\ Len(pipe.samples) <= MaxQueue /\ Len(pipe.queue) <= MaxQueue
    /\ buffer \subseteq Event
    /\ trail.faults \in 0 .. ClaimFaults

\* From the moment the Hub has the receipt reset_complete for a claim until
\* it hands out the next one, nothing of that site is left: no connector in
\* the file or running, no rollback copy or policy, no queued item, no
\* buffered event (_handle_release, clear_claim_buffer, _buffer_event).
ResetCompleteMeansEmpty ==
    hub.phase = "free" /\ hub.claim \in hub.released =>
        /\ ~disk.connectors
        /\ site = [field |-> None, policy |-> None]
        /\ pipe.queue = <<>> /\ buffer = {}

\* The rollback copy, the journals and the policy of a former claim are in
\* use under a claim only if the process ended between the activated file
\* and the end of on_claim_changed (_rotate_password).
NoInheritedPolicy ==
    mem.claim # None /\ site.policy \notin {None, mem.claim} => trail.interrupted

\* A sample measured for one claim goes out under another at most once per
\* field reset (the one DataProcessor had already taken from the queue) and
\* once per connector thread that outlived its close().
OnlyStragglersCross == trail.strays <= trail.resets + trail.late

\* The Hub gets an answer: a release is acknowledged, and a new claim is
\* activated, whatever crash, failing write or lost receipt came between.
HubIsAnswered == hub.phase \in {"releasing", "assigning"} ~> hub.phase \in {"free", "owned"}
=============================================================================
