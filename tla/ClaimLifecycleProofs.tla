------------------------ MODULE ClaimLifecycleProofs ------------------------
(***************************************************************************)
(* Proofs for ClaimLifecycle: for any number of claims and release         *)
(* requests, queues of any length, and any number of crashes, failing      *)
(* writes and lost receipts.                                               *)
(***************************************************************************)
EXTENDS ClaimLifecycle, FiniteSetTheorems, TLAPS

ReleaseSteps == {"release_reset", "release_buffer", "release_commit", "release_ack"}

NetworkPlaces ==
    [at : {"idle"}]
        \cup [at : ReleaseSteps, request : 1 .. MaxRequest]
        \cup [at : {"claim_changed", "rotate_memory"}, claim : Claim, creds : Claim,
              action : {"activate", "rotate_password"}]

(***************************************************************************)
(* The inductive invariant.  First the shapes, of the whole state and      *)
(* variable by variable, so that a step says which of them it touches.     *)
(***************************************************************************)
Disks == [mode : {"operational", "release_pending"}, claim : Claim, creds : Claim,
          request : 0 .. MaxRequest, connectors : BOOLEAN]
Mems == [claim : Claim, request : 0 .. MaxRequest, creds : Claim,
         releasing : BOOLEAN, retired : BOOLEAN, bootstrap : BOOLEAN]
Sites == [field : Claim, policy : Claim]
Hubs == [claim : Claim, request : 0 .. MaxRequest, account : Claim,
         released : SUBSET Claim, phase : {"free", "owned", "releasing", "assigning"}]
Pipes == [samples : Seq(Claim), hand : Claim, queue : Seq(Event), item : Seq(Event)]
Trails == [strays : Nat, resets : Nat, late : Nat, interrupted : BOOLEAN,
           faults : 0 .. ClaimFaults]

PipeOK == /\ pipe \in Pipes
          /\ Len(pipe.samples) <= MaxQueue /\ Len(pipe.queue) <= MaxQueue

ShapesOK ==
    /\ disk \in Disks /\ mem \in Mems /\ session \in BOOLEAN
    /\ failures \in 0 .. 3 /\ thread \in NetworkPlaces /\ site \in Sites
    /\ PipeOK /\ buffer \subseteq Event /\ hub \in Hubs /\ trail \in Trails

\* The network thread is activating a claim.
Activating == /\ thread.at \in {"claim_changed", "rotate_memory"}
              /\ thread.action = "activate"

\* The Hub's phases, and which handler may be under way in them.
PhaseInv ==
    /\ hub.phase = "assigning" => hub.claim # None
    /\ hub.phase = "releasing" => hub.request # None
    /\ \A c \in hub.released : c <= hub.claim /\ (hub.phase # "free" => c < hub.claim)
    /\ hub.phase # "assigning" => disk.request = mem.request
    /\ hub.phase = "owned" => mem.request = None
    /\ hub.phase = "free" /\ hub.claim \in hub.released => mem.request # None
    /\ thread.at \in ReleaseSteps => hub.phase = "releasing"
    /\ thread.at = "claim_changed" => thread.action = "activate"
    /\ Activating => hub.phase = "assigning" /\ disk.request = None

\* Nothing of the former owner's site.
SiteEmpty == /\ ~disk.connectors /\ site = [field |-> None, policy |-> None]
             /\ pipe.queue = <<>> /\ buffer = {}

\* A committed release: the site is empty and stays so, because nothing is
\* queued, buffered or started while _releasing is set.
ReleaseInv ==
    /\ disk.request # None => disk.request = mem.request /\ disk.mode = "release_pending"
    /\ mem.request # None => mem.releasing /\ SiteEmpty
    /\ thread.at \in ReleaseSteps =>
          mem.releasing /\ disk.mode = "release_pending" /\ ~disk.connectors
    /\ thread.at = "release_buffer" => site = [field |-> None, policy |-> None]
    /\ thread.at \in {"release_commit", "release_ack"} => SiteEmpty
    /\ thread.at = "release_ack" => mem.request = thread.request

\* A claim is activated in memory once the former claim's policy is gone.
PolicyInv ==
    /\ NoInheritedPolicy
    /\ thread.at = "rotate_memory" /\ thread.action = "activate" =>
          thread.claim \in {None, mem.claim} \/ site.policy = None

ClaimInv == ShapesOK /\ PhaseInv /\ ReleaseInv /\ PolicyInv

-----------------------------------------------------------------------------
(***************************************************************************)
(* Shapes.                                                                 *)
(***************************************************************************)

\* They include the type invariant the runs check.
LEMMA ShapesAreTypes == ShapesOK => ClaimTypeOK
<1> SUFFICES ASSUME ShapesOK PROVE ClaimTypeOK
  OBVIOUS
<1>1. /\ pipe.hand \in Claim /\ Len(pipe.samples) <= MaxQueue
      /\ Len(pipe.queue) <= MaxQueue
  BY DEF ShapesOK, PipeOK, Pipes
<1>2. trail.faults \in 0 .. ClaimFaults
  BY DEF ShapesOK, Trails
<1> QED BY <1>1, <1>2 DEF ShapesOK, ClaimTypeOK, Disks, Mems, Sites

\* One more event at the end of a queue, or the first one taken.
LEMMA QueueFacts ==
    ASSUME NEW S, NEW q \in Seq(S)
    PROVE  /\ \A x \in S : /\ Append(q, x) \in Seq(S)
                           /\ Len(Append(q, x)) = Len(q) + 1
           /\ Len(q) \in Nat
           /\ q # <<>> => /\ Head(q) \in S /\ Tail(q) \in Seq(S)
                          /\ Len(Tail(q)) = Len(q) - 1
OBVIOUS

\* The budget of faults shrinks.
LEMMA FaultShape ==
    ASSUME trail \in Trails, Fault
    PROVE  trail' \in Trails /\ trail'.interrupted = trail.interrupted
BY ClaimAssumption DEF Trails, Fault

\* One reset more.
LEMMA ResetShape ==
    ASSUME trail \in Trails, trail' = [trail EXCEPT !.resets = @ + 1]
    PROVE  trail' \in Trails /\ trail'.interrupted = trail.interrupted
BY DEF Trails

\* The attributes after the fall-back to the bootstrap account.
LEMMA SwitchShape ==
    ASSUME NEW m \in Mems, NEW n
    PROVE  /\ SwitchToBootstrap(m, n) \in Mems
           /\ SwitchToBootstrap(m, n).claim = m.claim
           /\ SwitchToBootstrap(m, n).request = m.request
           /\ SwitchToBootstrap(m, n).releasing = m.releasing
<1>1. None \in Claim
  BY ClaimAssumption DEF None, Claim
<1> QED BY <1>1 DEF SwitchToBootstrap, Mems

\* The attributes after the credentials were retired.
LEMMA RetireShape ==
    ASSUME disk \in Disks, mem \in Mems, RetireCredentials
    PROVE  /\ disk' \in Disks /\ mem' \in Mems
           /\ disk'.claim = None /\ mem'.claim = None
           /\ disk'.request = disk.request /\ disk'.mode = disk.mode
           /\ disk'.connectors = disk.connectors
           /\ mem'.request = mem.request /\ mem'.releasing = mem.releasing
<1> DEFINE m == [mem EXCEPT !.creds = None, !.claim = None, !.retired = TRUE]
<1>1. None \in Claim
  BY ClaimAssumption DEF None, Claim
<1>2. /\ m \in Mems /\ m.claim = None /\ m.request = mem.request
      /\ m.releasing = mem.releasing
  BY <1>1 DEF Mems
<1>3. mem' = SwitchToBootstrap(m, 3)
  BY DEF RetireCredentials
<1> HIDE DEF m
<1>4. /\ mem' \in Mems /\ mem'.claim = None /\ mem'.request = mem.request
      /\ mem'.releasing = mem.releasing
  BY <1>2, <1>3, SwitchShape
<1>5. /\ disk' \in Disks /\ disk'.claim = None /\ disk'.request = disk.request
      /\ disk'.mode = disk.mode /\ disk'.connectors = disk.connectors
  BY <1>1 DEF RetireCredentials, Disks
<1> QED BY <1>4, <1>5

\* What __init__ reads back has the shape of the attributes.
LEMMA FromDiskShape ==
    ASSUME NEW d \in Disks
    PROVE  /\ FromDisk(d) \in Mems /\ FromDisk(d).claim = d.claim
           /\ FromDisk(d).request = d.request
           /\ FromDisk(d).releasing = (d.mode = "release_pending")
BY DEF Disks, Mems, FromDisk, Retired

\* The connectors and the samples go.
LEMMA ResetFieldShape ==
    ASSUME site \in Sites, PipeOK, NEW ok \in BOOLEAN, ResetField(ok)
    PROVE  /\ site' \in Sites /\ PipeOK' /\ site'.field = None
           /\ site'.policy = (IF ok THEN None ELSE site.policy)
           /\ pipe'.queue = pipe.queue
<1>1. None \in Claim
  BY ClaimAssumption DEF None, Claim
<1>2. /\ site' \in Sites /\ site'.field = None
      /\ site'.policy = (IF ok THEN None ELSE site.policy)
  BY <1>1 DEF ResetField, Sites
<1>3. <<>> \in Seq(Claim) /\ Len(<<>>) <= MaxQueue
  BY ClaimAssumption
<1>4. /\ pipe' \in Pipes /\ pipe'.samples = <<>> /\ pipe'.queue = pipe.queue
  BY <1>3 DEF ResetField, PipeOK, Pipes
<1> QED BY <1>2, <1>3, <1>4 DEF PipeOK

\* The network thread moves on in its handler.
LEMMA GotoShape ==
    ASSUME thread \in NetworkPlaces, NEW b \in ReleaseSteps,
           thread.at \in ReleaseSteps, Goto(b)
    PROVE  thread' \in NetworkPlaces /\ thread'.at = b /\ thread'.request = thread.request
           /\ thread.request \in 1 .. MaxRequest
BY DEF NetworkPlaces, Goto, ReleaseSteps

-----------------------------------------------------------------------------
(***************************************************************************)
(* The threads that move samples.                                          *)
(***************************************************************************)

\* They touch only the samples, the buffer and the observer, and add to neither
\* queue nor buffer while a release is under way or the field is empty.
SampleStep == Sample \/ LateSample \/ TakeSample \/ ProcessSample \/ LoopTake
              \/ LoopSend \/ Replay

\* The threads that move samples keep the shapes of what they move ...
LEMMA SamplesShape ==
    ASSUME ShapesOK, SampleStep
    PROVE  PipeOK' /\ buffer' \subseteq Event /\ trail' \in Trails
<1>0. /\ mem \in Mems /\ site \in Sites /\ PipeOK /\ buffer \subseteq Event
      /\ trail \in Trails
  BY DEF ShapesOK
<1>1. /\ pipe.samples \in Seq(Claim) /\ pipe.queue \in Seq(Event)
      /\ pipe.item \in Seq(Event) /\ pipe.hand \in Claim
      /\ Len(pipe.samples) <= MaxQueue /\ Len(pipe.queue) <= MaxQueue
      /\ Len(pipe.samples) \in Nat /\ Len(pipe.queue) \in Nat
      /\ mem.claim \in Claim /\ site.field \in Claim /\ None \in Claim
      /\ MaxQueue \in Nat
  BY <1>0, ClaimAssumption DEF PipeOK, Pipes, Mems, Sites, None, Claim
<1>2. \A e : e \in Event => /\ BufferEvent(e) => buffer' \subseteq Event
                            /\ Sent(e) => trail' \in Trails
  <2> SUFFICES ASSUME NEW e \in Event
               PROVE  /\ BufferEvent(e) => buffer' \subseteq Event
                      /\ Sent(e) => trail' \in Trails
    OBVIOUS
  <2>1. BufferEvent(e) => buffer' \subseteq Event
    BY <1>0 DEF BufferEvent
  <2>2. Sent(e) => trail' \in Trails
    BY <1>0 DEF Sent, Trails
  <2> QED BY <2>1, <2>2
<1>3. CASE Sample
  <2>1. /\ pipe' = [pipe EXCEPT !.samples = Append(@, site.field)]
        /\ Len(pipe.samples) < MaxQueue /\ UNCHANGED <<buffer, trail>>
    BY <1>3 DEF Sample
  <2>2. /\ Append(pipe.samples, site.field) \in Seq(Claim)
        /\ Len(Append(pipe.samples, site.field)) = Len(pipe.samples) + 1
    BY <1>1, QueueFacts
  <2>3. /\ pipe' \in Pipes /\ pipe'.samples = Append(pipe.samples, site.field)
        /\ pipe'.queue = pipe.queue
    BY <1>0, <2>1, <2>2 DEF PipeOK, Pipes
  <2> QED BY <1>0, <1>1, <2>1, <2>2, <2>3 DEF PipeOK
<1>4. CASE LateSample
  <2>1. /\ pipe' = [pipe EXCEPT !.samples = Append(@, mem.claim)]
        /\ Len(pipe.samples) < MaxQueue /\ UNCHANGED buffer
    BY <1>4 DEF LateSample
  <2>2. /\ Append(pipe.samples, mem.claim) \in Seq(Claim)
        /\ Len(Append(pipe.samples, mem.claim)) = Len(pipe.samples) + 1
    BY <1>1, QueueFacts
  <2>3. /\ pipe' \in Pipes /\ pipe'.samples = Append(pipe.samples, mem.claim)
        /\ pipe'.queue = pipe.queue
    BY <1>0, <2>1, <2>2 DEF PipeOK, Pipes
  <2>4. trail' \in Trails
    <3>1. /\ trail.faults \in 0 .. ClaimFaults /\ trail.late \in Nat /\ trail.faults > 0
          /\ trail' = [trail EXCEPT !.faults = @ - 1, !.late = @ + 1]
      BY <1>0, <1>4 DEF LateSample, Trails
    <3>2. trail.faults - 1 \in 0 .. ClaimFaults /\ trail.late + 1 \in Nat
      BY <3>1, ClaimAssumption
    <3> QED BY <1>0, <3>1, <3>2 DEF Trails
  <2> QED BY <1>0, <1>1, <2>1, <2>2, <2>3, <2>4 DEF PipeOK
<1>5. CASE TakeSample
  <2>1. /\ pipe' = [pipe EXCEPT !.hand = Head(pipe.samples), !.samples = Tail(@)]
        /\ pipe.samples # <<>> /\ UNCHANGED <<buffer, trail>>
    BY <1>5 DEF TakeSample
  <2>2. /\ Head(pipe.samples) \in Claim /\ Tail(pipe.samples) \in Seq(Claim)
        /\ Len(Tail(pipe.samples)) = Len(pipe.samples) - 1
    BY <1>1, <2>1, QueueFacts
  <2>3. /\ pipe' \in Pipes /\ pipe'.samples = Tail(pipe.samples)
        /\ pipe'.queue = pipe.queue
    BY <1>0, <2>1, <2>2 DEF PipeOK, Pipes
  <2> QED BY <1>0, <1>1, <2>1, <2>2, <2>3 DEF PipeOK
<1>6. CASE ProcessSample
  <2> DEFINE e == [src |-> pipe.hand, tag |-> mem.claim]
  <2>1. e \in Event
    BY <1>1 DEF Event
  <2>2. trail' = trail
    BY <1>6 DEF ProcessSample
  <2>3. CASE pipe' = [pipe EXCEPT !.hand = None]
    <3>1. buffer' \subseteq Event
      BY <1>0, <1>2, <1>6, <2>1 DEF ProcessSample
    <3>2. pipe' \in Pipes /\ pipe'.samples = pipe.samples /\ pipe'.queue = pipe.queue
      BY <1>0, <1>1, <2>3 DEF PipeOK, Pipes
    <3> QED BY <1>0, <1>1, <2>2, <3>1, <3>2 DEF PipeOK
  <2>4. CASE /\ pipe' = [pipe EXCEPT !.hand = None, !.queue = Append(@, e)]
             /\ Len(pipe.queue) < MaxQueue /\ UNCHANGED buffer
    <3>1. /\ Append(pipe.queue, e) \in Seq(Event)
          /\ Len(Append(pipe.queue, e)) = Len(pipe.queue) + 1
      BY <1>1, <2>1, QueueFacts
    <3> HIDE DEF e
    <3>2. /\ pipe' \in Pipes /\ pipe'.samples = pipe.samples
          /\ pipe'.queue = Append(pipe.queue, e)
      BY <1>0, <1>1, <2>4, <3>1 DEF PipeOK, Pipes
    <3> QED BY <1>0, <1>1, <2>2, <2>4, <3>1, <3>2 DEF PipeOK
  <2> QED BY <1>6, <2>3, <2>4 DEF ProcessSample
<1>7. CASE LoopTake
  <2> DEFINE e == Head(pipe.queue)
             i == IF e.tag = mem.claim /\ ~mem.releasing THEN <<e>> ELSE <<>>
  <2>1. /\ pipe' = [pipe EXCEPT !.queue = Tail(@), !.item = i]
        /\ pipe.queue # <<>> /\ UNCHANGED <<buffer, trail>>
    BY <1>7 DEF LoopTake
  <2>2. /\ e \in Event /\ Tail(pipe.queue) \in Seq(Event)
        /\ Len(Tail(pipe.queue)) = Len(pipe.queue) - 1
    BY <1>1, <2>1, QueueFacts
  <2> HIDE DEF e
  <2>3. i \in Seq(Event)
    BY <2>2
  <2> HIDE DEF i
  <2>4. /\ pipe' \in Pipes /\ pipe'.samples = pipe.samples
        /\ pipe'.queue = Tail(pipe.queue)
    BY <1>0, <2>1, <2>2, <2>3 DEF PipeOK, Pipes
  <2> QED BY <1>0, <1>1, <2>1, <2>2, <2>4 DEF PipeOK
<1>8. CASE LoopSend
  <2>1. pipe.item[1] \in Event
    BY <1>1, <1>8 DEF LoopSend
  <2>2. buffer' \subseteq Event /\ trail' \in Trails
    BY <1>0, <1>2, <1>8, <2>1 DEF LoopSend
  <2>3. pipe' = [pipe EXCEPT !.item = <<>>] /\ <<>> \in Seq(Event)
    BY <1>8 DEF LoopSend
  <2>4. pipe' \in Pipes /\ pipe'.samples = pipe.samples /\ pipe'.queue = pipe.queue
    BY <1>0, <2>3 DEF PipeOK, Pipes
  <2> QED BY <1>1, <2>2, <2>4 DEF PipeOK
<1>9. CASE Replay
  <2>1. /\ pipe' = pipe
        /\ \E e \in buffer : /\ buffer' = buffer \ {e}
                             /\ Sent(e) \/ trail' = trail
    BY <1>9 DEF Replay
  <2>2. PICK e \in buffer : buffer' = buffer \ {e} /\ (Sent(e) \/ trail' = trail)
    BY <2>1
  <2> QED BY <1>0, <1>2, <2>1, <2>2 DEF PipeOK
<1> QED BY <1>3, <1>4, <1>5, <1>6, <1>7, <1>8, <1>9 DEF SampleStep

\* ... and leave credentials, field and Hub alone.
LEMMA SamplesFrame ==
    ASSUME ShapesOK, SampleStep
    PROVE  /\ UNCHANGED <<disk, mem, session, failures, thread, site, hub>>
           /\ trail'.interrupted = trail.interrupted
<1>1. UNCHANGED <<disk, mem, session, failures, thread, site, hub>>
  BY DEF SampleStep, Sample, LateSample, TakeSample, ProcessSample, LoopTake, LoopSend,
      Replay
<1>2. trail \in Trails
  BY DEF ShapesOK
<1>3. \/ trail' = trail
      \/ trail' = [trail EXCEPT !.faults = @ - 1, !.late = @ + 1]
      \/ \E e : Sent(e)
  BY DEF SampleStep, Sample, LateSample, TakeSample, ProcessSample, LoopTake, LoopSend,
      Replay
<1>4. trail'.interrupted = trail.interrupted
  BY <1>2, <1>3 DEF Trails, Sent
<1> QED BY <1>1, <1>4

\* An empty site stays empty while the release lasts.
LEMMA SamplesDropped ==
    ASSUME ShapesOK, SampleStep, mem.releasing, SiteEmpty
    PROVE  SiteEmpty'
<1>0. pipe \in Pipes
  BY DEF ShapesOK, PipeOK
<1>1. UNCHANGED <<disk, site>>
  BY SamplesFrame
<1>2. pipe'.queue = pipe.queue
  <2>1. site.field = None /\ pipe.queue = <<>>
    BY DEF SiteEmpty
  <2>2. ~Sample /\ ~LoopTake /\ ~Replay
    BY <2>1 DEF Sample, LoopTake, Replay
  <2>3. CASE LateSample
    BY <1>0, <2>3 DEF LateSample, Pipes
  <2>4. CASE TakeSample
    BY <1>0, <2>4 DEF TakeSample, Pipes
  <2>5. CASE ProcessSample
    <3>1. pipe' = [pipe EXCEPT !.hand = None]
      BY <2>1, <2>5 DEF ProcessSample
    <3> QED BY <1>0, <3>1 DEF Pipes
  <2>6. CASE LoopSend
    BY <1>0, <2>6 DEF LoopSend, Pipes
  <2> QED BY <2>2, <2>3, <2>4, <2>5, <2>6 DEF SampleStep
<1>3. buffer' = buffer
  BY DEF SampleStep, Sample, LateSample, TakeSample, ProcessSample, LoopTake, LoopSend,
      Replay, BufferEvent, SiteEmpty
<1> QED BY <1>1, <1>2, <1>3 DEF SiteEmpty

\* The threads that move samples keep the invariant.
LEMMA SamplesKeep ==
    ASSUME ClaimInv, SampleStep
    PROVE  ClaimInv'
<1>0. ShapesOK /\ PhaseInv /\ ReleaseInv /\ PolicyInv
  BY DEF ClaimInv
<1>1. /\ UNCHANGED <<disk, mem, session, failures, thread, site, hub>>
      /\ trail'.interrupted = trail.interrupted
  BY <1>0, SamplesFrame
<1>2. ShapesOK'
  <2>1. PipeOK' /\ buffer' \subseteq Event /\ trail' \in Trails
    BY <1>0, SamplesShape
  <2> QED BY <1>0, <1>1, <2>1 DEF ShapesOK
<1>3. PhaseInv'
  BY <1>0, <1>1 DEF PhaseInv, Activating
<1>4. ReleaseInv'
  <2>1. \/ mem.request # None
        \/ thread.at \in {"release_commit", "release_ack"}
        => SiteEmpty'
    BY <1>0, SamplesDropped DEF ReleaseInv, ReleaseSteps
  <2> QED BY <1>0, <1>1, <2>1 DEF ReleaseInv
<1>5. PolicyInv'
  BY <1>0, <1>1 DEF PolicyInv, NoInheritedPolicy
<1> QED BY <1>2, <1>3, <1>4, <1>5 DEF ClaimInv

-----------------------------------------------------------------------------
(***************************************************************************)
(* The connection.                                                         *)
(***************************************************************************)

\* What the connection's callbacks may change: credentials, the bootstrap
\* flag, and a claim that is forgotten.
LEMMA ConnectionFrame ==
    ASSUME ClaimInv, thread.at = "idle",
           UNCHANGED <<thread, site, pipe, buffer, hub>>,
           disk' \in Disks, mem' \in Mems, session' \in BOOLEAN, failures' \in 0 .. 3,
           trail' \in Trails, trail'.interrupted = trail.interrupted,
           disk'.request = disk.request, disk'.mode = disk.mode,
           disk'.connectors = disk.connectors,
           mem'.request = mem.request, mem'.releasing = mem.releasing,
           mem'.claim \in {None, mem.claim}
    PROVE  ClaimInv'
<1>0. ShapesOK /\ PhaseInv /\ ReleaseInv /\ PolicyInv
  BY DEF ClaimInv
<1>1. ShapesOK'
  <2>1. PipeOK'
    BY <1>0 DEF ShapesOK, PipeOK
  <2> QED BY <1>0, <2>1 DEF ShapesOK
<1>2. PhaseInv'
  BY <1>0 DEF PhaseInv, Activating, ReleaseSteps
<1>3. ReleaseInv'
  BY <1>0 DEF ReleaseInv, SiteEmpty, ReleaseSteps
<1>4. PolicyInv'
  BY <1>0 DEF PolicyInv, NoInheritedPolicy
<1> QED BY <1>1, <1>2, <1>3, <1>4 DEF ClaimInv

\* A connection that succeeds ends the series of refusals.
LEMMA OnConnectKeeps ==
    ASSUME ClaimInv, OnConnect
    PROVE  ClaimInv'
<1>1. /\ disk \in Disks /\ mem \in Mems /\ trail \in Trails
  BY DEF ClaimInv, ShapesOK
<1>2. /\ thread.at = "idle" /\ UNCHANGED <<thread, site, pipe, buffer, hub, disk, mem, trail>>
      /\ session' \in BOOLEAN /\ failures' \in 0 .. 3
  BY DEF OnConnect
<1> QED BY <1>1, <1>2, ConnectionFrame

\* One more failure.
LEMMA FailureShape ==
    ASSUME failures \in 0 .. 3, failures' = IF failures < 3 THEN failures + 1 ELSE 3
    PROVE  failures' \in 0 .. 3
OBVIOUS

\* A connection that is lost leaves credentials and field as they are.
LEMMA OnDisconnectKeeps ==
    ASSUME ClaimInv, OnDisconnect
    PROVE  ClaimInv'
<1>1. /\ disk \in Disks /\ mem \in Mems /\ trail \in Trails /\ failures \in 0 .. 3
  BY DEF ClaimInv, ShapesOK
<1>2. /\ thread.at = "idle" /\ UNCHANGED <<thread, site, pipe, buffer, hub, disk>>
      /\ session' \in BOOLEAN /\ (Fault \/ trail' = trail)
      /\ failures' = (IF failures < 3 THEN failures + 1 ELSE 3)
      /\ mem' = SwitchToBootstrap(mem, failures')
  BY DEF OnDisconnect
<1>3. trail' \in Trails /\ trail'.interrupted = trail.interrupted
  BY <1>1, <1>2, FaultShape
<1>4. /\ mem' \in Mems /\ mem'.request = mem.request /\ mem'.releasing = mem.releasing
      /\ mem'.claim = mem.claim
  BY <1>1, <1>2, SwitchShape
<1>5. failures' \in 0 .. 3
  BY <1>1, <1>2, FailureShape
<1> QED BY <1>1, <1>2, <1>3, <1>4, <1>5, ConnectionFrame

\* A refused account may send the publisher back to the bootstrap account.
LEMMA OnRefusedKeeps ==
    ASSUME ClaimInv, OnRefused
    PROVE  ClaimInv'
<1>1. /\ disk \in Disks /\ mem \in Mems /\ trail \in Trails /\ failures \in 0 .. 3
      /\ session \in BOOLEAN
  BY DEF ClaimInv, ShapesOK
<1>2. thread.at = "idle" /\ UNCHANGED <<thread, site, pipe, buffer, hub, session>>
  BY DEF OnRefused
<1>3. CASE RetireCredentials /\ failures' = 3 /\ UNCHANGED trail
  <2>1. failures' \in 0 .. 3
    BY <1>3
  <2>2. /\ disk' \in Disks /\ mem' \in Mems /\ mem'.claim = None
        /\ disk'.request = disk.request /\ disk'.mode = disk.mode
        /\ disk'.connectors = disk.connectors
        /\ mem'.request = mem.request /\ mem'.releasing = mem.releasing
    BY <1>1, <1>3, RetireShape
  <2> QED BY <1>1, <1>2, <1>3, <2>1, <2>2, ConnectionFrame
<1>4. CASE /\ IF MayRetire THEN Fault ELSE UNCHANGED trail
           /\ failures' = IF failures < 3 THEN failures + 1 ELSE 3
           /\ mem' = SwitchToBootstrap(mem, failures')
           /\ UNCHANGED disk
  <2>1. trail' \in Trails /\ trail'.interrupted = trail.interrupted
    BY <1>1, <1>4, FaultShape
  <2>2. /\ mem' \in Mems /\ mem'.request = mem.request /\ mem'.releasing = mem.releasing
        /\ mem'.claim = mem.claim
    BY <1>1, <1>4, SwitchShape
  <2>3. failures' \in 0 .. 3
    BY <1>1, <1>4, FailureShape
  <2> QED BY <1>1, <1>2, <1>4, <2>1, <2>2, <2>3, ConnectionFrame
<1> QED BY <1>3, <1>4 DEF OnRefused

-----------------------------------------------------------------------------
(***************************************************************************)
(* A release.                                                              *)
(***************************************************************************)

\* _handle_release, up to the reset of the field.
LEMMA HandleReleaseKeeps ==
    ASSUME ClaimInv, HandleRelease
    PROVE  ClaimInv'
<1>0. ShapesOK /\ PhaseInv /\ ReleaseInv /\ PolicyInv
  BY DEF ClaimInv
<1>1. /\ disk \in Disks /\ mem \in Mems /\ trail \in Trails /\ hub \in Hubs
      /\ session \in BOOLEAN /\ failures \in 0 .. 3 /\ thread \in NetworkPlaces
      /\ site \in Sites /\ PipeOK /\ buffer \subseteq Event
  BY <1>0 DEF ShapesOK
<1>2. /\ thread.at = "idle" /\ hub.phase = "releasing"
      /\ UNCHANGED <<session, failures, site, pipe, buffer, hub>>
  BY DEF HandleRelease
<1>3. PipeOK'
  BY <1>1, <1>2 DEF PipeOK
<1>4. hub.request # None /\ hub.request \in 1 .. MaxRequest
  <2>1. hub.request \in 0 .. MaxRequest /\ hub.request # None
    BY <1>0, <1>1, <1>2 DEF PhaseInv, Hubs
  <2> QED BY <2>1, ClaimAssumption DEF None
<1>5. CASE /\ mem.request = hub.request
           /\ thread' = [at |-> "release_ack", request |-> hub.request]
           /\ UNCHANGED <<disk, mem, trail>>
  <2>1. /\ mem.releasing /\ SiteEmpty /\ disk.request = mem.request
        /\ disk.mode = "release_pending"
    BY <1>0, <1>2, <1>4, <1>5 DEF PhaseInv, ReleaseInv
  <2>2. SiteEmpty'
    BY <1>2, <1>5, <2>1 DEF SiteEmpty
  <2>3. thread' \in NetworkPlaces
    BY <1>4, <1>5 DEF NetworkPlaces, ReleaseSteps
  <2>4. ShapesOK'
    BY <1>1, <1>2, <1>3, <1>5, <2>3 DEF ShapesOK
  <2>5. PhaseInv'
    BY <1>0, <1>2, <1>5 DEF PhaseInv, Activating, ReleaseSteps
  <2>6. ~disk.connectors
    BY <2>1 DEF SiteEmpty
  <2>7. ReleaseInv'
    BY <1>0, <1>2, <1>5, <2>1, <2>2, <2>6 DEF ReleaseInv, ReleaseSteps
  <2>8. PolicyInv'
    BY <1>0, <1>2, <1>5 DEF PolicyInv, NoInheritedPolicy
  <2> QED BY <2>4, <2>5, <2>7, <2>8 DEF ClaimInv
<1>6. CASE /\ disk' = [disk EXCEPT !.connectors = FALSE, !.mode = "release_pending"]
           /\ mem' = [mem EXCEPT !.releasing = TRUE]
           /\ thread' = [at |-> "release_reset", request |-> hub.request]
           /\ UNCHANGED trail
  <2>1. /\ disk' \in Disks /\ disk'.mode = "release_pending" /\ ~disk'.connectors
        /\ disk'.request = disk.request
    BY <1>1, <1>6 DEF Disks
  <2>2. /\ mem' \in Mems /\ mem'.releasing /\ mem'.request = mem.request
        /\ mem'.claim = mem.claim
    BY <1>1, <1>6 DEF Mems
  <2>3. thread' \in NetworkPlaces /\ thread'.at = "release_reset"
    BY <1>4, <1>6 DEF NetworkPlaces, ReleaseSteps
  <2>4. ShapesOK'
    BY <1>1, <1>2, <1>3, <1>6, <2>1, <2>2, <2>3 DEF ShapesOK
  <2>5. PhaseInv'
    BY <1>0, <1>2, <2>1, <2>2, <2>3 DEF PhaseInv, Activating, ReleaseSteps
  <2>6. SiteEmpty => SiteEmpty'
    BY <1>2, <2>1 DEF SiteEmpty
  <2>7. ReleaseInv'
    BY <1>0, <1>2, <2>1, <2>2, <2>3, <2>6 DEF ReleaseInv, ReleaseSteps
  <2>8. PolicyInv'
    BY <1>0, <1>2, <1>6, <2>2, <2>3 DEF PolicyInv, NoInheritedPolicy
  <2> QED BY <2>4, <2>5, <2>7, <2>8 DEF ClaimInv
<1>7. CASE Fault /\ UNCHANGED <<disk, mem, thread>>
  <2>1. trail' \in Trails /\ trail'.interrupted = trail.interrupted
    BY <1>1, <1>7, FaultShape
  <2> QED BY <1>1, <1>2, <1>7, <2>1, ConnectionFrame
<1> QED BY <1>5, <1>6, <1>7 DEF HandleRelease

\* The reset of the field within a release, whole or broken off.
LEMMA ReleaseResetKeeps ==
    ASSUME ClaimInv, ReleaseReset
    PROVE  ClaimInv'
<1>0. ShapesOK /\ PhaseInv /\ ReleaseInv /\ PolicyInv
  BY DEF ClaimInv
<1>1. /\ disk \in Disks /\ mem \in Mems /\ trail \in Trails /\ hub \in Hubs
      /\ session \in BOOLEAN /\ failures \in 0 .. 3 /\ thread \in NetworkPlaces
      /\ site \in Sites /\ PipeOK /\ buffer \subseteq Event
  BY <1>0 DEF ShapesOK
<1>2. /\ thread.at = "release_reset" /\ thread.at \in ReleaseSteps
      /\ UNCHANGED <<disk, mem, session, failures, buffer, hub>>
  BY DEF ReleaseReset, ReleaseSteps
<1>3. /\ mem.releasing /\ disk.mode = "release_pending" /\ ~disk.connectors
      /\ hub.phase = "releasing"
  BY <1>0, <1>2 DEF ReleaseInv, PhaseInv
<1>4. CASE /\ ResetField(TRUE) /\ Goto("release_buffer")
           /\ trail' = [trail EXCEPT !.resets = @ + 1]
  <2>1. /\ site' \in Sites /\ PipeOK' /\ site'.field = None /\ site'.policy = None
        /\ pipe'.queue = pipe.queue
    BY <1>1, <1>4, ResetFieldShape
  <2>2. site' = [field |-> None, policy |-> None]
    BY <1>4 DEF ResetField
  <2>3. thread' \in NetworkPlaces /\ thread'.at = "release_buffer"
    BY <1>1, <1>2, <1>4, GotoShape DEF ReleaseSteps
  <2>4. trail' \in Trails /\ trail'.interrupted = trail.interrupted
    BY <1>1, <1>4, ResetShape
  <2>5. ShapesOK'
    BY <1>1, <1>2, <2>1, <2>3, <2>4 DEF ShapesOK
  <2>6. PhaseInv'
    BY <1>0, <1>2, <1>3, <2>3 DEF PhaseInv, Activating
  <2>7. SiteEmpty => SiteEmpty'
    BY <1>2, <2>1, <2>2 DEF SiteEmpty
  <2>8. ReleaseInv'
    BY <1>0, <1>2, <1>3, <2>2, <2>3, <2>7 DEF ReleaseInv
  <2>9. PolicyInv'
    BY <2>1, <2>3 DEF PolicyInv, NoInheritedPolicy
  <2> QED BY <2>5, <2>6, <2>8, <2>9 DEF ClaimInv
<1>5. CASE ResetField(FALSE) /\ Fault /\ Idle
  <2>1. /\ site' \in Sites /\ PipeOK' /\ site'.field = None /\ site'.policy = site.policy
        /\ pipe'.queue = pipe.queue
    BY <1>1, <1>5, ResetFieldShape
  <2>2. thread' \in NetworkPlaces /\ thread'.at = "idle"
    BY <1>5 DEF Idle, NetworkPlaces
  <2>3. trail' \in Trails /\ trail'.interrupted = trail.interrupted
    BY <1>1, <1>5, FaultShape
  <2>4. ShapesOK'
    BY <1>1, <1>2, <2>1, <2>2, <2>3 DEF ShapesOK
  <2>5. PhaseInv'
    BY <1>0, <1>2, <1>3, <2>2 DEF PhaseInv, Activating
  <2>6. SiteEmpty => SiteEmpty'
    BY <1>2, <1>5, <2>1 DEF SiteEmpty, ResetField
  <2>7. ReleaseInv'
    BY <1>0, <1>2, <1>3, <2>2, <2>6 DEF ReleaseInv, ReleaseSteps
  <2>8. PolicyInv'
    BY <1>0, <1>2, <2>1, <2>2, <2>3 DEF PolicyInv, NoInheritedPolicy
  <2> QED BY <2>4, <2>5, <2>7, <2>8 DEF ClaimInv
<1> QED BY <1>4, <1>5 DEF ReleaseReset

\* clear_claim_buffer empties queue and buffer, or raises.
LEMMA ClearClaimBufferKeeps ==
    ASSUME ClaimInv, ClearClaimBuffer
    PROVE  ClaimInv'
<1>0. ShapesOK /\ PhaseInv /\ ReleaseInv /\ PolicyInv
  BY DEF ClaimInv
<1>1. /\ disk \in Disks /\ mem \in Mems /\ trail \in Trails /\ hub \in Hubs
      /\ session \in BOOLEAN /\ failures \in 0 .. 3 /\ thread \in NetworkPlaces
      /\ site \in Sites /\ PipeOK /\ buffer \subseteq Event
  BY <1>0 DEF ShapesOK
<1>2. /\ thread.at = "release_buffer" /\ thread.at \in ReleaseSteps
      /\ UNCHANGED <<disk, session, failures, site, hub>>
      /\ mem' = [mem EXCEPT !.releasing = TRUE]
      /\ pipe' = [pipe EXCEPT !.queue = <<>>]
  BY DEF ClearClaimBuffer, ReleaseSteps
<1>3. /\ mem.releasing /\ disk.mode = "release_pending" /\ ~disk.connectors
      /\ hub.phase = "releasing" /\ site = [field |-> None, policy |-> None]
  BY <1>0, <1>2 DEF ReleaseInv, PhaseInv
<1>4. /\ mem' \in Mems /\ mem'.releasing /\ mem'.request = mem.request
      /\ mem'.claim = mem.claim
  BY <1>1, <1>2 DEF Mems
<1>5. PipeOK' /\ pipe'.queue = <<>>
  <2>1. <<>> \in Seq(Event) /\ Len(<<>>) <= MaxQueue
    BY ClaimAssumption
  <2>2. /\ pipe' \in Pipes /\ pipe'.queue = <<>> /\ pipe'.samples = pipe.samples
    BY <1>1, <1>2, <2>1 DEF PipeOK, Pipes
  <2> QED BY <1>1, <2>1, <2>2 DEF PipeOK
<1>6. CASE buffer' = {} /\ Goto("release_commit") /\ UNCHANGED trail
  <2>1. thread' \in NetworkPlaces /\ thread'.at = "release_commit"
    BY <1>1, <1>2, <1>6, GotoShape DEF ReleaseSteps
  <2>2. ShapesOK'
    BY <1>1, <1>2, <1>4, <1>5, <1>6, <2>1 DEF ShapesOK
  <2>3. PhaseInv'
    BY <1>0, <1>2, <1>3, <1>4, <2>1 DEF PhaseInv, Activating
  <2>4. SiteEmpty'
    BY <1>2, <1>3, <1>5, <1>6 DEF SiteEmpty
  <2>5. ReleaseInv'
    BY <1>0, <1>2, <1>3, <1>4, <2>1, <2>4 DEF ReleaseInv
  <2>6. PolicyInv'
    BY <1>0, <1>2, <1>4, <1>6, <2>1 DEF PolicyInv, NoInheritedPolicy
  <2> QED BY <2>2, <2>3, <2>5, <2>6 DEF ClaimInv
<1>7. CASE Fault /\ Idle /\ UNCHANGED buffer
  <2>1. thread' \in NetworkPlaces /\ thread'.at = "idle"
    BY <1>7 DEF Idle, NetworkPlaces
  <2>2. trail' \in Trails /\ trail'.interrupted = trail.interrupted
    BY <1>1, <1>7, FaultShape
  <2>3. ShapesOK'
    BY <1>1, <1>2, <1>4, <1>5, <1>7, <2>1, <2>2 DEF ShapesOK
  <2>4. PhaseInv'
    BY <1>0, <1>2, <1>3, <1>4, <2>1 DEF PhaseInv, Activating
  <2>5. SiteEmpty => SiteEmpty'
    BY <1>2, <1>3, <1>5, <1>7 DEF SiteEmpty
  <2>6. ReleaseInv'
    BY <1>0, <1>2, <1>3, <1>4, <2>1, <2>5 DEF ReleaseInv, ReleaseSteps
  <2>7. PolicyInv'
    BY <1>0, <1>2, <1>4, <2>1, <2>2 DEF PolicyInv, NoInheritedPolicy
  <2> QED BY <2>3, <2>4, <2>6, <2>7 DEF ClaimInv
<1> QED BY <1>6, <1>7 DEF ClearClaimBuffer

\* The release is committed once nothing of the site is left.
LEMMA ReleaseCommitKeeps ==
    ASSUME ClaimInv, ReleaseCommit
    PROVE  ClaimInv'
<1>0. ShapesOK /\ PhaseInv /\ ReleaseInv /\ PolicyInv
  BY DEF ClaimInv
<1>1. /\ disk \in Disks /\ mem \in Mems /\ trail \in Trails /\ hub \in Hubs
      /\ session \in BOOLEAN /\ failures \in 0 .. 3 /\ thread \in NetworkPlaces
      /\ site \in Sites /\ PipeOK /\ buffer \subseteq Event
  BY <1>0 DEF ShapesOK
<1>2. /\ thread.at = "release_commit" /\ thread.at \in ReleaseSteps
      /\ UNCHANGED <<session, failures, site, pipe, buffer, hub>>
  BY DEF ReleaseCommit, ReleaseSteps
<1>3. /\ mem.releasing /\ disk.mode = "release_pending" /\ ~disk.connectors
      /\ hub.phase = "releasing" /\ SiteEmpty
  BY <1>0, <1>2 DEF ReleaseInv, PhaseInv
<1>4. PipeOK'
  BY <1>1, <1>2 DEF PipeOK
<1>5. CASE /\ disk' = [disk EXCEPT !.request = thread.request]
           /\ mem' = [mem EXCEPT !.request = thread.request]
           /\ Goto("release_ack") /\ UNCHANGED trail
  <2>1. /\ thread' \in NetworkPlaces /\ thread'.at = "release_ack"
        /\ thread'.request = thread.request /\ thread.request \in 1 .. MaxRequest
    BY <1>1, <1>2, <1>5, GotoShape DEF ReleaseSteps
  <2>2. thread.request \in 0 .. MaxRequest /\ thread.request # None
    BY <2>1, ClaimAssumption DEF None
  <2>3. /\ disk' \in Disks /\ disk'.request = thread.request
        /\ disk'.mode = disk.mode /\ disk'.connectors = disk.connectors
    BY <1>1, <1>5, <2>2 DEF Disks
  <2>4. /\ mem' \in Mems /\ mem'.request = thread.request
        /\ mem'.releasing = mem.releasing /\ mem'.claim = mem.claim
    BY <1>1, <1>5, <2>2 DEF Mems
  <2>5. ShapesOK'
    BY <1>1, <1>2, <1>4, <1>5, <2>1, <2>3, <2>4 DEF ShapesOK
  <2>6. PhaseInv'
    BY <1>0, <1>2, <1>3, <2>1, <2>3, <2>4 DEF PhaseInv, Activating
  <2>7. SiteEmpty'
    BY <1>2, <1>3, <2>3 DEF SiteEmpty
  <2>8. ReleaseInv'
    BY <1>3, <2>1, <2>3, <2>4, <2>7 DEF ReleaseInv
  <2>9. PolicyInv'
    BY <1>0, <1>2, <1>5, <2>1, <2>4 DEF PolicyInv, NoInheritedPolicy
  <2> QED BY <2>5, <2>6, <2>8, <2>9 DEF ClaimInv
<1>6. CASE Fault /\ Idle /\ UNCHANGED <<disk, mem>>
  <2>1. thread' \in NetworkPlaces /\ thread'.at = "idle"
    BY <1>6 DEF Idle, NetworkPlaces
  <2>2. trail' \in Trails /\ trail'.interrupted = trail.interrupted
    BY <1>1, <1>6, FaultShape
  <2>3. ShapesOK'
    BY <1>1, <1>2, <1>4, <1>6, <2>1, <2>2 DEF ShapesOK
  <2>4. PhaseInv'
    BY <1>0, <1>2, <1>3, <1>6, <2>1 DEF PhaseInv, Activating, ReleaseSteps
  <2>5. SiteEmpty'
    BY <1>2, <1>3, <1>6 DEF SiteEmpty
  <2>6. ReleaseInv'
    BY <1>0, <1>2, <1>3, <1>6, <2>1, <2>5 DEF ReleaseInv, ReleaseSteps
  <2>7. PolicyInv'
    BY <1>0, <1>2, <1>6, <2>1, <2>2 DEF PolicyInv, NoInheritedPolicy
  <2> QED BY <2>3, <2>4, <2>6, <2>7 DEF ClaimInv
<1> QED BY <1>5, <1>6 DEF ReleaseCommit

\* The answer to a release, which the Hub may miss.
LEMMA PublishReleaseAckKeeps ==
    ASSUME ClaimInv, PublishReleaseAck
    PROVE  ClaimInv'
<1>0. ShapesOK /\ PhaseInv /\ ReleaseInv /\ PolicyInv
  BY DEF ClaimInv
<1>1. /\ disk \in Disks /\ mem \in Mems /\ trail \in Trails /\ hub \in Hubs
      /\ session \in BOOLEAN /\ failures \in 0 .. 3 /\ thread \in NetworkPlaces
      /\ site \in Sites /\ PipeOK /\ buffer \subseteq Event
  BY <1>0 DEF ShapesOK
<1>2. /\ thread.at = "release_ack" /\ thread.at \in ReleaseSteps /\ Idle
      /\ UNCHANGED <<disk, mem, session, failures, site, pipe, buffer>>
  BY DEF PublishReleaseAck, ReleaseSteps
<1>3. /\ mem.request = thread.request /\ hub.phase = "releasing"
      /\ disk.request = mem.request
  BY <1>0, <1>2 DEF ReleaseInv, PhaseInv
<1>4. mem.request # None
  <2>1. thread.request \in 1 .. MaxRequest
    BY <1>1, <1>2 DEF NetworkPlaces, ReleaseSteps
  <2> QED BY <1>3, <2>1, ClaimAssumption DEF None
<1>5. thread' \in NetworkPlaces /\ thread'.at = "idle"
  BY <1>2 DEF Idle, NetworkPlaces
<1>6. /\ hub' \in Hubs /\ hub'.claim = hub.claim
      /\ \/ hub' = hub
         \/ hub'.phase = "free" /\ hub'.released = hub.released \cup {hub.claim}
  <2>1. None \in Claim /\ hub.claim \in Claim /\ hub.released \subseteq Claim
    BY <1>1, ClaimAssumption DEF None, Claim, Hubs
  <2>2. CASE hub' = hub
    BY <1>1, <2>2
  <2>3. CASE hub' = [hub EXCEPT !.phase = "free", !.account = None,
                                !.released = @ \cup {hub.claim}]
    BY <1>1, <2>1, <2>3 DEF Hubs
  <2> QED BY <2>2, <2>3 DEF PublishReleaseAck
<1>7. trail' \in Trails /\ trail'.interrupted = trail.interrupted
  <2>1. Fault \/ trail' = trail
    BY DEF PublishReleaseAck
  <2> QED BY <1>1, <2>1, FaultShape
<1>8. ShapesOK'
  <2>1. PipeOK'
    BY <1>1, <1>2 DEF PipeOK
  <2> QED BY <1>1, <1>2, <1>5, <1>6, <1>7, <2>1 DEF ShapesOK
<1>9. PhaseInv'
  <2>1. CASE hub' = hub
    BY <1>0, <1>2, <1>3, <1>5, <2>1 DEF PhaseInv, Activating, ReleaseSteps
  <2>2. CASE hub'.phase = "free" /\ hub'.released = hub.released \cup {hub.claim}
    <3>1. \A c \in hub'.released : c <= hub'.claim
      <4>1. \A c \in hub.released : c <= hub.claim
        BY <1>0 DEF PhaseInv
      <4>2. hub.claim <= hub.claim
        <5>1. hub.claim \in Nat
          BY <1>1, ClaimAssumption DEF Hubs, Claim
        <5> QED BY <5>1
      <4> QED BY <1>6, <2>2, <4>1, <4>2
    <3> QED BY <1>2, <1>3, <1>4, <1>5, <2>2, <3>1 DEF PhaseInv, Activating, ReleaseSteps
  <2> QED BY <1>6, <2>1, <2>2
<1>10. ReleaseInv'
  <2>1. SiteEmpty => SiteEmpty'
    BY <1>2 DEF SiteEmpty
  <2> QED BY <1>0, <1>2, <1>5, <2>1 DEF ReleaseInv, ReleaseSteps
<1>11. PolicyInv'
  BY <1>0, <1>2, <1>5, <1>7 DEF PolicyInv, NoInheritedPolicy
<1> QED BY <1>8, <1>9, <1>10, <1>11 DEF ClaimInv

-----------------------------------------------------------------------------
(***************************************************************************)
(* Activation and password rotation.                                       *)
(***************************************************************************)

\* A provisioning message, up to the activated file.
LEMMA OnProvisionKeeps ==
    ASSUME ClaimInv, OnProvision
    PROVE  ClaimInv'
<1>0. ShapesOK /\ PhaseInv /\ ReleaseInv /\ PolicyInv
  BY DEF ClaimInv
<1>1. /\ disk \in Disks /\ mem \in Mems /\ trail \in Trails /\ hub \in Hubs
      /\ session \in BOOLEAN /\ failures \in 0 .. 3 /\ thread \in NetworkPlaces
      /\ site \in Sites /\ PipeOK /\ buffer \subseteq Event
  BY <1>0 DEF ShapesOK
<1>2. /\ thread.at = "idle"
      /\ UNCHANGED <<mem, session, failures, site, pipe, buffer, hub>>
  BY DEF OnProvision
<1>3. PICK action \in {"activate", "rotate_password"} :
          /\ hub.phase = (IF action = "activate" THEN "assigning" ELSE "owned")
          /\ \/ /\ disk' = RotateFile(action, hub.claim)
                /\ thread' = [action |-> action, claim |-> hub.claim, creds |-> hub.account,
                              at |-> IF ClaimChanged(action, hub.claim)
                                     THEN "claim_changed" ELSE "rotate_memory"]
                /\ UNCHANGED trail
             \/ Fault /\ UNCHANGED <<disk, thread>>
  BY DEF OnProvision
<1>4. CASE /\ disk' = RotateFile(action, hub.claim)
           /\ thread' = [action |-> action, claim |-> hub.claim, creds |-> hub.account,
                         at |-> IF ClaimChanged(action, hub.claim)
                                THEN "claim_changed" ELSE "rotate_memory"]
           /\ UNCHANGED trail
  <2>1. hub.claim \in Claim /\ hub.account \in Claim /\ None \in 0 .. MaxRequest
    BY <1>1, ClaimAssumption DEF Hubs, None
  <2>2. /\ thread' \in NetworkPlaces /\ thread'.action = action
        /\ thread'.claim = hub.claim
        /\ thread'.at = (IF ClaimChanged(action, hub.claim)
                         THEN "claim_changed" ELSE "rotate_memory")
    BY <1>4, <2>1 DEF NetworkPlaces
  <2>3. thread'.at \in {"claim_changed", "rotate_memory"} /\ thread'.at \notin ReleaseSteps
    BY <2>2 DEF ReleaseSteps
  <2>4. /\ disk' \in Disks /\ (~disk.connectors => ~disk'.connectors)
        /\ disk'.request \in {None, disk.request}
        /\ (action = "activate" /\ hub.claim # None => disk'.request = None)
    BY <1>1, <1>4, <2>1 DEF RotateFile, Disks
  <2>5. disk'.request = None
    <3>1. CASE action = "activate"
      BY <1>0, <1>3, <2>4, <3>1 DEF PhaseInv
    <3>2. CASE action # "activate"
      BY <1>0, <1>3, <2>4, <3>2 DEF PhaseInv
    <3> QED BY <3>1, <3>2
  <2>6. ShapesOK'
    <3>1. PipeOK'
      BY <1>1, <1>2 DEF PipeOK
    <3> QED BY <1>1, <1>2, <1>4, <2>2, <2>4, <3>1 DEF ShapesOK
  <2>7. PhaseInv'
    <3>1. CASE action = "activate"
      BY <1>0, <1>2, <1>3, <2>2, <2>3, <2>5, <3>1 DEF PhaseInv, Activating
    <3>2. CASE action = "rotate_password"
      <4>1. ~ClaimChanged(action, hub.claim)
        BY <3>2 DEF ClaimChanged
      <4>2. hub.phase = "owned" /\ mem.request = None
        BY <1>0, <1>3, <3>2 DEF PhaseInv
      <4> QED BY <1>0, <1>2, <2>2, <2>3, <2>5, <3>2, <4>1, <4>2 DEF PhaseInv, Activating
    <3> QED BY <3>1, <3>2
  <2>8. ReleaseInv'
    <3>1. SiteEmpty => SiteEmpty'
      BY <1>2, <2>4 DEF SiteEmpty
    <3> QED BY <1>0, <1>2, <2>3, <2>5, <3>1 DEF ReleaseInv
  <2>9. PolicyInv'
    <3>1. NoInheritedPolicy'
      BY <1>0, <1>2, <1>4 DEF PolicyInv, NoInheritedPolicy
    <3>2. ~ClaimChanged(action, hub.claim) /\ action = "activate"
            => hub.claim \in {None, mem.claim}
      BY DEF ClaimChanged
    <3> QED BY <1>2, <2>2, <3>1, <3>2 DEF PolicyInv
  <2> QED BY <2>6, <2>7, <2>8, <2>9 DEF ClaimInv
<1>5. CASE Fault /\ UNCHANGED <<disk, thread>>
  <2>1. trail' \in Trails /\ trail'.interrupted = trail.interrupted
    BY <1>1, <1>5, FaultShape
  <2> QED BY <1>1, <1>2, <1>5, <2>1, ConnectionFrame
<1> QED BY <1>3, <1>4, <1>5

\* on_claim_changed resets the field between file and memory.
LEMMA OnClaimChangedKeeps ==
    ASSUME ClaimInv, OnClaimChanged
    PROVE  ClaimInv'
<1>0. ShapesOK /\ PhaseInv /\ ReleaseInv /\ PolicyInv
  BY DEF ClaimInv
<1>1. /\ disk \in Disks /\ mem \in Mems /\ trail \in Trails /\ hub \in Hubs
      /\ session \in BOOLEAN /\ failures \in 0 .. 3 /\ thread \in NetworkPlaces
      /\ site \in Sites /\ PipeOK /\ buffer \subseteq Event
  BY <1>0 DEF ShapesOK
<1>2. /\ thread.at = "claim_changed"
      /\ UNCHANGED <<disk, mem, session, failures, buffer, hub>>
  BY DEF OnClaimChanged
<1>3. /\ thread.action = "activate" /\ hub.phase = "assigning" /\ disk.request = None
  BY <1>0, <1>2 DEF PhaseInv, Activating
<1>4. CASE /\ ResetField(TRUE) /\ Goto("rotate_memory")
           /\ trail' = [trail EXCEPT !.resets = @ + 1]
  <2>1. /\ site' \in Sites /\ PipeOK' /\ site'.field = None /\ site'.policy = None
        /\ pipe'.queue = pipe.queue
    BY <1>1, <1>4, ResetFieldShape
  <2>2. /\ thread' \in NetworkPlaces /\ thread'.at = "rotate_memory"
        /\ thread'.action = thread.action
    BY <1>1, <1>2, <1>4 DEF Goto, NetworkPlaces, ReleaseSteps
  <2>3. trail' \in Trails /\ trail'.interrupted = trail.interrupted
    BY <1>1, <1>4, ResetShape
  <2>4. ShapesOK'
    BY <1>1, <1>2, <2>1, <2>2, <2>3 DEF ShapesOK
  <2>5. PhaseInv'
    BY <1>0, <1>2, <1>3, <2>2 DEF PhaseInv, Activating, ReleaseSteps
  <2>6. SiteEmpty => SiteEmpty'
    BY <1>2, <1>4, <2>1 DEF SiteEmpty, ResetField
  <2>7. ReleaseInv'
    BY <1>0, <1>2, <2>2, <2>6 DEF ReleaseInv, ReleaseSteps
  <2>8. PolicyInv'
    BY <2>1 DEF PolicyInv, NoInheritedPolicy
  <2> QED BY <2>4, <2>5, <2>7, <2>8 DEF ClaimInv
<1>5. CASE ResetField(FALSE) /\ Fault /\ Idle
  <2>1. /\ site' \in Sites /\ PipeOK' /\ site'.field = None /\ site'.policy = site.policy
        /\ pipe'.queue = pipe.queue
    BY <1>1, <1>5, ResetFieldShape
  <2>2. thread' \in NetworkPlaces /\ thread'.at = "idle"
    BY <1>5 DEF Idle, NetworkPlaces
  <2>3. trail' \in Trails /\ trail'.interrupted = trail.interrupted
    BY <1>1, <1>5, FaultShape
  <2>4. ShapesOK'
    BY <1>1, <1>2, <2>1, <2>2, <2>3 DEF ShapesOK
  <2>5. PhaseInv'
    BY <1>0, <1>2, <1>3, <2>2 DEF PhaseInv, Activating, ReleaseSteps
  <2>6. SiteEmpty => SiteEmpty'
    BY <1>2, <1>5, <2>1 DEF SiteEmpty, ResetField
  <2>7. ReleaseInv'
    BY <1>0, <1>2, <2>2, <2>6 DEF ReleaseInv, ReleaseSteps
  <2>8. PolicyInv'
    BY <1>0, <1>2, <2>1, <2>2, <2>3 DEF PolicyInv, NoInheritedPolicy
  <2> QED BY <2>4, <2>5, <2>7, <2>8 DEF ClaimInv
<1> QED BY <1>4, <1>5 DEF OnClaimChanged

\* The memory takes over what the file already says.
LEMMA RotateMemoryKeeps ==
    ASSUME ClaimInv, RotateMemory
    PROVE  ClaimInv'
<1>0. ShapesOK /\ PhaseInv /\ ReleaseInv /\ PolicyInv
  BY DEF ClaimInv
<1>1. /\ disk \in Disks /\ mem \in Mems /\ trail \in Trails /\ hub \in Hubs
      /\ session \in BOOLEAN /\ failures \in 0 .. 3 /\ thread \in NetworkPlaces
      /\ site \in Sites /\ PipeOK /\ buffer \subseteq Event
  BY <1>0 DEF ShapesOK
<1>2. /\ thread.at = "rotate_memory" /\ session' = FALSE /\ Idle
      /\ UNCHANGED <<disk, failures, site, pipe, buffer>>
  BY DEF RotateMemory
<1>3. thread.claim \in Claim /\ thread.creds \in Claim /\ None \in 0 .. MaxRequest
  BY <1>1, <1>2, ClaimAssumption DEF NetworkPlaces, ReleaseSteps, None
<1>4. /\ mem' \in Mems
      /\ mem'.claim = (IF thread.action = "activate" THEN thread.claim ELSE mem.claim)
      /\ mem'.request = (IF thread.action = "activate" THEN None ELSE mem.request)
      /\ mem'.releasing = (mem.releasing /\ thread.action # "activate")
  <2>1. mem' = [mem EXCEPT !.creds = thread.creds, !.bootstrap = FALSE,
                  !.claim = IF thread.action = "activate" THEN thread.claim ELSE @,
                  !.request = IF thread.action = "activate" THEN None ELSE @,
                  !.releasing = @ /\ thread.action # "activate",
                  !.retired = @ /\ thread.action # "activate"]
    BY DEF RotateMemory
  <2> QED BY <1>1, <1>3, <2>1 DEF Mems
<1>5. /\ hub' \in Hubs /\ hub'.claim = hub.claim /\ hub'.released = hub.released
      /\ hub'.request = hub.request
      /\ \/ hub' = hub
         \/ /\ hub'.phase = "owned" /\ hub.phase = "assigning"
            /\ thread.action = "activate"
  <2>1. CASE hub' = hub
    BY <1>1, <2>1
  <2>2. CASE /\ hub' = [hub EXCEPT !.phase = "owned"] /\ hub.phase = "assigning"
             /\ thread.action = "activate"
    BY <1>1, <2>2 DEF Hubs
  <2> QED BY <2>1, <2>2 DEF RotateMemory
<1>6. trail' \in Trails /\ trail'.interrupted = trail.interrupted
  <2>1. Fault \/ trail' = trail
    BY DEF RotateMemory
  <2> QED BY <1>1, <2>1, FaultShape
<1>7. thread' \in NetworkPlaces /\ thread'.at = "idle"
  BY <1>2 DEF Idle, NetworkPlaces
<1>8. ShapesOK'
  <2>1. PipeOK'
    BY <1>1, <1>2 DEF PipeOK
  <2> QED BY <1>1, <1>2, <1>4, <1>5, <1>6, <1>7, <2>1 DEF ShapesOK
<1>9. SiteEmpty => SiteEmpty'
  BY <1>2 DEF SiteEmpty
<1>10. CASE thread.action = "activate"
  <2>1. disk.request = None /\ hub.phase = "assigning"
    BY <1>0, <1>2, <1>10 DEF PhaseInv, Activating
  <2>2. PhaseInv'
    BY <1>0, <1>2, <1>4, <1>5, <1>7, <1>10, <2>1 DEF PhaseInv, Activating, ReleaseSteps
  <2>3. ReleaseInv'
    BY <1>2, <1>4, <1>7, <1>10, <2>1 DEF ReleaseInv, ReleaseSteps
  <2>4. PolicyInv'
    BY <1>0, <1>2, <1>4, <1>6, <1>7, <1>10 DEF PolicyInv, NoInheritedPolicy
  <2> QED BY <1>8, <2>2, <2>3, <2>4 DEF ClaimInv
<1>11. CASE thread.action # "activate"
  <2>1. hub' = hub
    BY <1>5, <1>11
  <2>2. PhaseInv'
    BY <1>0, <1>2, <1>4, <1>7, <1>11, <2>1 DEF PhaseInv, Activating, ReleaseSteps
  <2>3. ReleaseInv'
    BY <1>0, <1>2, <1>4, <1>7, <1>9, <1>11 DEF ReleaseInv, ReleaseSteps
  <2>4. PolicyInv'
    BY <1>0, <1>2, <1>4, <1>6, <1>7, <1>11 DEF PolicyInv, NoInheritedPolicy
  <2> QED BY <1>8, <2>2, <2>3, <2>4 DEF ClaimInv
<1> QED BY <1>10, <1>11

-----------------------------------------------------------------------------
(***************************************************************************)
(* Crashes, the Hub, the owner's configuration.                            *)
(***************************************************************************)

\* The process ends anywhere and starts again from the file.
LEMMA CrashKeeps ==
    ASSUME ClaimInv, Crash
    PROVE  ClaimInv'
<1>0. ShapesOK /\ PhaseInv /\ ReleaseInv /\ PolicyInv
  BY DEF ClaimInv
<1>1. /\ disk \in Disks /\ mem \in Mems /\ trail \in Trails /\ hub \in Hubs
      /\ site \in Sites /\ buffer \subseteq Event
  BY <1>0 DEF ShapesOK
<1>2. /\ mem' = FromDisk(disk) /\ session' = FALSE /\ failures' = 0 /\ Idle
      /\ pipe' = EmptyPipe /\ UNCHANGED <<disk, buffer, hub>>
      /\ site' = [site EXCEPT !.field = IF disk.connectors THEN disk.claim ELSE None]
  BY DEF Crash
<1>3. /\ mem' \in Mems /\ mem'.claim = disk.claim /\ mem'.request = disk.request
      /\ mem'.releasing = (disk.mode = "release_pending")
  BY <1>1, <1>2, FromDiskShape
<1>4. /\ trail' \in Trails
      /\ (trail.interrupted \/ disk.claim # mem.claim) => trail'.interrupted
  <2>1. /\ trail' = [trail EXCEPT !.faults = @ - 1,
                        !.interrupted = @ \/ disk.claim # mem.claim]
        /\ trail.faults > 0 /\ trail.faults \in 0 .. ClaimFaults
    BY <1>1 DEF Crash, Trails
  <2>2. trail.faults - 1 \in 0 .. ClaimFaults
    BY <2>1, ClaimAssumption
  <2> QED BY <1>1, <2>1, <2>2 DEF Trails
<1>5. /\ site' \in Sites /\ site'.policy = site.policy
      /\ site'.field = (IF disk.connectors THEN disk.claim ELSE None)
  <2>1. None \in Claim /\ disk.claim \in Claim
    BY <1>1, ClaimAssumption DEF None, Claim, Disks
  <2> QED BY <1>1, <1>2, <2>1 DEF Sites
<1>6. thread' \in NetworkPlaces /\ thread'.at = "idle"
  BY <1>2 DEF Idle, NetworkPlaces
<1>7. PipeOK' /\ pipe'.queue = <<>>
  <2>1. <<>> \in Seq(Event) /\ <<>> \in Seq(Claim) /\ Len(<<>>) <= MaxQueue /\ None \in Claim
    BY ClaimAssumption DEF None, Claim
  <2>2. pipe' \in Pipes /\ pipe'.queue = <<>> /\ pipe'.samples = <<>>
    BY <1>2, <2>1 DEF EmptyPipe, Pipes
  <2> QED BY <2>1, <2>2 DEF PipeOK
<1>8. ShapesOK'
  <2>1. session' \in BOOLEAN
    BY <1>2
  <2>2. failures' \in 0 .. 3
    BY <1>2
  <2> QED BY <1>1, <1>2, <1>3, <1>4, <1>5, <1>6, <1>7, <2>1, <2>2 DEF ShapesOK
<1>9. PhaseInv'
  BY <1>0, <1>2, <1>3, <1>6 DEF PhaseInv, Activating, ReleaseSteps
<1>10. ReleaseInv'
  <2>1. disk.request # None => SiteEmpty /\ disk.mode = "release_pending"
    BY <1>0 DEF ReleaseInv
  <2>2. SiteEmpty => SiteEmpty'
    BY <1>2, <1>7 DEF SiteEmpty
  <2> QED BY <1>2, <1>3, <1>6, <2>1, <2>2 DEF ReleaseInv, ReleaseSteps
<1>11. PolicyInv'
  BY <1>0, <1>3, <1>4, <1>5, <1>6 DEF PolicyInv, NoInheritedPolicy
<1> QED BY <1>8, <1>9, <1>10, <1>11 DEF ClaimInv

\* The Hub's own steps.
LEMMA HubStepKeeps ==
    ASSUME ClaimInv, HubStep
    PROVE  ClaimInv'
<1>0. ShapesOK /\ PhaseInv /\ ReleaseInv /\ PolicyInv
  BY DEF ClaimInv
<1>1. UNCHANGED <<disk, mem, session, failures, thread, site, pipe, buffer, trail>>
  BY DEF HubStep
<1>2. hub \in Hubs /\ PipeOK
  BY <1>0 DEF ShapesOK
<1>3. /\ hub.claim \in Nat /\ hub.request \in Nat /\ hub.claim <= MaxClaim
      /\ hub.request <= MaxRequest /\ hub.released \subseteq Claim
      /\ \A c \in hub.released : c \in Nat
  BY <1>2, ClaimAssumption DEF Hubs, Claim
<1>4. hub' \in Hubs => ShapesOK'
  <2>1. PipeOK'
    BY <1>1, <1>2 DEF PipeOK
  <2> QED BY <1>0, <1>1, <2>1 DEF ShapesOK
<1>5. ReleaseInv' /\ PolicyInv'
  BY <1>0, <1>1 DEF ReleaseInv, PolicyInv, SiteEmpty, NoInheritedPolicy
<1>6. CASE /\ hub.phase = "owned" /\ hub.request < MaxRequest
           /\ hub' = [hub EXCEPT !.phase = "releasing", !.request = @ + 1]
  <2>1. hub.request + 1 \in 0 .. MaxRequest /\ hub.request + 1 # None
    BY <1>3, <1>6, ClaimAssumption DEF None
  <2>2. /\ hub' \in Hubs /\ hub'.phase = "releasing" /\ hub'.request = hub.request + 1
        /\ hub'.claim = hub.claim /\ hub'.released = hub.released
    BY <1>2, <1>6, <2>1 DEF Hubs
  <2>3. PhaseInv'
    BY <1>0, <1>1, <1>6, <2>1, <2>2 DEF PhaseInv, Activating
  <2> QED BY <1>4, <1>5, <2>2, <2>3 DEF ClaimInv
<1>7. CASE /\ hub.phase = "releasing" /\ hub.request < MaxRequest
           /\ hub' = [hub EXCEPT !.request = @ + 1]
  <2>1. hub.request + 1 \in 0 .. MaxRequest /\ hub.request + 1 # None
    BY <1>3, <1>7, ClaimAssumption DEF None
  <2>2. /\ hub' \in Hubs /\ hub'.phase = "releasing" /\ hub'.request = hub.request + 1
        /\ hub'.claim = hub.claim /\ hub'.released = hub.released
    BY <1>2, <1>7, <2>1 DEF Hubs
  <2>3. PhaseInv'
    BY <1>0, <1>1, <1>7, <2>1, <2>2 DEF PhaseInv, Activating
  <2> QED BY <1>4, <1>5, <2>2, <2>3 DEF ClaimInv
<1>8. CASE /\ hub.phase = "owned"
           /\ hub' = [hub EXCEPT !.phase = "free", !.account = None]
  <2>1. None \in Claim
    BY ClaimAssumption DEF None, Claim
  <2>2. /\ hub' \in Hubs /\ hub'.phase = "free" /\ hub'.claim = hub.claim
        /\ hub'.released = hub.released /\ hub'.request = hub.request
    BY <1>2, <1>8, <2>1 DEF Hubs
  <2>3. hub.claim \notin hub.released
    BY <1>0, <1>3, <1>8 DEF PhaseInv
  <2>4. PhaseInv'
    BY <1>0, <1>1, <1>8, <2>2, <2>3 DEF PhaseInv, Activating
  <2> QED BY <1>4, <1>5, <2>2, <2>4 DEF ClaimInv
<1>9. CASE /\ hub.phase = "free" /\ hub.claim < MaxClaim
           /\ hub' = [hub EXCEPT !.phase = "assigning", !.claim = @ + 1,
                                 !.account = hub.claim + 1]
  <2>1. hub.claim + 1 \in Claim /\ hub.claim + 1 # None
    BY <1>3, <1>9, ClaimAssumption DEF None, Claim
  <2>2. /\ hub' \in Hubs /\ hub'.phase = "assigning" /\ hub'.claim = hub.claim + 1
        /\ hub'.released = hub.released /\ hub'.request = hub.request
    BY <1>2, <1>9, <2>1 DEF Hubs
  <2>3. \A c \in hub'.released : c <= hub'.claim /\ c < hub'.claim
    BY <1>0, <1>3, <2>2 DEF PhaseInv
  <2>4. PhaseInv'
    BY <1>0, <1>1, <1>9, <2>1, <2>2, <2>3 DEF PhaseInv, Activating
  <2> QED BY <1>4, <1>5, <2>2, <2>4 DEF ClaimInv
<1> QED BY <1>6, <1>7, <1>8, <1>9 DEF HubStep

\* The owner's configuration starts the connectors of the present claim.
LEMMA ApplyOwnerConfigKeeps ==
    ASSUME ClaimInv, ApplyOwnerConfig
    PROVE  ClaimInv'
<1>0. ShapesOK /\ PhaseInv /\ ReleaseInv /\ PolicyInv
  BY DEF ClaimInv
<1>1. /\ disk \in Disks /\ mem \in Mems /\ PipeOK
  BY <1>0 DEF ShapesOK
<1>2. /\ thread.at = "idle" /\ hub.phase = "owned"
      /\ site' = [field |-> mem.claim, policy |-> mem.claim]
      /\ disk' = [disk EXCEPT !.connectors = TRUE]
      /\ UNCHANGED <<mem, session, failures, thread, pipe, buffer, hub, trail>>
  BY DEF ApplyOwnerConfig
<1>3. mem.request = None /\ disk.request = None
  BY <1>0, <1>2 DEF PhaseInv
<1>4. disk' \in Disks /\ disk'.request = disk.request
  BY <1>1, <1>2 DEF Disks
<1>5. site' \in Sites /\ site'.policy = mem.claim
  BY <1>1, <1>2 DEF Sites, Mems
<1>6. ShapesOK'
  <2>1. PipeOK'
    BY <1>1, <1>2 DEF PipeOK
  <2> QED BY <1>0, <1>2, <1>4, <1>5, <2>1 DEF ShapesOK
<1>7. PhaseInv'
  BY <1>0, <1>2, <1>4 DEF PhaseInv, Activating, ReleaseSteps
<1>8. ReleaseInv'
  BY <1>2, <1>3, <1>4 DEF ReleaseInv, ReleaseSteps
<1>9. PolicyInv'
  BY <1>2, <1>5 DEF PolicyInv, NoInheritedPolicy
<1> QED BY <1>6, <1>7, <1>8, <1>9 DEF ClaimInv

-----------------------------------------------------------------------------
\* A gateway that was never claimed satisfies the invariant ...
LEMMA ClaimInitial == ClaimInit => ClaimInv
<1> SUFFICES ASSUME ClaimInit PROVE ClaimInv
  OBVIOUS
<1>1. PICK c \in {None, 1} \cap Claim :
          /\ disk = [mode |-> "operational", claim |-> c, request |-> None,
                     creds |-> c, connectors |-> c # None]
          /\ site = [field |-> c, policy |-> c]
          /\ hub = [claim |-> c, request |-> None, account |-> c, released |-> {},
                    phase |-> IF c = None THEN "free" ELSE "owned"]
  BY DEF ClaimInit
<1>2. /\ mem = FromDisk(disk) /\ session = FALSE /\ failures = 0
      /\ thread = [at |-> "idle"] /\ pipe = EmptyPipe /\ buffer = {}
      /\ trail = [strays |-> 0, resets |-> 0, late |-> 0, interrupted |-> FALSE,
                  faults |-> ClaimFaults]
  BY DEF ClaimInit
<1>3. None \in 0 .. MaxRequest /\ None \in Claim /\ c \in Claim
  BY ClaimAssumption DEF None, Claim
<1>4. disk \in Disks /\ disk.claim = c /\ disk.request = None
  BY <1>1, <1>3 DEF Disks
<1>5. mem \in Mems /\ mem.claim = c /\ mem.request = None
  BY <1>2, <1>4, FromDiskShape
<1>6. hub \in Hubs /\ hub.phase = (IF c = None THEN "free" ELSE "owned") /\ hub.released = {}
  BY <1>1, <1>3 DEF Hubs
<1>7. trail \in Trails /\ thread \in NetworkPlaces /\ thread.at = "idle"
  BY <1>2, ClaimAssumption DEF Trails, NetworkPlaces
<1>8. PipeOK
  <2>1. <<>> \in Seq(Event) /\ <<>> \in Seq(Claim) /\ Len(<<>>) <= MaxQueue
    BY ClaimAssumption
  <2>2. pipe \in Pipes /\ pipe.queue = <<>> /\ pipe.samples = <<>>
    BY <1>2, <1>3, <2>1 DEF EmptyPipe, Pipes
  <2> QED BY <2>1, <2>2 DEF PipeOK
<1>9. site \in Sites /\ site.policy = c
  BY <1>1, <1>3 DEF Sites
<1>10. ShapesOK
  <2>1. session \in BOOLEAN
    BY <1>2
  <2>2. failures \in 0 .. 3 /\ buffer \subseteq Event
    BY <1>2
  <2> QED BY <1>2, <1>4, <1>5, <1>6, <1>7, <1>8, <1>9, <2>1, <2>2 DEF ShapesOK
<1>11. PhaseInv
  BY <1>4, <1>5, <1>6, <1>7 DEF PhaseInv, Activating, ReleaseSteps
<1>12. ReleaseInv
  BY <1>4, <1>5, <1>7 DEF ReleaseInv, ReleaseSteps
<1>13. PolicyInv
  BY <1>5, <1>7, <1>9 DEF PolicyInv, NoInheritedPolicy
<1> QED BY <1>10, <1>11, <1>12, <1>13 DEF ClaimInv

\* ... and every step keeps it.
LEMMA ClaimStep == ClaimInv /\ [ClaimNext]_claimVars => ClaimInv'
<1> SUFFICES ASSUME ClaimInv, [ClaimNext]_claimVars PROVE ClaimInv'
  OBVIOUS
<1>1. CASE NetworkThread
  BY <1>1, OnConnectKeeps, OnRefusedKeeps, HandleReleaseKeeps, ReleaseResetKeeps,
      ClearClaimBufferKeeps, ReleaseCommitKeeps, PublishReleaseAckKeeps,
      OnProvisionKeeps, OnClaimChangedKeeps, RotateMemoryKeeps DEF NetworkThread
<1>2. CASE OnDisconnect
  BY <1>2, OnDisconnectKeeps
<1>3. CASE SampleStep
  BY <1>3, SamplesKeep
<1>4. CASE Crash
  BY <1>4, CrashKeeps
<1>5. CASE HubStep
  BY <1>5, HubStepKeeps
<1>6. CASE ApplyOwnerConfig
  BY <1>6, ApplyOwnerConfigKeeps
<1>7. CASE UNCHANGED claimVars
  BY <1>7 DEF claimVars, ClaimInv, ShapesOK, PipeOK, PhaseInv, ReleaseInv, PolicyInv,
      NoInheritedPolicy, SiteEmpty, Activating
<1> QED BY <1>1, <1>2, <1>3, <1>4, <1>5, <1>6, <1>7 DEF ClaimNext, SampleStep

\* Every reachable state satisfies the inductive invariant.
THEOREM ClaimInvariant == ClaimSpec => []ClaimInv
<1> QED BY ClaimInitial, ClaimStep, PTL DEF ClaimSpec

\* The attributes, the file, the queues and the buffer keep their shapes
\* (NovenaMqttPublisher, whatever its threads and the Hub do).
THEOREM ClaimTypes == ClaimSpec => []ClaimTypeOK
<1>1. ClaimInv => ClaimTypeOK
  BY ShapesAreTypes DEF ClaimInv
<1> QED BY <1>1, ClaimInvariant, PTL

\* The receipt reset_complete is true: from the moment the Hub has it until it
\* hands out the next claim no connector, policy, queued item or buffered
\* event of that site is left (_handle_release, clear_claim_buffer).
THEOREM ReceiptIsTrue == ClaimSpec => []ResetCompleteMeansEmpty
<1>1. ClaimInv => ResetCompleteMeansEmpty
  BY DEF ClaimInv, PhaseInv, ReleaseInv, SiteEmpty, ResetCompleteMeansEmpty
<1> QED BY <1>1, ClaimInvariant, PTL

\* No claim runs under the policy of a former one, unless the process ended
\* between the activated file and the end of on_claim_changed.
THEOREM PolicyIsNotInherited == ClaimSpec => []NoInheritedPolicy
<1>1. ClaimInv => NoInheritedPolicy
  BY DEF ClaimInv, PolicyInv
<1> QED BY <1>1, ClaimInvariant, PTL

-----------------------------------------------------------------------------
(***************************************************************************)
(* Samples that cross from one claim to another.  Counted are the events   *)
(* already tagged with another claim than their own (in the queue, with    *)
(* the publisher thread, in the buffer) and the samples that may become    *)
(* such events: one that is not the running connectors' and the one        *)
(* DataProcessor holds across a change of claim.                           *)
(***************************************************************************)
Strays == {e \in Event : e.src # e.tag}
Foreign(f) == IF f = None THEN Claim ELSE Claim \ {f}

\* How many entries of a sequence lie in a set.
Marks(q, S) == Cardinality({i \in 1 .. Len(q) : q[i] \in S})
One(b) == IF b THEN 1 ELSE 0

\* The memory is about to take another claim.
Changing == /\ thread.at = "rotate_memory" /\ thread.action = "activate"
            /\ thread.claim # mem.claim

HandAtRisk ==
    /\ pipe.hand # None
    /\ \/ pipe.hand # mem.claim
       \/ mem.request # None
       \/ thread.at \in {"release_buffer", "release_commit", "release_ack"}
       \/ Changing

ItemAtRisk == pipe.item # <<>> /\ pipe.item[1] \in Strays

SamplesAtRisk == Marks(pipe.samples, Foreign(site.field))
QueuedStrays == Marks(pipe.queue, Strays)
BufferedStrays == Cardinality(buffer \cap Strays)

HandRisk == One(HandAtRisk)
ItemRisk == One(ItemAtRisk)

AtRisk == SamplesAtRisk + HandRisk + QueuedStrays + ItemRisk + BufferedStrays

CrossInv ==
    /\ IsFiniteSet(buffer)
    /\ site.field # None => site.field = mem.claim
    /\ Changing => site.field = None
    /\ trail.strays + AtRisk <= trail.resets + trail.late

\* The marked places of a sequence are finitely many.
LEMMA MarksType ==
    ASSUME NEW T, NEW q \in Seq(T), NEW S
    PROVE  /\ IsFiniteSet({i \in 1 .. Len(q) : q[i] \in S})
           /\ Marks(q, S) \in Nat
<1>1. Len(q) \in Nat /\ 1 \in Int /\ Len(q) \in Int
  OBVIOUS
<1>2. IsFiniteSet(1 .. Len(q))
  BY <1>1, FS_Interval
<1>3. {i \in 1 .. Len(q) : q[i] \in S} \in SUBSET (1 .. Len(q))
  OBVIOUS
<1>4. IsFiniteSet({i \in 1 .. Len(q) : q[i] \in S})
  BY <1>2, <1>3, FS_Subset
<1> QED BY <1>4, FS_CardinalityType DEF Marks

\* Counting the marked entries of a queue: an empty one has none, ...
LEMMA MarksEmpty ==
    ASSUME NEW S
    PROVE  Marks(<<>>, S) = 0
<1>1. {i \in 1 .. Len(<<>>) : <<>>[i] \in S} = {}
  OBVIOUS
<1> QED BY <1>1, FS_EmptySet DEF Marks

\* ... one more at the end counts if it is marked, ...
LEMMA MarksAppend ==
    ASSUME NEW T, NEW q \in Seq(T), NEW x \in T, NEW S
    PROVE  Marks(Append(q, x), S) = Marks(q, S) + One(x \in S)
<1> DEFINE I == {i \in 1 .. Len(q) : q[i] \in S}
           J == {i \in 1 .. Len(Append(q, x)) : Append(q, x)[i] \in S}
<1>1. IsFiniteSet(I)
  BY MarksType
<1>2. Len(q) \in Nat /\ Len(q) + 1 \notin I
  OBVIOUS
<1>3. /\ Len(Append(q, x)) = Len(q) + 1
      /\ \A i \in 1 .. Len(q) : Append(q, x)[i] = q[i]
      /\ Append(q, x)[Len(q) + 1] = x
  OBVIOUS
<1>4. CASE x \in S
  <2>1. J = I \cup {Len(q) + 1}
    BY <1>2, <1>3, <1>4
  <2>2. Cardinality(I \cup {Len(q) + 1}) = Cardinality(I) + 1
    BY <1>1, <1>2, FS_AddElement
  <2> QED BY <1>4, <2>1, <2>2 DEF Marks, One
<1>5. CASE x \notin S
  <2>1. J = I
    BY <1>2, <1>3, <1>5
  <2>2. Cardinality(I) \in Nat
    BY <1>1, FS_CardinalityType
  <2>3. Marks(Append(q, x), S) = Cardinality(I) /\ Marks(q, S) = Cardinality(I)
    BY <2>1 DEF Marks
  <2> HIDE DEF I
  <2>4. Cardinality(I) = Cardinality(I) + 0
    BY <2>2
  <2> QED BY <1>5, <2>3, <2>4 DEF One
<1> QED BY <1>4, <1>5

\* Taking the first entry: every later place moves down by one.
LEMMA MarksTail ==
    ASSUME NEW T, NEW q \in Seq(T), q # <<>>, NEW S
    PROVE  Marks(Tail(q), S) + One(Head(q) \in S) <= Marks(q, S)
<1> DEFINE I == {i \in 1 .. Len(q) : q[i] \in S}
           J == {i \in 1 .. Len(Tail(q)) : Tail(q)[i] \in S}
           f == [i \in J |-> i + 1]
<1>1. /\ Tail(q) \in Seq(T) /\ Len(q) \in Nat /\ Len(Tail(q)) = Len(q) - 1
      /\ 1 \in 1 .. Len(q) /\ Head(q) = q[1]
      /\ \A i \in 1 .. Len(Tail(q)) : i + 1 \in 1 .. Len(q) /\ Tail(q)[i] = q[i + 1]
  OBVIOUS
<1>2. IsFiniteSet(I) /\ IsFiniteSet(J) /\ Cardinality(I) \in Nat /\ Cardinality(J) \in Nat
  BY <1>1, MarksType, FS_CardinalityType
<1>3. IsFiniteSet(I \ {1})
      /\ Cardinality(I \ {1}) = IF 1 \in I THEN Cardinality(I) - 1 ELSE Cardinality(I)
  BY <1>2, FS_RemoveElement
<1>4. f \in Injection(J, I \ {1})
  <2>1. \A i \in J : i \in Nat /\ i >= 1 /\ i + 1 \in I /\ i + 1 # 1
    BY <1>1
  <2>2. f \in [J -> I \ {1}]
    BY <2>1
  <2>3. \A i, j \in J : f[i] = f[j] => i = j
    BY <2>1
  <2> QED BY <2>2, <2>3 DEF Injection, IsInjective
<1>5. Cardinality(J) <= Cardinality(I \ {1})
  <2> HIDE DEF I, J, f
  <2> QED BY <1>3, <1>4, FS_Injection
<1>6. 1 \in I <=> Head(q) \in S
  BY <1>1
<1>7. Marks(Tail(q), S) = Cardinality(J) /\ Marks(q, S) = Cardinality(I)
  BY DEF Marks
<1> HIDE DEF I, J
<1> QED BY <1>2, <1>3, <1>5, <1>6, <1>7 DEF One

\* ... and a larger set of marks counts at least as many.
LEMMA MarksMonotone ==
    ASSUME NEW T, NEW q \in Seq(T), NEW R, NEW S, R \subseteq S
    PROVE  Marks(q, R) <= Marks(q, S)
<1>1. IsFiniteSet({i \in 1 .. Len(q) : q[i] \in S})
  BY MarksType
<1>2. {i \in 1 .. Len(q) : q[i] \in R} \in SUBSET {i \in 1 .. Len(q) : q[i] \in S}
  OBVIOUS
<1> QED BY <1>1, <1>2, FS_Subset DEF Marks

\* The strays of a finite buffer, one event more or less.
LEMMA BufferMarks ==
    ASSUME NEW B, IsFiniteSet(B), NEW e
    PROVE  /\ IsFiniteSet(B \cup {e}) /\ IsFiniteSet(B \ {e})
           /\ Cardinality(B \cap Strays) \in Nat
           /\ Cardinality((B \cup {e}) \cap Strays) \in Nat
           /\ Cardinality((B \cup {e}) \cap Strays)
                <= Cardinality(B \cap Strays) + One(e \in Strays)
           /\ Cardinality((B \ {e}) \cap Strays) \in Nat
           /\ e \in B => Cardinality((B \ {e}) \cap Strays) + One(e \in Strays)
                            = Cardinality(B \cap Strays)
<1> DEFINE C == B \cap Strays
<1>1. IsFiniteSet(B \cup {e}) /\ IsFiniteSet(B \ {e})
  BY FS_AddElement, FS_RemoveElement
<1>2. C \in SUBSET B
  OBVIOUS
<1>3. IsFiniteSet(C) /\ Cardinality(C) \in Nat
  BY <1>2, FS_Subset, FS_CardinalityType
<1>4. CASE e \in Strays
  <2>1. (B \cup {e}) \cap Strays = C \cup {e} /\ (B \ {e}) \cap Strays = C \ {e}
    BY <1>4
  <2>2. e \in B => e \in C
    BY <1>4
  <2>3. IsFiniteSet(C \cup {e}) /\ IsFiniteSet(C \ {e})
    BY <1>3, FS_AddElement, FS_RemoveElement
  <2>4. Cardinality(C \cup {e}) \in Nat /\ Cardinality(C \ {e}) \in Nat
    BY <2>3, FS_CardinalityType
  <2>5. /\ Cardinality(C \cup {e}) = IF e \in C THEN Cardinality(C) ELSE Cardinality(C) + 1
        /\ Cardinality(C \ {e}) = IF e \in C THEN Cardinality(C) - 1 ELSE Cardinality(C)
    BY <1>3, FS_AddElement, FS_RemoveElement
  <2> HIDE DEF C
  <2>6. One(e \in Strays) = 1
    BY <1>4 DEF One
  <2>7. /\ Cardinality(C \cup {e}) <= Cardinality(C) + 1
        /\ e \in B => Cardinality(C \ {e}) + 1 = Cardinality(C)
    BY <1>3, <2>2, <2>4, <2>5
  <2> QED BY <1>1, <1>3, <2>1, <2>4, <2>6, <2>7 DEF C
<1>5. CASE e \notin Strays
  <2>1. (B \cup {e}) \cap Strays = C /\ (B \ {e}) \cap Strays = C
    BY <1>5
  <2>2. One(e \in Strays) = 0
    BY <1>5 DEF One
  <2> HIDE DEF C
  <2>3. Cardinality(C) <= Cardinality(C) + 0 /\ Cardinality(C) + 0 = Cardinality(C)
    BY <1>3
  <2> QED BY <1>1, <1>3, <2>1, <2>2, <2>3 DEF C
<1> QED BY <1>4, <1>5

\* All the counts are natural numbers, in the state before a step and after it.
LEMMA CountsType ==
    ASSUME ShapesOK, ShapesOK', IsFiniteSet(buffer), IsFiniteSet(buffer')
    PROVE  /\ SamplesAtRisk \in Nat /\ QueuedStrays \in Nat /\ BufferedStrays \in Nat
           /\ SamplesAtRisk' \in Nat /\ QueuedStrays' \in Nat /\ BufferedStrays' \in Nat
           /\ HandRisk \in Nat /\ ItemRisk \in Nat
           /\ HandRisk' \in Nat /\ ItemRisk' \in Nat
           /\ trail.strays \in Nat /\ trail.resets \in Nat /\ trail.late \in Nat
           /\ trail'.strays \in Nat /\ trail'.resets \in Nat /\ trail'.late \in Nat
<1>1. pipe \in Pipes /\ pipe' \in Pipes /\ trail \in Trails /\ trail' \in Trails
  BY DEF ShapesOK, PipeOK
<1>2. /\ pipe.samples \in Seq(Claim) /\ pipe.queue \in Seq(Event)
      /\ pipe'.samples \in Seq(Claim) /\ pipe'.queue \in Seq(Event)
  BY <1>1 DEF Pipes
<1>3. /\ SamplesAtRisk \in Nat /\ QueuedStrays \in Nat
      /\ SamplesAtRisk' \in Nat /\ QueuedStrays' \in Nat
  BY <1>2, MarksType DEF SamplesAtRisk, QueuedStrays
<1>4. BufferedStrays \in Nat /\ BufferedStrays' \in Nat
  BY BufferMarks DEF BufferedStrays
<1>5. HandRisk \in Nat /\ ItemRisk \in Nat /\ HandRisk' \in Nat /\ ItemRisk' \in Nat
  BY DEF One, HandRisk, ItemRisk
<1>6. /\ trail.strays \in Nat /\ trail.resets \in Nat /\ trail.late \in Nat
      /\ trail'.strays \in Nat /\ trail'.resets \in Nat /\ trail'.late \in Nat
  BY <1>1 DEF Trails
<1> QED BY <1>3, <1>4, <1>5, <1>6

\* What a step adds on one side of the balance it takes from the same side,
\* or adds to the other.
LEMMA RiskBalance ==
    ASSUME ShapesOK, ShapesOK', CrossInv, IsFiniteSet(buffer'),
           \/ /\ SamplesAtRisk' <= SamplesAtRisk /\ QueuedStrays' <= QueuedStrays
              /\ ItemRisk' <= ItemRisk /\ BufferedStrays' <= BufferedStrays
              /\ HandRisk' + trail.resets <= HandRisk + trail'.resets
              /\ trail'.strays = trail.strays /\ trail'.late = trail.late
           \/ /\ SamplesAtRisk' + trail.late <= SamplesAtRisk + trail'.late
              /\ UNCHANGED <<HandRisk, QueuedStrays, ItemRisk, BufferedStrays>>
              /\ trail'.strays = trail.strays /\ trail'.resets = trail.resets
           \/ /\ SamplesAtRisk' + HandRisk' <= SamplesAtRisk + HandRisk
              /\ UNCHANGED <<QueuedStrays, ItemRisk, BufferedStrays, trail>>
           \/ /\ HandRisk' + QueuedStrays' + BufferedStrays'
                    <= HandRisk + QueuedStrays + BufferedStrays
              /\ UNCHANGED <<SamplesAtRisk, ItemRisk, trail>>
           \/ /\ QueuedStrays' + ItemRisk' <= QueuedStrays + ItemRisk
              /\ UNCHANGED <<SamplesAtRisk, HandRisk, BufferedStrays, trail>>
           \/ /\ ItemRisk' + BufferedStrays' + trail'.strays
                    <= ItemRisk + BufferedStrays + trail.strays
              /\ UNCHANGED <<SamplesAtRisk, HandRisk, QueuedStrays>>
              /\ trail'.late = trail.late /\ trail'.resets = trail.resets
    PROVE  trail'.strays + AtRisk' <= trail'.resets + trail'.late
<1>1. IsFiniteSet(buffer) /\ trail.strays + AtRisk <= trail.resets + trail.late
  BY DEF CrossInv
<1> DEFINE x == trail.strays
           x2 == trail'.strays
           r == trail.resets
           r2 == trail'.resets
           l == trail.late
           l2 == trail'.late
           a == SamplesAtRisk
           a2 == SamplesAtRisk'
           b == HandRisk
           b2 == HandRisk'
           c == QueuedStrays
           c2 == QueuedStrays'
           d == ItemRisk
           d2 == ItemRisk'
           e == BufferedStrays
           e2 == BufferedStrays'
<1>2. /\ x \in Nat /\ x2 \in Nat /\ r \in Nat /\ r2 \in Nat /\ l \in Nat /\ l2 \in Nat
      /\ a \in Nat /\ a2 \in Nat /\ b \in Nat /\ b2 \in Nat /\ c \in Nat /\ c2 \in Nat
      /\ d \in Nat /\ d2 \in Nat /\ e \in Nat /\ e2 \in Nat
  BY <1>1, CountsType
<1>3. x + (a + b + c + d + e) <= r + l
  BY <1>1 DEF AtRisk
<1>4. \/ a2 <= a /\ c2 <= c /\ d2 <= d /\ e2 <= e /\ b2 + r <= b + r2 /\ x2 = x /\ l2 = l
      \/ /\ a2 + l <= a + l2 /\ b2 = b /\ c2 = c /\ d2 = d /\ e2 = e
         /\ x2 = x /\ r2 = r
      \/ /\ a2 + b2 <= a + b /\ c2 = c /\ d2 = d /\ e2 = e
         /\ x2 = x /\ r2 = r /\ l2 = l
      \/ /\ b2 + c2 + e2 <= b + c + e /\ a2 = a /\ d2 = d
         /\ x2 = x /\ r2 = r /\ l2 = l
      \/ /\ c2 + d2 <= c + d /\ a2 = a /\ b2 = b /\ e2 = e
         /\ x2 = x /\ r2 = r /\ l2 = l
      \/ /\ d2 + e2 + x2 <= d + e + x /\ a2 = a /\ b2 = b /\ c2 = c
         /\ r2 = r /\ l2 = l
  OBVIOUS
<1>5. AtRisk' = a2 + b2 + c2 + d2 + e2
  BY DEF AtRisk
<1> HIDE DEF x, x2, r, r2, l, l2, a, a2, b, b2, c, c2, d, d2, e, e2
<1>6. x2 + (a2 + b2 + c2 + d2 + e2) <= r2 + l2
  BY <1>2, <1>3, <1>4
<1> QED BY <1>5, <1>6 DEF x2, r2, l2

\* A step that sends nothing, queues nothing and buffers nothing: a sample
\* comes at risk in DataProcessor's hand only by a field reset.
LEMMA QuietStep ==
    ASSUME ShapesOK, ShapesOK', CrossInv,
           trail'.strays = trail.strays, trail'.late = trail.late,
           trail'.resets >= trail.resets, SamplesAtRisk' <= SamplesAtRisk,
           pipe'.queue \in {<<>>, pipe.queue}, pipe'.item \in {<<>>, pipe.item},
           buffer' \in {{}, buffer},
           HandAtRisk' => HandAtRisk \/ trail'.resets = trail.resets + 1
    PROVE  /\ IsFiniteSet(buffer')
           /\ trail'.strays + AtRisk' <= trail'.resets + trail'.late
<1>1. IsFiniteSet(buffer) /\ IsFiniteSet(buffer')
  BY FS_EmptySet DEF CrossInv
<1>2. /\ QueuedStrays \in Nat /\ BufferedStrays \in Nat /\ ItemRisk \in Nat
      /\ trail.resets \in Nat /\ trail'.resets \in Nat /\ HandRisk \in Nat
  BY <1>1, CountsType
<1>3. QueuedStrays' <= QueuedStrays
  <2>1. CASE pipe'.queue = <<>>
    BY <1>2, <2>1, MarksEmpty DEF QueuedStrays
  <2>2. CASE pipe'.queue = pipe.queue
    BY <1>2, <2>2 DEF QueuedStrays
  <2> QED BY <2>1, <2>2
<1>4. BufferedStrays' <= BufferedStrays
  <2>1. {} \cap Strays = {} /\ Cardinality({}) = 0
    BY FS_EmptySet
  <2>2. CASE buffer' = {}
    BY <1>2, <2>1, <2>2 DEF BufferedStrays
  <2>3. CASE buffer' = buffer
    BY <1>2, <2>3 DEF BufferedStrays
  <2> QED BY <2>2, <2>3
<1>5. ItemRisk' <= ItemRisk
  BY DEF ItemAtRisk, ItemRisk, One
<1>6. HandRisk' + trail.resets <= HandRisk + trail'.resets
  <2>1. HandRisk \in {0, 1} /\ HandRisk' \in {0, 1}
    BY DEF HandRisk, One
  <2>2. HandRisk' <= HandRisk \/ trail'.resets = trail.resets + 1
    BY DEF HandRisk, One
  <2> QED BY <1>2, <2>1, <2>2
<1> QED BY <1>1, <1>3, <1>4, <1>5, <1>6, RiskBalance

\* The samples, the memory and the place of the network thread as before, as
\* far as the risk goes.
LEMMA CrossFrame ==
    ASSUME ClaimInv, ClaimInv', CrossInv,
           UNCHANGED <<site, pipe, buffer>>,
           trail'.strays = trail.strays, trail'.late = trail.late,
           trail'.resets = trail.resets,
           mem'.claim \in {None, mem.claim}, mem'.claim # mem.claim => mem.request # None,
           mem'.request # None => \/ mem.request # None
                                  \/ thread.at \in {"release_buffer", "release_commit", "release_ack"},
           thread'.at \in {"release_buffer", "release_commit", "release_ack"} =>
               \/ thread.at \in {"release_buffer", "release_commit", "release_ack"}
               \/ mem.request # None,
           Changing' => Changing
    PROVE  CrossInv'
<1>1. ShapesOK /\ ShapesOK' /\ ReleaseInv
  BY DEF ClaimInv
<1>2. HandAtRisk' => HandAtRisk
  BY DEF HandAtRisk
<1>3. IsFiniteSet(buffer) /\ buffer' = buffer
  BY DEF CrossInv
<1>4. trail'.resets >= trail.resets /\ SamplesAtRisk' <= SamplesAtRisk
  <2>1. SamplesAtRisk' = SamplesAtRisk
    BY DEF SamplesAtRisk
  <2> QED BY <1>1, <1>3, <2>1, CountsType
<1>5. IsFiniteSet(buffer') /\ trail'.strays + AtRisk' <= trail'.resets + trail'.late
  BY <1>1, <1>2, <1>4, QuietStep
<1>6. site'.field # None => site'.field = mem'.claim
  <2>1. mem.request # None => site.field = None
    BY <1>1 DEF ReleaseInv, SiteEmpty
  <2>2. site.field # None => site.field = mem.claim
    BY DEF CrossInv
  <2> QED BY <2>1, <2>2
<1>7. Changing' => site'.field = None
  BY DEF CrossInv
<1> QED BY <1>5, <1>6, <1>7 DEF CrossInv

\* The history after a step that leaves it or spends a fault.
LEMMA TrailFrame ==
    ASSUME trail \in Trails, \/ trail' = trail \/ Fault
    PROVE  trail'.strays = trail.strays /\ trail'.late = trail.late
           /\ trail'.resets = trail.resets
BY DEF Trails, Fault

\* The connection, the release handler's answers and the Hub move no sample.
LEMMA CrossUnmoved ==
    ASSUME ClaimInv, ClaimInv', CrossInv,
           \/ OnConnect \/ OnRefused \/ OnDisconnect \/ HandleRelease \/ ReleaseCommit
           \/ PublishReleaseAck \/ OnProvision \/ HubStep
    PROVE  CrossInv'
<1>0. ShapesOK /\ PhaseInv /\ ReleaseInv
  BY DEF ClaimInv
<1>1. trail \in Trails /\ mem \in Mems /\ disk \in Disks
  BY <1>0 DEF ShapesOK
<1>2. /\ UNCHANGED <<site, pipe, buffer>> /\ (trail' = trail \/ Fault)
  BY DEF OnConnect, OnRefused, OnDisconnect, HandleRelease, ReleaseCommit,
      PublishReleaseAck, OnProvision, HubStep
<1>3. /\ trail'.strays = trail.strays /\ trail'.late = trail.late
      /\ trail'.resets = trail.resets
  BY <1>1, <1>2, TrailFrame
<1>4. CASE OnConnect \/ HubStep
  <2>1. UNCHANGED <<mem, thread>>
    BY <1>4 DEF OnConnect, HubStep
  <2> QED BY <1>2, <1>3, <2>1, CrossFrame DEF Changing
<1>5. CASE OnDisconnect
  <2>1. thread' = thread /\ thread.at = "idle" /\ mem' = SwitchToBootstrap(mem, failures')
    BY <1>5 DEF OnDisconnect
  <2>2. mem'.claim = mem.claim /\ mem'.request = mem.request
    BY <1>1, <2>1, SwitchShape
  <2> QED BY <1>2, <1>3, <2>1, <2>2, CrossFrame DEF Changing
<1>6. CASE OnRefused
  <2>1. thread' = thread /\ thread.at = "idle"
    BY <1>6 DEF OnRefused
  <2>2. CASE MayRetire /\ RetireCredentials
    <3>1. mem'.claim = None /\ mem'.request = mem.request
      BY <1>1, <2>2, RetireShape
    <3>2. mem.request # None
      BY <2>2 DEF MayRetire
    <3> QED BY <1>2, <1>3, <2>1, <3>1, <3>2, CrossFrame DEF Changing
  <2>3. CASE mem' = SwitchToBootstrap(mem, failures')
    <3>1. mem'.claim = mem.claim /\ mem'.request = mem.request
      BY <1>1, <2>3, SwitchShape
    <3> QED BY <1>2, <1>3, <2>1, <3>1, CrossFrame DEF Changing
  <2> QED BY <1>6, <2>2, <2>3 DEF OnRefused
<1>7. CASE HandleRelease
  <2>1. thread.at = "idle" /\ hub.phase = "releasing" /\ hub.request # None
    BY <1>0, <1>7 DEF HandleRelease, PhaseInv
  <2>2. CASE /\ mem.request = hub.request
             /\ thread' = [at |-> "release_ack", request |-> hub.request]
             /\ UNCHANGED mem
    BY <1>2, <1>3, <2>1, <2>2, CrossFrame DEF Changing
  <2>3. CASE /\ mem' = [mem EXCEPT !.releasing = TRUE]
             /\ thread' = [at |-> "release_reset", request |-> hub.request]
    <3>1. mem'.claim = mem.claim /\ mem'.request = mem.request /\ thread'.at = "release_reset"
      BY <1>1, <2>3 DEF Mems
    <3> QED BY <1>2, <1>3, <3>1, CrossFrame DEF Changing
  <2>4. CASE UNCHANGED <<mem, thread>>
    BY <1>2, <1>3, <2>4, CrossFrame DEF Changing
  <2> QED BY <1>7, <2>2, <2>3, <2>4 DEF HandleRelease
<1>8. CASE ReleaseCommit
  <2>1. thread.at = "release_commit"
    BY <1>8 DEF ReleaseCommit
  <2>2. mem'.claim = mem.claim
    BY <1>1, <1>8 DEF ReleaseCommit, Mems
  <2>3. thread'.at \in {"release_ack", "idle"}
    <3>1. thread \in NetworkPlaces /\ "release_ack" \in ReleaseSteps /\ thread.at \in ReleaseSteps
      BY <1>0, <2>1 DEF ShapesOK, ReleaseSteps
    <3>2. CASE Goto("release_ack")
      BY <3>1, <3>2, GotoShape
    <3>3. CASE Idle
      BY <3>3 DEF Idle
    <3> QED BY <1>8, <3>2, <3>3 DEF ReleaseCommit
  <2> QED BY <1>2, <1>3, <2>1, <2>2, <2>3, CrossFrame DEF Changing
<1>9. CASE PublishReleaseAck
  <2>1. thread' = [at |-> "idle"] /\ UNCHANGED mem
    BY <1>9 DEF PublishReleaseAck, Idle
  <2> QED BY <1>2, <1>3, <2>1, CrossFrame DEF Changing
<1>10. CASE OnProvision
  <2>1. thread.at = "idle" /\ UNCHANGED <<mem, hub>>
    BY <1>10 DEF OnProvision
  <2>2. PICK action \in {"activate", "rotate_password"} :
            /\ hub.phase = (IF action = "activate" THEN "assigning" ELSE "owned")
            /\ \/ thread' = [action |-> action, claim |-> hub.claim, creds |-> hub.account,
                             at |-> IF ClaimChanged(action, hub.claim)
                                    THEN "claim_changed" ELSE "rotate_memory"]
               \/ UNCHANGED thread
    BY <1>10 DEF OnProvision
  <2>3. CASE UNCHANGED thread
    BY <1>2, <1>3, <2>1, <2>3, CrossFrame DEF Changing
  <2>4. CASE thread' = [action |-> action, claim |-> hub.claim, creds |-> hub.account,
                        at |-> IF ClaimChanged(action, hub.claim)
                               THEN "claim_changed" ELSE "rotate_memory"]
    <3>1. thread'.at \in {"claim_changed", "rotate_memory"}
      BY <2>4
    <3>2. ~Changing'
      <4>1. action = "activate" => hub.claim # None
        BY <1>0, <2>2 DEF PhaseInv
      <4> QED BY <2>1, <2>4, <4>1 DEF Changing, ClaimChanged
    <3> QED BY <1>2, <1>3, <2>1, <3>1, <3>2, CrossFrame
  <2> QED BY <2>2, <2>3, <2>4
<1> QED BY <1>4, <1>5, <1>6, <1>7, <1>8, <1>9, <1>10

\* Resetting the field empties the samples; only a completed reset may put
\* the sample in hand at risk.
LEMMA CrossReset ==
    ASSUME ClaimInv, ClaimInv', CrossInv, ReleaseReset \/ OnClaimChanged
    PROVE  CrossInv'
<1>0. ShapesOK /\ ShapesOK' /\ PhaseInv
  BY DEF ClaimInv
<1>1. trail \in Trails /\ site \in Sites /\ PipeOK /\ pipe \in Pipes /\ thread \in NetworkPlaces
  BY <1>0 DEF ShapesOK, PipeOK
<1>2. /\ UNCHANGED <<mem, buffer>> /\ (ResetField(TRUE) \/ ResetField(FALSE))
      /\ \/ ResetField(FALSE) /\ Fault /\ thread' = [at |-> "idle"]
         \/ trail' = [trail EXCEPT !.resets = @ + 1]
  BY DEF ReleaseReset, OnClaimChanged, Idle
<1>3. site'.field = None
  BY <1>1, <1>2, ResetFieldShape
<1>4. /\ pipe'.samples = <<>> /\ pipe'.queue = pipe.queue /\ pipe'.item = pipe.item
      /\ pipe'.hand = pipe.hand
  BY <1>1, <1>2 DEF ResetField, Pipes
<1>5. IsFiniteSet(buffer) /\ buffer' = buffer
  BY <1>2 DEF CrossInv
<1>6. SamplesAtRisk' <= SamplesAtRisk
  <2>1. SamplesAtRisk' = 0
    BY <1>4, MarksEmpty DEF SamplesAtRisk
  <2>2. SamplesAtRisk \in Nat
    BY <1>0, <1>5, CountsType
  <2> QED BY <2>1, <2>2
<1>7. CASE Fault /\ thread' = [at |-> "idle"]
  <2>1. /\ trail'.strays = trail.strays /\ trail'.late = trail.late
        /\ trail'.resets = trail.resets
    BY <1>1, <1>7, TrailFrame
  <2>2. HandAtRisk' => HandAtRisk
    BY <1>2, <1>4, <1>7 DEF HandAtRisk, Changing
  <2>3. trail'.resets >= trail.resets
    BY <1>1, <2>1 DEF Trails
  <2>4. IsFiniteSet(buffer') /\ trail'.strays + AtRisk' <= trail'.resets + trail'.late
    BY <1>0, <1>4, <1>5, <1>6, <2>1, <2>2, <2>3, QuietStep
  <2> QED BY <1>3, <2>4 DEF CrossInv
<1>8. CASE trail' = [trail EXCEPT !.resets = @ + 1]
  <2>1. /\ trail'.strays = trail.strays /\ trail'.late = trail.late
        /\ trail'.resets = trail.resets + 1 /\ trail.resets \in Nat
    BY <1>1, <1>8 DEF Trails
  <2>2. trail'.resets >= trail.resets
    BY <2>1
  <2>3. IsFiniteSet(buffer') /\ trail'.strays + AtRisk' <= trail'.resets + trail'.late
    BY <1>0, <1>4, <1>5, <1>6, <2>1, <2>2, QuietStep
  <2> QED BY <1>3, <2>3 DEF CrossInv
<1> QED BY <1>2, <1>7, <1>8

\* clear_claim_buffer takes strays away and adds none.
LEMMA CrossCleared ==
    ASSUME ClaimInv, ClaimInv', CrossInv, ClearClaimBuffer
    PROVE  CrossInv'
<1>0. ShapesOK /\ ShapesOK' /\ ReleaseInv
  BY DEF ClaimInv
<1>1. trail \in Trails /\ mem \in Mems /\ pipe \in Pipes
  BY <1>0 DEF ShapesOK, PipeOK
<1>2. /\ thread.at = "release_buffer" /\ UNCHANGED site
      /\ mem' = [mem EXCEPT !.releasing = TRUE]
      /\ pipe' = [pipe EXCEPT !.queue = <<>>]
      /\ (trail' = trail \/ Fault) /\ buffer' \in {{}, buffer}
  BY DEF ClearClaimBuffer
<1>3. /\ trail'.strays = trail.strays /\ trail'.late = trail.late
      /\ trail'.resets = trail.resets /\ trail.resets \in Nat
  BY <1>1, <1>2, TrailFrame DEF Trails
<1>4. /\ mem'.claim = mem.claim /\ mem'.request = mem.request
  BY <1>1, <1>2 DEF Mems
<1>5. /\ pipe'.samples = pipe.samples /\ pipe'.queue = <<>> /\ pipe'.item = pipe.item
      /\ pipe'.hand = pipe.hand
  BY <1>1, <1>2 DEF Pipes
<1>6. HandAtRisk' => HandAtRisk
  BY <1>2, <1>5 DEF HandAtRisk
<1>7. site.field = None
  BY <1>0, <1>2 DEF ReleaseInv
<1>8. IsFiniteSet(buffer) /\ IsFiniteSet(buffer')
  BY <1>2, FS_EmptySet DEF CrossInv
<1>9. SamplesAtRisk' <= SamplesAtRisk /\ trail'.resets >= trail.resets
  <2>1. SamplesAtRisk' = SamplesAtRisk
    BY <1>2, <1>5 DEF SamplesAtRisk
  <2> QED BY <1>0, <1>3, <1>8, <2>1, CountsType
<1>10. trail'.strays + AtRisk' <= trail'.resets + trail'.late
  BY <1>0, <1>2, <1>3, <1>5, <1>6, <1>9, QuietStep
<1> QED BY <1>2, <1>7, <1>8, <1>10 DEF CrossInv

\* A change of claim: what is now of another claim was at risk before.
LEMMA CrossRotated ==
    ASSUME ClaimInv, ClaimInv', CrossInv, RotateMemory
    PROVE  CrossInv'
<1>0. ShapesOK /\ ShapesOK'
  BY DEF ClaimInv
<1>1. trail \in Trails /\ mem \in Mems
  BY <1>0 DEF ShapesOK
<1>2. /\ thread.at = "rotate_memory" /\ UNCHANGED <<site, pipe, buffer>>
      /\ thread' = [at |-> "idle"] /\ (trail' = trail \/ Fault)
      /\ mem' = [mem EXCEPT !.creds = thread.creds, !.bootstrap = FALSE,
                    !.claim = IF thread.action = "activate" THEN thread.claim ELSE @,
                    !.request = IF thread.action = "activate" THEN None ELSE @,
                    !.releasing = @ /\ thread.action # "activate",
                    !.retired = @ /\ thread.action # "activate"]
  BY DEF RotateMemory, Idle
<1>3. /\ trail'.strays = trail.strays /\ trail'.late = trail.late
      /\ trail'.resets = trail.resets /\ trail.resets \in Nat
  BY <1>1, <1>2, TrailFrame DEF Trails
<1>4. /\ mem'.claim = (IF thread.action = "activate" THEN thread.claim ELSE mem.claim)
      /\ mem'.request = (IF thread.action = "activate" THEN None ELSE mem.request)
  BY <1>1, <1>2 DEF Mems
<1>5. HandAtRisk' => HandAtRisk
  BY <1>2, <1>4 DEF HandAtRisk, Changing
<1>6. site'.field # None => site'.field = mem'.claim
  BY <1>2, <1>4 DEF CrossInv, Changing
<1>7. IsFiniteSet(buffer) /\ IsFiniteSet(buffer')
  BY <1>2 DEF CrossInv
<1>8. SamplesAtRisk' <= SamplesAtRisk /\ trail'.resets >= trail.resets
  <2>1. SamplesAtRisk' = SamplesAtRisk
    BY <1>2 DEF SamplesAtRisk
  <2> QED BY <1>0, <1>3, <1>7, <2>1, CountsType
<1>9. trail'.strays + AtRisk' <= trail'.resets + trail'.late
  BY <1>0, <1>2, <1>3, <1>5, <1>8, QuietStep
<1>10. ~Changing'
  BY <1>2 DEF Changing
<1> QED BY <1>6, <1>7, <1>9, <1>10 DEF CrossInv

\* The end of the process forgets the samples in memory.
LEMMA CrossCrashed ==
    ASSUME ClaimInv, ClaimInv', CrossInv, Crash
    PROVE  CrossInv'
<1>0. ShapesOK /\ ShapesOK'
  BY DEF ClaimInv
<1>1. trail \in Trails /\ disk \in Disks /\ site \in Sites
  BY <1>0 DEF ShapesOK
<1>2. /\ mem' = FromDisk(disk) /\ pipe' = EmptyPipe /\ buffer' = buffer
      /\ thread' = [at |-> "idle"]
      /\ site' = [site EXCEPT !.field = IF disk.connectors THEN disk.claim ELSE None]
      /\ trail' = [trail EXCEPT !.faults = @ - 1,
                      !.interrupted = @ \/ disk.claim # mem.claim]
  BY DEF Crash, Idle
<1>3. /\ trail'.strays = trail.strays /\ trail'.late = trail.late
      /\ trail'.resets = trail.resets /\ trail.resets \in Nat
  BY <1>1, <1>2 DEF Trails
<1>4. mem'.claim = disk.claim /\ site'.field \in {disk.claim, None}
  BY <1>1, <1>2, FromDiskShape DEF Sites
<1>5. /\ pipe'.samples = <<>> /\ pipe'.queue = <<>> /\ pipe'.item = <<>> /\ pipe'.hand = None
  BY <1>2 DEF EmptyPipe
<1>6. IsFiniteSet(buffer) /\ IsFiniteSet(buffer')
  BY <1>2 DEF CrossInv
<1>7. SamplesAtRisk' <= SamplesAtRisk /\ trail'.resets >= trail.resets
  <2>1. SamplesAtRisk' = 0
    BY <1>5, MarksEmpty DEF SamplesAtRisk
  <2>2. SamplesAtRisk \in Nat
    BY <1>0, <1>6, CountsType
  <2> QED BY <1>3, <2>1, <2>2
<1>8. ~HandAtRisk' /\ ~Changing'
  BY <1>2, <1>5 DEF HandAtRisk, Changing
<1>9. trail'.strays + AtRisk' <= trail'.resets + trail'.late
  BY <1>0, <1>2, <1>3, <1>5, <1>7, <1>8, QuietStep
<1> QED BY <1>4, <1>6, <1>8, <1>9 DEF CrossInv

\* New connectors measure for the claim that is in force.
LEMMA CrossApplied ==
    ASSUME ClaimInv, ClaimInv', CrossInv, ApplyOwnerConfig
    PROVE  CrossInv'
<1>0. ShapesOK /\ ShapesOK'
  BY DEF ClaimInv
<1>1. trail \in Trails /\ pipe \in Pipes
  BY <1>0 DEF ShapesOK, PipeOK
<1>2. /\ thread.at = "idle" /\ UNCHANGED <<mem, thread, pipe, buffer, trail>>
      /\ site'.field = mem.claim /\ mem.claim # None
  BY DEF ApplyOwnerConfig
<1>3. trail.resets \in Nat /\ trail'.resets >= trail.resets
  BY <1>1, <1>2 DEF Trails
<1>4. SamplesAtRisk' <= SamplesAtRisk
  <2>1. pipe.samples \in Seq(Claim)
    BY <1>1 DEF Pipes
  <2>2. Foreign(mem.claim) \subseteq Foreign(site.field)
    BY DEF Foreign, CrossInv
  <2>3. Marks(pipe.samples, Foreign(mem.claim)) <= Marks(pipe.samples, Foreign(site.field))
    BY <2>1, <2>2, MarksMonotone
  <2> QED BY <1>2, <2>3 DEF SamplesAtRisk
<1>5. HandAtRisk' => HandAtRisk
  BY <1>2 DEF HandAtRisk, Changing
<1>6. IsFiniteSet(buffer') /\ trail'.strays + AtRisk' <= trail'.resets + trail'.late
  BY <1>0, <1>2, <1>3, <1>4, <1>5, QuietStep
<1> QED BY <1>2, <1>6 DEF CrossInv, Changing

\* A sample moves on by one place, keeping its mark.
LEMMA CrossSamples ==
    ASSUME ClaimInv, ClaimInv', CrossInv, SampleStep
    PROVE  CrossInv'
<1>0. ShapesOK /\ ShapesOK' /\ ReleaseInv
  BY DEF ClaimInv
<1>1. /\ trail \in Trails /\ pipe \in Pipes /\ buffer \subseteq Event /\ mem \in Mems
      /\ site \in Sites
  BY <1>0 DEF ShapesOK, PipeOK
<1>2. /\ pipe.samples \in Seq(Claim) /\ pipe.queue \in Seq(Event)
      /\ pipe.item \in Seq(Event) /\ pipe.hand \in Claim /\ mem.claim \in Claim
      /\ site.field \in Claim
      /\ trail.strays \in Nat /\ trail.late \in Nat /\ trail.resets \in Nat
  BY <1>1 DEF Pipes, Trails, Mems, Sites
<1>3. UNCHANGED <<mem, thread, site>>
  BY <1>0, SamplesFrame
<1>4. /\ IsFiniteSet(buffer) /\ (site.field # None => site.field = mem.claim)
      /\ (Changing => site.field = None)
  BY DEF CrossInv
<1>5. Changing' <=> Changing
  BY <1>3 DEF Changing
<1>6. ASSUME pipe'.hand = pipe.hand PROVE HandRisk' = HandRisk
  BY <1>3, <1>5, <1>6 DEF HandRisk, HandAtRisk
<1>7. ASSUME pipe'.samples = pipe.samples PROVE SamplesAtRisk' = SamplesAtRisk
  BY <1>3, <1>7 DEF SamplesAtRisk
<1>8. ASSUME pipe'.queue = pipe.queue PROVE QueuedStrays' = QueuedStrays
  BY <1>8 DEF QueuedStrays
<1>9. ASSUME pipe'.item = pipe.item PROVE ItemRisk' = ItemRisk
  BY <1>9 DEF ItemRisk, ItemAtRisk
<1>10. SamplesAtRisk \in Nat /\ QueuedStrays \in Nat /\ BufferedStrays \in Nat
  BY <1>2, <1>4, MarksType, BufferMarks DEF SamplesAtRisk, QueuedStrays, BufferedStrays
<1>11. ASSUME IsFiniteSet(buffer'),
              trail'.strays + AtRisk' <= trail'.resets + trail'.late
       PROVE  CrossInv'
  BY <1>3, <1>4, <1>5, <1>11 DEF CrossInv
<1>12. CASE Sample
  <2>1. /\ pipe' = [pipe EXCEPT !.samples = Append(@, site.field)]
        /\ site.field # None /\ UNCHANGED <<buffer, trail>>
    BY <1>12 DEF Sample
  <2>2. /\ pipe'.samples = Append(pipe.samples, site.field) /\ pipe'.hand = pipe.hand
        /\ pipe'.queue = pipe.queue /\ pipe'.item = pipe.item
    BY <1>1, <2>1 DEF Pipes
  <2>3. /\ Marks(pipe'.samples, Foreign(site.field))
             = Marks(pipe.samples, Foreign(site.field)) + One(site.field \in Foreign(site.field))
    BY <1>2, <2>2, MarksAppend
  <2>4. One(site.field \in Foreign(site.field)) = 0
    BY <2>1 DEF One, Foreign
  <2>5. SamplesAtRisk' + HandRisk' <= SamplesAtRisk + HandRisk
    <3>1. SamplesAtRisk' = SamplesAtRisk
      BY <1>3, <1>10, <2>3, <2>4 DEF SamplesAtRisk
    <3>2. HandRisk' = HandRisk /\ HandRisk \in Nat
      BY <1>6, <2>2 DEF HandRisk, One
    <3> QED BY <1>10, <3>1, <3>2
  <2>6. UNCHANGED <<QueuedStrays, ItemRisk, BufferedStrays, trail>>
    BY <1>8, <1>9, <2>1, <2>2 DEF BufferedStrays
  <2> QED BY <1>0, <1>4, <1>11, <2>1, <2>5, <2>6, RiskBalance
<1>13. CASE LateSample
  <2>1. /\ pipe' = [pipe EXCEPT !.samples = Append(@, mem.claim)]
        /\ trail' = [trail EXCEPT !.faults = @ - 1, !.late = @ + 1] /\ UNCHANGED buffer
    BY <1>13 DEF LateSample
  <2>2. /\ pipe'.samples = Append(pipe.samples, mem.claim) /\ pipe'.hand = pipe.hand
        /\ pipe'.queue = pipe.queue /\ pipe'.item = pipe.item
    BY <1>1, <2>1 DEF Pipes
  <2>3. /\ trail'.strays = trail.strays /\ trail'.resets = trail.resets
        /\ trail'.late = trail.late + 1
    BY <1>1, <2>1 DEF Trails
  <2>4. /\ Marks(pipe'.samples, Foreign(site.field))
             = Marks(pipe.samples, Foreign(site.field)) + One(mem.claim \in Foreign(site.field))
    BY <1>2, <2>2, MarksAppend
  <2>5. SamplesAtRisk' + trail.late <= SamplesAtRisk + trail'.late
    <3> DEFINE o == One(mem.claim \in Foreign(site.field))
    <3>1. o \in Nat /\ o <= 1
      BY DEF One
    <3>2. SamplesAtRisk' = SamplesAtRisk + o
      BY <1>3, <2>4 DEF SamplesAtRisk
    <3> HIDE DEF o
    <3> QED BY <1>2, <1>10, <2>3, <3>1, <3>2
  <2>6. UNCHANGED <<HandRisk, QueuedStrays, ItemRisk, BufferedStrays>>
    BY <1>6, <1>8, <1>9, <2>1, <2>2 DEF BufferedStrays
  <2> QED BY <1>0, <1>4, <1>11, <2>1, <2>3, <2>5, <2>6, RiskBalance
<1>14. CASE TakeSample
  <2>1. /\ pipe' = [pipe EXCEPT !.hand = Head(pipe.samples), !.samples = Tail(@)]
        /\ pipe.hand = None /\ pipe.samples # <<>> /\ UNCHANGED <<buffer, trail>>
    BY <1>14 DEF TakeSample
  <2>2. /\ pipe'.samples = Tail(pipe.samples) /\ pipe'.hand = Head(pipe.samples)
        /\ pipe'.queue = pipe.queue /\ pipe'.item = pipe.item
    BY <1>1, <2>1 DEF Pipes
  <2> DEFINE h == Head(pipe.samples)
             o == One(h \in Foreign(site.field))
  <2>3. Marks(Tail(pipe.samples), Foreign(site.field)) + o
            <= Marks(pipe.samples, Foreign(site.field))
    BY <1>2, <2>1, MarksTail
  <2>4. h \in Claim
    BY <1>2, <2>1
  <2>5. HandRisk = 0
    BY <2>1 DEF HandRisk, HandAtRisk, One
  <2>6. HandRisk' <= o
    <3>1. CASE h \in Foreign(site.field)
      BY <3>1 DEF HandRisk, One
    <3>2. CASE h \notin Foreign(site.field)
      <4>1. site.field # None /\ h = site.field /\ h = mem.claim
        BY <1>4, <2>4, <3>2 DEF Foreign
      <4>2. mem.request = None /\ ~Changing
        BY <1>0, <1>4, <4>1 DEF ReleaseInv, SiteEmpty
      <4>3. thread.at \notin {"release_buffer", "release_commit", "release_ack"}
        BY <1>0, <4>1 DEF ReleaseInv, SiteEmpty
      <4>4. ~HandAtRisk'
        BY <1>3, <1>5, <2>2, <4>1, <4>2, <4>3 DEF HandAtRisk
      <4> QED BY <4>4 DEF HandRisk, One
    <3> QED BY <3>1, <3>2
  <2>7. SamplesAtRisk' + HandRisk' <= SamplesAtRisk + HandRisk
    <3>1. /\ SamplesAtRisk' = Marks(Tail(pipe.samples), Foreign(site.field))
      BY <1>3, <2>2 DEF SamplesAtRisk
    <3>2. SamplesAtRisk' + o <= SamplesAtRisk
      BY <2>3, <3>1 DEF SamplesAtRisk
    <3>3. o \in Nat /\ HandRisk' \in Nat
      BY DEF One, HandRisk
    <3>4. SamplesAtRisk' \in Nat
      BY <1>0, <1>4, <2>1, CountsType
    <3> DEFINE a == SamplesAtRisk
               a2 == SamplesAtRisk'
               b2 == HandRisk'
    <3>5. /\ a \in Nat /\ a2 \in Nat /\ b2 \in Nat /\ o \in Nat /\ a2 + o <= a /\ b2 <= o
      BY <1>10, <2>6, <3>2, <3>3, <3>4
    <3> HIDE DEF o, a, a2, b2
    <3>6. a2 + b2 <= a + 0
      BY <3>5
    <3> QED BY <2>5, <3>6 DEF a, a2, b2
  <2>8. UNCHANGED <<QueuedStrays, ItemRisk, BufferedStrays, trail>>
    BY <1>8, <1>9, <2>1, <2>2 DEF BufferedStrays
  <2> QED BY <1>0, <1>4, <1>11, <2>1, <2>7, <2>8, RiskBalance
<1>15. CASE ProcessSample
  <2> DEFINE e == [src |-> pipe.hand, tag |-> mem.claim]
             o == One(e \in Strays)
  <2>1. e \in Event /\ pipe.hand # None
    BY <1>2, <1>15 DEF Event, ProcessSample
  <2>2. o \in Nat /\ HandRisk \in Nat /\ o <= HandRisk
    <3>1. e \in Strays => HandAtRisk
      BY <2>1 DEF Strays, HandAtRisk
    <3> QED BY <3>1 DEF One, HandRisk
  <2>3. pipe'.samples = pipe.samples /\ pipe'.item = pipe.item /\ pipe'.hand = None
    BY <1>1, <1>15 DEF ProcessSample, Pipes
  <2>4. HandRisk' = 0
    BY <2>3 DEF HandRisk, HandAtRisk, One
  <2>5. /\ IsFiniteSet(buffer')
        /\ QueuedStrays' + BufferedStrays' <= o + QueuedStrays + BufferedStrays
    <3>1. CASE pipe' = [pipe EXCEPT !.hand = None] /\ buffer' \in {buffer, buffer \cup {e}}
      <4>1. QueuedStrays' = QueuedStrays
        BY <1>1, <1>8, <3>1 DEF Pipes
      <4>2. IsFiniteSet(buffer \cup {e}) /\ Cardinality((buffer \cup {e}) \cap Strays) \in Nat
            /\ Cardinality((buffer \cup {e}) \cap Strays)
                  <= Cardinality(buffer \cap Strays) + o
        BY <1>4, BufferMarks
      <4>3. /\ IsFiniteSet(buffer') /\ BufferedStrays' \in Nat
            /\ BufferedStrays' <= BufferedStrays + o
        <5>1. CASE buffer' = buffer
          BY <1>4, <1>10, <2>2, <5>1 DEF BufferedStrays
        <5>2. CASE buffer' = buffer \cup {e}
          BY <4>2, <5>2 DEF BufferedStrays
        <5> QED BY <3>1, <5>1, <5>2
      <4> DEFINE c == QueuedStrays
                 d == BufferedStrays
                 d2 == BufferedStrays'
      <4>4. c \in Nat /\ d \in Nat /\ d2 \in Nat /\ o \in Nat /\ d2 <= d + o
        BY <1>10, <2>2, <4>3
      <4> HIDE DEF o, c, d, d2
      <4>5. c + d2 <= o + c + d
        BY <4>4
      <4> QED BY <4>1, <4>3, <4>5 DEF c, d, d2
    <3>2. CASE /\ pipe' = [pipe EXCEPT !.hand = None, !.queue = Append(@, e)]
               /\ UNCHANGED buffer
      <4>1. pipe'.queue = Append(pipe.queue, e)
        BY <1>1, <3>2 DEF Pipes
      <4>2. Marks(pipe'.queue, Strays) = Marks(pipe.queue, Strays) + o
        BY <1>2, <2>1, <4>1, MarksAppend
      <4>3. QueuedStrays' = QueuedStrays + o /\ BufferedStrays' = BufferedStrays
        BY <3>2, <4>2 DEF QueuedStrays, BufferedStrays
      <4> HIDE DEF o
      <4> QED BY <1>4, <1>10, <2>2, <3>2, <4>3
    <3>3. \/ pipe' = [pipe EXCEPT !.hand = None] /\ buffer' \in {buffer, buffer \cup {e}}
          \/ /\ pipe' = [pipe EXCEPT !.hand = None, !.queue = Append(@, e)]
             /\ UNCHANGED buffer
      BY <1>15 DEF ProcessSample, BufferEvent
    <3> QED BY <3>1, <3>2, <3>3
  <2>6. HandRisk' + QueuedStrays' + BufferedStrays' <= HandRisk + QueuedStrays + BufferedStrays
    <3>1. QueuedStrays' \in Nat /\ BufferedStrays' \in Nat
      BY <1>0, <1>4, <2>5, CountsType
    <3> DEFINE b == HandRisk
               c == QueuedStrays
               c2 == QueuedStrays'
               d == BufferedStrays
               d2 == BufferedStrays'
    <3>2. /\ b \in Nat /\ c \in Nat /\ c2 \in Nat /\ d \in Nat /\ d2 \in Nat /\ o \in Nat
          /\ o <= b /\ c2 + d2 <= o + c + d
      BY <1>10, <2>2, <2>5, <3>1
    <3> HIDE DEF o, b, c, c2, d, d2
    <3>3. 0 + c2 + d2 <= b + c + d
      BY <3>2
    <3> QED BY <2>4, <3>3 DEF b, c, c2, d, d2
  <2>7. UNCHANGED <<SamplesAtRisk, ItemRisk, trail>>
    BY <1>7, <1>9, <1>15, <2>3 DEF ProcessSample
  <2> QED BY <1>0, <1>11, <2>5, <2>6, <2>7, RiskBalance
<1>16. CASE LoopTake
  <2> DEFINE e == Head(pipe.queue)
             o == One(e \in Strays)
  <2>1. /\ pipe.item = <<>> /\ pipe.queue # <<>> /\ UNCHANGED <<buffer, trail>>
        /\ pipe' = [pipe EXCEPT !.queue = Tail(@),
                      !.item = IF e.tag = mem.claim /\ ~mem.releasing THEN <<e>> ELSE <<>>]
    BY <1>16 DEF LoopTake
  <2>2. /\ pipe'.queue = Tail(pipe.queue) /\ pipe'.item \in {<<>>, <<e>>}
        /\ pipe'.samples = pipe.samples /\ pipe'.hand = pipe.hand
    BY <1>1, <2>1 DEF Pipes
  <2>3. Marks(Tail(pipe.queue), Strays) + o <= Marks(pipe.queue, Strays)
    BY <1>2, <2>1, MarksTail
  <2>4. o \in Nat /\ ItemRisk = 0 /\ ItemRisk' \in Nat
    BY <2>1 DEF One, ItemRisk, ItemAtRisk
  <2>5. ItemRisk' <= o
    <3>1. CASE pipe'.item = <<>>
      BY <3>1 DEF ItemRisk, ItemAtRisk, One
    <3>2. CASE pipe'.item = <<e>>
      <4>1. pipe'.item[1] = e
        BY <3>2
      <4> QED BY <4>1 DEF ItemRisk, ItemAtRisk, One
    <3> QED BY <2>2, <3>1, <3>2
  <2>6. QueuedStrays' + ItemRisk' <= QueuedStrays + ItemRisk
    <3>1. QueuedStrays' + o <= QueuedStrays
      BY <2>2, <2>3 DEF QueuedStrays
    <3>2. QueuedStrays' \in Nat
      BY <1>0, <1>4, <2>1, CountsType
    <3> DEFINE c == QueuedStrays
               c2 == QueuedStrays'
               b2 == ItemRisk'
    <3>3. /\ c \in Nat /\ c2 \in Nat /\ b2 \in Nat /\ o \in Nat /\ c2 + o <= c /\ b2 <= o
      BY <1>10, <2>4, <2>5, <3>1, <3>2
    <3> HIDE DEF o, c, c2, b2
    <3>4. c2 + b2 <= c + 0
      BY <3>3
    <3> QED BY <2>4, <3>4 DEF c, c2, b2
  <2>7. UNCHANGED <<SamplesAtRisk, HandRisk, BufferedStrays, trail>>
    BY <1>6, <1>7, <2>1, <2>2 DEF BufferedStrays
  <2> QED BY <1>0, <1>4, <1>11, <2>1, <2>6, <2>7, RiskBalance
<1>17. CASE LoopSend
  <2> DEFINE e == pipe.item[1]
             o == One(e \in Strays)
  <2>1. /\ pipe.item # <<>> /\ pipe' = [pipe EXCEPT !.item = <<>>]
        /\ \/ Sent(e) /\ UNCHANGED buffer
           \/ BufferEvent(e) /\ UNCHANGED trail
    BY <1>17 DEF LoopSend
  <2>2. /\ pipe'.queue = pipe.queue /\ pipe'.item = <<>>
        /\ pipe'.samples = pipe.samples /\ pipe'.hand = pipe.hand
    BY <1>1, <2>1 DEF Pipes
  <2>3. e \in Event
    BY <1>2, <2>1
  <2>4. ItemRisk = o /\ ItemRisk' = 0 /\ o \in Nat
    BY <2>1, <2>2 DEF ItemRisk, ItemAtRisk, One
  <2>5. /\ trail'.late = trail.late /\ trail'.resets = trail.resets
        /\ IsFiniteSet(buffer')
        /\ BufferedStrays' + trail'.strays <= o + BufferedStrays + trail.strays
    <3>1. CASE Sent(e) /\ UNCHANGED buffer
      <4>1. e \in Strays <=> e.src # e.tag
        BY <2>3 DEF Strays
      <4>2. trail' = [trail EXCEPT !.strays = IF e.src = e.tag THEN @ ELSE @ + 1]
        BY <3>1 DEF Sent
      <4> HIDE DEF e
      <4>3. /\ trail'.late = trail.late /\ trail'.resets = trail.resets
            /\ trail'.strays = IF e.src = e.tag THEN trail.strays ELSE trail.strays + 1
        BY <1>1, <4>2 DEF Trails
      <4>4. trail'.strays = trail.strays + o
        BY <1>2, <4>1, <4>3 DEF One
      <4>5. BufferedStrays' = BufferedStrays
        BY <3>1 DEF BufferedStrays
      <4> DEFINE x == trail.strays
                 d == BufferedStrays
      <4>6. x \in Nat /\ d \in Nat /\ o \in Nat
        BY <1>2, <1>10, <2>4
      <4> HIDE DEF o, x, d
      <4>7. d + (x + o) <= o + d + x
        BY <4>6
      <4> QED BY <1>4, <3>1, <4>3, <4>4, <4>5, <4>7 DEF x, d
    <3>2. CASE BufferEvent(e) /\ UNCHANGED trail
      <4>1. IsFiniteSet(buffer \cup {e}) /\ Cardinality((buffer \cup {e}) \cap Strays) \in Nat
            /\ Cardinality((buffer \cup {e}) \cap Strays)
                  <= Cardinality(buffer \cap Strays) + o
        BY <1>4, BufferMarks
      <4>2. /\ IsFiniteSet(buffer') /\ BufferedStrays' \in Nat
            /\ BufferedStrays' <= BufferedStrays + o
        <5>1. CASE buffer' = buffer
          BY <1>4, <1>10, <2>4, <5>1 DEF BufferedStrays
        <5>2. CASE buffer' = buffer \cup {e}
          BY <4>1, <5>2 DEF BufferedStrays
        <5> QED BY <3>2, <5>1, <5>2 DEF BufferEvent
      <4> HIDE DEF o
      <4> QED BY <1>2, <1>10, <2>4, <3>2, <4>2
    <3> QED BY <2>1, <3>1, <3>2
  <2>6. ItemRisk' + BufferedStrays' + trail'.strays <= ItemRisk + BufferedStrays + trail.strays
    <3>1. BufferedStrays' \in Nat /\ trail'.strays \in Nat
      BY <1>0, <1>4, <2>5, CountsType
    <3> HIDE DEF o
    <3> QED BY <1>2, <1>10, <2>4, <2>5, <3>1
  <2>7. UNCHANGED <<SamplesAtRisk, HandRisk, QueuedStrays>>
    BY <1>6, <1>7, <1>8, <2>2
  <2> QED BY <1>0, <1>11, <2>5, <2>6, <2>7, RiskBalance
<1>18. CASE Replay
  <2>1. PICK e \in buffer : /\ buffer' = buffer \ {e}
                            /\ Sent(e) \/ trail' = trail
    BY <1>18 DEF Replay
  <2> DEFINE o == One(e \in Strays)
  <2>2. pipe' = pipe
    BY <1>18 DEF Replay
  <2>3. /\ IsFiniteSet(buffer') /\ BufferedStrays' \in Nat
        /\ BufferedStrays' + o = BufferedStrays
    BY <1>4, <2>1, BufferMarks DEF BufferedStrays
  <2>4. o \in Nat
    BY DEF One
  <2>5. /\ trail'.late = trail.late /\ trail'.resets = trail.resets
        /\ trail'.strays \in Nat /\ trail'.strays <= trail.strays + o
    <3>1. CASE Sent(e)
      <4>1. e \in Strays <=> e.src # e.tag
        BY <1>1 DEF Strays
      <4>2. /\ trail'.late = trail.late /\ trail'.resets = trail.resets
            /\ trail'.strays = IF e.src = e.tag THEN trail.strays ELSE trail.strays + 1
        BY <1>1, <3>1 DEF Sent, Trails
      <4> QED BY <1>2, <4>1, <4>2 DEF One
    <3>2. CASE trail' = trail
      <4> HIDE DEF o
      <4> QED BY <1>2, <2>4, <3>2
    <3> QED BY <2>1, <3>1, <3>2
  <2>6. ItemRisk' = ItemRisk /\ ItemRisk \in Nat
    BY <1>9, <2>2 DEF ItemRisk, One
  <2>7. ItemRisk' + BufferedStrays' + trail'.strays <= ItemRisk + BufferedStrays + trail.strays
    <3> DEFINE x == trail.strays
               x2 == trail'.strays
               b == ItemRisk
               d == BufferedStrays
               d2 == BufferedStrays'
    <3>1. /\ x \in Nat /\ x2 \in Nat /\ b \in Nat /\ d \in Nat /\ d2 \in Nat /\ o \in Nat
          /\ d2 + o = d /\ x2 <= x + o
      BY <1>2, <1>10, <2>3, <2>4, <2>5, <2>6
    <3> HIDE DEF o, x, x2, b, d, d2
    <3>2. b + d2 + x2 <= b + d + x
      BY <3>1
    <3> QED BY <2>6, <3>2 DEF x, x2, b, d, d2
  <2>8. UNCHANGED <<SamplesAtRisk, HandRisk, QueuedStrays>>
    BY <1>6, <1>7, <1>8, <2>2
  <2> QED BY <1>0, <1>11, <2>3, <2>5, <2>7, <2>8, RiskBalance
<1> QED BY <1>12, <1>13, <1>14, <1>15, <1>16, <1>17, <1>18 DEF SampleStep

\* Nothing crossed before the first claim ...
LEMMA CrossInitial == ClaimInit => CrossInv
<1> SUFFICES ASSUME ClaimInit PROVE CrossInv
  OBVIOUS
<1>1. /\ buffer = {} /\ pipe = EmptyPipe /\ thread = [at |-> "idle"] /\ mem = FromDisk(disk)
      /\ trail = [strays |-> 0, resets |-> 0, late |-> 0, interrupted |-> FALSE,
                  faults |-> ClaimFaults]
  BY DEF ClaimInit
<1>2. site.field = disk.claim
  BY DEF ClaimInit
<1>3. mem.claim = disk.claim
  BY <1>1 DEF FromDisk
<1>4. pipe.samples = <<>> /\ pipe.queue = <<>> /\ pipe.item = <<>> /\ pipe.hand = None
  BY <1>1 DEF EmptyPipe
<1>5. SamplesAtRisk = 0 /\ QueuedStrays = 0
  BY <1>4, MarksEmpty DEF SamplesAtRisk, QueuedStrays
<1>6. BufferedStrays = 0 /\ IsFiniteSet(buffer)
  <2>1. buffer \cap Strays = {}
    BY <1>1
  <2> QED BY <1>1, <2>1, FS_EmptySet DEF BufferedStrays
<1>7. HandRisk = 0 /\ ItemRisk = 0
  BY <1>4 DEF HandRisk, HandAtRisk, ItemRisk, ItemAtRisk, One
<1>8. trail.strays + AtRisk <= trail.resets + trail.late
  BY <1>1, <1>5, <1>6, <1>7 DEF AtRisk
<1> QED BY <1>1, <1>2, <1>3, <1>6, <1>8 DEF CrossInv, Changing

\* ... and every step keeps the balance.
LEMMA CrossStep ==
    ASSUME ClaimInv, ClaimInv', CrossInv, [ClaimNext]_claimVars
    PROVE  CrossInv'
<1>1. CASE UNCHANGED claimVars
  BY <1>1 DEF claimVars, CrossInv, AtRisk, SamplesAtRisk, HandRisk, HandAtRisk,
      QueuedStrays, ItemRisk, ItemAtRisk, BufferedStrays, Changing
<1>2. CASE ClaimNext
  BY <1>2, CrossUnmoved, CrossReset, CrossCleared, CrossRotated, CrossCrashed,
      CrossApplied, CrossSamples DEF ClaimNext, NetworkThread, SampleStep
<1> QED BY <1>1, <1>2

\* What the balance says of the samples that have already crossed.
LEMMA CrossBounds == ClaimInv /\ CrossInv => OnlyStragglersCross
<1> SUFFICES ASSUME ClaimInv, CrossInv PROVE OnlyStragglersCross
  OBVIOUS
<1>1. ShapesOK /\ IsFiniteSet(buffer) /\ trail.strays + AtRisk <= trail.resets + trail.late
  BY DEF ClaimInv, CrossInv
<1>2. /\ trail.strays \in Nat /\ trail.resets \in Nat /\ trail.late \in Nat
  BY <1>1 DEF ShapesOK, Trails
<1>3. pipe.samples \in Seq(Claim) /\ pipe.queue \in Seq(Event)
  BY <1>1 DEF ShapesOK, PipeOK, Pipes
<1>4. /\ SamplesAtRisk \in Nat /\ QueuedStrays \in Nat /\ BufferedStrays \in Nat
  BY <1>1, <1>3, MarksType, BufferMarks DEF SamplesAtRisk, QueuedStrays, BufferedStrays
<1>5. HandRisk \in Nat /\ ItemRisk \in Nat
  BY DEF HandRisk, ItemRisk, One
<1>6. AtRisk \in Nat
  BY <1>4, <1>5 DEF AtRisk
<1> QED BY <1>1, <1>2, <1>6 DEF OnlyStragglersCross

\* A sample measured for one claim goes out under another at most once per
\* field reset and once per connector thread that outlived its close().
THEOREM StragglersAreBounded == ClaimSpec => []OnlyStragglersCross
<1>1. ClaimInv /\ ClaimInv' /\ CrossInv /\ [ClaimNext]_claimVars => CrossInv'
  BY CrossStep
<1> QED BY <1>1, CrossBounds, ClaimInvariant, CrossInitial, PTL DEF ClaimSpec

=============================================================================
