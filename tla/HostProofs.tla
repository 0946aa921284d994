----------------------------- MODULE HostProofs -----------------------------
(***************************************************************************)
(* The TUN actor's restart protocol for every configuration and any number *)
(* of device errors, and the process with the whole TUN actor as an        *)
(* implementation of the coordinator's specification, which knows only its *)
(* packets.                                                                *)
(***************************************************************************)
EXTENDS Host, CoordinatorProofs

-----------------------------------------------------------------------------
\* The process implements the coordinator's open specification.

\* run() and the workers leave the coordinator alone, except for the packets.
LEMMA TunStepsAreQuiet ==
    ASSUME NEW n \in Local, RunStep(n) \/ WorkerStep(n)
    PROVE  TunStep(n) \/ UNCHANGED coordVars
<1>1. CASE RunStep(n)
  BY <1>1 DEF RunStep, CreateErr, Wake, CreateOk, Joined, SelectEnds
<1>2. CASE WorkerStep(n)
  BY <1>2 DEF WorkerStep, WriterStep, ReaderReads, ReaderClosed, WorkerFails, WriterTakes,
     WriteDone, WriterClosed, WorkerStops, WorkerReturns, TunStep
<1> QED
  BY <1>1, <1>2

\* A step of the process is a step of the open specification, or none of it.
LEMMA HostStepSimulates ==
    ASSUME [HostNext]_hostVars
    PROVE  [CoordNext]_coordVars
<1>1. CASE UNCHANGED hostVars
  BY <1>1 DEF hostVars
<1>2. ASSUME NEW n \in Local,
             Launch(n) \/ Exit(n) \/ HostCoord(n) \/ CoordReturns(n) \/ CoordFails(n)
                \/ HostIroh(n)
      PROVE  CoordStep(n) \/ CoordEnv(n) \/ UNCHANGED coordVars
  BY <1>2 DEF Launch, Exit, HostCoord, CoordReturns, CoordFails, HostIroh, CoordEnv
<1> QED
  BY <1>1, <1>2, TunStepsAreQuiet DEF HostNext, CoordNext

\* With the whole TUN actor the process does what the open specification of
\* the coordinator allows: TunRead and TunWrite are all that restarts, errors
\* and stop signals of the TUN actor can do to it.
THEOREM HostImplementsCoordinator == HostSpec => CoordSpec
<1>1. HostInit => CoordInit
  BY DEF HostInit
<1> QED
  BY <1>1, HostStepSimulates, PTL DEF HostSpec, CoordSpec

-----------------------------------------------------------------------------
\* The invariant of the restart protocol.

\* While run() waits for a first report nobody has been told to stop, so every
\* report is a real one; what it waits for is still to come or there.
SelectOK(n) ==
    /\ stop[n] = {}
    /\ \A w \in Worker : /\ end_data[n][w] # "Info"
                         /\ Serving(n, w) \/ end_data[n][w] # "empty"

\* While it waits for the second report, the first worker is gone.
JoinOK(n) ==
    /\ tun[n].event \in {"ReconnectRequired", "FatalError"}
    /\ ~Serving(n, Other(tun[n].joins))
    /\ \/ end_data[n][tun[n].joins] # "empty"
       \/ Serving(n, tun[n].joins) /\ tun[n].joins \in stop[n]

RunOK(n) ==
    /\ ~running[n] => tun[n].at = "off"
    /\ \A w \in Worker : end_data[n][w] # "empty" => ~Serving(n, w)
    /\ tun[n].at \notin {"select", "join"} => \A w \in Worker : ~Serving(n, w)
    /\ tun[n].at = "select" => SelectOK(n)
    /\ tun[n].at = "join" => JoinOK(n)

HostInv ==
    /\ CoordInv
    /\ TunTypeOK
    /\ \A n \in Local : RunOK(n)

\* The other nodes of the specification are not touched by a step of n.
LEMMA OthersKeep ==
    ASSUME NEW m, RunOK(m), tun'[m] = tun[m], worker'[m] = worker[m], stop'[m] = stop[m],
           end_data'[m] = end_data[m], running'[m] = running[m]
    PROVE  RunOK(m)'
BY DEF RunOK, SelectOK, JoinOK, Serving

\* There are two workers, and each is the other of the other.
LEMMA OtherWorker ==
    ASSUME NEW w \in Worker
    PROVE  Other(w) \in Worker /\ Other(w) # w /\ Other(Other(w)) = w
BY DEF Worker, Other

\* A process that does not run has no workers and no device.
LEMMA HostInitEstablishes ==
    ASSUME HostInit
    PROVE  HostInv
<1>1. CoordInv
  BY CoordInitEstablishes DEF HostInit
<1>2. TunTypeOK
  BY TunAssumption DEF HostInit, TunInit, TunTypeOK, TunOff, NoWorkers, NoReports, Worker, TunEvent
<1>3. ASSUME NEW n \in Local PROVE RunOK(n)
  BY DEF HostInit, TunInit, RunOK, TunOff, NoWorkers, NoReports, Serving
<1> QED
  BY <1>1, <1>2, <1>3 DEF HostInv

\* What GoTo leaves alone.
LEMMA GoToFacts ==
    ASSUME TunTypeOK, NEW n \in Local, NEW place, GoTo(n, place),
           place \in {"off", "create", "sleep", "select", "join", "ended"}
    PROVE  /\ tun' \in [Local -> [at : {"off", "create", "sleep", "select", "join", "ended"},
                                  event : TunEvent, joins : Worker]]
           /\ tun'[n].at = place
           /\ \A m \in Local : m # n => tun'[m] = tun[m]
<1>1. tun' = [tun EXCEPT ![n] = [tun[n] EXCEPT !.at = place]]
  BY DEF GoTo
<1>2. tun[n] \in [at : {"off", "create", "sleep", "select", "join", "ended"},
                 event : TunEvent, joins : Worker]
  BY DEF TunTypeOK
<1>3. [tun[n] EXCEPT !.at = place] = [at |-> place, event |-> tun[n].event, joins |-> tun[n].joins]
  BY <1>2
<1> QED
  BY <1>1, <1>2, <1>3 DEF TunTypeOK

\* run() moves to its next place.
LEMMA RunStepKeeps ==
    ASSUME HostInv, NEW n \in Local, RunStep(n)
    PROVE  TunTypeOK' /\ \A m \in Local : RunOK(m)'
<1> USE DEF HostInv
<1>0. UNCHANGED running
  BY DEF RunStep, CreateErr, Wake, CreateOk, Joined, SelectEnds, coordVars
<1>1. CASE CreateErr(n) \/ Wake(n)
  <2>0. PICK place \in {"create", "sleep"} : GoTo(n, place)
    BY <1>1 DEF CreateErr, Wake
  <2>1. TunTypeOK'
    BY <1>1, <2>0, GoToFacts DEF CreateErr, Wake, TunTypeOK
  <2>2. RunOK(n)'
    BY <1>0, <1>1, <2>0, GoToFacts DEF CreateErr, Wake, RunOK, Serving
  <2> QED
    BY <1>0, <1>1, <2>0, <2>1, <2>2, GoToFacts, OthersKeep DEF CreateErr, Wake
<1>2. CASE CreateOk(n)
  <2>1. TunTypeOK'
    BY <1>2, GoToFacts DEF CreateOk, TunTypeOK, NoReports
  <2>2. /\ tun'[n].at = "select" /\ worker'[n] = [w \in Worker |-> "loop"]
        /\ stop'[n] = {} /\ end_data'[n] = NoReports
    BY <1>2, GoToFacts DEF CreateOk, TunTypeOK
  <2>3. \A m \in Local : m # n =>
          /\ tun'[m] = tun[m] /\ worker'[m] = worker[m] /\ stop'[m] = stop[m]
          /\ end_data'[m] = end_data[m]
    BY <1>2, GoToFacts DEF CreateOk, TunTypeOK
  <2>4. RunOK(n)'
    <3>1. ~running'[n] => tun'[n].at = "off"
      BY <1>0, <1>2 DEF CreateOk, RunOK
    <3> QED
      BY <2>2, <3>1 DEF RunOK, SelectOK, Serving, NoReports
  <2> QED
    BY <1>0, <2>1, <2>3, <2>4, OthersKeep
<1>3. CASE Joined(n)
  <2>0. PICK place \in {"ended", "create"} : GoTo(n, place)
    BY <1>3 DEF Joined
  <2>1. TunTypeOK'
    BY <1>3, <2>0, GoToFacts DEF Joined, TunTypeOK
  <2>2. tun[n].joins \in Worker
    BY DEF TunTypeOK
  <2>3. \A w \in Worker : ~Serving(n, w)
    <3>1. ~Serving(n, tun[n].joins)
      BY <1>3, <2>2 DEF Joined, RunOK
    <3>2. ~Serving(n, Other(tun[n].joins))
      BY <1>3 DEF Joined, RunOK, JoinOK
    <3> QED
      BY <2>2, <3>1, <3>2 DEF Worker, Other
  <2>4. RunOK(n)'
    BY <1>0, <1>3, <2>0, <2>3, GoToFacts DEF Joined, RunOK, Serving
  <2> QED
    BY <1>0, <1>3, <2>0, <2>1, <2>4, GoToFacts, OthersKeep DEF Joined
<1>4. ASSUME NEW w \in Worker, SelectEnds(n, w)
      PROVE  TunTypeOK' /\ \A m \in Local : RunOK(m)'
  <2>1. TunTypeOK'
    BY <1>4, OtherWorker DEF SelectEnds, TunTypeOK
  <2>2. /\ tun'[n] = [at |-> "join", event |-> end_data[n][w], joins |-> Other(w)]
        /\ stop'[n] = stop[n] \cup {Other(w)}
        /\ worker' = worker /\ end_data' = end_data
    BY <1>4 DEF SelectEnds, TunTypeOK
  <2>3. JoinOK(n)'
    <3>1. SelectOK(n) /\ end_data[n][w] # "empty" /\ end_data[n][w] \in TunEvent \cup {"empty"}
      BY <1>4 DEF SelectEnds, RunOK, TunTypeOK
    <3>2. ~Serving(n, w)
      BY <3>1 DEF RunOK
    <3> QED
      BY <2>2, <3>1, <3>2, OtherWorker DEF JoinOK, SelectOK, Serving, TunEvent
  <2>4. RunOK(n)'
    BY <1>0, <1>4, <2>2, <2>3 DEF SelectEnds, RunOK, Serving
  <2> QED
    BY <1>0, <1>4, <2>1, <2>4, OthersKeep DEF SelectEnds, TunTypeOK
<1> QED
  BY <1>1, <1>2, <1>3, <1>4 DEF RunStep

\* A worker reports: it no longer serves, and its report is there.
LEMMA ReportKeeps ==
    ASSUME HostInv, NEW n \in Local, NEW w \in Worker, NEW event \in TunEvent,
           Reports(n, w, event), Serving(n, w), event = "Info" => w \in stop[n],
           UNCHANGED <<tun, stop, closed, running>>,
           tun_errors' \in [Local -> 0..MaxTunErrors]
    PROVE  TunTypeOK' /\ \A m \in Local : RunOK(m)'
<1> USE DEF HostInv
<1>1. TunTypeOK'
  BY DEF Reports, TunTypeOK
<1>2. /\ worker'[n] = [worker[n] EXCEPT ![w] = "returning"]
      /\ end_data'[n] = [end_data[n] EXCEPT ![w] = event]
  BY DEF Reports, TunTypeOK
<1>3. event # "empty" /\ worker[n] \in [Worker -> {"none", "loop", "writing", "returning"}]
      /\ end_data[n] \in [Worker -> TunEvent \cup {"empty"}]
  BY DEF TunEvent, TunTypeOK
<1>4. \A v \in Worker : /\ Serving(n, v)' <=> Serving(n, v) /\ v # w
                        /\ end_data'[n][v] = IF v = w THEN event ELSE end_data[n][v]
  BY <1>2, <1>3 DEF Serving
<1>5. tun[n].at \in {"select", "join"}
  BY DEF RunOK
<1>6. RunOK(n)'
  <2>1. CASE tun[n].at = "select"
    BY <1>3, <1>4, <2>1 DEF RunOK, SelectOK
  <2>2. CASE tun[n].at = "join"
    <3>1. tun[n].joins \in Worker /\ Other(tun[n].joins) \in Worker
      BY OtherWorker DEF TunTypeOK
    <3> QED
      BY <1>3, <1>4, <2>2, <3>1 DEF RunOK, JoinOK
  <2> QED
    BY <1>5, <2>1, <2>2
<1> QED
  BY <1>1, <1>6, OthersKeep DEF Reports, TunTypeOK

\* The workers.
LEMMA WorkerStepKeeps ==
    ASSUME HostInv, NEW n \in Local, WorkerStep(n)
    PROVE  TunTypeOK' /\ \A m \in Local : RunOK(m)'
<1> USE DEF HostInv
<1>0. UNCHANGED running
  BY DEF WorkerStep, WriterStep, ReaderReads, ReaderClosed, WorkerFails, WriterTakes, WriteDone,
     WriterClosed, WorkerStops, WorkerReturns, TunRead, TunWrite, coordVars
<1>1. CASE ReaderReads(n)
  BY <1>0, <1>1, OthersKeep DEF ReaderReads, tunVars, TunTypeOK
<1>2. CASE ReaderClosed(n) \/ WriterClosed(n)
  BY <1>0, <1>2, ReportKeeps DEF ReaderClosed, WriterClosed, Serving, Worker, TunEvent, TunTypeOK
<1>3. ASSUME NEW w \in Worker, WorkerFails(n, w)
      PROVE  TunTypeOK' /\ \A m \in Local : RunOK(m)'
  <2>1. PICK event \in classify_tun_error : Reports(n, w, event)
    BY <1>3 DEF WorkerFails
  <2>2. Serving(n, w) /\ event \in TunEvent /\ event # "Info"
    BY <1>3, <2>1 DEF WorkerFails, Serving, classify_tun_error, TunEvent
  <2>3. tun_errors' \in [Local -> 0..MaxTunErrors]
    BY <1>3, TunAssumption DEF WorkerFails, TunTypeOK
  <2> QED
    BY <1>0, <1>3, <2>1, <2>2, <2>3, ReportKeeps DEF WorkerFails
<1>4. ASSUME NEW w \in Worker, WorkerStops(n, w)
      PROVE  TunTypeOK' /\ \A m \in Local : RunOK(m)'
  BY <1>0, <1>4, ReportKeeps DEF WorkerStops, Serving, TunEvent, TunTypeOK
<1>5. ASSUME NEW w \in Worker, NEW from, NEW to,
             worker[n][w] = from, worker' = [worker EXCEPT ![n][w] = to],
             to \in {"none", "loop", "writing", "returning"},
             from \in {"loop", "writing"} <=> to \in {"loop", "writing"},
             UNCHANGED <<tun, stop, end_data, closed, tun_errors>>
      PROVE  TunTypeOK' /\ \A m \in Local : RunOK(m)'
  <2>1. TunTypeOK'
    BY <1>5 DEF TunTypeOK
  <2>2. \A v \in Worker : Serving(n, v)' <=> Serving(n, v)
    BY <1>5 DEF Serving, TunTypeOK
  <2>3. tun[n].joins \in Worker /\ Other(tun[n].joins) \in Worker
    BY OtherWorker DEF TunTypeOK
  <2>4. RunOK(n)'
    BY <1>0, <1>5, <2>2, <2>3 DEF RunOK, SelectOK, JoinOK
  <2> QED
    BY <1>0, <1>5, <2>1, <2>4, OthersKeep DEF TunTypeOK
<1>6. CASE WriterTakes(n)
  BY <1>5, <1>6 DEF WriterTakes, Worker
<1>7. CASE WriteDone(n)
  BY <1>5, <1>7 DEF WriteDone, Worker
<1>8. ASSUME NEW w \in Worker, WorkerReturns(n, w)
      PROVE  TunTypeOK' /\ \A m \in Local : RunOK(m)'
  BY <1>5, <1>8 DEF WorkerReturns
<1> QED
  BY <1>1, <1>2, <1>3, <1>4, <1>6, <1>7, <1>8 DEF WorkerStep, WriterStep, Worker

\* The life of the process, and the other actors.
LEMMA LifeKeeps ==
    ASSUME HostInv, NEW n \in Local,
           Launch(n) \/ Exit(n) \/ HostCoord(n) \/ CoordReturns(n) \/ CoordFails(n) \/ HostIroh(n)
    PROVE  TunTypeOK' /\ \A m \in Local : RunOK(m)'
<1> USE DEF HostInv
<1>0. running \in [Local -> BOOLEAN]
  BY DEF CoordInv, CoordTypeOK, WiringTypeOK
<1>1. CASE Launch(n)
  <2>1. TunTypeOK'
    BY <1>1, GoToFacts DEF Launch, TunTypeOK
  <2>2. RunOK(n)'
    BY <1>0, <1>1 DEF Launch, GoTo, TunTypeOK, RunOK, Serving
  <2> QED
    BY <1>0, <1>1, <2>1, <2>2, OthersKeep DEF Launch, GoTo, TunTypeOK
<1>2. CASE Exit(n)
  <2>0. TunOff \in [at : {"off", "create", "sleep", "select", "join", "ended"},
                   event : TunEvent, joins : Worker]
    BY DEF TunOff, Worker, TunEvent
  <2>1. TunTypeOK'
    BY <1>2, <2>0 DEF Exit, TunReset, NoWorkers, NoReports, TunTypeOK
  <2>2. RunOK(n)'
    BY <1>0, <1>2 DEF Exit, TunReset, TunOff, NoWorkers, NoReports, TunTypeOK, RunOK, Serving
  <2>3. \A m \in Local : m # n =>
          /\ tun'[m] = tun[m] /\ worker'[m] = worker[m] /\ stop'[m] = stop[m]
          /\ end_data'[m] = end_data[m] /\ running'[m] = running[m]
    BY <1>0, <1>2 DEF Exit, TunReset, TunTypeOK
  <2> QED
    BY <2>1, <2>2, <2>3, OthersKeep
<1>3. CASE HostCoord(n) \/ HostIroh(n)
  <2>1. UNCHANGED tunVars
    BY <1>3 DEF HostCoord, HostIroh
  <2>2. UNCHANGED running
    BY <1>3 DEF HostCoord, HostIroh, CoordStep, handle_iroh_event, process_iroh_event,
       handle_packet_from_tun,
       handle_actions, EnvSends, EnvTakes
  <2> QED
    BY <2>1, <2>2, OthersKeep DEF tunVars, TunTypeOK
<1>4. CASE CoordReturns(n) \/ CoordFails(n)
  <2>1. UNCHANGED <<running, tun, worker, stop, end_data, tun_errors>>
        /\ closed' \in [Local -> BOOLEAN]
    BY <1>4 DEF CoordReturns, CoordFails, coordVars, TunTypeOK
  <2> QED
    BY <2>1, OthersKeep DEF TunTypeOK
<1> QED
  BY <1>1, <1>2, <1>3, <1>4

\* Every step of the process keeps the invariant.
LEMMA HostNextKeeps ==
    ASSUME HostInv, [HostNext]_hostVars
    PROVE  HostInv'
<1>1. CoordInv'
  BY HostStepSimulates, CoordNextKeeps DEF HostInv
<1>2. CASE UNCHANGED hostVars
  <2>1. UNCHANGED running /\ UNCHANGED tunVars
    BY <1>2 DEF hostVars, coordVars
  <2> QED
    BY <1>1, <2>1, OthersKeep DEF HostInv, tunVars, TunTypeOK
<1>3. CASE HostNext
  BY <1>1, <1>3, RunStepKeeps, WorkerStepKeeps, LifeKeeps DEF HostNext, HostInv
<1> QED
  BY <1>2, <1>3

\* The restart protocol keeps its invariant.
THEOREM HostInvariant == HostSpec => []HostInv
BY HostInitEstablishes, HostNextKeeps, PTL DEF HostSpec

\* Types and capacities of the process with its TUN actor.
THEOREM HostTypes == HostSpec => []HostTypeOK
<1>1. HostInv => HostTypeOK
  BY DEF HostInv, HostTypeOK, CoordInv
<1> QED
  BY <1>1, HostInvariant, PTL

\* Whatever the workers report and in whatever order, run() creates a device
\* only when no worker serves the previous one.
THEOREM NoTwoGenerations == HostSpec => []OneGeneration
<1>1. HostInv => OneGeneration
  BY DEF HostInv, RunOK, OneGeneration
<1> QED
  BY <1>1, HostInvariant, PTL

\* run() never waits for a report that cannot come.
THEOREM EveryReportComes == HostSpec => []NoOrphanJoin
<1>1. HostInv => NoOrphanJoin
  BY DEF HostInv, RunOK, SelectOK, JoinOK, NoOrphanJoin
<1> QED
  BY <1>1, HostInvariant, PTL

\* The events that run() calls impossible are.
THEOREM ImpossibleIsImpossible == HostSpec => []ImpossibleEvents
<1>1. HostInv => ImpossibleEvents
  BY DEF HostInv, RunOK, JoinOK, ImpossibleEvents
<1> QED
  BY <1>1, HostInvariant, PTL

\* What the coordinator promises of its packets it promises in the whole process:
\* no error of the device, restart or signal of the TUN actor makes the way of the
\* packets anything but a pipe that may lose them.
THEOREM HostPipes == HostSpec => OutboundIsPipe /\ InboundIsPipe /\ []OrderedPipe
BY HostImplementsCoordinator, OutboundIsLossyPipe, InboundIsLossyPipe, PacketsStayInOrder, PTL
=============================================================================
