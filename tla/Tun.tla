-------------------------------- MODULE Tun ---------------------------------
(***************************************************************************)
(* tun.rs in full: run() creates the device, starts a reader and a writer, *)
(* waits for the first of them to end, stops the other one, waits for it,  *)
(* and starts over or returns.  Coordinator sees only the packets of the   *)
(* two workers (TunRead, TunWrite); here they take them between device     *)
(* errors, stop signals and restarts.                                      *)
(*                                                                         *)
(* Both arms of the select! in run(), and the two workers, are symmetric   *)
(* up to the data they hand over, so most actions have the worker as a     *)
(* parameter.  That the one receiver rx_from_coord travels with the        *)
(* writer's report is checked by Rust's types and left out.                *)
(***************************************************************************)
EXTENDS Coordinator

CONSTANT MaxTunErrors   \* bound: errors of the device that end a worker

ASSUME TunAssumption == MaxTunErrors \in Nat

Worker == {"reader", "writer"}

Other(w) == IF w = "reader" THEN "writer" ELSE "reader"

\* TunEvent, as far as the workers report it (DropPacket stays inside them).
TunEvent == {"Info", "FatalError", "ReconnectRequired"}

VARIABLES
    tun,         \* tun[n]: where run() is; the event that decides; the worker it joins
    worker,      \* worker[n][w]: where the task w is
    stop,        \* stop[n]: the workers that have been sent a stop signal
    end_data,    \* end_data[n][w]: what w has reported, a oneshot channel
    closed,      \* closed[n]: the coordinator has dropped its ends of the channels
    tun_errors   \* tun_errors[n]: device errors so far

tunVars == <<tun, worker, stop, end_data, closed, tun_errors>>

TunTypeOK ==
    /\ tun \in [Local -> [at : {"off", "create", "sleep", "select", "join", "ended"},
                          event : TunEvent, joins : Worker]]
    /\ worker \in [Local -> [Worker -> {"none", "loop", "writing", "returning"}]]
    /\ stop \in [Local -> SUBSET Worker]
    /\ end_data \in [Local -> [Worker -> TunEvent \cup {"empty"}]]
    /\ closed \in [Local -> BOOLEAN]
    /\ tun_errors \in [Local -> 0..MaxTunErrors]

NoWorkers == [w \in Worker |-> "none"]

NoReports == [w \in Worker |-> "empty"]

TunOff == [at |-> "off", event |-> "Info", joins |-> "reader"]

TunInit ==
    /\ tun = [n \in Local |-> TunOff]
    /\ worker = [n \in Local |-> NoWorkers]
    /\ stop = [n \in Local |-> {}]
    /\ end_data = [n \in Local |-> NoReports]
    /\ closed = [n \in Local |-> FALSE]
    /\ tun_errors = [n \in Local |-> 0]

GoTo(n, place) == tun' = [tun EXCEPT ![n].at = place]

-----------------------------------------------------------------------------
\* run()

\* tun::create_as_async fails: the name is still taken, no permission, ...
CreateErr(n) ==
    /\ tun[n].at = "create"
    /\ GoTo(n, "sleep")
    /\ UNCHANGED <<worker, stop, end_data, closed, tun_errors, coordVars>>

\* The two seconds are over.
Wake(n) ==
    /\ tun[n].at = "sleep"
    /\ GoTo(n, "create")
    /\ UNCHANGED <<worker, stop, end_data, closed, tun_errors, coordVars>>

(***************************************************************************)
(* The kernel refuses a second device of the same name, so creation        *)
(* succeeds only once both old workers have dropped their halves: a worker *)
(* reports before it returns, and run() may be here first.                 *)
(***************************************************************************)
CreateOk(n) ==
    /\ tun[n].at = "create"
    /\ worker[n] = NoWorkers
    /\ GoTo(n, "select")
    /\ worker' = [worker EXCEPT ![n] = [w \in Worker |-> "loop"]]
    /\ stop' = [stop EXCEPT ![n] = {}]
    /\ end_data' = [end_data EXCEPT ![n] = NoReports]
    /\ UNCHANGED <<closed, tun_errors, coordVars>>

\* Variant with a bug: the other worker is not told.
SelectEndsSilently(n, w) ==
    /\ tun[n].at = "select"
    /\ end_data[n][w] # "empty"
    /\ tun' = [tun EXCEPT ![n] = [at |-> "join", event |-> end_data[n][w], joins |-> Other(w)]]
    /\ UNCHANGED <<worker, stop, end_data, closed, tun_errors, coordVars>>

\* The report of w arrives: its event decides, and the other one is told to stop.
SelectEnds(n, w) ==
    /\ tun[n].at = "select"
    /\ end_data[n][w] # "empty"
    /\ tun' = [tun EXCEPT ![n] = [at |-> "join", event |-> end_data[n][w], joins |-> Other(w)]]
    /\ stop' = [stop EXCEPT ![n] = @ \cup {Other(w)}]
    /\ UNCHANGED <<worker, end_data, closed, tun_errors, coordVars>>

\* Variant with a bug: the other worker is not waited for.
JoinedEarly(n) ==
    /\ tun[n].at = "join"
    /\ GoTo(n, IF tun[n].event = "FatalError" THEN "ended" ELSE "create")
    /\ UNCHANGED <<worker, stop, end_data, closed, tun_errors, coordVars>>

\* The report of the other one arrives too; what it says is ignored.
Joined(n) ==
    /\ tun[n].at = "join"
    /\ end_data[n][tun[n].joins] # "empty"
    /\ GoTo(n, IF tun[n].event = "FatalError" THEN "ended" ELSE "create")
    /\ UNCHANGED <<worker, stop, end_data, closed, tun_errors, coordVars>>

RunStep(n) ==
    \/ CreateErr(n) \/ Wake(n) \/ CreateOk(n) \/ Joined(n)
    \/ \E w \in Worker : SelectEnds(n, w)

-----------------------------------------------------------------------------
\* The workers.

\* The worker sends its report; it still holds its half of the device.
Reports(n, w, event) ==
    /\ worker' = [worker EXCEPT ![n][w] = "returning"]
    /\ end_data' = [end_data EXCEPT ![n][w] = event]

\* Variant with a bug: the writer prefers packets to the stop signal.
WorkerStopsBiased(n, w) ==
    /\ worker[n][w] = "loop"
    /\ w \in stop[n]
    /\ w = "writer" => coord_to_tun[n] = <<>>
    /\ Reports(n, w, "Info")
    /\ UNCHANGED <<tun, stop, closed, tun_errors, coordVars>>

WorkerStops(n, w) ==
    /\ worker[n][w] = "loop"
    /\ w \in stop[n]
    /\ Reports(n, w, "Info")
    /\ UNCHANGED <<tun, stop, closed, tun_errors, coordVars>>

\* Variant with a bug: an error that should only drop a packet ends the worker.
classify_tun_error_drops == {"DropPacket", "ReconnectRequired", "FatalError"}

\* What classify_tun_error makes of the errors that end a worker; Ok(0) of a
\* read is ReconnectRequired, too.
classify_tun_error == {"ReconnectRequired", "FatalError"}

\* read() or write() fails with more than a dropped packet.
WorkerFails(n, w) ==
    /\ worker[n][w] = IF w = "reader" THEN "loop" ELSE "writing"
    /\ tun_errors[n] < MaxTunErrors
    /\ tun_errors' = [tun_errors EXCEPT ![n] = @ + 1]
    /\ \E event \in classify_tun_error : Reports(n, w, event)
    /\ UNCHANGED <<tun, stop, closed, coordVars>>

\* The task ends and drops its half of the device.
WorkerReturns(n, w) ==
    /\ worker[n][w] = "returning"
    /\ worker' = [worker EXCEPT ![n][w] = "none"]
    /\ UNCHANGED <<tun, stop, end_data, closed, tun_errors, coordVars>>

ReaderReads(n) ==
    /\ worker[n]["reader"] = "loop"
    /\ ~closed[n]
    /\ TunRead(n)
    /\ UNCHANGED tunVars

\* try_send of a packet says Closed.
ReaderClosed(n) ==
    /\ worker[n]["reader"] = "loop"
    /\ closed[n]
    /\ Reports(n, "reader", "FatalError")
    /\ UNCHANGED <<tun, stop, closed, tun_errors, coordVars>>

WriterTakes(n) ==
    /\ worker[n]["writer"] = "loop"
    /\ TunWrite(n)
    /\ worker' = [worker EXCEPT ![n]["writer"] = "writing"]
    /\ UNCHANGED <<tun, stop, end_data, closed, tun_errors>>

\* write() succeeds, or fails with an error that only drops the packet.
WriteDone(n) ==
    /\ worker[n]["writer"] = "writing"
    /\ worker' = [worker EXCEPT ![n]["writer"] = "loop"]
    /\ UNCHANGED <<tun, stop, end_data, closed, tun_errors, coordVars>>

\* Variant with a bug: a closed channel is taken for a broken device.
WriterClosedReconnects(n) ==
    /\ worker[n]["writer"] = "loop"
    /\ closed[n]
    /\ coord_to_tun[n] = <<>>
    /\ Reports(n, "writer", "ReconnectRequired")
    /\ UNCHANGED <<tun, stop, closed, tun_errors, coordVars>>

\* recv() returns None: the sender is gone and the channel drained.
WriterClosed(n) ==
    /\ worker[n]["writer"] = "loop"
    /\ closed[n]
    /\ coord_to_tun[n] = <<>>
    /\ Reports(n, "writer", "FatalError")
    /\ UNCHANGED <<tun, stop, closed, tun_errors, coordVars>>

WriterStep(n) ==
    WriterTakes(n) \/ WriteDone(n) \/ WorkerFails(n, "writer") \/ WriterClosed(n)

WorkerStep(n) ==
    \/ ReaderReads(n) \/ ReaderClosed(n) \/ WorkerFails(n, "reader")
    \/ WriterStep(n)
    \/ \E w \in Worker : WorkerStops(n, w) \/ WorkerReturns(n, w)

\* The runtime ends with the process, and its tasks with it.
TunReset(n) ==
    /\ tun' = [tun EXCEPT ![n] = TunOff]
    /\ worker' = [worker EXCEPT ![n] = NoWorkers]
    /\ stop' = [stop EXCEPT ![n] = {}]
    /\ end_data' = [end_data EXCEPT ![n] = NoReports]
    /\ closed' = [closed EXCEPT ![n] = FALSE]
    /\ UNCHANGED tun_errors
=============================================================================
