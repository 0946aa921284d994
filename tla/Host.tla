-------------------------------- MODULE Host --------------------------------
(***************************************************************************)
(* One process as main.rs runs it, seen from the operating system's side:  *)
(* the coordinator and the whole TUN actor over their two channels, with   *)
(* the iroh manager as an open environment, and the ways in which one      *)
(* actor's end brings down the others.                                     *)
(***************************************************************************)
EXTENDS Tun

hostVars == <<coordVars, tunVars>>

HostInit == CoordInit /\ TunInit

\* main: the actors are spawned.
Launch(n) ==
    /\ ~running[n]
    /\ running' = [running EXCEPT ![n] = TRUE]
    /\ GoTo(n, "create")
    /\ UNCHANGED <<iroh_to_coord, coord_to_iroh, is_connected, packet_queue, actions,
                   tun_to_coord, coord_to_tun, reads,
                   worker, stop, end_data, closed, tun_errors>>

\* Variant with a bug: what is left in the channels meets the next life.
ExitKeepsPackets(n) ==
    /\ running[n]
    /\ running' = [running EXCEPT ![n] = FALSE]
    /\ TunReset(n)
    /\ actions' = [actions EXCEPT ![n] = <<>>]
    /\ is_connected' = [is_connected EXCEPT ![n] = [p \in Node |-> FALSE]]
    /\ UNCHANGED <<iroh_to_coord, coord_to_iroh, packet_queue, tun_to_coord, coord_to_tun, reads>>

\* main returns after the first actor that ends, or the process is killed.
Exit(n) ==
    /\ running[n]
    /\ running' = [running EXCEPT ![n] = FALSE]
    /\ CoordReset(n)
    /\ TunReset(n)

\* run() of the TUN actor has returned and dropped rx_from_coord.
TunGone(n) == tun[n].at = "ended"

\* ... and so has the last holder of tx_to_coord.
TunSenderGone(n) == TunGone(n) /\ worker[n]["reader"] = "none"

WritesToTun(n) == actions[n] # <<>> /\ Head(actions[n]).type = "WriteToTun"

\* The coordinator, while the channels it uses are open.
HostCoord(n) ==
    /\ ~closed[n]
    /\ ~(TunGone(n) /\ WritesToTun(n))
    /\ CoordStep(n)
    /\ UNCHANGED tunVars

\* It finds a channel to or from the TUN actor closed, and returns.
CoordReturns(n) ==
    /\ ~closed[n]
    /\ \/ TunGone(n) /\ WritesToTun(n)
       \/ TunSenderGone(n) /\ tun_to_coord[n] = <<>> /\ Idle(n)
    /\ closed' = [closed EXCEPT ![n] = TRUE]
    /\ UNCHANGED <<tun, worker, stop, end_data, tun_errors, coordVars>>

\* It returns because the iroh manager has ended.
CoordFails(n) ==
    /\ running[n]
    /\ ~closed[n]
    /\ closed' = [closed EXCEPT ![n] = TRUE]
    /\ UNCHANGED <<tun, worker, stop, end_data, tun_errors, coordVars>>

\* The iroh manager at the other side of the coordinator.
HostIroh(n) ==
    /\ ~closed[n]
    /\ EnvSends(n) \/ EnvTakes(n)
    /\ UNCHANGED tunVars

HostNext ==
    \E n \in Local :
        \/ Launch(n) \/ Exit(n)
        \/ HostCoord(n) \/ CoordReturns(n) \/ CoordFails(n) \/ HostIroh(n)
        \/ RunStep(n) \/ WorkerStep(n)

HostSpec == HostInit /\ [][HostNext]_hostVars

(***************************************************************************)
(* Fairness.  Tokio polls what is ready; write() on a TUN device returns;  *)
(* a device that can be created is created at some later attempt.  select! *)
(* picks among ready branches at random, so a branch that is ready again   *)
(* and again is taken: strong fairness for the stop signal, for the packet *)
(* branch of the coordinator and for its discovery of a closed channel.    *)
(* The packets of the device, of the manager, and main are left free.      *)
(***************************************************************************)
HostFairness ==
    \A n \in Local :
        /\ WF_hostVars(RunStep(n)) /\ SF_hostVars(CreateOk(n))
        /\ WF_hostVars(WriterStep(n))
        /\ \A w \in Worker : /\ SF_hostVars(WorkerStops(n, w))
                             /\ WF_hostVars(WorkerReturns(n, w))
        /\ WF_hostVars(HostCoord(n)) /\ SF_hostVars(CoordReturns(n))
        /\ SF_hostVars(HostCoord(n) /\ handle_packet_from_tun(n))
        /\ WF_hostVars(HostIroh(n) /\ EnvTakes(n))

FairHostSpec == HostSpec /\ HostFairness

-----------------------------------------------------------------------------
\* Properties.

HostTypeOK == CoordTypeOK /\ TunTypeOK

\* w still serves the device.
Serving(n, w) == worker[n][w] \in {"loop", "writing"}

(***************************************************************************)
(* run() creates a device only when both previous workers have given up    *)
(* theirs: no two generations of workers share the channels, whatever      *)
(* order the errors, reports and stop signals of the two come in.  A       *)
(* worker left behind would compete for the packets and keep the name of   *)
(* the device busy for ever.                                               *)
(***************************************************************************)
OneGeneration ==
    \A n \in Local :
        tun[n].at \notin {"select", "join"} => \A w \in Worker : ~Serving(n, w)

(***************************************************************************)
(* run() never waits for a report that cannot come: while it waits for any *)
(* worker each of them still serves or has reported, and the one it joins  *)
(* has reported or has a stop signal.  The oneshot channels are never      *)
(* dropped unused, short of a panic: the "unexpected error" arms of run()  *)
(* are dead code.                                                          *)
(***************************************************************************)
NoOrphanJoin ==
    \A n \in Local :
        /\ tun[n].at = "select" =>
              \A w \in Worker : Serving(n, w) \/ end_data[n][w] # "empty"
        /\ tun[n].at = "join" =>
              \/ end_data[n][tun[n].joins] # "empty"
              \/ Serving(n, tun[n].joins) /\ tun[n].joins \in stop[n]

(***************************************************************************)
(* tun.rs, lines 131 and 163: `_ => {} // impossible'.  The event that     *)
(* decides what run() does is a reason to reconnect or to end, never the   *)
(* Info of a worker that was only told to stop.                            *)
(***************************************************************************)
ImpossibleEvents ==
    \A n \in Local :
        tun[n].at = "join" => tun[n].event \in {"ReconnectRequired", "FatalError"}

(***************************************************************************)
(* The TUN actor always gets out of a restart: from any failure, whatever  *)
(* the two workers report and however many packets keep coming, it serves  *)
(* the device again or has ended.                                          *)
(***************************************************************************)
Recovers ==
    \A n \in Local :
        tun[n].at \in {"create", "sleep", "join"}
            ~> tun[n].at \in {"select", "ended", "off"}

(***************************************************************************)
(* Either actor's end reaches the other through the channels, even without *)
(* main: after the coordinator is gone the TUN actor ends, although run()  *)
(* throws away the second worker's FatalError and may first re-create the  *)
(* device (tun.rs, lines 363-364, tests the simple case); after the TUN    *)
(* actor is gone, the coordinator ends.                                    *)
(***************************************************************************)
ShutdownSpreads ==
    \A n \in Local :
        /\ closed[n] ~> (TunGone(n) \/ ~running[n])
        /\ TunGone(n) ~> (closed[n] \/ ~running[n])
=============================================================================
