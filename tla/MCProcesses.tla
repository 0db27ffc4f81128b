----------------------------- MODULE MCProcesses -----------------------------
(* The two processes that keep accounts in memory beside the database, the     *)
(* gateway and a worker, each in its small instance. They share nothing here:  *)
(* a behaviour is one of either.                                               *)
EXTENDS MCGateway, MCWorkerSlots

VARIABLE process

processesVars == <<process, vars, slotsVars>>

ProcessesInit == process \in {"gateway", "worker"} /\ Init /\ SlotsInit

ProcessesNext ==
    \/ process = "gateway" /\ UNCHANGED <<process, slotsVars>> /\ Next
    \/ process = "worker" /\ UNCHANGED <<process, vars>> /\ SlotsNext

ProcessesSpec == ProcessesInit /\ [][ProcessesNext]_processesVars

CallsAndJobs == Symmetry \cup JobSymmetry
=============================================================================
