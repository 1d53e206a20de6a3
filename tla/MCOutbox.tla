------------------------------ MODULE MCOutbox ------------------------------
(* The outbox on small instances.  A worker slot is named after its process:  *)
(* slot i runs in process i.                                                  *)
EXTENDS Outbox

CONSTANTS NumEvents, NumProcesses, NumLeases

MCEvents == 1 .. NumEvents
MCProcesses == 1 .. NumProcesses
MCWorkers == MCProcesses
MCHome == [w \in MCWorkers |-> w]
MCLease == 1 .. NumLeases
=============================================================================
