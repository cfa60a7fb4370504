----------------------------- MODULE MCScheduler ----------------------------
(* Small instances of Scheduler for TLC, in which the pods contend for one *)
(* host port of each node, all but some that bind none.                    *)
EXTENDS Scheduler, TLC

CONSTANT Portless

SamePort == [p \in Pods |-> IF p \in Portless THEN {} ELSE {80}]
=============================================================================
