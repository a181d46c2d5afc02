--------------------------- MODULE SessionPromise ---------------------------
(***************************************************************************)
(* What a run promises about its namespace, without the processes that     *)
(* keep the promise: a namespace is made by its own run, once, and never   *)
(* after that run has exited; the agent is attached only when everything   *)
(* the run assembled is there; the run deletes the namespace only when it  *)
(* is closing; a deletion is never undone.                                 *)
(***************************************************************************)
EXTENDS Naturals

CONSTANT Sessions

VARIABLES
    stage,     \* how far the run is
    ns,        \* its namespace
    complete   \* everything the run assembled is in the namespace

pvars == <<stage, ns, complete>>

Stages == {"idle", "up", "attached", "closing", "exited", "killed"}
NsStates == {"absent", "active", "terminating", "gone"}

PInit ==
    /\ stage = [s \in Sessions |-> "idle"]
    /\ ns = [s \in Sessions |-> "absent"]
    /\ complete = [s \in Sessions |-> FALSE]

Move(s, from, to) ==
    /\ stage[s] \in from
    /\ stage' = [stage EXCEPT ![s] = to]
    /\ UNCHANGED <<ns, complete>>

Begin(s)  == Move(s, {"idle"}, "up")
Close(s)  == Move(s, {"up", "attached"}, "closing")
Leave(s)  == Move(s, {"closing"}, "exited")
Crash(s)  == Move(s, Stages \ {"idle", "exited", "killed"}, "killed")

(* kubectl exec: everything was there when the waits passed, and is until  *)
(* the namespace is gone.                                                  *)
Attach(s) == complete[s] /\ Move(s, {"up"}, "attached")

SetNs(s, from, to) ==
    /\ ns[s] = from
    /\ ns' = [ns EXCEPT ![s] = to]

(* kubectl apply, which may outlive a killed run and run on beside a       *)
(* handler, but not beyond an exit.                                        *)
Deploy(s) ==
    /\ stage[s] \in {"up", "closing", "killed"}
    /\ SetNs(s, "absent", "active")
    /\ UNCHANGED <<stage, complete>>

FinishDeploy(s) ==
    /\ stage[s] \in {"up", "closing", "killed"}
    /\ ns[s] = "active"
    /\ complete' = [complete EXCEPT ![s] = TRUE]
    /\ UNCHANGED <<stage, ns>>

OwnDelete(s) ==
    /\ stage[s] \in {"closing", "killed"}
    /\ SetNs(s, "active", "terminating")
    /\ UNCHANGED <<stage, complete>>

OtherDelete(s) ==
    /\ SetNs(s, "active", "terminating")
    /\ UNCHANGED <<stage, complete>>

Collapse(s) ==
    /\ SetNs(s, "terminating", "gone")
    /\ complete' = [complete EXCEPT ![s] = FALSE]
    /\ UNCHANGED stage

RunOf(s) ==
    \/ Begin(s) \/ Attach(s) \/ Close(s) \/ Leave(s) \/ Crash(s)
    \/ Deploy(s) \/ FinishDeploy(s) \/ OwnDelete(s) \/ Collapse(s)

PNext == \E s \in Sessions : RunOf(s) \/ OtherDelete(s)

PSpec == PInit /\ [][PNext]_pvars

(* What the cluster and a closing run owe: a deletion completes, a closing *)
(* run exits.                                                              *)
PFairness ==
    \A s \in Sessions : WF_pvars(Collapse(s)) /\ WF_pvars(Leave(s))

PFairSpec == PSpec /\ PFairness
=============================================================================
