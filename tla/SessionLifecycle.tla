-------------------------- MODULE SessionLifecycle --------------------------
(***************************************************************************)
(* The life of an agent run: cli.main and cli.run, Session.cleanup, the    *)
(* SIGINT/SIGTERM handler, the kubectl children they start and the cluster *)
(* namespace and host scratch directory the run owns.                      *)
(*                                                                         *)
(* A run is one Python thread.  pc is where the main program stands; a     *)
(* signal handler runs on top of it, between two bytecodes or while it     *)
(* waits for a child.  handle_signal always leaves by an exception         *)
(* (sys.exit), so what it interrupted is never resumed: it is enough to    *)
(* keep pc, whether a handler is on top (inHandler) and the stage of the   *)
(* innermost Session.cleanup activation (act).  The kubectl children are   *)
(* processes of their own, and go on while the handler runs.               *)
(***************************************************************************)
EXTENDS Naturals, Sequences, FiniteSets

CONSTANTS
    Sessions,     \* the runs; ids are uuid4 so no two runs share a namespace
    MaxSignals    \* bound: SIGINT/SIGTERM deliveries to one run

ASSUME SessionAssumption == MaxSignals \in Nat

VARIABLES
    pc,         \* the main program's location
    code,       \* the exit code it is leaving with, by class
    flag,       \* Session._cleaned_up
    act,        \* stage of the innermost Session.cleanup activation
    inHandler,  \* handle_signal is on top of the main program
    apply,      \* the `kubectl apply -f -` child
    tried,      \* manifests that child has submitted so far
    kdel,       \* a `kubectl delete namespace` child of the run is running
    sweeps,     \* such children started so far
    ns,         \* the session namespace in the cluster
    res,        \* the manifest groups present in it
    scratch,    \* Session.session_dir on the host
    host,       \* relay: --ssh-key-dir gave a key; kubectl: it is on PATH
    sigs,       \* signals delivered
    cause       \* history: the faults that may keep a teardown from completing

runVars     == <<pc, code, flag, act, inHandler>>
childVars   == <<apply, tried, kdel, sweeps>>
clusterVars == <<ns, res>>
faultVars   == <<host, sigs, cause>>
vars        == <<runVars, childVars, clusterVars, scratch, faultVars>>

(* Where main() stands.  "created": the session exists, no handler yet.    *)
(* "guarded": handlers installed, before the try.  TryRange is the body of *)
(* the try whose finally calls cleanup.                                    *)
Waits    == {"wait_mitm", "wait_ssh", "wait_agent"}
TryRange == {"validate", "bootstrap", "prepare", "contribute", "applying",
             "attached"} \cup Waits
Ended    == {"exited", "killed"}
Pcs      == {"idle", "created", "guarded", "finally"} \cup TryRange \cup Ended
Acts     == {"none", "check", "set", "delete", "rmtree", "warn", "return",
             "raise"}
Causes   == {"race", "double", "kill", "delete", "rmtree"}
Codes    == {"none", "ok", "failed", "signalled"}

(* The documents of one apply, in the order _assemble_manifests lists them.*)
DocNames == {"namespace", "secrets", "policies", "mitm", "ssh", "agent"}
Manifests(s) ==
    IF host[s].relay
    THEN <<"namespace", "secrets", "policies", "mitm", "ssh", "agent">>
    ELSE <<"namespace", "secrets", "policies", "mitm", "agent">>
Resources(s) == DocNames \ (IF host[s].relay THEN {"namespace"}
                                                ELSE {"namespace", "ssh"})

Init ==
    /\ pc        = [s \in Sessions |-> "idle"]
    /\ code      = [s \in Sessions |-> "none"]
    /\ flag      = [s \in Sessions |-> FALSE]
    /\ act       = [s \in Sessions |-> "none"]
    /\ inHandler = [s \in Sessions |-> FALSE]
    /\ apply     = [s \in Sessions |-> "none"]
    /\ tried     = [s \in Sessions |-> 0]
    /\ kdel      = [s \in Sessions |-> FALSE]
    /\ sweeps    = [s \in Sessions |-> 0]
    /\ ns        = [s \in Sessions |-> "absent"]
    /\ res       = [s \in Sessions |-> {}]
    /\ scratch   = [s \in Sessions |-> "absent"]
    /\ host \in [Sessions -> [relay : BOOLEAN, kubectl : BOOLEAN]]
    /\ sigs      = [s \in Sessions |-> 0]
    /\ cause     = [s \in Sessions |-> {}]

-----------------------------------------------------------------------------
(* The main program, cli.main and cli.run.                                 *)

At(s, l)   == pc[s] = l /\ ~inHandler[s]
Goto(s, l) == pc' = [pc EXCEPT ![s] = l]

(* Mutant: cleanup is left to the end of a successful run.                 *)
Mut_EnterFinally(s, c) ==
    /\ Goto(s, "finally")
    /\ code' = [code EXCEPT ![s] = c]
    /\ act' = [act EXCEPT ![s] = IF c = "ok" THEN "check" ELSE "return"]
    /\ UNCHANGED <<flag, inHandler>>

(* Leaving the body of the try: the finally clause enters cleanup.         *)
EnterFinally(s, c) ==
    /\ Goto(s, "finally")
    /\ code' = [code EXCEPT ![s] = c]
    /\ act' = [act EXCEPT ![s] = "check"]
    /\ UNCHANGED <<flag, inHandler>>

Step(s, from, to) ==
    /\ At(s, from)
    /\ Goto(s, to)
    /\ UNCHANGED <<code, flag, act, inHandler>>

(* Session.create makes the scratch directory; nothing exists in the       *)
(* cluster yet.                                                            *)
Create(s) ==
    /\ Step(s, "idle", "created")
    /\ scratch' = [scratch EXCEPT ![s] = "empty"]
    /\ UNCHANGED <<childVars, clusterVars, faultVars>>

InstallHandlers(s) ==
    /\ Step(s, "created", "guarded")
    /\ UNCHANGED <<childVars, clusterVars, scratch, faultVars>>

(* Mutant: nothing notices a missing kubectl before the apply.             *)
Mut_Startup(s) ==
    /\ \/ Step(s, "guarded", "validate")
       \/ Step(s, "validate", "bootstrap")
       \/ Step(s, "bootstrap", "prepare")
       \/ Step(s, "prepare", "contribute")
    /\ UNCHANGED <<childVars, clusterVars, scratch, faultVars>>

(* The host-side part of run() up to pod_contribution: it needs kubectl    *)
(* from _bootstrap_infra on and keeps nothing in the session's state.      *)
Startup(s) ==
    /\ \/ Step(s, "guarded", "validate")
       \/ Step(s, "validate", "bootstrap")
       \/ host[s].kubectl /\ Step(s, "bootstrap", "prepare")
       \/ Step(s, "prepare", "contribute")
    /\ UNCHANGED <<childVars, clusterVars, scratch, faultVars>>

(* pod_contribution leaves .claude.json, with what it keeps of the host's  *)
(* secrets, in the scratch directory.                                      *)
Contribute(s) ==
    /\ Step(s, "contribute", "applying")
    /\ scratch' = [scratch EXCEPT ![s] = "secret"]
    /\ UNCHANGED <<childVars, clusterVars, faultVars>>

StartApply(s) ==
    /\ At(s, "applying")
    /\ apply[s] = "none"
    /\ apply' = [apply EXCEPT ![s] = "running"]
    /\ UNCHANGED <<runVars, tried, kdel, sweeps, clusterVars, scratch, faultVars>>

ApplyReturns(s) ==
    /\ At(s, "applying")
    /\ \/ apply[s] = "ok" /\ Step(s, "applying", "wait_mitm")
       \/ apply[s] = "error" /\ EnterFinally(s, "failed")
    /\ UNCHANGED <<childVars, clusterVars, scratch, faultVars>>

(* _wait_for_pods.  A pod being terminated still reports Ready until its   *)
(* namespace's cascade has removed it.                                     *)
WaitForPod(s) ==
    /\ \/ "mitm" \in res[s] /\ host[s].relay /\ Step(s, "wait_mitm", "wait_ssh")
       \/ "mitm" \in res[s] /\ ~host[s].relay /\ Step(s, "wait_mitm", "wait_agent")
       \/ "ssh" \in res[s] /\ Step(s, "wait_ssh", "wait_agent")
       \/ "agent" \in res[s] /\ Step(s, "wait_agent", "attached")
    /\ UNCHANGED <<childVars, clusterVars, scratch, faultVars>>

(* Mutants: an exception that leaves main without its finally clause;      *)
(* waits without a timeout.                                                *)
Mut_RunRaises_NoFinally(s) ==
    /\ \E l \in TryRange \ {"applying", "attached"} : At(s, l)
    /\ Goto(s, "exited")
    /\ code' = [code EXCEPT ![s] = "failed"]
    /\ UNCHANGED <<flag, act, inHandler, childVars, clusterVars, scratch, faultVars>>

Mut_RunRaises_NoTimeout(s) ==
    /\ \/ \E l \in TryRange \ ({"applying", "attached"} \cup Waits) : At(s, l)
       \/ At(s, "applying") /\ apply[s] = "none"
    /\ EnterFinally(s, "failed")
    /\ UNCHANGED <<childVars, clusterVars, scratch, faultVars>>

(* A step of run() raises: a refused argument, a failed bootstrap or       *)
(* build, manifests that cannot be assembled, a wait that times out.       *)
(* main's except clause makes it exit 1.                                   *)
RunRaises(s) ==
    /\ \/ \E l \in TryRange \ {"applying", "attached"} : At(s, l)
       \/ At(s, "applying") /\ apply[s] = "none"
    /\ EnterFinally(s, "failed")
    /\ UNCHANGED <<childVars, clusterVars, scratch, faultVars>>

(* `kubectl exec` ends with the agent's exit code, or with an error when   *)
(* the pod is gone.                                                        *)
ExecReturns(s) ==
    /\ At(s, "attached")
    /\ \E c \in {"ok", "failed"} :
          /\ "agent" \notin res[s] => c = "failed"
          /\ EnterFinally(s, c)
    /\ UNCHANGED <<childVars, clusterVars, scratch, faultVars>>

-----------------------------------------------------------------------------
(* Session.cleanup, from the finally clause or from handle_signal.         *)

Stage(s, a) == act' = [act EXCEPT ![s] = a]

(* Mutant: no idempotency guard.                                           *)
Mut_CheckGuard(s) ==
    /\ act[s] = "check"
    /\ Stage(s, "set")
    /\ UNCHANGED <<pc, code, flag, inHandler, childVars, clusterVars, scratch,
                   faultVars>>

CheckGuard(s) ==
    /\ act[s] = "check"
    /\ Stage(s, IF flag[s] THEN "return" ELSE "set")
    /\ UNCHANGED <<pc, code, flag, inHandler, childVars, clusterVars, scratch,
                   faultVars>>

(* Mutant: cleanup only removes the scratch directory.                     *)
Mut_MarkCleaned(s) ==
    /\ act[s] = "set"
    /\ flag' = [flag EXCEPT ![s] = TRUE]
    /\ Stage(s, "rmtree")
    /\ UNCHANGED <<pc, code, inHandler, childVars, clusterVars, scratch, faultVars>>

(* The flag is set first, then the delete child is started; without        *)
(* kubectl subprocess.run raises FileNotFoundError out of cleanup.         *)
MarkCleaned(s) ==
    /\ act[s] = "set"
    /\ flag' = [flag EXCEPT ![s] = TRUE]
    /\ IF host[s].kubectl
       THEN /\ Stage(s, "delete")
            /\ kdel' = [kdel EXCEPT ![s] = TRUE]
            /\ sweeps' = [sweeps EXCEPT ![s] = @ + 1]
       ELSE Stage(s, "raise") /\ UNCHANGED <<kdel, sweeps>>
    /\ UNCHANGED <<pc, code, inHandler, apply, tried, clusterVars, scratch,
                   faultVars>>

(* Mutant: cleanup waits for the namespace to be gone.                     *)
Mut_DeleteReturns(s) ==
    /\ act[s] = "delete"
    /\ ~kdel[s]
    /\ ns[s] \in {"absent", "gone"}
    /\ Stage(s, "rmtree")
    /\ UNCHANGED <<pc, code, flag, inHandler, childVars, clusterVars, scratch,
                   faultVars>>

(* delete_namespace tolerates a failing kubectl.                           *)
DeleteReturns(s) ==
    /\ act[s] = "delete"
    /\ ~kdel[s]
    /\ Stage(s, "rmtree")
    /\ UNCHANGED <<pc, code, flag, inHandler, childVars, clusterVars, scratch,
                   faultVars>>

(* shutil.rmtree(ignore_errors=True): the file, then the directory; an     *)
(* error ends it silently.                                                 *)
Rmtree(s) ==
    /\ act[s] = "rmtree"
    /\ \/ /\ scratch[s] = "secret"
          /\ scratch' = [scratch EXCEPT ![s] = "empty"]
          /\ UNCHANGED <<act, cause>>
       \/ /\ scratch[s] # "secret"
          /\ scratch' = [scratch EXCEPT ![s] = "absent"]
          /\ Stage(s, "warn")
          /\ UNCHANGED cause
       \/ /\ cause' = [cause EXCEPT ![s] = @ \cup {"rmtree"}]
          /\ Stage(s, "warn")
          /\ UNCHANGED scratch
    /\ UNCHANGED <<pc, code, flag, inHandler, childVars, clusterVars,
                   host, sigs>>

(* warn_if_stale_sessions only reads, and swallows every Exception.        *)
WarnIfStale(s) ==
    /\ act[s] = "warn"
    /\ Stage(s, "return")
    /\ UNCHANGED <<pc, code, flag, inHandler, childVars, clusterVars, scratch,
                   faultVars>>

(* subprocess.run kills the child it waits for when an exception unwinds   *)
(* through it.                                                             *)
KillChildren(s) ==
    /\ apply' = [apply EXCEPT ![s] =
                   IF @ \in {"running", "failing"} THEN "error" ELSE @]
    /\ kdel' = [kdel EXCEPT ![s] = FALSE]
    /\ UNCHANGED <<tried, sweeps>>

(* cleanup ends in main's finally clause: main raises SystemExit.          *)
LeaveMain(s) ==
    /\ act[s] \in {"return", "raise"}
    /\ ~inHandler[s]
    /\ Goto(s, "exited")
    /\ Stage(s, "none")
    /\ code' = [code EXCEPT ![s] = IF act[s] = "raise" THEN "failed" ELSE @]
    /\ UNCHANGED <<flag, inHandler, childVars, clusterVars, scratch, faultVars>>

(* Mutants: a signal during the finally clause keeps the run's own exit    *)
(* code; the children survive the unwinding.                               *)
Mut_LeaveHandler_KeepCode(s) ==
    /\ act[s] \in {"return", "raise"}
    /\ inHandler[s]
    /\ inHandler' = [inHandler EXCEPT ![s] = FALSE]
    /\ code' = [code EXCEPT ![s] =
                  IF pc[s] = "finally" THEN @ ELSE "signalled"]
    /\ IF pc[s] \in TryRange
       THEN Goto(s, "finally") /\ Stage(s, "check")
       ELSE Goto(s, "exited") /\ Stage(s, "none")
    /\ KillChildren(s)
    /\ UNCHANGED <<flag, clusterVars, scratch, faultVars>>

Mut_LeaveHandler_NoKill(s) ==
    /\ act[s] \in {"return", "raise"}
    /\ inHandler[s]
    /\ inHandler' = [inHandler EXCEPT ![s] = FALSE]
    /\ code' = [code EXCEPT ![s] = "signalled"]
    /\ IF pc[s] \in TryRange
       THEN Goto(s, "finally") /\ Stage(s, "check")
       ELSE Goto(s, "exited") /\ Stage(s, "none")
    /\ UNCHANGED <<flag, childVars, clusterVars, scratch, faultVars>>

(* cleanup ends in handle_signal: sys.exit (or the exception out of        *)
(* cleanup) unwinds whatever the signal interrupted, through main's        *)
(* finally when the signal struck in the body of the try.                  *)
LeaveHandler(s) ==
    /\ act[s] \in {"return", "raise"}
    /\ inHandler[s]
    /\ inHandler' = [inHandler EXCEPT ![s] = FALSE]
    /\ code' = [code EXCEPT ![s] =
                  IF act[s] = "raise" THEN "failed" ELSE "signalled"]
    /\ IF pc[s] \in TryRange
       THEN Goto(s, "finally") /\ Stage(s, "check")
       ELSE Goto(s, "exited") /\ Stage(s, "none")
    /\ KillChildren(s)
    /\ UNCHANGED <<flag, clusterVars, scratch, faultVars>>

-----------------------------------------------------------------------------
(* The kubectl children and the cluster.                                   *)

(* kubectl apply submits one document after the other and goes on past     *)
(* one that fails.  The API server refuses an object in a namespace that   *)
(* is not active, and any request may fail.                                *)
ApplyDoc(s) ==
    /\ apply[s] \in {"running", "failing"}
    /\ tried[s] < Len(Manifests(s))
    /\ tried' = [tried EXCEPT ![s] = @ + 1]
    /\ LET d == Manifests(s)[tried[s] + 1] IN
       \/ /\ d = "namespace"
          /\ ns' = [ns EXCEPT ![s] = "active"]
          /\ UNCHANGED <<apply, res>>
       \/ /\ d # "namespace"
          /\ ns[s] = "active"
          /\ res' = [res EXCEPT ![s] = @ \cup {d}]
          /\ UNCHANGED <<apply, ns>>
       \/ /\ apply' = [apply EXCEPT ![s] = "failing"]
          /\ UNCHANGED clusterVars
    /\ UNCHANGED <<runVars, kdel, sweeps, scratch, faultVars>>

(* Mutant: a failed document does not fail the apply.                      *)
Mut_ApplyExit(s) ==
    /\ apply[s] \in {"running", "failing"}
    /\ tried[s] = Len(Manifests(s))
    /\ apply' = [apply EXCEPT ![s] = "ok"]
    /\ UNCHANGED <<runVars, tried, kdel, sweeps, clusterVars, scratch, faultVars>>

ApplyExit(s) ==
    /\ apply[s] \in {"running", "failing"}
    /\ tried[s] = Len(Manifests(s))
    /\ apply' = [apply EXCEPT ![s] = IF @ = "running" THEN "ok" ELSE "error"]
    /\ UNCHANGED <<runVars, tried, kdel, sweeps, clusterVars, scratch, faultVars>>

(* kubectl delete namespace --wait=false --ignore-not-found.               *)
DeleteChild(s) ==
    /\ kdel[s]
    /\ kdel' = [kdel EXCEPT ![s] = FALSE]
    /\ \/ /\ ns' = [ns EXCEPT ![s] = IF @ = "active" THEN "terminating" ELSE @]
          /\ UNCHANGED cause
       \/ /\ cause' = [cause EXCEPT ![s] = @ \cup {"delete"}]
          /\ UNCHANGED ns
    /\ UNCHANGED <<runVars, apply, tried, sweeps, res, scratch, host, sigs>>

(* The namespace controller finishes the cascade.                          *)
Cascade(s) ==
    /\ ns[s] = "terminating"
    /\ ns' = [ns EXCEPT ![s] = "gone"]
    /\ res' = [res EXCEPT ![s] = {}]
    /\ UNCHANGED <<runVars, childVars, scratch, faultVars>>

(* Somebody else deletes the namespace: `agent-uplink clean`, an operator. *)
ExternalDelete(s) ==
    /\ ns[s] = "active"
    /\ ns' = [ns EXCEPT ![s] = "terminating"]
    /\ UNCHANGED <<runVars, childVars, res, scratch, faultVars>>

-----------------------------------------------------------------------------
(* Signals and crashes.                                                    *)

(* SIGINT or SIGTERM before the handlers are installed ends the process    *)
(* with its scratch directory in place.                                    *)
EarlySignal(s) ==
    /\ pc[s] = "created"
    /\ sigs[s] < MaxSignals
    /\ sigs' = [sigs EXCEPT ![s] = @ + 1]
    /\ Goto(s, "killed")
    /\ cause' = [cause EXCEPT ![s] = @ \cup {"kill"}]
    /\ UNCHANGED <<code, flag, act, inHandler, childVars, clusterVars, scratch,
                   host>>

(* handle_signal starts.  A signal from the terminal also reaches the      *)
(* process group, and kubectl dies of it; one sent to the pid does not.    *)
(* The history remembers a signal that struck a running apply and one that *)
(* struck the part of a cleanup that tears down.                           *)
Signal(s, toGroup) ==
    /\ pc[s] \in TryRange \cup {"guarded", "finally"}
    /\ sigs[s] < MaxSignals
    /\ sigs' = [sigs EXCEPT ![s] = @ + 1]
    /\ inHandler' = [inHandler EXCEPT ![s] = TRUE]
    /\ Stage(s, "check")
    /\ IF toGroup THEN KillChildren(s) ELSE UNCHANGED childVars
    /\ cause' = [cause EXCEPT ![s] =
                   @ \cup (IF ~toGroup /\ apply[s] \in {"running", "failing"}
                           THEN {"race"} ELSE {})
                     \cup (IF act[s] \in {"delete", "rmtree"}
                           THEN {"double"} ELSE {})]
    /\ UNCHANGED <<pc, code, flag, clusterVars, scratch, host>>

(* SIGKILL, a host crash: no Python code runs any more.  The children are  *)
(* orphans and go on.                                                      *)
Kill(s) ==
    /\ pc[s] \notin Ended \cup {"idle"}
    /\ Goto(s, "killed")
    /\ act' = [act EXCEPT ![s] = "none"]
    /\ inHandler' = [inHandler EXCEPT ![s] = FALSE]
    /\ cause' = [cause EXCEPT ![s] = @ \cup {"kill"}]
    /\ UNCHANGED <<code, flag, childVars, clusterVars, scratch, host, sigs>>

-----------------------------------------------------------------------------
Main(s) ==
    \/ InstallHandlers(s) \/ Startup(s) \/ Contribute(s) \/ StartApply(s)
    \/ ApplyReturns(s) \/ WaitForPod(s) \/ RunRaises(s)

Cleanup(s) ==
    \/ CheckGuard(s) \/ MarkCleaned(s) \/ DeleteReturns(s) \/ Rmtree(s)
    \/ WarnIfStale(s) \/ LeaveMain(s) \/ LeaveHandler(s)

Cluster(s) == ApplyDoc(s) \/ ApplyExit(s) \/ DeleteChild(s) \/ Cascade(s)

Fault(s) == EarlySignal(s) \/ Kill(s) \/ \E g \in BOOLEAN : Signal(s, g)

(* A run's own steps, its children's and the faults that strike it.        *)
RunStep(s) ==
    Create(s) \/ Main(s) \/ ExecReturns(s) \/ Cleanup(s) \/ Cluster(s) \/ Fault(s)

Next == \E s \in Sessions : RunStep(s) \/ ExternalDelete(s)

Spec == Init /\ [][Next]_vars

(* A run that started keeps going and every kubectl call ends (waits have  *)
(* a timeout); an attached agent ends when it likes, but `kubectl exec`    *)
(* does end once its pod is gone.  Signals, crashes and deletions by       *)
(* others are never due.                                                   *)
Fairness ==
    \A s \in Sessions :
       /\ WF_vars(Main(s))
       /\ WF_vars(Cleanup(s))
       /\ WF_vars("agent" \notin res[s] /\ ExecReturns(s))
       /\ WF_vars(ApplyDoc(s) \/ ApplyExit(s))
       /\ WF_vars(DeleteChild(s))
       /\ WF_vars(Cascade(s))

FairSpec == Spec /\ Fairness
-----------------------------------------------------------------------------
(* Properties.                                                             *)

Typed ==
    /\ pc \in [Sessions -> Pcs]
    /\ code \in [Sessions -> Codes]
    /\ flag \in [Sessions -> BOOLEAN]
    /\ act \in [Sessions -> Acts]
    /\ inHandler \in [Sessions -> BOOLEAN]
    /\ apply \in [Sessions -> {"none", "running", "failing", "ok", "error"}]
    /\ tried \in [Sessions -> Nat]
    /\ kdel \in [Sessions -> BOOLEAN]
    /\ sweeps \in [Sessions -> Nat]
    /\ ns \in [Sessions -> {"absent", "active", "terminating", "gone"}]
    /\ res \in [Sessions -> SUBSET DocNames]
    /\ scratch \in [Sessions -> {"absent", "empty", "secret"}]
    /\ host \in [Sessions -> [relay : BOOLEAN, kubectl : BOOLEAN]]
    /\ sigs \in [Sessions -> 0..MaxSignals]
    /\ cause \in [Sessions -> SUBSET Causes]

(* Every variable keeps its type, a cleanup is under way exactly while a   *)
(* handler or the finally clause runs, and no run gets out of main by      *)
(* itself without one having raised the _cleaned_up flag.                  *)
TypeOK ==
    /\ Typed
    /\ \A s \in Sessions :
          /\ act[s] # "none" <=> inHandler[s] \/ pc[s] = "finally"
          /\ pc[s] = "exited" => flag[s]

(* However signals interleave with the finally clause and with each other, *)
(* a run starts the namespace delete at most once (the _cleaned_up guard,  *)
(* session.py:42-47; test_session.py:2-4).                                 *)
SingleSweep == \A s \in Sessions : sweeps[s] <= 1

(* A run attaches to the agent only behind everything it assembled: while  *)
(* an attached run's namespace is active, its Secrets, NetworkPolicies,    *)
(* mitm and holder are all there, whatever part of an apply failed.        *)
AttachedConfined ==
    \A s \in Sessions :
       pc[s] = "attached" /\ ns[s] = "active" => res[s] = Resources(s)

(* A run that exited by itself leaves an active namespace behind only if a *)
(* signal struck the running apply, a second one cut the teardown short,   *)
(* or the delete failed; nothing else leaks one.                           *)
LeakExplained ==
    \A s \in Sessions :
       pc[s] = "exited" /\ ns[s] = "active"
          => cause[s] \cap {"race", "double", "delete"} # {}

(* A run that exited by itself leaves its scratch directory only if a      *)
(* second signal cut the teardown short or the removal itself failed.      *)
(* Without kubectl cleanup raises before the removal, and what stays is an *)
(* empty directory, never the copy of the host's secrets.                  *)
ScratchExplained ==
    \A s \in Sessions :
       pc[s] = "exited" /\ scratch[s] # "absent"
          => \/ cause[s] \cap {"double", "rmtree"} # {}
             \/ ~host[s].kubectl /\ scratch[s] = "empty"

(* A run that a handled signal reached never reports success, whether the  *)
(* signal struck run(), the finally clause or another handler.             *)
SignalReported ==
    \A s \in Sessions : pc[s] = "exited" /\ sigs[s] > 0 => code[s] # "ok"

(* Once teardown has begun the process does end, however often it is       *)
(* signalled.                                                              *)
TeardownEnds ==
    \A s \in Sessions :
       (flag[s] \/ inHandler[s] \/ pc[s] = "finally") ~> pc[s] \in Ended

(* An exit that no fault disturbed is followed by the end of the namespace *)
(* (it never existed, or its cascade is over) with the scratch directory   *)
(* removed.                                                                *)
TeardownCompletes ==
    \A s \in Sessions :
       (pc[s] = "exited" /\ cause[s] = {} /\ host[s].kubectl)
          ~> (ns[s] \in {"absent", "gone"} /\ scratch[s] = "absent")

(* A run whose namespace was deleted under it, at whatever point of its    *)
(* start-up or while attached, comes to an end by itself.                  *)
ReapedRunEnds ==
    \A s \in Sessions : ns[s] = "gone" ~> pc[s] \in Ended

(* The run as SessionPromise sees it: it closes from the finally clause or *)
(* a handler on.                                                           *)
StageAt(s) ==
    IF inHandler[s] \/ pc[s] = "finally" THEN "closing"
    ELSE IF pc[s] \in {"idle", "attached"} \cup Ended THEN pc[s] ELSE "up"
stageOf == [s \in Sessions |-> StageAt(s)]
completeOf == [s \in Sessions |-> res[s] = Resources(s)]

Promise == INSTANCE SessionPromise WITH stage <- stageOf, complete <- completeOf

(* Runs, children and faults implement the promise, its liveness included. *)
KeepsPromise == Promise!PFairSpec

(* docs/architecture.md:58, "On exit / SIGINT / SIGTERM: kubectl delete ns *)
(* <id>": after one signal and a delete that worked the namespace is not   *)
(* left active.                                                            *)
SignalTearsDown ==
    \A s \in Sessions :
       /\ pc[s] = "exited" /\ code[s] = "signalled"
       /\ sigs[s] = 1 /\ "delete" \notin cause[s]
       => ns[s] # "active"

(* The same sentence and README.md:148 ("torn down on exit") for a run     *)
(* that is signalled again while it tears down.                            *)
SecondSignalTearsDown ==
    \A s \in Sessions :
       /\ pc[s] = "exited" /\ code[s] = "signalled"
       /\ cause[s] \cap {"race", "delete"} = {}
       => ns[s] # "active"
=============================================================================
