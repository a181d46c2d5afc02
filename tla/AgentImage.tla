----------------------------- MODULE AgentImage -----------------------------
(***************************************************************************)
(* How an agent comes to trust its proxy.  The mitmproxy CA is made once   *)
(* and kept in ~/.agent_uplink/mitm; the agent image carries its public    *)
(* certificate and reaches the cluster through the local registry.  Disk,  *)
(* docker's image store and the registry are shared by all runs of a host  *)
(* and no lock protects them.  A run here is its start-up, from            *)
(* ensure_mitm_certs to an attached agent; the same place is taken by one  *)
(* run after the other.                                                    *)
(***************************************************************************)
EXTENDS Naturals

CONSTANTS
    Runs,        \* the runs that may be under way at the same time
    MaxCas       \* bound: CAs made

ASSUME ImageAssumption == MaxCas \in Nat \ {0}

(* A CA is a number; None is its absence.                                  *)
None == 0
Cas  == 0..MaxCas

VARIABLES
    disk,     \* mitm_dir: private key, public certificate, dhparam file
    cas,      \* CAs made so far
    local,    \* docker's image: the CA it trusts, and older than a day
    pushed,   \* the registry's image: the CA it trusts
    pc,       \* where each run stands
    made,     \* ensure_mitm_certs returned True
    force,    \* --force-rebuild
    gen,      \* its one-shot cert-gen pod
    own,      \* the CA that pod is writing
    ctx,      \* the certificate in its build context
    mitm,     \* the key its mitm pod signs with, and the certificate read
    trusted,  \* the CA the image of its agent pod trusts
    calm,     \* history: no start-up met another one or a stray pod, and
              \* every run that began a CA got as far as its push
    alone     \* history: the run's own start-up met no other

shared == <<disk, cas, local, pushed>>
podVars == <<gen, own>>
runVars == <<pc, made, force, ctx, mitm, trusted>>
history == <<calm, alone>>
vars == <<shared, podVars, runVars, history>>

Starting == {"certs", "generating", "decide", "context", "build", "push",
             "read", "pull"}
Pcs == Starting \cup {"idle", "attached", "failed", "killed"}
Gens == {"none", "check", "create", "cert", "dhparam", "succeeded"}

NoCerts == [key |-> None, cert |-> None, dh |-> FALSE]
Unread  == [key |-> None, cert |-> None]

(* A host that never ran the program, or one where it works.               *)
Init ==
    /\ \/ cas = 0 /\ disk = NoCerts
       \/ cas = 1 /\ disk = [key |-> 1, cert |-> 1, dh |-> TRUE]
    /\ local = [ca |-> cas, old |-> FALSE]
    /\ pushed = cas
    /\ pc = [r \in Runs |-> "idle"]
    /\ made = [r \in Runs |-> FALSE]
    /\ force = [r \in Runs |-> FALSE]
    /\ gen = [r \in Runs |-> "none"]
    /\ own = [r \in Runs |-> None]
    /\ ctx = [r \in Runs |-> None]
    /\ mitm = [r \in Runs |-> Unread]
    /\ trusted = [r \in Runs |-> None]
    /\ calm = TRUE
    /\ alone = [r \in Runs |-> FALSE]

PodRuns(r) == gen[r] \notin {"none", "succeeded"}
Busy(r) == pc[r] \in Starting \/ PodRuns(r)

Goto(r, l) == pc' = [pc EXCEPT ![r] = l]
Step(r, from, to) == pc[r] = from /\ Goto(r, to)

-----------------------------------------------------------------------------
(* ensure_mitm_certs.                                                      *)

Launch(r) ==
    /\ Step(r, "idle", "certs")
    /\ \E f \in BOOLEAN : force' = [force EXCEPT ![r] = f]
    /\ LET met == \E q \in Runs : Busy(q)
       IN  /\ calm' = (calm /\ ~met)
           /\ alone' = [q \in Runs |-> IF q = r THEN ~met ELSE alone[q] /\ ~Busy(q)]
    /\ UNCHANGED <<shared, podVars, made, ctx, mitm, trusted>>

(* Only the certificate's existence is tested.                             *)
EnsureCerts(r) ==
    /\ IF disk.cert # None
       THEN Step(r, "certs", "decide") /\ UNCHANGED gen
       ELSE Step(r, "certs", "generating") /\ gen' = [gen EXCEPT ![r] = "check"]
    /\ UNCHANGED <<shared, own, made, force, ctx, mitm, trusted, history>>

(* mitmdump in the pod: with a key on the disk it makes none; a new CA is  *)
(* written file by file.                                                   *)
Generate(r) ==
    /\ \/ /\ gen[r] = "check"
          /\ gen' = [gen EXCEPT ![r] = IF disk.key = None THEN "create" ELSE "succeeded"]
          /\ UNCHANGED <<disk, cas, own>>
       \/ /\ gen[r] = "create" /\ cas < MaxCas
          /\ cas' = cas + 1
          /\ own' = [own EXCEPT ![r] = cas']
          /\ disk' = [disk EXCEPT !.key = cas']
          /\ gen' = [gen EXCEPT ![r] = "cert"]
       \/ /\ gen[r] = "cert"
          /\ disk' = [disk EXCEPT !.cert = own[r]]
          /\ gen' = [gen EXCEPT ![r] = "dhparam"]
          /\ UNCHANGED <<cas, own>>
       \/ /\ gen[r] = "dhparam"
          /\ disk' = [disk EXCEPT !.dh = TRUE]
          /\ gen' = [gen EXCEPT ![r] = "succeeded"]
          /\ UNCHANGED <<cas, own>>
    /\ UNCHANGED <<local, pushed, runVars, history>>

(* Mutant: the certificate's appearance is enough.                         *)
Mut_CertsMade(r) ==
    /\ disk.cert # None
    /\ Step(r, "generating", "decide")
    /\ made' = [made EXCEPT ![r] = TRUE]
    /\ UNCHANGED <<shared, podVars, force, ctx, mitm, trusted, history>>

(* The pod Succeeded: delete it, and look for the file again.              *)
CertsMade(r) ==
    /\ gen[r] = "succeeded"
    /\ Step(r, "generating", IF disk.cert # None THEN "decide" ELSE "failed")
    /\ made' = [made EXCEPT ![r] = disk.cert # None]
    /\ UNCHANGED <<shared, podVars, force, ctx, mitm, trusted, history>>

(* The pod of a run that gave up is deleted, that of a killed run may fail,*)
(* in the middle or later.                                                 *)
StopPod(r) ==
    /\ PodRuns(r) /\ pc[r] \in {"failed", "killed"}
    /\ gen' = [gen EXCEPT ![r] = "succeeded"]
    /\ UNCHANGED <<shared, own, runVars, history>>

-----------------------------------------------------------------------------
(* _ensure_agent_image, build_and_push_agent_image.                        *)

(* Mutants: new certificates are no reason to rebuild; --force-rebuild     *)
(* only skips the cache.                                                   *)
Mut_Decide_IgnoreCerts(r) ==
    /\ Step(r, "decide",
            IF force[r] \/ local.ca = None \/ local.old THEN "context" ELSE "read")
    /\ UNCHANGED <<shared, podVars, made, force, ctx, mitm, trusted, history>>

Mut_Decide_IgnoreForce(r) ==
    /\ Step(r, "decide",
            IF made[r] \/ local.ca = None \/ local.old THEN "context" ELSE "read")
    /\ UNCHANGED <<shared, podVars, made, force, ctx, mitm, trusted, history>>

Decide(r) ==
    /\ Step(r, "decide",
            IF made[r] \/ force[r] \/ local.ca = None \/ local.old
            THEN "context" ELSE "read")
    /\ UNCHANGED <<shared, podVars, made, force, ctx, mitm, trusted, history>>

CopyContext(r) ==
    /\ disk.cert # None
    /\ Step(r, "context", "build")
    /\ ctx' = [ctx EXCEPT ![r] = disk.cert]
    /\ UNCHANGED <<shared, podVars, made, force, mitm, trusted, history>>

Build(r) ==
    /\ Step(r, "build", "push")
    /\ local' = [ca |-> ctx[r], old |-> FALSE]
    /\ UNCHANGED <<disk, cas, pushed, podVars, made, force, ctx, mitm, trusted, history>>

(* Whatever carries the tag by now is pushed.                              *)
Push(r) ==
    /\ local.ca # None
    /\ Step(r, "push", "read")
    /\ pushed' = local.ca
    /\ UNCHANGED <<disk, cas, local, podVars, made, force, ctx, mitm, trusted, history>>

-----------------------------------------------------------------------------
(* _read_mitm_certs and the pods.                                          *)

(* Mutant: a missing file is read as an empty one.                         *)
Mut_ReadCerts(r) ==
    /\ Step(r, "read", "pull")
    /\ mitm' = [mitm EXCEPT ![r] = [key |-> disk.key, cert |-> disk.cert]]
    /\ UNCHANGED <<shared, podVars, made, force, ctx, trusted, history>>

(* A file that is missing ends the run.                                    *)
ReadCerts(r) ==
    /\ IF disk.key # None /\ disk.cert # None /\ disk.dh
       THEN /\ Step(r, "read", "pull")
            /\ mitm' = [mitm EXCEPT ![r] = [key |-> disk.key, cert |-> disk.cert]]
       ELSE Step(r, "read", "failed") /\ UNCHANGED mitm
    /\ UNCHANGED <<shared, podVars, made, force, ctx, trusted, history>>

(* imagePullPolicy Always: the kubelet pulls what the registry holds by    *)
(* the time the pod starts, and retries until it holds something.          *)
Pull(r) ==
    /\ pushed # None
    /\ Step(r, "pull", "attached")
    /\ trusted' = [trusted EXCEPT ![r] = pushed]
    /\ UNCHANGED <<shared, podVars, made, force, ctx, mitm, history>>

-----------------------------------------------------------------------------
(* Faults and the host's user.                                             *)

(* A run that stops with a CA begun and not pushed leaves an image behind  *)
(* that nothing will rebuild for it.                                       *)
Lose(r) ==
    calm' = (calm /\ ~(made[r] /\ pc[r] \in {"decide", "context", "build", "push"})
                  /\ pc[r] # "generating")

(* A step of the start-up raises, times out or is interrupted.             *)
Raise(r) ==
    /\ pc[r] \in Starting
    /\ Goto(r, "failed")
    /\ Lose(r)
    /\ UNCHANGED <<shared, podVars, made, force, ctx, mitm, trusted, alone>>

(* SIGKILL: the pod is nobody's and runs on.                               *)
Kill(r) ==
    /\ pc[r] \in Starting
    /\ Goto(r, "killed")
    /\ Lose(r)
    /\ UNCHANGED <<shared, podVars, made, force, ctx, mitm, trusted, alone>>

(* The run is over, and so is its pod; another may come.                   *)
Retire(r) ==
    /\ pc[r] \in {"attached", "failed", "killed"} /\ ~PodRuns(r)
    /\ Goto(r, "idle")
    /\ made' = [made EXCEPT ![r] = FALSE]
    /\ force' = [force EXCEPT ![r] = FALSE]
    /\ gen' = [gen EXCEPT ![r] = "none"]
    /\ own' = [own EXCEPT ![r] = None]
    /\ ctx' = [ctx EXCEPT ![r] = None]
    /\ mitm' = [mitm EXCEPT ![r] = Unread]
    /\ trusted' = [trusted EXCEPT ![r] = None]
    /\ alone' = [alone EXCEPT ![r] = FALSE]
    /\ UNCHANGED <<shared, calm>>

DayPasses ==
    /\ local.ca # None /\ ~local.old
    /\ local' = [local EXCEPT !.old = TRUE]
    /\ UNCHANGED <<disk, cas, pushed, podVars, runVars, history>>

PruneImage ==
    /\ local.ca # None
    /\ local' = [ca |-> None, old |-> FALSE]
    /\ UNCHANGED <<disk, cas, pushed, podVars, runVars, history>>

(* The user removes ~/.agent_uplink/mitm.                                  *)
WipeCerts ==
    /\ disk # NoCerts
    /\ disk' = NoCerts
    /\ calm' = (calm /\ ~\E r \in Runs : Busy(r))
    /\ alone' = [r \in Runs |-> alone[r] /\ ~Busy(r)]
    /\ UNCHANGED <<cas, local, pushed, podVars, runVars>>

StartUp(r) ==
    \/ EnsureCerts(r) \/ CertsMade(r) \/ Decide(r) \/ CopyContext(r) \/ Build(r)
    \/ Push(r) \/ ReadCerts(r) \/ Pull(r) \/ Raise(r)

Next ==
    \/ \E r \in Runs : Launch(r) \/ StartUp(r) \/ Generate(r) \/ StopPod(r) \/ Kill(r)
                    \/ Retire(r)
    \/ DayPasses \/ PruneImage \/ WipeCerts

Spec == Init /\ [][Next]_vars

-----------------------------------------------------------------------------
(* Properties.                                                             *)

(* Every variable keeps its type, and a run whose pods are up has read a   *)
(* key.                                                                    *)
TypeOK ==
    /\ disk \in [key : Cas, cert : Cas, dh : BOOLEAN]
    /\ cas \in Cas
    /\ local \in [ca : Cas, old : BOOLEAN]
    /\ pushed \in Cas
    /\ pc \in [Runs -> Pcs]
    /\ made \in [Runs -> BOOLEAN]
    /\ force \in [Runs -> BOOLEAN]
    /\ gen \in [Runs -> Gens]
    /\ own \in [Runs -> Cas]
    /\ ctx \in [Runs -> Cas]
    /\ mitm \in [Runs -> [key : Cas, cert : Cas]]
    /\ \A r \in Runs : pc[r] \in {"pull", "attached"} => mitm[r].key # None
    /\ trusted \in [Runs -> Cas]
    /\ calm \in BOOLEAN
    /\ alone \in [Runs -> BOOLEAN]

Trusts(r) == trusted[r] = mitm[r].key
Paired(r) == mitm[r].key = mitm[r].cert

(* As long as start-ups do not overlap and every new CA got to its push,   *)
(* the agent of every attached run trusts the proxy it talks to, however   *)
(* the image aged, was pruned or failed to push, and wherever the CA was   *)
(* removed between runs.                                                   *)
CalmRunsTrust == \A r \in Runs : calm /\ pc[r] = "attached" => Trusts(r)

(* Whatever happened on this host before, a run with --force-rebuild that  *)
(* nothing overlapped trusts its proxy, unless two pods left the key of    *)
(* one CA with the certificate of another on the disk.                     *)
ForceRepairs ==
    \A r \in Runs :
       pc[r] = "attached" /\ alone[r] /\ force[r] /\ Paired(r) => Trusts(r)

(* On such a host the run that reads the CA files finds all of them, of    *)
(* one CA, though their existence was tested on another file and earlier.  *)
CalmReadsWhole ==
    \A r \in Runs :
       calm /\ pc[r] = "read" => disk.key # None /\ disk.key = disk.cert /\ disk.dh

(* docs/architecture.md:66, "rebuild + push whenever mitm certs are newly  *)
(* generated": the image of a run that met no other trusts the CA it reads.*)
NewCertsReachTheImage ==
    \A r \in Runs :
       pc[r] = "attached" /\ alone[r] /\ Paired(r) => Trusts(r)
=============================================================================
