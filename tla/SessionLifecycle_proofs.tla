----------------------- MODULE SessionLifecycle_proofs -----------------------
(***************************************************************************)
(* Theorems about SessionLifecycle, for any set of runs and any number of  *)
(* signals.  Everything rests on one inductive invariant, IInv, which says *)
(* of each run separately where its cleanup can stand (Shape), what the    *)
(* _cleaned_up flag tells (Guarded), when the kubectl apply child can be   *)
(* alive (Child), what remains to be torn down (Torn), what an apply       *)
(* without an error has put in place (Applied) and what a signal does to   *)
(* the exit code (Coded).  The second half shows that it implements        *)
(* SessionPromise.                                                         *)
(***************************************************************************)
EXTENDS SessionLifecycle, TLAPS

Alive(s) == apply[s] \in {"running", "failing"}

(* A cleanup activation belongs to a handler or to the finally clause, and *)
(* a run that has ended runs no code.                                      *)
Shape(s) ==
    /\ act[s] # "none" => inHandler[s] \/ pc[s] = "finally"
    /\ inHandler[s] => pc[s] \in TryRange \cup {"guarded", "finally"}
    /\ inHandler[s] => act[s] # "none"
    /\ pc[s] \in Ended => act[s] = "none"

(* The flag is up from before the delete until the end, and only then.     *)
Guarded(s) ==
    /\ act[s] = "set" => ~flag[s]
    /\ act[s] \in {"delete", "rmtree", "warn", "return", "raise"} => flag[s]
    /\ flag[s] => inHandler[s] \/ pc[s] \in {"finally"} \cup Ended
    /\ pc[s] = "exited" => flag[s]
    /\ sweeps[s] <= 1
    /\ ~flag[s] => sweeps[s] = 0

(* The apply child lives while main waits for it, and beside a handler     *)
(* only when the signal's race was noted; without kubectl there is none.   *)
Child(s) ==
    /\ Alive(s) => pc[s] \in {"applying", "killed"}
    /\ Alive(s) /\ inHandler[s] => "race" \in cause[s]
    /\ ns[s] # "absent" => apply[s] # "none"
    /\ apply[s] # "none" => host[s].kubectl
    /\ ~host[s].kubectl =>
          /\ pc[s] \in {"idle", "created", "guarded", "validate", "bootstrap",
                        "finally"} \cup Ended
          /\ scratch[s] # "secret"

(* After the flag is up, what is left standing is being torn down or has   *)
(* its cause.                                                              *)
NsExcused(s) ==
    "race" \in cause[s] \/ "double" \in cause[s] \/ "delete" \in cause[s]
DirExcused(s) ==
    "double" \in cause[s] \/ "rmtree" \in cause[s] \/ ~host[s].kubectl

Torn(s) ==
    flag[s] /\ pc[s] # "killed" =>
    /\ ns[s] = "active" => (kdel[s] /\ act[s] = "delete") \/ NsExcused(s)
    /\ scratch[s] # "absent" => act[s] \in {"delete", "rmtree"} \/ DirExcused(s)

(* An apply that has seen no error has put everything it submitted into a  *)
(* namespace that is still active.                                         *)
Applied(s) ==
    /\ tried[s] <= Len(Manifests(s))
    /\ tried[s] = 0 => res[s] = {}
    /\ ns[s] = "active" /\ apply[s] = "running"
          => /\ tried[s] > 0
             /\ res[s] = {Manifests(s)[i] : i \in 2..tried[s]}
    /\ ns[s] = "active" /\ apply[s] = "ok" => res[s] = Resources(s)
    /\ apply[s] = "none" => tried[s] = 0
    /\ pc[s] \in Waits \cup {"attached"} => apply[s] = "ok"

(* A signal leaves the run in a handler or on its way out, and no later    *)
(* step of it sets the exit code to success.                               *)
Coded(s) ==
    sigs[s] > 0 /\ ~inHandler[s] =>
    /\ pc[s] \in {"finally"} \cup Ended
    /\ pc[s] # "killed" => code[s] # "ok"

Ind(s) ==
    Shape(s) /\ Guarded(s) /\ Child(s) /\ Torn(s) /\ Applied(s) /\ Coded(s)

(* The finally clause is its cleanup.                                      *)
Busy == \A s \in Sessions : pc[s] = "finally" => act[s] # "none"

IInv == Typed /\ Busy /\ \A s \in Sessions : Ind(s)

-----------------------------------------------------------------------------
(* Types.                                                                  *)

LEMMA PcsAre ==
    /\ TryRange = {"validate", "bootstrap", "prepare", "contribute",
                   "applying", "attached", "wait_mitm", "wait_ssh", "wait_agent"}
    /\ Pcs = {"idle", "created", "guarded", "finally", "validate",
              "bootstrap", "prepare", "contribute", "applying", "attached",
              "wait_mitm", "wait_ssh", "wait_agent", "exited", "killed"}
  BY DEF Pcs, TryRange, Waits, Ended

LEMMA ManifestsType ==
    ASSUME NEW s \in Sessions
    PROVE  /\ Len(Manifests(s)) \in {5, 6}
           /\ \A i \in 1..Len(Manifests(s)) : Manifests(s)[i] \in DocNames
  BY DEF Manifests, DocNames

LEMMA InitType == Init => Typed
  BY SessionAssumption DEF Init, Typed, Pcs, Codes, Acts

(* Every action keeps the types, each for its own reason only in what it   *)
(* assigns.                                                                *)
LEMMA TypeStep ==
    ASSUME Typed, [Next]_vars
    PROVE  Typed'
  <1> USE DEF Typed, runVars, childVars, clusterVars, faultVars
  <1>1. ASSUME NEW s \in Sessions, Create(s) PROVE Typed'
    BY <1>1, PcsAre DEF Create, Step, Goto, At
  <1>2. ASSUME NEW s \in Sessions, InstallHandlers(s) PROVE Typed'
    BY <1>2, PcsAre DEF InstallHandlers, Step, Goto, At
  <1>3. ASSUME NEW s \in Sessions, Startup(s) PROVE Typed'
    BY <1>3, PcsAre DEF Startup, Step, Goto, At
  <1>4. ASSUME NEW s \in Sessions, Contribute(s) PROVE Typed'
    BY <1>4, PcsAre DEF Contribute, Step, Goto, At
  <1>5. ASSUME NEW s \in Sessions, StartApply(s) PROVE Typed'
    BY <1>5 DEF StartApply, At
  <1>6. ASSUME NEW s \in Sessions, ApplyReturns(s) PROVE Typed'
    BY <1>6, PcsAre, ZenonT(60) DEF ApplyReturns, Step, Goto, At, EnterFinally, Acts, Codes
  <1>7. ASSUME NEW s \in Sessions, WaitForPod(s) PROVE Typed'
    BY <1>7, PcsAre DEF WaitForPod, Step, Goto, At
  <1>8. ASSUME NEW s \in Sessions, RunRaises(s) PROVE Typed'
    BY <1>8, PcsAre DEF RunRaises, EnterFinally, Goto, Acts, Codes
  <1>9. ASSUME NEW s \in Sessions, ExecReturns(s) PROVE Typed'
    BY <1>9, PcsAre DEF ExecReturns, EnterFinally, Goto, Acts, Codes
  <1>10. ASSUME NEW s \in Sessions, CheckGuard(s) PROVE Typed'
    BY <1>10 DEF CheckGuard, Stage, Acts
  <1>11. ASSUME NEW s \in Sessions, MarkCleaned(s) PROVE Typed'
    <2>1. CASE host[s].kubectl
      <3>1. sweeps[s] + 1 \in Nat
        OBVIOUS
      <3> QED BY <1>11, <2>1, <3>1, ZenonT(60) DEF MarkCleaned, Stage, Acts
    <2>2. CASE ~host[s].kubectl
      BY <1>11, <2>2 DEF MarkCleaned, Stage, Acts
    <2> QED BY <2>1, <2>2
  <1>12. ASSUME NEW s \in Sessions, DeleteReturns(s) PROVE Typed'
    BY <1>12 DEF DeleteReturns, Stage, Acts
  <1>13. ASSUME NEW s \in Sessions, Rmtree(s) PROVE Typed'
    <2>1. CASE cause' = cause
      BY <1>13, <2>1 DEF Rmtree, Stage, Acts
    <2>2. CASE cause' # cause
      <3>1. cause[s] \cup {"rmtree"} \in SUBSET Causes
        BY DEF Causes
      <3>2. /\ act' = [act EXCEPT ![s] = "warn"]
            /\ cause' = [cause EXCEPT ![s] = cause[s] \cup {"rmtree"}]
            /\ UNCHANGED <<pc, code, flag, inHandler, apply, tried, kdel, sweeps,
                           ns, res, scratch, host, sigs>>
        BY <1>13, <2>2 DEF Rmtree, Stage
      <3> QED BY <3>1, <3>2 DEF Acts
    <2> QED BY <2>1, <2>2
  <1>14. ASSUME NEW s \in Sessions, WarnIfStale(s) PROVE Typed'
    BY <1>14 DEF WarnIfStale, Stage, Acts
  <1>15. ASSUME NEW s \in Sessions, LeaveMain(s) PROVE Typed'
    BY <1>15, PcsAre DEF LeaveMain, Goto, Stage, Acts, Codes
  <1>16. ASSUME NEW s \in Sessions, LeaveHandler(s) PROVE Typed'
    <2>1. pc' \in [Sessions -> Pcs] /\ act' \in [Sessions -> Acts]
      BY <1>16, PcsAre, ZenonT(60) DEF LeaveHandler, Goto, Stage, Acts
    <2>2. inHandler' \in [Sessions -> BOOLEAN] /\ code' \in [Sessions -> Codes]
      BY <1>16 DEF LeaveHandler, Codes
    <2>3. /\ apply' \in [Sessions -> {"none", "running", "failing", "ok", "error"}]
          /\ kdel' \in [Sessions -> BOOLEAN]
          /\ UNCHANGED <<tried, sweeps>>
      BY <1>16 DEF LeaveHandler, KillChildren
    <2>4. UNCHANGED <<flag, ns, res, scratch, host, sigs, cause>>
      BY <1>16 DEF LeaveHandler
    <2> QED BY <2>1, <2>2, <2>3, <2>4
  <1>17. ASSUME NEW s \in Sessions, ApplyDoc(s) PROVE Typed'
    <2> DEFINE d == Manifests(s)[tried[s] + 1]
    <2>1. d \in DocNames /\ tried[s] + 1 \in Nat
      BY <1>17, ManifestsType DEF ApplyDoc
    <2>2. res[s] \cup {d} \in SUBSET DocNames
      BY <2>1
    <2>3. /\ tried' = [tried EXCEPT ![s] = tried[s] + 1]
          /\ UNCHANGED <<pc, code, flag, act, inHandler, kdel, sweeps, scratch,
                         host, sigs, cause>>
      BY <1>17 DEF ApplyDoc
    <2>4. \/ ns' = [ns EXCEPT ![s] = "active"] /\ UNCHANGED <<apply, res>>
          \/ res' = [res EXCEPT ![s] = res[s] \cup {d}] /\ UNCHANGED <<apply, ns>>
          \/ apply' = [apply EXCEPT ![s] = "failing"] /\ UNCHANGED <<ns, res>>
      BY <1>17 DEF ApplyDoc
    <2> HIDE DEF d
    <2> QED BY <2>1, <2>2, <2>3, <2>4, ZenonT(60)
  <1>18. ASSUME NEW s \in Sessions, ApplyExit(s) PROVE Typed'
    BY <1>18 DEF ApplyExit
  <1>19. ASSUME NEW s \in Sessions, DeleteChild(s) PROVE Typed'
    BY <1>19, SMTT(60) DEF DeleteChild, Causes
  <1>20. ASSUME NEW s \in Sessions, Cascade(s) PROVE Typed'
    BY <1>20 DEF Cascade
  <1>21. ASSUME NEW s \in Sessions, EarlySignal(s) PROVE Typed'
    BY <1>21, PcsAre, SessionAssumption DEF EarlySignal, Goto, Causes
  <1>22. ASSUME NEW s \in Sessions, Kill(s) PROVE Typed'
    BY <1>22, PcsAre DEF Kill, Goto, Acts, Causes
  <1>23. ASSUME NEW s \in Sessions, NEW g \in BOOLEAN, Signal(s, g)
         PROVE  Typed'
    <2>1. /\ sigs' \in [Sessions -> 0..MaxSignals]
          /\ inHandler' \in [Sessions -> BOOLEAN]
          /\ act' \in [Sessions -> Acts]
      BY <1>23, SessionAssumption DEF Signal, Stage, Acts
    <2>2. cause' \in [Sessions -> SUBSET Causes]
      BY <1>23 DEF Signal, Causes
    <2>3. CASE g
      <3>1. /\ apply' \in [Sessions -> {"none", "running", "failing", "ok", "error"}]
            /\ kdel' \in [Sessions -> BOOLEAN]
            /\ UNCHANGED <<tried, sweeps>>
        BY <1>23, <2>3 DEF Signal, KillChildren
      <3> QED BY <1>23, <2>1, <2>2, <3>1 DEF Signal
    <2>4. CASE ~g
      BY <1>23, <2>1, <2>2, <2>4 DEF Signal
    <2> QED BY <2>3, <2>4
  <1>24. ASSUME NEW s \in Sessions, ExternalDelete(s) PROVE Typed'
    BY <1>24 DEF ExternalDelete
  <1>25. CASE UNCHANGED vars
    BY <1>25 DEF vars
  <1> HIDE DEF Typed
  <1> QED
    BY <1>1, <1>2, <1>3, <1>4, <1>5, <1>6, <1>7, <1>8, <1>9, <1>10, <1>11,
       <1>12, <1>13, <1>14, <1>15, <1>16, <1>17, <1>18, <1>19, <1>20, <1>21,
       <1>22, <1>23, <1>24, <1>25
    DEF Next, RunStep, Main, Cleanup, Cluster, Fault

-----------------------------------------------------------------------------
(* The inductive step.                                                     *)

(* The first document is the namespace and no other is.                    *)
LEMMA ManifestsHead ==
    ASSUME NEW s \in Sessions, NEW i \in 1..Len(Manifests(s))
    PROVE  Manifests(s)[i] = "namespace" <=> i = 1
  BY DEF Manifests

(* The others, put together, are everything the run needs there.           *)
LEMMA ManifestsCover ==
    ASSUME NEW s \in Sessions
    PROVE  {Manifests(s)[i] : i \in 2..Len(Manifests(s))} = Resources(s)
  <1>1. CASE host[s].relay
    <2>1. Manifests(s) = <<"namespace", "secrets", "policies", "mitm", "ssh", "agent">>
      BY <1>1 DEF Manifests
    <2>2. 2..Len(Manifests(s)) = {2, 3, 4, 5, 6}
      BY <2>1
    <2>3. Resources(s) = {"secrets", "policies", "mitm", "ssh", "agent"}
      BY <1>1 DEF Resources, DocNames
    <2> QED BY <2>1, <2>2, <2>3
  <1>2. CASE ~host[s].relay
    <2>1. Manifests(s) = <<"namespace", "secrets", "policies", "mitm", "agent">>
      BY <1>2 DEF Manifests
    <2>2. 2..Len(Manifests(s)) = {2, 3, 4, 5}
      BY <2>1
    <2>3. Resources(s) = {"secrets", "policies", "mitm", "agent"}
      BY <1>2 DEF Resources, DocNames
    <2> QED BY <2>1, <2>2, <2>3
  <1> QED BY <1>1, <1>2

LEMMA IndInit == Init => \A s \in Sessions : Ind(s)
  BY ManifestsType
  DEF Init, Ind, Shape, Guarded, Child, Torn, Applied, Coded, Alive, Ended, TryRange, Waits

(* One step per action; t is any run, the one that acts or another.        *)
LEMMA IndStep ==
    ASSUME Typed, \A s \in Sessions : Ind(s), [Next]_vars, Typed'
    PROVE  \A s \in Sessions : Ind(s)'
  <1> USE DEF Typed, runVars, childVars, clusterVars, faultVars, Ind, Alive, Ended
  <1>1. ASSUME NEW s \in Sessions, Create(s), NEW t \in Sessions
        PROVE  Ind(t)'
    <2>0. Manifests(t)' = Manifests(t) /\ Resources(t)' = Resources(t)
      BY <1>1 DEF Create, Manifests, Resources
    <2>1. CASE t # s
      BY <1>1, <2>0, <2>1 DEF Create, Step, Goto, At,
          Shape, Guarded, Child, Torn, Applied, Coded,
          Waits, NsExcused, DirExcused
    <2>2. CASE t = s
      <3>1. Shape(s)' /\ Guarded(s)' /\ Coded(s)'
        BY <1>1, PcsAre DEF Create, Step, Goto, At, Shape, Guarded, Coded
      <3>2. Child(s)'
        BY <1>1, PcsAre, SMTT(60) DEF Create, Step, Goto, At, Shape, Child
      <3>3. Torn(s)'
        BY <1>1, PcsAre, SMTT(90)
        DEF Create, Step, Goto, At, Shape, Guarded, Child, Torn, NsExcused, DirExcused
      <3>4. Applied(s)'
        BY <1>1, <2>0, <2>2, PcsAre DEF Create, Step, Goto, At, Applied, Waits
      <3> QED BY <2>2, <3>1, <3>2, <3>3, <3>4
    <2> QED BY <2>1, <2>2
  <1>2. ASSUME NEW s \in Sessions, InstallHandlers(s), NEW t \in Sessions
        PROVE  Ind(t)'
    <2>0. Manifests(t)' = Manifests(t) /\ Resources(t)' = Resources(t)
      BY <1>2 DEF InstallHandlers, Manifests, Resources
    <2>1. CASE t # s
      BY <1>2, <2>0, <2>1 DEF InstallHandlers, Step, Goto, At,
          Shape, Guarded, Child, Torn, Applied, Coded,
          Waits, NsExcused, DirExcused
    <2>2. CASE t = s
      <3>1. Shape(s)' /\ Guarded(s)' /\ Coded(s)'
        BY <1>2, PcsAre DEF InstallHandlers, Step, Goto, At, Shape, Guarded, Coded
      <3>2. Child(s)'
        BY <1>2, PcsAre DEF InstallHandlers, Step, Goto, At, Shape, Child
      <3>3. Torn(s)'
        BY <1>2, PcsAre
        DEF InstallHandlers, Step, Goto, At, Shape, Guarded, Child, Torn, NsExcused, DirExcused
      <3>4. Applied(s)'
        BY <1>2, <2>0, <2>2, PcsAre DEF InstallHandlers, Step, Goto, At, Applied, Waits
      <3> QED BY <2>2, <3>1, <3>2, <3>3, <3>4
    <2> QED BY <2>1, <2>2
  <1>3. ASSUME NEW s \in Sessions, Startup(s), NEW t \in Sessions
        PROVE  Ind(t)'
    <2>0. Manifests(t)' = Manifests(t) /\ Resources(t)' = Resources(t)
      BY <1>3 DEF Startup, Manifests, Resources
    <2>1. CASE t # s
      BY <1>3, <2>0, <2>1 DEF Startup, Step, Goto, At,
          Shape, Guarded, Child, Torn, Applied, Coded,
          Waits, NsExcused, DirExcused
    <2>2. CASE t = s
      <3>1. Shape(s)' /\ Guarded(s)' /\ Coded(s)'
        BY <1>3, PcsAre DEF Startup, Step, Goto, At, Shape, Guarded, Coded
      <3>2. Child(s)'
        BY <1>3, PcsAre, SMTT(60) DEF Startup, Step, Goto, At, Shape, Child
      <3>3. Torn(s)'
        BY <1>3, PcsAre, SMTT(60)
        DEF Startup, Step, Goto, At, Shape, Guarded, Child, Torn, NsExcused, DirExcused
      <3>4. Applied(s)'
        BY <1>3, <2>0, <2>2, PcsAre DEF Startup, Step, Goto, At, Applied, Waits
      <3> QED BY <2>2, <3>1, <3>2, <3>3, <3>4
    <2> QED BY <2>1, <2>2
  <1>4. ASSUME NEW s \in Sessions, Contribute(s), NEW t \in Sessions
        PROVE  Ind(t)'
    <2>0. Manifests(t)' = Manifests(t) /\ Resources(t)' = Resources(t)
      BY <1>4 DEF Contribute, Manifests, Resources
    <2>1. CASE t # s
      BY <1>4, <2>0, <2>1 DEF Contribute, Step, Goto, At,
          Shape, Guarded, Child, Torn, Applied, Coded,
          Waits, NsExcused, DirExcused
    <2>2. CASE t = s
      <3>1. Shape(s)' /\ Guarded(s)' /\ Coded(s)'
        BY <1>4, PcsAre DEF Contribute, Step, Goto, At, Shape, Guarded, Coded
      <3>2. Child(s)'
        BY <1>4, PcsAre DEF Contribute, Step, Goto, At, Shape, Child
      <3>3. Torn(s)'
        BY <1>4, PcsAre
        DEF Contribute, Step, Goto, At, Shape, Guarded, Child, Torn, NsExcused, DirExcused
      <3>4. Applied(s)'
        BY <1>4, <2>0, <2>2, PcsAre DEF Contribute, Step, Goto, At, Applied, Waits
      <3> QED BY <2>2, <3>1, <3>2, <3>3, <3>4
    <2> QED BY <2>1, <2>2
  <1>5. ASSUME NEW s \in Sessions, StartApply(s), NEW t \in Sessions
        PROVE  Ind(t)'
    <2>0. Manifests(t)' = Manifests(t) /\ Resources(t)' = Resources(t)
      BY <1>5 DEF StartApply, Manifests, Resources
    <2>1. CASE t # s
      BY <1>5, <2>0, <2>1 DEF StartApply, At,
          Shape, Guarded, Child, Torn, Applied, Coded,
          Waits, NsExcused, DirExcused
    <2>2. CASE t = s
      <3>1. Shape(s)' /\ Guarded(s)' /\ Coded(s)'
        BY <1>5, PcsAre DEF StartApply, At, Shape, Guarded, Coded
      <3>2. Child(s)'
        BY <1>5, PcsAre DEF StartApply, At, Shape, Child
      <3>3. Torn(s)'
        BY <1>5, PcsAre
        DEF StartApply, At, Shape, Guarded, Child, Torn, NsExcused, DirExcused
      <3>4. Applied(s)'
        BY <1>5, <2>0, <2>2, PcsAre DEF StartApply, At, Applied, Waits, Child
      <3> QED BY <2>2, <3>1, <3>2, <3>3, <3>4
    <2> QED BY <2>1, <2>2
  <1>6. ASSUME NEW s \in Sessions, ApplyReturns(s), NEW t \in Sessions
        PROVE  Ind(t)'
    <2>0. Manifests(t)' = Manifests(t) /\ Resources(t)' = Resources(t)
      BY <1>6 DEF ApplyReturns, Manifests, Resources
    <2>1. CASE t # s
      BY <1>6, <2>0, <2>1 DEF ApplyReturns, Step, Goto, At, EnterFinally,
          Shape, Guarded, Child, Torn, Applied, Coded,
          Waits, NsExcused, DirExcused
    <2>2. CASE t = s
      <3>1. Shape(s)' /\ Guarded(s)' /\ Coded(s)'
        BY <1>6, PcsAre DEF ApplyReturns, Step, Goto, At, EnterFinally, Shape, Guarded, Coded
      <3>2. Child(s)'
        BY <1>6, PcsAre DEF ApplyReturns, Step, Goto, At, EnterFinally, Shape, Child
      <3>3. Torn(s)'
        BY <1>6, PcsAre
        DEF ApplyReturns, Step, Goto, At, EnterFinally, Shape, Guarded, Child, Torn, NsExcused, DirExcused
      <3>4. Applied(s)'
        BY <1>6, <2>0, <2>2, PcsAre DEF ApplyReturns, Step, Goto, At, EnterFinally, Applied, Waits
      <3> QED BY <2>2, <3>1, <3>2, <3>3, <3>4
    <2> QED BY <2>1, <2>2
  <1>7. ASSUME NEW s \in Sessions, WaitForPod(s), NEW t \in Sessions
        PROVE  Ind(t)'
    <2>0. Manifests(t)' = Manifests(t) /\ Resources(t)' = Resources(t)
      BY <1>7 DEF WaitForPod, Manifests, Resources
    <2>1. CASE t # s
      BY <1>7, <2>0, <2>1 DEF WaitForPod, Step, Goto, At,
          Shape, Guarded, Child, Torn, Applied, Coded,
          Waits, NsExcused, DirExcused
    <2>2. CASE t = s
      <3>1. Shape(s)' /\ Guarded(s)' /\ Coded(s)'
        BY <1>7, PcsAre DEF WaitForPod, Step, Goto, At, Shape, Guarded, Coded
      <3>2. Child(s)'
        BY <1>7, PcsAre DEF WaitForPod, Step, Goto, At, Shape, Child
      <3>3. Torn(s)'
        BY <1>7, PcsAre
        DEF WaitForPod, Step, Goto, At, Shape, Guarded, Child, Torn, NsExcused, DirExcused
      <3>4. Applied(s)'
        BY <1>7, <2>0, <2>2, PcsAre DEF WaitForPod, Step, Goto, At, Applied, Waits
      <3> QED BY <2>2, <3>1, <3>2, <3>3, <3>4
    <2> QED BY <2>1, <2>2
  <1>8. ASSUME NEW s \in Sessions, RunRaises(s), NEW t \in Sessions
        PROVE  Ind(t)'
    <2>0. Manifests(t)' = Manifests(t) /\ Resources(t)' = Resources(t)
      BY <1>8 DEF RunRaises, Manifests, Resources
    <2>1. CASE t # s
      BY <1>8, <2>0, <2>1 DEF RunRaises, EnterFinally, Goto, At,
          Shape, Guarded, Child, Torn, Applied, Coded,
          Waits, NsExcused, DirExcused
    <2>2. CASE t = s
      <3>1. Shape(s)' /\ Guarded(s)' /\ Coded(s)'
        BY <1>8, PcsAre DEF RunRaises, EnterFinally, Goto, At, Shape, Guarded, Coded
      <3>2. Child(s)'
        BY <1>8, PcsAre DEF RunRaises, EnterFinally, Goto, At, Shape, Child
      <3>3. Torn(s)'
        BY <1>8, PcsAre
        DEF RunRaises, EnterFinally, Goto, At, Shape, Guarded, Child, Torn, NsExcused, DirExcused
      <3>4. Applied(s)'
        BY <1>8, <2>0, <2>2, PcsAre DEF RunRaises, EnterFinally, Goto, At, Applied, Waits
      <3> QED BY <2>2, <3>1, <3>2, <3>3, <3>4
    <2> QED BY <2>1, <2>2
  <1>9. ASSUME NEW s \in Sessions, ExecReturns(s), NEW t \in Sessions
        PROVE  Ind(t)'
    <2>0. Manifests(t)' = Manifests(t) /\ Resources(t)' = Resources(t)
      BY <1>9 DEF ExecReturns, Manifests, Resources
    <2>1. CASE t # s
      BY <1>9, <2>0, <2>1 DEF ExecReturns, EnterFinally, Goto, At,
          Shape, Guarded, Child, Torn, Applied, Coded,
          Waits, NsExcused, DirExcused
    <2>2. CASE t = s
      <3>1. Shape(s)' /\ Guarded(s)' /\ Coded(s)'
        BY <1>9, PcsAre, SMTT(60) DEF ExecReturns, EnterFinally, Goto, At, Shape, Guarded, Coded
      <3>2. Child(s)'
        BY <1>9, PcsAre DEF ExecReturns, EnterFinally, Goto, At, Shape, Child
      <3>3. Torn(s)'
        BY <1>9, PcsAre
        DEF ExecReturns, EnterFinally, Goto, At, Shape, Guarded, Child, Torn, NsExcused, DirExcused
      <3>4. Applied(s)'
        BY <1>9, <2>0, <2>2, PcsAre DEF ExecReturns, EnterFinally, Goto, At, Applied, Waits
      <3> QED BY <2>2, <3>1, <3>2, <3>3, <3>4
    <2> QED BY <2>1, <2>2
  <1>10. ASSUME NEW s \in Sessions, CheckGuard(s), NEW t \in Sessions
        PROVE  Ind(t)'
    <2>0. Manifests(t)' = Manifests(t) /\ Resources(t)' = Resources(t)
      BY <1>10 DEF CheckGuard, Manifests, Resources
    <2>1. CASE t # s
      BY <1>10, <2>0, <2>1 DEF CheckGuard, Stage,
          Shape, Guarded, Child, Torn, Applied, Coded,
          Waits, NsExcused, DirExcused
    <2>2. CASE t = s
      <3>1. Shape(s)' /\ Guarded(s)' /\ Coded(s)'
        BY <1>10, PcsAre DEF CheckGuard, Stage, Shape, Guarded, Coded
      <3>2. Child(s)'
        BY <1>10, PcsAre DEF CheckGuard, Stage, Shape, Child
      <3>3. Torn(s)'
        BY <1>10, PcsAre
        DEF CheckGuard, Stage, Shape, Guarded, Child, Torn, NsExcused, DirExcused
      <3>4. Applied(s)'
        BY <1>10, <2>0, <2>2, PcsAre DEF CheckGuard, Stage, Applied, Waits
      <3> QED BY <2>2, <3>1, <3>2, <3>3, <3>4
    <2> QED BY <2>1, <2>2
  <1>11. ASSUME NEW s \in Sessions, MarkCleaned(s), NEW t \in Sessions
        PROVE  Ind(t)'
    <2>0. Manifests(t)' = Manifests(t) /\ Resources(t)' = Resources(t)
      BY <1>11 DEF MarkCleaned, Manifests, Resources
    <2>1. CASE t # s
      BY <1>11, <2>0, <2>1 DEF MarkCleaned, Stage,
          Shape, Guarded, Child, Torn, Applied, Coded,
          Waits, NsExcused, DirExcused
    <2>2. CASE t = s
      <3>1. Shape(s)' /\ Guarded(s)' /\ Coded(s)'
        BY <1>11, PcsAre DEF MarkCleaned, Stage, Shape, Guarded, Coded
      <3>2. Child(s)'
        BY <1>11, PcsAre DEF MarkCleaned, Stage, Shape, Child
      <3>3. Torn(s)'
        BY <1>11, PcsAre
        DEF MarkCleaned, Stage, Shape, Guarded, Child, Torn, NsExcused, DirExcused
      <3>4. Applied(s)'
        BY <1>11, <2>0, <2>2, PcsAre DEF MarkCleaned, Stage, Applied, Waits
      <3> QED BY <2>2, <3>1, <3>2, <3>3, <3>4
    <2> QED BY <2>1, <2>2
  <1>12. ASSUME NEW s \in Sessions, DeleteReturns(s), NEW t \in Sessions
        PROVE  Ind(t)'
    <2>0. Manifests(t)' = Manifests(t) /\ Resources(t)' = Resources(t)
      BY <1>12 DEF DeleteReturns, Manifests, Resources
    <2>1. CASE t # s
      BY <1>12, <2>0, <2>1 DEF DeleteReturns, Stage,
          Shape, Guarded, Child, Torn, Applied, Coded,
          Waits, NsExcused, DirExcused
    <2>2. CASE t = s
      <3>1. Shape(s)' /\ Guarded(s)' /\ Coded(s)'
        BY <1>12, PcsAre DEF DeleteReturns, Stage, Shape, Guarded, Coded
      <3>2. Child(s)'
        BY <1>12, PcsAre DEF DeleteReturns, Stage, Shape, Child
      <3>3. Torn(s)'
        BY <1>12, PcsAre
        DEF DeleteReturns, Stage, Shape, Guarded, Child, Torn, NsExcused, DirExcused
      <3>4. Applied(s)'
        BY <1>12, <2>0, <2>2, PcsAre DEF DeleteReturns, Stage, Applied, Waits
      <3> QED BY <2>2, <3>1, <3>2, <3>3, <3>4
    <2> QED BY <2>1, <2>2
  <1>13. ASSUME NEW s \in Sessions, Rmtree(s), NEW t \in Sessions
        PROVE  Ind(t)'
    <2>0. Manifests(t)' = Manifests(t) /\ Resources(t)' = Resources(t)
      BY <1>13 DEF Rmtree, Manifests, Resources
    <2>1. CASE t # s
      BY <1>13, <2>0, <2>1 DEF Rmtree, Stage,
          Shape, Guarded, Child, Torn, Applied, Coded,
          Waits, NsExcused, DirExcused
    <2>2. CASE t = s
      <3>1. Shape(s)' /\ Guarded(s)' /\ Coded(s)'
        BY <1>13, PcsAre DEF Rmtree, Stage, Shape, Guarded, Coded
      <3>2. Child(s)'
        BY <1>13, PcsAre DEF Rmtree, Stage, Shape, Child
      <3>3. Torn(s)'
        BY <1>13, PcsAre
        DEF Rmtree, Stage, Shape, Guarded, Child, Torn, NsExcused, DirExcused
      <3>4. Applied(s)'
        BY <1>13, <2>0, <2>2, PcsAre DEF Rmtree, Stage, Applied, Waits
      <3> QED BY <2>2, <3>1, <3>2, <3>3, <3>4
    <2> QED BY <2>1, <2>2
  <1>14. ASSUME NEW s \in Sessions, WarnIfStale(s), NEW t \in Sessions
        PROVE  Ind(t)'
    <2>0. Manifests(t)' = Manifests(t) /\ Resources(t)' = Resources(t)
      BY <1>14 DEF WarnIfStale, Manifests, Resources
    <2>1. CASE t # s
      BY <1>14, <2>0, <2>1 DEF WarnIfStale, Stage,
          Shape, Guarded, Child, Torn, Applied, Coded,
          Waits, NsExcused, DirExcused
    <2>2. CASE t = s
      <3>1. Shape(s)' /\ Guarded(s)' /\ Coded(s)'
        BY <1>14, PcsAre DEF WarnIfStale, Stage, Shape, Guarded, Coded
      <3>2. Child(s)'
        BY <1>14, PcsAre DEF WarnIfStale, Stage, Shape, Child
      <3>3. Torn(s)'
        BY <1>14, PcsAre
        DEF WarnIfStale, Stage, Shape, Guarded, Child, Torn, NsExcused, DirExcused
      <3>4. Applied(s)'
        BY <1>14, <2>0, <2>2, PcsAre DEF WarnIfStale, Stage, Applied, Waits
      <3> QED BY <2>2, <3>1, <3>2, <3>3, <3>4
    <2> QED BY <2>1, <2>2
  <1>15. ASSUME NEW s \in Sessions, LeaveMain(s), NEW t \in Sessions
        PROVE  Ind(t)'
    <2>0. Manifests(t)' = Manifests(t) /\ Resources(t)' = Resources(t)
      BY <1>15 DEF LeaveMain, Manifests, Resources
    <2>1. CASE t # s
      BY <1>15, <2>0, <2>1 DEF LeaveMain, Goto, Stage,
          Shape, Guarded, Child, Torn, Applied, Coded,
          Waits, NsExcused, DirExcused
    <2>2. CASE t = s
      <3>1. Shape(s)' /\ Guarded(s)' /\ Coded(s)'
        BY <1>15, PcsAre DEF LeaveMain, Goto, Stage, Shape, Guarded, Coded
      <3>2. Child(s)'
        <4>1. pc[s] = "finally" /\ pc'[s] = "exited"
          BY <1>15 DEF LeaveMain, Goto, Shape
        <4>2. ~Alive(s)
          BY <4>1 DEF Child
        <4>3. UNCHANGED <<apply, ns, scratch, host>>
          BY <1>15 DEF LeaveMain
        <4> QED BY <4>1, <4>2, <4>3 DEF Child, Alive
      <3>3. Torn(s)'
        <4>1. act[s] \notin {"delete", "rmtree"} /\ flag[s] /\ pc[s] # "killed"
          BY <1>15 DEF LeaveMain, Shape, Guarded
        <4>2. /\ ns[s] = "active" => NsExcused(s)
              /\ scratch[s] # "absent" => DirExcused(s)
          BY <4>1 DEF Torn
        <4>3. UNCHANGED <<ns, scratch, cause, host>>
          BY <1>15 DEF LeaveMain
        <4> QED BY <4>2, <4>3 DEF Torn, NsExcused, DirExcused
      <3>4. Applied(s)'
        BY <1>15, <2>0, <2>2, PcsAre DEF LeaveMain, Goto, Stage, Applied, Waits
      <3> QED BY <2>2, <3>1, <3>2, <3>3, <3>4
    <2> QED BY <2>1, <2>2
  <1>16. ASSUME NEW s \in Sessions, LeaveHandler(s), NEW t \in Sessions
        PROVE  Ind(t)'
    <2>0. Manifests(t)' = Manifests(t) /\ Resources(t)' = Resources(t)
      BY <1>16 DEF LeaveHandler, Manifests, Resources
    <2>1. CASE t # s
      BY <1>16, <2>0, <2>1 DEF LeaveHandler, Goto, Stage, KillChildren,
          Shape, Guarded, Child, Torn, Applied, Coded,
          Waits, NsExcused, DirExcused
    <2>2. CASE t = s
      <3>1. Shape(s)' /\ Guarded(s)' /\ Coded(s)'
        BY <1>16, PcsAre DEF LeaveHandler, Goto, Stage, KillChildren, Shape, Guarded, Coded
      <3>2. Child(s)'
        BY <1>16, PcsAre DEF LeaveHandler, Goto, Stage, KillChildren, Shape, Child
      <3>3. Torn(s)'
        BY <1>16, PcsAre
        DEF LeaveHandler, Goto, Stage, KillChildren, Shape, Guarded, Child, Torn, NsExcused, DirExcused
      <3>4. Applied(s)'
        BY <1>16, <2>0, <2>2, PcsAre DEF LeaveHandler, Goto, Stage, KillChildren, Applied, Waits
      <3> QED BY <2>2, <3>1, <3>2, <3>3, <3>4
    <2> QED BY <2>1, <2>2
  <1>17. ASSUME NEW s \in Sessions, ApplyDoc(s), NEW t \in Sessions
        PROVE  Ind(t)'
    <2>0. Manifests(t)' = Manifests(t) /\ Resources(t)' = Resources(t)
      BY <1>17 DEF ApplyDoc, Manifests, Resources
    <2>1. Shape(t)' /\ Guarded(t)' /\ Child(t)' /\ Torn(t)' /\ Coded(t)'
      BY <1>17 DEF ApplyDoc, Shape, Guarded, Child, Torn, Coded, NsExcused, DirExcused
    <2>2. Applied(t)'
      <3> DEFINE d == Manifests(s)[tried[s] + 1]
      <3>1. CASE t # s
        BY <1>17, <2>0, <3>1 DEF ApplyDoc, Applied
      <3>2. CASE t = s
        <4>1. /\ tried[s] < Len(Manifests(s)) /\ Len(Manifests(s)) \in Nat
              /\ tried'[s] = tried[s] + 1 /\ tried[s] \in Nat
              /\ pc' = pc /\ pc[s] \in {"applying", "killed"}
          BY <1>17, ManifestsType DEF ApplyDoc, Child
        <4>2. d = "namespace" <=> tried[s] = 0
          <5>1. tried[s] + 1 \in 1..Len(Manifests(s))
            BY <4>1
          <5> QED BY <4>1, <5>1, ManifestsHead, SMTT(60)
        <4>3. CASE d = "namespace" /\ ns' = [ns EXCEPT ![s] = "active"]
                   /\ UNCHANGED <<apply, res>>
          <5>1. tried'[s] = 1 /\ res'[s] = {} /\ 2..tried'[s] = {}
            BY <4>1, <4>2, <4>3, SMTT(60) DEF Applied
          <5> QED BY <1>17, <2>0, <3>2, <4>1, <4>3, <5>1 DEF ApplyDoc, Applied, Waits
        <4>4. CASE d # "namespace" /\ ns[s] = "active"
                   /\ res' = [res EXCEPT ![s] = @ \cup {d}]
                   /\ UNCHANGED <<apply, ns>>
          <5>1. tried'[s] > 0 /\ 2..tried'[s] = (2..tried[s]) \cup {tried'[s]}
            BY <4>1, <4>2, <4>4, SMTT(60)
          <5>2. {Manifests(s)[i] : i \in 2..tried'[s]} =
                    {Manifests(s)[i] : i \in 2..tried[s]} \cup {d}
            BY <4>1, <5>1, SMTT(60)
          <5>3. apply[s] = "running" => res'[s] = {Manifests(s)[i] : i \in 2..tried'[s]}
            BY <4>4, <5>2, ZenonT(60) DEF Applied
          <5> HIDE DEF d
          <5> QED
            BY <2>0, <3>2, <4>1, <4>4, <5>1, <5>3, <1>17, SMTT(60)
            DEF ApplyDoc, Applied, Waits
        <4>5. CASE apply' = [apply EXCEPT ![s] = "failing"] /\ UNCHANGED clusterVars
          <5>1. CASE tried[s] = 0
            BY <1>17, <2>0, <3>2, <4>1, <4>5, <5>1 DEF ApplyDoc, Applied, Waits
          <5>2. CASE tried[s] # 0
            BY <1>17, <2>0, <3>2, <4>1, <4>5, <5>2 DEF ApplyDoc, Applied, Waits
          <5> QED BY <5>1, <5>2
        <4> QED BY <1>17, <4>3, <4>4, <4>5 DEF ApplyDoc
      <3> QED BY <3>1, <3>2
    <2> QED BY <2>1, <2>2
  <1>18. ASSUME NEW s \in Sessions, ApplyExit(s), NEW t \in Sessions
        PROVE  Ind(t)'
    <2>0. Manifests(t)' = Manifests(t) /\ Resources(t)' = Resources(t)
      BY <1>18 DEF ApplyExit, Manifests, Resources
    <2>1. Shape(t)' /\ Guarded(t)' /\ Child(t)' /\ Torn(t)' /\ Coded(t)'
      BY <1>18 DEF ApplyExit, Shape, Guarded, Child, Torn, Coded, NsExcused, DirExcused
    <2>2. ns[s] = "active" /\ apply[s] = "running" => res[s] = Resources(s)
      <3>1. tried[s] = Len(Manifests(s))
        BY <1>18 DEF ApplyExit
      <3>2. ns[s] = "active" /\ apply[s] = "running" =>
               res[s] = {Manifests(s)[i] : i \in 2..tried[s]}
        BY DEF Applied
      <3> QED BY <3>1, <3>2, ManifestsCover
    <2>3. Applied(t)'
      BY <1>18, <2>0, <2>2 DEF ApplyExit, Applied, Child, Waits
    <2> QED BY <2>1, <2>3
  <1>19. ASSUME NEW s \in Sessions, DeleteChild(s), NEW t \in Sessions
        PROVE  Ind(t)'
    <2>0. Manifests(t)' = Manifests(t) /\ Resources(t)' = Resources(t)
      BY <1>19 DEF DeleteChild, Manifests, Resources
    <2>1. CASE t # s
      BY <1>19, <2>0, <2>1 DEF DeleteChild,
          Shape, Guarded, Child, Torn, Applied, Coded,
          Waits, NsExcused, DirExcused
    <2>2. CASE t = s
      <3>1. Shape(s)' /\ Guarded(s)' /\ Coded(s)'
        BY <1>19, PcsAre DEF DeleteChild, Shape, Guarded, Coded
      <3>2. Child(s)'
        BY <1>19, PcsAre DEF DeleteChild, Shape, Child
      <3>3. Torn(s)'
        BY <1>19, PcsAre
        DEF DeleteChild, Shape, Guarded, Child, Torn, NsExcused, DirExcused
      <3>4. Applied(s)'
        BY <1>19, <2>0, <2>2, PcsAre DEF DeleteChild, Applied, Waits
      <3> QED BY <2>2, <3>1, <3>2, <3>3, <3>4
    <2> QED BY <2>1, <2>2
  <1>20. ASSUME NEW s \in Sessions, Cascade(s), NEW t \in Sessions
        PROVE  Ind(t)'
    <2>0. Manifests(t)' = Manifests(t) /\ Resources(t)' = Resources(t)
      BY <1>20 DEF Cascade, Manifests, Resources
    <2>1. CASE t # s
      BY <1>20, <2>0, <2>1 DEF Cascade,
          Shape, Guarded, Child, Torn, Applied, Coded,
          Waits, NsExcused, DirExcused
    <2>2. CASE t = s
      <3>1. Shape(s)' /\ Guarded(s)' /\ Coded(s)'
        BY <1>20, PcsAre DEF Cascade, Shape, Guarded, Coded
      <3>2. Child(s)'
        BY <1>20, PcsAre DEF Cascade, Shape, Child
      <3>3. Torn(s)'
        BY <1>20, PcsAre
        DEF Cascade, Shape, Guarded, Child, Torn, NsExcused, DirExcused
      <3>4. Applied(s)'
        BY <1>20, <2>0, <2>2, PcsAre DEF Cascade, Applied, Waits
      <3> QED BY <2>2, <3>1, <3>2, <3>3, <3>4
    <2> QED BY <2>1, <2>2
  <1>21. ASSUME NEW s \in Sessions, EarlySignal(s), NEW t \in Sessions
        PROVE  Ind(t)'
    <2>0. Manifests(t)' = Manifests(t) /\ Resources(t)' = Resources(t)
      BY <1>21 DEF EarlySignal, Manifests, Resources
    <2>1. CASE t # s
      BY <1>21, <2>0, <2>1 DEF EarlySignal, Goto,
          Shape, Guarded, Child, Torn, Applied, Coded,
          Waits, NsExcused, DirExcused
    <2>2. CASE t = s
      <3>1. Shape(s)' /\ Guarded(s)' /\ Coded(s)'
        BY <1>21, PcsAre, ZenonT(60) DEF EarlySignal, Goto, Shape, Guarded, Coded
      <3>2. Child(s)'
        <4>1. pc[s] = "created" /\ pc'[s] = "killed"
          BY <1>21 DEF EarlySignal, Goto
        <4>2. ~Alive(s)
          BY <4>1 DEF Child
        <4>3. UNCHANGED <<apply, ns, scratch, host>>
          BY <1>21 DEF EarlySignal
        <4> QED BY <4>1, <4>2, <4>3 DEF Child, Alive
      <3>3. Torn(s)'
        BY <1>21, PcsAre
        DEF EarlySignal, Goto, Shape, Guarded, Child, Torn, NsExcused, DirExcused
      <3>4. Applied(s)'
        BY <1>21, <2>0, <2>2, PcsAre DEF EarlySignal, Goto, Applied, Waits
      <3> QED BY <2>2, <3>1, <3>2, <3>3, <3>4
    <2> QED BY <2>1, <2>2
  <1>22. ASSUME NEW s \in Sessions, Kill(s), NEW t \in Sessions
        PROVE  Ind(t)'
    <2>0. Manifests(t)' = Manifests(t) /\ Resources(t)' = Resources(t)
      BY <1>22 DEF Kill, Manifests, Resources
    <2>1. CASE t # s
      BY <1>22, <2>0, <2>1 DEF Kill, Goto,
          Shape, Guarded, Child, Torn, Applied, Coded,
          Waits, NsExcused, DirExcused
    <2>2. CASE t = s
      <3>1. Shape(s)' /\ Guarded(s)' /\ Coded(s)'
        BY <1>22, PcsAre DEF Kill, Goto, Shape, Guarded, Coded
      <3>2. Child(s)'
        BY <1>22, PcsAre DEF Kill, Goto, Shape, Child
      <3>3. Torn(s)'
        BY <1>22, PcsAre
        DEF Kill, Goto, Shape, Guarded, Child, Torn, NsExcused, DirExcused
      <3>4. Applied(s)'
        BY <1>22, <2>0, <2>2, PcsAre DEF Kill, Goto, Applied, Waits
      <3> QED BY <2>2, <3>1, <3>2, <3>3, <3>4
    <2> QED BY <2>1, <2>2
  <1>23. ASSUME NEW s \in Sessions, NEW g \in BOOLEAN, Signal(s, g), NEW t \in Sessions
        PROVE  Ind(t)'
    <2>0. Manifests(t)' = Manifests(t) /\ Resources(t)' = Resources(t)
      BY <1>23 DEF Signal, Manifests, Resources
    <2>1. CASE t # s
      BY <1>23, <2>0, <2>1, SMTT(60) DEF Signal, Stage, KillChildren,
          Shape, Guarded, Child, Torn, Applied, Coded,
          Waits, NsExcused, DirExcused
    <2>2. CASE t = s
      <3>1. Shape(s)' /\ Guarded(s)' /\ Coded(s)'
        BY <1>23, PcsAre DEF Signal, Stage, KillChildren, Shape, Guarded, Coded
      <3>2. Child(s)'
        BY <1>23, PcsAre DEF Signal, Stage, KillChildren, Shape, Child
      <3>3. Torn(s)'
        BY <1>23, PcsAre
        DEF Signal, Stage, KillChildren, Shape, Guarded, Child, Torn, NsExcused, DirExcused
      <3>4. Applied(s)'
        BY <1>23, <2>0, <2>2, PcsAre DEF Signal, Stage, KillChildren, Applied, Waits
      <3> QED BY <2>2, <3>1, <3>2, <3>3, <3>4
    <2> QED BY <2>1, <2>2
  <1>24. ASSUME NEW s \in Sessions, ExternalDelete(s), NEW t \in Sessions
        PROVE  Ind(t)'
    <2>0. Manifests(t)' = Manifests(t) /\ Resources(t)' = Resources(t)
      BY <1>24 DEF ExternalDelete, Manifests, Resources
    <2>1. CASE t # s
      BY <1>24, <2>0, <2>1 DEF ExternalDelete,
          Shape, Guarded, Child, Torn, Applied, Coded,
          Waits, NsExcused, DirExcused
    <2>2. CASE t = s
      <3>1. Shape(s)' /\ Guarded(s)' /\ Coded(s)'
        BY <1>24, PcsAre DEF ExternalDelete, Shape, Guarded, Coded
      <3>2. Child(s)'
        BY <1>24, PcsAre DEF ExternalDelete, Shape, Child
      <3>3. Torn(s)'
        BY <1>24, PcsAre
        DEF ExternalDelete, Shape, Guarded, Child, Torn, NsExcused, DirExcused
      <3>4. Applied(s)'
        BY <1>24, <2>0, <2>2, PcsAre DEF ExternalDelete, Applied, Waits
      <3> QED BY <2>2, <3>1, <3>2, <3>3, <3>4
    <2> QED BY <2>1, <2>2
  <1>25. CASE UNCHANGED vars
    BY <1>25 DEF vars, Shape, Guarded, Child, Torn, Applied, Coded,
       Waits, NsExcused, DirExcused, Manifests, Resources
  <1> HIDE DEF Typed, Ind
  <1> QED
    BY <1>1, <1>2, <1>3, <1>4, <1>5, <1>6, <1>7, <1>8, <1>9, <1>10, <1>11, <1>12, <1>13,
       <1>14, <1>15, <1>16, <1>17, <1>18, <1>19, <1>20, <1>21, <1>22, <1>23, <1>24, <1>25
    DEF Next, RunStep, Main, Cleanup, Cluster, Fault

(* Nothing but the end of the run ends the cleanup of a finally clause.     *)
LEMMA BusyStep == ASSUME Typed, Busy, [Next]_vars PROVE Busy'
  <1> USE DEF Typed, Busy
  <1>1. ASSUME NEW s \in Sessions,
               ApplyReturns(s) \/ RunRaises(s) \/ ExecReturns(s)
        PROVE  Busy'
    <2>1. \/ EnterFinally(s, "ok") \/ EnterFinally(s, "failed")
          \/ pc' = [pc EXCEPT ![s] = "wait_mitm"] /\ UNCHANGED act
      BY <1>1 DEF ApplyReturns, RunRaises, ExecReturns, Step, Goto
    <2> QED BY <2>1 DEF EnterFinally, Goto
  <1>2. ASSUME NEW s \in Sessions,
               \/ Create(s) \/ InstallHandlers(s) \/ Startup(s) \/ Contribute(s)
               \/ WaitForPod(s)
        PROVE  Busy'
    <2>1. UNCHANGED act /\ \E l \in Pcs \ {"finally"} : pc' = [pc EXCEPT ![s] = l]
      BY <1>2, PcsAre DEF Create, InstallHandlers, Startup, Contribute, WaitForPod, Step, Goto
    <2> QED BY <2>1
  <1>3. ASSUME NEW s \in Sessions,
               \/ CheckGuard(s) \/ MarkCleaned(s) \/ DeleteReturns(s) \/ Rmtree(s)
               \/ WarnIfStale(s) \/ \E g \in BOOLEAN : Signal(s, g)
        PROVE  Busy'
    <2>1. UNCHANGED pc /\ (UNCHANGED act \/ \E a \in Acts \ {"none"} : act' = [act EXCEPT ![s] = a])
      BY <1>3 DEF CheckGuard, MarkCleaned, DeleteReturns, Rmtree, WarnIfStale, Signal, Stage, Acts
    <2> QED BY <2>1
  <1>4. ASSUME NEW s \in Sessions, LeaveMain(s) \/ Kill(s) \/ EarlySignal(s) PROVE Busy'
    <2>1. \E l \in Ended : pc' = [pc EXCEPT ![s] = l]
      BY <1>4 DEF LeaveMain, Kill, EarlySignal, Goto, Ended
    <2>2. \A t \in Sessions : t # s => act'[t] = act[t]
      BY <1>4 DEF LeaveMain, Kill, EarlySignal, Stage
    <2> QED BY <2>1, <2>2 DEF Ended
  <1>5. ASSUME NEW s \in Sessions, LeaveHandler(s) PROVE Busy'
    BY <1>5 DEF LeaveHandler, Goto, Stage
  <1>6. ASSUME NEW s \in Sessions, StartApply(s) \/ Cluster(s) \/ ExternalDelete(s) PROVE Busy'
    <2>1. UNCHANGED <<pc, act>>
      BY <1>6 DEF StartApply, Cluster, ApplyDoc, ApplyExit, DeleteChild, Cascade,
                  ExternalDelete, runVars
    <2> QED BY <2>1
  <1>7. CASE UNCHANGED vars BY <1>7 DEF vars, runVars
  <1> HIDE DEF Typed, Busy
  <1> QED
    BY <1>1, <1>2, <1>3, <1>4, <1>5, <1>6, <1>7
    DEF Next, RunStep, Main, Cleanup, Fault

(* The invariant of every behaviour, from which the theorems follow.       *)
THEOREM Inductive == Spec => []IInv
  <1>1. Init => IInv
    <2>1. Init => Busy BY DEF Init, Busy
    <2> QED BY <2>1, InitType, IndInit DEF IInv
  <1>2. IInv /\ [Next]_vars => IInv'
    BY TypeStep, IndStep, BusyStep DEF IInv
  <1> QED BY <1>1, <1>2, PTL DEF Spec

-----------------------------------------------------------------------------
(* What follows from the invariant.                                        *)

(* Every variable keeps its type, cleanup runs exactly in a handler and in *)
(* main's finally clause, and no run exits without it (cli.main).          *)
THEOREM TypeCorrect == Spec => []TypeOK
  <1>1. IInv => TypeOK
    BY DEF IInv, Busy, Ind, Shape, Guarded, TypeOK
  <1> QED BY Inductive, <1>1, PTL

(* The namespace delete is started at most once, whatever signals strike   *)
(* the finally clause, the handler or the moment between the guard's test  *)
(* and its set (session.py:42-47).                                         *)
THEOREM SweptOnce == Spec => []SingleSweep
  <1>1. IInv => SingleSweep
    BY DEF IInv, Ind, Guarded, SingleSweep
  <1> QED BY Inductive, <1>1, PTL

(* An attached run stands behind everything it assembled (cli.py:1350-1365).*)
THEOREM AttachIsConfined == Spec => []AttachedConfined
  <1>1. IInv => AttachedConfined
    BY DEF IInv, Ind, Applied, AttachedConfined
  <1> QED BY Inductive, <1>1, PTL

(* A run that exits leaks its namespace only to a race with its own apply, *)
(* a second signal or a failed delete.                                     *)
THEOREM LeaksAreExplained == Spec => []LeakExplained
  <1>1. IInv => LeakExplained
    BY DEF IInv, Ind, Shape, Guarded, Torn, NsExcused, LeakExplained, Ended
  <1> QED BY Inductive, <1>1, PTL

(* A run that exits leaves its scratch directory only to a second signal   *)
(* or a failed removal, and on a host without kubectl never with the copy  *)
(* of the host's secrets in it.                                            *)
THEOREM ScratchIsExplained == Spec => []ScratchExplained
  <1>1. IInv => ScratchExplained
    BY DEF IInv, Typed, Ind, Shape, Guarded, Child, Torn, DirExcused,
           ScratchExplained, Ended
  <1> QED BY Inductive, <1>1, PTL

(* A run that handled a signal never exits with success.                   *)
THEOREM SignalsAreReported == Spec => []SignalReported
  <1>1. IInv => SignalReported
    BY DEF IInv, Typed, Ind, Shape, Coded, SignalReported, Ended, TryRange, Waits
  <1> QED BY Inductive, <1>1, PTL

-----------------------------------------------------------------------------
(* SessionLifecycle implements SessionPromise: the abstract run starts in  *)
(* an initial state and every step of a run, of its kubectl children, of   *)
(* the cluster and of a fault is a step of the promise or a stutter.  The  *)
(* invariant above speaks of active namespaces; the promise also needs to  *)
(* know what a terminating one contains (Filled), since a pod in it may    *)
(* still report Ready.                                                     *)


Submitted(s) == {Manifests(s)[i] : i \in 2..tried[s]}

(* A namespace comes from the first document of the one apply, what is in  *)
(* it came from the later ones, and nothing leaves it before it goes.      *)
Filled(s) ==
    /\ tried[s] = 0 => ns[s] = "absent"
    /\ res[s] # {} => ns[s] \in {"active", "terminating"}
    /\ res[s] \subseteq Resources(s)
    /\ ns[s] \in {"active", "terminating"} /\ apply[s] = "running"
          => res[s] = Submitted(s)
    /\ ns[s] \in {"active", "terminating"} /\ apply[s] = "ok"
          => res[s] = Resources(s)

FInv == \A s \in Sessions : Filled(s)

LEMMA FilledInit == Init => FInv
  BY DEF Init, FInv, Filled

(* The documents after the first are the groups the run needs.             *)
LEMMA ManifestNeeded ==
    ASSUME NEW s \in Sessions, NEW i \in 1..Len(Manifests(s)),
           Manifests(s)[i] # "namespace"
    PROVE  Manifests(s)[i] \in Resources(s)
  <1>1. Len(Manifests(s)) \in Nat BY ManifestsType
  <1>2. i \in 2..Len(Manifests(s)) BY <1>1, ManifestsHead
  <1>. QED BY <1>2, ManifestsCover

(* Whoever touches neither the apply child nor the cluster keeps Filled.   *)
LEMMA FilledKept ==
    ASSUME NEW t \in Sessions, Filled(t),
           tried'[t] = tried[t], ns'[t] = ns[t], res'[t] = res[t],
           host' = host,
           apply'[t] = apply[t] \/ apply'[t] \notin {"running", "ok"}
    PROVE  Filled(t)'
  <1>1. /\ Manifests(t)' = Manifests(t) /\ Resources(t)' = Resources(t)
        /\ Submitted(t)' = Submitted(t)
    BY DEF Manifests, Resources, Submitted
  <1>. QED BY <1>1 DEF Filled

LEMMA FilledApplyDoc ==
    ASSUME Typed, NEW s \in Sessions, Ind(s), Filled(s), ApplyDoc(s)
    PROVE  Filled(s)'
  <1>. DEFINE d == Manifests(s)[tried[s] + 1]
  <1>1. /\ tried[s] \in Nat /\ tried[s] < Len(Manifests(s))
        /\ Len(Manifests(s)) \in Nat /\ tried'[s] = tried[s] + 1
    BY ManifestsType DEF ApplyDoc, Typed
  <1>2. tried[s] + 1 \in 1..Len(Manifests(s)) BY <1>1
  <1>3. d = "namespace" <=> tried[s] = 0 BY <1>1, <1>2, ManifestsHead
  <1>4. Manifests(s)' = Manifests(s) /\ Resources(s)' = Resources(s)
    BY DEF ApplyDoc, Manifests, Resources, faultVars
  <1>5. Submitted(s)' = {Manifests(s)[i] : i \in 2..(tried[s] + 1)}
    BY <1>1, <1>4 DEF Submitted
  <1>6. CASE d = "namespace" /\ ns' = [ns EXCEPT ![s] = "active"]
             /\ UNCHANGED <<apply, res>>
    <2>1. res[s] = {} BY <1>3, <1>6 DEF Filled
    <2>2. Submitted(s)' = {} BY <1>1, <1>3, <1>5, <1>6
    <2>3. apply[s] \in {"running", "failing"} BY DEF ApplyDoc
    <2>4. ns'[s] = "active" BY <1>6 DEF Typed
    <2>. QED BY <1>1, <1>6, <2>1, <2>2, <2>3, <2>4 DEF Filled
  <1>7. CASE d # "namespace" /\ ns[s] = "active"
             /\ res' = [res EXCEPT ![s] = @ \cup {d}] /\ UNCHANGED <<apply, ns>>
    <2>1. d \in Resources(s) BY <1>2, <1>7, ManifestNeeded
    <2>2. res'[s] = res[s] \cup {d} BY <1>7 DEF Typed
    <2>3. 2..(tried[s] + 1) = (2..tried[s]) \cup {tried[s] + 1}
      BY <1>1, <1>3, <1>7
    <2>4. Submitted(s)' = Submitted(s) \cup {d}
      BY <1>5, <2>3 DEF Submitted
    <2>5. apply[s] \in {"running", "failing"} BY DEF ApplyDoc
    <2>. HIDE DEF d
    <2>. QED BY <1>1, <1>4, <1>7, <2>1, <2>2, <2>4, <2>5 DEF Filled
  <1>8. CASE apply' = [apply EXCEPT ![s] = "failing"] /\ UNCHANGED clusterVars
    <2>1. apply'[s] = "failing" BY <1>8 DEF Typed
    <2>2. tried'[s] # 0 BY <1>1
    <2>. QED BY <1>4, <1>8, <2>1, <2>2 DEF Filled, clusterVars
  <1>. QED BY <1>6, <1>7, <1>8 DEF ApplyDoc

LEMMA FilledStep ==
    ASSUME Typed, \A s \in Sessions : Ind(s), FInv, [Next]_vars
    PROVE  FInv'
<1>. SUFFICES ASSUME NEW t \in Sessions PROVE Filled(t)' BY DEF FInv
<1>. Filled(t) BY DEF FInv
<1>. USE DEF runVars, childVars, clusterVars, faultVars
<1>1. CASE UNCHANGED vars BY <1>1, FilledKept DEF vars
<1>2. ASSUME NEW s \in Sessions, Create(s) \/ ExecReturns(s) PROVE Filled(t)'
  BY <1>2, FilledKept DEF Create, ExecReturns
<1>3. ASSUME NEW s \in Sessions, Main(s) PROVE Filled(t)'
  <2>1. CASE StartApply(s)
    <3>1. CASE t # s BY <2>1, <3>1, FilledKept DEF StartApply, Typed
    <3>2. CASE t = s
      <4>1. tried[s] = 0 /\ apply'[s] = "running"
        BY <2>1 DEF StartApply, Typed, Ind, Applied
      <4>2. UNCHANGED <<tried, ns, res, host>> BY <2>1 DEF StartApply
      <4>3. Resources(s)' = Resources(s) BY <4>2 DEF Resources
      <4>. QED BY <3>2, <4>1, <4>2, <4>3 DEF Filled
    <3>. QED BY <3>1, <3>2
  <2>2. CASE InstallHandlers(s) \/ Startup(s) \/ Contribute(s) \/ ApplyReturns(s)
             \/ WaitForPod(s) \/ RunRaises(s)
    BY <2>2, FilledKept
    DEF InstallHandlers, Startup, Contribute, ApplyReturns, WaitForPod, RunRaises
  <2>. QED BY <1>3, <2>1, <2>2 DEF Main
<1>4. ASSUME NEW s \in Sessions, Cleanup(s) PROVE Filled(t)'
  <2>1. CASE LeaveHandler(s)
    BY <2>1, FilledKept DEF LeaveHandler, KillChildren, Typed
  <2>2. CASE MarkCleaned(s) BY <2>2, FilledKept DEF MarkCleaned
  <2>3. CASE CheckGuard(s) \/ DeleteReturns(s) \/ Rmtree(s) \/ WarnIfStale(s) \/ LeaveMain(s)
    BY <2>3, FilledKept DEF CheckGuard, DeleteReturns, Rmtree, WarnIfStale, LeaveMain
  <2>. QED BY <1>4, <2>1, <2>2, <2>3 DEF Cleanup
<1>5. ASSUME NEW s \in Sessions, ApplyDoc(s) PROVE Filled(t)'
  <2>1. CASE t = s BY <1>5, <2>1, FilledApplyDoc
  <2>2. CASE t # s BY <1>5, <2>2, FilledKept DEF ApplyDoc, Typed
  <2>. QED BY <2>1, <2>2
<1>6. ASSUME NEW s \in Sessions, ApplyExit(s) PROVE Filled(t)'
  <2>1. CASE t # s BY <1>6, <2>1, FilledKept DEF ApplyExit, Typed
  <2>2. CASE t = s
    <3>1. tried[s] = Len(Manifests(s)) BY <1>6 DEF ApplyExit
    <3>2. Submitted(s) = Resources(s) BY <3>1, ManifestsCover DEF Submitted
    <3>3. UNCHANGED <<tried, ns, res, host>> BY <1>6 DEF ApplyExit
    <3>4. Resources(s)' = Resources(s) BY <3>3 DEF Resources
    <3>5. apply'[s] \in {"ok", "error"} /\ (apply'[s] = "ok" => apply[s] = "running")
      BY <1>6 DEF ApplyExit, Typed
    <3>. QED BY <2>2, <3>2, <3>3, <3>4, <3>5 DEF Filled
  <2>. QED BY <2>1, <2>2
<1>7. ASSUME NEW s \in Sessions, DeleteChild(s) \/ ExternalDelete(s) PROVE Filled(t)'
  <2>1. UNCHANGED <<apply, tried, res, host>> BY <1>7 DEF DeleteChild, ExternalDelete
  <2>2. \/ ns'[t] = ns[t]
        \/ ns[t] = "active" /\ ns'[t] = "terminating"
    BY <1>7 DEF DeleteChild, ExternalDelete, Typed
  <2>3. Resources(t)' = Resources(t) /\ Submitted(t)' = Submitted(t)
    BY <2>1 DEF Resources, Submitted, Manifests
  <2>. QED BY <2>1, <2>2, <2>3 DEF Filled
<1>8. ASSUME NEW s \in Sessions, Cascade(s) PROVE Filled(t)'
  <2>1. CASE t # s BY <1>8, <2>1, FilledKept DEF Cascade, Typed
  <2>2. CASE t = s
    <3>1. ns'[s] = "gone" /\ res'[s] = {} /\ ns[s] = "terminating"
      BY <1>8 DEF Cascade, Typed
    <3>2. tried' = tried BY <1>8 DEF Cascade
    <3>. QED BY <2>2, <3>1, <3>2 DEF Filled
  <2>. QED BY <2>1, <2>2
<1>9. ASSUME NEW s \in Sessions, Fault(s) PROVE Filled(t)'
  <2>1. CASE EarlySignal(s) \/ Kill(s) BY <2>1, FilledKept DEF EarlySignal, Kill
  <2>2. ASSUME NEW g \in BOOLEAN, Signal(s, g) PROVE Filled(t)'
    <3>1. UNCHANGED <<tried, ns, res, host>>
      BY <2>2 DEF Signal, KillChildren
    <3>2. apply'[t] = apply[t] \/ apply'[t] \notin {"running", "ok"}
      BY <2>2 DEF Signal, KillChildren, Typed
    <3>. QED BY <3>1, <3>2, FilledKept
  <2>. QED BY <1>9, <2>1, <2>2 DEF Fault
<1>. QED
  BY <1>1, <1>2, <1>3, <1>4, <1>5, <1>6, <1>7, <1>8, <1>9 DEF Next, RunStep, Cluster

LEMMA FilledAlways == Spec => [](IInv /\ FInv)
<1>1. Init => FInv BY FilledInit
<1>2. IInv /\ FInv /\ [Next]_vars => FInv' BY FilledStep DEF IInv
<1>. QED BY Inductive, <1>1, <1>2, PTL DEF Spec

-----------------------------------------------------------------------------
(* A step that moves neither pc nor inHandler has the same image.          *)
LEMMA StageKept == ASSUME UNCHANGED <<pc, inHandler>> PROVE stageOf' = stageOf
  BY DEF stageOf, StageAt

LEMMA CompleteKept == ASSUME UNCHANGED <<res, host>> PROVE completeOf' = completeOf
  BY DEF completeOf, Resources

(* A move of run s from one stage to another, and of nothing else.         *)
LEMMA MoveIs ==
    ASSUME NEW s \in Sessions,
           \A t \in Sessions : t # s => pc'[t] = pc[t] /\ inHandler'[t] = inHandler[t]
    PROVE  stageOf' = [stageOf EXCEPT ![s] = StageAt(s)']
  BY DEF stageOf, StageAt

LEMMA PromiseInit == Init => Promise!PInit
<1>. SUFFICES ASSUME Init PROVE Promise!PInit OBVIOUS
<1>1. \A s \in Sessions : stageOf[s] = "idle" BY DEF Init, stageOf, StageAt, Ended
<1>2. \A s \in Sessions : "secrets" \in Resources(s) BY DEF Resources, DocNames
<1>3. \A s \in Sessions : res[s] # Resources(s) BY <1>2 DEF Init
<1>4. stageOf = [s \in Sessions |-> "idle"] BY <1>1 DEF stageOf
<1>5. completeOf = [s \in Sessions |-> FALSE] BY <1>3 DEF completeOf
<1>. QED BY <1>4, <1>5 DEF Init, Promise!PInit

-----------------------------------------------------------------------------
(* Each action as the promise sees it.                                     *)

(* A step from a known stage to a known stage is a Move of the promise.    *)
LEMMA MovesTo ==
    ASSUME NEW s \in Sessions, NEW from, NEW to,
           stageOf' = [stageOf EXCEPT ![s] = to],
           stageOf[s] \in from, UNCHANGED <<ns, res, host>>
    PROVE  Promise!Move(s, from, to)
  BY CompleteKept DEF Promise!Move

(* Steps of the thread: a stutter, or one stage on.                        *)
LEMMA ThreadStep ==
    ASSUME IInv, FInv, NEW s \in Sessions,
           Create(s) \/ Main(s) \/ ExecReturns(s) \/ Cleanup(s)
    PROVE  [Promise!PNext]_Promise!pvars
<1>. USE DEF IInv, Typed, runVars, childVars, clusterVars, faultVars
<1>0. Shape(s) /\ Applied(s) /\ Filled(s) BY DEF Ind, FInv
<1>1. UNCHANGED <<ns, res, host>>
  BY DEF Create, Main, InstallHandlers, Startup, Contribute, StartApply, ApplyReturns,
         WaitForPod, RunRaises, ExecReturns, Cleanup, CheckGuard, MarkCleaned,
         DeleteReturns, Rmtree, WarnIfStale, LeaveMain, LeaveHandler, KillChildren
<1>2. completeOf' = completeOf BY <1>1, CompleteKept
<1>3. \A t \in Sessions : t # s => pc'[t] = pc[t] /\ inHandler'[t] = inHandler[t]
  <2>1. CASE Create(s) \/ InstallHandlers(s) \/ Startup(s) \/ Contribute(s)
    BY <2>1 DEF Create, InstallHandlers, Startup, Contribute, Step, Goto
  <2>2. CASE StartApply(s) \/ ApplyReturns(s) \/ WaitForPod(s) \/ RunRaises(s) \/ ExecReturns(s)
    BY <2>2 DEF StartApply, ApplyReturns, WaitForPod, RunRaises, ExecReturns, Step,
                EnterFinally, Goto
  <2>3. CASE Cleanup(s)
    BY <2>3 DEF Cleanup, CheckGuard, MarkCleaned, DeleteReturns, Rmtree, WarnIfStale,
                LeaveMain, LeaveHandler, Goto
  <2>. QED BY <2>1, <2>2, <2>3 DEF Main
<1>4. stageOf' = [stageOf EXCEPT ![s] = StageAt(s)'] BY <1>3, MoveIs
<1>5. stageOf[s] = StageAt(s) BY DEF stageOf
<1>6. ASSUME StageAt(s)' = StageAt(s) PROVE UNCHANGED Promise!pvars
  <2>1. stageOf' = stageOf BY <1>4, <1>5, <1>6 DEF stageOf
  <2>. QED BY <1>1, <1>2, <2>1 DEF Promise!pvars
<1>7. ASSUME NEW from, StageAt(s) \in from PROVE Promise!Move(s, from, StageAt(s)')
  BY <1>1, <1>4, <1>5, <1>7, MovesTo
<1>8. CASE Create(s)
  <2>1. StageAt(s) = "idle" /\ StageAt(s)' = "up"
    BY <1>8 DEF Create, Step, At, Goto, StageAt, Ended
  <2>. QED BY <1>7, <2>1 DEF Promise!PNext, Promise!RunOf, Promise!Begin
<1>9. CASE InstallHandlers(s) \/ Startup(s) \/ Contribute(s) \/ StartApply(s)
  <2>1. StageAt(s)' = StageAt(s)
    BY <1>9 DEF InstallHandlers, Startup, Contribute, StartApply, Step, At, Goto,
                StageAt, Ended
  <2>. QED BY <1>6, <2>1
<1>10. CASE ApplyReturns(s)
  <2>1. StageAt(s) = "up" /\ StageAt(s)' \in {"up", "closing"}
    BY <1>10 DEF ApplyReturns, Step, EnterFinally, At, Goto, StageAt, Ended
  <2>. QED BY <1>6, <1>7, <2>1 DEF Promise!PNext, Promise!RunOf, Promise!Close
<1>11. CASE RunRaises(s)
  <2>1. StageAt(s) = "up" /\ StageAt(s)' = "closing"
    BY <1>11 DEF RunRaises, EnterFinally, At, Goto, StageAt, Ended, TryRange, Waits
  <2>. QED BY <1>7, <2>1 DEF Promise!PNext, Promise!RunOf, Promise!Close
<1>12. CASE ExecReturns(s)
  <2>1. StageAt(s) = "attached" /\ StageAt(s)' = "closing"
    BY <1>12 DEF ExecReturns, EnterFinally, At, Goto, StageAt, Ended
  <2>. QED BY <1>7, <2>1 DEF Promise!PNext, Promise!RunOf, Promise!Close
<1>13. CASE WaitForPod(s)
  <2>1. pc[s] \in Waits /\ StageAt(s) = "up"
    BY <1>13 DEF WaitForPod, Step, At, StageAt, Ended, Waits
  <2>2. CASE StageAt(s)' = StageAt(s) BY <1>6, <2>2
  <2>3. CASE StageAt(s)' # StageAt(s)
    <3>1. "agent" \in res[s] /\ StageAt(s)' = "attached"
      BY <1>13, <2>3 DEF WaitForPod, Step, At, Goto, StageAt, Ended
    <3>2. completeOf[s] BY <1>0, <2>1, <3>1 DEF Applied, Filled, completeOf
    <3>. QED
      BY <1>7, <2>1, <3>1, <3>2 DEF Promise!PNext, Promise!RunOf, Promise!Attach
  <2>. QED BY <2>2, <2>3
<1>14. CASE CheckGuard(s) \/ MarkCleaned(s) \/ DeleteReturns(s) \/ Rmtree(s) \/ WarnIfStale(s)
  <2>1. UNCHANGED <<pc, inHandler>>
    BY <1>14 DEF CheckGuard, MarkCleaned, DeleteReturns, Rmtree, WarnIfStale
  <2>. QED BY <1>6, <2>1 DEF StageAt
<1>15. CASE LeaveMain(s)
  <2>1. StageAt(s) = "closing" /\ StageAt(s)' = "exited"
    BY <1>0, <1>15 DEF LeaveMain, Goto, StageAt, Ended, Shape
  <2>. QED BY <1>7, <2>1 DEF Promise!PNext, Promise!RunOf, Promise!Leave
<1>16. CASE LeaveHandler(s)
  <2>1. StageAt(s) = "closing" /\ StageAt(s)' \in {"closing", "exited"}
    BY <1>16 DEF LeaveHandler, Goto, StageAt, Ended
  <2>. QED BY <1>6, <1>7, <2>1 DEF Promise!PNext, Promise!RunOf, Promise!Leave
<1>. QED
  BY <1>8, <1>9, <1>10, <1>11, <1>12, <1>13, <1>14, <1>15, <1>16 DEF Main, Cleanup

(* Faults: a signal closes the run, a kill or an early signal crashes it.  *)
LEMMA FaultStep ==
    ASSUME IInv, NEW s \in Sessions, Fault(s)
    PROVE  [Promise!PNext]_Promise!pvars
<1>. USE DEF IInv, Typed, clusterVars
<1>1. UNCHANGED <<ns, res, host>> BY DEF Fault, EarlySignal, Kill, Signal
<1>2. \A t \in Sessions : t # s => pc'[t] = pc[t] /\ inHandler'[t] = inHandler[t]
  BY DEF Fault, EarlySignal, Kill, Signal, Goto
<1>3. stageOf' = [stageOf EXCEPT ![s] = StageAt(s)'] BY <1>2, MoveIs
<1>4. stageOf[s] = StageAt(s) BY DEF stageOf
<1>5. ASSUME NEW from, StageAt(s) \in from PROVE Promise!Move(s, from, StageAt(s)')
  BY <1>1, <1>3, <1>4, <1>5, MovesTo
<1>6. CASE EarlySignal(s) \/ Kill(s)
  <2>1. StageAt(s)' = "killed"
    BY <1>6, ZenonT(60) DEF EarlySignal, Kill, Goto, StageAt, Ended, Ind, Shape, TryRange, Waits
  <2>2. StageAt(s) \in Promise!Stages \ {"idle", "exited", "killed"}
    BY <1>6 DEF EarlySignal, Kill, StageAt, Ended, Promise!Stages
  <2>. QED BY <1>5, <2>1, <2>2 DEF Promise!PNext, Promise!RunOf, Promise!Crash
<1>7. ASSUME NEW g \in BOOLEAN, Signal(s, g) PROVE [Promise!PNext]_Promise!pvars
  <2>1. StageAt(s) \in {"up", "attached", "closing"} /\ StageAt(s)' = "closing"
    BY <1>7, PcsAre DEF Signal, StageAt, Ended
  <2>2. CASE StageAt(s) = "closing"
    <3>1. stageOf' = stageOf BY <1>3, <1>4, <2>1, <2>2 DEF stageOf
    <3>. QED BY <1>1, <3>1, CompleteKept DEF Promise!pvars
  <2>3. CASE StageAt(s) # "closing"
    BY <1>5, <2>1, <2>3 DEF Promise!PNext, Promise!RunOf, Promise!Close
  <2>. QED BY <2>2, <2>3
<1>. QED BY <1>6, <1>7 DEF Fault

(* Children and cluster: what happens to the namespace and what is in it.  *)
LEMMA ClusterStep ==
    ASSUME IInv, FInv, FInv', NEW s \in Sessions, Cluster(s) \/ ExternalDelete(s)
    PROVE  [Promise!PNext]_Promise!pvars
<1>. USE DEF IInv, Typed, runVars, childVars, clusterVars, faultVars
<1>1. UNCHANGED <<pc, inHandler, host>>
  BY DEF Cluster, ApplyDoc, ApplyExit, DeleteChild, Cascade, ExternalDelete
<1>2. stageOf' = stageOf BY <1>1, StageKept
<1>3. \A t \in Sessions : Resources(t)' = Resources(t) BY <1>1 DEF Resources
<1>4. ASSUME UNCHANGED <<ns, res>> PROVE UNCHANGED Promise!pvars
  BY <1>1, <1>2, <1>4, CompleteKept DEF Promise!pvars
<1>5. CASE ApplyExit(s) BY <1>4, <1>5 DEF ApplyExit
<1>6. CASE DeleteChild(s) \/ ExternalDelete(s)
  <2>1. UNCHANGED res BY <1>6 DEF DeleteChild, ExternalDelete
  <2>2. completeOf' = completeOf BY <1>1, <2>1, CompleteKept
  <2>3. \/ ns' = ns
        \/ ns[s] = "active" /\ ns' = [ns EXCEPT ![s] = "terminating"]
    BY <1>6 DEF DeleteChild, ExternalDelete
  <2>4. CASE ns' = ns BY <1>4, <2>1, <2>4
  <2>5. CASE ns[s] = "active" /\ ns' = [ns EXCEPT ![s] = "terminating"]
    BY <1>2, <2>2, <2>5 DEF Promise!PNext, Promise!OtherDelete, Promise!SetNs
  <2>. QED BY <2>3, <2>4, <2>5
<1>7. CASE Cascade(s)
  <2>1. "secrets" \in Resources(s) BY DEF Resources, DocNames
  <2>2. ~completeOf'[s] BY <1>3, <1>7, <2>1 DEF Cascade, completeOf
  <2>3. \A t \in Sessions : t # s => completeOf'[t] = completeOf[t]
    BY <1>3, <1>7 DEF Cascade, completeOf
  <2>4. completeOf' = [completeOf EXCEPT ![s] = FALSE]
    BY <2>2, <2>3 DEF completeOf
  <2>. QED
    BY <1>2, <1>7, <2>4
    DEF Cascade, Promise!PNext, Promise!RunOf, Promise!Collapse, Promise!SetNs
<1>8. CASE ApplyDoc(s)
  <2>. DEFINE d == Manifests(s)[tried[s] + 1]
  <2>1. StageAt(s) \in {"up", "closing", "killed"}
    <3>1. pc[s] \in {"applying", "killed"} BY <1>8 DEF ApplyDoc, Ind, Child, Alive
    <3>. QED BY <3>1 DEF StageAt, Ended
  <2>2. stageOf[s] \in {"up", "closing", "killed"} BY <2>1 DEF stageOf
  <2>3. CASE d = "namespace" /\ ns' = [ns EXCEPT ![s] = "active"] /\ UNCHANGED res
    <3>1. tried[s] = 0
      <4>1. tried[s] + 1 \in 1..Len(Manifests(s)) BY <1>8, ManifestsType DEF ApplyDoc
      <4>. QED BY <2>3, <4>1, ManifestsHead
    <3>2. ns[s] = "absent" BY <3>1 DEF FInv, Filled
    <3>3. completeOf' = completeOf BY <1>1, <2>3, CompleteKept
    <3>. QED
      BY <1>2, <2>2, <2>3, <3>2, <3>3
      DEF Promise!PNext, Promise!RunOf, Promise!Deploy, Promise!SetNs
  <2>4. CASE d # "namespace" /\ ns[s] = "active"
             /\ res' = [res EXCEPT ![s] = @ \cup {d}] /\ UNCHANGED ns
    <3>1. \A t \in Sessions : t # s => completeOf'[t] = completeOf[t]
      BY <1>3, <2>4 DEF completeOf
    <3>2. res'[s] \subseteq Resources(s) BY <1>3 DEF FInv, Filled
    <3>3. res[s] \subseteq res'[s] BY <2>4
    <3>4. ASSUME completeOf[s] PROVE completeOf'[s]
      <4>1. res[s] = Resources(s) BY <3>4 DEF completeOf
      <4>2. res'[s] = Resources(s) BY <1>3, <3>2, <3>3, <4>1
      <4>. QED BY <1>3, <4>2 DEF completeOf
    <3>5. CASE completeOf'[s]
      <4>1. completeOf' = [completeOf EXCEPT ![s] = TRUE]
        BY <3>1, <3>5 DEF completeOf
      <4>. QED
        BY <1>2, <2>2, <2>4, <4>1 DEF Promise!PNext, Promise!RunOf, Promise!FinishDeploy
    <3>6. CASE ~completeOf'[s]
      <4>1. completeOf' = completeOf BY <3>1, <3>4, <3>6 DEF completeOf
      <4>. QED BY <1>2, <2>4, <4>1 DEF Promise!pvars
    <3>. QED BY <3>5, <3>6
  <2>5. CASE UNCHANGED <<ns, res>> BY <1>4, <2>5
  <2>. QED BY <1>8, <2>3, <2>4, <2>5 DEF ApplyDoc
<1>. QED BY <1>5, <1>6, <1>7, <1>8 DEF Cluster

(* SessionLifecycle keeps the safety part of SessionPromise, for any set   *)
(* of runs and any number of signals: a namespace appears once and never   *)
(* after the exit, is not resurrected, and a run attaches only to a        *)
(* complete one (cli.py:1350-1400, session.py:42-60).                      *)
THEOREM KeepsItsPromise == Spec => Promise!PSpec
<1>1. Init => Promise!PInit BY PromiseInit
<1>2. IInv /\ FInv /\ FInv' /\ [Next]_vars => [Promise!PNext]_Promise!pvars
  <2>. SUFFICES ASSUME IInv, FInv, FInv', [Next]_vars
                PROVE  [Promise!PNext]_Promise!pvars
    OBVIOUS
  <2>1. CASE UNCHANGED vars
    BY <2>1, StageKept, CompleteKept
    DEF vars, runVars, clusterVars, faultVars, Promise!pvars
  <2>. QED BY <2>1, ThreadStep, FaultStep, ClusterStep DEF Next, RunStep
<1>. QED BY FilledAlways, <1>1, <1>2, PTL DEF Spec, Promise!PSpec
=============================================================================
