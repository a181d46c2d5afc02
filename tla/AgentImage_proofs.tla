------------------------- MODULE AgentImage_proofs -------------------------
(***************************************************************************)
(* Theorems about AgentImage, for any number of runs at a time and of CAs. *)
(* The shared files have no lock: what holds of them holds only while one  *)
(* start-up is under way.  Calm is the invariant of a host where that has  *)
(* always been so, Alone of a run for which it is so now; both lean on the *)
(* fact that a busy run then has no company (Only).                        *)
(***************************************************************************)
EXTENDS AgentImage, TLAPS

Whole == disk.key # None /\ disk.key = disk.cert /\ disk.dh

Past == {"decide", "context", "build", "push"}

(* A CA that is being made or has not been pushed yet.                     *)
Owes(r) == pc[r] = "generating" \/ (made[r] /\ pc[r] \in Past)

Only(r) == \A q \in Runs : Busy(q) => q = r

(* What the one run under way may rely on.                                 *)
Relies(r) ==
    /\ pc[r] = "generating" =>
          /\ gen[r] \in {"check", "create"} => disk = NoCerts
          /\ gen[r] = "cert" => own[r] # None /\ disk = [key |-> own[r], cert |-> None, dh |-> FALSE]
          /\ gen[r] = "dhparam"
                => own[r] # None /\ disk = [key |-> own[r], cert |-> own[r], dh |-> FALSE]
          /\ gen[r] = "succeeded" => Whole
          /\ gen[r] # "none"
    /\ pc[r] \in Past \cup {"read", "pull"} => Whole
    /\ pc[r] = "build" => ctx[r] = disk.key
    /\ pc[r] = "push" => local.ca \in {None, disk.key}
    /\ pc[r] = "read" => pushed = disk.key
    /\ pc[r] = "pull" => mitm[r].key = pushed

Calm ==
    calm =>
    /\ \A r \in Runs : Busy(r) => Only(r)
    /\ \A r \in Runs : PodRuns(r) => pc[r] = "generating"
    /\ \A r \in Runs : Relies(r)
    /\ (\A r \in Runs : pc[r] # "generating") => Whole \/ disk = NoCerts
    /\ Whole /\ (\A r \in Runs : ~Owes(r)) => pushed = disk.key
    /\ \A r \in Runs : pc[r] = "attached" => trusted[r] = mitm[r].key

(* A forced run by itself carries the certificate of the disk along.       *)
Carries(r) ==
    /\ pc[r] = "build" => ctx[r] = disk.cert
    /\ pc[r] = "push" => local.ca \in {None, disk.cert}
    /\ pc[r] = "read" => pushed = disk.cert
    /\ pc[r] = "pull" => pushed = mitm[r].cert
    /\ pc[r] = "attached" => trusted[r] = mitm[r].cert

Alone ==
    \A r \in Runs : alone[r] => (Busy(r) => Only(r)) /\ (force[r] => Carries(r))

PodOf(r) == PodRuns(r) => pc[r] \in {"generating", "failed", "killed"}
Pods == \A r \in Runs : PodOf(r)

AInv == TypeOK /\ Pods /\ Calm /\ Alone

-----------------------------------------------------------------------------
LEMMA TypeInit == Init => TypeOK
<1>. SUFFICES ASSUME Init PROVE TypeOK OBVIOUS
<1>1. cas \in Cas /\ disk \in [key : Cas, cert : Cas, dh : BOOLEAN]
  <2>1. 0 \in Cas /\ 1 \in Cas BY ImageAssumption DEF Cas
  <2>2. CASE cas = 0 /\ disk = NoCerts BY <2>1, <2>2 DEF NoCerts, None
  <2>3. CASE cas = 1 /\ disk = [key |-> 1, cert |-> 1, dh |-> TRUE] BY <2>1, <2>3
  <2>. QED BY <2>2, <2>3 DEF Init
<1>2. None \in Cas BY ImageAssumption DEF Cas, None
<1>3. local \in [ca : Cas, old : BOOLEAN] /\ pushed \in Cas BY <1>1 DEF Init
<1>. HIDE DEF Cas
<1>4. /\ own \in [Runs -> Cas] /\ ctx \in [Runs -> Cas] /\ trusted \in [Runs -> Cas]
      /\ mitm \in [Runs -> [key : Cas, cert : Cas]]
  BY <1>2 DEF Init, Unread
<1>5. /\ pc \in [Runs -> Pcs] /\ gen \in [Runs -> Gens]
      /\ \A r \in Runs : pc[r] = "idle"
  BY DEF Init, Pcs, Gens
<1>6. /\ made \in [Runs -> BOOLEAN] /\ force \in [Runs -> BOOLEAN]
      /\ alone \in [Runs -> BOOLEAN] /\ calm \in BOOLEAN
  BY DEF Init
<1>. QED BY <1>1, <1>3, <1>4, <1>5, <1>6 DEF TypeOK

LEMMA AInit == Init => AInv
<1>. SUFFICES ASSUME Init PROVE AInv OBVIOUS
<1>1. TypeOK BY TypeInit
<1>2. \A r \in Runs : pc[r] = "idle" /\ ~PodRuns(r) /\ ~Busy(r) /\ ~alone[r]
  BY DEF Init, PodRuns, Busy, Starting
<1>3. Pods BY <1>2 DEF Pods, PodOf
<1>4. (Whole \/ disk = NoCerts) /\ (Whole => pushed = disk.key)
  BY DEF Init, Whole, NoCerts, None
<1>5. Calm BY <1>2, <1>4 DEF Calm, Relies, Past
<1>6. Alone BY <1>2 DEF Alone
<1>. QED BY <1>1, <1>3, <1>5, <1>6 DEF AInv

LEMMA TypeStep == ASSUME TypeOK, [Next]_vars PROVE TypeOK'
<1>. USE DEF TypeOK, Goto, Step, shared, podVars, runVars, history, Cas, None
<1>. USE ImageAssumption
<1>1. ASSUME NEW r \in Runs, Launch(r) PROVE TypeOK'
  <2>1. force' \in [Runs -> BOOLEAN] BY <1>1 DEF Launch
  <2>2. calm' \in BOOLEAN /\ alone' \in [Runs -> BOOLEAN] BY <1>1 DEF Launch
  <2>. QED BY <1>1, <2>1, <2>2 DEF Launch, Pcs, Starting
<1>2. ASSUME NEW r \in Runs, EnsureCerts(r) PROVE TypeOK'
  <2>1. CASE disk.cert # None BY <1>2, <2>1 DEF EnsureCerts, Pcs, Starting
  <2>2. CASE disk.cert = None BY <1>2, <2>2 DEF EnsureCerts, Pcs, Starting, Gens
  <2>. QED BY <2>1, <2>2
<1>3. ASSUME NEW r \in Runs, Generate(r) PROVE TypeOK'
  <2>1. CASE gen[r] = "check" BY <1>3, <2>1 DEF Generate, Gens
  <2>2. CASE gen[r] = "create"
    <3>1. cas < MaxCas /\ cas' = cas + 1 /\ own' = [own EXCEPT ![r] = cas']
          /\ disk' = [disk EXCEPT !.key = cas'] /\ gen' = [gen EXCEPT ![r] = "cert"]
      BY <1>3, <2>2 DEF Generate
    <3>2. cas' \in 0..MaxCas BY <3>1
    <3>. QED BY <1>3, <3>1, <3>2 DEF Generate, Gens
  <2>3. CASE gen[r] = "cert" BY <1>3, <2>3, SMTT(30) DEF Generate, Gens
  <2>4. CASE gen[r] = "dhparam"
    <3>1. disk' = [disk EXCEPT !.dh = TRUE] /\ gen' = [gen EXCEPT ![r] = "succeeded"]
          /\ UNCHANGED <<cas, own>>
      BY <1>3, <2>4 DEF Generate
    <3>2. disk' \in [key : Cas, cert : Cas, dh : BOOLEAN] BY <3>1
    <3>3. gen' \in [Runs -> Gens] BY <3>1 DEF Gens
    <3>. QED BY <1>3, <3>1, <3>2, <3>3 DEF Generate
  <2>. QED BY <1>3, <2>1, <2>2, <2>3, <2>4 DEF Generate
<1>4. ASSUME NEW r \in Runs, CertsMade(r) PROVE TypeOK'
  <2>1. made' \in [Runs -> BOOLEAN] BY <1>4 DEF CertsMade
  <2>. QED BY <1>4, <2>1 DEF CertsMade, Pcs, Starting
<1>5. ASSUME NEW r \in Runs, StopPod(r) PROVE TypeOK' BY <1>5 DEF StopPod, Gens
<1>6. ASSUME NEW r \in Runs, Decide(r) PROVE TypeOK' BY <1>6 DEF Decide, Pcs, Starting
<1>7. ASSUME NEW r \in Runs, CopyContext(r) PROVE TypeOK'
  BY <1>7 DEF CopyContext, Pcs, Starting
<1>8. ASSUME NEW r \in Runs, Build(r) PROVE TypeOK' BY <1>8 DEF Build, Pcs, Starting
<1>9. ASSUME NEW r \in Runs, Push(r) PROVE TypeOK' BY <1>9 DEF Push, Pcs, Starting
<1>10. ASSUME NEW r \in Runs, ReadCerts(r) PROVE TypeOK'
  <2>1. CASE disk.key # None /\ disk.cert # None /\ disk.dh
    <3>1. pc' = [pc EXCEPT ![r] = "pull"]
          /\ mitm' = [mitm EXCEPT ![r] = [key |-> disk.key, cert |-> disk.cert]]
      BY <1>10, <2>1 DEF ReadCerts
    <3>2. mitm' \in [Runs -> [key : Cas, cert : Cas]] BY <3>1
    <3>3. pc' \in [Runs -> Pcs] BY <3>1 DEF Pcs, Starting
    <3>4. \A q \in Runs : pc'[q] \in {"pull", "attached"} => mitm'[q].key # None
      BY <2>1, <3>1
    <3>. QED BY <1>10, <3>2, <3>3, <3>4 DEF ReadCerts
  <2>2. CASE ~(disk.key # None /\ disk.cert # None /\ disk.dh)
    <3>1. pc' = [pc EXCEPT ![r] = "failed"] /\ mitm' = mitm
      BY <1>10, <2>2 DEF ReadCerts
    <3>2. pc' \in [Runs -> Pcs] BY <3>1 DEF Pcs
    <3>. QED BY <1>10, <3>1, <3>2 DEF ReadCerts
  <2>. QED BY <2>1, <2>2
<1>11. ASSUME NEW r \in Runs, Pull(r) PROVE TypeOK' BY <1>11 DEF Pull, Pcs, Starting
<1>12. ASSUME NEW r \in Runs, Raise(r) \/ Kill(r) PROVE TypeOK'
  <2>1. calm' \in BOOLEAN BY <1>12 DEF Raise, Kill, Lose
  <2>2. pc' \in [Runs -> Pcs] /\ \A q \in Runs : pc'[q] \in {"pull", "attached"} => pc'[q] = pc[q]
    BY <1>12 DEF Raise, Kill, Pcs
  <2>. QED BY <1>12, <2>1, <2>2 DEF Raise, Kill
<1>13. ASSUME NEW r \in Runs, Retire(r) PROVE TypeOK'
  BY <1>13 DEF Retire, Pcs, Gens, Unread
<1>14. CASE DayPasses BY <1>14 DEF DayPasses
<1>15. CASE PruneImage BY <1>15 DEF PruneImage
<1>16. CASE WipeCerts
  <2>1. calm' \in BOOLEAN /\ alone' \in [Runs -> BOOLEAN] BY <1>16 DEF WipeCerts
  <2>. QED BY <1>16, <2>1 DEF WipeCerts, NoCerts
<1>17. CASE UNCHANGED vars BY <1>17 DEF vars
<1>. QED BY <1>1, <1>2, <1>3, <1>4, <1>5, <1>6, <1>7, <1>8, <1>9, <1>10, <1>11, <1>12,
            <1>13, <1>14, <1>15, <1>16, <1>17 DEF Next, StartUp

-----------------------------------------------------------------------------
(* Steps of a run that is busy: it is enough to look at that run.          *)
CalmOf(r) ==
    /\ PodRuns(r) => pc[r] = "generating"
    /\ Relies(r)
    /\ pc[r] # "generating" => Whole \/ disk = NoCerts
    /\ Whole /\ ~Owes(r) => pushed = disk.key
    /\ pc[r] = "attached" => trusted[r] = mitm[r].key

Mine(r) ==
    /\ PodOf(r)
    /\ calm => CalmOf(r)
    /\ alone[r] /\ force[r] => Carries(r)

(* Nothing of another run changes but what is shared.                      *)
Framed(r) ==
    /\ \A q \in Runs \ {r} :
          /\ pc'[q] = pc[q] /\ made'[q] = made[q] /\ force'[q] = force[q] /\ gen'[q] = gen[q]
          /\ own'[q] = own[q] /\ ctx'[q] = ctx[q] /\ mitm'[q] = mitm[q]
          /\ trusted'[q] = trusted[q]
    /\ alone' = alone /\ (calm' => calm)

LEMMA OwesBusy == ASSUME NEW r \in Runs, Owes(r) PROVE Busy(r)
BY DEF Owes, Past, Busy, Starting

LEMMA MineHolds == ASSUME AInv, NEW r \in Runs, Busy(r) PROVE Mine(r)
<1>1. PodOf(r) BY DEF AInv, Pods
<1>2. ASSUME calm PROVE CalmOf(r)
  <2>1. \A q \in Runs : Busy(q) => q = r BY <1>2 DEF AInv, Calm, Only
  <2>2. \A q \in Runs : pc[q] = "generating" => q = r BY <2>1 DEF Busy, Starting
  <2>3. \A q \in Runs : Owes(q) => q = r BY <2>1, OwesBusy
  <2>4. pc[r] # "generating" => Whole \/ disk = NoCerts BY <1>2, <2>2 DEF AInv, Calm
  <2>5. Whole /\ ~Owes(r) => pushed = disk.key BY <1>2, <2>3 DEF AInv, Calm
  <2>. QED BY <1>2, <2>4, <2>5 DEF AInv, Calm, CalmOf
<1>3. alone[r] /\ force[r] => Carries(r) BY DEF AInv, Alone
<1>. QED BY <1>1, <1>2, <1>3 DEF Mine

LEMMA MineIsEnough ==
    ASSUME AInv, NEW r \in Runs, Busy(r), Framed(r), Mine(r)'
    PROVE  (Pods /\ Calm /\ Alone)'
<1>1. \A q \in Runs \ {r} : (Busy(q)' <=> Busy(q)) /\ (PodRuns(q)' <=> PodRuns(q))
  BY DEF Framed, Busy, PodRuns
<1>2. Pods' BY <1>1 DEF AInv, Pods, PodOf, Framed, Mine
<1>3. ASSUME calm' PROVE Calm'
  <2>1. calm BY <1>3 DEF Framed
  <2>2. \A q \in Runs \ {r} : ~Busy(q) BY <2>1 DEF AInv, Calm, Only
  <2>3. \A q \in Runs \ {r} : ~Busy(q)' /\ pc'[q] \notin Starting /\ ~PodRuns(q)'
    BY <1>1, <2>2 DEF Busy
  <2>4. CalmOf(r)' BY <1>3 DEF Mine
  <2>5. \A q \in Runs : Busy(q)' => Only(q)' BY <2>3 DEF Only
  <2>6. \A q \in Runs : PodRuns(q)' => pc'[q] = "generating" BY <2>3, <2>4 DEF CalmOf
  <2>7. \A q \in Runs \ {r} : Relies(q)' /\ ~Owes(q)' /\ pc'[q] # "generating"
    BY <2>3 DEF Relies, Owes, Past, Starting
  <2>8. \A q \in Runs : Relies(q)' BY <2>4, <2>7 DEF CalmOf
  <2>9. (\A q \in Runs : pc'[q] # "generating") => (Whole \/ disk = NoCerts)'
    BY <2>4 DEF CalmOf
  <2>10. (Whole /\ (\A q \in Runs : ~Owes(q)) => pushed = disk.key)'
    BY <2>4 DEF CalmOf
  <2>11. \A q \in Runs : pc'[q] = "attached" => trusted'[q] = mitm'[q].key
    BY <2>1, <2>4 DEF CalmOf, Framed, AInv, Calm
  <2>. QED BY <2>5, <2>6, <2>8, <2>9, <2>10, <2>11 DEF Calm
<1>4. Alone'
  <2>1. ASSUME NEW q \in Runs, alone'[q] PROVE Busy(q)' => Only(q)'
    <3>1. alone[q] BY <2>1 DEF Framed
    <3>2. Busy(q) => \A p \in Runs : Busy(p) => p = q BY <3>1 DEF AInv, Alone, Only
    <3>3. \A p \in Runs : Busy(p)' => Busy(p) BY <1>1
    <3>. QED BY <3>2, <3>3 DEF Only
  <2>2. ASSUME NEW q \in Runs, alone'[q], force'[q] PROVE Carries(q)'
    <3>1. CASE q = r BY <2>2, <3>1 DEF Mine
    <3>2. CASE q # r
      <4>1. alone[q] /\ force[q] BY <2>2, <3>2 DEF Framed
      <4>2. ~Busy(q) BY <3>2, <4>1 DEF AInv, Alone, Only
      <4>3. pc[q] \notin Starting BY <4>2 DEF Busy
      <4>4. Carries(q) BY <4>1 DEF AInv, Alone
      <4>. QED BY <3>2, <4>3, <4>4 DEF Carries, Framed, Starting
    <3>. QED BY <3>1, <3>2
  <2>. QED BY <2>1, <2>2 DEF Alone
<1>. QED BY <1>2, <1>3, <1>4 DEF Calm

LEMMA BusyStep ==
    ASSUME AInv, NEW r \in Runs, StartUp(r) \/ Generate(r) \/ StopPod(r) \/ Kill(r)
    PROVE  Busy(r) /\ Framed(r) /\ Mine(r)'
<1>. USE DEF Step, Goto, shared, podVars, runVars, history
<1>1. Busy(r)
  BY DEF StartUp, Generate, StopPod, Kill, EnsureCerts, CertsMade, Decide, CopyContext,
         Build, Push, ReadCerts, Pull, Raise, Busy, Starting, PodRuns
<1>2. Mine(r) BY <1>1, MineHolds
<1>3. TypeOK BY DEF AInv
<1>4. Framed(r)
  <2>. USE DEF TypeOK, Framed
  <2>1. CASE EnsureCerts(r) BY <1>3, <2>1 DEF EnsureCerts
  <2>2. CASE CertsMade(r) BY <1>3, <2>2 DEF CertsMade
  <2>3. CASE Decide(r) BY <1>3, <2>3 DEF Decide
  <2>4. CASE CopyContext(r) BY <1>3, <2>4 DEF CopyContext
  <2>5. CASE Build(r) BY <1>3, <2>5 DEF Build
  <2>6. CASE Push(r) BY <1>3, <2>6 DEF Push
  <2>7. CASE ReadCerts(r) BY <1>3, <2>7 DEF ReadCerts
  <2>8. CASE Pull(r) BY <1>3, <2>8 DEF Pull
  <2>9. CASE Raise(r) \/ Kill(r) BY <1>3, <2>9 DEF Raise, Kill, Lose
  <2>10. CASE Generate(r) BY <1>3, <2>10 DEF Generate
  <2>11. CASE StopPod(r) BY <1>3, <2>11 DEF StopPod
  <2>. QED BY <2>1, <2>2, <2>3, <2>4, <2>5, <2>6, <2>7, <2>8, <2>9, <2>10, <2>11 DEF StartUp
<1>5. Mine(r)'
  <2>1. CASE EnsureCerts(r)
    <3>1. /\ pc[r] = "certs" /\ UNCHANGED <<disk, local, pushed, calm>>
          /\ \/ disk.cert # None /\ pc'[r] = "decide" /\ gen'[r] = gen[r]
             \/ disk.cert = None /\ pc'[r] = "generating" /\ gen'[r] = "check"
          /\ own'[r] = own[r] /\ made'[r] = made[r] /\ force'[r] = force[r]
          /\ ctx'[r] = ctx[r] /\ mitm'[r] = mitm[r] /\ trusted'[r] = trusted[r]
      BY <1>3, <2>1 DEF EnsureCerts, TypeOK
    <3>2. PodOf(r)' BY <1>2, <3>1 DEF Mine, PodOf, PodRuns
    <3>3. ASSUME calm' PROVE CalmOf(r)'
      BY <1>2, <3>1, <3>3 DEF Mine, PodOf, CalmOf, Relies, Carries, Whole, Owes, Past, PodRuns, NoCerts, None
    <3>4. ASSUME alone'[r], force'[r] PROVE Carries(r)'
      BY <1>2, <1>4, <3>1, <3>4 DEF Framed, Mine, Carries
    <3>. QED BY <3>2, <3>3, <3>4 DEF Mine
  <2>2. CASE CertsMade(r)
    <3>1. /\ pc[r] = "generating" /\ gen[r] = "succeeded" /\ UNCHANGED <<disk, local, pushed, calm>>
          /\ pc'[r] = (IF disk.cert # None THEN "decide" ELSE "failed") /\ gen'[r] = gen[r]
          /\ own'[r] = own[r] /\ (made'[r] <=> disk.cert # None) /\ force'[r] = force[r]
          /\ ctx'[r] = ctx[r] /\ mitm'[r] = mitm[r] /\ trusted'[r] = trusted[r]
      BY <1>3, <2>2 DEF CertsMade, TypeOK
    <3>2. PodOf(r)' BY <1>2, <3>1 DEF Mine, PodOf, PodRuns
    <3>3. ASSUME calm' PROVE CalmOf(r)'
      BY <1>2, <3>1, <3>3 DEF Mine, PodOf, CalmOf, Relies, Carries, Whole, Owes, Past, PodRuns, NoCerts, None
    <3>4. ASSUME alone'[r], force'[r] PROVE Carries(r)'
      BY <1>2, <1>4, <3>1, <3>4 DEF Framed, Mine, Carries
    <3>. QED BY <3>2, <3>3, <3>4 DEF Mine
  <2>3. CASE Decide(r)
    <3>1. /\ pc[r] = "decide" /\ UNCHANGED <<disk, local, pushed, calm>>
          /\ pc'[r] \in {"context", "read"} /\ (made[r] \/ force[r] => pc'[r] = "context")
          /\ gen'[r] = gen[r]
          /\ own'[r] = own[r] /\ made'[r] = made[r] /\ force'[r] = force[r]
          /\ ctx'[r] = ctx[r] /\ mitm'[r] = mitm[r] /\ trusted'[r] = trusted[r]
      BY <1>3, <2>3 DEF Decide, TypeOK
    <3>2. PodOf(r)' BY <1>2, <3>1 DEF Mine, PodOf, PodRuns
    <3>3. ASSUME calm' PROVE CalmOf(r)'
      BY <1>2, <3>1, <3>3 DEF Mine, PodOf, CalmOf, Relies, Carries, Whole, Owes, Past, PodRuns, NoCerts, None
    <3>4. ASSUME alone'[r], force'[r] PROVE Carries(r)'
      BY <1>2, <1>4, <3>1, <3>4 DEF Framed, Mine, Carries
    <3>. QED BY <3>2, <3>3, <3>4 DEF Mine
  <2>4. CASE CopyContext(r)
    <3>1. /\ pc[r] = "context" /\ UNCHANGED <<disk, local, pushed, calm>>
          /\ pc'[r] = "build" /\ gen'[r] = gen[r]
          /\ own'[r] = own[r] /\ made'[r] = made[r] /\ force'[r] = force[r]
          /\ ctx'[r] = disk.cert /\ mitm'[r] = mitm[r] /\ trusted'[r] = trusted[r]
      BY <1>3, <2>4 DEF CopyContext, TypeOK
    <3>2. PodOf(r)' BY <1>2, <3>1 DEF Mine, PodOf, PodRuns
    <3>3. ASSUME calm' PROVE CalmOf(r)'
      BY <1>2, <3>1, <3>3 DEF Mine, PodOf, CalmOf, Relies, Carries, Whole, Owes, Past, PodRuns, NoCerts, None
    <3>4. ASSUME alone'[r], force'[r] PROVE Carries(r)'
      BY <1>2, <1>4, <3>1, <3>4 DEF Framed, Mine, Carries
    <3>. QED BY <3>2, <3>3, <3>4 DEF Mine
  <2>5. CASE Build(r)
    <3>1. /\ pc[r] = "build" /\ UNCHANGED <<disk, pushed, calm>>
          /\ pc'[r] = "push" /\ gen'[r] = gen[r] /\ local'.ca = ctx[r]
          /\ own'[r] = own[r] /\ made'[r] = made[r] /\ force'[r] = force[r]
          /\ ctx'[r] = ctx[r] /\ mitm'[r] = mitm[r] /\ trusted'[r] = trusted[r]
      BY <1>3, <2>5 DEF Build, TypeOK
    <3>2. PodOf(r)' BY <1>2, <3>1 DEF Mine, PodOf, PodRuns
    <3>3. ASSUME calm' PROVE CalmOf(r)'
      BY <1>2, <3>1, <3>3 DEF Mine, PodOf, CalmOf, Relies, Carries, Whole, Owes, Past, PodRuns, NoCerts, None
    <3>4. ASSUME alone'[r], force'[r] PROVE Carries(r)'
      BY <1>2, <1>4, <3>1, <3>4 DEF Framed, Mine, Carries
    <3>. QED BY <3>2, <3>3, <3>4 DEF Mine
  <2>6. CASE Push(r)
    <3>1. /\ pc[r] = "push" /\ UNCHANGED <<disk, local, calm>>
          /\ pc'[r] = "read" /\ gen'[r] = gen[r] /\ local.ca # None /\ pushed' = local.ca
          /\ own'[r] = own[r] /\ made'[r] = made[r] /\ force'[r] = force[r]
          /\ ctx'[r] = ctx[r] /\ mitm'[r] = mitm[r] /\ trusted'[r] = trusted[r]
      BY <1>3, <2>6 DEF Push, TypeOK
    <3>2. PodOf(r)' BY <1>2, <3>1 DEF Mine, PodOf, PodRuns
    <3>3. ASSUME calm' PROVE CalmOf(r)'
      BY <1>2, <3>1, <3>3 DEF Mine, PodOf, CalmOf, Relies, Carries, Whole, Owes, Past, PodRuns, NoCerts, None
    <3>4. ASSUME alone'[r], force'[r] PROVE Carries(r)'
      BY <1>2, <1>4, <3>1, <3>4 DEF Framed, Mine, Carries
    <3>. QED BY <3>2, <3>3, <3>4 DEF Mine
  <2>7. CASE ReadCerts(r)
    <3>1. /\ pc[r] = "read" /\ UNCHANGED <<disk, local, pushed, calm>>
          /\ \/ pc'[r] = "pull" /\ mitm'[r].key = disk.key /\ mitm'[r].cert = disk.cert
             \/ pc'[r] = "failed" /\ mitm'[r] = mitm[r]
          /\ gen'[r] = gen[r]
          /\ own'[r] = own[r] /\ made'[r] = made[r] /\ force'[r] = force[r]
          /\ ctx'[r] = ctx[r] /\ trusted'[r] = trusted[r]
      BY <1>3, <2>7 DEF ReadCerts, TypeOK
    <3>2. PodOf(r)' BY <1>2, <3>1 DEF Mine, PodOf, PodRuns
    <3>3. ASSUME calm' PROVE CalmOf(r)'
      BY <1>2, <3>1, <3>3 DEF Mine, PodOf, CalmOf, Relies, Carries, Whole, Owes, Past, PodRuns, NoCerts, None
    <3>4. ASSUME alone'[r], force'[r] PROVE Carries(r)'
      BY <1>2, <1>4, <3>1, <3>4 DEF Framed, Mine, Carries
    <3>. QED BY <3>2, <3>3, <3>4 DEF Mine
  <2>8. CASE Pull(r)
    <3>1. /\ pc[r] = "pull" /\ UNCHANGED <<disk, local, pushed, calm>>
          /\ pc'[r] = "attached" /\ gen'[r] = gen[r] /\ trusted'[r] = pushed
          /\ own'[r] = own[r] /\ made'[r] = made[r] /\ force'[r] = force[r]
          /\ ctx'[r] = ctx[r] /\ mitm'[r] = mitm[r]
      BY <1>3, <2>8 DEF Pull, TypeOK
    <3>2. PodOf(r)' BY <1>2, <3>1 DEF Mine, PodOf, PodRuns
    <3>3. ASSUME calm' PROVE CalmOf(r)'
      BY <1>2, <3>1, <3>3 DEF Mine, PodOf, CalmOf, Relies, Carries, Whole, Owes, Past, PodRuns, NoCerts, None
    <3>4. ASSUME alone'[r], force'[r] PROVE Carries(r)'
      BY <1>2, <1>4, <3>1, <3>4 DEF Framed, Mine, Carries
    <3>. QED BY <3>2, <3>3, <3>4 DEF Mine
  <2>9. CASE Raise(r) \/ Kill(r)
    <3>1. /\ pc[r] \in Starting /\ pc'[r] \in {"failed", "killed"}
          /\ UNCHANGED <<disk, local, pushed>>
          /\ calm' => calm /\ ~Owes(r)
          /\ UNCHANGED <<gen, own, made, force, ctx, mitm, trusted>>
      BY <1>3, <2>9 DEF Raise, Kill, Lose, Owes, Past, TypeOK
    <3>2. PodOf(r)' BY <3>1 DEF PodOf
    <3>3. ASSUME calm' PROVE CalmOf(r)'
      <4>1. CalmOf(r) /\ ~Owes(r) BY <1>2, <3>1, <3>3 DEF Mine
      <4>2. ~PodRuns(r) BY <4>1 DEF CalmOf, Owes
      <4>. QED BY <3>1, <4>1, <4>2 DEF CalmOf, Relies, Whole, Owes, Past, PodRuns
    <3>4. ASSUME alone'[r], force'[r] PROVE Carries(r)' BY <3>1 DEF Carries
    <3>. QED BY <3>2, <3>3, <3>4 DEF Mine
  <2>10. CASE Generate(r)
    <3>1. /\ PodRuns(r) /\ pc' = pc /\ UNCHANGED <<local, pushed, made, force, ctx, mitm, trusted, calm>>
      BY <2>10 DEF Generate, PodRuns
    <3>2. pc[r] \in {"generating", "failed", "killed"} BY <1>2, <3>1 DEF Mine, PodOf
    <3>3. PodOf(r)' BY <3>1, <3>2 DEF PodOf
    <3>4. ASSUME calm' PROVE CalmOf(r)'
      <4>1. calm /\ CalmOf(r) /\ pc[r] = "generating" BY <1>2, <3>1, <3>4 DEF Mine, CalmOf
      <4>2. cas \in Nat /\ (gen[r] = "create" => cas' # None /\ cas' = cas + 1)
        BY <1>3, <2>10 DEF Generate, TypeOK, Cas, None
      <4>3. Relies(r)'
        <5>1. CASE gen[r] = "check"
          <6>1. disk = NoCerts BY <4>1, <5>1 DEF CalmOf, Relies
          <6>. QED BY <1>3, <2>10, <3>1, <4>1, <5>1, <6>1 DEF Generate, Relies, TypeOK, NoCerts, Past
        <5>2. CASE gen[r] = "create"
          <6>1. disk = NoCerts BY <4>1, <5>2 DEF CalmOf, Relies
          <6>2. gen'[r] = "cert" /\ own'[r] = cas' /\ disk' = [disk EXCEPT !.key = cas']
            BY <1>3, <2>10, <5>2 DEF Generate, TypeOK
          <6>3. disk' = [key |-> cas', cert |-> None, dh |-> FALSE] BY <6>1, <6>2 DEF NoCerts
          <6>4. pc'[r] = "generating" /\ own'[r] # None BY <3>1, <4>1, <4>2, <5>2, <6>2
          <6>. QED BY <6>2, <6>3, <6>4 DEF Relies, Past
        <5>3. CASE gen[r] = "cert"
          <6>1. own[r] # None /\ disk = [key |-> own[r], cert |-> None, dh |-> FALSE]
            BY <4>1, <5>3 DEF CalmOf, Relies
          <6>2. gen'[r] = "dhparam" /\ own' = own /\ disk' = [disk EXCEPT !.cert = own[r]]
            BY <1>3, <2>10, <5>3 DEF Generate, TypeOK
          <6>. QED BY <3>1, <4>1, <6>1, <6>2 DEF Relies, Past
        <5>4. CASE gen[r] = "dhparam"
          <6>1. own[r] # None /\ disk = [key |-> own[r], cert |-> own[r], dh |-> FALSE]
            BY <4>1, <5>4 DEF CalmOf, Relies
          <6>2. gen'[r] = "succeeded" /\ own' = own /\ disk' = [disk EXCEPT !.dh = TRUE]
            BY <1>3, <2>10, <5>4 DEF Generate, TypeOK
          <6>. QED BY <3>1, <4>1, <6>1, <6>2 DEF Relies, Past, Whole
        <5>. QED BY <2>10, <5>1, <5>2, <5>3, <5>4 DEF Generate
      <4>. QED BY <3>1, <4>1, <4>3 DEF CalmOf, Owes
    <3>5. ASSUME alone'[r], force'[r] PROVE Carries(r)'
      BY <3>1, <3>2 DEF Carries
    <3>. QED BY <3>3, <3>4, <3>5 DEF Mine
  <2>11. CASE StopPod(r)
    <3>1. /\ PodRuns(r) /\ pc[r] \in {"failed", "killed"} /\ ~PodRuns(r)'
          /\ UNCHANGED <<disk, local, pushed, calm, pc>>
      BY <1>3, <2>11 DEF StopPod, PodRuns, TypeOK
    <3>2. ~calm BY <1>2, <3>1 DEF Mine, CalmOf
    <3>3. Carries(r)' BY <3>1 DEF Carries
    <3>. QED BY <3>1, <3>2, <3>3 DEF Mine, PodOf
  <2>. QED BY <2>1, <2>2, <2>3, <2>4, <2>5, <2>6, <2>7, <2>8, <2>9, <2>10, <2>11 DEF StartUp
<1>. QED BY <1>1, <1>4, <1>5

-----------------------------------------------------------------------------
(* Steps that begin or end a run, or are nobody's.                         *)

LEMMA LaunchStep == ASSUME AInv, NEW r \in Runs, Launch(r) PROVE (Pods /\ Calm /\ Alone)'
<1>. DEFINE met == \E q \in Runs : Busy(q)
<1>1. /\ pc[r] = "idle" /\ pc' = [pc EXCEPT ![r] = "certs"]
      /\ calm' = (calm /\ ~met)
      /\ alone' = [q \in Runs |-> IF q = r THEN ~met ELSE alone[q] /\ ~Busy(q)]
      /\ UNCHANGED <<disk, cas, local, pushed, gen, own, made, ctx, mitm, trusted>>
      /\ \A q \in Runs \ {r} : force'[q] = force[q]
  BY DEF Launch, Step, Goto, shared, podVars, AInv, TypeOK
<1>2. \A q \in Runs : pc'[q] = (IF q = r THEN "certs" ELSE pc[q]) BY <1>1 DEF AInv, TypeOK
<1>3. Pods' BY <1>1, <1>2 DEF AInv, Pods, PodOf, PodRuns
<1>4. ASSUME ~met PROVE \A q \in Runs : ~PodRuns(q)' /\ (Busy(q)' => q = r) /\ pc[q] \notin Starting
  BY <1>1, <1>2, <1>4 DEF Busy, PodRuns
<1>5. ASSUME calm' PROVE Calm'
  <2>1. calm /\ ~met BY <1>1, <1>5
  <2>2. \A q \in Runs : pc'[q] \in Starting => q = r BY <1>2, <1>4, <2>1
  <2>3. \A q \in Runs : Relies(q)' /\ ~Owes(q)' /\ pc'[q] # "generating" /\ ~Owes(q)
                      /\ pc[q] # "generating"
    BY <1>2, <1>4, <2>1, <2>2 DEF Relies, Owes, Past, Starting
  <2>4. (Whole \/ disk = NoCerts) /\ (Whole => pushed = disk.key) BY <2>1, <2>3 DEF AInv, Calm
  <2>5. \A q \in Runs : pc'[q] = "attached" => trusted'[q] = mitm'[q].key
    BY <1>1, <1>2, <2>1 DEF AInv, Calm
  <2>6. \A q \in Runs : Busy(q)' => Only(q)' BY <1>4, <2>1 DEF Only
  <2>. QED BY <1>1, <1>4, <2>1, <2>3, <2>4, <2>5, <2>6 DEF Calm, Whole
<1>6. Alone'
  <2>1. ASSUME NEW q \in Runs, alone'[q], Busy(q)' PROVE Only(q)'
    <3>1. CASE q = r BY <1>1, <1>4, <2>1, <3>1 DEF Only
    <3>2. CASE q # r
      <4>1. ~Busy(q) BY <1>1, <2>1, <3>2
      <4>2. ~Busy(q)' BY <1>1, <1>2, <3>2, <4>1 DEF Busy, PodRuns
      <4>. QED BY <2>1, <4>2
    <3>. QED BY <3>1, <3>2
  <2>2. ASSUME NEW q \in Runs, alone'[q], force'[q] PROVE Carries(q)'
    <3>1. CASE q = r BY <1>2, <3>1 DEF Carries
    <3>2. CASE q # r
      <4>1. alone[q] /\ force[q] BY <1>1, <2>2, <3>2
      <4>2. Carries(q) BY <4>1 DEF AInv, Alone
      <4>. QED BY <1>1, <1>2, <3>2, <4>2 DEF Carries
    <3>. QED BY <3>1, <3>2
  <2>. QED BY <2>1, <2>2 DEF Alone
<1>. QED BY <1>3, <1>5, <1>6 DEF Calm

LEMMA RetireStep == ASSUME AInv, NEW r \in Runs, Retire(r) PROVE (Pods /\ Calm /\ Alone)'
<1>1. /\ pc[r] \in {"attached", "failed", "killed"} /\ ~PodRuns(r) /\ ~Busy(r)
      /\ pc'[r] = "idle" /\ ~PodRuns(r)' /\ ~Busy(r)' /\ ~alone'[r]
      /\ UNCHANGED <<disk, cas, local, pushed, calm>>
  BY DEF Retire, Goto, shared, AInv, TypeOK, PodRuns, Busy, Starting
<1>2. \A q \in Runs \ {r} :
          /\ pc'[q] = pc[q] /\ made'[q] = made[q] /\ force'[q] = force[q] /\ gen'[q] = gen[q]
          /\ own'[q] = own[q] /\ ctx'[q] = ctx[q] /\ mitm'[q] = mitm[q]
          /\ trusted'[q] = trusted[q] /\ alone'[q] = alone[q]
  BY DEF Retire, Goto, AInv, TypeOK
<1>3. \A q \in Runs \ {r} : (Busy(q)' <=> Busy(q)) /\ (PodRuns(q)' <=> PodRuns(q)) /\ (Owes(q)' <=> Owes(q))
  BY <1>2 DEF Busy, PodRuns, Owes
<1>4. Pods' BY <1>1, <1>2, <1>3 DEF AInv, Pods, PodOf
<1>5. ASSUME calm' PROVE Calm'
  <2>1. calm BY <1>1, <1>5
  <2>2. ~Owes(r) /\ pc[r] # "generating" /\ ~Owes(r)' /\ Relies(r)'
    BY <1>1 DEF Owes, Past, Relies
  <2>3. \A q \in Runs \ {r} : Relies(q)' BY <1>1, <1>2, <2>1 DEF AInv, Calm, Relies, Whole
  <2>4. (\A q \in Runs : ~Owes(q)') => (\A q \in Runs : ~Owes(q)) BY <1>3, <2>2
  <2>5. (\A q \in Runs : pc'[q] # "generating") => (\A q \in Runs : pc[q] # "generating")
    BY <1>2, <2>2
  <2>6. \A q \in Runs : Busy(q)' => Only(q)' BY <1>1, <1>3, <2>1 DEF AInv, Calm, Only
  <2>7. \A q \in Runs : PodRuns(q)' => pc'[q] = "generating" BY <1>1, <1>2, <1>3, <2>1 DEF AInv, Calm
  <2>8. \A q \in Runs : pc'[q] = "attached" => trusted'[q] = mitm'[q].key
    BY <1>1, <1>2, <2>1 DEF AInv, Calm
  <2>9. (Whole' <=> Whole) /\ disk' = disk /\ pushed' = pushed BY <1>1 DEF Whole
  <2>10. (\A q \in Runs : pc[q] # "generating") => Whole \/ disk = NoCerts
    BY <2>1 DEF AInv, Calm
  <2>11. Whole /\ (\A q \in Runs : ~Owes(q)) => pushed = disk.key BY <2>1 DEF AInv, Calm
  <2>12. \A q \in Runs : Relies(q)' BY <2>2, <2>3
  <2>. QED BY <2>4, <2>5, <2>6, <2>7, <2>8, <2>9, <2>10, <2>11, <2>12 DEF Calm
<1>6. Alone'
  <2>1. ASSUME NEW q \in Runs, alone'[q] PROVE (Busy(q)' => Only(q)') /\ (force'[q] => Carries(q)')
    <3>1. q # r /\ alone[q] BY <1>1, <1>2, <2>1
    <3>2. Busy(q)' => Only(q)' BY <1>1, <1>3, <3>1 DEF AInv, Alone, Only
    <3>3. force'[q] => Carries(q)' BY <1>1, <1>2, <3>1 DEF AInv, Alone, Carries
    <3>. QED BY <3>2, <3>3
  <2>. QED BY <2>1 DEF Alone
<1>. QED BY <1>4, <1>5, <1>6 DEF Calm

LEMMA WorldStep ==
    ASSUME AInv, DayPasses \/ PruneImage \/ WipeCerts \/ UNCHANGED vars
    PROVE  (Pods /\ Calm /\ Alone)'
<1>1. UNCHANGED <<cas, pushed, podVars, runVars>>
  BY DEF DayPasses, PruneImage, WipeCerts, vars, shared
<1>. USE DEF podVars, runVars
<1>2. \A q \in Runs : (Busy(q)' <=> Busy(q)) /\ (PodRuns(q)' <=> PodRuns(q)) /\ (Owes(q)' <=> Owes(q))
  BY <1>1 DEF Busy, PodRuns, Owes
<1>3. Pods' BY <1>1, <1>2 DEF AInv, Pods, PodOf
<1>4. CASE DayPasses \/ PruneImage \/ UNCHANGED vars
  <2>1. UNCHANGED <<disk, calm, alone>> /\ local'.ca \in {None, local.ca}
    BY <1>4 DEF DayPasses, PruneImage, vars, shared, history, AInv, TypeOK
  <2>2. ASSUME calm' PROVE Calm'
    <3>1. \A q \in Runs : Relies(q)'
      BY <1>1, <2>1, <2>2 DEF AInv, Calm, Relies, Whole
    <3>2. \A q \in Runs : Busy(q)' => Only(q)' BY <1>2, <2>1, <2>2 DEF AInv, Calm, Only
    <3>. QED BY <1>1, <1>2, <2>1, <2>2, <3>1, <3>2 DEF AInv, Calm, Whole
  <2>3. \A q \in Runs : alone[q] /\ force[q] => Carries(q)'
    BY <1>1, <2>1 DEF AInv, Alone, Carries
  <2>4. \A q \in Runs : alone[q] /\ Busy(q)' => Only(q)' BY <1>2 DEF AInv, Alone, Only
  <2>5. Alone' BY <1>1, <2>1, <2>3, <2>4 DEF Alone
  <2>. QED BY <1>3, <2>2, <2>5 DEF Calm
<1>5. CASE WipeCerts
  <2>1. /\ disk' = NoCerts /\ local' = local
        /\ calm' = (calm /\ ~\E r \in Runs : Busy(r))
        /\ alone' = [r \in Runs |-> alone[r] /\ ~Busy(r)]
    BY <1>5 DEF WipeCerts
  <2>2. ASSUME calm' PROVE Calm'
    <3>1. calm /\ \A q \in Runs : ~Busy(q) BY <2>1, <2>2
    <3>2. \A q \in Runs : pc'[q] \notin Starting /\ ~PodRuns(q)' /\ ~Busy(q)'
      BY <1>1, <1>2, <3>1 DEF Busy
    <3>3. \A q \in Runs : Relies(q)' BY <3>2 DEF Relies, Past, Starting
    <3>4. ~Whole' BY <2>1 DEF Whole, NoCerts, None
    <3>5. \A q \in Runs : pc'[q] = "attached" => trusted'[q] = mitm'[q].key
      BY <1>1, <3>1 DEF AInv, Calm
    <3>. QED BY <2>1, <3>2, <3>3, <3>4, <3>5 DEF Calm
  <2>3. Alone'
    <3>1. ASSUME NEW q \in Runs, alone'[q]
          PROVE  (Busy(q)' => Only(q)') /\ (force'[q] => Carries(q)')
      <4>1. alone[q] /\ ~Busy(q) BY <2>1, <3>1
      <4>2. ~Busy(q)' /\ pc[q] \notin Starting BY <1>2, <4>1 DEF Busy
      <4>3. force'[q] => Carries(q)'
        BY <1>1, <4>1, <4>2 DEF AInv, Alone, Carries, Starting
      <4>. QED BY <4>2, <4>3
    <3>. QED BY <3>1 DEF Alone
  <2>. QED BY <1>3, <2>2, <2>3 DEF Calm
<1>. QED BY <1>4, <1>5

LEMMA Inductive == Spec => []AInv
<1>1. ASSUME AInv, [Next]_vars PROVE AInv'
  <2>1. TypeOK' BY <1>1, TypeStep DEF AInv
  <2>2. ASSUME NEW r \in Runs, StartUp(r) \/ Generate(r) \/ StopPod(r) \/ Kill(r)
        PROVE  (Pods /\ Calm /\ Alone)'
    BY <1>1, <2>2, BusyStep, MineIsEnough
  <2>3. ASSUME NEW r \in Runs, Launch(r) \/ Retire(r) PROVE (Pods /\ Calm /\ Alone)'
    BY <1>1, <2>3, LaunchStep, RetireStep
  <2>4. CASE DayPasses \/ PruneImage \/ WipeCerts \/ UNCHANGED vars
    BY <1>1, <2>1, <2>4, WorldStep DEF AInv
  <2>. QED BY <1>1, <2>1, <2>2, <2>3, <2>4 DEF Next, AInv
<1>. QED BY AInit, <1>1, PTL DEF Spec

(* Every variable keeps its type, and a run whose pods are up has read a   *)
(* key.                                                                    *)
THEOREM TypeCorrect == Spec => []TypeOK
BY Inductive, PTL DEF AInv

(* On a host whose start-ups never overlapped and whose new CAs were all   *)
(* pushed, every attached agent trusts its proxy, whatever the image's age *)
(* or absence (ensure_mitm_certs, _ensure_agent_image).                    *)
THEOREM CalmTrust == Spec => []CalmRunsTrust
<1>1. AInv => CalmRunsTrust BY DEF AInv, Calm, CalmRunsTrust, Trusts
<1>. QED BY Inductive, <1>1, PTL

(* --force-rebuild repairs whatever happened before, unless the CA's own   *)
(* files do not fit each other (_ensure_agent_image).                      *)
THEOREM ForceIsEnough == Spec => []ForceRepairs
<1>1. AInv => ForceRepairs BY DEF AInv, Alone, Carries, ForceRepairs, Trusts, Paired
<1>. QED BY Inductive, <1>1, PTL

(* On such a host _read_mitm_certs finds all files, of one CA, though      *)
(* ensure_mitm_certs only looked for one of them.                          *)
THEOREM CalmReads == Spec => []CalmReadsWhole
<1>1. AInv => CalmReadsWhole BY DEF AInv, Calm, Relies, Whole, CalmReadsWhole
<1>. QED BY Inductive, <1>1, PTL
=============================================================================
