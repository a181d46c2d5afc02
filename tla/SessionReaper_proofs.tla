------------------------ MODULE SessionReaper_proofs ------------------------
(***************************************************************************)
(* Theorems about SessionReaper, for any number of runs and cleaners and   *)
(* every argument combination.  The cleaner works on an old listing, so    *)
(* what its targets have in common has to be stable: they are sessions     *)
(* that existed then and are due (Due), and under --all those that existed *)
(* are still targets or on their way out (Swept).                          *)
(***************************************************************************)
EXTENDS SessionReaper, TLAPS

Chosen(c, s) ==
    \/ cargs[c].all
    \/ cargs[c].older # NotGiven /\ now - born[s] >= cargs[c].older
    \/ s \in cargs[c].ids

Due ==
    \A c \in Cleaners :
        /\ \A s \in present[c] : ns[s] # "absent"
        /\ targets[c] \subseteq present[c]
        /\ cpc[c] = "idle" => targets[c] = {}
        /\ \A s \in targets[c] : Cardinality(Given(cargs[c])) = 1 /\ Chosen(c, s)
        /\ cur[c] # NoOne => cpc[c] \in {"waiting", "done"}

(* Between its listing and its exit, and after an exit with success.       *)
Working(c) == cpc[c] \in {"confirm", "deleting", "waiting"} \/ rc[c] = 0

Swept ==
    \A c \in Cleaners :
        /\ rc[c] # 99 => cpc[c] = "done"
        /\ rc[c] = 0 => targets[c] = {}
        /\ Working(c) /\ cargs[c].all /\ ~missed[c] => \A s \in present[c] \ targets[c] :
              /\ ns[s] \in {"terminating", "gone"}
              /\ cargs[c].wait => ns[s] = "gone" \/ (cpc[c] = "waiting" /\ cur[c] = s)

RInv == TypeOK /\ RegistryKept /\ Due /\ Swept

-----------------------------------------------------------------------------
LEMMA RInit == Init => RInv
<1>. SUFFICES ASSUME Init PROVE RInv OBVIOUS
<1>. USE ReaperAssumption
<1>1. TypeOK BY DEF Init, PInit, TypeOK, Stages, NsStates
<1>2. RegistryKept BY DEF Init, RegistryKept
<1>3. Due BY DEF Init, Due
<1>4. Swept BY DEF Init, Swept, Working
<1>. QED BY <1>1, <1>2, <1>3, <1>4 DEF RInv

(* What a step of a run may do to the namespaces.                          *)
LEMMA RunMoves ==
    ASSUME RInv, NEW s \in Sessions, Run(s)
    PROVE  /\ stage' \in [Sessions -> Stages]
           /\ ns' \in [Sessions -> NsStates]
           /\ complete' \in [Sessions -> BOOLEAN]
           /\ \A t \in Sessions : t # s => ns'[t] = ns[t]
           /\ <<ns[s], ns'[s]>> \in {<<"absent", "active">>, <<"active", "terminating">>,
                                     <<"terminating", "gone">>} \/ ns' = ns
<1>. USE DEF RInv, TypeOK, Stages, NsStates
<1>1. CASE Begin(s) \/ Attach(s) \/ Close(s) \/ Leave(s) \/ Crash(s)
  BY <1>1 DEF Begin, Attach, Close, Leave, Crash, Move
<1>2. CASE Deploy(s) BY <1>2 DEF Deploy, SetNs
<1>3. CASE FinishDeploy(s) BY <1>3 DEF FinishDeploy
<1>4. CASE OwnDelete(s) BY <1>4 DEF OwnDelete, SetNs
<1>5. CASE Collapse(s) BY <1>5 DEF Collapse, SetNs
<1>. QED BY <1>1, <1>2, <1>3, <1>4, <1>5 DEF Run, RunOf

LEMMA RunStep == ASSUME RInv, NEW s \in Sessions, Run(s) PROVE RInv'
<1>. USE ReaperAssumption, RunMoves
<1>1. UNCHANGED <<now, registry, cleanVars>> BY DEF Run
<1>2. born' \in [Sessions -> 0..MaxTime] /\ \A t \in Sessions : ns[t] # "absent" => born'[t] = born[t]
  BY DEF Run, RInv, TypeOK
<1>3. TypeOK' BY <1>1, <1>2 DEF RInv, TypeOK, cleanVars
<1>4. RegistryKept' BY <1>1 DEF RInv, RegistryKept
<1>5. \A t \in Sessions : /\ ns[t] # "absent" => ns'[t] # "absent"
                          /\ ns[t] \in {"terminating", "gone"} => ns'[t] \in {"terminating", "gone"}
                          /\ ns[t] = "gone" => ns'[t] = "gone"
  OBVIOUS
<1>6. \A c \in Cleaners : present[c] \subseteq Sessions BY DEF RInv, TypeOK
<1>7. Due'
  <2>1. \A c \in Cleaners : \A t \in targets[c] :
           t \in Sessions /\ ns[t] # "absent" /\ Chosen(c, t) /\ born'[t] = born[t]
    BY <1>2, <1>6 DEF RInv, Due
  <2>2. \A c \in Cleaners : \A t \in targets[c] : Chosen(c, t)'
    BY <1>1, <2>1 DEF Chosen, cleanVars
  <2>. QED BY <1>1, <1>5, <1>6, <2>2 DEF RInv, Due, cleanVars
<1>8. Swept' BY <1>1, <1>5, <1>6 DEF RInv, Swept, Working, cleanVars
<1>. QED BY <1>3, <1>4, <1>7, <1>8 DEF RInv

LEMMA TickStep == RInv /\ Tick => RInv'
<1>. SUFFICES ASSUME RInv, Tick PROVE RInv' OBVIOUS
<1>. USE ReaperAssumption DEF Tick, pvars, cleanVars
<1>1. TypeOK' BY DEF RInv, TypeOK
<1>2. RegistryKept' BY DEF RInv, RegistryKept
<1>3. Due'
  <2>1. now' = now + 1 /\ now \in Int BY DEF RInv, TypeOK
  <2>2. \A s \in Sessions : born[s] \in Int BY DEF RInv, TypeOK
  <2>3. \A c \in Cleaners : cargs[c].older \in Int BY DEF RInv, TypeOK, Args
  <2>4. \A c \in Cleaners : \A s \in targets[c] : s \in Sessions /\ Chosen(c, s)
    BY DEF RInv, Due, TypeOK
  <2>5. \A c \in Cleaners : \A s \in targets[c] : Chosen(c, s)'
    BY <2>1, <2>2, <2>3, <2>4 DEF Chosen
  <2>. QED BY <2>5 DEF RInv, Due
<1>4. Swept' BY DEF RInv, Swept, Working
<1>. QED BY <1>1, <1>2, <1>3, <1>4 DEF RInv

LEMMA SelectStep == ASSUME RInv, NEW c \in Cleaners, Select(c) PROVE RInv'
<1>. USE ReaperAssumption
<1>. DEFINE here == InCluster \cap Sessions
<1>1. UNCHANGED <<pvars, now, born, registry, cargs, cur>> /\ cpc[c] = "idle" BY DEF Select
<1>2. list_sessions = here
  BY DEF list_sessions, InCluster
<1>3. PICK ok \in BOOLEAN :
        LET found == IF ok THEN list_sessions ELSE {}
            chosen == select_for_clean(cargs[c], found)
        IN  /\ missed' = [missed EXCEPT ![c] = ~ok]
            /\ \/ /\ Cardinality(Given(cargs[c])) # 1
                  /\ Exit(c, 2)
                  /\ UNCHANGED targets
               \/ /\ Cardinality(Given(cargs[c])) = 1
                  /\ targets' = [targets EXCEPT ![c] = chosen]
                  /\ \/ chosen = {} /\ Exit(c, 0)
                     \/ /\ chosen # {}
                        /\ \E p \in {"confirm", "deleting"} : GoClean(c, p)
                        /\ UNCHANGED rc
  BY DEF Select
<1>. DEFINE found == IF ok THEN here ELSE {}
            chosen == select_for_clean(cargs[c], found)
<1>4. present' = [present EXCEPT ![c] = here] BY DEF Select
<1>5. chosen \subseteq here BY DEF select_for_clean
<1>6. \A s \in here : ns[s] \in {"active", "terminating"} /\ s \in Sessions
  BY DEF InCluster
<1>7. \A s \in chosen : Chosen(c, s)
  BY <1>6 DEF select_for_clean, Chosen, Age
<1>8. cargs[c].all => chosen = found BY DEF select_for_clean
<1>9. missed' = [missed EXCEPT ![c] = ~ok]
  BY <1>3
<1>10. \/ /\ Cardinality(Given(cargs[c])) # 1 /\ UNCHANGED targets
          /\ cpc' = [cpc EXCEPT ![c] = "done"] /\ rc' = [rc EXCEPT ![c] = 2]
       \/ /\ Cardinality(Given(cargs[c])) = 1 /\ targets' = [targets EXCEPT ![c] = chosen]
          /\ chosen = {}
          /\ cpc' = [cpc EXCEPT ![c] = "done"] /\ rc' = [rc EXCEPT ![c] = 0]
       \/ /\ Cardinality(Given(cargs[c])) = 1 /\ targets' = [targets EXCEPT ![c] = chosen]
          /\ \E p \in {"confirm", "deleting"} : cpc' = [cpc EXCEPT ![c] = p]
          /\ UNCHANGED rc
  BY <1>2, <1>3 DEF Exit, GoClean
<1>. HIDE DEF here, found, chosen
<1>11. here \subseteq Sessions /\ chosen \subseteq Sessions BY <1>5, <1>6
<1>12. TypeOK'
  <2>1. present' \in [Cleaners -> SUBSET Sessions] BY <1>4, <1>11 DEF RInv, TypeOK
  <2>2. targets' \in [Cleaners -> SUBSET (Sessions \cup {Registry})]
    BY <1>10, <1>11 DEF RInv, TypeOK
  <2>3. cpc' \in [Cleaners -> {"idle", "confirm", "deleting", "waiting", "done"}]
    BY <1>10 DEF RInv, TypeOK
  <2>4. rc' \in [Cleaners -> {0, 1, 2, 99, 130}] BY <1>10 DEF RInv, TypeOK
  <2>5. missed' \in [Cleaners -> BOOLEAN] BY <1>9 DEF RInv, TypeOK
  <2>6. \A d \in Cleaners : cpc'[d] = "waiting" =>
           cargs'[d].wait /\ cur'[d] \in present'[d] \ targets'[d]
    <3>1. cpc'[c] # "waiting" BY <1>10 DEF RInv, TypeOK
    <3>2. \A d \in Cleaners : d # c => /\ targets'[d] = targets[d] /\ present'[d] = present[d]
                                       /\ cpc'[d] = cpc[d]
      BY <1>4, <1>10 DEF RInv, TypeOK
    <3>. QED BY <1>1, <3>1, <3>2 DEF RInv, TypeOK
  <2>. QED BY <1>1, <2>1, <2>2, <2>3, <2>4, <2>5, <2>6 DEF RInv, TypeOK, pvars
<1>13. RegistryKept' BY <1>1 DEF RInv, RegistryKept
<1>14. cur[c] = NoOne BY <1>1 DEF RInv, Due
<1>15. targets'[c] \in {{}, chosen} /\ present'[c] = here
  BY <1>1, <1>4, <1>10 DEF RInv, Due, TypeOK
<1>16. \A d \in Cleaners : d # c => /\ targets'[d] = targets[d] /\ present'[d] = present[d]
                                    /\ cpc'[d] = cpc[d] /\ rc'[d] = rc[d] /\ missed'[d] = missed[d]
  BY <1>4, <1>9, <1>10 DEF RInv, TypeOK
<1>17. \A d \in Cleaners : \A s : Chosen(d, s)' <=> Chosen(d, s) BY <1>1 DEF Chosen
<1>18. targets'[c] # {} => Cardinality(Given(cargs[c])) = 1 /\ targets'[c] = chosen
  BY <1>1, <1>10, <1>15 DEF RInv, Due, TypeOK
<1>19. cpc'[c] \in {"confirm", "deleting", "done"} BY <1>10 DEF RInv, TypeOK
<1>20. Due'
  <2>1. \A s \in present'[c] : ns'[s] # "absent" BY <1>1, <1>6, <1>15 DEF pvars
  <2>2. targets'[c] \subseteq present'[c] BY <1>5, <1>15
  <2>3. \A s \in targets'[c] : Cardinality(Given(cargs'[c])) = 1 /\ Chosen(c, s)'
    BY <1>1, <1>7, <1>17, <1>18
  <2>4. cur'[c] = NoOne BY <1>1, <1>14
  <2>. QED BY <1>1, <1>16, <1>17, <1>19, <2>1, <2>2, <2>3, <2>4 DEF RInv, Due, pvars
<1>21. Swept'
  <2>1. rc'[c] # 99 => cpc'[c] = "done"
    BY <1>1, <1>10 DEF RInv, Swept, TypeOK
  <2>2. rc'[c] = 0 => targets'[c] = {}
    <3>1. rc[c] = 99 BY <1>1 DEF RInv, Swept
    <3>. QED BY <1>10, <1>15, <3>1 DEF RInv, TypeOK
  <2>3. ASSUME Working(c)', cargs'[c].all, ~missed'[c] PROVE present'[c] = targets'[c]
    <3>1. ok BY <1>9, <2>3, ZenonT(40) DEF RInv, TypeOK
    <3>2. chosen = here BY <1>1, <1>8, <2>3, <3>1 DEF found
    <3>3. rc'[c] # 2 /\ (cpc'[c] # "done" \/ rc'[c] = 0)
      BY <1>10, <2>1, <2>3 DEF Working, RInv, TypeOK
    <3>4. targets'[c] = chosen BY <1>10, <3>3 DEF RInv, TypeOK
    <3>. QED BY <1>15, <3>2, <3>4
  <2>. QED BY <1>1, <1>16, <2>1, <2>2, <2>3 DEF RInv, Swept, Working, pvars
<1>. QED BY <1>12, <1>13, <1>20, <1>21 DEF RInv

LEMMA QuietStep ==
    ASSUME RInv, NEW c \in Cleaners,
           Confirm(c) \/ CleanWaited(c) \/ CleanDone(c) \/ Interrupt(c)
    PROVE  RInv'
<1>. USE ReaperAssumption DEF GoClean, Exit
<1>1. UNCHANGED <<pvars, now, born, registry, cargs, present, targets, missed>>
  BY DEF Confirm, CleanWaited, CleanDone, Interrupt
<1>2. TypeOK' BY <1>1 DEF RInv, TypeOK, pvars, Confirm, CleanWaited, CleanDone, Interrupt
<1>3. RegistryKept' BY <1>1 DEF RInv, RegistryKept
<1>4. \A d \in Cleaners : \A s : Chosen(d, s)' <=> Chosen(d, s) BY <1>1 DEF Chosen
<1>5. cpc[c] # "idle" /\ cpc'[c] # "idle" /\ cpc'[c] # "waiting"
  BY DEF RInv, TypeOK, Confirm, CleanWaited, CleanDone, Interrupt
<1>6. \A d \in Cleaners : d # c => cpc'[d] = cpc[d] /\ cur'[d] = cur[d] /\ rc'[d] = rc[d]
  BY DEF RInv, TypeOK, Confirm, CleanWaited, CleanDone, Interrupt
<1>7. cur'[c] # NoOne => cpc'[c] = "done"
  BY DEF RInv, TypeOK, Due, Confirm, CleanWaited, CleanDone, Interrupt
<1>8. Due' BY <1>1, <1>4, <1>5, <1>6, <1>7 DEF RInv, Due, pvars
<1>9. Swept'
  <2>1. cpc[c] \in {"confirm", "deleting", "waiting"} /\ rc[c] = 99
    BY DEF RInv, Swept, TypeOK, Confirm, CleanWaited, CleanDone, Interrupt
  <2>2. rc'[c] # 99 => cpc'[c] = "done"
    BY <2>1 DEF RInv, TypeOK, Confirm, CleanWaited, CleanDone, Interrupt
  <2>3. rc'[c] = 0 => targets[c] = {}
    BY <2>1 DEF RInv, TypeOK, Confirm, CleanWaited, CleanDone, Interrupt
  <2>4. ASSUME cargs[c].all, ~missed[c], NEW s \in present[c] \ targets[c]
        PROVE  ns[s] \in {"terminating", "gone"} /\ (cargs[c].wait => ns[s] = "gone"
                 \/ (cpc[c] = "waiting" /\ cur[c] = s))
    BY <2>1, <2>4 DEF RInv, Swept, Working
  <2>5. ASSUME cargs[c].all, ~missed[c], Working(c)', NEW s \in present[c] \ targets[c], cargs[c].wait
        PROVE  ns[s] = "gone"
    <3>1. CASE Confirm(c) \/ CleanDone(c) BY <2>4, <2>5, <3>1 DEF Confirm, CleanDone
    <3>2. CASE CleanWaited(c)
      <4>1. s \in Sessions BY <2>5 DEF RInv, TypeOK
      <4>. QED BY <2>4, <2>5, <3>2, <4>1 DEF CleanWaited
    <3>3. CASE Interrupt(c)
      BY <2>5, <3>3 DEF Interrupt, Working, RInv, TypeOK
    <3>. QED BY <3>1, <3>2, <3>3
  <2>6. \A d \in Cleaners : d # c => (Working(d)' <=> Working(d)) BY <1>6 DEF Working
  <2>. QED BY <1>1, <1>6, <2>2, <2>3, <2>4, <2>5, <2>6 DEF RInv, Swept, pvars
<1>. QED BY <1>2, <1>3, <1>8, <1>9 DEF RInv

(* A target is a session, and a delete moves it from active to terminating *)
(* or leaves everything as it was.                                         *)
LEMMA DeleteMoves ==
    ASSUME RInv, NEW c \in Cleaners, NEW n \in targets[c], DeleteNs(n)
    PROVE  /\ n \in Sessions /\ UNCHANGED <<stage, complete, registry>>
           /\ ns' = [ns EXCEPT ![n] = IF @ = "active" THEN "terminating" ELSE @]
<1>1. n \in Sessions BY DEF RInv, Due, TypeOK
<1>. QED BY <1>1, ReaperAssumption DEF DeleteNs

LEMMA DeleteStep == ASSUME RInv, NEW c \in Cleaners, CleanDelete(c) PROVE RInv'
<1>. USE ReaperAssumption
<1>1. PICK n \in targets[c] :
         /\ targets' = [targets EXCEPT ![c] = @ \ {n}]
         /\ \/ /\ DeleteNs(n)
               /\ IF cargs[c].wait
                  THEN GoClean(c, "waiting") /\ cur' = [cur EXCEPT ![c] = n]
                  ELSE UNCHANGED <<cpc, cur>>
               /\ UNCHANGED missed
            \/ /\ missed' = [missed EXCEPT ![c] = TRUE]
               /\ UNCHANGED <<pvars, registry, cpc, cur>>
  BY DEF CleanDelete
<1>2. UNCHANGED <<now, born, cargs, present, rc>> /\ cpc[c] = "deleting" BY DEF CleanDelete
<1>3. n \in Sessions /\ n \in present[c] /\ ns[n] # "absent" BY DEF RInv, Due, TypeOK
<1>4. /\ UNCHANGED <<stage, complete, registry>>
      /\ ns' = ns \/ ns' = [ns EXCEPT ![n] = IF @ = "active" THEN "terminating" ELSE @]
  BY <1>1, DeleteMoves DEF pvars
<1>5. ns' \in [Sessions -> NsStates]
      /\ \A t \in Sessions : /\ ns[t] # "absent" => ns'[t] # "absent"
                             /\ ns[t] \in {"terminating", "gone"} => ns'[t] = ns[t]
  BY <1>4 DEF RInv, TypeOK, NsStates
<1>6. \/ missed' = [missed EXCEPT ![c] = TRUE] /\ UNCHANGED <<cpc, cur>>
      \/ missed' = missed /\ ~cargs[c].wait /\ UNCHANGED <<cpc, cur>>
      \/ missed' = missed /\ cargs[c].wait /\ cpc' = [cpc EXCEPT ![c] = "waiting"]
         /\ cur' = [cur EXCEPT ![c] = n]
  BY <1>1 DEF GoClean
<1>7. targets' = [targets EXCEPT ![c] = @ \ {n}] BY <1>1
<1>8. TypeOK'
  <2>1. targets' \in [Cleaners -> SUBSET (Sessions \cup {Registry})]
    BY <1>7 DEF RInv, TypeOK
  <2>2. missed' \in [Cleaners -> BOOLEAN]
    <3>1. missed' = missed \/ missed' = [missed EXCEPT ![c] = TRUE] BY <1>6
    <3>2. missed \in [Cleaners -> BOOLEAN] BY DEF RInv, TypeOK
    <3>. QED BY <3>1, <3>2
  <2>3. cpc' \in [Cleaners -> {"idle", "confirm", "deleting", "waiting", "done"}]
    BY <1>6 DEF RInv, TypeOK
  <2>4. cur' \in [Cleaners -> Sessions \cup {Registry, NoOne}]
    BY <1>3, <1>6 DEF RInv, TypeOK
  <2>5. \A d \in Cleaners : cpc'[d] = "waiting" =>
           cargs'[d].wait /\ cur'[d] \in present'[d] \ targets'[d]
    <3>1. targets'[c] = targets[c] \ {n} BY <1>7 DEF RInv, TypeOK
    <3>2. cpc'[c] = "waiting" => cargs[c].wait /\ cur'[c] = n
      BY <1>2, <1>6 DEF RInv, TypeOK
    <3>3. \A d \in Cleaners : d # c => /\ cpc'[d] = cpc[d] /\ cur'[d] = cur[d]
                                       /\ targets'[d] = targets[d]
      BY <1>6, <1>7 DEF RInv, TypeOK
    <3>. QED BY <1>2, <1>3, <3>1, <3>2, <3>3 DEF RInv, TypeOK
  <2>. QED BY <1>2, <1>4, <1>5, <2>1, <2>2, <2>3, <2>4, <2>5 DEF RInv, TypeOK
<1>9. RegistryKept' BY <1>4 DEF RInv, RegistryKept
<1>10. \A d \in Cleaners : \A s : Chosen(d, s)' <=> Chosen(d, s) BY <1>2 DEF Chosen
<1>11. \A d \in Cleaners : present[d] \subseteq Sessions /\ targets'[d] \subseteq targets[d]
  BY <1>7 DEF RInv, TypeOK
<1>12. \A d \in Cleaners : d # c => /\ cpc'[d] = cpc[d] /\ cur'[d] = cur[d]
                                    /\ missed'[d] = missed[d] /\ targets'[d] = targets[d]
  BY <1>6, <1>7 DEF RInv, TypeOK
<1>13. Due'
  <2>1. cpc'[c] \in {"deleting", "waiting"} BY <1>2, <1>6 DEF RInv, TypeOK
  <2>2. cur'[c] # NoOne => cpc'[c] = "waiting" /\ cur'[c] \in Sessions
    BY <1>2, <1>3, <1>6 DEF RInv, TypeOK, Due
  <2>. QED BY <1>2, <1>5, <1>10, <1>11, <1>12, <2>1, <2>2 DEF RInv, Due
<1>14. Swept'
  <2>1. rc[c] = 99 /\ Working(c) BY <1>2 DEF RInv, Swept, Working
  <2>2. ASSUME cargs[c].all, ~missed'[c], NEW s \in present[c] \ targets'[c]
        PROVE  /\ ns'[s] \in {"terminating", "gone"}
               /\ cargs[c].wait => ns'[s] = "gone" \/ (cpc'[c] = "waiting" /\ cur'[c] = s)
    <3>1. ~missed[c] /\ missed' = missed BY <1>6, <2>2 DEF RInv, TypeOK
    <3>2. ns' = [ns EXCEPT ![n] = IF @ = "active" THEN "terminating" ELSE @]
      BY <1>1, <2>2, DeleteMoves DEF RInv, TypeOK
    <3>3. cargs[c].wait => cpc'[c] = "waiting" /\ cur'[c] = n
      BY <1>6, <2>2 DEF RInv, TypeOK
    <3>4. CASE s = n
      BY <1>3, <3>2, <3>3, <3>4 DEF RInv, TypeOK, NsStates
    <3>5. CASE s # n
      <4>1. s \in present[c] \ targets[c] /\ s \in Sessions BY <1>7, <2>2, <3>5 DEF RInv, TypeOK
      <4>2. ns[s] \in {"terminating", "gone"} /\ (cargs[c].wait => ns[s] = "gone")
        BY <1>2, <2>1, <2>2, <3>1, <4>1 DEF RInv, Swept
      <4>. QED BY <1>5, <4>1, <4>2
    <3>. QED BY <3>4, <3>5
  <2>3. \A d \in Cleaners : d # c => (Working(d)' <=> Working(d)) BY <1>2, <1>12 DEF Working
  <2>. QED BY <1>2, <1>5, <1>11, <1>12, <2>1, <2>2, <2>3 DEF RInv, Swept
<1>. QED BY <1>8, <1>9, <1>13, <1>14 DEF RInv

LEMMA Inductive == Spec => []RInv
<1>1. ASSUME RInv, [Next]_rvars PROVE RInv'
  <2>1. CASE Tick BY <1>1, <2>1, TickStep
  <2>2. ASSUME NEW s \in Sessions, Run(s) PROVE RInv' BY <1>1, <2>2, RunStep
  <2>3. ASSUME NEW c \in Cleaners, Clean(c) PROVE RInv'
    BY <1>1, <2>3, SelectStep, QuietStep, DeleteStep DEF Clean, Deleting
  <2>4. CASE UNCHANGED rvars
    BY <1>1, <2>4 DEF rvars, pvars, cleanVars, RInv, TypeOK, RegistryKept, Due, Swept, Working, Chosen
  <2>. QED BY <1>1, <2>1, <2>2, <2>3, <2>4 DEF Next
<1>. QED BY RInit, <1>1, PTL DEF Spec

(* Every variable keeps its type, and a cleaner waits only when --wait     *)
(* says so, for a namespace it listed and has already taken off its list   *)
(* (reaper.cmd_clean), whatever the others do meanwhile.                   *)
THEOREM TypeCorrect == Spec => []TypeOK
BY Inductive, PTL DEF RInv

(* clean never deletes the registry's namespace, whatever its selectors    *)
(* name (list_sessions drops it), README.md:213.                           *)
THEOREM RegistryIsKept == Spec => []RegistryKept
BY Inductive, PTL DEF RInv

(* A `clean --all` that reports success, and whose calls all worked, left  *)
(* no namespace of its listing alive (reaper.cmd_clean), however the runs  *)
(* and other cleaners moved meanwhile.                                     *)
THEOREM SweepIsComplete == Spec => []SweepComplete
<1>1. RInv => SweepComplete
  <2>. SUFFICES ASSUME RInv, NEW c \in Cleaners, rc[c] = 0, ~missed[c], cargs[c].all,
                       NEW s \in present[c]
                PROVE  ns[s] \in {"terminating", "gone"} /\ (cargs[c].wait => ns[s] = "gone")
    BY DEF SweepComplete
  <2>. QED BY DEF RInv, Swept, Working
<1>. QED BY Inductive, <1>1, PTL

(* A namespace that a cleaner takes down is due under its one selector and *)
(* existed at its listing, however old the listing is (cmd_clean lists     *)
(* once, and asks before it deletes).                                      *)
THEOREM DueOnly == Spec => OnlyDueDeleted
<1>. DEFINE Step == \A c \in Cleaners, s \in Sessions :
          targets'[c] = targets[c] \ {s} /\ s \in targets[c] /\ ns'[s] # ns[s]
          => /\ Cardinality(Given(cargs[c])) = 1
             /\ s \in present[c]
             /\ \/ cargs[c].all
                \/ cargs[c].older # NotGiven /\ now - born[s] >= cargs[c].older
                \/ s \in cargs[c].ids
<1>1. RInv => Step BY DEF RInv, Due, Chosen
<1>2. Spec => [][Step]_rvars BY Inductive, <1>1, PTL
<1>. QED BY <1>2 DEF OnlyDueDeleted
=============================================================================
