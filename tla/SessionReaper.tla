--------------------------- MODULE SessionReaper ---------------------------
(***************************************************************************)
(* `agent-uplink clean` (reaper.cmd_clean) beside the runs whose           *)
(* namespaces it deletes.  The runs are those of SessionPromise; a cleaner *)
(* is one invocation of the command.  It lists the namespaces once, asks,  *)
(* and then deletes one after the other: everything it does after the      *)
(* listing rests on a snapshot that the runs may have outdated.            *)
(***************************************************************************)
EXTENDS SessionPromise, Integers, FiniteSets

CONSTANTS
    Cleaners,   \* invocations of clean
    Registry,   \* the long-lived registry namespace
    Invocations,\* the argument combinations tried, see Args
    MaxTime     \* bound: ticks of the clock

(* A selector that is not given: older = NotGiven, ids = {}, all = FALSE.  *)
(* A duration of 0 is given.                                               *)
NotGiven == 99
Args == [all : BOOLEAN, older : Nat, ids : SUBSET (Sessions \cup {Registry}),
         wait : BOOLEAN]

ASSUME ReaperAssumption ==
    /\ Registry \notin Sessions
    /\ Invocations \subseteq Args
    /\ MaxTime \in Nat

VARIABLES
    now,       \* the clock, the same for the host and the cluster
    born,      \* creationTimestamp of each namespace
    registry,  \* the registry namespace, which may carry the label too
    cpc,       \* where each cleaner stands
    cargs,     \* its arguments
    present,   \* history: the session namespaces that existed at its listing
    targets,   \* targets still to delete
    cur,       \* with --wait, the target being waited for
    rc,        \* its exit code
    missed     \* history: its listing or one of its deletes failed

cleanVars == <<cpc, cargs, present, targets, cur, rc, missed>>
rvars == <<pvars, now, born, registry, cleanVars>>

NoOne == "none"

Init ==
    /\ PInit
    /\ now = 0
    /\ born = [s \in Sessions |-> 0]
    /\ registry = "active"
    /\ cpc = [c \in Cleaners |-> "idle"]
    /\ cargs \in [Cleaners -> Invocations]
    /\ present = [c \in Cleaners |-> {}]
    /\ targets = [c \in Cleaners |-> {}]
    /\ cur = [c \in Cleaners |-> NoOne]
    /\ rc = [c \in Cleaners |-> 99]
    /\ missed = [c \in Cleaners |-> FALSE]

-----------------------------------------------------------------------------
(* The runs and the clock.                                                 *)

Run(s) ==
    /\ RunOf(s)
    /\ born' = [born EXCEPT ![s] =
                  IF ns[s] = "absent" /\ ns'[s] = "active" THEN now ELSE @]
    /\ UNCHANGED <<now, registry, cleanVars>>

Tick ==
    /\ now < MaxTime
    /\ now' = now + 1
    /\ UNCHANGED <<pvars, born, registry, cleanVars>>

-----------------------------------------------------------------------------
(* clean.                                                                  *)

Age(n) == IF n \in Sessions THEN now - born[n] ELSE now

InCluster ==
    {s \in Sessions : ns[s] \in {"active", "terminating"}} \cup
    (IF registry = "active" THEN {Registry} ELSE {})

(* Mutant: the registry namespace is listed like a session.                *)
Mut_list_sessions == InCluster

list_sessions == InCluster \ {Registry}

Given(a) == {x \in {"all", "older", "ids"} :
                \/ x = "all" /\ a.all
                \/ x = "older" /\ a.older # NotGiven
                \/ x = "ids" /\ a.ids # {}}

(* Mutants: the age test inverted; --all passes over the newest.           *)
Mut_select_Younger(a, found) ==
    IF a.all THEN found
    ELSE IF a.older # NotGiven THEN {n \in found : Age(n) <= a.older}
    ELSE found \cap a.ids

Mut_select_SkipDying(a, found) ==
    IF a.all THEN {n \in found : Age(n) > 0}
    ELSE IF a.older # NotGiven THEN {n \in found : Age(n) >= a.older}
    ELSE found \cap a.ids

select_for_clean(a, found) ==
    IF a.all THEN found
    ELSE IF a.older # NotGiven THEN {n \in found : Age(n) >= a.older}
    ELSE found \cap a.ids

GoClean(c, p) == cpc' = [cpc EXCEPT ![c] = p]

Exit(c, r) == GoClean(c, "done") /\ rc' = [rc EXCEPT ![c] = r]

(* Listing and selection.  A failed lookup is an empty listing.  Anything  *)
(* but exactly one selector is refused with exit code 2; --yes skips the   *)
(* prompt.                                                                 *)
Select(c) ==
    /\ cpc[c] = "idle"
    /\ present' = [present EXCEPT ![c] = InCluster \cap Sessions]
    /\ \E ok \in BOOLEAN :
         LET found == IF ok THEN list_sessions ELSE {}
             chosen == select_for_clean(cargs[c], found)
         IN  /\ missed' = [missed EXCEPT ![c] = ~ok]
             /\ \/ /\ Cardinality(Given(cargs[c])) # 1
                   /\ Exit(c, 2)
                   /\ UNCHANGED targets
                \/ /\ Cardinality(Given(cargs[c])) = 1
                   /\ targets' = [targets EXCEPT ![c] = chosen]
                   /\ \/ chosen = {} /\ Exit(c, 0)
                      \/ /\ chosen # {}
                         /\ \E p \in {"confirm", "deleting"} : GoClean(c, p)
                         /\ UNCHANGED rc
    /\ UNCHANGED <<pvars, now, born, registry, cargs, cur>>

(* The prompt: yes, or anything else and end of input.                     *)
Confirm(c) ==
    /\ cpc[c] = "confirm"
    /\ \/ GoClean(c, "deleting") /\ UNCHANGED rc
       \/ Exit(c, 1)
    /\ UNCHANGED <<pvars, now, born, registry, cargs, present, targets, cur, missed>>

(* kubectl delete namespace --ignore-not-found, oldest target first.       *)
DeleteNs(n) ==
    IF n = Registry
    THEN registry' = "terminating" /\ UNCHANGED pvars
    ELSE /\ ns' = [ns EXCEPT ![n] = IF @ = "active" THEN "terminating" ELSE @]
         /\ UNCHANGED <<stage, complete, registry>>

(* Mutant: --wait also waits for a namespace whose delete failed.          *)
Mut_CleanDelete(c) ==
    /\ cpc[c] = "deleting"
    /\ \E n \in targets[c] :
         /\ targets' = [targets EXCEPT ![c] = @ \ {n}]
         /\ \/ DeleteNs(n) /\ UNCHANGED missed
            \/ /\ missed' = [missed EXCEPT ![c] = TRUE]
               /\ UNCHANGED <<pvars, registry>>
         /\ IF cargs[c].wait
            THEN GoClean(c, "waiting") /\ cur' = [cur EXCEPT ![c] = n]
            ELSE UNCHANGED <<cpc, cur>>
    /\ UNCHANGED <<now, born, cargs, present, rc>>

(* Mutant: kubectl gets no --wait=false, and its default is to wait.       *)
Mut_CleanDelete_AlwaysWaits(c) ==
    /\ cpc[c] = "deleting"
    /\ \E n \in targets[c] :
         /\ \A m \in targets[c] : Age(n) >= Age(m)
         /\ targets' = [targets EXCEPT ![c] = @ \ {n}]
         /\ \/ /\ DeleteNs(n)
               /\ GoClean(c, "waiting")
               /\ cur' = [cur EXCEPT ![c] = n]
               /\ UNCHANGED missed
            \/ /\ missed' = [missed EXCEPT ![c] = TRUE]
               /\ UNCHANGED <<pvars, registry, cpc, cur>>
    /\ UNCHANGED <<now, born, cargs, present, rc>>

CleanDelete(c) ==
    /\ cpc[c] = "deleting"
    /\ \E n \in targets[c] :
         /\ \A m \in targets[c] : Age(n) >= Age(m)
         /\ targets' = [targets EXCEPT ![c] = @ \ {n}]
         /\ \/ /\ DeleteNs(n)
               /\ IF cargs[c].wait
                  THEN GoClean(c, "waiting") /\ cur' = [cur EXCEPT ![c] = n]
                  ELSE UNCHANGED <<cpc, cur>>
               /\ UNCHANGED missed
            \/ /\ missed' = [missed EXCEPT ![c] = TRUE]
               /\ UNCHANGED <<pvars, registry, cpc, cur>>
    /\ UNCHANGED <<now, born, cargs, present, rc>>

CleanWaited(c) ==
    /\ cpc[c] = "waiting"
    /\ cur[c] \in Sessions => ns[cur[c]] = "gone"
    /\ GoClean(c, "deleting")
    /\ cur' = [cur EXCEPT ![c] = NoOne]
    /\ UNCHANGED <<pvars, now, born, registry, cargs, present, targets, rc, missed>>

CleanDone(c) ==
    /\ cpc[c] = "deleting"
    /\ targets[c] = {}
    /\ Exit(c, 0)
    /\ UNCHANGED <<pvars, now, born, registry, cargs, present, targets, cur, missed>>

(* Ctrl-C: clean installs no handler.                                      *)
Interrupt(c) ==
    /\ cpc[c] \in {"confirm", "deleting", "waiting"}
    /\ Exit(c, 130)
    /\ UNCHANGED <<pvars, now, born, registry, cargs, present, targets, cur, missed>>

Deleting(c) == CleanDelete(c) \/ CleanWaited(c) \/ CleanDone(c)

Clean(c) == Select(c) \/ Confirm(c) \/ Deleting(c) \/ Interrupt(c)

Next ==
    \/ Tick
    \/ \E s \in Sessions : Run(s)
    \/ \E c \in Cleaners : Clean(c)

(* A confirmed clean goes on by itself; the prompt may wait for ever.      *)
Spec == Init /\ [][Next]_rvars
FairSpec ==
    /\ Spec
    /\ \A c \in Cleaners : WF_rvars(Deleting(c))
    /\ \A s \in Sessions : WF_rvars(Run(s) /\ Collapse(s))

-----------------------------------------------------------------------------
(* Properties.                                                             *)

(* Every variable keeps its type, and a cleaner hangs in a delete only     *)
(* under --wait, on a namespace of its listing that it has ticked off      *)
(* (cmd_clean hands --wait to every delete_namespace).                     *)
TypeOK ==
    /\ stage \in [Sessions -> Stages]
    /\ ns \in [Sessions -> NsStates]
    /\ complete \in [Sessions -> BOOLEAN]
    /\ now \in 0..MaxTime
    /\ born \in [Sessions -> 0..MaxTime]
    /\ registry \in {"active", "terminating"}
    /\ cpc \in [Cleaners -> {"idle", "confirm", "deleting", "waiting", "done"}]
    /\ cargs \in [Cleaners -> Invocations]
    /\ present \in [Cleaners -> SUBSET Sessions]
    /\ targets \in [Cleaners -> SUBSET (Sessions \cup {Registry})]
    /\ cur \in [Cleaners -> Sessions \cup {Registry, NoOne}]
    /\ rc \in [Cleaners -> {0, 1, 2, 99, 130}]
    /\ missed \in [Cleaners -> BOOLEAN]
    /\ \A c \in Cleaners : cpc[c] = "waiting" =>
          cargs[c].wait /\ cur[c] \in present[c] \ targets[c]

(* README.md:213: the registry namespace is never a target, whatever the   *)
(* selectors name and even if it carries the sessions' label.              *)
RegistryKept == registry = "active"

(* A namespace that a cleaner takes down was asked for by its one selector *)
(* at the moment it goes, though the selection was made on an earlier      *)
(* listing: it is old enough, or named, and it existed at the listing, so  *)
(* a run deployed after it is spared.                                      *)
OnlyDueDeleted ==
    [][\A c \in Cleaners, s \in Sessions :
          targets'[c] = targets[c] \ {s} /\ s \in targets[c] /\ ns'[s] # ns[s]
          => /\ Cardinality(Given(cargs[c])) = 1
             /\ s \in present[c]
             /\ \/ cargs[c].all
                \/ cargs[c].older # NotGiven /\ now - born[s] >= cargs[c].older
                \/ s \in cargs[c].ids]_rvars

(* A `clean --all` whose calls all worked and that reports success leaves  *)
(* no namespace alive that existed when it listed, and none at all when it *)
(* was told to wait; the leftovers of killed runs are among them.          *)
SweepComplete ==
    \A c \in Cleaners :
       rc[c] = 0 /\ ~missed[c] /\ cargs[c].all
       => \A s \in present[c] : /\ ns[s] \in {"terminating", "gone"}
                                /\ cargs[c].wait => ns[s] = "gone"

(* A confirmed clean comes to an end, with --wait too, even when the       *)
(* deletes fail.                                                           *)
CleanEnds == \A c \in Cleaners : cpc[c] = "deleting" ~> cpc[c] = "done"
=============================================================================
