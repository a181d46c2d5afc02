------------------------ MODULE SshPerimeter_proofs ------------------------
(***************************************************************************)
(* Theorems about SshPerimeter, for every input, set of CIDRs and number   *)
(* of refused documents and crashes.  PerimeterIsTheTable: once a pod is   *)
(* applied the four policies are (Ordered, PoliciesFirst), and what they   *)
(* admit together is the table.  KeysStayHeld: the holder's container has  *)
(* no key that prepare did not split off (Held).                           *)
(***************************************************************************)
EXTENDS SshPerimeter, SequenceTheorems, TLAPS

Later == {"mitm", "holder", "agent", "attached", "ended"}

Ordered ==
    /\ pc \in {"validate", "prepare", "apply", "failed"} \cup Later
    /\ next \in 1..(Len(Documents) + 1)
    /\ applied \cup refused = {Documents[i] : i \in 1..(next - 1)}
    /\ pc \in {"validate", "prepare"} => next = 1
    /\ pc \in Later => refused = {} /\ next = Len(Documents) + 1

Known ==
    /\ input \in Inputs
    /\ pc \in {"prepare", "apply"} \cup Later \/ next > 1 => input.cidrs \subseteq Cidrs

Split ==
    \/ private = {} /\ agentFiles = <<>>
    \/ /\ private = PrivateKeys(input.files) /\ ~Unusable(private)
       /\ agentFiles = AgentFiles(input.files)
       /\ private # {} /\ pc \notin {"validate", "prepare"}

Stages == {"down", "script", "adding", "serving"}

Held ==
    /\ holder \in [ctr : Stages, sock : BOOLEAN, alive : BOOLEAN, left : SUBSET private,
                   loaded : SUBSET private, added : BOOLEAN]
    /\ \A f \in holder.loaded : f.loads
    /\ pc \in {"agent", "attached", "ended"} /\ Relayed => \E f \in private : f.loads

SInv == Ordered /\ Known /\ Split /\ Held

(* Len(Documents) and what is at which place.                              *)
LEMMA DocumentsAre ==
    /\ Relayed => Len(Documents) = 9
    /\ ~Relayed => Len(Documents) = 5
BY DEF Documents

LEMMA InvInit == Init => SInv
<1>. SUFFICES ASSUME Init PROVE SInv OBVIOUS
<1>1. Ordered BY DocumentsAre DEF Init, Ordered, Later
<1>2. Known BY DEF Init, Known, Later
<1>3. Split BY DEF Init, Split
<1>4. Held BY DEF Init, Held, NoHolder, Relayed, Stages
<1>. QED BY <1>1, <1>2, <1>3, <1>4 DEF SInv

LEMMA OrderedStep == SInv /\ [Next]_vars => Ordered'
<1>. SUFFICES ASSUME SInv, [Next]_vars PROVE Ordered' OBVIOUS
<1>. USE DEF SInv
<1>1. CASE validate_ssh_args
  BY <1>1 DEF validate_ssh_args, Ordered, Later, Documents, Relayed, plan, cluster
<1>2. CASE prepare
  <2>1. next = 1 /\ applied = {} /\ refused = {} BY <1>2 DEF prepare, Ordered
  <2>2. next' = 1 /\ applied' = {} /\ refused' = {} BY <1>2, <2>1 DEF prepare, cluster
  <2>3. pc' \in {"apply", "failed"} BY <1>2 DEF prepare
  <2>. QED BY <2>2, <2>3, DocumentsAre DEF Ordered, Later, Documents
<1>3. CASE ApplyDocument
  <2>1. Documents' = Documents /\ pc' = "apply" /\ next' = next + 1 /\ next <= Len(Documents)
    BY <1>3 DEF ApplyDocument, Documents, Relayed, plan
  <2>2. (applied \cup refused)' = applied \cup refused \cup {Documents[next]}
    BY <1>3 DEF ApplyDocument
  <2>3. Len(Documents) \in Nat BY DocumentsAre
  <2>4. 1..(next' - 1) = 1..(next - 1) \cup {next} BY <2>1, <2>3 DEF Ordered
  <2>. QED BY <2>1, <2>2, <2>3, <2>4 DEF Ordered, Later
<1>4. CASE Applied
  <2>1. Documents' = Documents BY <1>4 DEF Applied, Documents, Relayed, plan
  <2>. QED BY <1>4, <2>1, DocumentsAre DEF Applied, Ordered, Later, plan, cluster
<1>5. CASE WaitForPod \/ Detach
  <2>1. Documents' = Documents BY <1>5 DEF WaitForPod, Detach, Documents, Relayed, plan
  <2>. QED BY <1>5, <2>1 DEF WaitForPod, Detach, Ordered, Later, plan, cluster
<1>6. CASE HolderStep \/ CrashHolder \/ AgentDies \/ RelayStep \/ CrashRelay \/ UNCHANGED vars
  <2>1. UNCHANGED host
    BY <1>6 DEF HolderStep, StartHolder, StartAgent, AddKey, KeysAdded, CrashHolder,
                AgentDies, RelayStep, StartRelay, Listen, CrashRelay, vars, host, plan, cluster
  <2>2. Documents' = Documents BY <2>1 DEF Documents, Relayed, host, plan
  <2>. QED BY <2>1, <2>2 DEF Ordered, host, plan, cluster
<1>. QED BY <1>1, <1>2, <1>3, <1>4, <1>5, <1>6 DEF Next

(* A dropped CIDR check would let the run go on: validate_ssh_args.        *)
LEMMA KnownStep == SInv /\ [Next]_vars => Known'
<1>. SUFFICES ASSUME SInv, [Next]_vars PROVE Known' OBVIOUS
<1>. USE DEF SInv, Known
<1>1. CASE validate_ssh_args
  <2>1. input.cidrs \subseteq Cidrs \cup {BadCidr} BY SshAssumption DEF Input
  <2>. QED BY <1>1, <2>1 DEF validate_ssh_args, Later, Ordered, cluster
<1>2. CASE prepare BY <1>2 DEF prepare, Later, Ordered, cluster
<1>3. CASE ApplyDocument BY <1>3 DEF ApplyDocument, Later
<1>4. CASE Applied \/ WaitForPod \/ Detach
  BY <1>4 DEF Applied, WaitForPod, Detach, Later, cluster
<1>5. CASE HolderStep \/ CrashHolder \/ AgentDies \/ RelayStep \/ CrashRelay \/ UNCHANGED vars
  BY <1>5 DEF HolderStep, StartHolder, StartAgent, AddKey, KeysAdded, CrashHolder,
              AgentDies, RelayStep, StartRelay, Listen, CrashRelay, vars, host, plan, cluster
<1>. QED BY <1>1, <1>2, <1>3, <1>4, <1>5 DEF Next

LEMMA SplitStep == SInv /\ [Next]_vars => Split'
<1>. SUFFICES ASSUME SInv, [Next]_vars PROVE Split' OBVIOUS
<1>. USE DEF SInv, Split
<1>1. CASE prepare
  <2>1. private = {} /\ agentFiles = <<>> BY <1>1 DEF prepare
  <2>2. CASE UNCHANGED plan BY <2>1, <2>2 DEF plan
  <2>3. CASE private' = PrivateKeys(input.files) /\ agentFiles' = AgentFiles(input.files)
             /\ private' # {} /\ ~Unusable(private') /\ pc' = "apply"
    <3>1. input' = input BY <1>1 DEF prepare
    <3>2. ~Unusable(private)'
      BY <2>3, <3>1 DEF Unusable
    <3>. QED BY <2>3, <3>1, <3>2
  <2>4. UNCHANGED plan \/ <2>3!1
    <3>. HIDE DEF Split, SInv
    <3>1. CASE PrivateKeys(input.files) = {} BY <1>1, <3>1 DEF prepare
    <3>2. CASE Unusable(PrivateKeys(input.files)) BY <1>1, <3>2 DEF prepare
    <3>3. CASE PrivateKeys(input.files) # {} /\ ~Unusable(PrivateKeys(input.files))
      <4>1. private' = PrivateKeys(input.files) /\ agentFiles' = AgentFiles(input.files) /\ pc' = "apply"
        BY <1>1, <3>3 DEF prepare
      <4>. QED BY <3>3, <4>1
    <3>. QED BY <3>1, <3>2, <3>3
  <2>. QED BY <2>2, <2>3, <2>4
<1>2. CASE validate_ssh_args \/ ApplyDocument \/ Applied \/ WaitForPod \/ Detach
  <2>1. UNCHANGED <<input, plan>>
    BY <1>2 DEF validate_ssh_args, ApplyDocument, Applied, WaitForPod, Detach
  <2>2. pc \notin {"validate", "prepare"} => pc' \notin {"validate", "prepare"}
    BY <1>2 DEF validate_ssh_args, ApplyDocument, Applied, WaitForPod, Detach
  <2>3. Unusable(private)' <=> Unusable(private) BY <2>1 DEF Unusable, plan
  <2>. QED BY <2>1, <2>2, <2>3 DEF plan
<1>3. CASE HolderStep \/ CrashHolder \/ AgentDies \/ RelayStep \/ CrashRelay \/ UNCHANGED vars
  <2>1. UNCHANGED host
    BY <1>3 DEF HolderStep, StartHolder, StartAgent, AddKey, KeysAdded, CrashHolder,
                AgentDies, RelayStep, StartRelay, Listen, CrashRelay, vars, host, plan, cluster
  <2>2. Unusable(private)' <=> Unusable(private) BY <2>1 DEF Unusable, host, plan
  <2>. QED BY <2>1, <2>2 DEF host, plan
<1>. QED BY <1>1, <1>2, <1>3 DEF Next

LEMMA HeldStep == SInv /\ [Next]_vars => Held'
<1>. SUFFICES ASSUME SInv, [Next]_vars PROVE Held' OBVIOUS
<1>. USE DEF SInv, Held, Stages
<1>1. CASE prepare
  <2>1. private = {} BY <1>1 DEF prepare, Split
  <2>2. holder' = holder /\ pc' \in {"apply", "failed"} BY <1>1 DEF prepare, bridge
  <2>. QED BY <2>1, <2>2
<1>2. CASE WaitForPod
  <2>1. UNCHANGED <<holder, private>> BY <1>2 DEF WaitForPod, bridge, plan
  <2>2. ASSUME pc' \in {"agent", "attached", "ended"}, Relayed' PROVE \E f \in private : f.loads
    <3>1. CASE pc = "holder"
      <4>1. holder.loaded # {} BY <1>2, <2>2, <3>1 DEF WaitForPod, HolderReady
      <4>. QED BY <4>1
    <3>. QED BY <1>2, <2>1, <2>2, <3>1 DEF WaitForPod, Relayed
  <2>. QED BY <2>1, <2>2
<1>3. CASE validate_ssh_args \/ ApplyDocument \/ Applied \/ Detach
  BY <1>3 DEF validate_ssh_args, ApplyDocument, Applied, Detach, bridge, plan, Relayed
<1>4. CASE StartHolder BY <1>4 DEF StartHolder, host, plan, Relayed
<1>5. CASE StartAgent BY <1>5 DEF StartAgent, host, plan, Relayed
<1>6. ASSUME NEW f \in private, AddKey(f) PROVE Held'
  BY <1>6 DEF AddKey, host, plan, Relayed
<1>7. CASE KeysAdded BY <1>7 DEF KeysAdded, host, plan, Relayed
<1>8. CASE CrashHolder \/ AgentDies BY <1>8 DEF CrashHolder, AgentDies, host, plan, Relayed
<1>9. CASE RelayStep \/ CrashRelay \/ UNCHANGED vars
  BY <1>9 DEF RelayStep, StartRelay, Listen, CrashRelay, vars, host, plan, Relayed
<1>. QED BY <1>1, <1>2, <1>3, <1>4, <1>5, <1>6, <1>7, <1>8, <1>9 DEF Next, HolderStep

LEMMA Inductive == Spec => []SInv
<1>1. SInv /\ [Next]_vars => SInv'
  BY OrderedStep, KnownStep, SplitStep, HeldStep DEF SInv
<1>. QED BY InvInit, <1>1, PTL DEF Spec

-----------------------------------------------------------------------------
(* A pod is applied after all policies, and a run that attached had        *)
(* nothing refused.                                                        *)
LEMMA PoliciesFirst ==
    ASSUME SInv, (applied \cap Pods # {} /\ refused \cap PolicyNames = {}) \/ pc = "attached"
    PROVE  applied \cap PolicyNames
             = IF Relayed THEN PolicyNames ELSE PolicyNames \ {"ssh-agent-policy"}
<1>. USE DEF SInv, PolicyNames, Pods
<1>. DEFINE Done == {Documents[i] : i \in 1..(next - 1)}
<1>1. applied \cup refused = Done BY DEF Ordered
<1>2. Done \cap PolicyNames \cap refused = {} BY DEF Ordered, Later
<1>3. CASE Relayed
  <2>1. \A i \in 1..4 : Documents[i] \in PolicyNames BY <1>3 DEF Documents
  <2>2. \A i \in 1..4 : Documents[i] \notin Pods BY <1>3 DEF Documents
  <2>3. next \in Nat /\ (pc = "attached" => next = 10)
    <3>1. Len(Documents) = 9 BY <1>3, DocumentsAre
    <3>. QED BY <3>1 DEF Ordered, Later
  <2>4. next > 4
    <3>1. CASE pc = "attached" BY <2>3, <3>1
    <3>2. CASE applied \cap Pods # {}
      <4>1. PICK i \in 1..(next - 1) : Documents[i] \in Pods BY <1>1, <3>2
      <4>. QED BY <2>2, <2>3, <4>1
    <3>. QED BY <3>1, <3>2
  <2>5. 1 \in 1..(next - 1) /\ 2 \in 1..(next - 1) /\ 3 \in 1..(next - 1) /\ 4 \in 1..(next - 1)
    BY <2>3, <2>4
  <2>6. Documents[1] \in Done /\ Documents[2] \in Done /\ Documents[3] \in Done /\ Documents[4] \in Done
    BY <2>5
  <2>7. PolicyNames \subseteq Done BY <1>3, <2>6 DEF Documents
  <2>. QED BY <1>1, <1>2, <1>3, <2>7
<1>4. CASE ~Relayed
  <2>1. \A i \in 1..3 : Documents[i] \notin Pods BY <1>4 DEF Documents
  <2>2. next \in 1..6 /\ (pc = "attached" => next = 6)
    <3>1. Len(Documents) = 5 BY <1>4, DocumentsAre
    <3>. QED BY <3>1 DEF Ordered, Later
  <2>3. next > 3
    <3>1. CASE pc = "attached" BY <2>2, <3>1
    <3>2. CASE applied \cap Pods # {}
      <4>1. PICK i \in 1..(next - 1) : Documents[i] \in Pods BY <1>1, <3>2
      <4>. QED BY <2>1, <2>2, <4>1
    <3>. QED BY <3>1, <3>2
  <2>4. 1 \in 1..(next - 1) /\ 2 \in 1..(next - 1) /\ 3 \in 1..(next - 1) BY <2>2, <2>3
  <2>5. Documents[1] \in Done /\ Documents[2] \in Done /\ Documents[3] \in Done BY <2>4
  <2>6. {"default-deny", "agent-egress", "mitm-policy"} \subseteq Done BY <1>4, <2>5 DEF Documents
  <2>7. "ssh-agent-policy" \notin Done
    <3>1. \A i \in 1..5 : Documents[i] # "ssh-agent-policy" BY <1>4 DEF Documents
    <3>. QED BY <2>2, <3>1
  <2>. QED BY <1>1, <1>2, <1>4, <2>6, <2>7
<1>. QED BY <1>3, <1>4

LEMMA OneRule ==
    ASSUME NEW peers, NEW ports, NEW peer, NEW port, peers # {}
    PROVE  Matches({Rule(peers, ports)}, peer, port) <=> peer \in peers /\ port \in ports
BY DEF Matches, Rule

(* The rules of agent-egress, as _network_policies puts them together.     *)
LEMMA EgressIs ==
    ASSUME SInv, input.cidrs \subseteq Cidrs, NEW to, NEW port
    PROVE  Matches(AgentEgress, to, port) <=>
             \/ to = "mitm" /\ port = 8080
             \/ to = "kube-dns" /\ port = 53
             \/ to \in Given /\ port = 22
             \/ Relayed /\ to = "ssh-agent" /\ port = 8765
<1>. DEFINE Passes(r) == (r.peers = {} \/ to \in r.peers) /\ port \in r.ports
<1>1. Passes(Rule({"mitm"}, {8080})) <=> to = "mitm" /\ port = 8080 BY DEF Rule
<1>2. Passes(Rule({"kube-dns"}, {53})) <=> to = "kube-dns" /\ port = 53 BY DEF Rule
<1>3. Passes(Rule({"ssh-agent"}, {8765})) <=> to = "ssh-agent" /\ port = 8765 BY DEF Rule
<1>4. input.cidrs # {} => Given # {} BY SshAssumption DEF Given
<1>5. input.cidrs = {} => Given = {} BY DEF Given
<1>6. input.cidrs # {} => (Passes(Rule(Given, {22})) <=> to \in Given /\ port = 22)
  BY <1>4 DEF Rule
<1>7. Matches(AgentEgress, to, port) <=> \E r \in AgentEgress : Passes(r) BY DEF Matches
<1>8. AgentEgress = {Rule({"mitm"}, {8080}), Rule({"kube-dns"}, {53})}
                    \cup (IF input.cidrs = {} THEN {} ELSE {Rule(Given, {22})})
                    \cup (IF Relayed THEN {Rule({"ssh-agent"}, {8765})} ELSE {})
  BY DEF AgentEgress, Given
<1>. HIDE DEF Passes
<1>. QED BY <1>1, <1>2, <1>3, <1>5, <1>6, <1>7, <1>8

InForceAre(policies) ==
    policies = {Policy("default-deny"), Policy("agent-egress"), Policy("mitm-policy")}
               \cup (IF Relayed THEN {Policy("ssh-agent-policy")} ELSE {})

LEMMA LeavesIs ==
    ASSUME SInv, NEW policies, InForceAre(policies),
           NEW from \in Endpoints, NEW to \in Endpoints, NEW port \in Ports
    PROVE  Leaves(policies, from, to, port) <=>
             \/ from \in Outside
             \/ from = "agent" /\ Matches(AgentEgress, to, port)
             \/ from = "mitm" /\ to # "metadata"
<1>. DEFINE Open1(name) == Matches(Policy(name).egress, to, port)
            Mine(name) == from \in Policy(name).pods /\ "egress" \in Policy(name).types
<1>1. Mine("default-deny") <=> from \in Pods BY DEF Policy, Both
<1>2. Mine("agent-egress") <=> from = "agent" BY DEF Policy
<1>3. Mine("mitm-policy") <=> from = "mitm" BY DEF Policy, Both
<1>4. ~Mine("ssh-agent-policy") BY DEF Policy
<1>5. ~Open1("default-deny") BY DEF Policy, Matches
<1>6. Open1("agent-egress") <=> Matches(AgentEgress, to, port) BY DEF Policy
<1>7. Open1("mitm-policy") <=> to # "metadata"
  <2>1. Policy("mitm-policy").egress = {Rule(Endpoints \ {"metadata"}, Ports)} BY DEF Policy
  <2>2. Endpoints \ {"metadata"} # {} BY DEF Endpoints, Pods
  <2>3. Matches(Policy("mitm-policy").egress, to, port) <=> to \in Endpoints \ {"metadata"}
    BY <2>1, <2>2, OneRule
  <2>. QED BY <2>3
<1>8. Leaves(policies, from, to, port) <=>
        \/ \A p \in policies : ~(from \in p.pods /\ "egress" \in p.types)
        \/ \E p \in policies : from \in p.pods /\ "egress" \in p.types /\ Matches(p.egress, to, port)
  BY DEF Leaves
<1>9. Leaves(policies, from, to, port) <=>
        \/ ~Mine("default-deny") /\ ~Mine("agent-egress") /\ ~Mine("mitm-policy")
        \/ Mine("default-deny") /\ Open1("default-deny")
        \/ Mine("agent-egress") /\ Open1("agent-egress")
        \/ Mine("mitm-policy") /\ Open1("mitm-policy")
  <2>. DEFINE d == Policy("default-deny") a == Policy("agent-egress")
              m == Policy("mitm-policy") s == Policy("ssh-agent-policy")
  <2>1. \/ policies = {d, a, m}
        \/ policies = {d, a, m, s}
    BY DEF InForceAre
  <2>. HIDE DEF d, a, m, s
  <2>2. ~(from \in s.pods /\ "egress" \in s.types) BY <1>4 DEF s
  <2>3. Leaves(policies, from, to, port) <=>
          \/ /\ ~(from \in d.pods /\ "egress" \in d.types)
             /\ ~(from \in a.pods /\ "egress" \in a.types)
             /\ ~(from \in m.pods /\ "egress" \in m.types)
          \/ from \in d.pods /\ "egress" \in d.types /\ Matches(d.egress, to, port)
          \/ from \in a.pods /\ "egress" \in a.types /\ Matches(a.egress, to, port)
          \/ from \in m.pods /\ "egress" \in m.types /\ Matches(m.egress, to, port)
    BY <1>8, <2>1, <2>2
  <2>. QED BY <2>3 DEF d, a, m
<1>10. from \in Outside <=> from \notin Pods BY DEF Outside, Pods, Endpoints
<1>11. from = "agent" \/ from = "mitm" => from \in Pods BY DEF Pods
<1>. HIDE DEF Mine, Open1
<1>. QED BY <1>1, <1>2, <1>3, <1>5, <1>6, <1>7, <1>9, <1>10, <1>11

LEMMA EntersIs ==
    ASSUME SInv, NEW policies, InForceAre(policies),
           NEW from \in Endpoints, NEW to \in Endpoints, NEW port \in Ports
    PROVE  Enters(policies, from, to, port) <=>
             \/ to \in Outside
             \/ to = "mitm" /\ from = "agent" /\ port = 8080
             \/ Relayed /\ to = "ssh-agent" /\ from = "agent" /\ port = 8765
<1>. DEFINE Open1(name) == Matches(Policy(name).ingress, from, port)
            Mine(name) == to \in Policy(name).pods /\ "ingress" \in Policy(name).types
<1>1. Mine("default-deny") <=> to \in Pods BY DEF Policy, Both
<1>2. ~Mine("agent-egress") BY DEF Policy
<1>3. Mine("mitm-policy") <=> to = "mitm" BY DEF Policy, Both
<1>4. Mine("ssh-agent-policy") <=> to = "ssh-agent" BY DEF Policy
<1>5. ~Open1("default-deny") BY DEF Policy, Matches
<1>6. Open1("mitm-policy") <=> from = "agent" /\ port = 8080
  <2>1. Policy("mitm-policy").ingress = {Rule({"agent"}, {8080})} BY DEF Policy
  <2>. QED BY <2>1, OneRule
<1>7. Open1("ssh-agent-policy") <=> from = "agent" /\ port = 8765
  <2>1. Policy("ssh-agent-policy").ingress = {Rule({"agent"}, {8765})} BY DEF Policy
  <2>. QED BY <2>1, OneRule
<1>8. Enters(policies, from, to, port) <=>
        \/ \A p \in policies : ~(to \in p.pods /\ "ingress" \in p.types)
        \/ \E p \in policies : to \in p.pods /\ "ingress" \in p.types /\ Matches(p.ingress, from, port)
  BY DEF Enters
<1>9. Enters(policies, from, to, port) <=>
        \/ ~Mine("default-deny") /\ ~Mine("mitm-policy") /\ ~(Relayed /\ Mine("ssh-agent-policy"))
        \/ Mine("default-deny") /\ Open1("default-deny")
        \/ Mine("mitm-policy") /\ Open1("mitm-policy")
        \/ Relayed /\ Mine("ssh-agent-policy") /\ Open1("ssh-agent-policy")
  <2>. DEFINE d == Policy("default-deny") a == Policy("agent-egress")
              m == Policy("mitm-policy") s == Policy("ssh-agent-policy")
  <2>1. \/ ~Relayed /\ policies = {d, a, m}
        \/ Relayed /\ policies = {d, a, m, s}
    BY DEF InForceAre
  <2>. HIDE DEF d, a, m, s
  <2>2. ~(to \in a.pods /\ "ingress" \in a.types) BY <1>2 DEF a
  <2>3. Enters(policies, from, to, port) <=>
          \/ /\ ~(to \in d.pods /\ "ingress" \in d.types)
             /\ ~(to \in m.pods /\ "ingress" \in m.types)
             /\ ~(Relayed /\ to \in s.pods /\ "ingress" \in s.types)
          \/ to \in d.pods /\ "ingress" \in d.types /\ Matches(d.ingress, from, port)
          \/ to \in m.pods /\ "ingress" \in m.types /\ Matches(m.ingress, from, port)
          \/ Relayed /\ to \in s.pods /\ "ingress" \in s.types /\ Matches(s.ingress, from, port)
    BY <1>8, <2>1, <2>2
  <2>. QED BY <2>3 DEF d, s, m
<1>10. to \in Outside <=> to \notin Pods BY DEF Outside, Pods, Endpoints
<1>11. to = "ssh-agent" \/ to = "mitm" => to \in Pods BY DEF Pods
<1>. HIDE DEF Mine, Open1
<1>. QED BY <1>1, <1>3, <1>4, <1>5, <1>6, <1>7, <1>9, <1>10, <1>11

(* The policies admit exactly the table of docs/network-and-egress.md, for *)
(* every set of --ssh-cidr ranges, whatever they contain, with and without *)
(* a key holder, from the first pod on (_network_policies and the order of *)
(* _assemble_manifests).                                                   *)
THEOREM TableHolds == Spec => []PerimeterIsTheTable
<1>1. SInv => PerimeterIsTheTable
  <2>. SUFFICES ASSUME SInv,
                       (applied \cap Pods # {} /\ refused \cap PolicyNames = {}) \/ pc = "attached",
                       NEW from \in Endpoints, NEW to \in Endpoints, NEW port \in Ports
                PROVE  Open(InForce, from, to, port) <=> InTable(from, to, port)
    BY DEF PerimeterIsTheTable
  <2>1. InForceAre(InForce)
    <3>1. applied \cap PolicyNames
            = IF Relayed THEN PolicyNames ELSE PolicyNames \ {"ssh-agent-policy"}
      BY PoliciesFirst
    <3>2. applied \cap PolicyNames = {"default-deny", "agent-egress", "mitm-policy"}
                  \cup (IF Relayed THEN {"ssh-agent-policy"} ELSE {})
      BY <3>1 DEF PolicyNames
    <3>. QED BY <3>2 DEF InForce, InForceAre
  <2>2. input.cidrs \subseteq Cidrs
    <3>1. next > 1 \/ pc = "attached"
      <4>1. CASE applied \cap Pods # {}
        <5>1. PICK i \in 1..(next - 1) : TRUE BY <4>1 DEF SInv, Ordered
        <5>2. next \in Nat BY DocumentsAre DEF SInv, Ordered
        <5>. QED BY <5>1, <5>2
      <4>. QED BY <4>1
    <3>. QED BY <3>1 DEF SInv, Known, Later
  <2>3. Leaves(InForce, from, to, port) <=>
             \/ from \in Outside
             \/ from = "agent" /\ Matches(AgentEgress, to, port)
             \/ from = "mitm" /\ to # "metadata"
    BY <2>1, LeavesIs
  <2>4. Enters(InForce, from, to, port) <=>
             \/ to \in Outside
             \/ to = "mitm" /\ from = "agent" /\ port = 8080
             \/ Relayed /\ to = "ssh-agent" /\ from = "agent" /\ port = 8765
    BY <2>1, EntersIs
  <2>5. Matches(AgentEgress, to, port) <=>
             \/ to = "mitm" /\ port = 8080
             \/ to = "kube-dns" /\ port = 53
             \/ to \in Given /\ port = 22
             \/ Relayed /\ to = "ssh-agent" /\ port = 8765
    BY <2>2, EgressIs
  <2>. QED BY <2>3, <2>4, <2>5 DEF Open, InTable, Endpoints, Outside, Pods, Ports
<1>. QED BY Inductive, <1>1, PTL

-----------------------------------------------------------------------------
LEMMA NamesAre ==
    ASSUME NEW i \in Inputs, NEW f \in i.files, NEW g \in i.files
    PROVE  /\ PubName(f) = PubName(g) => f = g
           /\ PubName(f) # <<"config">>
<1>. DEFINE S == Words \cup {"pub"}
<1>1. i.files \subseteq File BY SshAssumption DEF Input
<1>2. f.name \in Seq(Words) /\ g.name \in Seq(Words) BY <1>1 DEF File
<1>3. f.name \in Seq(S) /\ g.name \in Seq(S) /\ "pub" \in S BY <1>2
<1>. HIDE DEF S
<1>4. Append(f.name, "pub") = Append(g.name, "pub") => f.name = g.name
  <2>1. ASSUME NEW s \in Seq(S), NEW t \in Seq(S), NEW e \in S, Append(s, e) = Append(t, e)
        PROVE  s = t
    BY <2>1, AppendInjective
  <2>. QED BY <1>3, <2>1
<1>5. f.name # <<>> /\ (f.name = g.name => f = g) BY SshAssumption
<1>6. PubName(f) # <<"config">>
  <2>1. Len(f.name) \in Nat /\ Len(f.name) # 0 BY <1>3, <1>5
  <2>2. Len(Append(f.name, "pub")) = Len(f.name) + 1 BY <1>3, AppendProperties
  <2>3. Len(<<"config">>) = 1 OBVIOUS
  <2>. QED BY <2>1, <2>2, <2>3 DEF PubName
<1>. QED BY <1>4, <1>5, <1>6 DEF PubName

(* For any directory: a marker file not named *.pub goes to the holder and *)
(* never to the agent, which is given copies of a marker-free config and   *)
(* of unread *-cert.pub files only, besides every key's public half; and   *)
(* the holder's ssh-agent has keys of the plan only, however often it      *)
(* crashed (sshagent.prepare, _ssh_agent_manifests, _wait_for_pods).       *)
THEOREM KeysAreHeld == Spec => []KeysStayHeld
<1>1. SInv => KeysStayHeld
  <2>. SUFFICES ASSUME SInv PROVE KeysStayHeld OBVIOUS
  <2>1. holder.loaded \subseteq {f \in private : f.loads} BY DEF SInv, Held
  <2>2. pc \in {"agent", "attached", "ended"} /\ Relayed => \E f \in private : f.loads
    BY DEF SInv, Held
  <2>3. CASE private = {} /\ agentFiles = <<>>
    BY <2>1, <2>2, <2>3 DEF KeysStayHeld, Relayed
  <2>4. CASE /\ private = PrivateKeys(input.files) /\ ~Unusable(private)
             /\ agentFiles = AgentFiles(input.files)
    <3>. DEFINE files == input.files
    <3>1. input \in Inputs BY DEF SInv, Known
    <3>2. DOMAIN agentFiles = {PubName(f) : f \in private} \cup {f.name : f \in Extra(files)}
      BY <2>4 DEF AgentFiles
    <3>3. ASSUME NEW n \in DOMAIN agentFiles
          PROVE  agentFiles[n] =
                   IF \E f \in Extra(files) : f.name = n
                   THEN [kind |-> "copy", of |-> CHOOSE f \in Extra(files) : f.name = n]
                   ELSE [kind |-> "derived", of |-> CHOOSE f \in private : PubName(f) = n]
      BY <2>4, <3>2, <3>3 DEF AgentFiles
    <3>4. ASSUME NEW n \in DOMAIN agentFiles, agentFiles[n].kind = "copy"
          PROVE  \/ IsCertificate(agentFiles[n].of.name)
                 \/ agentFiles[n].of.name = <<"config">> /\ ~agentFiles[n].of.marker
      <4>1. \E f \in Extra(files) : f.name = n BY <3>3, <3>4
      <4>2. agentFiles[n].of = CHOOSE f \in Extra(files) : f.name = n BY <3>3, <4>1
      <4>3. agentFiles[n].of \in Extra(files) BY <4>1, <4>2
      <4>4. ASSUME NEW f \in files, f.name = <<"config">>, f \notin PrivateKeys(files)
            PROVE  ~f.marker
        <5>1. ~EndsWith(f.name, <<"pub">>) BY <4>4 DEF EndsWith
        <5>. QED BY <4>4, <5>1 DEF PrivateKeys
      <4>. QED BY <4>3, <4>4 DEF Extra
    <3>5. ASSUME NEW f \in files, f.marker /\ ~EndsWith(f.name, <<"pub">>) PROVE f \in private
      BY <2>4, <3>5 DEF PrivateKeys
    <3>6. ASSUME NEW f \in private
          PROVE  /\ PubName(f) \in DOMAIN agentFiles
                 /\ agentFiles[PubName(f)] = [kind |-> "derived", of |-> f]
                      \/ IsCertificate(PubName(f))
      <4>1. f \in files BY <2>4 DEF PrivateKeys
      <4>2. PubName(f) \in DOMAIN agentFiles BY <3>2
      <4>3. CASE \E g \in Extra(files) : g.name = PubName(f)
        <5>1. PICK g \in Extra(files) : g.name = PubName(f) BY <4>3
        <5>2. PubName(f) # <<"config">> BY <3>1, <4>1, NamesAre
        <5>. QED BY <4>2, <5>1, <5>2 DEF Extra
      <4>4. CASE ~\E g \in Extra(files) : g.name = PubName(f)
        <5>1. agentFiles[PubName(f)]
                = [kind |-> "derived", of |-> CHOOSE g \in private : PubName(g) = PubName(f)]
          BY <3>3, <4>2, <4>4
        <5>2. \A g \in private : PubName(g) = PubName(f) => g = f
          BY <2>4, <3>1, <4>1, NamesAre DEF PrivateKeys
        <5>3. (CHOOSE g \in private : PubName(g) = PubName(f)) = f BY <5>2
        <5>. QED BY <4>2, <5>1, <5>3
      <4>. QED BY <4>3, <4>4
    <3>7. \A f \in private : ~f.encrypted /\ f.name[1] # "" BY <2>4 DEF Unusable
    <3>. QED BY <2>1, <2>2, <3>4, <3>5, <3>6, <3>7 DEF KeysStayHeld
  <2>. QED BY <2>3, <2>4 DEF SInv, Split
<1>. QED BY Inductive, <1>1, PTL
=============================================================================
