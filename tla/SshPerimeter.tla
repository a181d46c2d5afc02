---------------------------- MODULE SshPerimeter ----------------------------
(***************************************************************************)
(* The two things a session lets past mitm: TCP 22 to the --ssh-cidr       *)
(* ranges, and signatures by the private keys of --ssh-key-dir.  The       *)
(* options are checked and the key directory split (cli.validate_ssh_args, *)
(* sshagent.prepare), the network policies, secrets and pods are applied   *)
(* one document at a time, run waits for the pods and attaches; meanwhile  *)
(* the key holder and the relay in the agent pod start, crash and are      *)
(* restarted in place by the kubelet.                                      *)
(***************************************************************************)
EXTENDS Naturals, Sequences, FiniteSets

CONSTANTS
    Words,             \* what file names are made of
    Cidrs, Block,      \* CIDRs, and the endpoints each contains
    Inputs,            \* the inputs of a run, see Input
    MaxRefused,        \* bound: documents the API server refuses
    MaxCrashes         \* bound: crashes of containers and of ssh-agent

(* A file name split at its dots and before its -cert: id_a-cert.pub is    *)
(* <<"id_a", "cert", "pub">> and .id_a is <<"", "id_a">>; the word "cert"  *)
(* is only ever that -cert.  marker: the file has the PEM marker of a      *)
(* private key.  loads: ssh-add takes it.                                  *)
File == [name : Seq(Words), marker : BOOLEAN, encrypted : BOOLEAN, loads : BOOLEAN]

(* dir: --ssh-key-dir is unset, no directory, or one with these files.     *)
BadCidr == "bad"
Input == [root : BOOLEAN, keygen : BOOLEAN, cidrs : SUBSET (Cidrs \cup {BadCidr}),
          dir : {"unset", "missing", "given"}, files : SUBSET File]

Pods == {"agent", "mitm", "ssh-agent"}
Outside == {"kube-dns", "lan", "internet", "metadata", "stranger"}
Endpoints == Pods \cup Outside
Ports == {22, 53, 443, 8080, 8765}

ASSUME SshAssumption ==
    /\ BadCidr \notin Cidrs
    /\ Block \in [Cidrs -> (SUBSET Endpoints) \ {{}}]
    /\ Inputs \subseteq Input
    /\ \A i \in Inputs : \A f, g \in i.files :
            f.name # <<>> /\ (f.name = g.name => f = g)
    /\ MaxRefused \in Nat /\ MaxCrashes \in Nat

VARIABLES
    input,
    pc,         \* validate, prepare, apply, mitm, holder, agent, attached, ended, failed
    private,    \* the plan: files whose bytes go to the holder,
    agentFiles, \*   and what is put in the agent's ~/.ssh, by name
    applied, refused, next, \* documents done, and the one to apply next
    holder,     \* the holder's container, socket, ssh-agent and its keys
    relay,      \* the sidecar's container and socket
    crashes

vars == <<input, pc, private, agentFiles, applied, refused, next, holder, relay, crashes>>
plan == <<private, agentFiles>>
cluster == <<applied, refused, next>>
bridge == <<holder, relay, crashes>>

(* ctr: down, script (before ssh-agent), adding (keys), serving (socat).   *)
(* added: the script's count of loaded keys is not zero.                   *)
NoHolder == [ctr |-> "down", sock |-> FALSE, alive |-> FALSE, left |-> {},
             loaded |-> {}, added |-> FALSE]
NoRelay == [ctr |-> "down", sock |-> FALSE]

Init ==
    /\ input \in Inputs
    /\ pc = "validate"
    /\ private = {} /\ agentFiles = <<>>
    /\ applied = {} /\ refused = {} /\ next = 1
    /\ holder = NoHolder /\ relay = NoRelay /\ crashes = 0

-----------------------------------------------------------------------------
(* Host side: the options and the key directory.                           *)

validate_ssh_args ==
    /\ pc = "validate"
    /\ pc' = IF BadCidr \in input.cidrs \/ input.dir = "missing" THEN "failed"
             ELSE IF input.dir = "given" THEN "prepare" ELSE "apply"
    /\ UNCHANGED <<input, plan, cluster, bridge>>

EndsWith(name, suffix) ==
    /\ Len(name) > Len(suffix)
    /\ SubSeq(name, Len(name) - Len(suffix) + 1, Len(name)) = suffix

IsCertificate(name) == EndsWith(name, <<"cert", "pub">>)

(* Mutant: names are trusted, a config file is not looked into.            *)
Mut_PrivateKeys(files) ==
    {f \in files : ~EndsWith(f.name, <<"pub">>) /\ f.name # <<"config">> /\ f.marker}

PrivateKeys(files) == {f \in files : ~EndsWith(f.name, <<"pub">>) /\ f.marker}

(* Certificates are copied whatever is in them, config if it is no key.    *)
Extra(files) ==
    {f \in files : IsCertificate(f.name)
                   \/ (f.name = <<"config">> /\ f \notin PrivateKeys(files))}

PubName(f) == Append(f.name, "pub")

(* Derived public keys, and over them the copied files.                    *)
AgentFiles(files) ==
    [n \in {PubName(f) : f \in PrivateKeys(files)} \cup {f.name : f \in Extra(files)} |->
        IF \E f \in Extra(files) : f.name = n
        THEN [kind |-> "copy", of |-> CHOOSE f \in Extra(files) : f.name = n]
        ELSE [kind |-> "derived",
              of |-> CHOOSE f \in PrivateKeys(files) : PubName(f) = n]]

(* The holder's glob /keys/* skips dotted names, ssh-keygen must be there  *)
(* and cannot derive the public half of an encrypted key; the hardened     *)
(* pods cannot run as root.                                                *)
Unusable(keys) ==
    \/ \E f \in keys : f.name[1] = "" \/ f.encrypted
    \/ ~input.keygen
    \/ input.root

prepare ==
    /\ pc = "prepare"
    /\ LET keys == PrivateKeys(input.files)
       IN  IF keys = {}
           THEN pc' = "apply" /\ UNCHANGED plan
           ELSE IF Unusable(keys) THEN pc' = "failed" /\ UNCHANGED plan
           ELSE /\ private' = keys
                /\ agentFiles' = AgentFiles(input.files)
                /\ pc' = "apply"
    /\ UNCHANGED <<input, cluster, bridge>>

(* ssh_plan is not None.                                                   *)
Relayed == private # {}

-----------------------------------------------------------------------------
(* The network policies, and what Kubernetes makes of them: a pod is       *)
(* isolated in a direction once a policy that selects it names that        *)
(* direction, and then only what some policy lists passes.  A rule without *)
(* peers matches every peer.                                               *)

Rule(peers, ports) == [peers |-> peers, ports |-> ports]

(* Mutant: the rule for TCP 22 is written even if there is no CIDR.        *)
Mut_AgentEgress ==
    {Rule({"mitm"}, {8080}), Rule({"kube-dns"}, {53})}
    \cup {Rule(UNION {Block[c] : c \in input.cidrs}, {22})}
    \cup (IF Relayed THEN {Rule({"ssh-agent"}, {8765})} ELSE {})

AgentEgress ==
    {Rule({"mitm"}, {8080}), Rule({"kube-dns"}, {53})}
    \cup (IF input.cidrs = {} THEN {}
          ELSE {Rule(UNION {Block[c] : c \in input.cidrs}, {22})})
    \cup (IF Relayed THEN {Rule({"ssh-agent"}, {8765})} ELSE {})

Both == {"ingress", "egress"}
Policy(name) ==
    CASE name = "default-deny" ->
            [pods |-> Pods, types |-> Both, ingress |-> {}, egress |-> {}]
      [] name = "agent-egress" ->
            [pods |-> {"agent"}, types |-> {"egress"}, ingress |-> {},
             egress |-> AgentEgress]
      [] name = "mitm-policy" ->
            [pods |-> {"mitm"}, types |-> Both, ingress |-> {Rule({"agent"}, {8080})},
             egress |-> {Rule(Endpoints \ {"metadata"}, Ports)}]
      [] name = "ssh-agent-policy" ->
            [pods |-> {"ssh-agent"}, types |-> {"ingress"},
             ingress |-> {Rule({"agent"}, {8765})}, egress |-> {}]

PolicyNames == {"default-deny", "agent-egress", "mitm-policy", "ssh-agent-policy"}

InForce == {Policy(name) : name \in applied \cap PolicyNames}

Matches(rules, peer, port) ==
    \E r \in rules : (r.peers = {} \/ peer \in r.peers) /\ port \in r.ports

Leaves(policies, from, to, port) ==
    LET mine == {p \in policies : from \in p.pods /\ "egress" \in p.types}
    IN  mine = {} \/ \E p \in mine : Matches(p.egress, to, port)

Enters(policies, from, to, port) ==
    LET mine == {p \in policies : to \in p.pods /\ "ingress" \in p.types}
    IN  mine = {} \/ \E p \in mine : Matches(p.ingress, from, port)

Open(policies, from, to, port) ==
    Leaves(policies, from, to, port) /\ Enters(policies, from, to, port)

-----------------------------------------------------------------------------
(* Applying the documents, waiting and attaching.                          *)

(* _assemble_manifests: policies before pods, the agent's pod last.        *)
Documents ==
    IF Relayed
    THEN <<"default-deny", "agent-egress", "mitm-policy", "ssh-agent-policy", "mitm",
           "ssh-agent-keys", "ssh-pub", "ssh-agent", "agent">>
    ELSE <<"default-deny", "agent-egress", "mitm-policy", "mitm", "agent">>

(* kubectl apply goes on after a document that is refused and fails at the *)
(* end.                                                                    *)
ApplyDocument ==
    /\ pc = "apply" /\ next <= Len(Documents)
    /\ \/ applied' = applied \cup {Documents[next]} /\ UNCHANGED refused
       \/ /\ Cardinality(refused) < MaxRefused
          /\ refused' = refused \cup {Documents[next]} /\ UNCHANGED applied
    /\ next' = next + 1
    /\ UNCHANGED <<input, pc, plan, bridge>>

Applied ==
    /\ pc = "apply" /\ next > Len(Documents)
    /\ pc' = IF refused = {} THEN "mitm" ELSE "failed"
    /\ UNCHANGED <<input, plan, cluster, bridge>>

(* ssh-add -l: ssh-agent answers and holds a key.                          *)
HolderReady == holder.ctr # "down" /\ holder.alive /\ holder.loaded # {}

(* test -S: the socket is there, be it one of a container that crashed.    *)
RelayReady == relay.ctr # "down" /\ relay.sock

(* _wait_for_pods: each wait succeeds or times out; mitm is not modelled.  *)
WaitForPod ==
    /\ pc \in {"mitm", "holder", "agent"}
    /\ \/ pc' = "failed"
       \/ pc = "mitm" /\ pc' = IF Relayed THEN "holder" ELSE "agent"
       \/ pc = "holder" /\ HolderReady /\ pc' = "agent"
       \/ pc = "agent" /\ (Relayed => RelayReady) /\ pc' = "attached"
    /\ UNCHANGED <<input, plan, cluster, bridge>>

Detach ==
    /\ pc = "attached" /\ pc' = "ended"
    /\ UNCHANGED <<input, plan, cluster, bridge>>

-----------------------------------------------------------------------------
(* The holder's container: the script of _ssh_agent_manifests.  The socket *)
(* lies on a tmpfs that outlives the container.                            *)

host == <<input, pc, plan, cluster>>

StartHolder ==
    /\ {"ssh-agent", "ssh-agent-keys"} \subseteq applied /\ holder.ctr = "down"
    /\ holder' = [holder EXCEPT !.ctr = "script", !.left = private, !.added = FALSE]
    /\ UNCHANGED <<host, relay, crashes>>

(* Mutant: without rm -f ssh-agent cannot bind over an old socket, and the *)
(* script, under set -e, exits.                                            *)
Mut_StartAgent ==
    /\ holder.ctr = "script"
    /\ holder' = IF holder.sock THEN [holder EXCEPT !.ctr = "down"]
                 ELSE [holder EXCEPT !.ctr = "adding", !.sock = TRUE, !.alive = TRUE]
    /\ UNCHANGED <<host, relay, crashes>>

StartAgent ==
    /\ holder.ctr = "script"
    /\ holder' = [holder EXCEPT !.ctr = "adding", !.sock = TRUE, !.alive = TRUE]
    /\ UNCHANGED <<host, relay, crashes>>

(* A key that does not load is logged and skipped.                         *)
AddKey(f) ==
    /\ holder.ctr = "adding" /\ f \in holder.left
    /\ holder' = IF holder.alive /\ f.loads
                 THEN [holder EXCEPT !.left = @ \ {f}, !.loaded = @ \cup {f}, !.added = TRUE]
                 ELSE [holder EXCEPT !.left = @ \ {f}]
    /\ UNCHANGED <<host, relay, crashes>>

(* socat takes the script's place; with no key the container exits, and    *)
(* everything in it with it.                                               *)
KeysAdded ==
    /\ holder.ctr = "adding" /\ holder.left = {}
    /\ holder' = IF holder.added THEN [holder EXCEPT !.ctr = "serving"]
                 ELSE [holder EXCEPT !.ctr = "down", !.alive = FALSE]
    /\ UNCHANGED <<host, relay, crashes>>

CrashHolder ==
    /\ holder.ctr # "down" /\ crashes < MaxCrashes
    /\ holder' = [holder EXCEPT !.ctr = "down", !.alive = FALSE, !.loaded = {}]
    /\ crashes' = crashes + 1
    /\ UNCHANGED <<host, relay>>

(* ssh-agent alone dies: the container, which is the script or socat, goes *)
(* on, and nothing starts another ssh-agent.                               *)
AgentDies ==
    /\ holder.alive /\ crashes < MaxCrashes
    /\ holder' = [holder EXCEPT !.alive = FALSE, !.loaded = {}]
    /\ crashes' = crashes + 1
    /\ UNCHANGED <<host, relay>>

(* The relay: socat binds the socket in the agent's pod, over one left     *)
(* there by an earlier start.                                              *)
StartRelay ==
    /\ Relayed /\ {"agent", "ssh-pub"} \subseteq applied /\ relay.ctr = "down"
    /\ relay' = [relay EXCEPT !.ctr = "starting"]
    /\ UNCHANGED <<host, holder, crashes>>

Listen ==
    /\ relay.ctr = "starting"
    /\ relay' = [ctr |-> "listening", sock |-> TRUE]
    /\ UNCHANGED <<host, holder, crashes>>

CrashRelay ==
    /\ relay.ctr # "down" /\ crashes < MaxCrashes
    /\ relay' = [relay EXCEPT !.ctr = "down"]
    /\ crashes' = crashes + 1
    /\ UNCHANGED <<host, holder>>

HolderStep == StartHolder \/ StartAgent \/ KeysAdded \/ \E f \in private : AddKey(f)
RelayStep == StartRelay \/ Listen

Next ==
    \/ validate_ssh_args \/ prepare \/ ApplyDocument \/ Applied \/ WaitForPod \/ Detach
    \/ HolderStep \/ CrashHolder \/ AgentDies
    \/ RelayStep \/ CrashRelay

(* The kubelet restarts containers and their scripts run on; nothing is    *)
(* assumed of the user, the API server or the timeouts.                    *)
Spec == Init /\ [][Next]_vars /\ WF_vars(HolderStep) /\ WF_vars(RelayStep)

-----------------------------------------------------------------------------
Given == UNION {Block[c] : c \in input.cidrs}

(* The table of docs/network-and-egress.md: what may connect to what.      *)
InTable(from, to, port) ==
    \/ from = "agent" /\ to = "mitm" /\ port = 8080
    \/ from = "agent" /\ to = "kube-dns" /\ port = 53
    \/ from = "agent" /\ to \in Outside \cap Given /\ port = 22
    \/ Relayed /\ from = "agent" /\ to = "ssh-agent" /\ port = 8765
    \/ from = "mitm" /\ to \in Outside \ {"metadata"}
    \/ from \in Outside /\ to \in Outside

(* The policies _network_policies writes admit exactly the connections of  *)
(* the documented table, for every combination of --ssh-cidr and           *)
(* --ssh-key-dir, and from the moment the first pod exists: no pod is ever *)
(* up before its policies, unless the API server refused one, and then the *)
(* run does not attach.                                                    *)
PerimeterIsTheTable ==
    ((applied \cap Pods # {} /\ refused \cap PolicyNames = {}) \/ pc = "attached")
        => LET policies == InForce
           IN  \A from, to \in Endpoints, port \in Ports :
                    Open(policies, from, to, port) <=> InTable(from, to, port)

(* What prepare puts where.  A file with the marker of a private key is    *)
(* the holder's whatever its name, *.pub excepted: prepare does not look   *)
(* into those (sshagent.py:78-82), so that one named as a plain public key *)
(* goes nowhere and one named *-cert.pub goes to the agent, marker or not. *)
(* No other copy of the agent's has the marker.  The agent has the public  *)
(* half of every key the holder has, under its name unless a certificate   *)
(* has that name; no key is one the holder could not load without a        *)
(* terminal.  All the holder's ssh-agent has, after any number of          *)
(* restarts, is among these; and if none of them loads, the wait for the   *)
(* holder runs out and nothing attaches (_wait_for_pods), while of one key *)
(* out of several nothing is said.                                         *)
KeysStayHeld ==
    /\ \A n \in DOMAIN agentFiles :
            LET c == agentFiles[n]
            IN  c.kind = "copy" =>
                    \/ IsCertificate(c.of.name)
                    \/ c.of.name = <<"config">> /\ ~c.of.marker
    /\ Relayed => \A f \in input.files :
            f.marker /\ ~EndsWith(f.name, <<"pub">>) => f \in private
    /\ \A f \in private :
            /\ ~f.encrypted /\ f.name[1] # ""
            /\ PubName(f) \in DOMAIN agentFiles
            /\ agentFiles[PubName(f)] = [kind |-> "derived", of |-> f]
                  \/ IsCertificate(PubName(f))
    /\ holder.loaded \subseteq {f \in private : f.loads}
    /\ pc \in {"agent", "attached", "ended"} /\ Relayed => \E f \in private : f.loads

(* A signature by a key reaches the agent: through the relay's socket, the *)
(* policies and the service, which routes to a ready pod only.             *)
Signs(f) ==
    /\ relay.ctr = "listening" /\ Open(InForce, "agent", "ssh-agent", 8765)
    /\ holder.ctr = "serving" /\ HolderReady /\ f \in holder.loaded

(* socat serves a socket no ssh-agent answers.                             *)
Orphaned == holder.ctr = "serving" /\ ~holder.alive

(* However the holder and the relay crash and restart over the sockets     *)
(* they left, every key that loads can sign again while the session lasts, *)
(* unless ssh-agent alone died under socat, which nothing restarts.        *)
SigningRecovers ==
    \A f \in UNION {i.files : i \in Inputs} :
        (pc = "attached" /\ f \in private /\ f.loads)
            ~> (Signs(f) \/ Orphaned \/ pc = "ended")
=============================================================================
