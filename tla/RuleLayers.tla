----------------------------- MODULE RuleLayers -----------------------------
(***************************************************************************)
(* From the operator's rule sources and kube contexts to the list the      *)
(* addon matches requests against: kube.resolve turns each context into a  *)
(* rule, rules.resolve lays the layers over each other, validates each     *)
(* rule and resolves its placeholders, and the first failure anywhere ends *)
(* the start-up without a list.                                            *)
(*                                                                         *)
(* Everything is sequential; what is hard is that the result depends on    *)
(* all the inputs together, and that commands run on the host on the way.  *)
(***************************************************************************)
EXTENDS Naturals, Sequences

CONSTANTS
    Hosts, IpHosts,   \* request targets; those that are literal addresses
    Methods, Paths,
    Names,            \* what a piece of a header names: text, entry, command
    Absent,           \* a field that is not given, an entry that is missing
    Malformed,        \* a field of the wrong type, or with an invalid item
    Auth,             \* the auth rules agent.prepare returned
    AgentDefaults, GenericDefaults,
    Inputs            \* the inputs of a start-up, see Input

(* A header value is a sequence of pieces: literal text, a placeholder, or *)
(* a value that is no string.                                              *)
Piece == [kind : {"text", "keyring", "exec", "malformed"}, of : Names]

(* What is text in the end, even if it reads like a placeholder.           *)
Resolved == [kind : {"text", "keyring", "exec"}, of : Names]
Field(X) == {Absent, Malformed} \cup SUBSET X

(* A rule as it is written in YAML.                                        *)
Written == [l4 : BOOLEAN, hosts : Field(Hosts), cidrs : Field(IpHosts),
            methods : Field(Methods), paths : Field(Paths),
            inject : {Absent, Malformed} \cup Seq(Piece)]

(* A rule as the addon compiles it: an empty field restricts nothing.      *)
Rule == [l4 : BOOLEAN, hosts : SUBSET Hosts, cidrs : SUBSET IpHosts,
         methods : SUBSET Methods, paths : SUBSET Paths, inject : Seq(Resolved)]

Request == [host : Hosts, method : Methods, path : Paths]

(* A kubeconfig context: sound if it has a cluster, a user, a server, a CA *)
(* and verifies TLS; token is what its bearer rule injects.                *)
Context == [sound : BOOLEAN, host : Hosts, token : Piece,
            creds : SUBSET {"exec", "password", "token", "tokenFile",
                            "lostTokenFile", "cert"}]

(* A source of user rules: a rules file, or one rule of the config file.   *)
Source == [kind : {"inline", "file", "broken"}, rules : Seq(Written),
           replace : BOOLEAN]

Input == [kube : Seq(Context), sources : Seq(Source),
          no_default_rules : BOOLEAN, allow_exec : BOOLEAN,
          keyring : [Names -> Resolved \cup {Absent}],
          failing : SUBSET Names]   \* the commands that exit non-zero

ASSUME LayerAssumption ==
    /\ IpHosts \subseteq Hosts
    /\ Auth \in Seq(Written) /\ AgentDefaults \in Seq(Written)
    /\ GenericDefaults \in Seq(Written)
    /\ Absent \notin Seq(Piece) /\ \A h \in Hosts : Absent # {h}
    /\ Inputs \subseteq Input

VARIABLES
    input,
    pc,               \* kube, sources, rules, header, done, failed
    contexts,         \* contexts still to read
    kube,             \* KubePlan: the rules, and the hosts of client_certs
    sources,          \* sources still to read
    user_layer, replace_defaults,
    layered,          \* all the layers, first match first
    resolved,         \* the rules that are done
    todo, header,     \* of the rule at hand: pieces left, pieces resolved
    ran               \* commands run on the host

vars == <<input, pc, contexts, kube, sources, user_layer, replace_defaults,
          layered, resolved, todo, header, ran>>

Init ==
    /\ input \in Inputs
    /\ pc = "kube"
    /\ contexts = input.kube
    /\ kube = [rules |-> <<>>, certs |-> {}, seen |-> {}]
    /\ sources = input.sources
    /\ user_layer = <<>> /\ replace_defaults = FALSE
    /\ layered = <<>> /\ resolved = <<>>
    /\ todo = <<>> /\ header = <<>>
    /\ ran = {}

Fail == pc' = "failed"

-----------------------------------------------------------------------------
(* kube.resolve.                                                           *)

(* Mutant: two contexts may name one API server.                           *)
Mut_Refused(c, seen) ==
    \/ ~c.sound
    \/ c.creds \cap {"exec", "password"} # {}
    \/ "lostTokenFile" \in c.creds /\ "token" \notin c.creds
    \/ c.creds \cap {"token", "tokenFile", "cert"} = {}

(* Unsound, an API server that an earlier context named, a credential of a *)
(* kind that is not supported, or none.                                    *)
Refused(c, seen) ==
    \/ ~c.sound
    \/ c.host \in seen
    \/ c.creds \cap {"exec", "password"} # {}
    \/ "lostTokenFile" \in c.creds /\ "token" \notin c.creds
    \/ c.creds \cap {"token", "tokenFile", "cert"} = {}

(* A token wins over a client certificate, which mitmproxy then does not   *)
(* get.                                                                    *)
Bearer(c) == c.creds \cap {"token", "tokenFile"} # {}

KubeRule(c) ==
    [l4 |-> FALSE, hosts |-> {c.host}, cidrs |-> Absent, methods |-> Absent,
     paths |-> Absent, inject |-> IF Bearer(c) THEN <<c.token>> ELSE Absent]

ReadContext ==
    /\ pc = "kube" /\ contexts # <<>>
    /\ LET c == Head(contexts)
       IN  IF Refused(c, kube.seen)
           THEN Fail /\ UNCHANGED <<contexts, kube>>
           ELSE /\ kube' = [rules |-> Append(kube.rules, KubeRule(c)),
                            certs |-> IF Bearer(c) THEN kube.certs
                                      ELSE kube.certs \cup {c.host},
                            seen  |-> kube.seen \cup {c.host}]
                /\ contexts' = Tail(contexts)
                /\ UNCHANGED pc
    /\ UNCHANGED <<input, sources, user_layer, replace_defaults, layered,
                   resolved, todo, header, ran>>

KubeDone ==
    /\ pc = "kube" /\ contexts = <<>>
    /\ pc' = "sources"
    /\ UNCHANGED <<input, contexts, kube, sources, user_layer,
                   replace_defaults, layered, resolved, todo, header, ran>>

-----------------------------------------------------------------------------
(* rules.resolve: the layers.                                              *)

(* Mutant: the file read last comes first.                                 *)
Mut_ReadSource ==
    /\ pc = "sources" /\ sources # <<>>
    /\ LET s == Head(sources)
       IN  IF s.kind = "broken"
           THEN Fail /\ UNCHANGED <<sources, user_layer, replace_defaults>>
           ELSE /\ user_layer' = s.rules \o user_layer
                /\ replace_defaults' =
                      (replace_defaults \/ (s.kind = "file" /\ s.replace))
                /\ sources' = Tail(sources)
                /\ UNCHANGED pc
    /\ UNCHANGED <<input, contexts, kube, layered, resolved, todo, header, ran>>

ReadSource ==
    /\ pc = "sources" /\ sources # <<>>
    /\ LET s == Head(sources)
       IN  IF s.kind = "broken"
           THEN Fail /\ UNCHANGED <<sources, user_layer, replace_defaults>>
           ELSE /\ user_layer' = user_layer \o s.rules
                /\ replace_defaults' =
                      (replace_defaults \/ (s.kind = "file" /\ s.replace))
                /\ sources' = Tail(sources)
                /\ UNCHANGED pc
    /\ UNCHANGED <<input, contexts, kube, layered, resolved, todo, header, ran>>

use_defaults == ~(input.no_default_rules \/ replace_defaults)

(* Mutant: the user's rules come before the kube rules.                    *)
Mut_Layers == (IF use_defaults THEN Auth ELSE <<>>) \o (user_layer \o (kube.rules
              \o (IF use_defaults THEN AgentDefaults \o GenericDefaults ELSE <<>>)))

Layers == ((IF use_defaults THEN Auth ELSE <<>>) \o kube.rules) \o (user_layer
          \o (IF use_defaults THEN AgentDefaults \o GenericDefaults ELSE <<>>))

(* Every layer is loaded; an empty list would deny everything.             *)
Layer ==
    /\ pc = "sources" /\ sources = <<>>
    /\ layered' = Layers
    /\ pc' = IF Layers = <<>> THEN "failed" ELSE "rules"
    /\ UNCHANGED <<input, contexts, kube, sources, user_layer,
                   replace_defaults, resolved, todo, header, ran>>

-----------------------------------------------------------------------------
(* rules.resolve: one rule after the other.                                *)

Given(field) == IF field = Absent THEN {} ELSE field
Unusable(field) == field \in {Malformed, {}}

(* A tunnel carries no plaintext to match or to inject into, and needs a   *)
(* name or a network; an HTTP rule needs hosts. An empty methods list is   *)
(* let through, an empty list of paths is not.                             *)
Faulty(r) ==
    IF r.l4
    THEN \/ r.hosts = Absent /\ r.cidrs = Absent
         \/ \E f \in {r.methods, r.paths, r.inject} : f # Absent
         \/ Unusable(r.hosts) \/ Unusable(r.cidrs)
    ELSE \/ r.hosts = Absent \/ Unusable(r.hosts)
         \/ r.methods = Malformed
         \/ Unusable(r.paths)
         \/ r.inject = Malformed

Rank == Len(resolved) + 1   \* of the rule at hand

(* _validate_and_resolve_rule up to the header.                            *)
ValidateRule ==
    /\ pc = "rules" /\ Rank <= Len(layered)
    /\ LET r == layered[Rank]
       IN  IF Faulty(r) THEN Fail /\ UNCHANGED <<todo, header>>
           ELSE /\ pc' = "header"
                /\ todo' = IF r.inject = Absent THEN <<>> ELSE r.inject
                /\ header' = <<>>
    /\ UNCHANGED <<input, contexts, kube, sources, user_layer,
                   replace_defaults, layered, resolved, ran>>

(* Mutant: a value that is no string is let through.                       *)
Mut_Literal ==
    /\ pc = "header" /\ todo # <<>> /\ Head(todo).kind \in {"text", "malformed"}
    /\ header' = Append(header, Head(todo))
    /\ todo' = Tail(todo)
    /\ UNCHANGED <<input, pc, contexts, kube, sources, user_layer,
                   replace_defaults, layered, resolved, ran>>

(* Literal text stays; a value that is no string ends the start-up.        *)
Literal ==
    /\ pc = "header" /\ todo # <<>> /\ Head(todo).kind \in {"text", "malformed"}
    /\ IF Head(todo).kind = "malformed" THEN Fail /\ UNCHANGED <<todo, header>>
       ELSE /\ header' = Append(header, Head(todo))
            /\ todo' = Tail(todo)
            /\ UNCHANGED pc
    /\ UNCHANGED <<input, contexts, kube, sources, user_layer,
                   replace_defaults, layered, resolved, ran>>

(* Mutant: what came out of the keyring is scanned again.                  *)
Mut_Keyring ==
    /\ pc = "header" /\ todo # <<>> /\ Head(todo).kind = "keyring"
    /\ LET secret == input.keyring[Head(todo).of]
       IN  IF secret = Absent THEN Fail /\ UNCHANGED <<todo, header>>
           ELSE /\ todo' = <<secret>> \o Tail(todo)
                /\ UNCHANGED <<pc, header>>
    /\ UNCHANGED <<input, contexts, kube, sources, user_layer,
                   replace_defaults, layered, resolved, ran>>

(* The substitution is one pass: whatever the secret looks like, it is     *)
(* text.                                                                   *)
Keyring ==
    /\ pc = "header" /\ todo # <<>> /\ Head(todo).kind = "keyring"
    /\ LET secret == input.keyring[Head(todo).of]
       IN  IF secret = Absent THEN Fail /\ UNCHANGED <<todo, header>>
           ELSE /\ header' = Append(header, secret)
                /\ todo' = Tail(todo)
                /\ UNCHANGED pc
    /\ UNCHANGED <<input, contexts, kube, sources, user_layer,
                   replace_defaults, layered, resolved, ran>>

(* _run_exec: the command has run on the host whatever becomes of it.      *)
Exec ==
    /\ pc = "header" /\ todo # <<>> /\ Head(todo).kind = "exec"
    /\ LET cmd == Head(todo).of
       IN  /\ ran' = IF input.allow_exec THEN ran \cup {cmd} ELSE ran
           /\ IF ~input.allow_exec \/ cmd \in input.failing
              THEN Fail /\ UNCHANGED <<todo, header>>
              ELSE /\ header' = Append(header, [kind |-> "text", of |-> cmd])
                   /\ todo' = Tail(todo)
                   /\ UNCHANGED pc
    /\ UNCHANGED <<input, contexts, kube, sources, user_layer,
                   replace_defaults, layered, resolved>>

(* The resolved rule as the addon's configure compiles it.                 *)
Compiled(r, h) ==
    [l4 |-> r.l4, hosts |-> Given(r.hosts),
     cidrs |-> IF r.l4 THEN Given(r.cidrs) ELSE {},
     methods |-> Given(r.methods), paths |-> Given(r.paths), inject |-> h]

RuleDone ==
    /\ pc = "header" /\ todo = <<>>
    /\ resolved' = Append(resolved, Compiled(layered[Rank], header))
    /\ pc' = "rules"
    /\ UNCHANGED <<input, contexts, kube, sources, user_layer,
                   replace_defaults, layered, todo, header, ran>>

Store ==
    /\ pc = "rules" /\ Rank > Len(layered)
    /\ pc' = "done"
    /\ UNCHANGED <<input, contexts, kube, sources, user_layer,
                   replace_defaults, layered, resolved, todo, header, ran>>

Next == \/ ReadContext \/ KubeDone \/ ReadSource \/ Layer \/ ValidateRule
        \/ Literal \/ Keyring \/ Exec \/ RuleDone \/ Store

Spec == Init /\ [][Next]_vars

-----------------------------------------------------------------------------
(* The addon on the resolved list.                                         *)

Admits(r, q) ==
    /\ ~r.l4 /\ q.host \in r.hosts
    /\ r.methods # {} => q.method \in r.methods
    /\ r.paths # {} => q.path \in r.paths

(* _match_rule: i is the rank of the first rule that admits the request.   *)
match_rule(q, i) ==
    /\ i \in DOMAIN resolved /\ Admits(resolved[i], q)
    /\ \A j \in DOMAIN resolved : Admits(resolved[j], q) => i <= j

(* _match_l4: a literal address is matched by networks only, a name by     *)
(* patterns only.                                                          *)
Tunnels(r, h) == r.l4 /\ IF h \in IpHosts THEN h \in r.cidrs ELSE h \in r.hosts
match_l4(h) == \E i \in DOMAIN resolved : Tunnels(resolved[i], h)

-----------------------------------------------------------------------------
(* Properties.                                                             *)

TypeOK ==
    /\ input \in Input
    /\ pc \in {"kube", "sources", "rules", "header", "done", "failed"}
    /\ contexts \in Seq(Context) /\ sources \in Seq(Source)
    /\ kube \in [rules : Seq(Written), certs : SUBSET Hosts, seen : SUBSET Hosts]
    /\ user_layer \in Seq(Written) /\ layered \in Seq(Written)
    /\ replace_defaults \in BOOLEAN
    /\ resolved \in Seq(Rule)
    /\ todo \in Seq(Piece) /\ header \in Seq(Resolved)
    /\ ran \in SUBSET Names

(* The inputs as the docstring of rules.resolve reads them                 *)
(* (rules.py:200-220): the flag, or any one file, drops the auth and the   *)
(* built-in layers and keeps the kube and the user's rules; a layer is a   *)
(* context, a source or a list of built-in rules, and they come in this    *)
(* order.  docs/rules.md:24-25 has the flag leave only the user's rules.   *)
DefaultsOn == /\ ~input.no_default_rules
              /\ \A s \in DOMAIN input.sources :
                    ~(input.sources[s].kind = "file" /\ input.sources[s].replace)
On(layer) == IF DefaultsOn THEN layer ELSE <<>>
KubeRules == [k \in DOMAIN input.kube |-> KubeRule(input.kube[k])]
Credentials == On(Auth) \o KubeRules
DocLayers == <<Credentials>>
             \o [s \in DOMAIN input.sources |-> input.sources[s].rules]
             \o <<On(AgentDefaults), On(GenericDefaults)>>

(* What the header of a written rule is to be.                             *)
Value(p) == IF p.kind = "keyring" THEN input.keyring[p.of]
            ELSE [kind |-> "text", of |-> p.of]
Expected(r) == Compiled(r, IF r.inject = Absent THEN <<>>
                           ELSE [n \in DOMAIN r.inject |-> Value(r.inject[n])])

(* The k-th rule of layer l is the layers' choice for the request: no      *)
(* earlier rule of its layer and no rule of an earlier layer admits it.    *)
Chosen(l, k, q) ==
    LET Admitting(m) == {n \in DOMAIN DocLayers[m] :
                            Admits(Expected(DocLayers[m][n]), q)}
    IN  /\ k \in Admitting(l)
        /\ \A n \in Admitting(l) : k <= n
        /\ \A m \in 1..(l - 1) : Admitting(m) = {}

(* The addon's first match in the one list is the choice by layer that the *)
(* docstring of rules.resolve describes (auth, kube, the user's sources in *)
(* order, the agent's defaults, the generic ones; without the defaults     *)
(* only kube and user, which is the docstring's account and not that of    *)
(* docs/rules.md:24-25), with the header that rule asks for; what no layer *)
(* admits is refused; and a host is tunnelled exactly if a rule asks for   *)
(* it (rules.resolve, _match_rule, _match_l4).                             *)
LayersDecide ==
    pc = "done" =>
        \A q \in Request :
            /\ \A l \in DOMAIN DocLayers : \A k \in DOMAIN DocLayers[l] :
                  Chosen(l, k, q) =>
                     \E i \in DOMAIN resolved :
                        match_rule(q, i) /\ resolved[i] = Expected(DocLayers[l][k])
            /\ (\A l \in DOMAIN DocLayers : \A k \in DOMAIN DocLayers[l] :
                  ~Chosen(l, k, q)) => \A i \in DOMAIN resolved : ~match_rule(q, i)
            /\ match_l4(q.host) <=>
                  \E l \in DOMAIN DocLayers : \E k \in DOMAIN DocLayers[l] :
                     Tunnels(Expected(DocLayers[l][k]), q.host)

(* No rule of the user's takes a request away from the rule that injects a *)
(* credential: if a rule of the auth or the kube layer admits a request,   *)
(* the first match is one of that layer (the order of rules.resolve; a     *)
(* tunnel, which is decided before any match, can still take its host).    *)
CredentialsNotShadowed ==
    pc = "done" =>
        \A q \in Request : \A i \in DOMAIN resolved :
            /\ match_rule(q, i)
            /\ \E c \in DOMAIN Credentials :
                  Admits(Compiled(Credentials[c], <<>>), q)
            => i <= Len(Credentials)

(* Each selected context keeps its own credential: what goes to its API    *)
(* server, unless it is tunnelled or an auth rule names that host, carries *)
(* that context's token and no client certificate, or the certificate and  *)
(* no token, whatever other contexts and rules say (kube.resolve refuses   *)
(* clashing hosts).                                                        *)
KubeHostsServed ==
    pc = "done" =>
        \A k \in DOMAIN input.kube : \A q \in Request :
            LET c == input.kube[k]
            IN  /\ q.host = c.host /\ ~match_l4(c.host)
                /\ \A a \in DOMAIN On(Auth) : ~Admits(Compiled(Auth[a], <<>>), q)
                => \E i \in DOMAIN resolved :
                      /\ match_rule(q, i)
                      /\ resolved[i].inject = Expected(KubeRule(c)).inject
                      /\ c.host \in kube.certs <=> resolved[i].inject = <<>>

(* A command runs on the host only with --allow-exec and only if it is     *)
(* written in a rule or a token that is part of this start-up; a secret    *)
(* that reads like a placeholder never runs (_resolve_placeholders is one  *)
(* pass).                                                                  *)
OnlyWrittenCommandsRun ==
    \A cmd \in ran :
        /\ input.allow_exec
        /\ \E n \in DOMAIN layered :
              /\ layered[n].inject # Absent
              /\ [kind |-> "exec", of |-> cmd] \in
                    {layered[n].inject[m] : m \in DOMAIN layered[n].inject}
=============================================================================
