--------------------------- MODULE MC_RuleLayers ---------------------------
(* Up to two kube contexts and two sources of user rules: broad, narrow,   *)
(* tunnelling, invalid and command-running ones; an API server known by    *)
(* name and one known by its address; a keyring entry that reads like a    *)
(* placeholder.                                                            *)
EXTENDS RuleLayers
CONSTANTS api, k8s, ip, web

AllHosts == {api, k8s, ip, web}
Addresses == {ip}
Verbs == {"GET", "POST"}
SomePaths == {"/a", "/b"}
SomeNames == {"oauth", "token", "entry", "lost", "cmd1", "cmd2"}

Text(n)   == [kind |-> "text", of |-> n]
Secret(n) == [kind |-> "keyring", of |-> n]
Run(n)    == [kind |-> "exec", of |-> n]
Broken    == [kind |-> "malformed", of |-> "token"]
Http(h, m, p, i) == [l4 |-> FALSE, hosts |-> h, cidrs |-> Absent, methods |-> m,
                     paths |-> p, inject |-> i]
Tunnel(h, c, m) == [l4 |-> TRUE, hosts |-> h, cidrs |-> c, methods |-> m,
                    paths |-> Absent, inject |-> Absent]

AuthRules    == <<Http({api}, Absent, Absent, <<Text("oauth")>>)>>
AgentRules   == <<Http({web}, {"POST"}, {"/b"}, Absent)>>
GenericRules == <<Http(AllHosts, {"GET"}, Absent, Absent)>>

Ctx(h, creds) == [sound |-> TRUE, host |-> h, token |-> Text("token"), creds |-> creds]
Contexts == {Ctx(k8s, {"token"}), Ctx(k8s, {"cert"}), Ctx(ip, {"cert"}),
             Ctx(ip, {"tokenFile", "cert"}), Ctx(ip, {"exec"}),
             Ctx(api, {"lostTokenFile"}), [Ctx(ip, {"cert"}) EXCEPT !.sound = FALSE]}

Broad  == Http(AllHosts, {}, Absent, Absent)
Narrow == Http({web}, {"POST"}, {"/b"}, <<Text("token"), Secret("entry")>>)
Inline == {Broad, Narrow, Http({web}, Absent, {"/a"}, <<Run("cmd1"), Broken>>),
           Http({web}, Absent, Absent, <<Run("cmd1"), Run("cmd2")>>),
           Http({k8s}, Absent, Absent, <<Secret("lost")>>),
           Http(AllHosts, {"GET"}, {}, Absent),
           Tunnel({api, ip}, Absent, Absent), Tunnel(Absent, {ip}, Absent),
           Tunnel({web}, Absent, {"GET"}), Tunnel(Absent, Absent, Absent)}
File(rs, replace) == [kind |-> "file", rules |-> rs, replace |-> replace]
Sources == {[kind |-> "inline", rules |-> <<r>>, replace |-> FALSE] : r \in Inline}
           \cup {File(<<Narrow, Broad>>, FALSE), File(<<Broad>>, TRUE),
                 File(<<>>, TRUE), [kind |-> "broken", rules |-> <<>>, replace |-> FALSE]}

UpToTwo(S) == {<<>>} \cup {<<a>> : a \in S} \cup {<<a, b>> : a \in S, b \in S}
Entries == [n \in SomeNames |-> IF n = "entry" THEN Run("cmd2") ELSE Absent]

StartUp(k, s, n, a, f) ==
    [kube |-> k, sources |-> s, no_default_rules |-> n, allow_exec |-> a,
     keyring |-> Entries, failing |-> f]
ExecCases == {<<FALSE, {}>>, <<TRUE, {}>>, <<TRUE, {"cmd2"}>>}

(* All pairs of sources beside a few contexts, all pairs of contexts       *)
(* beside a few sources.                                                   *)
StartUps ==
    {StartUp(k, s, n, e[1], e[2]) :
        k \in {<<>>, <<Ctx(k8s, {"token"})>>, <<Ctx(ip, {"cert"}), Ctx(k8s, {"token"})>>},
        s \in UpToTwo(Sources), n \in BOOLEAN, e \in ExecCases}
    \cup {StartUp(k, s, n, TRUE, {}) :
        k \in UpToTwo(Contexts), n \in BOOLEAN,
        s \in {<<>>, <<File(<<Broad>>, TRUE)>>,
               <<File(<<Tunnel(Absent, {ip}, Absent), Narrow, Broad>>, FALSE)>>}}
=============================================================================
