----------------------------- MODULE MC_Startup -----------------------------
(* The options one group at a time, in both modes: mounts over a small     *)
(* home, integrations, AWS profiles, and the state of the host's files.    *)
EXTENDS Startup

H == <<"home", "u">>
In(names) == H \o names
Proj == In(<<"proj">>)
Sub == In(<<"proj", "sub">>)
Lib == In(<<"lib">>)
Link == In(<<"link">>)
Maven == In(<<".m2", "repository">>)
Skills == In(<<".claude", "skills">>)
Rc == In(<<"proj", "rc">>)
Gone == In(<<"gone">>)
Etc == <<"etc">>
There == {H, Proj, Sub, Lib, Maven, Skills, Rc, Etc}
Folders == There \ {Rc}
(* Link is a symbolic link to Sub.                                         *)
RealPaths == [p \in There \cup {Link, Gone} |-> IF p = Link THEN Sub ELSE p]

Plain(mode) ==
    [mode |-> mode, flags |-> {}, cwd |-> Proj, rw |-> {}, ro |-> {}, profiles |-> {},
     profile |-> NoProfile, expires |-> 3, keyring |-> TRUE, hasSettings |-> TRUE,
     settings |-> {}, managed |-> {}]
Modes == {"anthropic", "bedrock"}

Mounted ==
    {[Plain("bedrock") EXCEPT !.cwd = c, !.rw = w, !.ro = o, !.flags = f] :
        c \in {Proj, Sub, Etc},
        w \in {{}, {Lib}, {Maven}, {Link}, {H}, {Rc}, {Gone}, {Lib, Skills}},
        o \in {{}, {Lib}, {Skills}, {Sub}, {Proj}, {Etc}}, f \in {{}, {"maven"}}}
Integrated ==
    {[Plain("bedrock") EXCEPT !.flags = f] :
        f \in SUBSET {"ssh", "kube", "kube-certs", "git", "ca"}
              \cup {{x} : x \in Flags} \cup {{"git", "git-broken"}, {"kube", "kube-broken"}}}
    \cup {[Plain("anthropic") EXCEPT !.flags = Flags \ {"ca-broken", "git-broken",
                                                        "kube-broken", "rules-broken"}]}
WithAws ==
    {[Plain(m) EXCEPT !.profiles = ps, !.profile = p] :
        m \in Modes, ps \in {{"dev"}, {"dev", "prod"}, {"]"}}, p \in {"dev", "ops"}}
OfHost ==
    {[Plain(m) EXCEPT !.expires = e, !.keyring = k, !.hasSettings = s] :
        m \in Modes, e \in 0..4, k \in BOOLEAN, s \in BOOLEAN}
    \cup {[Plain(m) EXCEPT !.settings = s, !.managed = g, !.profiles = {"dev"}] :
            m \in Modes, s \in SUBSET {"bearer", "mcp"}, g \in SUBSET {"bearer", "mcp"}}

Runs == Mounted \cup Integrated \cup WithAws \cup OfHost
=============================================================================
