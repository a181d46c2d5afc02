------------------------------ MODULE Startup ------------------------------
(***************************************************************************)
(* cli.run up to the attach, for the Claude agent: the options are         *)
(* checked, the infrastructure and the image prepared, credentials         *)
(* captured from the host, and the secrets and mounts of the three pods    *)
(* put together.  It takes minutes, and the host goes on meanwhile: time   *)
(* passes, the user's own Claude renews its token, an administrator        *)
(* installs or removes managed settings.                                   *)
(*                                                                         *)
(* What the rules are is RuleLayers' subject, the images and the CA are    *)
(* AgentImage's, the key directory is SshPerimeter's.                      *)
(***************************************************************************)
EXTENDS Naturals, Sequences

CONSTANTS
    Home,                 \* the user's home, as a path
    Real,                 \* Path.resolve: from paths as given to real ones
    Exists, Dirs,         \* the paths there are, and those that are directories
    BadProfiles,          \* profile names that no credentials file could hold
    Inputs,               \* the inputs of a run, see Input
    Threshold, Life,      \* 300 s, and how long a renewed token is good for
    MaxTime, MaxEdits     \* bounds: the clock, changes on the host

Flags == {"maven", "debug", "ssh", "ca", "ca-broken", "kube", "kube-certs", "kube-ca",
          "kube-broken", "git", "git-broken", "rules-broken"}
Credentials == {"oauth", "bearer", "aws", "mcp", "kube", "ssh"}
Paths == Seq(STRING)

(* expires: of the host's OAuth token, 0 without credentials.  settings:   *)
(* the real credentials the host's settings.json holds, with profile as    *)
(* its AWS_PROFILE; managed: those of the managed settings.                *)
NoProfile == "none"
Input == [mode : {"anthropic", "bedrock"}, flags : SUBSET Flags, cwd : Paths,
          rw : SUBSET Paths, ro : SUBSET Paths, profiles : SUBSET STRING,
          profile : STRING, expires : Nat, keyring : BOOLEAN, hasSettings : BOOLEAN,
          settings : SUBSET Credentials, managed : SUBSET Credentials]

ASSUME StartupAssumption ==
    /\ Home \in Paths
    /\ Threshold \in Nat /\ Life \in Nat /\ Threshold < Life
    /\ MaxTime \in Nat /\ MaxEdits \in Nat
    /\ Inputs \subseteq Input
    /\ \A i \in Inputs : i.expires <= Life

VARIABLES
    input,
    pc,
    now, host, edits,  \* the clock; the host's token and managed settings
    checked, renewal,  \* when the token was looked at, what came of renewing it
    token,             \* expiry of the token that was captured
    profiles,          \* AWS profiles left to export
    secrets,           \* the Secrets made so far, with the real credentials in each
    mounts             \* what each pod mounts

vars == <<input, pc, now, host, edits, checked, renewal, token, profiles, secrets, mounts>>
world == <<input, now, host, edits>>
oauth == <<checked, renewal, token>>
made == <<profiles, secrets, mounts>>

(* A mount: where, of which Secret if any, and whether the user named the  *)
(* path.                                                                   *)
NoSecret == "none"
Mount(path, secret) ==
    [path |-> path, secret |-> secret, rw |-> FALSE, user |-> FALSE]
Shared(path) == [Mount(path, NoSecret) EXCEPT !.rw = TRUE]
Chosen(path, rw) == [Mount(path, NoSecret) EXCEPT !.rw = rw, !.user = TRUE]

NoMounts == [agent |-> {}, mitm |-> {}, holder |-> {}]

Init ==
    /\ input \in Inputs
    /\ pc = "options"
    /\ now = 0 /\ edits = 0
    /\ host \in [expires : {input.expires}, managed : BOOLEAN]
    /\ checked = 0 /\ renewal = "none" /\ token = 0
    /\ profiles = {} /\ secrets = <<>> /\ mounts = NoMounts

Given(flag) == flag \in input.flags
Add(more) ==
    secrets' = [n \in DOMAIN secrets \cup DOMAIN more |->
                    IF n \in DOMAIN more THEN more[n] ELSE secrets[n]]
If(condition, set) == IF condition THEN set ELSE {}
Goto(from, to) == pc = from /\ pc' = to

(* A command, the cluster or a file may fail any of the slow steps.        *)
Fail ==
    /\ pc \in {"bootstrap", "renew", "image", "login", "apply", "wait"}
    /\ pc' = "failed"
    /\ UNCHANGED <<world, oauth, made>>

-----------------------------------------------------------------------------
(* The options.                                                            *)

Under(path, dir) == Len(dir) <= Len(path) /\ SubSeq(path, 1, Len(dir)) = dir

Nested(a, b) == a # b /\ (Under(a, b) \/ Under(b, a))

Writable == {Real[p] : p \in input.rw}
ReadOnly == {Real[p] : p \in input.ro}

(* validate_cwd, validate_mounts: what is asked for exists, in the user's  *)
(* home, is not the working directory, is read-only or writable, and no    *)
(* writable directory lies in another.                                     *)
BadMounts ==
    \/ ~Under(input.cwd, Home)
    \/ \E p \in Writable \cup ReadOnly :
            p \notin Exists \/ ~Under(p, Home) \/ p = input.cwd
    \/ Writable \cap ReadOnly # {}
    \/ \E a, b \in {input.cwd} \cup (Writable \cap Dirs) : Nested(a, b)

CheckOptions ==
    /\ Goto("options", IF BadMounts \/ Given("ca-broken") THEN "failed" ELSE "bootstrap")
    /\ UNCHANGED <<world, oauth, made>>

Bootstrap ==
    /\ Goto("bootstrap", "profiles")
    /\ UNCHANGED <<world, oauth, made>>

(* discover_aws_profiles: only Bedrock reads the settings for it.          *)
ResolveProfiles ==
    /\ IF input.mode = "bedrock" /\ ~input.hasSettings
       THEN Goto("profiles", "failed") /\ UNCHANGED profiles
       ELSE /\ Goto("profiles", IF input.mode = "anthropic" THEN "check" ELSE "keyring")
            /\ profiles' = input.profiles
                    \cup (IF input.mode = "bedrock" THEN {input.profile} \ {NoProfile} ELSE {})
    /\ UNCHANGED <<world, oauth, secrets, mounts>>

-----------------------------------------------------------------------------
(* prepare: credentials and settings are captured.                         *)

(* Mutant: a token that is about to expire is taken for a good one.        *)
Mut_Expiring == host.expires <= now

(* seconds_left > threshold_seconds returns without a refresh.             *)
Expiring == host.expires <= now + Threshold

CheckToken ==
    /\ IF host.expires = 0 THEN Goto("check", "failed")
       ELSE Goto("check", IF Expiring THEN "renew" ELSE "capture")
    /\ checked' = now
    /\ UNCHANGED <<world, renewal, token, made>>

(* claude -p noop: whether it renews the token is up to it.                *)
RenewToken ==
    /\ Goto("renew", "capture")
    /\ \/ renewal' = "unchanged" /\ UNCHANGED host
       \/ renewal' = "renewed" /\ host' = [host EXCEPT !.expires = now + Life]
    /\ UNCHANGED <<input, now, edits, checked, token, made>>

(* The rules get the real token, the agent a made-up one.                  *)
CaptureToken ==
    /\ Goto("capture", "settings")
    /\ token' = host.expires
    /\ Add([claude_fake_creds |-> {}, rules_json |-> {"oauth"}])
    /\ UNCHANGED <<world, checked, renewal, profiles, mounts>>

ReadKeyring ==
    /\ Goto("keyring", IF input.keyring THEN "settings" ELSE "failed")
    /\ Add([rules_json |-> {"bearer"}])
    /\ UNCHANGED <<world, oauth, profiles, mounts>>

(* The mode's placeholders win over the values the settings hold.          *)
Placeholders == IF input.mode = "bedrock" THEN {"bearer"} ELSE {}

Mut_Sanitized(real) == real \ {"mcp"}

(* managed_settings_bytes.                                                 *)
Sanitized(real) == real \ ({"mcp"} \cup Placeholders)

CopySettings ==
    /\ IF ~input.hasSettings THEN Goto("settings", "failed") /\ UNCHANGED secrets
       ELSE /\ Goto("settings", "image")
            /\ LET always == [claude_settings |-> input.settings \ Placeholders,
                              claude_md |-> {}]
               IN  IF host.managed
                   THEN Add([n \in DOMAIN always \cup {"claude_managed_settings"} |->
                                IF n \in DOMAIN always THEN always[n]
                                ELSE Sanitized(input.managed)])
                   ELSE Add(always)
    /\ UNCHANGED <<world, oauth, profiles, mounts>>

EnsureImage == Goto("image", "dummies") /\ UNCHANGED <<world, oauth, made>>

(* dummy_aws_credentials_ini: every name is looked at before any export.   *)
DummyCredentials ==
    /\ Goto("dummies", IF profiles \cap BadProfiles # {} THEN "failed" ELSE "aws")
    /\ UNCHANGED <<world, oauth, made>>

(* export_aws_profile_env, profile by profile: a failure is answered by    *)
(* aws sso login and one more try.  After the last the two Secrets are     *)
(* made.                                                                   *)
Exported(p) ==
    /\ profiles' = profiles \ {p}
    /\ IF profiles = {p} THEN Add([aws_sigv4_creds |-> {"aws"}, agent_aws_creds |-> {}])
       ELSE UNCHANGED secrets
    /\ UNCHANGED <<world, oauth, mounts>>

ExportProfile ==
    \E p \in profiles :
        \/ Goto("aws", "aws") /\ Exported(p)
        \/ Goto("aws", "login") /\ UNCHANGED <<world, oauth, made>>

SsoLogin == \E p \in profiles : Goto("login", "aws") /\ Exported(p)

(* resolve_kube, whose rules carry the clusters' tokens, and resolve_rules. *)
Resolve ==
    /\ profiles = {}
    /\ Goto("aws", IF Given("rules-broken") \/ (Given("kube") /\ Given("kube-broken"))
                   THEN "failed" ELSE "contribute")
    /\ Add([rules_json |-> secrets.rules_json \cup If(Given("kube"), {"kube"})])
    /\ UNCHANGED <<world, oauth, profiles, mounts>>

-----------------------------------------------------------------------------
(* The pods.                                                               *)

At(names) == Home \o names
ManagedPath == <<"etc", "claude-code", "managed-settings.json">>

(* Mutant: the fake credentials are mounted in both modes.                 *)
Mut_ClaudeMounts ==
    {Mount(At(<<".claude", "settings.json">>), "claude_settings"),
     Mount(At(<<".claude", "CLAUDE.md">>), "claude_md"),
     Mount(At(<<".claude", ".credentials.json">>), "claude_fake_creds"),
     Chosen(input.cwd, TRUE)}
    \cup If(host.managed, {Mount(ManagedPath, "claude_managed_settings")})

(* ClaudeAgent._volumes_and_mounts; whether there are managed settings is  *)
(* looked up once more.                                                    *)
ClaudeMounts ==
    {Mount(At(<<".claude", "settings.json">>), "claude_settings"),
     Mount(At(<<".claude", "CLAUDE.md">>), "claude_md"),
     Shared(At(<<".claude", "projects", "id">>)), Shared(At(<<".claude.json">>)),
     Shared(<<"var", "lib", "docker">>), Shared(<<"run">>), Chosen(input.cwd, TRUE)}
    \cup If(input.mode = "anthropic",
            {Mount(At(<<".claude", ".credentials.json">>), "claude_fake_creds")})
    \cup If("agent_aws_creds" \in DOMAIN secrets,
            {Mount(At(<<".aws", "credentials">>), "agent_aws_creds")})
    \cup If(host.managed, {Mount(ManagedPath, "claude_managed_settings")})
    \cup {Mount(p, NoSecret) : p \in Exists \cap
            {At(<<".claude", n>>) : n \in {"commands", "skills", "plugins"}}}
    \cup {Shared(p) : p \in Exists \cap {At(<<".claude", "history.jsonl">>)}}
    \cup If(Given("maven"), {Shared(At(<<".m2", "repository">>))}
            \cup {Mount(p, NoSecret) : p \in Exists \cap {At(<<".m2", "settings.xml">>)}})
    \cup If(Given("debug"), {Shared(At(<<".claude", "debug">>))})

pod_contribution ==
    /\ Goto("contribute", "assemble")
    /\ mounts' = [mounts EXCEPT !.agent = ClaudeMounts]
    /\ UNCHANGED <<world, oauth, profiles, secrets>>

(* _base_manifests, _kube_secrets, _git_secret, the custom CA and the key  *)
(* holder's; the addon is a ConfigMap.                                     *)
KubeParts == If(Given("kube"), {"kube"} \cup (input.flags \cap {"kube-certs", "kube-ca"}))
MoreSecrets ==
    [n \in {"mitm_addon", "mitm_certs"} \cup KubeParts \cup (input.flags \cap {"git", "ca"})
           \cup If(Given("ssh"), {"ssh_agent_keys", "ssh_pub"}) |->
        CASE n = "ssh_agent_keys" -> {"ssh"}
          [] n = "kube-certs" -> {"kube"}
          [] OTHER -> {}]

AgentMounts ==
    If(Given("ssh"), {Mount(At(<<".ssh", "id.pub">>), "ssh_pub"),
                      Mount(At(<<".ssh", "config">>), "ssh_pub"),
                      Shared(<<"ssh-agent">>)})
    \cup If(Given("kube"), {Mount(<<"etc", "agent-uplink", "kube">>, "kube")})
    \cup If(Given("git"), {Mount(<<"etc", "gitconfig.d", "agent-uplink.inc">>, "git")})
    \cup {Chosen(p, TRUE) : p \in Writable} \cup {Chosen(p, FALSE) : p \in ReadOnly}

MitmMounts ==
    {Mount(<<"addon">>, "mitm_addon"), Mount(<<"rules">>, "rules_json"),
     Mount(<<"mitm-confdir">>, "mitm_certs")}
    \cup {Mount(<<n>>, n) : n \in If("aws_sigv4_creds" \in DOMAIN secrets, {"aws_sigv4_creds"})
                                 \cup (KubeParts \ {"kube"}) \cup (input.flags \cap {"ca"})}

(* _assemble_manifests: the mounts name Secrets by the same conditions.    *)
Assemble ==
    /\ Goto("assemble", IF Given("git") /\ Given("git-broken") THEN "failed" ELSE "apply")
    /\ Add(MoreSecrets)
    /\ mounts' = [agent |-> mounts.agent \cup AgentMounts, mitm |-> MitmMounts,
                  holder |-> If(Given("ssh"), {Mount(<<"keys">>, "ssh_agent_keys")})]
    /\ UNCHANGED <<world, oauth, profiles>>

Pods == DOMAIN NoMounts
Served(pod) == \A m \in mounts[pod] : m.secret \in DOMAIN secrets \cup {NoSecret}
Distinct(pod) == \A m, n \in mounts[pod] : m.path = n.path => m = n

(* The API server takes no pod that mounts two things in one place.        *)
Apply ==
    /\ Goto("apply", IF \A pod \in Pods : Distinct(pod) THEN "wait" ELSE "failed")
    /\ UNCHANGED <<world, oauth, made>>

(* A pod whose Secret is missing does not start: the wait runs out.        *)
Attach ==
    /\ Goto("wait", "attached")
    /\ \A pod \in Pods : Served(pod)
    /\ UNCHANGED <<world, oauth, made>>

-----------------------------------------------------------------------------
(* The host, while run is under way.                                       *)

Running == pc \notin {"attached", "failed"}

Tick ==
    /\ Running /\ now < MaxTime
    /\ now' = now + 1
    /\ UNCHANGED <<input, pc, host, edits, oauth, made>>

(* The user's Claude renews its token, or managed settings come or go.     *)
HostEdits ==
    /\ Running /\ edits < MaxEdits
    /\ \/ host.expires # 0 /\ host' = [host EXCEPT !.expires = now + Life]
       \/ host' = [host EXCEPT !.managed = ~@]
    /\ edits' = edits + 1
    /\ UNCHANGED <<input, pc, now, oauth, made>>

Next ==
    \/ CheckOptions \/ Bootstrap \/ ResolveProfiles
    \/ CheckToken \/ RenewToken \/ CaptureToken \/ ReadKeyring \/ CopySettings
    \/ EnsureImage \/ DummyCredentials \/ ExportProfile \/ SsoLogin \/ Resolve
    \/ pod_contribution \/ Assemble \/ Apply \/ Attach \/ Fail
    \/ Tick \/ HostEdits

Spec == Init /\ [][Next]_vars

-----------------------------------------------------------------------------
(* The token mitm injects (refresh_anthropic_oauth_if_expiring, prepare)   *)
(* is good when the session attaches, unless the start-up took longer than *)
(* the threshold allows for, or claude ran and did not renew it: nothing   *)
(* looks at the token again after prepare.                                 *)
FreshAtAttach ==
    pc = "attached" /\ input.mode = "anthropic" =>
        token > now \/ now > checked + Threshold \/ renewal = "unchanged"

(* The pods that are applied can start: every Secret one of them mounts    *)
(* was made, though names and conditions are written down in two places    *)
(* each, except for managed settings that were installed between prepare   *)
(* and pod_contribution; and two mounts of a pod meet in one place, or two *)
(* writable directories in one another, only if the user named a path that *)
(* the agent mounts for itself, which validate_mounts does not know of.    *)
MountsServed ==
    pc \in {"apply", "wait", "attached"} =>
        \A pod \in Pods : \A m \in mounts[pod] :
            /\ \/ m.secret \in DOMAIN secrets \cup {NoSecret}
               \/ m.secret = "claude_managed_settings" /\ edits > 0
            /\ \A n \in mounts[pod] : m # n /\ m.user = n.user =>
                    /\ m.path # n.path
                    /\ ~(m.rw /\ n.rw /\ Nested(m.path, n.path)
                         /\ {m.path, n.path} \cap (Exists \ Dirs) = {})

(* Whatever mitm injects or signs with, and whatever the holder has: the   *)
(* Secrets the agent's pod mounts hold no real credential but those of the *)
(* host's own settings, which are copied as they are, without the MCP      *)
(* servers' in managed settings and without the bearer token in Bedrock    *)
(* mode, for which mitm has it.                                            *)
PlaceholdersOnly ==
    pc \in {"apply", "wait", "attached"} =>
        \A m \in mounts.agent : m.secret \in DOMAIN secrets =>
            secrets[m.secret]
                \subseteq (input.settings \cup (input.managed \ {"mcp"})) \ Placeholders
=============================================================================
