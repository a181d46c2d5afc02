--------------------------- MODULE Startup_proofs ---------------------------
(***************************************************************************)
(* Theorems about Startup, for every input, clock, threshold and lifetime  *)
(* of a token.  FreshAtAttach needs to know the token, once it is read,    *)
(* good for the threshold from the moment it was looked at (Covered), and  *)
(* that moment past (Clocks); PlaceholdersOnly, what is in the Secrets     *)
(* that the agent may mount (Harmless), and that it mounts no other;       *)
(* MountsServed, which Secrets are made by when (MountInv), which mounts   *)
(* there can be, and that their paths keep apart.                          *)
(***************************************************************************)
EXTENDS Startup, SequenceTheorems, TLAPS

Clocks ==
    /\ now \in Nat /\ checked \in Nat /\ checked <= now
    /\ host.expires \in Nat /\ token \in Nat
    /\ host = [expires |-> host.expires, managed |-> host.managed]

Good(expires) == expires > checked + Threshold \/ renewal = "unchanged"

After == {"settings", "image", "dummies", "aws", "login", "contribute", "assemble",
          "apply", "wait", "attached"}

Covered ==
    /\ pc = "keyring" => input.mode # "anthropic"
    /\ pc = "capture" => Good(host.expires)
    /\ pc \in After /\ input.mode = "anthropic" => Good(token)

FreshInv == Clocks /\ Covered

LEMMA FreshInit == Init => FreshInv
<1>1. ASSUME Init PROVE FreshInv
  <2>1. input \in Input BY <1>1, StartupAssumption DEF Init
  <2>2. input.expires \in Nat BY <2>1 DEF Input
  <2>3. host.expires = input.expires /\ host = [expires |-> host.expires, managed |-> host.managed]
    BY <1>1 DEF Init
  <2>. QED BY <1>1, <2>2, <2>3 DEF Init, FreshInv, Clocks, Covered, After
<1>. QED BY <1>1

LEMMA FreshStep == FreshInv /\ [Next]_vars => FreshInv'
<1>. SUFFICES ASSUME FreshInv, [Next]_vars PROVE FreshInv' OBVIOUS
<1>. USE StartupAssumption DEF FreshInv, Clocks, Covered, After, Good
<1>1. CASE CheckToken BY <1>1 DEF CheckToken, Expiring, Goto, world, made
<1>2. CASE RenewToken BY <1>2 DEF RenewToken, Goto, made
<1>3. CASE CaptureToken BY <1>3 DEF CaptureToken, Goto, world
<1>4. CASE ReadKeyring BY <1>4 DEF ReadKeyring, Goto, world, oauth
<1>5. CASE ResolveProfiles BY <1>5 DEF ResolveProfiles, Goto, world, oauth
<1>6. CASE CheckOptions \/ Bootstrap \/ EnsureImage \/ DummyCredentials \/ Resolve
  BY <1>6 DEF CheckOptions, Bootstrap, EnsureImage, DummyCredentials, Resolve, Goto, world, oauth, made
<1>7. CASE CopySettings BY <1>7 DEF CopySettings, Goto, world, oauth
<1>8. CASE ExportProfile \/ SsoLogin
  BY <1>8 DEF ExportProfile, SsoLogin, Exported, Goto, world, oauth, made
<1>9. CASE pod_contribution \/ Assemble \/ Apply \/ Attach \/ Fail
  BY <1>9 DEF pod_contribution, Assemble, Apply, Attach, Fail, Goto, world, oauth, made
<1>10. CASE Tick BY <1>10 DEF Tick, oauth, made
<1>11. CASE HostEdits BY <1>11 DEF HostEdits, oauth, made
<1>12. CASE UNCHANGED vars BY <1>12 DEF vars
<1>. QED BY <1>1, <1>2, <1>3, <1>4, <1>5, <1>6, <1>7, <1>8, <1>9, <1>10, <1>11, <1>12 DEF Next

(* The token captured on the host is good when the session attaches,       *)
(* whatever the threshold, the tokens' lifetime and the pace of start-up:  *)
(* refresh_anthropic_oauth_if_expiring covers exactly a threshold's time.  *)
THEOREM FreshToken == Spec => []FreshAtAttach
<1>1. FreshInv => FreshAtAttach
  BY StartupAssumption DEF FreshInv, Clocks, Covered, After, Good, FreshAtAttach
<1>. QED BY <1>1, FreshInit, FreshStep, PTL DEF Spec

-----------------------------------------------------------------------------

Copied == (input.settings \cup (input.managed \ {"mcp"})) \ Placeholders

ForAgent == {"claude_settings", "claude_md", "claude_fake_creds", "agent_aws_creds",
             "claude_managed_settings", "ssh_pub", "kube", "git", NoSecret}

Harmless == \A n \in DOMAIN secrets \cap ForAgent : secrets[n] \subseteq Copied

MountsKnown == \A m \in mounts.agent : m.secret \in ForAgent

SecretInv == Harmless /\ MountsKnown

LEMMA AddKeeps ==
    ASSUME NEW more, Harmless, Add(more), UNCHANGED input,
           \A n \in DOMAIN more \cap ForAgent : more[n] \subseteq Copied
    PROVE  Harmless'
BY DEF Harmless, Add, Copied, Placeholders

LEMMA MountFields ==
    ASSUME NEW path, NEW secret, NEW rw
    PROVE  /\ Mount(path, secret).secret = secret
           /\ Shared(path).secret = NoSecret
           /\ Chosen(path, rw).secret = NoSecret
BY DEF Mount, Shared, Chosen

LEMMA ClaudeMountsKnown == \A m \in ClaudeMounts : m.secret \in ForAgent
<1>1. SUFFICES ASSUME NEW m \in ClaudeMounts PROVE m.secret \in ForAgent OBVIOUS
<1>2. \/ \E path : \E s \in ForAgent : m = Mount(path, s)
      \/ \E path : m = Shared(path)
      \/ \E path : \E rw : m = Chosen(path, rw)
  BY <1>1 DEF ClaudeMounts, ForAgent, If
<1>3. NoSecret \in ForAgent BY DEF ForAgent
<1>. QED BY <1>2, <1>3, MountFields

LEMMA AgentMountsKnown == \A m \in AgentMounts : m.secret \in ForAgent
<1>1. SUFFICES ASSUME NEW m \in AgentMounts PROVE m.secret \in ForAgent OBVIOUS
<1>2. \/ \E path : \E s \in ForAgent : m = Mount(path, s)
      \/ \E path : m = Shared(path)
      \/ \E path : \E rw : m = Chosen(path, rw)
  BY <1>1 DEF AgentMounts, ForAgent, If
<1>3. NoSecret \in ForAgent BY DEF ForAgent
<1>. QED BY <1>2, <1>3, MountFields

LEMMA SecretInit == Init => SecretInv
BY DEF Init, SecretInv, Harmless, MountsKnown, NoMounts

LEMMA SecretStep == SecretInv /\ [Next]_vars => SecretInv'
<1>. SUFFICES ASSUME SecretInv, [Next]_vars PROVE SecretInv' OBVIOUS
<1>h. Harmless /\ MountsKnown BY DEF SecretInv
<1>m. ASSUME UNCHANGED mounts PROVE MountsKnown' BY <1>m, <1>h DEF MountsKnown
<1>s. ASSUME UNCHANGED <<input, secrets>> PROVE Harmless'
  BY <1>s, <1>h DEF Harmless, Copied, Placeholders
<1>1. CASE CaptureToken
  <2>1. Add([claude_fake_creds |-> {}, rules_json |-> {"oauth"}]) /\ UNCHANGED <<input, mounts>>
    BY <1>1 DEF CaptureToken, world
  <2>2. "rules_json" \notin ForAgent BY DEF ForAgent, NoSecret
  <2>3. Harmless' BY <2>1, <2>2, <1>h, AddKeeps
  <2>. QED BY <2>1, <2>3, <1>m DEF SecretInv
<1>2. CASE ReadKeyring
  <2>1. Add([rules_json |-> {"bearer"}]) /\ UNCHANGED <<input, mounts>>
    BY <1>2 DEF ReadKeyring, world
  <2>2. "rules_json" \notin ForAgent BY DEF ForAgent, NoSecret
  <2>3. Harmless' BY <2>1, <2>2, <1>h, AddKeeps
  <2>. QED BY <2>1, <2>3, <1>m DEF SecretInv
<1>3. CASE CopySettings
  <2>. DEFINE always == [claude_settings |-> input.settings \ Placeholders, claude_md |-> {}]
              all == [n \in DOMAIN always \cup {"claude_managed_settings"} |->
                         IF n \in DOMAIN always THEN always[n] ELSE Sanitized(input.managed)]
  <2>1. UNCHANGED <<input, mounts>> BY <1>3 DEF CopySettings, world
  <2>2. \A n \in DOMAIN always : always[n] \subseteq Copied BY DEF Copied
  <2>3. \A n \in DOMAIN all : all[n] \subseteq Copied
    <3>1. Sanitized(input.managed) \subseteq Copied BY DEF Sanitized, Copied
    <3>. QED BY <2>2, <3>1
  <2>4. CASE UNCHANGED secrets BY <2>4, <2>1, <1>s, <1>m DEF SecretInv
  <2>5. CASE Add(always) BY <2>5, <2>1, <2>2, <1>h, <1>m, AddKeeps DEF SecretInv
  <2>6. CASE Add(all) BY <2>6, <2>1, <2>3, <1>h, <1>m, AddKeeps DEF SecretInv
  <2>. QED BY <1>3, <2>4, <2>5, <2>6 DEF CopySettings
<1>4. CASE ExportProfile \/ SsoLogin
  <2>1. UNCHANGED <<input, mounts>>
    BY <1>4 DEF ExportProfile, SsoLogin, Exported, world, made
  <2>2. UNCHANGED secrets \/ Add([aws_sigv4_creds |-> {"aws"}, agent_aws_creds |-> {}])
    BY <1>4 DEF ExportProfile, SsoLogin, Exported, made
  <2>3. "aws_sigv4_creds" \notin ForAgent BY DEF ForAgent, NoSecret
  <2>4. CASE Add([aws_sigv4_creds |-> {"aws"}, agent_aws_creds |-> {}])
    BY <2>1, <2>3, <2>4, <1>h, <1>m, AddKeeps DEF SecretInv
  <2>. QED BY <2>1, <2>2, <2>4, <1>s, <1>m DEF SecretInv
<1>5. CASE Resolve
  <2>. DEFINE more == [rules_json |-> secrets.rules_json \cup If(Given("kube"), {"kube"})]
  <2>1. Add(more) /\ UNCHANGED <<input, mounts>> BY <1>5 DEF Resolve, world
  <2>2. "rules_json" \notin ForAgent BY DEF ForAgent, NoSecret
  <2>3. \A n \in DOMAIN more \cap ForAgent : more[n] \subseteq Copied BY <2>2
  <2>4. Harmless' BY <2>1, <2>3, <1>h, AddKeeps
  <2>. QED BY <2>1, <2>4, <1>m DEF SecretInv
<1>6. CASE pod_contribution
  <2>1. UNCHANGED <<input, secrets>> BY <1>6 DEF pod_contribution, world
  <2>2. mounts'.agent = ClaudeMounts \/ mounts'.agent = mounts.agent
    BY <1>6 DEF pod_contribution
  <2>3. MountsKnown' BY <2>2, <1>h, ClaudeMountsKnown DEF MountsKnown
  <2>. QED BY <2>1, <2>3, <1>s DEF SecretInv
<1>7. CASE Assemble
  <2>1. Add(MoreSecrets) /\ UNCHANGED input BY <1>7 DEF Assemble, world
  <2>2. \A n \in DOMAIN MoreSecrets \cap ForAgent : MoreSecrets[n] = {}
    BY DEF MoreSecrets, ForAgent, NoSecret
  <2>3. Harmless' BY <2>1, <2>2, <1>h, AddKeeps
  <2>4. mounts'.agent = mounts.agent \cup AgentMounts BY <1>7 DEF Assemble
  <2>5. MountsKnown' BY <2>4, <1>h, AgentMountsKnown DEF MountsKnown
  <2>. QED BY <2>3, <2>5 DEF SecretInv
<1>8. CASE CheckOptions \/ Bootstrap \/ EnsureImage \/ DummyCredentials \/ Apply \/ Attach \/ Fail
  <2>1. UNCHANGED <<input, secrets, mounts>>
    BY <1>8 DEF CheckOptions, Bootstrap, EnsureImage, DummyCredentials, Apply, Attach, Fail,
                world, made
  <2>. QED BY <2>1, <1>s, <1>m DEF SecretInv
<1>9. CASE CheckToken \/ RenewToken \/ ResolveProfiles \/ Tick \/ HostEdits \/ UNCHANGED vars
  <2>1. UNCHANGED <<input, secrets, mounts>>
    BY <1>9 DEF CheckToken, RenewToken, ResolveProfiles, Tick, HostEdits, world, made, vars
  <2>. QED BY <2>1, <1>s, <1>m DEF SecretInv
<1>. QED BY <1>1, <1>2, <1>3, <1>4, <1>5, <1>6, <1>7, <1>8, <1>9 DEF Next

(* For every combination of options, settings and changes on the host,     *)
(* what the agent's pod mounts has none of the credentials that prepare,   *)
(* the AWS export, the kube contexts and the key directory yielded.        *)
THEOREM AgentGetsPlaceholders == Spec => []PlaceholdersOnly
<1>1. SecretInv => PlaceholdersOnly
  BY DEF SecretInv, Harmless, MountsKnown, PlaceholdersOnly, Copied
<1>. QED BY <1>1, SecretInit, SecretStep, PTL DEF Spec

-----------------------------------------------------------------------------
(* What the pods mount was made before (Made), so that each mount has its  *)
(* Secret (MountsMade); and what a pod mounts is the user's choice, which  *)
(* was checked (Checked), or the pod's own, one of the few that Own names  *)
(* by the last part of their path (MountsOwned).                           *)

Managed == "claude_managed_settings"
Ready == {"apply", "wait", "attached"}

Made ==
    /\ edits \in Nat
    /\ mounts = [agent |-> mounts.agent, mitm |-> mounts.mitm, holder |-> mounts.holder]
    /\ pc \in After =>
          /\ "rules_json" \in DOMAIN secrets
          /\ input.mode = "anthropic" => "claude_fake_creds" \in DOMAIN secrets
    /\ pc \in After \ {"settings"} =>
          /\ {"claude_settings", "claude_md"} \subseteq DOMAIN secrets
          /\ host.managed => Managed \in DOMAIN secrets \/ edits > 0

Backed(m) ==
    \/ m.secret \in DOMAIN secrets \cup {NoSecret}
    \/ m.secret = Managed /\ edits > 0

MountsMade ==
    /\ pc \in {"assemble"} \cup Ready => \A m \in mounts.agent : Backed(m)
    /\ pc \in Ready => \A m \in mounts.mitm \cup mounts.holder : Backed(m)

Checked == pc \notin {"options", "failed"} => ~BadMounts

(* The pod's own mounts, by the last part of the path.                     *)
Own(x) ==
    IF x = "settings.json" THEN Mount(At(<<".claude", x>>), "claude_settings")
    ELSE IF x = "CLAUDE.md" THEN Mount(At(<<".claude", x>>), "claude_md")
    ELSE IF x = ".credentials.json" THEN Mount(At(<<".claude", x>>), "claude_fake_creds")
    ELSE IF x \in {"commands", "skills", "plugins"} THEN Mount(At(<<".claude", x>>), NoSecret)
    ELSE IF x \in {"history.jsonl", "debug"} THEN Shared(At(<<".claude", x>>))
    ELSE IF x = "id" THEN Shared(At(<<".claude", "projects", x>>))
    ELSE IF x = ".claude.json" THEN Shared(At(<<x>>))
    ELSE IF x = "credentials" THEN Mount(At(<<".aws", x>>), "agent_aws_creds")
    ELSE IF x = "repository" THEN Shared(At(<<".m2", x>>))
    ELSE IF x = "settings.xml" THEN Mount(At(<<".m2", x>>), NoSecret)
    ELSE IF x \in {"id.pub", "config"} THEN Mount(At(<<".ssh", x>>), "ssh_pub")
    ELSE IF x = "docker" THEN Shared(<<"var", "lib", x>>)
    ELSE IF x \in {"run", "ssh-agent"} THEN Shared(<<x>>)
    ELSE IF x = "kube" THEN Mount(<<"etc", "agent-uplink", x>>, "kube")
    ELSE IF x = "agent-uplink.inc" THEN Mount(<<"etc", "gitconfig.d", x>>, "git")
    ELSE Mount(ManagedPath, Managed)

Names == {"settings.json", "CLAUDE.md", ".credentials.json", "commands", "skills", "plugins",
          "history.jsonl", "debug", "id", ".claude.json", "credentials", "repository",
          "settings.xml", "id.pub", "config", "docker", "run", "ssh-agent", "kube",
          "agent-uplink.inc", "managed-settings.json"}

Users == {Chosen(input.cwd, TRUE)} \cup {Chosen(p, TRUE) : p \in Writable}
         \cup {Chosen(p, FALSE) : p \in ReadOnly}

OfProxy(m) == \/ m \in {Mount(<<"addon">>, "mitm_addon"), Mount(<<"rules">>, "rules_json"),
                        Mount(<<"mitm-confdir">>, "mitm_certs")}
              \/ \E n \in {"aws_sigv4_creds", "kube-certs", "kube-ca", "ca"} : m = Mount(<<n>>, n)

MountsOwned ==
    pc \in {"assemble"} \cup Ready =>
        /\ \A m \in mounts.agent : m \in Users \/ \E x \in Names : m = Own(x)
        /\ pc \in Ready => /\ \A m \in mounts.mitm : OfProxy(m)
                           /\ mounts.holder \subseteq {Mount(<<"keys">>, "ssh_agent_keys")}

MountInv == Made /\ MountsMade /\ Checked /\ MountsOwned

LEMMA AddDomain ==
    ASSUME NEW more, Add(more)
    PROVE  DOMAIN secrets' = DOMAIN secrets \cup DOMAIN more
BY DEF Add

(* What is made stays, and changes on the host are only ever added.        *)
LEMMA Grows ==
    ASSUME Made, [Next]_vars
    PROVE  /\ DOMAIN secrets \subseteq DOMAIN secrets'
           /\ edits' \in Nat /\ edits' >= edits
<1>1. DOMAIN secrets \subseteq DOMAIN secrets'
  <2>1. (\E more : Add(more)) => DOMAIN secrets \subseteq DOMAIN secrets' BY AddDomain
  <2>2. (\E more : Add(more)) \/ secrets' = secrets
    <3>1. CASE CaptureToken \/ ReadKeyring \/ Resolve \/ Assemble
      BY <3>1 DEF CaptureToken, ReadKeyring, Resolve, Assemble
    <3>2. CASE CopySettings BY <3>2 DEF CopySettings
    <3>3. CASE ExportProfile \/ SsoLogin BY <3>3 DEF ExportProfile, SsoLogin, Exported, made
    <3>4. CASE CheckOptions \/ Bootstrap \/ ResolveProfiles \/ CheckToken \/ RenewToken
               \/ EnsureImage \/ DummyCredentials \/ pod_contribution \/ Apply \/ Attach
               \/ Fail \/ Tick \/ HostEdits \/ UNCHANGED vars
      BY <3>4 DEF CheckOptions, Bootstrap, ResolveProfiles, CheckToken, RenewToken,
             EnsureImage, DummyCredentials, pod_contribution, Apply, Attach, Fail, Tick,
             HostEdits, made, vars
    <3>. QED BY <3>1, <3>2, <3>3, <3>4 DEF Next
  <2>. QED BY <2>1, <2>2
<1>2. edits' = edits \/ edits' = edits + 1
  BY DEF Next, CheckOptions, Bootstrap, ResolveProfiles, CheckToken, RenewToken,
         CaptureToken, ReadKeyring, CopySettings, EnsureImage, DummyCredentials,
         ExportProfile, SsoLogin, Exported, Resolve, pod_contribution, Assemble, Apply,
         Attach, Fail, Tick, HostEdits, world, vars
<1>3. edits \in Nat BY DEF Made
<1>. QED BY <1>1, <1>2, <1>3

(* Where a step of run leads, and what it leaves alone.                    *)
LEMMA InputFixed == ASSUME [Next]_vars PROVE input' = input
BY DEF Next, CheckOptions, Bootstrap, ResolveProfiles, CheckToken, RenewToken,
       CaptureToken, ReadKeyring, CopySettings, EnsureImage, DummyCredentials,
       ExportProfile, SsoLogin, Exported, Resolve, pod_contribution, Assemble, Apply,
       Attach, Fail, Tick, HostEdits, world, vars

LEMMA Order ==
    ASSUME [Next]_vars
    PROVE  /\ pc' \in After => pc \in After \/ CaptureToken \/ ReadKeyring
           /\ pc' \in After \ {"settings"} => pc \in After \ {"settings"} \/ CopySettings
           /\ pc' \in {"assemble"} \cup Ready =>
                 pc \in {"assemble"} \cup Ready \/ pod_contribution
           /\ pc' \in Ready => pc \in Ready \/ Assemble
           /\ pc' \notin {"options", "failed"} =>
                 pc \notin {"options", "failed"} \/ pc' = pc \/ CheckOptions
<1>. USE DEF After, Ready, Goto
<1>1. CASE CaptureToken \/ ReadKeyring \/ CopySettings
  BY <1>1 DEF CaptureToken, ReadKeyring, CopySettings
<1>2. CASE pod_contribution \/ Assemble \/ CheckOptions
  BY <1>2 DEF pod_contribution, Assemble, CheckOptions
<1>3. CASE ExportProfile \/ SsoLogin \/ Resolve
  BY <1>3 DEF ExportProfile, SsoLogin, Exported, Resolve
<1>4. CASE Bootstrap \/ ResolveProfiles \/ CheckToken \/ RenewToken
  BY <1>4 DEF Bootstrap, ResolveProfiles, CheckToken, RenewToken
<1>5. CASE EnsureImage \/ DummyCredentials \/ Apply \/ Attach \/ Fail
  BY <1>5 DEF EnsureImage, DummyCredentials, Apply, Attach, Fail
<1>6. CASE Tick \/ HostEdits \/ UNCHANGED vars BY <1>6 DEF Tick, HostEdits, vars
<1>. QED BY <1>1, <1>2, <1>3, <1>4, <1>5, <1>6 DEF Next

LEMMA MadeStep == ASSUME FreshInv, Made, [Next]_vars PROVE Made'
<1>1. DOMAIN secrets \subseteq DOMAIN secrets' /\ edits' \in Nat /\ edits' >= edits
      /\ edits \in Nat
  BY Grows DEF Made
<1>2. input' = input BY InputFixed
<1>3. ASSUME pc' \in After
      PROVE  /\ "rules_json" \in DOMAIN secrets'
             /\ input.mode = "anthropic" => "claude_fake_creds" \in DOMAIN secrets'
  <2>1. CASE pc \in After BY <1>1, <2>1 DEF Made
  <2>2. CASE CaptureToken
    <3>1. Add([claude_fake_creds |-> {}, rules_json |-> {"oauth"}]) BY <2>2 DEF CaptureToken
    <3>2. {"claude_fake_creds", "rules_json"}
             \subseteq DOMAIN [claude_fake_creds |-> {}, rules_json |-> {"oauth"}]
      OBVIOUS
    <3>. QED BY <3>1, <3>2, AddDomain
  <2>3. CASE ReadKeyring
    <3>1. Add([rules_json |-> {"bearer"}]) /\ pc = "keyring"
      BY <2>3 DEF ReadKeyring, Goto
    <3>2. "rules_json" \in DOMAIN [rules_json |-> {"bearer"}] OBVIOUS
    <3>3. input.mode # "anthropic" BY <3>1 DEF FreshInv, Covered
    <3>. QED BY <3>1, <3>2, <3>3, AddDomain
  <2>. QED BY <1>3, <2>1, <2>2, <2>3, Order
<1>4. ASSUME pc' \in After \ {"settings"}
      PROVE  /\ {"claude_settings", "claude_md"} \subseteq DOMAIN secrets'
             /\ host'.managed => Managed \in DOMAIN secrets' \/ edits' > 0
  <2>1. CASE CopySettings
    <3>. DEFINE always == [claude_settings |-> input.settings \ Placeholders, claude_md |-> {}]
                all == [n \in DOMAIN always \cup {Managed} |->
                           IF n \in DOMAIN always THEN always[n] ELSE Sanitized(input.managed)]
    <3>1. host' = host /\ pc' # "failed" BY <1>4, <2>1 DEF CopySettings, world, After
    <3>2. IF host.managed THEN Add(all) ELSE Add(always)
      BY <2>1, <3>1 DEF CopySettings, Goto, Managed
    <3>3. DOMAIN always = {"claude_settings", "claude_md"} OBVIOUS
    <3>. HIDE DEF always
    <3>4. DOMAIN all = DOMAIN always \cup {Managed} OBVIOUS
    <3>. HIDE DEF all
    <3>5. CASE host.managed
      <4>1. DOMAIN secrets' = DOMAIN secrets \cup DOMAIN all BY <3>2, <3>5, AddDomain
      <4>. QED BY <3>3, <3>4, <4>1
    <3>6. CASE ~host.managed
      <4>1. DOMAIN secrets' = DOMAIN secrets \cup DOMAIN always BY <3>2, <3>6, AddDomain
      <4>. QED BY <3>1, <3>3, <3>6, <4>1
    <3>. QED BY <3>5, <3>6
  <2>2. CASE pc \in After \ {"settings"} /\ ~CopySettings
    <3>1. host'.managed = host.managed \/ edits' > 0
      <4>1. CASE HostEdits BY <1>1, <4>1 DEF HostEdits
      <4>2. CASE ~HostEdits
        <5>1. host' = host
          BY <2>2, <4>2 DEF Next, CheckOptions, Bootstrap, ResolveProfiles, CheckToken,
                 RenewToken, CaptureToken, ReadKeyring, EnsureImage, DummyCredentials,
                 ExportProfile, SsoLogin, Exported, Resolve, pod_contribution, Assemble,
                 Apply, Attach, Fail, Tick, world, vars, Goto, After
        <5>. QED BY <5>1
      <4>. QED BY <4>1, <4>2
    <3>. QED BY <1>1, <2>2, <3>1 DEF Made
  <2>. QED BY <1>4, <2>1, <2>2, Order
<1>5. mounts' = [agent |-> mounts'.agent, mitm |-> mounts'.mitm, holder |-> mounts'.holder]
  <2>1. CASE pod_contribution BY <2>1 DEF pod_contribution, Made
  <2>2. CASE Assemble BY <2>2 DEF Assemble
  <2>3. CASE ~pod_contribution /\ ~Assemble
    <3>1. mounts' = mounts
      BY <2>3 DEF Next, CheckOptions, Bootstrap, ResolveProfiles, CheckToken, RenewToken,
             CaptureToken, ReadKeyring, CopySettings, EnsureImage, DummyCredentials,
             ExportProfile, SsoLogin, Exported, Resolve, Apply, Attach, Fail, Tick,
             HostEdits, made, vars
    <3>. QED BY <3>1 DEF Made
  <2>. QED BY <2>1, <2>2, <2>3
<1>. QED BY <1>1, <1>2, <1>3, <1>4, <1>5 DEF Made

LEMMA BackedStays ==
    ASSUME Made, [Next]_vars, NEW m, Backed(m) PROVE Backed(m)'
<1>1. DOMAIN secrets \subseteq DOMAIN secrets' /\ edits' \in Nat /\ edits' >= edits
      /\ edits \in Nat
  BY Grows DEF Made
<1>. QED BY <1>1 DEF Backed

(* What pod_contribution mounts, one by one.                               *)
LEMMA ClaudeMountCases ==
    ASSUME NEW m \in ClaudeMounts
    PROVE  \/ m = Mount(At(<<".claude", "settings.json">>), "claude_settings")
           \/ m = Mount(At(<<".claude", "CLAUDE.md">>), "claude_md")
           \/ m = Shared(At(<<".claude", "projects", "id">>))
           \/ m = Shared(At(<<".claude.json">>))
           \/ m = Shared(<<"var", "lib", "docker">>)
           \/ m = Shared(<<"run">>)
           \/ m = Chosen(input.cwd, TRUE)
           \/ /\ input.mode = "anthropic"
              /\ m = Mount(At(<<".claude", ".credentials.json">>), "claude_fake_creds")
           \/ /\ "agent_aws_creds" \in DOMAIN secrets
              /\ m = Mount(At(<<".aws", "credentials">>), "agent_aws_creds")
           \/ host.managed /\ m = Mount(ManagedPath, Managed)
           \/ m = Mount(At(<<".claude", "commands">>), NoSecret)
           \/ m = Mount(At(<<".claude", "skills">>), NoSecret)
           \/ m = Mount(At(<<".claude", "plugins">>), NoSecret)
           \/ m = Shared(At(<<".claude", "history.jsonl">>))
           \/ m = Shared(At(<<".m2", "repository">>))
           \/ m = Mount(At(<<".m2", "settings.xml">>), NoSecret)
           \/ m = Shared(At(<<".claude", "debug">>))
BY DEF ClaudeMounts, If, Managed

LEMMA ClaudeMountsBacked ==
    ASSUME Made, pc = "contribute", NEW m \in ClaudeMounts PROVE Backed(m)
<1>1. /\ {"claude_settings", "claude_md"} \subseteq DOMAIN secrets
      /\ host.managed => Managed \in DOMAIN secrets \/ edits > 0
      /\ input.mode = "anthropic" => "claude_fake_creds" \in DOMAIN secrets
  BY DEF Made, After
<1>2. \/ m.secret = NoSecret \/ m.secret = "claude_settings" \/ m.secret = "claude_md"
      \/ input.mode = "anthropic" /\ m.secret = "claude_fake_creds"
      \/ "agent_aws_creds" \in DOMAIN secrets /\ m.secret = "agent_aws_creds"
      \/ host.managed /\ m.secret = Managed
  <2>1. /\ \A path, s : m = Mount(path, s) => m.secret = s
        /\ \A path : m = Shared(path) \/ m = Chosen(path, TRUE) => m.secret = NoSecret
    <3>1. \A path, s : Mount(path, s).secret = s BY MountFields
    <3>2. \A path : Shared(path).secret = NoSecret /\ Chosen(path, TRUE).secret = NoSecret
      BY MountFields
    <3>. QED BY <3>1, <3>2, Zenon
  <2>2. CASE \E path : \/ m = Shared(path) \/ m = Mount(path, NoSecret) \/ m = Chosen(path, TRUE)
                      \/ m = Mount(path, "claude_settings") \/ m = Mount(path, "claude_md")
    BY <2>1, <2>2
  <2>3. CASE input.mode = "anthropic" /\ \E path : m = Mount(path, "claude_fake_creds")
    BY <2>1, <2>3
  <2>4. CASE /\ "agent_aws_creds" \in DOMAIN secrets
             /\ \E path : m = Mount(path, "agent_aws_creds")
    BY <2>1, <2>4
  <2>5. CASE host.managed /\ \E path : m = Mount(path, Managed) BY <2>1, <2>5
  <2>. QED BY <2>2, <2>3, <2>4, <2>5, ClaudeMountCases, Zenon
<1>. QED BY <1>1, <1>2 DEF Backed

LEMMA AssembledBacked ==
    ASSUME Made, Assemble
    PROVE  /\ \A m \in AgentMounts : Backed(m)'
           /\ \A m \in mounts'.mitm \cup mounts'.holder : Backed(m)'
<1>1. DOMAIN secrets' = DOMAIN secrets \cup DOMAIN MoreSecrets
  BY AddDomain DEF Assemble
<1>2. "rules_json" \in DOMAIN secrets BY DEF Assemble, Goto, Made, After
<1>3. DOMAIN MoreSecrets = {"mitm_addon", "mitm_certs"} \cup KubeParts
         \cup (input.flags \cap {"git", "ca"})
         \cup If(Given("ssh"), {"ssh_agent_keys", "ssh_pub"})
  BY DEF MoreSecrets
<1>4. ASSUME NEW m \in AgentMounts PROVE m.secret \in DOMAIN secrets' \cup {NoSecret}
  <2>1. \/ m.secret = NoSecret
        \/ Given("ssh") /\ m.secret = "ssh_pub"
        \/ Given("kube") /\ m.secret = "kube"
        \/ Given("git") /\ m.secret = "git"
    <3>1. \/ /\ Given("ssh")
             /\ \/ m = Mount(At(<<".ssh", "id.pub">>), "ssh_pub")
                \/ m = Mount(At(<<".ssh", "config">>), "ssh_pub")
          \/ m = Shared(<<"ssh-agent">>)
          \/ Given("kube") /\ m = Mount(<<"etc", "agent-uplink", "kube">>, "kube")
          \/ Given("git") /\ m = Mount(<<"etc", "gitconfig.d", "agent-uplink.inc">>, "git")
          \/ \E p : \E rw : m = Chosen(p, rw)
      BY DEF AgentMounts, If
    <3>. QED BY <3>1, MountFields
  <2>. QED BY <1>1, <1>3, <2>1 DEF If, KubeParts, Given
<1>5. ASSUME NEW m \in MitmMounts PROVE m.secret \in DOMAIN secrets'
  <2>1. \/ m.secret \in {"mitm_addon", "rules_json", "mitm_certs"}
        \/ m.secret \in DOMAIN secrets
        \/ m.secret \in KubeParts \cup (input.flags \cap {"git", "ca"})
    BY DEF MitmMounts, If, Mount
  <2>. QED BY <1>1, <1>2, <1>3, <2>1
<1>6. ASSUME NEW m \in mounts'.holder PROVE m.secret \in DOMAIN secrets'
  <2>1. Given("ssh") /\ m = Mount(<<"keys">>, "ssh_agent_keys")
    BY DEF Assemble, If
  <2>2. m.secret = "ssh_agent_keys" BY <2>1 DEF Mount
  <2>. QED BY <1>1, <1>3, <2>1, <2>2 DEF If
<1>7. mounts'.mitm = MitmMounts BY DEF Assemble
<1>. QED BY <1>4, <1>5, <1>6, <1>7 DEF Backed

LEMMA MountsMadeStep == ASSUME Made, MountsMade, [Next]_vars PROVE MountsMade'
<1>1. ASSUME pc' \in {"assemble"} \cup Ready, NEW m \in mounts'.agent PROVE Backed(m)'
  <2>1. CASE pod_contribution
    <3>1. pc = "contribute" /\ mounts'.agent = ClaudeMounts
      BY <2>1 DEF pod_contribution, Goto, Made
    <3>. QED BY <1>1, <3>1, ClaudeMountsBacked, BackedStays
  <2>2. CASE Assemble
    <3>1. mounts'.agent = mounts.agent \cup AgentMounts /\ pc = "assemble"
      BY <2>2 DEF Assemble, Goto
    <3>. QED BY <1>1, <2>2, <3>1, AssembledBacked, BackedStays DEF MountsMade
  <2>3. CASE ~pod_contribution /\ ~Assemble
    <3>1. mounts' = mounts
      BY <2>3 DEF Next, CheckOptions, Bootstrap, ResolveProfiles, CheckToken, RenewToken,
             CaptureToken, ReadKeyring, CopySettings, EnsureImage, DummyCredentials,
             ExportProfile, SsoLogin, Exported, Resolve, Apply, Attach, Fail, Tick,
             HostEdits, made, vars
    <3>2. pc \in {"assemble"} \cup Ready BY <1>1, <2>3, Order
    <3>. QED BY <1>1, <3>1, <3>2, BackedStays DEF MountsMade
  <2>. QED BY <2>1, <2>2, <2>3
<1>2. ASSUME pc' \in Ready, NEW m \in mounts'.mitm \cup mounts'.holder PROVE Backed(m)'
  <2>1. CASE Assemble BY <1>2, <2>1, AssembledBacked
  <2>2. CASE ~Assemble
    <3>1. pc \in Ready BY <1>2, <2>2, Order
    <3>2. mounts' = mounts
      BY <2>2, <3>1 DEF Next, CheckOptions, Bootstrap, ResolveProfiles, CheckToken, RenewToken,
             CaptureToken, ReadKeyring, CopySettings, EnsureImage, DummyCredentials,
             ExportProfile, SsoLogin, Exported, Resolve, pod_contribution, Apply, Attach,
             Fail, Tick, HostEdits, made, vars, Goto, Ready
    <3>. QED BY <1>2, <3>1, <3>2, BackedStays DEF MountsMade
  <2>. QED BY <2>1, <2>2
<1>. QED BY <1>1, <1>2 DEF MountsMade

LEMMA CheckedStep == ASSUME Checked, [Next]_vars PROVE Checked'
<1>1. input' = input BY InputFixed
<1>2. BadMounts' <=> BadMounts BY <1>1 DEF BadMounts, Writable, ReadOnly
<1>3. ASSUME pc' \notin {"options", "failed"} PROVE ~BadMounts
  <2>1. CASE CheckOptions BY <1>3, <2>1 DEF CheckOptions, Goto
  <2>. QED BY <1>3, <2>1, Order DEF Checked
<1>. QED BY <1>2, <1>3 DEF Checked

LEMMA ClaudeMountsOwned ==
    ASSUME NEW m \in ClaudeMounts PROVE m \in Users \/ \E x \in Names : m = Own(x)
<1>. DEFINE Mine == \E x \in Names : m = Own(x)
<1>1. \A x \in Names : m = Own(x) => Mine OBVIOUS
<1>. HIDE DEF Mine
<1>2. /\ Mount(At(<<".claude", "settings.json">>), "claude_settings") = Own("settings.json")
      /\ Mount(At(<<".claude", "CLAUDE.md">>), "claude_md") = Own("CLAUDE.md")
      /\ Mount(At(<<".claude", ".credentials.json">>), "claude_fake_creds")
            = Own(".credentials.json")
      /\ Mount(At(<<".claude", "commands">>), NoSecret) = Own("commands")
      /\ Mount(At(<<".claude", "skills">>), NoSecret) = Own("skills")
      /\ Mount(At(<<".claude", "plugins">>), NoSecret) = Own("plugins")
  BY DEF Own
<1>3. /\ Shared(At(<<".claude", "projects", "id">>)) = Own("id")
      /\ Shared(At(<<".claude.json">>)) = Own(".claude.json")
      /\ Shared(<<"var", "lib", "docker">>) = Own("docker")
      /\ Shared(<<"run">>) = Own("run")
      /\ Shared(At(<<".claude", "history.jsonl">>)) = Own("history.jsonl")
      /\ Shared(At(<<".claude", "debug">>)) = Own("debug")
  BY DEF Own
<1>4. /\ Mount(At(<<".aws", "credentials">>), "agent_aws_creds") = Own("credentials")
      /\ Mount(ManagedPath, Managed) = Own("managed-settings.json")
      /\ Shared(At(<<".m2", "repository">>)) = Own("repository")
      /\ Mount(At(<<".m2", "settings.xml">>), NoSecret) = Own("settings.xml")
  BY DEF Own
<1>5. {"settings.json", "CLAUDE.md", ".credentials.json", "commands", "skills", "plugins",
       "history.jsonl", "debug", "id", ".claude.json", "credentials", "repository",
       "settings.xml", "docker", "run", "managed-settings.json"} \subseteq Names
  BY DEF Names
<1>6. m = Chosen(input.cwd, TRUE) => m \in Users BY DEF Users
<1>7. m = Chosen(input.cwd, TRUE) \/ Mine BY <1>1, <1>2, <1>3, <1>4, <1>5, ClaudeMountCases
<1>. QED BY <1>6, <1>7 DEF Mine

LEMMA AgentMountsOwned ==
    ASSUME NEW m \in AgentMounts PROVE m \in Users \/ \E x \in Names : m = Own(x)
<1>1. ASSUME m \in {Mount(At(<<".ssh", "id.pub">>), "ssh_pub"),
                    Mount(At(<<".ssh", "config">>), "ssh_pub"), Shared(<<"ssh-agent">>),
                    Mount(<<"etc", "agent-uplink", "kube">>, "kube"),
                    Mount(<<"etc", "gitconfig.d", "agent-uplink.inc">>, "git")}
      PROVE  \E x \in Names : m = Own(x)
  BY <1>1 DEF Own, Names
<1>. QED BY <1>1 DEF AgentMounts, If, Users

LEMMA MountsOwnedStep == ASSUME Made, MountsOwned, [Next]_vars PROVE MountsOwned'
<1>1. input' = input BY InputFixed
<1>2. Users' = Users BY <1>1 DEF Users, Writable, ReadOnly
<1>3. ASSUME pc' \in {"assemble"} \cup Ready, NEW m \in mounts'.agent
      PROVE  m \in Users \/ \E x \in Names : m = Own(x)
  <2>1. CASE pod_contribution
    <3>1. m \in ClaudeMounts BY <1>3, <2>1 DEF pod_contribution, Made
    <3>. QED BY <3>1, ClaudeMountsOwned
  <2>2. CASE Assemble
    <3>1. mounts'.agent = mounts.agent \cup AgentMounts /\ pc = "assemble"
      BY <2>2 DEF Assemble, Goto
    <3>. QED BY <1>3, <3>1, AgentMountsOwned DEF MountsOwned
  <2>3. CASE ~pod_contribution /\ ~Assemble
    <3>1. mounts' = mounts
      BY <2>3 DEF Next, CheckOptions, Bootstrap, ResolveProfiles, CheckToken, RenewToken,
             CaptureToken, ReadKeyring, CopySettings, EnsureImage, DummyCredentials,
             ExportProfile, SsoLogin, Exported, Resolve, Apply, Attach, Fail, Tick,
             HostEdits, made, vars
    <3>2. pc \in {"assemble"} \cup Ready BY <1>3, <2>3, Order
    <3>. QED BY <1>3, <3>1, <3>2 DEF MountsOwned
  <2>. QED BY <2>1, <2>2, <2>3
<1>4. ASSUME pc' \in Ready
      PROVE  /\ \A m \in mounts'.mitm : OfProxy(m)
             /\ mounts'.holder \subseteq {Mount(<<"keys">>, "ssh_agent_keys")}
  <2>1. CASE Assemble
    <3>1. mounts'.mitm = MitmMounts
          /\ mounts'.holder = If(Given("ssh"), {Mount(<<"keys">>, "ssh_agent_keys")})
      BY <2>1 DEF Assemble
    <3>2. \A m \in MitmMounts : OfProxy(m)
      <4>1. ASSUME NEW m \in MitmMounts PROVE OfProxy(m)
        <5>1. \/ m \in {Mount(<<"addon">>, "mitm_addon"), Mount(<<"rules">>, "rules_json"),
                        Mount(<<"mitm-confdir">>, "mitm_certs")}
              \/ \E n \in If("aws_sigv4_creds" \in DOMAIN secrets, {"aws_sigv4_creds"})
                          \cup (KubeParts \ {"kube"}) \cup (input.flags \cap {"ca"}) :
                    m = Mount(<<n>>, n)
          BY DEF MitmMounts
        <5>2. If("aws_sigv4_creds" \in DOMAIN secrets, {"aws_sigv4_creds"})
                 \cup (KubeParts \ {"kube"}) \cup (input.flags \cap {"ca"})
              \subseteq {"aws_sigv4_creds", "kube-certs", "kube-ca", "ca"}
          BY DEF If, KubeParts
        <5>. QED BY <5>1, <5>2 DEF OfProxy
      <4>. QED BY <4>1
    <3>. QED BY <3>1, <3>2 DEF If
  <2>2. CASE ~Assemble
    <3>1. pc \in Ready BY <1>4, <2>2, Order
    <3>2. mounts' = mounts
      BY <2>2, <3>1 DEF Next, CheckOptions, Bootstrap, ResolveProfiles, CheckToken, RenewToken,
             CaptureToken, ReadKeyring, CopySettings, EnsureImage, DummyCredentials,
             ExportProfile, SsoLogin, Exported, Resolve, pod_contribution, Apply, Attach,
             Fail, Tick, HostEdits, made, vars, Goto, Ready
    <3>. QED BY <3>1, <3>2 DEF MountsOwned
  <2>. QED BY <2>1, <2>2
<1>5. \A m : OfProxy(m)' <=> OfProxy(m) BY DEF OfProxy
<1>. QED BY <1>2, <1>3, <1>4, <1>5 DEF MountsOwned

LEMMA MountInit == Init => MountInv
BY DEF Init, NoMounts, MountInv, Made, MountsMade, Checked, MountsOwned, After, Ready

LEMMA MountInvariance == Spec => []MountInv
<1>1. FreshInv /\ MountInv /\ [Next]_vars => MountInv'
  BY MadeStep, MountsMadeStep, CheckedStep, MountsOwnedStep DEF MountInv
<1>. QED BY <1>1, MountInit, FreshInit, FreshStep, PTL DEF Spec

-----------------------------------------------------------------------------
(* Where the pods' own mounts are, and that none of them is in another's   *)
(* place or, when the pod may write there, inside another's.               *)

Last(path) == path[Len(path)]

(* The writable ones, in the home and elsewhere.                           *)
HomeShared == {"id", ".claude.json", "history.jsonl", "debug", "repository"}
PodShared == {"docker", "run", "ssh-agent"}

InHome(x) ==
    IF x = "id" THEN <<".claude", "projects", x>>
    ELSE IF x = ".claude.json" THEN <<x>>
    ELSE IF x = "repository" THEN <<".m2", x>>
    ELSE <<".claude", x>>

InPod(x) == IF x = "docker" THEN <<"var", "lib", x>> ELSE <<x>>

(* The home is in none of the directories the pod has for itself.          *)
HomeApart == \A x \in PodShared : ~Under(Home, InPod(x))

LEMMA Widen ==
    ASSUME NEW S, STRING \subseteq S
    PROVE  Home \in Seq(S) /\ Len(Home) \in Nat
<1>1. Home \in Seq(STRING) BY StartupAssumption DEF Paths
<1>2. Home \in [1..Len(Home) -> STRING] /\ Len(Home) \in Nat BY <1>1
<1>3. Home \in [1..Len(Home) -> S] BY <1>2
<1>. QED BY <1>2, <1>3, SeqDef

LEMMA AtIsPath ==
    ASSUME NEW S, STRING \subseteq S, NEW names \in Seq(S)
    PROVE  /\ At(names) \in Seq(S) /\ Len(At(names)) = Len(Home) + Len(names)
           /\ \A i \in 1..Len(names) : At(names)[Len(Home) + i] = names[i]
           /\ \A i \in 1..Len(Home) : At(names)[i] = Home[i]
<1>1. Home \in Seq(S) /\ Len(Home) \in Nat BY Widen
<1>. QED BY <1>1, ConcatProperties DEF At

LEMMA AtLast ==
    ASSUME NEW a, NEW b, NEW c
    PROVE  Last(At(<<a>>)) = a /\ Last(At(<<a, b>>)) = b /\ Last(At(<<a, b, c>>)) = c
<1>. DEFINE S == STRING \cup {a, b, c}
<1>1. ASSUME NEW names \in Seq(S), names # <<>> PROVE Last(At(names)) = names[Len(names)]
  <2>1. Len(names) \in 1..Len(names) BY <1>1
  <2>2. STRING \subseteq S OBVIOUS
  <2>. HIDE DEF S
  <2>. QED BY <1>1, <2>1, <2>2, AtIsPath DEF Last
<1>2. a \in S /\ b \in S /\ c \in S OBVIOUS
<1>. HIDE DEF S
<1>3. <<a>> \in Seq(S) /\ <<a, b>> \in Seq(S) /\ <<a, b, c>> \in Seq(S) BY <1>2
<1>4. Last(At(<<a>>)) = a BY <1>1, <1>3
<1>5. Last(At(<<a, b>>)) = b BY <1>1, <1>3
<1>6. Last(At(<<a, b, c>>)) = c BY <1>1, <1>3
<1>. QED BY <1>4, <1>5, <1>6

LEMMA OwnFields ==
    ASSUME NEW path, NEW secret
    PROVE  /\ Mount(path, secret).path = path /\ Shared(path).path = path
           /\ Mount(path, secret).user = FALSE /\ Shared(path).user = FALSE
           /\ Mount(path, secret).rw = FALSE /\ Shared(path).rw = TRUE
BY DEF Mount, Shared

LEMMA OwnByName ==
    ASSUME NEW x \in Names
    PROVE  /\ Own(x).user = FALSE /\ Last(Own(x).path) = x
           /\ Own(x).rw => x \in HomeShared \cup PodShared
<1>1. CASE x \in {"settings.json", "CLAUDE.md", ".credentials.json", "commands", "skills", "plugins"}
  <2>1. PICK s : Own(x) = Mount(At(<<".claude", x>>), s) BY <1>1 DEF Own
  <2>2. Last(At(<<".claude", x>>)) = x BY AtLast
  <2>3. Own(x).path = At(<<".claude", x>>) /\ Own(x).user = FALSE /\ Own(x).rw = FALSE
    BY <2>1 DEF Mount
  <2>. QED BY <2>2, <2>3
<1>2. CASE x \in {"history.jsonl", "debug"}
  <2>1. Own(x) = Shared(At(<<".claude", x>>)) BY <1>2 DEF Own
  <2>2. Last(At(<<".claude", x>>)) = x BY AtLast
  <2>. QED BY <1>2, <2>1, <2>2, OwnFields DEF HomeShared
<1>3. CASE x \in {"id", ".claude.json", "repository"}
  <2>1. x = "id" => Own(x) = Shared(At(<<".claude", "projects", x>>)) BY DEF Own
  <2>2. x = ".claude.json" => Own(x) = Shared(At(<<x>>)) BY DEF Own
  <2>3. x = "repository" => Own(x) = Shared(At(<<".m2", x>>)) BY DEF Own
  <2>4. /\ Last(At(<<".claude", "projects", x>>)) = x /\ Last(At(<<x>>)) = x
        /\ Last(At(<<".m2", x>>)) = x
    <3>1. \A a, b, c : Last(At(<<a>>)) = a /\ Last(At(<<a, b>>)) = b /\ Last(At(<<a, b, c>>)) = c
      BY AtLast
    <3>. QED BY <3>1
  <2>. QED BY <1>3, <2>1, <2>2, <2>3, <2>4, OwnFields, ZenonT(40) DEF HomeShared
<1>4. CASE x \in {"credentials", "settings.xml", "id.pub", "config"}
  <2>1. PICK dir, s : Own(x) = Mount(At(<<dir, x>>), s) BY <1>4 DEF Own
  <2>2. Last(At(<<dir, x>>)) = x BY AtLast
  <2>3. Own(x).path = At(<<dir, x>>) /\ Own(x).user = FALSE /\ Own(x).rw = FALSE
    BY <2>1 DEF Mount
  <2>. QED BY <2>2, <2>3
<1>5. CASE x \in {"docker", "run", "ssh-agent"}
  <2>1. Own(x) = Shared(InPod(x)) BY <1>5 DEF Own, InPod
  <2>2. Last(InPod(x)) = x BY <1>5 DEF InPod, Last
  <2>. QED BY <1>5, <2>1, <2>2, OwnFields DEF PodShared
<1>6. CASE x \in {"kube", "agent-uplink.inc", "managed-settings.json"}
  <2>1. PICK dir, s : Own(x) = Mount(<<"etc", dir, x>>, s)
    BY <1>6 DEF Own, ManagedPath
  <2>2. Last(<<"etc", dir, x>>) = x BY DEF Last
  <2>3. Own(x).path = <<"etc", dir, x>> /\ Own(x).user = FALSE /\ Own(x).rw = FALSE
    BY <2>1 DEF Mount
  <2>. QED BY <2>2, <2>3
<1>. QED BY <1>1, <1>2, <1>3, <1>4, <1>5, <1>6 DEF Names

(* Paths that part ways are not in one another.                            *)
LEMMA Diverge ==
    ASSUME NEW S, NEW a \in Seq(S), NEW b \in Seq(S), NEW i \in Nat,
           i \in 1..Len(a), i \in 1..Len(b), a[i] # b[i]
    PROVE  ~Under(a, b) /\ ~Under(b, a)
<1>1. ASSUME NEW p \in Seq(S), NEW q \in Seq(S), i \in 1..Len(p), i \in 1..Len(q), Under(p, q)
      PROVE  p[i] = q[i]
  <2>1. SubSeq(p, 1, Len(q)) = q /\ Len(q) <= Len(p) BY <1>1 DEF Under
  <2>2. Len(q) \in Nat /\ Len(p) \in Nat OBVIOUS
  <2>3. SubSeq(p, 1, Len(q))[i] = p[1 + i - 1] BY <1>1, <2>1, <2>2
  <2>4. 1 + i - 1 = i OBVIOUS
  <2>. QED BY <2>1, <2>3, <2>4
<1>. QED BY <1>1

LEMMA SharedApart ==
    ASSUME HomeApart, NEW x \in HomeShared \cup PodShared, NEW y \in HomeShared \cup PodShared,
           x # y
    PROVE  ~Nested(Own(x).path, Own(y).path)
<1>. DEFINE Parts == STRING \cup {".claude", "projects", ".m2", "var", "lib"}
                       \cup HomeShared \cup PodShared
<1>0. /\ STRING \subseteq Parts /\ HomeShared \subseteq Parts /\ PodShared \subseteq Parts
      /\ {".claude", "projects", ".m2", "var", "lib"} \subseteq Parts
  OBVIOUS
<1>. HIDE DEF Parts
<1>1. ASSUME NEW z \in HomeShared
      PROVE  Own(z).path = At(InHome(z)) /\ InHome(z) \in Seq(Parts) /\ Len(InHome(z)) \in 1..3
  <2>1. Own(z) = Shared(At(InHome(z))) BY DEF Own, InHome, HomeShared
  <2>2. InHome(z) \in Seq(Parts) /\ Len(InHome(z)) \in 1..3
    <3>1. CASE z = "id" BY <1>0, <3>1 DEF InHome
    <3>2. CASE z = ".claude.json" BY <1>0, <3>2 DEF InHome
    <3>3. CASE z = "repository" BY <1>0, <3>3 DEF InHome
    <3>4. CASE z \in {"history.jsonl", "debug"} BY <1>0, <3>4 DEF InHome
    <3>. QED BY <3>1, <3>2, <3>3, <3>4 DEF HomeShared
  <2>. QED BY <2>1, <2>2, OwnFields
<1>2. ASSUME NEW z \in PodShared
      PROVE  Own(z).path = InPod(z) /\ InPod(z) \in Seq(Parts) /\ Len(InPod(z)) \in 1..3
  <2>1. Own(z) = Shared(InPod(z)) BY DEF Own, InPod, PodShared
  <2>2. InPod(z) \in Seq(Parts) /\ Len(InPod(z)) \in 1..3
    <3>1. CASE z = "docker" BY <1>0, <3>1 DEF InPod
    <3>2. CASE z \in {"run", "ssh-agent"} BY <1>0, <3>2 DEF InPod
    <3>. QED BY <3>1, <3>2 DEF PodShared
  <2>. QED BY <2>1, <2>2, OwnFields
<1>3. Home \in Seq(Parts) /\ Len(Home) \in Nat BY <1>0, Widen
<1>4. CASE x \in HomeShared /\ y \in HomeShared
  <2>1. PICK i \in {1, 2} : /\ i <= Len(InHome(x)) /\ i <= Len(InHome(y))
                            /\ InHome(x)[i] # InHome(y)[i]
    BY <1>4 DEF InHome, HomeShared
  <2>2. i \in 1..Len(InHome(x)) /\ i \in 1..Len(InHome(y)) BY <1>1, <1>4, <2>1
  <2>3. /\ At(InHome(x)) \in Seq(Parts) /\ Len(At(InHome(x))) = Len(Home) + Len(InHome(x))
        /\ At(InHome(x))[Len(Home) + i] = InHome(x)[i]
        /\ At(InHome(y)) \in Seq(Parts) /\ Len(At(InHome(y))) = Len(Home) + Len(InHome(y))
        /\ At(InHome(y))[Len(Home) + i] = InHome(y)[i]
    BY <1>1, <1>4, <2>2, <1>0, AtIsPath
  <2>4. /\ Len(Home) + i \in 1..Len(At(InHome(x))) /\ Len(Home) + i \in 1..Len(At(InHome(y)))
        /\ Len(Home) + i \in Nat
    BY <1>1, <1>3, <1>4, <2>1, <2>3
  <2>5. At(InHome(x))[Len(Home) + i] # At(InHome(y))[Len(Home) + i] BY <2>1, <2>3
  <2>6. ~Under(At(InHome(x)), At(InHome(y))) /\ ~Under(At(InHome(y)), At(InHome(x)))
    BY <2>3, <2>4, <2>5, Diverge
  <2>. QED BY <1>1, <1>4, <2>6 DEF Nested
<1>5. CASE x \in PodShared /\ y \in PodShared
  <2>1. InPod(x)[1] # InPod(y)[1] BY <1>5 DEF InPod, PodShared
  <2>2. 1 \in 1..Len(InPod(x)) /\ 1 \in 1..Len(InPod(y))
    <3>1. Len(InPod(x)) \in 1..3 /\ Len(InPod(y)) \in 1..3 BY <1>2, <1>5
    <3>. QED BY <3>1
  <2>3. ~Under(InPod(x), InPod(y)) /\ ~Under(InPod(y), InPod(x))
    BY <1>2, <1>5, <2>1, <2>2, Diverge
  <2>. QED BY <1>2, <1>5, <2>3 DEF Nested
<1>6. ASSUME NEW h \in HomeShared, NEW p \in PodShared
      PROVE  ~Under(At(InHome(h)), InPod(p)) /\ ~Under(InPod(p), At(InHome(h)))
  <2>. DEFINE a == At(InHome(h))
              b == InPod(p)
  <2>1. InHome(h)[1] \in {".claude", ".claude.json", ".m2"} BY DEF InHome, HomeShared
  <2>2. \A i \in 1..Len(b) : b[i] \in {"var", "lib", "docker", "run", "ssh-agent"}
    BY DEF InPod, PodShared
  <2>3. 1 \in 1..Len(InHome(h)) BY <1>1, SMTT(30)
  <2>4. /\ a \in Seq(Parts) /\ Len(a) = Len(Home) + Len(InHome(h))
        /\ a[Len(Home) + 1] = InHome(h)[1] /\ \A i \in 1..Len(Home) : a[i] = Home[i]
    BY <1>1, <2>3, <1>0, AtIsPath
  <2>5. b \in Seq(Parts) /\ ~Under(Home, b) BY <1>2 DEF HomeApart
  <2>6. Len(InHome(h)) \in 1..3 BY <1>1
  <2>7. Len(a) \in Nat /\ Len(b) \in Nat BY <2>4, <2>5
  <2>. HIDE DEF a, b
  <2>8. CASE Len(b) > Len(Home)
    <3>1. Len(Home) + 1 \in 1..Len(a) /\ Len(Home) + 1 \in 1..Len(b) /\ Len(Home) + 1 \in Nat
      BY <1>3, <2>4, <2>6, <2>7, <2>8
    <3>2. a[Len(Home) + 1] # b[Len(Home) + 1] BY <2>1, <2>2, <2>4, <3>1
    <3>. QED BY <2>4, <2>5, <3>1, <3>2, Diverge DEF a, b
  <2>9. CASE Len(b) <= Len(Home)
    <3>1. PICK i \in 1..Len(b) : Home[i] # b[i]
      <4>1. SubSeq(Home, 1, Len(b)) # b BY <2>5, <2>9 DEF Under
      <4>2. /\ SubSeq(Home, 1, Len(b)) \in Seq(Parts) /\ Len(SubSeq(Home, 1, Len(b))) = Len(b)
            /\ \A i \in 1..Len(b) : SubSeq(Home, 1, Len(b))[i] = Home[i]
        BY <1>3, <2>7, <2>9
      <4>. QED BY <2>5, <4>1, <4>2
    <3>2. i \in 1..Len(Home) /\ i \in 1..Len(a) /\ i \in Nat BY <1>3, <2>4, <2>6, <2>7, <2>9, <3>1
    <3>3. a[i] # b[i] BY <2>4, <3>1, <3>2
    <3>. QED BY <2>4, <2>5, <3>1, <3>2, <3>3, Diverge DEF a, b
  <2>. QED BY <1>3, <2>7, <2>8, <2>9
<1>7. CASE x \in HomeShared /\ y \in PodShared
  <2>1. ~Under(Own(x).path, Own(y).path) /\ ~Under(Own(y).path, Own(x).path)
    BY <1>1, <1>2, <1>6, <1>7
  <2>. QED BY <2>1 DEF Nested
<1>8. CASE x \in PodShared /\ y \in HomeShared
  <2>1. ~Under(Own(x).path, Own(y).path) /\ ~Under(Own(y).path, Own(x).path)
    BY <1>1, <1>2, <1>6, <1>8
  <2>. QED BY <2>1 DEF Nested
<1>. QED BY <1>4, <1>5, <1>7, <1>8

(* Two mounts m and n of a pod keep out of each other's way.               *)
Clear(m, n) ==
    /\ m.path # n.path
    /\ ~(m.rw /\ n.rw /\ Nested(m.path, n.path) /\ {m.path, n.path} \cap (Exists \ Dirs) = {})

LEMMA OwnClear ==
    ASSUME HomeApart, NEW x \in Names, NEW y \in Names, Own(x) # Own(y)
    PROVE  Clear(Own(x), Own(y))
<1>1. x # y OBVIOUS
<1>2. Own(x).path # Own(y).path BY <1>1, OwnByName
<1>3. Own(x).rw /\ Own(y).rw => ~Nested(Own(x).path, Own(y).path)
  BY <1>1, OwnByName, SharedApart
<1>. QED BY <1>2, <1>3 DEF Clear

LEMMA UsersClear ==
    ASSUME ~BadMounts, NEW m \in Users, NEW n \in Users, m # n
    PROVE  Clear(m, n)
<1>1. ASSUME NEW u \in Users
      PROVE  /\ u = Chosen(u.path, u.rw)
             /\ \/ u.path = input.cwd /\ u.rw = TRUE
                \/ u.path \in Writable /\ u.rw = TRUE
                \/ u.path \in ReadOnly /\ u.rw = FALSE
  <2>1. \A p, w : Chosen(p, w).path = p /\ Chosen(p, w).rw = w BY DEF Chosen, Mount
  <2>2. \/ u = Chosen(input.cwd, TRUE)
        \/ \E p \in Writable : u = Chosen(p, TRUE)
        \/ \E p \in ReadOnly : u = Chosen(p, FALSE)
    BY DEF Users
  <2>3. CASE u = Chosen(input.cwd, TRUE) BY <2>1, <2>3
  <2>4. ASSUME NEW p \in Writable, u = Chosen(p, TRUE)
        PROVE  u = Chosen(u.path, u.rw) /\ u.path \in Writable /\ u.rw = TRUE
    BY <2>1, <2>4
  <2>5. ASSUME NEW p \in ReadOnly, u = Chosen(p, FALSE)
        PROVE  u = Chosen(u.path, u.rw) /\ u.path \in ReadOnly /\ u.rw = FALSE
    BY <2>1, <2>5
  <2>. QED BY <2>2, <2>3, <2>4, <2>5
<1>2. /\ \A p \in Writable \cup ReadOnly : p \in Exists /\ p # input.cwd
      /\ Writable \cap ReadOnly = {}
      /\ \A a, b \in {input.cwd} \cup (Writable \cap Dirs) : ~Nested(a, b)
  BY DEF BadMounts
<1>3. m.path # n.path
  <2>1. m.path # n.path \/ m.rw # n.rw BY <1>1
  <2>2. m.path = n.path => m.rw = n.rw BY <1>1, <1>2
  <2>. QED BY <2>1, <2>2
<1>4. ASSUME m.rw, n.rw, {m.path, n.path} \cap (Exists \ Dirs) = {}
      PROVE  ~Nested(m.path, n.path)
  <2>1. ASSUME NEW u \in Users, u.rw, u.path \notin Exists \ Dirs
        PROVE  u.path \in {input.cwd} \cup (Writable \cap Dirs)
    BY <1>1, <1>2, <2>1
  <2>. QED BY <1>2, <1>4, <2>1
<1>. QED BY <1>3, <1>4 DEF Clear

LEMMA ProxyClear ==
    ASSUME NEW m, NEW n, OfProxy(m), OfProxy(n), m # n
    PROVE  Clear(m, n)
<1>. DEFINE SecretOf(k) == IF k = "addon" THEN "mitm_addon"
                           ELSE IF k = "rules" THEN "rules_json"
                           ELSE IF k = "mitm-confdir" THEN "mitm_certs" ELSE k
<1>1. ASSUME NEW u, OfProxy(u) PROVE \E k : u = Mount(<<k>>, SecretOf(k))
  BY <1>1 DEF OfProxy
<1>2. PICK k : m = Mount(<<k>>, SecretOf(k)) BY <1>1
<1>3. PICK l : n = Mount(<<l>>, SecretOf(l)) BY <1>1
<1>4. <<k>> # <<l>> BY <1>2, <1>3
<1>. HIDE DEF SecretOf
<1>5. m.path = <<k>> /\ m.rw = FALSE BY <1>2, OwnFields
<1>6. n.path = <<l>> BY <1>3, OwnFields
<1>. QED BY <1>4, <1>5, <1>6 DEF Clear

(* Whatever the options, the paths and the credentials, and however the    *)
(* managed settings come and go: if the home is not inside a directory the *)
(* pod has for itself (/run, say), every Secret a pod mounts was made, and *)
(* no two mounts of a pod are in each other's way unless the user named    *)
(* one of them (_volumes_and_mounts, _assemble_manifests).                 *)
THEOREM PodsStart == ASSUME HomeApart PROVE Spec => []MountsServed
<1>1. ASSUME MountInv PROVE MountsServed
  <2>. SUFFICES ASSUME pc \in Ready, NEW pod \in Pods, NEW m \in mounts[pod]
                PROVE  /\ Backed(m)
                       /\ \A n \in mounts[pod] : m # n /\ m.user = n.user => Clear(m, n)
    BY DEF MountsServed, Backed, Clear, Ready, Managed
  <2>1. pod \in {"agent", "mitm", "holder"} BY DEF Pods, NoMounts
  <2>2. Backed(m)
    <3>1. m \in mounts.agent \cup mounts.mitm \cup mounts.holder BY <2>1
    <3>. QED BY <1>1, <3>1 DEF MountInv, MountsMade
  <2>3. ASSUME NEW n \in mounts[pod], m # n, m.user = n.user PROVE Clear(m, n)
    <3>1. CASE pod = "agent"
      <4>1. ~BadMounts BY <1>1 DEF MountInv, Checked, Ready
      <4>2. \A u \in Users : u.user = TRUE BY DEF Users, Chosen, Mount
      <4>3. m \in Users \/ \E x \in Names : m = Own(x)
        BY <1>1, <3>1 DEF MountInv, MountsOwned
      <4>4. n \in Users \/ \E x \in Names : n = Own(x)
        BY <1>1, <2>3, <3>1 DEF MountInv, MountsOwned
      <4>5. CASE m \in Users /\ n \in Users BY <2>3, <4>1, <4>5, UsersClear
      <4>6. CASE /\ \E x \in Names : m = Own(x)
                 /\ \E x \in Names : n = Own(x)
        BY <2>3, <4>6, OwnClear
      <4>7. ~(m \in Users /\ \E x \in Names : n = Own(x)) BY <2>3, <4>2, OwnByName
      <4>8. ~(n \in Users /\ \E x \in Names : m = Own(x)) BY <2>3, <4>2, OwnByName
      <4>. QED BY <4>3, <4>4, <4>5, <4>6, <4>7, <4>8
    <3>2. CASE pod = "mitm"
      <4>1. OfProxy(m) /\ OfProxy(n) BY <1>1, <2>3, <3>2 DEF MountInv, MountsOwned
      <4>. QED BY <2>3, <4>1, ProxyClear
    <3>3. CASE pod = "holder"
      <4>1. m = n BY <1>1, <2>3, <3>3 DEF MountInv, MountsOwned
      <4>. QED BY <2>3, <4>1
    <3>. QED BY <2>1, <3>1, <3>2, <3>3
  <2>. QED BY <2>2, <2>3
<1>. QED BY <1>1, MountInvariance, PTL
=============================================================================
