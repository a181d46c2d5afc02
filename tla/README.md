# agent-uplink in TLA+

agent-uplink runs a coding agent in a microVM pod of a local k3s cluster, behind
a mitmproxy pod that enforces an allow-list and holds the real credentials. One
host process per run prepares everything, applies it in one `kubectl apply`,
attaches a terminal with `kubectl exec`, and tears the run's namespace down when
it leaves. This directory holds the specifications of the parts whose
correctness depends on the order of things: processes, signals, children, pods
and requests.

Run a model with `tlc -config <X>.cfg <MC module>.tla`, a proof with
`tlapm <X>_proofs.tla`. `PROJECT.json` maps every definition to the lines it
models.

## 1. Inventory

| part | source | state it keeps | operations | talks to | hard behaviour |
|---|---|---|---|---|---|
| session lifecycle | `session.py`, `cli.main`, `cli.run` | `Session._cleaned_up`, the namespace, the scratch directory, kubectl children | create, run, cleanup, `handle_signal` | kubectl children; cluster; reaper (warning) | signals between any two bytecodes, handler on handler, partial applies, kills |
| reaper | `reaper.py` | none of its own | `list`, `clean` | cluster | stale listing, prompt of any length, best-effort deletes |
| kubectl and subprocess wrappers | `k8s.py`, `process.py` | the chosen context | apply, delete, wait, exec, run | kubectl | tolerated failures, children killed on unwinding |
| bootstrap | `bootstrap.py`, `cli._ensure_agent_image` | CA files in `~/.agent_uplink/mitm`, docker's image, the registry | make the CA, decide, build, push | generator pod, docker, registry | no lock between runs; a rebuild is owed only in one process's memory |
| mitmproxy addon | `mitm_addon/filter.py` | compiled rules, real AWS credentials; per flow: response, stream flag, deferred signature | `next_layer`, `requestheaders`, `request`, `responseheaders` | mitmproxy | headers leave before bodies; streaming against signing |
| rules | `rules.py` | none | load, resolve placeholders, validate, layer | agents, kube | first match wins across five layers |
| network perimeter | `cli._network_policies`, pod builders | manifests | build | cluster | combinations of policies |
| ssh agent | `sshagent.py`, `cli._ssh_agent_manifests`, relay sidecar | holder's keys and socket, relay socket | load keys, serve, relay | agent pod | container restarts, stale sockets |
| configuration files | `config.py` | none | discover, coerce, merge | argparse | precedence of nested files, groups of options |
| Claude agent | `agents/` | OAuth token on the host, `.claude.json` copy in the scratch directory | prepare, pod contribution | keyring, host files | token expiry against slow start-ups |
| kube, AWS, git helpers | `kube.py`, `aws.py`, `git.py` | none | translate host configuration | CLI tools | clashes of hosts |
| image scripts | `Dockerfile`, `dockerd-entrypoint.sh` | nested dockerd | start, wait 30 s | guest | – |

What makes each correct: the *session* cleans up once, whatever strikes it, and
what it leaves behind has a known reason; an agent is only attached when its
confinement is complete. The *reaper* deletes what was asked for and nothing
else, and ends. *Bootstrap* gives an attached agent the CA its proxy signs with.
The *addon* lets nothing out that no rule admits, and never a request that
should be re-signed without its signature. *Rules*: precedence by layer.
*Perimeter*: the agent reaches the proxy, DNS and the ssh ranges only.
*Configuration*: the nearest file wins.

## 2. Modules

| module | models | runs |
|---|---|---|
| `SessionPromise` | abstract: what a run promises about its namespace | implemented by `SessionLifecycle`; its runs are those of `SessionReaper` |
| `SessionLifecycle` | `Session`, `main`, `run`, `handle_signal`, kubectl children, cluster | `session_lifecycle`, `signal_race`, `second_signal` |
| `SessionReaper` | `cmd_clean` beside the runs of `SessionPromise` | `session_reaper` |
| `Startup` | `run` up to the attach: options, credentials, secrets, mounts | `startup` |
| `SshPerimeter` | policies, key directory, holder and relay | `ssh_perimeter` |
| `RuleLayers` | kube contexts and rule sources to the list of rules | `rule_layers` |
| `MitmFlow` | the addon's hooks as mitmproxy drives them | `mitm_flow`, `mitm_denied_body` |
| `ConfigMerge` | discovery and merge of the configuration files | `config_merge` |
| `AgentImage` | CA, image, registry and the start-ups that share them | `agent_image`, `new_certs` |

`MC_*` modules give the constants their small values; `X_proofs` holds the
theorems about `X`, in `SessionLifecycle_proofs` also that `SessionLifecycle`
implements `SessionPromise`.

The parts meet as the program's do: `ConfigMerge` ends with the options that
`Startup` starts from; the start-up's steps are those `SessionLifecycle` takes
as one, with their failure; `RuleLayers` is the step `Resolve` of `Startup` and
makes the rules that are the constant `Rules` of `MitmFlow`; `SshPerimeter` and
`Startup` are two views of the manifests that `SessionLifecycle` applies as
groups; `AgentImage` is the step `EnsureImage`. They are separate because they
share no variables there: what crosses is a value handed over once.

### SessionLifecycle

A run is one thread. `pc` is the location in `main`/`run`; `inHandler` says that
`handle_signal` is on top of it; `act` is the stage of the innermost
`Session.cleanup`. One stage is enough although handlers nest: every handler
leaves by an exception, so the frames below it are unwound and never resumed.
`flag` is `_cleaned_up`. `apply`, `tried` and `kdel` are the kubectl children,
which run beside the thread and beside each other; `res` are the groups of
manifests present in the namespace, in the order `_assemble_manifests` lists
them. `cause` is a history of the faults that can excuse a leak.

- `Signal(s, toGroup)`: a Ctrl-C in the terminal reaches the process group and
  kills the kubectl children at once; a `kill` of the pid does not.
- `LeaveHandler`: `sys.exit` unwinds; in the body of the `try` this runs the
  `finally` clause, so a second `cleanup`, which returns at the guard; in the
  `finally` clause itself, or before the `try`, the process ends.
- `ApplyDoc`: kubectl goes on past a failed document, and the API server refuses
  objects in a namespace that is missing or terminating.
- `Contribute` writes the redacted `.claude.json` into the scratch directory.

Abstracted: how each host-side step of `run` works (it succeeds or raises), the
contents of manifests, the two `signal.signal` calls (one step), and the cascade
of a namespace (one step). Runs share no state in this part (`uuid4` ids), so
the single run of the configuration stands for any number; the proofs do not
need that argument.

### SessionPromise and its two users

`SessionPromise` has `stage`, `ns`, `complete` and no processes. Under the
mapping `stageOf`, `completeOf`, `SessionLifecycle` is checked to implement it,
with fairness (`KeepsPromise`): the namespace appears once, never after the
exit, is never resurrected, an attached agent had everything, a closing run
exits and a terminating namespace goes. `SessionReaper` composes those abstract
runs with the concrete `clean`, which keeps the composition small and still
sound for what it relies on: that `SessionLifecycle` implements the promise is
also proved (`KeepsItsPromise`), and a cleaner's delete is the deletion by others
that the promise has at any time.

### SessionReaper

A cleaner takes one listing (`Select`, a failed lookup being an empty one),
refuses all but one selector, may wait at the prompt for ever, and deletes its
targets one at a time, oldest first, each with or without success and with
`--wait` blocking on it. Meanwhile runs come, deploy, close and crash and the
clock ticks. `present`, `missed` are histories. The clocks of host and cluster
agree; names and ids are one thing.

### MitmFlow

One flow from CONNECT to the end. The addon's hooks (`NextLayer`, `Deny`,
`Admit`, `RequestHook`, `ResponseHeaders`) alternate with what mitmproxy does
between them (`Flush`, `Chunk`, `Forward`, `Relay`: external, modelled from how
the addon's comments and tests use them). `up` records what has left for the
server and cannot be taken back. Hosts, methods and paths are members of small
sets, a rule is a record of such sets; Content-Length and the real number of
chunks are separate, so that a body of unknown size is one. A rule may inject
headers: an injected Authorization replaces the agent's (`Inject`), and
`injected` records the rule whose headers a request got. The signature has two
outcomes, of the body's hash or of `UNSIGNED-PAYLOAD`; its bytes have none. Flows
share only read-only state, so one flow stands for all.

### AgentImage

The CA directory (`disk`: key, certificate, dhparam file), docker's tag
(`local`) and the registry (`pushed`) are shared by start-ups that interleave
step by step, and by generator pods that outlive a killed run. The user may
remove the CA, images age and are pruned. `calm` and `alone` are histories that
say when the program's unlocked protocol is enough. The mitmdump pod's order of
writing files is external.

### Startup

One sequential start-up against a host that goes on: `Tick` advances the clock
(never between two steps that take no time in the code), `HostEdits` lets the
user's own Claude renew its token and an administrator install or remove managed
settings. `secrets` maps the name of each Secret made so far to the set of *real*
credentials in it (a placeholder is none), `mounts` what each of the three pods
mounts, so that the two places where a Secret's name and condition are written
down (where it is made, where it is mounted) can disagree in the model as they
could in the code. A path is a sequence of names, `Real` stands for
`Path.resolve`. Every slow step may fail (`Fail`); an SSO login and one retry per
AWS profile are steps of their own.

Abstracted: the text of secrets and manifests, resource figures, environment and
argv of the containers. The settings' redaction is kept: which keys survive is
what `PlaceholdersOnly` is about.

### SshPerimeter

First the host: the options, `sshagent.prepare`'s split of the key directory by
marker, name and passphrase, the documents in the order of the apply, each
accepted or refused. Then the cluster: the holder's script step by step (remove
the socket, start ssh-agent, add the keys, start socat), the relay's, their
probes, crashes of either container or of ssh-agent alone, and restarts in place,
which keep the emptyDir and so the old socket. `Open(policies, from, to, port)`
is what NetworkPolicy means, evaluated over the policies that are applied, so a
missing policy opens the pod it would have selected. Endpoints are the pods,
kube-dns and one representative each of the LAN, the internet, the metadata
address and a stranger's pod. A name is a sequence of parts, so suffixes and
collisions are real. `loads` says whether ssh-add takes a key: the code cannot
know this beforehand. External: kubelet and NetworkPolicy, from how the manifests
and their comments use them.

### RuleLayers

`ReadContext` and `ReadSource` read one kube context or source each and may end
the start-up; `Layer` puts the layers together; then each rule is validated and
its header resolved piece by piece, and `Exec` runs a command on the host on the
way (`ran`). A rule keeps its shape (which fields are given, malformed, empty),
patterns are the sets they match. The properties compare the result with
`DocLayers`, the layers of the docstring of `rules.resolve` read off the inputs
without the algorithm. On one point the repository has two accounts: without the
defaults the docstring keeps the kube rules (rules.py:218-220), and
docs/rules.md:24-25 has only the user's. `DocLayers` takes the docstring's side,
as the code does and says why, so `LayersDecide` is no evidence for docs/rules.md.

### ConfigMerge

The walk goes up from the working directory, the merge comes down, entry by
entry, by the kind of option (mode flag, list, positional, flag, value); then the
command line. The properties read the expected value off the files directly: a
single value by where it must come from, a list as what the files say, joined.

## 3. Properties and runs

`session_lifecycle` (one run, two signals, one kill, deletions by others,
~96 000 states):

- `TypeOK` – besides the types: a cleanup is under way exactly in a handler or
  the `finally` clause, and no run leaves `main` by itself without the flag.
- `SingleSweep` – the delete is started at most once.
- `AttachedConfined` – attached with an active namespace means everything the
  run assembled is there, whatever part of the apply failed.
- `LeakExplained`, `ScratchExplained` – a namespace or scratch directory that
  outlives an exit has one of the named causes, and no other.
- `SignalReported` – a signalled run never exits with success.
- `TeardownEnds`, `TeardownCompletes`, `ReapedRunEnds` – liveness: teardown
  ends the process; an undisturbed exit leaves nothing; a run whose namespace
  is deleted under it ends.
- `KeepsPromise` – refinement of `SessionPromise`.

Two signals are enough: each abandons what was on top, and a third meets the
same states as the second; the proofs have no bound.

`session_reaper` (two runs, one cleaner, two points of time, ~311 000 states):
`RegistryKept`, `OnlyDueDeleted` (a step property that relates the delete to
the listing and the selector), `SweepComplete`, `CleanEnds`.
Two runs are needed for a partial selection and an order; one tick for two ages.

`mitm_flow` (every request of five hosts, two methods, two paths, four kinds of
Authorization and bodies of up to two chunks; threshold one chunk):
`NothingLeavesUnruled`, `KnownKeysResigned`, `RealKeysStayHome`,
`HashCoversBody`, `MemoryBounded`, `FlowsEnd`. The rules contain an HTTP rule
and a tunnel for the same host, two rules that differ by method and path, and
rules that inject an Authorization, another header and none.

`agent_image` (two start-ups at a time, any number in sequence, two CAs,
~1.2 million states): `CalmRunsTrust` (no overlap, and no CA lost before its
push: every attached agent trusts its proxy), `ForceRepairs` (`--force-rebuild`
repairs whatever happened before, except a torn key pair), `CalmReadsWhole`.
Two CAs: the old and the new one.

`startup` (one option group at a time in both modes; threshold 1, tokens that
live 4, clock to 5, one edit; ~478 000 states):

- `FreshAtAttach` – the token mitm injects is good at the attach, or the
  start-up took longer than the refresh threshold, or claude did not renew it.
- `MountsServed` – every mounted Secret was made, and no two mounts collide but
  where the user named one of the agent's own paths.
- `PlaceholdersOnly` – no Secret the agent's pod mounts holds a real credential
  but those of the host settings that are copied as they are.

A threshold of 1 and a life of 4 give tokens that are expired, expiring, good at
the check and bad at the attach, and good throughout; the proof has no bound.

`ssh_perimeter` (73 inputs, among them 12 kinds of key directory; one refused
document, two crashes, ~50 000 states): `PerimeterIsTheTable` (the policies open
exactly the documented connections from the first pod on, not only at the end),
`KeysStayHeld`, `SigningRecovers` (liveness: every loadable key signs again after
any two crashes unless ssh-agent alone died). Two crashes let a crash hit a
restart.

`rule_layers` (up to two contexts and two sources out of seven and fourteen,
~49 000 states): `LayersDecide`, `CredentialsNotShadowed`, `KubeHostsServed`,
`OnlyWrittenCommandsRun`. Two of each are needed for an order and a clash.

`config_merge` (three directories, home any of them or none, up to two entries in
the nearest file, ~259 000 states): `NearestWins`, `ListsAccumulate`. Three
directories give a file below, between and above; two entries a repeated key.

### Disagreements

Each of these runs is expected to fail, and shows a sentence of the
documentation that the code does not keep:

- `signal_race` / `SignalTearsDown` – "On exit / SIGINT / SIGTERM: `kubectl
  delete ns <id>`" (docs/architecture.md:58). A SIGTERM to the pid during
  `kubectl apply`: the delete comes before the namespace exists.
- `second_signal` / `SecondSignalTearsDown` – "torn down on exit"
  (README.md:148). A second signal during the delete: the flag is already set.
- `mitm_denied_body` / `LargeBodiesStream` – "bodies over 1MB or of unknown
  length stream, everything else buffers, and a flow awaiting SigV4 always
  buffers" (docs/aws-resigning.md:26). A refused flow buffers too.
- `new_certs` / `NewCertsReachTheImage` – "rebuild + push whenever mitm certs
  are newly generated" (docs/architecture.md:66). Not if the run that generated
  them stops first.

### Observations

Met while modelling. The models contain them as the code has them, the
properties are stated with them as the exception, and none is more than a
sentence that promises a little more, or a corner:

- a user's `l4_forward` rule is decided in `next_layer`, before any HTTP rule,
  and so takes its host away from auth and kube injection
  (`CredentialsNotShadowed`, `KubeHostsServed` except it);
- `--no-default-rules` keeps the kube rules, as the docstring has it
  (rules.py:218-220), where docs/rules.md:24-25 says "only the user's rules";
  `LayersDecide` is stated after the docstring;
- the tokens of kube contexts pass through the placeholder resolver like headers
  that a user wrote;
- `methods: []` means any method, `paths: []` is refused;
- docs/rules.md: a validation error "aborts startup with no pods launched";
  bootstrap may have launched the registry and the CA generator, and `exec`
  placeholders of earlier rules have run;
- a nearer `anthropic: false` does not undo a farther `true`, and with both modes
  true in one file the last key wins (`NearestWins` says what a mode flag gives);
- lists run from home to the working directory to the command line, so that for
  `rules`, where the first match wins, the farthest file wins;
- a `store_true` flag set in a file cannot be unset on the command line; the
  `BooleanOptionalAction` options have a `--no-` form (docs/config-file.md:13);
- `*.pub` files are not looked into: a private key named as a plain public key
  goes nowhere, one named `*-cert.pub` is copied to the agent, where
  sshagent.py:21-22 has a file with the marker "always treated as a private key
  … regardless of its name" (`KeysStayHeld` excepts these names);
- of several keys one that does not load is only logged; cli.py:1170-1173 speaks
  of a timeout, which comes only if none loads; the holder is ready after the
  first;
- after a restart in place the old socket passes the relay's `test -S`, and an
  ssh-agent that dies alone under socat is not restarted (`Orphaned`);
- whether the OAuth Secret is made and whether it is mounted is decided twice,
  with an image build in between (agent.py:265), likewise managed settings
  (`MountsServed` excepts an edit in that window);
- `--maven` with a `--mount-rw` of the same repository gives a pod two mounts of
  one path, which the API server refuses;
- AWS session credentials are exported once, at start-up, and not looked at
  again.

### Fairness

A Python thread that can move does (`WF` on `Main`, `Cleanup`); kubectl calls
end, since waits carry timeouts; the namespace controller finishes; `kubectl
exec` ends once its pod is gone. Nothing is assumed of signals, kills, deletions
by others, the prompt or an attached agent. For the addon: the proxy goes on and
the peers keep sending; hanging up is never due. In `SshPerimeter` the scripts
of holder and relay run on and the kubelet restarts a container that ended
(`WF` on `HolderStep`, `RelayStep`); nothing is assumed of the host, the API
server, timeouts or crashes, so that `SigningRecovers` speaks of an attached
session only. `AgentImage`, `Startup`, `RuleLayers` and `ConfigMerge` have only
safety properties and no fairness.

Deadlock checking is off where everything may be over (runs exited, flows done,
a start-up ended) and on in `AgentImage`, where another run can always come.

## 4. Proofs

All theorems hold for every value of the constants under the one named
assumption of the module they are about, and `PodsStart` under one more, below;
the checks of section 3 that they cover say which instance TLC also explored.
Every safety property that a passing run checks is a theorem.

### The session

`SessionLifecycle_proofs`: `TypeCorrect`, `SweptOnce`, `AttachIsConfined`,
`LeaksAreExplained`, `ScratchIsExplained`, `SignalsAreReported`, from
`SessionAssumption` (`MaxSignals \in Nat`). None of the five safety properties is
inductive. `IInv` is the typing (`Typed`), `Busy` (a cleanup is under way exactly
in a handler or the `finally` clause) and, per run, six parts:

- `Shape`: a cleanup activation belongs to a handler or to the `finally`
  clause, and a run that has ended runs no code;
- `Guarded`: the flag is up from before the delete to the end and only then,
  and no delete was started without it – gives `SingleSweep`;
- `Child`: when the apply child can be alive – beside a handler only with the
  race on record – and that without kubectl there is none;
- `Torn`: once the flag is up, a namespace or directory still standing is being
  torn down or has its cause – gives both `...Explained`;
- `Applied`: an apply without an error so far has put everything it submitted
  into the active namespace – gives `AttachedConfined`;
- `Coded`: a signalled run is in a handler or on its way out, and its code is
  not success – gives `SignalReported`.

`KeepsItsPromise`, in the same module, is the safety part of the refinement.
`IInv` is not enough: a pod in a *terminating* namespace may still report Ready,
so the wait can pass there too, and what is in the namespace must be known until
it is gone (`Filled`). Then `ThreadStep`, `FaultStep` and `ClusterStep` name for
each action the abstract step it is, or show that it is a stutter.

`SessionReaper_proofs`: `TypeCorrect`, `RegistryIsKept`, `SweepIsComplete`,
`DueOnly` (an action property). A cleaner works
on an old listing, so `RInv` says what stays true of it while runs go on: its
targets existed then and are due, and being due is stable because the clock only
grows (`Due`); under `--all` whatever is no longer a target is on its way out
(`Swept`).

### Start-up and perimeter

`Startup_proofs`: `FreshToken` needs `Covered` – from the moment the token is
looked at it is good for the threshold, or claude did not renew it, and later
steps do not lose this – and `Clocks`. `AgentGetsPlaceholders` needs that the
agent mounts no Secret outside a fixed list and that each on the list is
`Harmless` whatever order it was made in.

`PodsStart` (`MountsServed`) has two halves. That every mounted Secret exists
needs `MountInv`: which Secrets are made by which step (`Made`), under the
condition the mount is later made under, which is written a second time in the
code; a condition read anew from the host (the managed settings) is where an edit
is the exception. That paths do not collide needs every mount to be one of the
user's, which were checked, or one of the few the pod makes itself, which `Own`
names by the last part of the path (`MountsOwned`); then `OwnClear`, `UsersClear`
and `ProxyClear` compare them kind by kind. It takes the hypothesis `HomeApart`,
that home is in none of the directories the pod has for itself (`/var/lib/docker`,
`/run`, `/ssh-agent`): nothing in the code looks at it, and with a home there the
agent's mounts do lie inside those directories.
`StartupAssumption` only says that home is a path and how the times compare.

`SshPerimeter_proofs`: `TableHolds` rests on `Ordered` (what is applied is a
prefix of the documents, up to refusals), from which `PoliciesFirst` has the four
policies in force before the first pod; `EgressIs`, `LeavesIs`, `EntersIs` then
compute what they admit together, peer by peer. `KeysAreHeld` rests on `Split`
(the plan is that of the input) and `Held` (the container knows no key outside
the plan, and an agent that is waited for has a holder with a key that loads).

`RuleLayers_proofs`: `TypeCorrect`, `CredentialsLead`, `NothingElseRuns`.
`KubeRead` and `SourcesRead` say that the part of the inputs that was read is what
the reference reads off them; `Layered` that the credentials are a prefix of the
list; `Prefixed` that each resolved rule is the one of the same rank; `Pending`
that the pieces left are pieces of the rule at hand. The first match, when
several rules admit a request, is then at or before the credential's rank.

`PrecedenceByLayer` (`LayersDecide`) and `ContextsKeepCredentials`
(`KubeHostsServed`) need all of the list, not only its start. `DInv` adds that a
header resolved so far is what its pieces say (`HeaderAsWritten`), that a resolved
rule is its written one (`RulesAsWritten`), where each layer lies in the list
(`LaidOut`, `UserLaid`) and that the kube rules are those of the contexts, one
host each (`KubeHosts`). `Layout` then makes the list the layers end to end, and
the first match in it is the first match of the first layer that has one.
`LayerAssumption` says that the mark for "no such field" is no value a field has.

`ConfigMerge_proofs`: `PrecedenceHolds` (`NearestWins`) and `ListsAreComplete`
(`ListsAccumulate`). The merge works on a list of files and the properties speak
of directories, so `OptInv` says which directory and which of its entries comes
next: `Found` numbers the files of the list by the directories of the walk, with
nothing but missing files between them, and `SoFar` has the place. What the
options are at that place is said in the terms of the property: the nearest of
the entries merged so far (`Nearest`), or all of them joined (`All`). One entry
(`MergeAt`, `NearestMore`, `AllMore`) and one file (`NearestOpen`, `AllClosed`,
`AllOpen`) keep both. A list is joined by a recursive function; the lemmas on it
(`JoinedMore`, `JoinedSilent`) take the least place at which two of them differ,
since induction is not available. `OptionAssumption` has that a list option's
default is empty, as all of them are in `cli.py`, and that a key of no option is
neither an option nor a mode.

### Proxy and image

`MitmFlow_proofs`: the five invariants of the run for any rules, body sizes and
threshold. They speak of what has left; what makes them inductive is what each
stage knows before: nothing was touched (`Fresh`), what `requestheaders` decided
and that every later stage kept to it (`Verdict`: refused, to be signed, or the
headers of the first rule that admits, `FirstToAdmit`), and where the chunks are
(`Moving`: streamed chunks are not held, buffered ones have not left).

`AgentImage_proofs`: the files have no lock, so what is proved is the extent to
which none is needed. `Calm`: as long as start-ups did not overlap, at most one
is busy (`Only`), it may rely on what it read (`Relies`), and outside of one that
owes a push the registry has the CA of the disk. `Alone` with `Carries` is the
same for one forced run, whatever came before it. `MineHolds` and `MineIsEnough`
reduce both to the one busy run, so that a step needs one argument.

### Only model-checked

Liveness, which the prover does not do: `TeardownEnds`, `TeardownCompletes`,
`ReapedRunEnds`, the fairness of `KeepsPromise`, `CleanEnds`, `FlowsEnd`,
`SigningRecovers`. TLC checked every inductive invariant on the small instance
too.

## 5. Not modelled

- The in-guest scripts (`Dockerfile`, `dockerd-entrypoint.sh`): linear shell
  with a bounded wait, in a container the host never looks into.
- The registry's deployment and the `registries.yaml` check in `bootstrap.py`:
  `kubectl apply` of constant manifests, idempotent, and a comparison with a
  fixed text; preconditions of a start-up.
- The text of the git overlay, kubeconfig, manifests and settings, argparse's
  declarations and the messages: formatting no property is about.
- The bytes of SigV4, regular expressions, globbing and path canonicalisation in
  the addon: pure functions, represented by their outcome.
- `cmd_list`: it only prints what `clean` would see.
- CI, the examples and the lint configuration.

What could come next: a composition of `Startup` with `AgentImage` in one clock,
which would let the token expire *because* of a rebuild by another run.
