-------------------------- MODULE RuleLayers_proofs --------------------------
(***************************************************************************)
(* Theorems about RuleLayers, for any layers, sources, contexts and        *)
(* keyring.                                                                *)
(*                                                                         *)
(* The first half follows the reading (IInv): the kube rules and the flag  *)
(* replace_defaults are what the inputs read so far say (KubeRead,         *)
(* SourcesRead), each resolved rule is for the requests of the rule of the *)
(* same rank (Prefixed), and the pieces of a header that are left are      *)
(* pieces of the rule at hand (Pending).  The second half says what the    *)
(* stored list is (DInv), down to the headers, and that the first match in *)
(* it is the choice by layer.                                              *)
(***************************************************************************)
EXTENDS RuleLayers, SequenceTheorems, TLAPS

KubeRead ==
    /\ Len(kube.rules) + Len(contexts) = Len(input.kube)
    /\ \A i \in 1..Len(contexts) : contexts[i] = input.kube[Len(kube.rules) + i]
    /\ \A i \in 1..Len(kube.rules) : kube.rules[i] = KubeRule(input.kube[i])
    /\ pc \in {"sources", "rules", "header", "done"} => contexts = <<>>

Replaces(s) == input.sources[s].kind = "file" /\ input.sources[s].replace
SourcesLeft == Len(input.sources) - Len(sources)

SourcesRead ==
    /\ Len(sources) <= Len(input.sources)
    /\ \A i \in 1..Len(sources) : sources[i] = input.sources[SourcesLeft + i]
    /\ replace_defaults <=> \E s \in 1..SourcesLeft : Replaces(s)
    /\ pc \in {"rules", "header", "done"} => sources = <<>>

Layered ==
    /\ pc \in {"rules", "header", "done"} =>
          /\ Len(Credentials) <= Len(layered)
          /\ \A c \in 1..Len(Credentials) : layered[c] = Credentials[c]
    /\ pc \in {"kube", "sources"} => ran = {} /\ resolved = <<>>

Prefixed ==
    /\ Len(resolved) <= Len(layered)
    /\ \A i \in 1..Len(resolved) :
          /\ resolved[i].l4 = layered[i].l4
          /\ resolved[i].hosts = Given(layered[i].hosts)
          /\ resolved[i].methods = Given(layered[i].methods)
          /\ resolved[i].paths = Given(layered[i].paths)

Pending ==
    pc = "header" =>
        /\ Rank <= Len(layered) /\ ~Faulty(layered[Rank])
        /\ \A m \in 1..Len(todo) :
              /\ layered[Rank].inject # Absent
              /\ \E n \in DOMAIN layered[Rank].inject :
                    todo[m] = layered[Rank].inject[n]

IInv == /\ TypeOK /\ KubeRead /\ SourcesRead /\ Layered /\ Prefixed /\ Pending
        /\ OnlyWrittenCommandsRun

-----------------------------------------------------------------------------

LEMMA KubeRuleType == ASSUME NEW c \in Context PROVE KubeRule(c) \in Written
<1>1. KubeRule(c).inject \in {Absent, Malformed} \cup Seq(Piece)
  <2>1. c.token \in Piece BY DEF Context
  <2>2. <<c.token>> \in Seq(Piece) BY <2>1
  <2>. QED BY <2>2 DEF KubeRule
<1>2. c.host \in Hosts BY DEF Context
<1>. QED BY <1>1, <1>2 DEF KubeRule, Written, Field

LEMMA CompiledType ==
    ASSUME NEW r \in Written, NEW h \in Seq(Resolved), ~Faulty(r)
    PROVE  Compiled(r, h) \in Rule
<1>1. /\ r.l4 \in BOOLEAN /\ r.hosts \in Field(Hosts) /\ r.cidrs \in Field(IpHosts)
      /\ r.methods \in Field(Methods) /\ r.paths \in Field(Paths)
  BY DEF Written
<1>2. Given(r.hosts) \in SUBSET Hosts
  BY <1>1 DEF Faulty, Given, Unusable, Field
<1>3. r.l4 => Given(r.cidrs) \in SUBSET IpHosts
  BY <1>1 DEF Faulty, Given, Unusable, Field
<1>4. Given(r.methods) \in SUBSET Methods
  BY <1>1 DEF Faulty, Given, Unusable, Field
<1>5. Given(r.paths) \in SUBSET Paths
  BY <1>1 DEF Faulty, Given, Unusable, Field
<1>. QED BY <1>1, <1>2, <1>3, <1>4, <1>5 DEF Compiled, Rule

LEMMA InitIInv == Init => IInv
<1>. SUFFICES ASSUME Init PROVE IInv OBVIOUS
<1>1. input \in Input BY LayerAssumption DEF Init
<1>2. input.kube \in Seq(Context) /\ input.sources \in Seq(Source)
  BY <1>1 DEF Input
<1>e. \A S : <<>> \in Seq(S) OBVIOUS
<1>3. TypeOK
  <2>1. kube \in [rules : Seq(Written), certs : SUBSET Hosts, seen : SUBSET Hosts]
    BY <1>e, Zenon DEF Init
  <2>2. user_layer \in Seq(Written) /\ layered \in Seq(Written)
        /\ resolved \in Seq(Rule) /\ todo \in Seq(Piece) /\ header \in Seq(Resolved)
    BY <1>e, Zenon DEF Init
  <2>. QED BY <1>1, <1>2, <2>1, <2>2 DEF Init, TypeOK
<1>4. KubeRead BY <1>2 DEF Init, KubeRead
<1>5. SourcesRead BY <1>2 DEF Init, SourcesRead, SourcesLeft
<1>6. Layered /\ Prefixed /\ Pending BY DEF Init, Layered, Prefixed, Pending
<1>7. OnlyWrittenCommandsRun BY DEF Init, OnlyWrittenCommandsRun
<1>. QED BY <1>3, <1>4, <1>5, <1>6, <1>7 DEF IInv

(* The inputs are constant, and so is what is said of them.                *)
LEMMA InputsFixed == Next => input' = input /\ Credentials' = Credentials
<1>. SUFFICES ASSUME Next PROVE input' = input /\ Credentials' = Credentials
  OBVIOUS
<1>1. input' = input
  BY DEF Next, ReadContext, KubeDone, ReadSource, Layer, ValidateRule, Literal,
         Keyring, Exec, RuleDone, Store
<1>. QED BY <1>1 DEF Credentials, On, DefaultsOn, KubeRules

(* When all is read, use_defaults is what the inputs say.                  *)
LEMMA DefaultsRead ==
    ASSUME TypeOK, SourcesRead, sources = <<>>
    PROVE  use_defaults <=> DefaultsOn
<1>1. input.sources \in Seq(Source) BY DEF TypeOK, Input
<1>2. SourcesLeft = Len(input.sources) /\ DOMAIN input.sources = 1..SourcesLeft
  BY <1>1 DEF SourcesLeft
<1>. QED BY <1>2 DEF SourcesRead, Replaces, use_defaults, DefaultsOn

(* Who leaves the record of the kube rules or the sources alone keeps what *)
(* is said of them.                                                        *)
LEMMA KubeKept ==
    ASSUME KubeRead, UNCHANGED <<input, kube, contexts>>,
           pc' \in {"sources", "rules", "header", "done"} =>
              pc \in {"sources", "rules", "header", "done"} \/ contexts = <<>>
    PROVE  KubeRead'
BY DEF KubeRead

LEMMA SourcesKept ==
    ASSUME SourcesRead, UNCHANGED <<input, sources, replace_defaults>>,
           pc' \in {"rules", "header", "done"} =>
              pc \in {"rules", "header", "done"} \/ sources = <<>>
    PROVE  SourcesRead'
BY DEF SourcesRead, SourcesLeft, Replaces

LEMMA RanKept ==
    ASSUME OnlyWrittenCommandsRun, UNCHANGED <<input, layered, ran>>
    PROVE  OnlyWrittenCommandsRun'
BY DEF OnlyWrittenCommandsRun

LEMMA ReadContextStep == ASSUME IInv, ReadContext PROVE IInv'
<1>. USE DEF IInv
<1>. DEFINE c == Head(contexts)
<1>1. c \in Context /\ Tail(contexts) \in Seq(Context)
      /\ Len(Tail(contexts)) = Len(contexts) - 1
      /\ c = contexts[1] /\ Len(contexts) \in Nat \ {0}
      /\ \A i \in 1..Len(Tail(contexts)) : Tail(contexts)[i] = contexts[i + 1]
  BY HeadTailProperties, EmptySeq, LenProperties DEF ReadContext, TypeOK
<1>2. CASE Refused(c, kube.seen)
  <2>1. pc' = "failed" /\ UNCHANGED <<input, contexts, kube, sources, user_layer,
           replace_defaults, layered, resolved, todo, header, ran>>
    BY <1>2 DEF ReadContext, Fail
  <2>2. TypeOK' BY <2>1 DEF TypeOK
  <2>3. KubeRead' BY <2>1, KubeKept
  <2>4. SourcesRead' BY <2>1, SourcesKept
  <2>5. Layered' /\ Prefixed' /\ Pending' BY <2>1 DEF Layered, Prefixed, Pending
  <2>6. OnlyWrittenCommandsRun' BY <2>1, RanKept
  <2>. QED BY <2>2, <2>3, <2>4, <2>5, <2>6
<1>3. CASE ~Refused(c, kube.seen)
  <2>1. UNCHANGED <<input, pc, sources, user_layer,
           replace_defaults, layered, resolved, todo, header, ran>>
    BY <1>3 DEF ReadContext
  <2>2. kube'.rules = Append(kube.rules, KubeRule(c)) /\ contexts' = Tail(contexts)
        /\ kube' = [rules |-> Append(kube.rules, KubeRule(c)),
                    certs |-> IF Bearer(c) THEN kube.certs
                              ELSE kube.certs \cup {c.host},
                    seen  |-> kube.seen \cup {c.host}]
    BY <1>3 DEF ReadContext
  <2>3. c.host \in Hosts /\ KubeRule(c) \in Written
    BY <1>1, KubeRuleType DEF Context
  <2>4. kube.rules \in Seq(Written) /\ kube.certs \in SUBSET Hosts
        /\ kube.seen \in SUBSET Hosts
    BY DEF TypeOK
  <2>5. /\ kube'.rules \in Seq(Written)
        /\ Len(kube'.rules) = Len(kube.rules) + 1
        /\ \A i \in 1..Len(kube.rules) : kube'.rules[i] = kube.rules[i]
        /\ kube'.rules[Len(kube.rules) + 1] = KubeRule(c)
        /\ Len(kube.rules) \in Nat
    BY <2>2, <2>3, <2>4, AppendProperties, LenProperties
  <2>6. kube' \in [rules : Seq(Written), certs : SUBSET Hosts, seen : SUBSET Hosts]
    <3>1. (IF Bearer(c) THEN kube.certs ELSE kube.certs \cup {c.host}) \in SUBSET Hosts
      BY <2>3, <2>4
    <3>. HIDE DEF c
    <3>. QED BY <2>2, <2>3, <2>4, <2>5, <3>1
  <2>7. TypeOK' BY <1>1, <2>1, <2>2, <2>6 DEF TypeOK
  <2>8. KubeRead'
    <3>0. Len(kube.rules) + Len(contexts) = Len(input.kube) BY DEF KubeRead
    <3>1. Len(kube'.rules) + Len(contexts') = Len(input.kube)
      <4>1. Len(contexts') = Len(contexts) - 1 BY <1>1, <2>2
      <4>2. Len(kube'.rules) = Len(kube.rules) + 1 /\ Len(kube.rules) \in Nat
        BY <2>5
      <4>3. Len(contexts) \in Nat BY <1>1
      <4>4. \A x, y \in Nat : (x + 1) + (y - 1) = x + y OBVIOUS
      <4>. QED BY <4>1, <4>2, <4>3, <4>4, <3>0, Zenon
    <3>2. \A i \in 1..Len(contexts') : contexts'[i] = input.kube[Len(kube'.rules) + i]
      BY <1>1, <2>2, <2>5 DEF KubeRead
    <3>3. \A i \in 1..Len(kube'.rules) : kube'.rules[i] = KubeRule(input.kube[i])
      <4>1. c = input.kube[Len(kube.rules) + 1] BY <1>1 DEF KubeRead
      <4>. SUFFICES ASSUME NEW i \in 1..Len(kube'.rules)
                    PROVE  kube'.rules[i] = KubeRule(input.kube[i])
        OBVIOUS
      <4>2. CASE i = Len(kube.rules) + 1 BY <2>5, <4>1, <4>2
      <4>3. CASE i \in 1..Len(kube.rules) BY <2>5, <4>3 DEF KubeRead
      <4>. HIDE DEF IInv, c
      <4>. QED BY <2>5, <4>2, <4>3
    <3>. QED BY <2>1, <3>1, <3>2, <3>3 DEF KubeRead, ReadContext
  <2>9. SourcesRead' BY <2>1, SourcesKept
  <2>10. Layered' /\ Prefixed' /\ Pending'
    BY <2>1 DEF Layered, Prefixed, Pending, ReadContext
  <2>11. OnlyWrittenCommandsRun' BY <2>1, RanKept
  <2>. QED BY <2>7, <2>8, <2>9, <2>10, <2>11
<1>. QED BY <1>2, <1>3

LEMMA KubeDoneStep == ASSUME IInv, KubeDone PROVE IInv'
<1>. USE DEF IInv
<1>1. pc' = "sources" /\ contexts = <<>> /\ pc = "kube"
      /\ UNCHANGED <<input, contexts, kube, sources, user_layer,
           replace_defaults, layered, resolved, todo, header, ran>>
  BY DEF KubeDone
<1>2. TypeOK' BY <1>1 DEF TypeOK
<1>3. KubeRead' BY <1>1, KubeKept
<1>4. SourcesRead' BY <1>1, SourcesKept
<1>5. Layered' /\ Prefixed' /\ Pending' BY <1>1 DEF Layered, Prefixed, Pending
<1>6. OnlyWrittenCommandsRun' BY <1>1, RanKept
<1>. QED BY <1>2, <1>3, <1>4, <1>5, <1>6

LEMMA ReadSourceStep == ASSUME IInv, ReadSource PROVE IInv'
<1>. USE DEF IInv
<1>. DEFINE s == Head(sources)
<1>1. s \in Source /\ Tail(sources) \in Seq(Source)
      /\ Len(Tail(sources)) = Len(sources) - 1
      /\ s = sources[1] /\ Len(sources) \in Nat \ {0}
      /\ \A i \in 1..Len(Tail(sources)) : Tail(sources)[i] = sources[i + 1]
  BY HeadTailProperties, EmptySeq, LenProperties DEF ReadSource, TypeOK
<1>2. CASE s.kind = "broken"
  <2>1. pc' = "failed" /\ UNCHANGED <<input, contexts, kube, sources, user_layer,
           replace_defaults, layered, resolved, todo, header, ran>>
    BY <1>2 DEF ReadSource, Fail
  <2>2. TypeOK' BY <2>1 DEF TypeOK
  <2>3. KubeRead' BY <2>1, KubeKept
  <2>4. SourcesRead' BY <2>1, SourcesKept
  <2>5. Layered' /\ Prefixed' /\ Pending' BY <2>1 DEF Layered, Prefixed, Pending
  <2>6. OnlyWrittenCommandsRun' BY <2>1, RanKept
  <2>. QED BY <2>2, <2>3, <2>4, <2>5, <2>6
<1>3. CASE s.kind # "broken"
  <2>1. UNCHANGED <<input, pc, contexts, kube, layered, resolved, todo, header, ran>>
        /\ pc = "sources"
    BY <1>3 DEF ReadSource
  <2>2. /\ user_layer' = user_layer \o s.rules
        /\ replace_defaults' = (replace_defaults \/ (s.kind = "file" /\ s.replace))
        /\ sources' = Tail(sources)
    BY <1>3 DEF ReadSource
  <2>3. s.rules \in Seq(Written) /\ s.replace \in BOOLEAN BY <1>1 DEF Source
  <2>4. user_layer' \in Seq(Written)
    BY <2>2, <2>3, ConcatProperties DEF TypeOK
  <2>5. TypeOK' BY <1>1, <2>1, <2>2, <2>3, <2>4 DEF TypeOK
  <2>6. KubeRead' BY <2>1, KubeKept
  <2>7. SourcesRead'
    <3>. DEFINE n == SourcesLeft
    <3>1. input.sources \in Seq(Source) /\ Len(input.sources) \in Nat
      BY LenProperties DEF TypeOK, Input
    <3>2. SourcesLeft' = n + 1 /\ n \in Nat /\ n + 1 <= Len(input.sources)
      BY <1>1, <2>1, <2>2, <3>1 DEF SourcesLeft, SourcesRead
    <3>3. s = input.sources[n + 1] BY <1>1 DEF SourcesRead
    <3>4. \A i \in 1..Len(sources') : sources'[i] = input.sources[n + 1 + i]
      <4>. SUFFICES ASSUME NEW i \in 1..Len(sources')
                    PROVE  sources'[i] = input.sources[n + 1 + i]
        OBVIOUS
      <4>1. i + 1 \in 1..Len(sources) /\ sources'[i] = sources[i + 1]
        BY <1>1, <2>2
      <4>2. sources[i + 1] = input.sources[n + (i + 1)]
        BY <4>1 DEF SourcesRead
      <4>3. n + (i + 1) = n + 1 + i BY <3>2
      <4>. QED BY <4>1, <4>2, <4>3
    <3>5. (replace_defaults' = TRUE) <=> \E k \in 1..(n + 1) : Replaces(k)
      <4>1. (replace_defaults = TRUE) <=> \E k \in 1..n : Replaces(k)
        BY DEF SourcesRead, TypeOK
      <4>2. Replaces(n + 1) <=> (s.kind = "file" /\ s.replace)
        BY <3>3 DEF Replaces
      <4>3. \A k : k \in 1..(n + 1) <=> k \in 1..n \/ k = n + 1
        BY <3>2
      <4>. HIDE DEF n, s
      <4>4. (replace_defaults' = TRUE) <=>
               (replace_defaults = TRUE) \/ (s.kind = "file" /\ s.replace)
        BY <2>2, <2>3 DEF TypeOK
      <4>. QED BY <4>1, <4>2, <4>3, <4>4
    <3>6. replace_defaults' \in BOOLEAN BY <2>5 DEF TypeOK
    <3>7. \A k : Replaces(k)' <=> Replaces(k) BY <2>1 DEF Replaces
    <3>8. Len(sources') <= Len(input.sources) BY <1>1, <2>2, <3>1 DEF SourcesRead
    <3>. HIDE DEF n
    <3>. QED BY <2>1, <3>2, <3>4, <3>5, <3>6, <3>7, <3>8 DEF SourcesRead
  <2>8. Layered' /\ Prefixed' /\ Pending'
    BY <2>1 DEF Layered, Prefixed, Pending
  <2>9. OnlyWrittenCommandsRun' BY <2>1, RanKept
  <2>. QED BY <2>5, <2>6, <2>7, <2>8, <2>9
<1>. QED BY <1>2, <1>3

LEMMA CredentialsType == ASSUME TypeOK PROVE Credentials \in Seq(Written)
<1>1. input.kube \in Seq(Context) BY DEF TypeOK, Input
<1>2. DOMAIN input.kube = 1..Len(input.kube) /\ Len(input.kube) \in Nat
      /\ \A k \in DOMAIN input.kube : input.kube[k] \in Context
  BY <1>1, LenProperties
<1>3. KubeRules \in [1..Len(input.kube) -> Written]
  BY <1>2, KubeRuleType DEF KubeRules
<1>4. KubeRules \in Seq(Written) BY <1>2, <1>3
<1>5. On(Auth) \in Seq(Written) BY LayerAssumption DEF On
<1>. QED BY <1>4, <1>5, ConcatProperties DEF Credentials

(* The kube layer is the contexts' rules.                                  *)
LEMMA KubeLayer ==
    ASSUME TypeOK, KubeRead, contexts = <<>>
    PROVE  kube.rules = KubeRules
<1>1. input.kube \in Seq(Context) /\ kube.rules \in Seq(Written)
  BY DEF TypeOK, Input
<1>2. Len(kube.rules) = Len(input.kube)
  BY <1>1, LenProperties DEF KubeRead
<1>3. kube.rules = [i \in 1..Len(kube.rules) |-> kube.rules[i]]
  BY <1>1, LenProperties
<1>4. DOMAIN input.kube = 1..Len(kube.rules) BY <1>1, <1>2, LenProperties
<1>5. \A i \in 1..Len(kube.rules) : kube.rules[i] = KubeRule(input.kube[i])
  BY DEF KubeRead
<1>. QED BY <1>3, <1>4, <1>5, Zenon DEF KubeRules

(* The credential layers are the front of the list that is laid.           *)
LEMMA LayersLead ==
    ASSUME TypeOK, KubeRead, SourcesRead, contexts = <<>>, sources = <<>>
    PROVE  /\ Layers \in Seq(Written)
           /\ Len(Credentials) <= Len(Layers)
           /\ \A c \in 1..Len(Credentials) : Layers[c] = Credentials[c]
<1>1. input.kube \in Seq(Context) /\ kube.rules \in Seq(Written)
      /\ user_layer \in Seq(Written)
  BY DEF TypeOK, Input
<1>2. kube.rules = KubeRules BY KubeLayer
<1>. DEFINE front == IF use_defaults THEN Auth ELSE <<>>
            rest  == user_layer
                     \o (IF use_defaults THEN AgentDefaults \o GenericDefaults ELSE <<>>)
<1>3. front \in Seq(Written) /\ On(Auth) = front
  BY DefaultsRead, LayerAssumption DEF On
<1>4. rest \in Seq(Written)
  <2>1. AgentDefaults \o GenericDefaults \in Seq(Written)
    BY LayerAssumption, ConcatProperties
  <2>2. (IF use_defaults THEN AgentDefaults \o GenericDefaults ELSE <<>>) \in Seq(Written)
    BY <2>1
  <2>. QED BY <1>1, <2>2, ConcatProperties
<1>5. Credentials = front \o kube.rules BY <1>2, <1>3 DEF Credentials
<1>6. Credentials \in Seq(Written) BY <1>1, <1>3, <1>5, ConcatProperties
<1>7. Layers = Credentials \o rest BY <1>5 DEF Layers
<1>. HIDE DEF front, rest
<1>8. Len(Credentials) \in Nat /\ Len(rest) \in Nat
  BY <1>4, <1>6, LenProperties
<1>. QED BY <1>4, <1>6, <1>7, <1>8, ConcatProperties

LEMMA LayerStep == ASSUME IInv, Layer PROVE IInv'
<1>. USE DEF IInv
<1>1. /\ pc = "sources" /\ sources = <<>> /\ contexts = <<>>
      /\ layered' = Layers /\ pc' \in {"failed", "rules"}
      /\ UNCHANGED <<input, contexts, kube, sources, user_layer,
                     replace_defaults, resolved, todo, header, ran>>
  BY DEF Layer, KubeRead
<1>2. ran = {} /\ resolved = <<>> BY <1>1 DEF Layered
<1>3. /\ Layers \in Seq(Written) /\ Len(Layers) \in Nat
      /\ Len(Credentials) <= Len(Layers)
      /\ \A c \in 1..Len(Credentials) : Layers[c] = Credentials[c]
  BY <1>1, LayersLead, LenProperties
<1>4. Credentials' = Credentials
  BY <1>1 DEF Credentials, On, DefaultsOn, KubeRules
<1>5. TypeOK' BY <1>1, <1>3 DEF TypeOK
<1>6. KubeRead' BY <1>1, KubeKept
<1>7. SourcesRead' BY <1>1, SourcesKept
<1>8. Layered' BY <1>1, <1>3, <1>4 DEF Layered
<1>9. Prefixed'
  <2>1. Len(resolved') = 0 BY <1>1, <1>2
  <2>. QED BY <1>1, <1>3, <2>1 DEF Prefixed
<1>10. Pending' BY <1>1 DEF Pending
<1>11. OnlyWrittenCommandsRun' BY <1>1, <1>2 DEF OnlyWrittenCommandsRun
<1>. QED BY <1>5, <1>6, <1>7, <1>8, <1>9, <1>10, <1>11

(* What a step on the rule at hand leaves alone.                           *)
LEMMA AtRule ==
    ASSUME IInv, Next, pc \in {"rules", "header"},
           UNCHANGED <<input, contexts, kube, sources, user_layer,
                       replace_defaults, layered>>,
           pc' \in {"rules", "header", "done", "failed"}
    PROVE  KubeRead' /\ SourcesRead' /\ Layered'
<1>. USE DEF IInv
<1>1. KubeRead' BY KubeKept
<1>2. SourcesRead' BY SourcesKept
<1>3. Layered' BY InputsFixed DEF Layered
<1>. QED BY <1>1, <1>2, <1>3

LEMMA ValidateRuleStep == ASSUME IInv, ValidateRule PROVE IInv'
<1>. USE DEF IInv
<1>1. /\ pc = "rules" /\ Rank <= Len(layered) /\ pc' \in {"header", "failed"}
      /\ UNCHANGED <<input, contexts, kube, sources, user_layer,
                     replace_defaults, layered, resolved, ran>>
      /\ Next
  BY DEF ValidateRule, Fail, Next
<1>2. KubeRead' /\ SourcesRead' /\ Layered' BY <1>1, AtRule
<1>3. Prefixed' BY <1>1 DEF Prefixed
<1>4. OnlyWrittenCommandsRun' BY <1>1, RanKept
<1>. DEFINE r == layered[Rank]
<1>5. CASE Faulty(r)
  <2>1. pc' = "failed" /\ UNCHANGED <<todo, header>>
    BY <1>5 DEF ValidateRule, Fail
  <2>2. TypeOK' /\ Pending' BY <1>1, <2>1 DEF TypeOK, Pending
  <2>. QED BY <1>2, <1>3, <1>4, <2>2
<1>6. CASE ~Faulty(r)
  <2>1. /\ pc' = "header" /\ header' = <<>>
        /\ todo' = IF r.inject = Absent THEN <<>> ELSE r.inject
    BY <1>6 DEF ValidateRule
  <2>2. Rank \in 1..Len(layered)
    BY <1>1, LenProperties DEF Rank, TypeOK
  <2>3. r \in Written BY <2>2, ElementOfSeq DEF TypeOK
  <2>4. r.inject \in {Absent} \cup Seq(Piece)
    BY <1>6, <2>3 DEF Written, Faulty, Unusable
  <2>5. todo' \in Seq(Piece) BY <2>1, <2>4
  <2>6. TypeOK' BY <1>1, <2>1, <2>5 DEF TypeOK
  <2>7. Pending'
    <3>1. Rank' = Rank /\ layered'[Rank'] = r BY <1>1 DEF Rank
    <3>2. \A m \in 1..Len(todo') :
             r.inject # Absent /\ \E n \in DOMAIN r.inject : todo'[m] = r.inject[n]
      <4>1. CASE r.inject = Absent BY <2>1, <4>1
      <4>2. CASE r.inject # Absent
        <5>1. todo' = r.inject /\ DOMAIN r.inject = 1..Len(todo')
          BY <2>1, <2>5, <4>2, LenProperties
        <5>. QED BY <4>2, <5>1
      <4>. QED BY <4>1, <4>2
    <3>. HIDE DEF r
    <3>3. Rank' <= Len(layered') BY <1>1, <3>1
    <3>4. ~Faulty(layered'[Rank']) BY <1>6, <3>1
    <3>5. ~Faulty(layered[Rank])' BY <3>4
    <3>. QED BY <3>1, <3>2, <3>3, <3>5 DEF Pending
  <2>. QED BY <1>2, <1>3, <1>4, <2>6, <2>7
<1>. QED BY <1>5, <1>6

(* A piece of the header is done: it is text, and the others wait.         *)
LEMMA PieceDone ==
    ASSUME IInv, Next, pc = "header", todo # <<>>, pc' = pc,
           NEW x \in Resolved, header' = Append(header, x), todo' = Tail(todo),
           UNCHANGED <<input, contexts, kube, sources, user_layer,
                       replace_defaults, layered, resolved>>,
           ran' \in SUBSET Names
    PROVE  TypeOK' /\ KubeRead' /\ SourcesRead' /\ Layered' /\ Prefixed' /\ Pending'
<1>. USE DEF IInv
<1>1. KubeRead' /\ SourcesRead' /\ Layered' BY AtRule
<1>2. /\ Tail(todo) \in Seq(Piece) /\ Len(Tail(todo)) = Len(todo) - 1
      /\ Len(todo) \in Nat
      /\ \A i \in 1..Len(Tail(todo)) : Tail(todo)[i] = todo[i + 1]
  BY HeadTailProperties, LenProperties DEF TypeOK
<1>3. header' \in Seq(Resolved) BY AppendProperties DEF TypeOK
<1>4. TypeOK' BY <1>2, <1>3 DEF TypeOK
<1>5. Prefixed' BY DEF Prefixed
<1>6. Pending'
  <2>1. Rank' = Rank /\ layered' = layered BY DEF Rank
  <2>2. Faulty(layered[Rank])' <=> Faulty(layered[Rank]) BY <2>1 DEF Faulty, Unusable
  <2>. DEFINE inj == layered[Rank].inject
  <2>3. \A m \in 1..Len(todo) :
           inj # Absent /\ \E n \in DOMAIN inj : todo[m] = inj[n]
    BY DEF Pending
  <2>4. inj' = inj BY <2>1
  <2>. HIDE DEF inj
  <2>5. ASSUME NEW m \in 1..Len(todo')
        PROVE  inj # Absent /\ \E n \in DOMAIN inj : todo'[m] = inj[n]
    <3>1. m + 1 \in 1..Len(todo) /\ todo'[m] = todo[m + 1] BY <1>2
    <3>. QED BY <2>3, <3>1
  <2>6. Rank' <= Len(layered') /\ ~Faulty(layered[Rank])
    BY <2>1 DEF Pending
  <2>. QED BY <2>2, <2>4, <2>5, <2>6 DEF Pending, inj
<1>. QED BY <1>1, <1>4, <1>5, <1>6

(* The header could not be resolved.                                       *)
LEMMA PieceFails ==
    ASSUME IInv, Next, pc = "header", pc' = "failed",
           UNCHANGED <<input, contexts, kube, sources, user_layer,
                       replace_defaults, layered, resolved, todo, header>>,
           ran' \in SUBSET Names
    PROVE  TypeOK' /\ KubeRead' /\ SourcesRead' /\ Layered' /\ Prefixed' /\ Pending'
<1>. USE DEF IInv
<1>1. KubeRead' /\ SourcesRead' /\ Layered' BY AtRule
<1>2. TypeOK' /\ Prefixed' /\ Pending' BY DEF TypeOK, Prefixed, Pending
<1>. QED BY <1>1, <1>2

LEMMA HeadPiece ==
    ASSUME TypeOK, todo # <<>>
    PROVE  /\ Head(todo) \in Piece /\ Head(todo) = todo[1]
           /\ 1 \in 1..Len(todo)
BY HeadTailProperties, EmptySeq, LenProperties DEF TypeOK

LEMMA LiteralStep == ASSUME IInv, Literal PROVE IInv'
<1>. USE DEF IInv
<1>1. /\ pc = "header" /\ todo # <<>> /\ Next
      /\ UNCHANGED <<input, contexts, kube, sources, user_layer,
                     replace_defaults, layered, resolved, ran>>
      /\ Head(todo).kind \in {"text", "malformed"}
  BY DEF Literal, Next
<1>2. ran' \in SUBSET Names BY <1>1 DEF TypeOK
<1>3. OnlyWrittenCommandsRun' BY <1>1, RanKept
<1>4. CASE Head(todo).kind = "malformed"
  <2>1. pc' = "failed" /\ UNCHANGED <<todo, header>>
    BY <1>4 DEF Literal, Fail
  <2>. QED BY <1>1, <1>2, <1>3, <2>1, PieceFails
<1>5. CASE Head(todo).kind # "malformed"
  <2>1. /\ pc' = pc /\ header' = Append(header, Head(todo)) /\ todo' = Tail(todo)
    BY <1>5 DEF Literal
  <2>2. Head(todo) \in Resolved
    BY <1>1, <1>5, HeadPiece DEF Piece, Resolved
  <2>3. TypeOK' /\ KubeRead' /\ SourcesRead' /\ Layered' /\ Prefixed' /\ Pending'
    BY <1>1, <1>2, <2>1, <2>2, PieceDone
  <2>. QED BY <1>3, <2>3
<1>. QED BY <1>4, <1>5

LEMMA KeyringStep == ASSUME IInv, Keyring PROVE IInv'
<1>. USE DEF IInv
<1>. DEFINE secret == input.keyring[Head(todo).of]
<1>1. /\ pc = "header" /\ todo # <<>> /\ Next
      /\ UNCHANGED <<input, contexts, kube, sources, user_layer,
                     replace_defaults, layered, resolved, ran>>
  BY DEF Keyring, Next
<1>2. ran' \in SUBSET Names BY <1>1 DEF TypeOK
<1>3. OnlyWrittenCommandsRun' BY <1>1, RanKept
<1>4. CASE secret = Absent
  <2>1. pc' = "failed" /\ UNCHANGED <<todo, header>>
    BY <1>4 DEF Keyring, Fail
  <2>. QED BY <1>1, <1>2, <1>3, <2>1, PieceFails
<1>5. CASE secret # Absent
  <2>1. /\ pc' = pc /\ header' = Append(header, secret) /\ todo' = Tail(todo)
    BY <1>5 DEF Keyring
  <2>2. secret \in Resolved
    <3>1. Head(todo).of \in Names BY <1>1, HeadPiece DEF Piece
    <3>2. input.keyring \in [Names -> Resolved \cup {Absent}] BY DEF TypeOK, Input
    <3>. QED BY <1>5, <3>1, <3>2
  <2>. HIDE DEF secret
  <2>3. TypeOK' /\ KubeRead' /\ SourcesRead' /\ Layered' /\ Prefixed' /\ Pending'
    BY <1>1, <1>2, <2>1, <2>2, PieceDone
  <2>. QED BY <1>3, <2>3
<1>. QED BY <1>4, <1>5

LEMMA ExecStep == ASSUME IInv, Exec PROVE IInv'
<1>. USE DEF IInv
<1>. DEFINE cmd == Head(todo).of
<1>1. /\ pc = "header" /\ todo # <<>> /\ Next /\ Head(todo).kind = "exec"
      /\ UNCHANGED <<input, contexts, kube, sources, user_layer,
                     replace_defaults, layered, resolved>>
      /\ ran' = IF input.allow_exec THEN ran \cup {cmd} ELSE ran
  BY DEF Exec, Next
<1>2. cmd \in Names /\ Head(todo) = [kind |-> "exec", of |-> cmd]
  BY <1>1, HeadPiece DEF Piece
<1>3. ran' \in SUBSET Names BY <1>1, <1>2 DEF TypeOK
<1>4. OnlyWrittenCommandsRun'
  <2>1. Rank \in DOMAIN layered
    BY <1>1, LenProperties DEF Pending, Rank, TypeOK
  <2>2. /\ layered[Rank].inject # Absent
        /\ [kind |-> "exec", of |-> cmd] \in
              {layered[Rank].inject[m] : m \in DOMAIN layered[Rank].inject}
    <3>1. /\ layered[Rank].inject # Absent
          /\ \E n \in DOMAIN layered[Rank].inject : todo[1] = layered[Rank].inject[n]
      BY <1>1, HeadPiece DEF Pending
    <3>. QED BY <1>1, <1>2, <3>1, HeadPiece
  <2>. HIDE DEF cmd
  <2>. QED BY <1>1, <2>1, <2>2 DEF OnlyWrittenCommandsRun
<1>5. CASE ~input.allow_exec \/ cmd \in input.failing
  <2>1. pc' = "failed" /\ UNCHANGED <<todo, header>>
    BY <1>5 DEF Exec, Fail
  <2>. QED BY <1>1, <1>3, <1>4, <2>1, PieceFails
<1>6. CASE ~(~input.allow_exec \/ cmd \in input.failing)
  <2>1. /\ pc' = pc /\ header' = Append(header, [kind |-> "text", of |-> cmd])
        /\ todo' = Tail(todo)
    BY <1>6 DEF Exec
  <2>2. [kind |-> "text", of |-> cmd] \in Resolved BY <1>2 DEF Resolved
  <2>. HIDE DEF cmd
  <2>3. TypeOK' /\ KubeRead' /\ SourcesRead' /\ Layered' /\ Prefixed' /\ Pending'
    BY <1>1, <1>3, <2>1, <2>2, PieceDone
  <2>. QED BY <1>4, <2>3
<1>. QED BY <1>5, <1>6

LEMMA RuleDoneStep == ASSUME IInv, RuleDone PROVE IInv'
<1>. USE DEF IInv
<1>. DEFINE r == Compiled(layered[Rank], header)
<1>1. /\ pc = "header" /\ pc' = "rules" /\ Next
      /\ resolved' = Append(resolved, r)
      /\ UNCHANGED <<input, contexts, kube, sources, user_layer,
                     replace_defaults, layered, todo, header, ran>>
  BY DEF RuleDone, Next
<1>2. KubeRead' /\ SourcesRead' /\ Layered' BY <1>1, AtRule
<1>3. Rank \in 1..Len(layered) /\ Len(resolved) \in Nat
  BY <1>1, LenProperties DEF Pending, Rank, TypeOK
<1>4. layered[Rank] \in Written BY <1>3, ElementOfSeq DEF TypeOK
<1>5. r \in Rule BY <1>1, <1>4, CompiledType DEF Pending, TypeOK
<1>6. /\ r.l4 = layered[Rank].l4 /\ r.hosts = Given(layered[Rank].hosts)
      /\ r.methods = Given(layered[Rank].methods)
      /\ r.paths = Given(layered[Rank].paths)
  BY DEF Compiled
<1>. HIDE DEF r
<1>7. /\ resolved' \in Seq(Rule) /\ Len(resolved') = Len(resolved) + 1
      /\ \A i \in 1..Len(resolved) : resolved'[i] = resolved[i]
      /\ resolved'[Rank] = r
  BY <1>1, <1>5, AppendProperties DEF TypeOK, Rank
<1>8. TypeOK' BY <1>1, <1>7 DEF TypeOK
<1>9. Prefixed'
  <2>1. Len(resolved') <= Len(layered') BY <1>1, <1>3, <1>7 DEF Rank
  <2>2. ASSUME NEW i \in 1..Len(resolved')
        PROVE  /\ resolved'[i].l4 = layered[i].l4
               /\ resolved'[i].hosts = Given(layered[i].hosts)
               /\ resolved'[i].methods = Given(layered[i].methods)
               /\ resolved'[i].paths = Given(layered[i].paths)
    <3>1. CASE i = Rank BY <1>6, <1>7, <3>1
    <3>2. CASE i \in 1..Len(resolved) BY <1>7, <3>2 DEF Prefixed
    <3>. QED BY <1>3, <1>7, <3>1, <3>2 DEF Rank
  <2>. QED BY <1>1, <2>1, <2>2 DEF Prefixed, Given
<1>10. Pending' BY <1>1 DEF Pending
<1>11. OnlyWrittenCommandsRun' BY <1>1, RanKept
<1>. QED BY <1>2, <1>8, <1>9, <1>10, <1>11

LEMMA StoreStep == ASSUME IInv, Store PROVE IInv'
<1>. USE DEF IInv
<1>1. /\ pc = "rules" /\ pc' = "done" /\ Next
      /\ UNCHANGED <<input, contexts, kube, sources, user_layer,
                     replace_defaults, layered, resolved, todo, header, ran>>
  BY DEF Store, Next
<1>2. KubeRead' /\ SourcesRead' /\ Layered' BY <1>1, AtRule
<1>3. TypeOK' /\ Prefixed' /\ Pending' BY <1>1 DEF TypeOK, Prefixed, Pending
<1>4. OnlyWrittenCommandsRun' BY <1>1, RanKept
<1>. QED BY <1>2, <1>3, <1>4

LEMMA StutterStep == ASSUME IInv, UNCHANGED vars PROVE IInv'
<1>. USE DEF IInv, vars
<1>1. TypeOK' BY DEF TypeOK
<1>2. KubeRead' BY KubeKept
<1>3. SourcesRead' BY SourcesKept
<1>4. Layered' BY DEF Layered, Credentials, On, DefaultsOn, KubeRules
<1>5. Prefixed' BY DEF Prefixed
<1>6. Pending' BY DEF Pending, Rank, Faulty, Unusable
<1>7. OnlyWrittenCommandsRun' BY RanKept
<1>. QED BY <1>1, <1>2, <1>3, <1>4, <1>5, <1>6, <1>7

LEMMA Invariance == Spec => []IInv
<1>1. IInv /\ [Next]_vars => IInv'
  BY ReadContextStep, KubeDoneStep, ReadSourceStep, LayerStep, ValidateRuleStep,
     LiteralStep, KeyringStep, ExecStep, RuleDoneStep, StoreStep, StutterStep
     DEF Next
<1>. QED BY InitIInv, <1>1, PTL DEF Spec

-----------------------------------------------------------------------------

(* Every variable has its type in every reachable state: no value that is  *)
(* no string and no field of the wrong kind gets into the resolved list.   *)
THEOREM TypeCorrect == Spec => []TypeOK
<1>1. IInv => TypeOK BY DEF IInv
<1>. QED BY Invariance, <1>1, PTL

LEMMA LeadByRank == ASSUME IInv PROVE CredentialsNotShadowed
<1>. USE DEF IInv
<1>. SUFFICES ASSUME pc = "done", NEW q \in Request, NEW i \in DOMAIN resolved,
                     match_rule(q, i),
                     NEW c \in DOMAIN Credentials,
                     Admits(Compiled(Credentials[c], <<>>), q)
              PROVE  i <= Len(Credentials)
  BY DEF CredentialsNotShadowed
<1>1. /\ DOMAIN resolved = 1..Len(resolved) /\ Len(resolved) \in Nat
  BY LenProperties DEF TypeOK
<1>2. c \in 1..Len(Credentials) /\ Len(Credentials) \in Nat
  BY CredentialsType, LenProperties
<1>3. CASE c > Len(resolved) BY <1>1, <1>2, <1>3
<1>4. CASE c \in 1..Len(resolved)
  <2>1. layered[c] = Credentials[c] BY <1>2 DEF Layered
  <2>2. Admits(resolved[c], q)
    BY <1>4, <2>1 DEF Prefixed, Admits, Compiled
  <2>3. i <= c BY <1>1, <1>4, <2>2 DEF match_rule
  <2>. QED BY <1>1, <1>2, <2>3
<1>. QED BY <1>1, <1>2, <1>3, <1>4

(* For any layers and any user rules: once the list is stored, the first   *)
(* match of a request that an auth or kube rule admits is an auth or kube  *)
(* rule.                                                                   *)
THEOREM CredentialsLead == Spec => []CredentialsNotShadowed
BY Invariance, LeadByRank, PTL

(* For any rules and any keyring: what runs on the host was written in a   *)
(* rule or token of this start-up, and --allow-exec was given.             *)
THEOREM NothingElseRuns == Spec => []OnlyWrittenCommandsRun
<1>1. IInv => OnlyWrittenCommandsRun BY DEF IInv
<1>. QED BY Invariance, <1>1, PTL

-----------------------------------------------------------------------------
(* What the list is, once it is stored.  Of the rule at hand the header is *)
(* resolved piece by piece (HeaderAsWritten), so that each resolved rule   *)
(* is what was written (RulesAsWritten); the list is the layers one after  *)
(* the other (LaidOut), the user's layer the sources read, rule by rule    *)
(* (UserLaid), and each context has an API server of its own (KubeHosts).  *)

WrittenPieces == IF layered[Rank].inject = Absent THEN <<>> ELSE layered[Rank].inject

HeaderAsWritten ==
    pc = "header" =>
        /\ Len(header) + Len(todo) = Len(WrittenPieces)
        /\ \A m \in 1..Len(header) : header[m] = Value(WrittenPieces[m])
        /\ \A m \in 1..Len(todo) : todo[m] = WrittenPieces[Len(header) + m]

RulesAsWritten ==
    /\ \A i \in 1..Len(resolved) : resolved[i] = Expected(layered[i])
    /\ pc = "done" => Len(resolved) = Len(layered)

LaidOut == pc \in {"rules", "header", "done"} => layered = Layers

(* The list is the layers D one after the other, layer l after place[l]    *)
(* rules.                                                                  *)
Laid(D, list) ==
    \E place \in [1..Len(D) -> 0..Len(list)] :
        /\ \A l \in 1..Len(D) : place[l] + Len(D[l]) <= Len(list)
        /\ \A l \in 1..Len(D) : \A k \in 1..Len(D[l]) : list[place[l] + k] = D[l][k]
        /\ \A l, m \in 1..Len(D) : l < m => place[l] + Len(D[l]) <= place[m]
        /\ \A i \in 1..Len(list) :
              \E l \in 1..Len(D) : \E k \in 1..Len(D[l]) : i = place[l] + k

FirstSources(n) == [s \in 1..n |-> input.sources[s].rules]

UserLaid == Laid(FirstSources(SourcesLeft), user_layer)

KubeHosts ==
    LET n == Len(kube.rules)
    IN  /\ kube.certs \subseteq kube.seen
        /\ \A k \in 1..n :
              /\ input.kube[k].host \in kube.seen
              /\ input.kube[k].host \in kube.certs <=> ~Bearer(input.kube[k])
        /\ \A j, k \in 1..n : input.kube[j].host = input.kube[k].host => j = k

LEMMA Pair ==
    ASSUME NEW S, NEW x \in S, NEW y \in S
    PROVE  <<x>> \in Seq(S) /\ <<x, y>> \in Seq(S) /\ <<x>> \o <<y>> = <<x, y>>
<1>1. <<x>> \in Seq(S) /\ <<y>> \in Seq(S) /\ <<x, y>> \in Seq(S) OBVIOUS
<1>2. /\ <<x>> \o <<y>> \in Seq(S) /\ Len(<<x>> \o <<y>>) = 2
      /\ (<<x>> \o <<y>>)[1] = x /\ (<<x>> \o <<y>>)[2] = y
  BY <1>1, ConcatProperties
<1>3. Len(<<x, y>>) = 2 /\ <<x, y>>[1] = x /\ <<x, y>>[2] = y OBVIOUS
<1>4. \A i \in 1..2 : i = 1 \/ i = 2 OBVIOUS
<1>5. <<x>> \o <<y>> = <<x, y>> BY <1>1, <1>2, <1>3, <1>4, SeqEqual
<1>. QED BY <1>1, <1>5

LEMMA LaidNothing == Laid(<<>>, <<>>)
<1>1. [l \in {} |-> 0] \in [1..Len(<<>>) -> 0..Len(<<>>)] OBVIOUS
<1>. QED BY <1>1 DEF Laid

LEMMA LaidOne == ASSUME NEW r \in Seq(Written) PROVE Laid(<<r>>, r)
<1>. DEFINE place == [l \in 1..1 |-> 0]
<1>1. Len(r) \in Nat /\ Len(<<r>>) = 1 /\ <<r>>[1] = r BY LenProperties
<1>2. place \in [1..Len(<<r>>) -> 0..Len(r)] BY <1>1
<1>3. \A l \in 1..1 : l = 1 /\ place[l] = 0 OBVIOUS
<1>4. \A k \in 1..Len(r) : 0 + k = k BY <1>1
<1>5. ASSUME NEW i \in 1..Len(r)
      PROVE  \E l \in 1..Len(<<r>>) : \E k \in 1..Len(<<r>>[l]) : i = place[l] + k
  <2>1. 1 \in 1..Len(<<r>>) /\ i \in 1..Len(<<r>>[1]) /\ i = place[1] + i BY <1>1, <1>3, <1>4
  <2>. QED BY <2>1
<1>. HIDE DEF place
<1>. QED BY <1>1, <1>2, <1>3, <1>4, <1>5 DEF Laid

(* Two lists of layers, one laid after the other.                          *)
LEMMA LaidJoin ==
    ASSUME NEW D \in Seq(Seq(Written)), NEW E \in Seq(Seq(Written)),
           NEW a \in Seq(Written), NEW b \in Seq(Written), Laid(D, a), Laid(E, b)
    PROVE  Laid(D \o E, a \o b)
<1>. DEFINE n == Len(D)
            m == Len(E)
            B == D \o E
            list == a \o b
<1>1. /\ n \in Nat /\ m \in Nat /\ Len(B) = n + m
      /\ \A l \in 1..n : B[l] = D[l]
      /\ \A l \in 1..m : B[n + l] = E[l]
  BY LenProperties, ConcatProperties
<1>2. /\ Len(a) \in Nat /\ Len(b) \in Nat /\ Len(list) = Len(a) + Len(b)
      /\ \A i \in 1..Len(a) : list[i] = a[i]
      /\ \A i \in 1..Len(b) : list[Len(a) + i] = b[i]
  BY LenProperties, ConcatProperties
<1>3. /\ \A l \in 1..n : Len(D[l]) \in Nat
      /\ \A l \in 1..m : Len(E[l]) \in Nat
  BY ElementOfSeq, LenProperties
<1>4. PICK p \in [1..n -> 0..Len(a)] :
         /\ \A l \in 1..n : p[l] + Len(D[l]) <= Len(a)
         /\ \A l \in 1..n : \A k \in 1..Len(D[l]) : a[p[l] + k] = D[l][k]
         /\ \A l, k \in 1..n : l < k => p[l] + Len(D[l]) <= p[k]
         /\ \A i \in 1..Len(a) : \E l \in 1..n : \E k \in 1..Len(D[l]) : i = p[l] + k
  BY DEF Laid
<1>5. PICK q \in [1..m -> 0..Len(b)] :
         /\ \A l \in 1..m : q[l] + Len(E[l]) <= Len(b)
         /\ \A l \in 1..m : \A k \in 1..Len(E[l]) : b[q[l] + k] = E[l][k]
         /\ \A l, k \in 1..m : l < k => q[l] + Len(E[l]) <= q[k]
         /\ \A i \in 1..Len(b) : \E l \in 1..m : \E k \in 1..Len(E[l]) : i = q[l] + k
  BY DEF Laid
<1>. DEFINE place == [l \in 1..(n + m) |-> IF l <= n THEN p[l] ELSE Len(a) + q[l - n]]
<1>6. /\ \A l \in 1..n : place[l] = p[l] /\ place[l] \in 0..Len(a) /\ l \in 1..(n + m)
      /\ \A l \in 1..m : /\ place[n + l] = Len(a) + q[l] /\ q[l] \in 0..Len(b)
                         /\ n + l \in 1..(n + m)
  <2>1. \A l \in 1..n : l \in 1..(n + m) /\ l <= n BY <1>1
  <2>2. \A l \in 1..m : n + l \in 1..(n + m) /\ ~(n + l <= n) /\ (n + l) - n = l BY <1>1
  <2>3. \A l \in 1..n : p[l] \in 0..Len(a) BY <1>4
  <2>4. \A l \in 1..m : q[l] \in 0..Len(b) BY <1>5
  <2>. HIDE DEF n, m
  <2>. QED BY <2>1, <2>2, <2>3, <2>4
<1>7. ASSUME NEW l \in 1..(n + m)
      PROVE  l \in 1..n \/ \E j \in 1..m : l = n + j
  <2>1. CASE l > n
    <3>1. l - n \in 1..m /\ l = n + (l - n) BY <1>1, <2>1
    <3>. QED BY <3>1
  <2>. QED BY <1>1, <2>1
<1>8. place \in [1..(n + m) -> 0..Len(list)]
  <2>1. ASSUME NEW l \in 1..(n + m) PROVE place[l] \in 0..Len(list)
    <3>. HIDE DEF place, list, n, m
    <3>1. CASE l \in 1..n BY <1>2, <1>6, <3>1
    <3>2. ASSUME NEW j \in 1..m, l = n + j PROVE place[l] \in 0..Len(list)
      BY <1>2, <1>6, <3>2
    <3>. QED BY <1>7, <3>1, <3>2
  <2>. QED BY <2>1
<1>. HIDE DEF place, B, list, n, m
<1>9. ASSUME NEW l \in 1..(n + m) PROVE place[l] + Len(B[l]) <= Len(list)
  <2>1. CASE l \in 1..n
    <3>1. place[l] = p[l] /\ place[l] \in 0..Len(a) BY <1>6, <2>1
    <3>2. B[l] = D[l] /\ Len(D[l]) \in Nat BY <1>1, <1>3, <2>1
    <3>3. p[l] + Len(D[l]) <= Len(a) BY <1>4, <2>1
    <3>. QED BY <1>2, <3>1, <3>2, <3>3
  <2>2. ASSUME NEW j \in 1..m, l = n + j PROVE place[l] + Len(B[l]) <= Len(list)
    <3>1. place[l] = Len(a) + q[j] /\ B[l] = E[j] /\ q[j] + Len(E[j]) <= Len(b)
          /\ q[j] \in Nat /\ Len(E[j]) \in Nat
      BY <1>1, <1>2, <1>3, <1>5, <1>6, <2>2, SMTT(30)
    <3>. QED BY <1>2, <3>1
  <2>. QED BY <1>7, <2>1, <2>2
<1>10. ASSUME NEW l \in 1..(n + m), NEW k \in 1..Len(B[l])
       PROVE  list[place[l] + k] = B[l][k]
  <2>1. CASE l \in 1..n
    <3>1. B[l] = D[l] /\ place[l] = p[l] /\ k \in 1..Len(D[l]) BY <1>1, <1>6, <2>1
    <3>2. p[l] + Len(D[l]) <= Len(a) BY <1>4, <2>1
    <3>3. p[l] + k \in 1..Len(a)
      <4>1. p[l] \in 0..Len(a) /\ Len(D[l]) \in Nat BY <1>3, <1>6, <2>1
      <4>. QED BY <1>2, <3>1, <3>2, <4>1, SMTT(30)
    <3>. QED BY <1>2, <1>4, <2>1, <3>1, <3>3
  <2>2. ASSUME NEW j \in 1..m, l = n + j PROVE list[place[l] + k] = B[l][k]
    <3>1. B[l] = E[j] /\ place[l] = Len(a) + q[j] /\ k \in 1..Len(E[j])
      BY <1>1, <1>6, <2>2
    <3>2. q[j] + Len(E[j]) <= Len(b) /\ q[j] \in Nat /\ Len(E[j]) \in Nat
      BY <1>2, <1>3, <1>5, <1>6, <2>2
    <3>3. q[j] + k \in 1..Len(b) /\ place[l] + k = Len(a) + (q[j] + k)
      BY <1>2, <3>1, <3>2, SMTT(60)
    <3>4. b[q[j] + k] = E[j][k] BY <1>5, <3>1
    <3>. QED BY <1>2, <3>1, <3>3, <3>4
  <2>. QED BY <1>7, <2>1, <2>2
<1>11. ASSUME NEW l \in 1..(n + m), NEW k \in 1..(n + m), l < k
       PROVE  place[l] + Len(B[l]) <= place[k]
  <2>1. CASE k \in 1..n
    <3>1. l \in 1..n BY <1>1, <1>11, <2>1
    <3>. QED BY <1>1, <1>4, <1>6, <1>11, <2>1, <3>1
  <2>2. ASSUME NEW j \in 1..m, k = n + j PROVE place[l] + Len(B[l]) <= place[k]
    <3>1. place[k] = Len(a) + q[j] /\ q[j] \in Nat BY <1>2, <1>6, <2>2
    <3>2. CASE l \in 1..n
      <4>1. place[l] = p[l] /\ p[l] \in 0..Len(a) BY <1>6, <3>2
      <4>2. B[l] = D[l] /\ Len(D[l]) \in Nat BY <1>1, <1>3, <3>2
      <4>3. p[l] + Len(D[l]) <= Len(a) BY <1>4, <3>2
      <4>. QED BY <1>2, <3>1, <4>1, <4>2, <4>3, SMTT(30)
    <3>3. ASSUME NEW i \in 1..m, l = n + i PROVE place[l] + Len(B[l]) <= place[k]
      <4>1. place[l] = Len(a) + q[i] /\ q[i] \in Nat /\ B[l] = E[i] /\ Len(E[i]) \in Nat
        BY <1>1, <1>2, <1>3, <1>6, <3>3
      <4>2. i < j BY <1>1, <1>11, <2>2, <3>3
      <4>3. q[i] + Len(E[i]) <= q[j] BY <1>5, <4>2
      <4>. QED BY <1>2, <3>1, <4>1, <4>3, SMTT(30)
    <3>. QED BY <1>7, <3>2, <3>3
  <2>. QED BY <1>7, <2>1, <2>2
<1>12. ASSUME NEW i \in 1..Len(list)
       PROVE  \E l \in 1..(n + m) : \E k \in 1..Len(B[l]) : i = place[l] + k
  <2>1. CASE i \in 1..Len(a)
    <3>1. PICK l \in 1..n : \E k \in 1..Len(D[l]) : i = p[l] + k BY <1>4, <2>1
    <3>2. B[l] = D[l] /\ place[l] = p[l] /\ l \in 1..(n + m) BY <1>1, <1>6
    <3>. QED BY <3>1, <3>2
  <2>2. CASE i > Len(a)
    <3>1. i - Len(a) \in 1..Len(b) /\ i = Len(a) + (i - Len(a)) BY <1>2, <2>2
    <3>2. PICK x \in 1..Len(b) : i = Len(a) + x BY <3>1
    <3>j. PICK j \in 1..m : \E k \in 1..Len(E[j]) : x = q[j] + k BY <1>5
    <3>3. PICK k \in 1..Len(E[j]) : x = q[j] + k BY <3>j
    <3>4. /\ B[n + j] = E[j] /\ place[n + j] = Len(a) + q[j] /\ n + j \in 1..(n + m)
          /\ q[j] \in Nat /\ Len(E[j]) \in Nat
      BY <1>1, <1>2, <1>3, <1>6
    <3>5. i = place[n + j] + k
      <4>1. Len(a) \in Nat /\ k \in Nat BY <1>2, <3>4
      <4>2. Len(a) + (q[j] + k) = (Len(a) + q[j]) + k BY <3>4, <4>1
      <4>. QED BY <3>2, <3>3, <3>4, <4>2
    <3>. QED BY <3>3, <3>4, <3>5
  <2>. QED BY <1>2, <2>1, <2>2
<1>. QED
  <2>1. Len(B) = n + m BY <1>1
  <2>2. Laid(B, list)
    <3>1. place \in [1..Len(B) -> 0..Len(list)] BY <2>1, <1>8
    <3>2. /\ \A l \in 1..Len(B) : place[l] + Len(B[l]) <= Len(list)
          /\ \A l \in 1..Len(B) : \A k \in 1..Len(B[l]) : list[place[l] + k] = B[l][k]
          /\ \A l, k \in 1..Len(B) : l < k => place[l] + Len(B[l]) <= place[k]
          /\ \A i \in 1..Len(list) :
                \E l \in 1..Len(B) : \E k \in 1..Len(B[l]) : i = place[l] + k
      BY <2>1, <1>9, <1>10, <1>11, <1>12
    <3>. QED BY <3>1, <3>2, Zenon DEF Laid
  <2>. QED BY <2>2 DEF B, list

LEMMA SourceLayers ==
    ASSUME input.sources \in Seq(Source), NEW n \in Nat, n + 1 \in 1..Len(input.sources)
    PROVE  /\ input.sources[n + 1].rules \in Seq(Written)
           /\ FirstSources(n) \in Seq(Seq(Written))
           /\ FirstSources(n + 1) = FirstSources(n) \o <<input.sources[n + 1].rules>>
<1>. DEFINE r == input.sources[n + 1].rules
            F == FirstSources(n)
<1>1. \A s \in 1..(n + 1) : input.sources[s].rules \in Seq(Written)
  <2>1. \A s \in 1..(n + 1) : input.sources[s] \in Source BY LenProperties, ElementOfSeq
  <2>. QED BY <2>1 DEF Source
<1>2. F \in [1..n -> Seq(Written)] BY <1>1 DEF FirstSources
<1>3. F \in Seq(Seq(Written)) /\ Len(F) = n BY <1>2
<1>4. r \in Seq(Written) BY <1>1
<1>5. <<r>> \in Seq(Seq(Written)) /\ Len(<<r>>) = 1 /\ <<r>>[1] = r BY <1>4
<1>6. FirstSources(n + 1) \in Seq(Seq(Written)) /\ Len(FirstSources(n + 1)) = n + 1
  <2>1. FirstSources(n + 1) \in [1..(n + 1) -> Seq(Written)] BY <1>1 DEF FirstSources
  <2>. QED BY <2>1
<1>7. \A s \in 1..n : F[s] = input.sources[s].rules BY DEF FirstSources
<1>8. \A s \in 1..(n + 1) : FirstSources(n + 1)[s] = input.sources[s].rules BY DEF FirstSources
<1>. HIDE DEF F, r
<1>9. /\ F \o <<r>> \in Seq(Seq(Written)) /\ Len(F \o <<r>>) = n + 1
      /\ \A s \in 1..n : (F \o <<r>>)[s] = F[s]
      /\ (F \o <<r>>)[n + 1] = r
  <2>. DEFINE C == F \o <<r>>
  <2>1. /\ C \in Seq(Seq(Written)) /\ Len(C) = n + 1
        /\ \A i \in 1..(n + 1) : C[i] = IF i <= n THEN F[i] ELSE <<r>>[i - n]
    BY <1>3, <1>5, ConcatProperties
  <2>2. n + 1 \in 1..(n + 1) /\ ~(n + 1 <= n) /\ (n + 1) - n = 1
        /\ \A s \in 1..n : s \in 1..(n + 1) /\ s <= n
    OBVIOUS
  <2>. HIDE DEF C
  <2>3. (\A s \in 1..n : C[s] = F[s]) /\ C[n + 1] = r BY <1>5, <2>1, <2>2
  <2>. QED BY <2>1, <2>3 DEF C
<1>10. \A s \in 1..(n + 1) : FirstSources(n + 1)[s] = (F \o <<r>>)[s]
  BY <1>7, <1>8, <1>9 DEF r
<1>11. FirstSources(n + 1) = F \o <<r>> BY <1>6, <1>9, <1>10, SeqEqual
<1>. QED BY <1>3, <1>4, <1>11 DEF F, r

LEMMA AsWrittenInit == Init => HeaderAsWritten /\ RulesAsWritten
BY DEF Init, HeaderAsWritten, RulesAsWritten

LEMMA ExpectedFixed == ASSUME input' = input PROVE \A r : Expected(r)' = Expected(r)
BY DEF Expected, Compiled, Given, Value

LEMMA HeaderStarts ==
    ASSUME IInv, RulesAsWritten, ValidateRule
    PROVE  HeaderAsWritten' /\ RulesAsWritten'
<1>1. UNCHANGED <<input, layered, resolved>> /\ pc = "rules" /\ pc' # "done"
  BY DEF ValidateRule, Fail
<1>2. RulesAsWritten' BY <1>1, ExpectedFixed DEF RulesAsWritten
<1>3. ASSUME pc' = "header" PROVE HeaderAsWritten'
  <2>1. ~Faulty(layered[Rank]) /\ header' = <<>> BY <1>3 DEF ValidateRule, Fail
  <2>2. todo' = WrittenPieces BY <1>3, <2>1 DEF ValidateRule, WrittenPieces
  <2>3. WrittenPieces' = WrittenPieces BY <1>1 DEF WrittenPieces, Rank
  <2>4. Len(header') = 0 BY <2>1
  <2>5. todo' \in Seq(Piece) BY ValidateRuleStep DEF IInv, TypeOK
  <2>6. Len(todo') \in Nat BY <2>5, LenProperties
  <2>. QED BY <2>2, <2>3, <2>4, <2>6 DEF HeaderAsWritten
<1>. QED BY <1>2, <1>3 DEF HeaderAsWritten

(* One more piece is what it was to be.                                    *)
LEMMA PieceAsWritten ==
    ASSUME IInv, HeaderAsWritten, RulesAsWritten, pc = "header", pc' = pc, todo # <<>>,
           NEW x \in Resolved, x = Value(Head(todo)),
           header' = Append(header, x), todo' = Tail(todo),
           UNCHANGED <<input, layered, resolved>>
    PROVE  HeaderAsWritten' /\ RulesAsWritten'
<1>1. RulesAsWritten' BY ExpectedFixed DEF RulesAsWritten
<1>. DEFINE w == WrittenPieces
<1>2. WrittenPieces' = w BY DEF WrittenPieces, Rank
<1>3. /\ Len(todo') = Len(todo) - 1 /\ Len(todo) \in Nat \ {0}
      /\ \A m \in 1..Len(todo') : todo'[m] = todo[m + 1]
      /\ Head(todo) = todo[1]
  BY HeadTailProperties, EmptySeq, LenProperties, HeadPiece DEF IInv, TypeOK
<1>4. /\ Len(header') = Len(header) + 1 /\ Len(header) \in Nat
      /\ \A m \in 1..Len(header) : header'[m] = header[m]
      /\ header'[Len(header) + 1] = x
  BY AppendProperties, LenProperties DEF IInv, TypeOK
<1>5. /\ Len(header) + Len(todo) = Len(w)
      /\ \A m \in 1..Len(header) : header[m] = Value(w[m])
      /\ \A m \in 1..Len(todo) : todo[m] = w[Len(header) + m]
  BY DEF HeaderAsWritten
<1>6. \A p : Value(p)' = Value(p) BY DEF Value
<1>. HIDE DEF w
<1>7. Len(header') + Len(todo') = Len(w) BY <1>3, <1>4, <1>5
<1>8. ASSUME NEW m \in 1..Len(header') PROVE header'[m] = Value(w[m])
  <2>1. CASE m = Len(header) + 1
    <3>1. todo[1] = w[m] BY <1>3, <1>5, <2>1
    <3>. QED BY <1>3, <1>4, <2>1, <3>1
  <2>2. CASE m \in 1..Len(header) BY <1>4, <1>5, <2>2
  <2>. QED BY <1>4, <2>1, <2>2
<1>9. ASSUME NEW m \in 1..Len(todo') PROVE todo'[m] = w[Len(header') + m]
  <2>1. todo'[m] = todo[m + 1] /\ m + 1 \in 1..Len(todo) BY <1>3
  <2>2. todo[m + 1] = w[Len(header) + (m + 1)] BY <1>5, <2>1
  <2>3. Len(header) + (m + 1) = Len(header') + m BY <1>4
  <2>. QED BY <2>1, <2>2, <2>3
<1>10. HeaderAsWritten'
  BY <1>2, <1>6, <1>7, <1>8, <1>9 DEF HeaderAsWritten
<1>. QED BY <1>1, <1>10

LEMMA PiecesAsWritten ==
    ASSUME IInv, HeaderAsWritten, RulesAsWritten, Literal \/ Keyring \/ Exec
    PROVE  HeaderAsWritten' /\ RulesAsWritten'
<1>. DEFINE p == Head(todo)
<1>1. pc = "header" /\ todo # <<>> /\ UNCHANGED <<input, layered, resolved>>
  BY DEF Literal, Keyring, Exec
<1>2. p \in Piece BY <1>1, HeadPiece DEF IInv
<1>3. p.of \in Names /\ p = [kind |-> p.kind, of |-> p.of] BY <1>2 DEF Piece
<1>4. CASE pc' = "failed"
  BY <1>1, <1>4, ExpectedFixed DEF HeaderAsWritten, RulesAsWritten
<1>5. CASE pc' # "failed"
  <2>1. pc' = pc /\ todo' = Tail(todo) BY <1>5 DEF Literal, Keyring, Exec, Fail
  <2>2. header' = Append(header, Value(p))
    <3>1. CASE Literal
      <4>1. p.kind = "text" /\ header' = Append(header, p)
        BY <1>5, <3>1 DEF Literal, Fail
      <4>2. Value(p) = p BY <1>3, <4>1 DEF Value
      <4>. QED BY <4>1, <4>2
    <3>2. CASE Keyring BY <1>5, <3>2 DEF Keyring, Fail, Value
    <3>3. CASE Exec BY <1>5, <3>3 DEF Exec, Fail, Value
    <3>. QED BY <3>1, <3>2, <3>3
  <2>3. Value(p) \in Resolved
    <3>1. CASE p.kind = "keyring"
      <4>1. Keyring BY <3>1 DEF Literal, Keyring, Exec
      <4>2. input.keyring[p.of] # Absent BY <1>5, <4>1 DEF Keyring, Fail
      <4>3. input.keyring \in [Names -> Resolved \cup {Absent}] BY DEF IInv, TypeOK, Input
      <4>. QED BY <1>3, <3>1, <4>2, <4>3 DEF Value
    <3>2. CASE p.kind # "keyring" BY <1>3, <3>2 DEF Value, Resolved
    <3>. QED BY <3>1, <3>2
  <2>. QED BY <1>1, <2>1, <2>2, <2>3, PieceAsWritten
<1>. QED BY <1>4, <1>5

LEMMA RuleAsWritten ==
    ASSUME IInv, HeaderAsWritten, RulesAsWritten, RuleDone
    PROVE  HeaderAsWritten' /\ RulesAsWritten'
<1>. DEFINE w == WrittenPieces
            r == layered[Rank]
<1>1. /\ pc = "header" /\ todo = <<>> /\ pc' = "rules"
      /\ resolved' = Append(resolved, Compiled(r, header))
      /\ UNCHANGED <<input, layered>>
  BY DEF RuleDone
<1>2. Len(header) = Len(w) /\ \A m \in 1..Len(header) : header[m] = Value(w[m])
  <2>1. Len(todo) = 0 /\ Len(header) \in Nat BY <1>1, LenProperties DEF IInv, TypeOK
  <2>. QED BY <1>1, <2>1 DEF HeaderAsWritten
<1>3. Rank \in 1..Len(layered) /\ r \in Written /\ ~Faulty(r)
  <2>1. Rank \in 1..Len(layered) BY <1>1, LenProperties DEF IInv, TypeOK, Pending, Rank
  <2>. QED BY <1>1, <2>1, ElementOfSeq DEF IInv, TypeOK, Pending
<1>4. w \in Seq(Piece)
  <2>1. r.inject \in {Absent} \cup Seq(Piece)
    BY <1>3 DEF Written, Faulty, Unusable
  <2>. QED BY <2>1 DEF WrittenPieces
<1>5. header = [n \in DOMAIN w |-> Value(w[n])]
  <2>1. header \in Seq(Resolved) BY DEF IInv, TypeOK
  <2>2. header = [n \in 1..Len(header) |-> header[n]] BY <2>1, LenProperties
  <2>3. DOMAIN w = 1..Len(header) BY <1>2, <1>4, LenProperties
  <2>. HIDE DEF w
  <2>. QED BY <1>2, <2>2, <2>3
<1>6. Compiled(r, header) = Expected(r)
  <2>1. CASE r.inject = Absent
    <3>1. w = <<>> BY <2>1 DEF WrittenPieces
    <3>2. header = <<>> BY <1>2, <1>5, <3>1
    <3>. QED BY <2>1, <3>2 DEF Expected
  <2>2. CASE r.inject # Absent
    <3>1. w = r.inject BY <2>2 DEF WrittenPieces
    <3>. QED BY <1>5, <2>2, <3>1 DEF Expected
  <2>. QED BY <2>1, <2>2
<1>7. /\ Len(resolved') = Len(resolved) + 1 /\ Len(resolved) \in Nat
      /\ \A i \in 1..Len(resolved) : resolved'[i] = resolved[i]
      /\ resolved'[Rank] = Compiled(r, header)
  <2>1. Compiled(r, header) \in Rule BY <1>3, CompiledType DEF IInv, TypeOK
  <2>. QED BY <1>1, <2>1, AppendProperties, LenProperties DEF IInv, TypeOK, Rank
<1>8. ASSUME NEW i \in 1..Len(resolved') PROVE resolved'[i] = Expected(layered[i])
  <2>1. CASE i = Rank BY <1>6, <1>7, <2>1
  <2>2. CASE i \in 1..Len(resolved) BY <1>7, <2>2 DEF RulesAsWritten
  <2>. QED BY <1>7, <2>1, <2>2 DEF Rank
<1>9. RulesAsWritten' BY <1>1, <1>8, ExpectedFixed DEF RulesAsWritten
<1>. QED BY <1>1, <1>9 DEF HeaderAsWritten

LEMMA AsWrittenStep ==
    IInv /\ HeaderAsWritten /\ RulesAsWritten /\ [Next]_vars => HeaderAsWritten' /\ RulesAsWritten'
<1>. SUFFICES ASSUME IInv, HeaderAsWritten, RulesAsWritten, [Next]_vars
              PROVE  HeaderAsWritten' /\ RulesAsWritten'
  OBVIOUS
<1>1. CASE ReadContext \/ KubeDone \/ ReadSource \/ Layer
  <2>1. pc \in {"kube", "sources"} /\ pc' \notin {"header", "done"} /\ resolved' = resolved
    BY <1>1 DEF ReadContext, KubeDone, ReadSource, Layer, Fail
  <2>2. resolved = <<>> BY <2>1 DEF IInv, Layered
  <2>3. Len(resolved') = 0 BY <2>1, <2>2
  <2>. QED BY <2>1, <2>3 DEF HeaderAsWritten, RulesAsWritten
<1>2. CASE ValidateRule BY <1>2, HeaderStarts
<1>3. CASE Literal \/ Keyring \/ Exec BY <1>3, PiecesAsWritten
<1>4. CASE RuleDone BY <1>4, RuleAsWritten
<1>5. CASE Store
  <2>1. pc' = "done" /\ Rank > Len(layered) /\ UNCHANGED <<input, layered, resolved>>
    BY <1>5 DEF Store
  <2>2. Len(resolved) = Len(layered)
    BY <2>1, LenProperties DEF IInv, TypeOK, Prefixed, Rank
  <2>. QED BY <2>1, <2>2, ExpectedFixed DEF HeaderAsWritten, RulesAsWritten
<1>6. CASE UNCHANGED vars
  <2>1. UNCHANGED <<input, pc, layered, resolved, todo, header>> BY <1>6 DEF vars
  <2>2. WrittenPieces' = WrittenPieces /\ \A p : Value(p)' = Value(p)
    BY <2>1 DEF WrittenPieces, Rank, Value
  <2>3. HeaderAsWritten' BY <2>1, <2>2 DEF HeaderAsWritten
  <2>. QED BY <2>1, <2>3, ExpectedFixed DEF RulesAsWritten
<1>. QED BY <1>1, <1>2, <1>3, <1>4, <1>5, <1>6 DEF Next

LEMMA PlacesInit == Init => LaidOut /\ UserLaid /\ KubeHosts
<1>. SUFFICES ASSUME Init PROVE LaidOut /\ UserLaid /\ KubeHosts OBVIOUS
<1>1. input \in Input BY LayerAssumption DEF Init
<1>2. SourcesLeft = 0
  <2>1. input.sources \in Seq(Source) BY <1>1 DEF Input
  <2>. QED BY <2>1, LenProperties DEF Init, SourcesLeft
<1>3. UserLaid
  <2>1. FirstSources(0) = <<>> BY DEF FirstSources
  <2>. QED BY <1>2, <2>1, LaidNothing DEF UserLaid, Init
<1>4. LaidOut /\ KubeHosts BY DEF Init, LaidOut, KubeHosts
<1>. QED BY <1>3, <1>4

LEMMA LaidOutStep == IInv /\ LaidOut /\ [Next]_vars => LaidOut'
<1>. SUFFICES ASSUME IInv, LaidOut, [Next]_vars, pc' \in {"rules", "header", "done"}
              PROVE  layered' = Layers'
  BY DEF LaidOut
<1>1. /\ UNCHANGED <<input, kube, user_layer, replace_defaults>>
      /\ \/ Layer
         \/ pc \in {"rules", "header", "done"} /\ layered' = layered
  <2>1. CASE ReadContext \/ KubeDone \/ ReadSource
    BY <2>1 DEF ReadContext, KubeDone, ReadSource, Fail
  <2>2. CASE Layer
    <3>1. UNCHANGED <<input, kube, user_layer, replace_defaults>> BY <2>2 DEF Layer
    <3>. QED BY <2>2, <3>1
  <2>3. CASE ValidateRule \/ Literal \/ Keyring \/ Exec \/ RuleDone \/ Store
    BY <2>3 DEF ValidateRule, Literal, Keyring, Exec, RuleDone, Store
  <2>4. CASE UNCHANGED vars BY <2>4 DEF vars
  <2>. QED BY <2>1, <2>2, <2>3, <2>4 DEF Next
<1>2. Layers' = Layers BY <1>1 DEF Layers, use_defaults
<1>. QED BY <1>1, <1>2 DEF LaidOut, Layer

(* One more source is read, after the others.                              *)
LEMMA SourceLaid ==
    ASSUME IInv, UserLaid, ReadSource, Head(sources).kind # "broken"
    PROVE  UserLaid'
<1>. DEFINE n == SourcesLeft
            new == input.sources[n + 1].rules
<1>1. /\ input' = input /\ sources' = Tail(sources) /\ sources # <<>>
      /\ user_layer' = user_layer \o Head(sources).rules
  BY DEF ReadSource
<1>2. /\ input.sources \in Seq(Source) /\ Len(input.sources) \in Nat
      /\ sources \in Seq(Source) /\ user_layer \in Seq(Written)
  BY LenProperties DEF IInv, TypeOK, Input
<1>3. /\ Head(sources) = sources[1] /\ Len(sources) \in Nat \ {0}
      /\ Len(sources') = Len(sources) - 1
  BY <1>1, <1>2, HeadTailProperties, EmptySeq, LenProperties
<1>4. n \in Nat /\ SourcesLeft' = n + 1 /\ n + 1 \in 1..Len(input.sources)
  BY <1>1, <1>2, <1>3 DEF IInv, SourcesRead, SourcesLeft
<1>5. Head(sources).rules = new
  <2>1. sources[1] = input.sources[n + 1] BY <1>3 DEF IInv, SourcesRead
  <2>. QED BY <1>3, <2>1
<1>6. /\ new \in Seq(Written) /\ FirstSources(n) \in Seq(Seq(Written))
      /\ FirstSources(n + 1) = FirstSources(n) \o <<new>>
  BY <1>2, <1>4, SourceLayers
<1>. HIDE DEF new, n
<1>7. Laid(FirstSources(n) \o <<new>>, user_layer \o new)
  <2>1. Laid(FirstSources(n), user_layer) BY DEF UserLaid, n
  <2>2. Laid(<<new>>, new) /\ <<new>> \in Seq(Seq(Written)) BY <1>6, LaidOne
  <2>. QED BY <1>2, <1>6, <2>1, <2>2, LaidJoin
<1>8. user_layer' = user_layer \o new BY <1>1, <1>5
<1>9. FirstSources(SourcesLeft)' = FirstSources(n + 1)
  BY <1>1, <1>4 DEF FirstSources
<1>10. Laid(FirstSources(SourcesLeft)', user_layer') BY <1>6, <1>7, <1>8, <1>9
<1>. QED BY <1>10 DEF UserLaid

LEMMA UserLaidStep == IInv /\ UserLaid /\ [Next]_vars => UserLaid'
<1>. SUFFICES ASSUME IInv, UserLaid, [Next]_vars PROVE UserLaid' OBVIOUS
<1>1. CASE ReadSource /\ Head(sources).kind # "broken" BY <1>1, SourceLaid
<1>2. CASE ~(ReadSource /\ Head(sources).kind # "broken")
  <2>1. UNCHANGED <<input, sources, user_layer>>
    BY <1>2 DEF Next, ReadContext, KubeDone, ReadSource, Layer, ValidateRule, Literal,
           Keyring, Exec, RuleDone, Store, Fail, vars
  <2>2. FirstSources(SourcesLeft)' = FirstSources(SourcesLeft)
    BY <2>1 DEF FirstSources, SourcesLeft
  <2>. QED BY <2>1, <2>2 DEF UserLaid
<1>. QED BY <1>1, <1>2

LEMMA KubeHostsStep == IInv /\ KubeHosts /\ [Next]_vars => KubeHosts'
<1>. SUFFICES ASSUME IInv, KubeHosts, [Next]_vars PROVE KubeHosts' OBVIOUS
<1>. DEFINE c == Head(contexts)
            n == Len(kube.rules)
<1>1. CASE ReadContext /\ ~Refused(c, kube.seen)
  <2>1. /\ kube' = [rules |-> Append(kube.rules, KubeRule(c)),
                    certs |-> IF Bearer(c) THEN kube.certs ELSE kube.certs \cup {c.host},
                    seen  |-> kube.seen \cup {c.host}]
        /\ input' = input /\ contexts # <<>>
    BY <1>1 DEF ReadContext
  <2>2. c \in Context /\ c = contexts[1] /\ Len(contexts) \in Nat \ {0}
    BY <2>1, HeadTailProperties, EmptySeq DEF IInv, TypeOK
  <2>3. n \in Nat /\ Len(kube'.rules) = n + 1
    <3>1. kube.rules \in Seq(Written) /\ KubeRule(c) \in Written
      BY <2>2, KubeRuleType DEF IInv, TypeOK
    <3>2. kube'.rules = Append(kube.rules, KubeRule(c)) BY <2>1
    <3>. QED BY <3>1, <3>2, AppendProperties, LenProperties
  <2>4. c = input.kube[n + 1] BY <2>2 DEF IInv, KubeRead
  <2>5. c.host \notin kube.seen BY <1>1 DEF Refused
  <2>6. \A k : k \in 1..(n + 1) <=> k \in 1..n \/ k = n + 1 BY <2>3
  <2>7. /\ kube.certs \subseteq kube.seen
        /\ \A k \in 1..n :
              /\ input.kube[k].host \in kube.seen
              /\ input.kube[k].host \in kube.certs <=> ~Bearer(input.kube[k])
        /\ \A j, k \in 1..n : input.kube[j].host = input.kube[k].host => j = k
    BY DEF KubeHosts
  <2>8. kube'.seen = kube.seen \cup {c.host}
        /\ kube'.certs = IF Bearer(c) THEN kube.certs ELSE kube.certs \cup {c.host}
    BY <2>1
  <2>. HIDE DEF c, n
  <2>9. kube'.certs \subseteq kube'.seen BY <2>7, <2>8
  <2>10. ASSUME NEW k \in 1..(n + 1)
         PROVE  /\ input.kube[k].host \in kube'.seen
                /\ input.kube[k].host \in kube'.certs <=> ~Bearer(input.kube[k])
    <3>1. CASE k = n + 1 BY <2>4, <2>5, <2>7, <2>8, <3>1
    <3>2. CASE k \in 1..n
      <4>1. input.kube[k].host # c.host BY <2>5, <2>7, <3>2
      <4>. QED BY <2>7, <2>8, <3>2, <4>1
    <3>. QED BY <2>6, <3>1, <3>2
  <2>11. \A j, k \in 1..(n + 1) : input.kube[j].host = input.kube[k].host => j = k
    BY <2>4, <2>5, <2>6, <2>7
  <2>. QED BY <2>1, <2>3, <2>9, <2>10, <2>11 DEF KubeHosts, Bearer
<1>2. CASE ~(ReadContext /\ ~Refused(c, kube.seen))
  <2>1. UNCHANGED <<input, kube>>
    BY <1>2 DEF Next, ReadContext, KubeDone, ReadSource, Layer, ValidateRule, Literal,
           Keyring, Exec, RuleDone, Store, Fail, vars
  <2>. QED BY <2>1 DEF KubeHosts, Bearer
<1>. QED BY <1>1, <1>2

DInv == /\ IInv /\ HeaderAsWritten /\ RulesAsWritten /\ LaidOut /\ UserLaid /\ KubeHosts

LEMMA ListAsWritten == Spec => []DInv
<1>1. Init => HeaderAsWritten /\ RulesAsWritten /\ LaidOut /\ UserLaid /\ KubeHosts
  BY AsWrittenInit, PlacesInit
<1>2. IInv /\ HeaderAsWritten /\ RulesAsWritten /\ LaidOut /\ UserLaid /\ KubeHosts
      /\ [Next]_vars
      => (HeaderAsWritten /\ RulesAsWritten /\ LaidOut /\ UserLaid /\ KubeHosts)'
  BY AsWrittenStep, LaidOutStep, UserLaidStep, KubeHostsStep
<1>. QED BY <1>1, <1>2, Invariance, PTL DEF Spec, DInv

(* The stored list is the layers of the docstring, rule by rule.            *)
LEMMA Layout ==
    ASSUME DInv, pc = "done"
    PROVE  DocLayers \in Seq(Seq(Written)) /\ Laid(DocLayers, layered)
<1>. DEFINE C == Credentials
            U == user_layer
            A == On(AgentDefaults)
            G == On(GenericDefaults)
            srcs == [s \in DOMAIN input.sources |-> input.sources[s].rules]
<1>1. /\ contexts = <<>> /\ sources = <<>> /\ layered = Layers /\ TypeOK
      /\ KubeRead /\ SourcesRead /\ UserLaid
  BY DEF DInv, IInv, KubeRead, SourcesRead, LaidOut
<1>2. C \in Seq(Written) /\ U \in Seq(Written) /\ A \in Seq(Written) /\ G \in Seq(Written)
  BY <1>1, CredentialsType, LayerAssumption DEF TypeOK, On
<1>3. layered = C \o (U \o (A \o G))
  <2>1. use_defaults <=> DefaultsOn BY <1>1, DefaultsRead
  <2>2. kube.rules = KubeRules BY <1>1, KubeLayer
  <2>3. (IF use_defaults THEN Auth ELSE <<>>) \o kube.rules = C
    BY <2>1, <2>2 DEF Credentials, On
  <2>4. (IF use_defaults THEN AgentDefaults \o GenericDefaults ELSE <<>>) = A \o G
    BY <2>1 DEF On
  <2>. QED BY <1>1, <2>3, <2>4 DEF Layers
<1>4. srcs \in Seq(Seq(Written)) /\ Laid(srcs, U)
  <2>1. input.sources \in Seq(Source) BY <1>1 DEF TypeOK, Input
  <2>2. DOMAIN input.sources = 1..Len(input.sources) /\ Len(input.sources) \in Nat
        /\ SourcesLeft = Len(input.sources)
    BY <1>1, <2>1, LenProperties DEF SourcesLeft
  <2>3. srcs = FirstSources(SourcesLeft) BY <2>2 DEF FirstSources
  <2>4. \A s \in 1..Len(input.sources) : input.sources[s].rules \in Seq(Written)
    <3>1. \A s \in 1..Len(input.sources) : input.sources[s] \in Source
      BY <2>1, ElementOfSeq
    <3>. QED BY <3>1 DEF Source
  <2>5. srcs \in Seq(Seq(Written)) BY <2>2, <2>4
  <2>. QED BY <1>1, <2>3, <2>5 DEF UserLaid
<1>. HIDE DEF C, U, A, G, srcs
<1>5. Laid(<<C>>, C) /\ Laid(<<A>>, A) /\ Laid(<<G>>, G) BY <1>2, LaidOne
<1>6. /\ <<C>> \in Seq(Seq(Written)) /\ <<A>> \in Seq(Seq(Written))
      /\ <<G>> \in Seq(Seq(Written)) /\ <<A, G>> \in Seq(Seq(Written))
      /\ <<A>> \o <<G>> = <<A, G>>
  BY <1>2, Pair
<1>7. Laid(<<A, G>>, A \o G)
  <2>1. Laid(<<A>> \o <<G>>, A \o G) BY <1>2, <1>5, <1>6, LaidJoin
  <2>. QED BY <2>1, <1>6
<1>8. A \o G \in Seq(Written) /\ U \o (A \o G) \in Seq(Written)
      /\ srcs \o <<A, G>> \in Seq(Seq(Written))
  BY <1>2, <1>4, <1>6, ConcatProperties
<1>9. Laid(srcs \o <<A, G>>, U \o (A \o G))
  BY <1>2, <1>4, <1>6, <1>7, <1>8, LaidJoin
<1>10. Laid(<<C>> \o (srcs \o <<A, G>>), layered)
  BY <1>2, <1>3, <1>5, <1>6, <1>8, <1>9, LaidJoin
<1>11. DocLayers = (<<C>> \o srcs) \o <<A, G>> BY DEF DocLayers, C, A, G, srcs
<1>12. (<<C>> \o srcs) \o <<A, G>> = <<C>> \o (srcs \o <<A, G>>)
  BY <1>4, <1>6, ConcatAssociative
<1>13. <<C>> \o (srcs \o <<A, G>>) \in Seq(Seq(Written))
  BY <1>6, <1>8, ConcatProperties
<1>. QED BY <1>10, <1>11, <1>12, <1>13

LEMMA StoredAsWritten ==
    ASSUME DInv, pc = "done"
    PROVE  /\ DOMAIN resolved = 1..Len(layered)
           /\ \A i \in 1..Len(layered) : resolved[i] = Expected(layered[i])
<1>1. resolved \in Seq(Rule) /\ Len(resolved) = Len(layered)
  BY DEF DInv, IInv, TypeOK, RulesAsWritten
<1>. QED BY <1>1, LenProperties DEF DInv, RulesAsWritten

LEMMA DecidedByLayer == ASSUME DInv PROVE LayersDecide
<1>. DEFINE D == DocLayers
<1>. SUFFICES ASSUME pc = "done", NEW q \in Request
              PROVE  /\ \A l \in DOMAIN D : \A k \in DOMAIN D[l] :
                           Chosen(l, k, q) =>
                              \E i \in DOMAIN resolved :
                                 match_rule(q, i) /\ resolved[i] = Expected(D[l][k])
                     /\ (\A l \in DOMAIN D : \A k \in DOMAIN D[l] : ~Chosen(l, k, q))
                           => \A i \in DOMAIN resolved : ~match_rule(q, i)
                     /\ match_l4(q.host) <=>
                           \E l \in DOMAIN D : \E k \in DOMAIN D[l] :
                              Tunnels(Expected(D[l][k]), q.host)
  BY DEF LayersDecide
<1>1. D \in Seq(Seq(Written)) /\ Laid(D, layered) BY Layout
<1>2. /\ DOMAIN D = 1..Len(D) /\ Len(D) \in Nat
      /\ \A l \in DOMAIN D : DOMAIN D[l] = 1..Len(D[l]) /\ Len(D[l]) \in Nat
  <2>1. \A l \in DOMAIN D : D[l] \in Seq(Written) BY <1>1, LenProperties, ElementOfSeq
  <2>. HIDE DEF D
  <2>. QED BY <1>1, <2>1, LenProperties
<1>3. Len(layered) \in Nat BY LenProperties DEF DInv, IInv, TypeOK
<1>4. /\ DOMAIN resolved = 1..Len(layered)
      /\ \A i \in 1..Len(layered) : resolved[i] = Expected(layered[i])
  BY StoredAsWritten
<1>. DEFINE Asks(l, k) == Admits(Expected(D[l][k]), q)
<1>5. ASSUME NEW l \in DOMAIN D, NEW k \in DOMAIN D[l]
      PROVE  Chosen(l, k, q) <=>
                /\ Asks(l, k) /\ \A n \in DOMAIN D[l] : Asks(l, n) => k <= n
                /\ \A m \in 1..(l - 1) : \A n \in DOMAIN D[m] : ~Asks(m, n)
  BY <1>5 DEF Chosen
<1>. HIDE DEF D
<1>6. PICK place \in [1..Len(D) -> 0..Len(layered)] :
         /\ \A l \in 1..Len(D) : place[l] + Len(D[l]) <= Len(layered)
         /\ \A l \in 1..Len(D) : \A k \in 1..Len(D[l]) : layered[place[l] + k] = D[l][k]
         /\ \A l, m \in 1..Len(D) : l < m => place[l] + Len(D[l]) <= place[m]
         /\ \A i \in 1..Len(layered) :
               \E l \in 1..Len(D) : \E k \in 1..Len(D[l]) : i = place[l] + k
  BY <1>1 DEF Laid
<1>7. ASSUME NEW l \in DOMAIN D, NEW k \in DOMAIN D[l]
      PROVE  /\ place[l] \in Nat /\ place[l] + k \in DOMAIN resolved
             /\ resolved[place[l] + k] = Expected(D[l][k])
  <2>1. place[l] \in 0..Len(layered) /\ place[l] + Len(D[l]) <= Len(layered)
    BY <1>2, <1>6, <1>7
  <2>2. k \in 1..Len(D[l]) /\ Len(D[l]) \in Nat BY <1>2, <1>7
  <2>3. place[l] \in Nat /\ place[l] + k \in 1..Len(layered) BY <1>3, <2>1, <2>2
  <2>4. layered[place[l] + k] = D[l][k] BY <1>2, <1>6, <1>7
  <2>. QED BY <1>4, <2>3, <2>4
<1>8. ASSUME NEW i \in DOMAIN resolved
      PROVE  \E l \in DOMAIN D : \E k \in DOMAIN D[l] : i = place[l] + k
  <2>1. PICK l \in 1..Len(D) : \E k \in 1..Len(D[l]) : i = place[l] + k
    BY <1>4, <1>6, <1>8
  <2>. QED BY <1>2, <2>1
<1>9. ASSUME NEW l \in DOMAIN D, NEW k \in DOMAIN D[l],
             NEW m \in DOMAIN D, NEW n \in DOMAIN D[m], l < m
      PROVE  place[l] + k < place[m] + n
  <2>1. place[l] + Len(D[l]) <= place[m] BY <1>2, <1>6, <1>9
  <2>2. /\ k \in 1..Len(D[l]) /\ Len(D[l]) \in Nat
        /\ n \in 1..Len(D[m]) /\ Len(D[m]) \in Nat
    BY <1>2
  <2>3. place[l] \in Nat /\ place[m] \in Nat BY <1>7
  <2>. QED BY <2>1, <2>2, <2>3, SMTT(30)
<1>10. ASSUME NEW l \in DOMAIN D, NEW k \in DOMAIN D[l], Chosen(l, k, q)
       PROVE  \E i \in DOMAIN resolved :
                 match_rule(q, i) /\ resolved[i] = Expected(D[l][k])
  <2>. DEFINE i == place[l] + k
  <2>1. i \in DOMAIN resolved /\ resolved[i] = Expected(D[l][k]) /\ Admits(resolved[i], q)
    BY <1>5, <1>7, <1>10
  <2>2. ASSUME NEW j \in DOMAIN resolved, Admits(resolved[j], q) PROVE i <= j
    <3>1. PICK m \in DOMAIN D : \E n \in DOMAIN D[m] : j = place[m] + n BY <1>8
    <3>2. PICK n \in DOMAIN D[m] : j = place[m] + n BY <3>1
    <3>3. Asks(m, n) BY <1>7, <2>2, <3>2
    <3>4. l \in Nat /\ m \in Nat /\ l >= 1 /\ m >= 1 BY <1>2
    <3>5. k \in Nat /\ n \in Nat /\ place[l] \in Nat /\ place[m] \in Nat BY <1>2, <1>7
    <3>6. ~(m < l)
      <4>1. m < l => m \in 1..(l - 1) BY <3>4
      <4>. QED BY <1>5, <1>10, <3>3, <4>1
    <3>7. CASE m = l
      <4>1. k <= n BY <1>5, <1>10, <3>3, <3>7
      <4>. QED BY <3>2, <3>5, <3>7, <4>1
    <3>8. CASE l < m
      <4>1. i < j BY <1>9, <3>2, <3>8
      <4>. QED BY <3>2, <3>5, <4>1
    <3>. QED BY <3>4, <3>6, <3>7, <3>8
  <2>3. match_rule(q, i) BY <2>1, <2>2 DEF match_rule
  <2>. QED BY <2>1, <2>3
<1>11. ASSUME NEW i \in DOMAIN resolved, match_rule(q, i)
       PROVE  \E l \in DOMAIN D : \E k \in DOMAIN D[l] : Chosen(l, k, q)
  <2>1. PICK l \in DOMAIN D : \E k \in DOMAIN D[l] : i = place[l] + k BY <1>8
  <2>2. PICK k \in DOMAIN D[l] : i = place[l] + k BY <2>1
  <2>3. Asks(l, k) BY <1>7, <1>11, <2>2 DEF match_rule
  <2>4. ASSUME NEW m \in DOMAIN D, NEW n \in DOMAIN D[m], Asks(m, n)
        PROVE  place[l] + k <= place[m] + n
    <3>1. place[m] + n \in DOMAIN resolved /\ Admits(resolved[place[m] + n], q)
      BY <1>7, <2>4
    <3>. QED BY <1>11, <2>2, <3>1 DEF match_rule
  <2>5. ASSUME NEW n \in DOMAIN D[l], Asks(l, n) PROVE k <= n
    <3>1. place[l] + k <= place[l] + n BY <2>4, <2>5
    <3>2. place[l] \in Nat /\ k \in Nat /\ n \in Nat BY <1>2, <1>7
    <3>. QED BY <3>1, <3>2
  <2>6. ASSUME NEW m \in 1..(l - 1), NEW n \in DOMAIN D[m] PROVE ~Asks(m, n)
    <3>1. m \in DOMAIN D /\ m < l BY <1>2
    <3>2. place[m] + n < place[l] + k BY <1>9, <3>1
    <3>3. place[m] \in Nat /\ place[l] \in Nat /\ k \in Nat /\ n \in Nat BY <1>2, <1>7, <3>1
    <3>4. ~(place[l] + k <= place[m] + n) BY <3>2, <3>3
    <3>. QED BY <2>4, <3>1, <3>4
  <2>7. Chosen(l, k, q) BY <1>5, <2>3, <2>5, <2>6
  <2>. QED BY <2>7
<1>12. match_l4(q.host) <=>
          \E l \in DOMAIN D : \E k \in DOMAIN D[l] : Tunnels(Expected(D[l][k]), q.host)
  <2>1. ASSUME NEW i \in DOMAIN resolved, Tunnels(resolved[i], q.host)
        PROVE  \E l \in DOMAIN D : \E k \in DOMAIN D[l] :
                  Tunnels(Expected(D[l][k]), q.host)
    <3>1. PICK l \in DOMAIN D : \E k \in DOMAIN D[l] : i = place[l] + k BY <1>8
    <3>2. PICK k \in DOMAIN D[l] : i = place[l] + k BY <3>1
    <3>3. resolved[i] = Expected(D[l][k]) BY <1>7, <3>2
    <3>. QED BY <2>1, <3>3
  <2>2. ASSUME NEW l \in DOMAIN D, NEW k \in DOMAIN D[l], Tunnels(Expected(D[l][k]), q.host)
        PROVE  match_l4(q.host)
    <3>1. place[l] + k \in DOMAIN resolved /\ Tunnels(resolved[place[l] + k], q.host)
      BY <1>7, <2>2
    <3>. QED BY <3>1 DEF match_l4
  <2>. QED BY <2>1, <2>2 DEF match_l4
<1>. QED BY <1>10, <1>11, <1>12

(* For any layers, sources and contexts, of any length: the addon's first  *)
(* match in the flat list is the rule that the layers of rules.resolve's   *)
(* docstring pick, with the header that rule was written with, and a host  *)
(* is tunnelled exactly if a written rule says so.                         *)
THEOREM PrecedenceByLayer == Spec => []LayersDecide
BY ListAsWritten, DecidedByLayer, PTL

LEMMA ContextServed == ASSUME DInv PROVE KubeHostsServed
<1>. SUFFICES ASSUME pc = "done", NEW k \in DOMAIN input.kube, NEW q \in Request,
                     q.host = input.kube[k].host,
                     \A a \in DOMAIN On(Auth) : ~Admits(Compiled(Auth[a], <<>>), q)
              PROVE  \E i \in DOMAIN resolved :
                        /\ match_rule(q, i)
                        /\ resolved[i].inject = Expected(KubeRule(input.kube[k])).inject
                        /\ input.kube[k].host \in kube.certs <=> resolved[i].inject = <<>>
  BY DEF KubeHostsServed
<1>. DEFINE c == input.kube[k]
            n == Len(On(Auth))
            i == n + k
<1>1. /\ TypeOK /\ KubeRead /\ contexts = <<>> /\ Layered BY DEF DInv, IInv, KubeRead
<1>2. input.kube \in Seq(Context) /\ c \in Context /\ kube.rules = KubeRules
      /\ DOMAIN input.kube = 1..Len(input.kube) /\ Len(input.kube) \in Nat
      /\ Len(kube.rules) = Len(input.kube)
  <2>1. input.kube \in Seq(Context) BY <1>1 DEF TypeOK, Input
  <2>2. kube.rules = KubeRules BY <1>1, KubeLayer
  <2>3. Len(kube.rules) = Len(input.kube)
    BY <1>1, <2>1, LenProperties DEF KubeRead, TypeOK
  <2>. QED BY <2>1, <2>2, <2>3, LenProperties, ElementOfSeq
<1>3. On(Auth) \in Seq(Written) /\ n \in Nat /\ DOMAIN On(Auth) = 1..n
      /\ \A a \in 1..n : On(Auth)[a] = Auth[a]
  <2>1. On(Auth) \in Seq(Written) BY LayerAssumption DEF On
  <2>. QED BY <2>1, LenProperties DEF On
<1>4. /\ Len(Credentials) = n + Len(input.kube)
      /\ \A a \in 1..n : Credentials[a] = Auth[a]
      /\ \A m \in 1..Len(input.kube) : Credentials[n + m] = KubeRule(input.kube[m])
  <2>1. KubeRules \in Seq(Written) /\ Len(KubeRules) = Len(input.kube)
        /\ \A m \in 1..Len(input.kube) : KubeRules[m] = KubeRule(input.kube[m])
    BY <1>1, <1>2 DEF TypeOK, KubeRules
  <2>2. /\ Len(Credentials) = n + Len(KubeRules)
        /\ \A j \in 1..(n + Len(KubeRules)) :
              Credentials[j] = IF j <= n THEN On(Auth)[j] ELSE KubeRules[j - n]
    <3>. DEFINE A == On(Auth)
    <3>1. Credentials = A \o KubeRules BY DEF Credentials
    <3>. HIDE DEF A
    <3>2. A \in Seq(Written) BY <1>3 DEF A
    <3>3. /\ Len(A \o KubeRules) = Len(A) + Len(KubeRules)
          /\ \A j \in 1..(Len(A) + Len(KubeRules)) :
                (A \o KubeRules)[j] = IF j <= Len(A) THEN A[j] ELSE KubeRules[j - Len(A)]
      BY <2>1, <3>2, ConcatProperties, ZenonT(40)
    <3>. QED BY <3>1, <3>3 DEF A
  <2>3. \A m \in 1..Len(input.kube) : n + m \in 1..(n + Len(KubeRules)) /\ ~(n + m <= n)
                                      /\ (n + m) - n = m
    BY <1>2, <1>3, <2>1
  <2>4. \A a \in 1..n : a \in 1..(n + Len(KubeRules)) /\ a <= n BY <1>2, <1>3, <2>1
  <2>. HIDE DEF n
  <2>. QED BY <1>3, <2>1, <2>2, <2>3, <2>4
<1>5. /\ Len(Credentials) <= Len(layered)
      /\ \A j \in 1..Len(Credentials) : layered[j] = Credentials[j]
  BY <1>1 DEF Layered
<1>6. /\ DOMAIN resolved = 1..Len(layered) /\ Len(layered) \in Nat
      /\ \A j \in 1..Len(layered) : resolved[j] = Expected(layered[j])
  BY <1>1, StoredAsWritten, LenProperties DEF TypeOK
<1>. HIDE DEF n
<1>7. \A j \in 1..Len(Credentials) :
         j \in DOMAIN resolved /\ resolved[j] = Expected(Credentials[j])
  <2>1. Len(Credentials) \in Nat BY <1>2, <1>3, <1>4
  <2>. QED BY <2>1, <1>5, <1>6
<1>8. i \in 1..Len(Credentials) /\ resolved[i] = Expected(KubeRule(c)) /\ i \in DOMAIN resolved
  <2>1. i \in 1..Len(Credentials) BY <1>2, <1>3, <1>4
  <2>. QED BY <1>2, <1>4, <1>7, <2>1
<1>9. Admits(resolved[i], q)
  <2>1. c.host \in Hosts BY <1>2 DEF Context
  <2>2. {c.host} # Absent BY <2>1, LayerAssumption
  <2>. QED BY <1>8, <2>2 DEF Admits, Expected, Compiled, KubeRule, Given
<1>10. ASSUME NEW j \in DOMAIN resolved, Admits(resolved[j], q) PROVE i <= j
  <2>1. CASE j \in 1..n
    <3>1. resolved[j] = Expected(Auth[j])
      <4>1. j \in 1..Len(Credentials) BY <1>2, <1>3, <1>4, <2>1
      <4>. QED BY <1>4, <1>7, <2>1, <4>1
    <3>2. Admits(Compiled(Auth[j], <<>>), q)
      BY <1>10, <3>1 DEF Admits, Expected, Compiled
    <3>. QED BY <1>3, <2>1, <3>2
  <2>2. ASSUME j > n, j < i PROVE FALSE
    <3>. DEFINE m == j - n
    <3>1. m \in 1..Len(input.kube) /\ m < k /\ j = n + m
      BY <1>2, <1>3, <1>6, <1>10, <2>2
    <3>. HIDE DEF m
    <3>2. j \in 1..Len(Credentials) BY <1>2, <1>3, <1>4, <3>1
    <3>3. resolved[j] = Expected(KubeRule(input.kube[m])) BY <1>4, <1>7, <3>1, <3>2
    <3>4. q.host = input.kube[m].host
      BY <1>10, <3>3 DEF Admits, Expected, Compiled, KubeRule, Given
    <3>5. m = k BY <1>2, <3>1, <3>4 DEF DInv, KubeHosts
    <3>. QED BY <1>2, <3>1, <3>5
  <2>. QED BY <1>2, <1>3, <1>6, <2>1, <2>2
<1>11. match_rule(q, i) BY <1>8, <1>9, <1>10 DEF match_rule
<1>12. c.host \in kube.certs <=> ~Bearer(c) BY <1>2 DEF DInv, KubeHosts
<1>13. Expected(KubeRule(c)).inject = <<>> <=> ~Bearer(c)
  <2>1. CASE ~Bearer(c) BY <2>1 DEF Expected, Compiled, KubeRule
  <2>2. CASE Bearer(c)
    <3>1. KubeRule(c).inject = <<c.token>> BY <2>2 DEF KubeRule
    <3>2. <<c.token>> \in Seq(Piece)
      <4>1. c.token \in Piece BY <1>2 DEF Context
      <4>. QED BY <4>1
    <3>3. KubeRule(c).inject # Absent BY <3>1, <3>2, LayerAssumption
    <3>4. Expected(KubeRule(c)).inject = [m \in DOMAIN <<c.token>> |-> Value(<<c.token>>[m])]
      BY <3>1, <3>3 DEF Expected, Compiled
    <3>5. DOMAIN <<c.token>> = {1} OBVIOUS
    <3>6. Expected(KubeRule(c)).inject # <<>> BY <3>4, <3>5
    <3>. QED BY <2>2, <3>6
  <2>. QED BY <2>1, <2>2
<1>. QED BY <1>8, <1>11, <1>12, <1>13

(* For any contexts and rules: what goes to a selected context's API       *)
(* server meets that context's own rule, with its token or, if mitmproxy   *)
(* has a client certificate for it, with none; no other context, user rule *)
(* or default comes before it (kube.resolve).                              *)
THEOREM ContextsKeepCredentials == Spec => []KubeHostsServed
BY ListAsWritten, ContextServed, PTL
=============================================================================
