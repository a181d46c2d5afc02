-------------------------- MODULE MitmFlow_proofs --------------------------
(***************************************************************************)
(* Theorems about MitmFlow, for every list of rules, every request, every  *)
(* threshold and any number of flows.  The properties are about what has   *)
(* left; the invariant adds what each stage knows about the flow before    *)
(* anything leaves: Fresh until requestheaders, then its Verdict, then     *)
(* where the body is (Body chunks held or sent, Moving).                   *)
(***************************************************************************)
EXTENDS MitmFlow, WellFoundedInduction, TLAPS

Early == {"connect", "raw", "headers"}
Late == {"flush", "body", "complete", "sent"}
Open == Early \cup Late

Fresh(f) ==
    /\ auth[f] = req[f].auth /\ injected[f] = 0 /\ ~stream[f] /\ ~deferred[f] /\ ~denied[f]
    /\ held[f] = 0 /\ got[f] = 0 /\ hashed[f] = 0
    /\ up[f].auth = "nothing" /\ up[f].body = 0

(* What requestheaders decided, and the request hook after it.             *)
Verdict(f) ==
    \/ /\ denied[f] /\ ~stream[f] /\ ~deferred[f]
    \/ /\ ~denied[f] /\ match_rule(req[f]) # 0 /\ ~SignableAkia(req[f])
       /\ FirstToAdmit(injected[f], req[f]) /\ ~deferred[f]
       /\ auth[f] = OwnAuth(req[f], injected[f])
       /\ stream[f] = Streams(req[f].body)
    \/ /\ ~denied[f] /\ match_rule(req[f]) # 0 /\ SignableAkia(req[f]) /\ injected[f] = 0
       /\ auth[f] = "signed_unsigned_payload" /\ ~deferred[f]
       /\ stream[f] = Streams(req[f].body)
    \/ /\ ~denied[f] /\ match_rule(req[f]) # 0 /\ SignableAkia(req[f]) /\ injected[f] = 0
       /\ deferred[f] /\ ~stream[f]
       /\ auth[f] = IF stage[f] \in {"flush", "body"} THEN "stripped" ELSE "signed"

Moving(f) ==
    /\ stream[f] => held[f] = 0 /\ (stage[f] = "flush" => up[f].body = 0)
    /\ ~stream[f] => held[f] = got[f] /\ (stage[f] # "sent" => up[f].auth = "nothing")
    /\ stage[f] = "flush" => got[f] = 0 /\ up[f].auth = "nothing"
    /\ stage[f] \in {"complete", "sent"} =>
          got[f] = req[f].body.chunks /\ (deferred[f] => hashed[f] = held[f])
    /\ stage[f] = "sent" => ~denied[f]

(* What may leave, and what may be held: the properties, flow by flow.     *)
Ruled(f) ==
    Left(f) => \E i \in DOMAIN Rules :
       IF Rules[i].l4 THEN req[f].host \in Rules[i].hosts
                      ELSE Admits(Rules[i], req[f])

Signed(f) ==
    /\ Left(f) /\ SignableAkia(req[f]) /\ ~match_l4(req[f].host)
       => up[f].auth \in Signatures /\ up[f].injected = 0
    /\ Left(f) => Owned(req[f], up[f])
    /\ up[f].auth = "signed" =>
          /\ up[f].body = req[f].body.chunks /\ hashed[f] = up[f].body
          /\ stage[f] \in {"sent", "done"}

Small(f) ==
    /\ held[f] > Threshold => deferred[f] \/ denied[f]
    /\ reply[f].held <= Threshold

FInv(f) ==
    /\ got[f] <= req[f].body.chunks /\ held[f] <= got[f] /\ up[f].body <= req[f].body.chunks
    /\ stage[f] = "body" /\ stream[f] => up[f].body = got[f]
    /\ stage[f] # "broken"
    /\ stage[f] \in Early => Fresh(f)
    /\ stage[f] = "raw" => match_l4(req[f].host)
    /\ stage[f] \in {"headers"} \cup Late => ~match_l4(req[f].host)
    /\ stage[f] \in Late => Verdict(f) /\ Moving(f)
    /\ Ruled(f) /\ Signed(f) /\ Small(f)

MInv == TypeOK /\ \A f \in Flows : FInv(f)

-----------------------------------------------------------------------------
(* A rule that match_rule finds admits the request.                        *)
LEMMA MatchAdmits ==
    ASSUME NEW q, match_rule(q) # 0
    PROVE  \E i \in DOMAIN Rules : ~Rules[i].l4 /\ Admits(Rules[i], q)
BY DEF match_rule

(* It is the first to do so.                                               *)
LEMMA MatchIn ==
    ASSUME NEW q, match_rule(q) # 0
    PROVE  match_rule(q) \in DOMAIN Rules /\ FirstToAdmit(match_rule(q), q)
<1>. DEFINE hits == {i \in DOMAIN Rules : ~Rules[i].l4 /\ Admits(Rules[i], q)}
<1>1. hits # {} /\ match_rule(q) = Least(hits) BY DEF match_rule
<1>2. hits \subseteq Nat BY FlowAssumption
<1>. DEFINE less == {p \in Nat \X Nat : p[1] < p[2]}
<1>3. IsWellFoundedOn(less, Nat) BY NatLessThanWellFounded DEF OpToRel
<1>. HIDE DEF hits
<1>4. \E i \in hits : \A j \in hits : ~(<<j, i>> \in less)
  <2>. HIDE DEF less
  <2>. QED BY <1>1, <1>2, <1>3, WFMin
<1>5. \E i \in hits : \A j \in hits : i <= j
  <2>1. \A i, j \in Nat : j < i => <<j, i>> \in less OBVIOUS
  <2>. HIDE DEF less
  <2>2. PICK i \in hits : \A j \in hits : ~(<<j, i>> \in less) BY <1>4
  <2>3. \A j \in hits : ~(j < i) BY <1>2, <2>1, <2>2
  <2>. QED BY <1>2, <2>3
<1>6. Least(hits) \in hits /\ \A j \in hits : Least(hits) <= j BY <1>5 DEF Least
<1>7. match_rule(q) \in DOMAIN Rules /\ ~Rules[match_rule(q)].l4 /\ Admits(Rules[match_rule(q)], q)
  BY <1>1, <1>6 DEF hits
<1>8. ASSUME NEW j \in DOMAIN Rules, j < match_rule(q) PROVE Rules[j].l4 \/ ~Admits(Rules[j], q)
  <2>1. match_rule(q) \in Nat /\ (j \in hits => j \in Nat /\ match_rule(q) <= j)
    BY <1>1, <1>2, <1>6
  <2>2. ASSUME j \in hits PROVE FALSE BY <1>8, <2>1, <2>2
  <2>. QED BY <2>2 DEF hits
<1>. QED BY <1>7, <1>8 DEF FirstToAdmit

LEMMA SeqElement == ASSUME NEW i \in DOMAIN Rules PROVE Rules[i] \in Rule
<1>1. Rules \in Seq(Rule) BY FlowAssumption
<1>. HIDE DEF Rule
<1>. QED BY <1>1

(* A body the proxy does not stream is as small as it says.                *)
LEMMA NotStreamed ==
    ASSUME NEW q \in Request
    PROVE  /\ q.body.chunks \in 0..MaxBody
           /\ ~Streams(q.body) => q.body.chunks <= Threshold
           /\ q.auth \in AgentAuth
BY FlowAssumption DEF Request, Body, Streams, Unknown

LEMMA MInit == Init => MInv
<1>. SUFFICES ASSUME Init PROVE MInv OBVIOUS
<1>. USE FlowAssumption
<1>1. \A f \in Flows : req[f] \in Request BY DEF Init
<1>2. \A f \in Flows : req[f].auth \in AgentAuth /\ req[f].body.chunks \in 0..MaxBody
  BY <1>1, NotStreamed
<1>3. TypeOK
  <2>1. req \in [Flows -> Request] BY DEF Init
  <2>. QED BY <1>2, <2>1 DEF Init, TypeOK, Stages, UpAuth, AgentAuth
<1>4. ASSUME NEW f \in Flows PROVE FInv(f)
  BY <1>2 DEF Init, FInv, Early, Late, Fresh, Ruled, Left, Signed, Small
<1>. QED BY <1>3, <1>4 DEF MInv

(* A flow's step leaves the others alone.                                  *)
Same(f) ==
    /\ req'[f] = req[f] /\ stage'[f] = stage[f] /\ auth'[f] = auth[f]
    /\ injected'[f] = injected[f] /\ stream'[f] = stream[f] /\ deferred'[f] = deferred[f]
    /\ denied'[f] = denied[f] /\ held'[f] = held[f] /\ got'[f] = got[f]
    /\ hashed'[f] = hashed[f] /\ up'[f] = up[f] /\ reply'[f] = reply[f]

LEMMA SameKeeps == ASSUME NEW f \in Flows, FInv(f), Same(f) PROVE FInv(f)'
BY DEF Same, FInv, Fresh, Verdict, Moving, Ruled, Left, Signed, Small

LEMMA OthersSame ==
    ASSUME MInv, NEW f \in Flows, Proxy(f) \/ Abort(f), NEW g \in Flows, g # f
    PROVE  Same(g)
<1>. USE DEF MInv, TypeOK, Put, Same
<1>1. CASE NextLayer(f) BY <1>1 DEF NextLayer
<1>2. CASE Deny(f) BY <1>2 DEF Deny
<1>3. CASE Admit(f)
  <2>1. CASE SignableAkia(req[f]) BY <1>3, <2>1 DEF Admit, begin_sigv4
  <2>2. CASE ~SignableAkia(req[f]) BY <1>3, <2>2 DEF Admit, Inject
  <2>. QED BY <2>1, <2>2
<1>4. CASE Flush(f) BY <1>4 DEF Flush
<1>5. CASE Chunk(f) BY <1>5 DEF Chunk
<1>6. CASE RequestHook(f) BY <1>6 DEF RequestHook
<1>7. CASE Forward(f) BY <1>7 DEF Forward
<1>8. CASE ResponseHeaders(f) BY <1>8 DEF ResponseHeaders
<1>9. CASE Relay(f) BY <1>9 DEF Relay
<1>10. CASE Abort(f) BY <1>10 DEF Abort
<1>. QED BY <1>1, <1>2, <1>3, <1>4, <1>5, <1>6, <1>7, <1>8, <1>9, <1>10 DEF Proxy

LEMMA TypeStep == ASSUME MInv, NEW f \in Flows, Proxy(f) \/ Abort(f) PROVE TypeOK'
<1>. USE FlowAssumption DEF MInv, TypeOK, Put, Stages
<1>. DEFINE q == req[f]
<1>1. q \in Request /\ q.body.chunks \in 0..MaxBody /\ q.auth \in AgentAuth
  BY NotStreamed
<1>. HIDE DEF q
<1>2. CASE NextLayer(f) BY <1>2 DEF NextLayer
<1>3. CASE Deny(f) BY <1>3 DEF Deny
<1>4. CASE Admit(f)
  <2>1. /\ UNCHANGED <<req, denied, held, got, hashed, up, reply>>
        /\ stage' = [stage EXCEPT ![f] = "flush"]
    BY <1>4 DEF Admit
  <2>2. CASE SignableAkia(req[f])
    <3>1. begin_sigv4(f) BY <1>4, <2>2 DEF Admit
    <3>2. auth' \in [Flows -> UpAuth \ {"nothing"}] BY <3>1 DEF begin_sigv4, UpAuth, Signatures, AgentAuth
    <3>3. stream' \in [Flows -> BOOLEAN] BY <3>1 DEF begin_sigv4, Streams
    <3>4. deferred' \in [Flows -> BOOLEAN] /\ injected' = injected BY <3>1 DEF begin_sigv4
    <3>. QED BY <2>1, <3>2, <3>3, <3>4
  <2>3. CASE ~SignableAkia(req[f])
    <3>1. /\ stream' = Put(stream, f, Streams(req[f].body))
          /\ Inject(f, match_rule(req[f]))
          /\ UNCHANGED deferred /\ match_rule(req[f]) # 0
      BY <1>4, <2>3 DEF Admit
    <3>2. match_rule(req[f]) \in 0..Len(Rules)
      <4>1. match_rule(req[f]) \in DOMAIN Rules BY <3>1, MatchIn
      <4>2. Rules \in Seq(Rule) BY FlowAssumption
      <4>. HIDE DEF Rule
      <4>. QED BY <4>1, <4>2
    <3>3. auth' \in [Flows -> UpAuth \ {"nothing"}] BY <3>1 DEF Inject, UpAuth
    <3>4. Streams(req[f].body) \in BOOLEAN BY DEF Streams
    <3>5. stream' \in [Flows -> BOOLEAN] /\ injected' \in [Flows -> 0..Len(Rules)]
      BY <3>1, <3>2, <3>4 DEF Inject
    <3>. QED BY <2>1, <3>1, <3>3, <3>5
  <2>. QED BY <2>2, <2>3
<1>5. CASE Flush(f)
  <2>1. up' \in [Flows -> [auth : UpAuth, injected : 0..Len(Rules), body : 0..MaxBody]]
    <3>1. [auth |-> auth[f], injected |-> injected[f], body |-> 0]
            \in [auth : UpAuth, injected : 0..Len(Rules), body : 0..MaxBody]
      OBVIOUS
    <3>. QED BY <1>5, <3>1 DEF Flush
  <2>. QED BY <1>5, <2>1 DEF Flush
<1>6. CASE Chunk(f)
  <2>1. got[f] + 1 \in 0..MaxBody BY <1>1, <1>6 DEF Chunk, q
  <2>2. held[f] + 1 \in 0..MaxBody
    BY <1>1, <2>1 DEF FInv
  <2>3. stream[f] => up[f].body + 1 \in 0..MaxBody
    BY <1>6, <2>1 DEF FInv, Chunk
  <2>4. up' \in [Flows -> [auth : UpAuth, injected : 0..Len(Rules), body : 0..MaxBody]]
    <3>1. CASE stream[f]
      <4>1. up' = [up EXCEPT ![f].body = @ + 1] BY <1>6, <3>1 DEF Chunk
      <4>2. [up[f] EXCEPT !.body = @ + 1] \in [auth : UpAuth, injected : 0..Len(Rules), body : 0..MaxBody]
        <5>1. up[f].body + 1 \in 0..MaxBody BY <2>3, <3>1
        <5>2. up[f] \in [auth : UpAuth, injected : 0..Len(Rules), body : 0..MaxBody] OBVIOUS
        <5>. QED BY <5>1, <5>2
      <4>. QED BY <4>1, <4>2
    <3>2. CASE ~stream[f]
      <4>1. up' = up BY <1>6, <3>2 DEF Chunk
      <4>. QED BY <4>1
    <3>. QED BY <3>1, <3>2
  <2>5. held' \in [Flows -> 0..MaxBody] /\ got' \in [Flows -> 0..MaxBody]
    BY <1>6, <2>1, <2>2 DEF Chunk
  <2>. QED BY <1>6, <2>4, <2>5 DEF Chunk
<1>7. CASE RequestHook(f)
  <2>1. auth' \in [Flows -> UpAuth \ {"nothing"}] BY <1>7 DEF RequestHook, UpAuth, Signatures, AgentAuth
  <2>2. hashed' \in [Flows -> 0..MaxBody]
    <3>1. hashed' = hashed \/ hashed' = [hashed EXCEPT ![f] = held[f]]
      BY <1>7 DEF RequestHook
    <3>. QED BY <3>1
  <2>. QED BY <1>7, <2>1, <2>2 DEF RequestHook
<1>8. CASE Forward(f)
  <2>1. [auth |-> auth[f], injected |-> injected[f], body |-> held[f]]
          \in [auth : UpAuth, injected : 0..Len(Rules), body : 0..MaxBody]
    OBVIOUS
  <2>2. up' \in [Flows -> [auth : UpAuth, injected : 0..Len(Rules), body : 0..MaxBody]]
    BY <1>8, <2>1 DEF Forward
  <2>. QED BY <1>8, <2>2 DEF Forward
<1>9. CASE ResponseHeaders(f)
  <2>1. PICK b \in Body : reply' = Put(reply, f,
          [stream |-> Streams(b), held |-> IF Streams(b) THEN 0 ELSE b.chunks])
    BY <1>9 DEF ResponseHeaders
  <2>2. b.chunks \in 0..MaxBody BY DEF Body
  <2>3. Streams(b) \in BOOLEAN BY DEF Streams
  <2>4. (IF Streams(b) THEN 0 ELSE b.chunks) \in 0..MaxBody BY <2>2
  <2>5. reply' \in [Flows -> [stream : BOOLEAN, held : 0..MaxBody]] BY <2>1, <2>3, <2>4
  <2>. QED BY <1>9, <2>5 DEF ResponseHeaders
<1>10. CASE Relay(f)
  <2>1. [auth |-> req[f].auth, injected |-> 0, body |-> req[f].body.chunks]
          \in [auth : UpAuth, injected : 0..Len(Rules), body : 0..MaxBody]
    BY <1>1 DEF UpAuth, q
  <2>2. up' \in [Flows -> [auth : UpAuth, injected : 0..Len(Rules), body : 0..MaxBody]]
    BY <1>10, <2>1 DEF Relay
  <2>. QED BY <1>10, <2>2 DEF Relay
<1>11. CASE Abort(f) BY <1>11 DEF Abort
<1>. QED BY <1>2, <1>3, <1>4, <1>5, <1>6, <1>7, <1>8, <1>9, <1>10, <1>11 DEF Proxy

LEMMA FlowStep == ASSUME MInv, NEW f \in Flows, Proxy(f) \/ Abort(f) PROVE FInv(f)'
<1>. DEFINE q == req[f]
<1>1. FInv(f) BY DEF MInv
<1>2. /\ req \in [Flows -> Request] /\ stage \in [Flows -> Stages]
      /\ auth \in [Flows -> UpAuth \ {"nothing"}] /\ injected \in [Flows -> 0..Len(Rules)]
      /\ stream \in [Flows -> BOOLEAN] /\ deferred \in [Flows -> BOOLEAN]
      /\ denied \in [Flows -> BOOLEAN] /\ held \in [Flows -> 0..MaxBody]
      /\ got \in [Flows -> 0..MaxBody] /\ hashed \in [Flows -> 0..MaxBody]
      /\ up \in [Flows -> [auth : UpAuth, injected : 0..Len(Rules), body : 0..MaxBody]]
      /\ reply \in [Flows -> [stream : BOOLEAN, held : 0..MaxBody]]
  BY DEF MInv, TypeOK
<1>3. q \in Request /\ q.body.chunks \in 0..MaxBody
      /\ (~Streams(q.body) => q.body.chunks <= Threshold) /\ q.auth \in AgentAuth
  BY <1>2, NotStreamed
<1>4. match_rule(q) # 0 => \E i \in DOMAIN Rules : ~Rules[i].l4 /\ Admits(Rules[i], q)
  BY MatchAdmits
<1>5. match_l4(q.host) => \E i \in DOMAIN Rules : Rules[i].l4 /\ q.host \in Rules[i].hosts
  BY DEF match_l4
<1>6. Threshold \in Nat /\ MaxBody \in Nat BY FlowAssumption
<1>. USE <1>1, <1>2
<1>7. CASE NextLayer(f)
  BY <1>7 DEF NextLayer, Put, FInv, Early, Late, Fresh, Ruled, Left, Signed, Small
<1>8. CASE Deny(f)
  <2>1. Fresh(f) /\ ~match_l4(q.host) BY <1>8 DEF Deny, FInv, Early
  <2>. QED BY <1>8, <2>1 DEF Deny, Put, FInv, Early, Late, Fresh, Verdict, Moving, Ruled, Left, Signed, Small
<1>9. CASE Admit(f)
  <2>1. Fresh(f) /\ ~match_l4(q.host) /\ match_rule(q) # 0
    BY <1>9 DEF Admit, FInv, Early
  <2>2. /\ UNCHANGED <<req, denied, held, got, hashed, up, reply>>
        /\ stage'[f] = "flush"
    BY <1>9 DEF Admit, Put
  <2>3. Verdict(f)'
    <3>1. CASE ~SignableAkia(q)
      <4>1. /\ injected'[f] = match_rule(q) /\ stream'[f] = Streams(q.body)
            /\ auth'[f] = IF "Authorization" \in Rules[match_rule(q)].inject THEN "rule"
                                                                           ELSE auth[f]
            /\ UNCHANGED deferred
        BY <1>9, <3>1 DEF Admit, Inject, Put
      <4>2. auth'[f] = OwnAuth(q, injected'[f]) BY <2>1, <4>1 DEF Fresh, OwnAuth
      <4>3. FirstToAdmit(injected'[f], q) BY <2>1, <4>1, MatchIn
      <4>. QED BY <2>1, <2>2, <3>1, <4>1, <4>2, <4>3 DEF Verdict, Fresh
    <3>2. CASE SignableAkia(q) /\ q.host \in S3Hosts
      BY <1>9, <2>1, <2>2, <3>2 DEF Admit, begin_sigv4, Put, Verdict, Fresh
    <3>3. CASE SignableAkia(q) /\ q.host \notin S3Hosts
      BY <1>9, <2>1, <2>2, <3>3 DEF Admit, begin_sigv4, Put, Verdict, Fresh
    <3>. QED BY <3>1, <3>2, <3>3
  <2>4. held[f] = 0 /\ got[f] = 0 /\ up[f].auth = "nothing" /\ up[f].body = 0
    BY <2>1 DEF Fresh
  <2>5. Moving(f)' BY <2>2, <2>4 DEF Moving
  <2>6. Ruled(f)' /\ Signed(f)' BY <2>2, <2>4 DEF Ruled, Signed, Left
  <2>7. Small(f)' BY <1>6, <2>2, <2>4 DEF Small, FInv
  <2>. QED BY <2>1, <2>2, <2>3, <2>5, <2>6, <2>7 DEF FInv, Early, Late
<1>10. CASE Flush(f)
  <2>1. Verdict(f) /\ Moving(f) /\ ~match_l4(q.host) /\ stage[f] = "flush"
    BY <1>10 DEF Flush, FInv, Late
  <2>2. got[f] = 0 /\ held[f] = 0 /\ up[f].auth = "nothing" /\ up[f].body <= q.body.chunks
    BY <1>3, <2>1 DEF Moving, FInv
  <2>3. /\ UNCHANGED <<req, auth, injected, stream, deferred, denied, held, got, hashed, reply>>
        /\ stage'[f] = "body"
        /\ stream[f] => ~denied[f]
    BY <1>10, <2>1 DEF Flush, Verdict, Put
  <2>4. /\ stream[f] => up'[f] = [auth |-> auth[f], injected |-> injected[f], body |-> 0]
        /\ ~stream[f] => up'[f] = up[f]
    BY <1>10, <2>3 DEF Flush, Put
  <2>5. Verdict(f)' BY <2>1, <2>3 DEF Verdict
  <2>6. Moving(f)' BY <2>1, <2>2, <2>3, <2>4 DEF Moving
  <2>7. Ruled(f)'
    <3>1. stream[f] => match_rule(q) # 0 BY <2>1, <2>3 DEF Verdict
    <3>. QED BY <1>4, <2>2, <2>3, <2>4, <3>1 DEF Ruled, Left
  <2>8. Signed(f)'
    <3>1. CASE stream[f]
      <4>1. up'[f].auth = auth[f] /\ up'[f].injected = injected[f] BY <2>4, <3>1
      <4>2. SignableAkia(q) => auth[f] = "signed_unsigned_payload" /\ injected[f] = 0
        BY <2>1, <2>3, <3>1 DEF Verdict
      <4>3. ~SignableAkia(q)
              => FirstToAdmit(injected[f], q) /\ auth[f] = OwnAuth(q, injected[f])
        BY <2>1, <2>3, <3>1 DEF Verdict
      <4>4. OwnAuth(q, injected[f]) \notin Signatures BY <1>3 DEF OwnAuth, AgentAuth, Signatures
      <4>5. auth[f] # "signed" BY <4>2, <4>3, <4>4 DEF Signatures
      <4>6. Owned(q, up'[f]) BY <2>1, <4>1, <4>2, <4>3, <4>4 DEF Owned, Signatures
      <4>. QED BY <2>3, <4>1, <4>2, <4>5, <4>6 DEF Signed, Left, Signatures
    <3>2. CASE ~stream[f] BY <2>2, <2>3, <2>4, <3>2 DEF Signed, Left
    <3>. QED BY <3>1, <3>2
  <2>9. Small(f)' BY <2>3 DEF Small, FInv
  <2>. QED BY <1>3, <2>1, <2>2, <2>3, <2>4, <2>5, <2>6, <2>7, <2>8, <2>9 DEF FInv, Early, Late
<1>11. CASE Chunk(f)
  <2>1. Verdict(f) /\ Moving(f) /\ ~match_l4(q.host) /\ stage[f] = "body" /\ got[f] < q.body.chunks
    BY <1>11 DEF Chunk, FInv, Late
  <2>2. /\ UNCHANGED <<req, stage, auth, injected, stream, deferred, denied, hashed, reply>>
        /\ got'[f] = got[f] + 1
    BY <1>11 DEF Chunk
  <2>3. /\ up'[f].auth = up[f].auth /\ up'[f].injected = up[f].injected
        /\ stream[f] => up'[f].body = up[f].body + 1 /\ held'[f] = held[f]
        /\ ~stream[f] => up'[f] = up[f] /\ held'[f] = held[f] + 1
    BY <1>11 DEF Chunk
  <2>4. Verdict(f)' BY <2>1, <2>2 DEF Verdict
  <2>5. Moving(f)' BY <2>1, <2>2, <2>3 DEF Moving
  <2>6. Ruled(f)' /\ Signed(f)'
    <3>1. Owned(q, up[f]) => Owned(q, up'[f]) BY <2>3 DEF Owned
    <3>. QED BY <2>1, <2>2, <2>3, <3>1 DEF FInv, Ruled, Signed, Left
  <2>7. /\ held[f] \in Nat /\ got[f] \in Nat /\ up[f].body \in Nat /\ held[f] <= got[f]
        /\ q.body.chunks \in Nat /\ (stream[f] => up[f].body = got[f] /\ held[f] = 0)
        /\ (~stream[f] => held[f] = got[f]) /\ up[f].body <= q.body.chunks
    BY <1>3, <1>6, <2>1 DEF FInv, Moving
  <2>8. held'[f] <= got'[f] /\ got'[f] <= q.body.chunks /\ up'[f].body <= q.body.chunks
        /\ (stream[f] => up'[f].body = got'[f])
    BY <2>1, <2>2, <2>3, <2>7
  <2>9. Small(f)'
    <3>1. held'[f] > Threshold => deferred[f] \/ denied[f]
      <4>1. CASE stream[f] BY <1>6, <2>3, <2>7, <4>1
      <4>2. CASE ~Streams(q.body)
        <5>1. held'[f] \in Nat BY <2>3, <2>7
        <5>. QED BY <1>3, <1>6, <2>2, <2>7, <2>8, <5>1, <4>2
      <4>3. CASE ~stream[f] /\ Streams(q.body)
        BY <2>1, <4>3 DEF Verdict
      <4>. QED BY <4>1, <4>2, <4>3
    <3>. QED BY <2>2, <3>1 DEF Small, FInv
  <2>. QED BY <2>1, <2>2, <2>4, <2>5, <2>6, <2>8, <2>9 DEF FInv, Early, Late
<1>12. CASE RequestHook(f)
  <2>1. Verdict(f) /\ Moving(f) /\ ~match_l4(q.host) /\ stage[f] = "body" /\ got[f] = q.body.chunks
    BY <1>12 DEF RequestHook, FInv, Late
  <2>2. /\ UNCHANGED <<req, injected, stream, deferred, denied, held, got, up, reply>>
        /\ stage'[f] = "complete"
        /\ deferred[f] => auth'[f] = "signed" /\ hashed'[f] = held[f]
        /\ ~deferred[f] => auth'[f] = auth[f] /\ hashed'[f] = hashed[f]
    BY <1>12 DEF RequestHook, Put
  <2>3. Verdict(f)' BY <2>1, <2>2 DEF Verdict
  <2>4. Moving(f)' BY <2>1, <2>2 DEF Moving
  <2>5. up[f].auth # "signed" BY <2>1 DEF FInv, Signed
  <2>6. Ruled(f)' /\ Signed(f)' BY <2>2, <2>5 DEF FInv, Ruled, Signed, Left
  <2>7. Small(f)' BY <2>2 DEF Small, FInv
  <2>. QED BY <2>1, <2>2, <2>3, <2>4, <2>6, <2>7 DEF FInv, Early, Late
<1>13. CASE Forward(f)
  <2>1. Verdict(f) /\ Moving(f) /\ ~match_l4(q.host) /\ stage[f] = "complete"
    BY <1>13 DEF Forward, FInv, Late
  <2>2. /\ UNCHANGED <<req, auth, injected, stream, deferred, denied, held, got, hashed, reply>>
        /\ stage'[f] = IF denied[f] THEN "done" ELSE "sent"
    BY <1>13 DEF Forward, Put
  <2>3. /\ ~denied[f] /\ ~stream[f]
             => up'[f] = [auth |-> auth[f], injected |-> injected[f], body |-> held[f]]
        /\ denied[f] \/ stream[f] => up'[f] = up[f]
    BY <1>13 DEF Forward, Put
  <2>4. got[f] = q.body.chunks /\ (~stream[f] => held[f] = got[f])
        /\ (deferred[f] => hashed[f] = held[f]) /\ up[f].auth # "signed"
    BY <2>1 DEF FInv, Moving, Signed
  <2>5. Verdict(f)' BY <2>1, <2>2 DEF Verdict
  <2>6. Moving(f)' \/ stage'[f] = "done" BY <2>1, <2>2, <2>3 DEF Moving
  <2>7. Ruled(f)'
    <3>1. ~denied[f] => match_rule(q) # 0 BY <2>1 DEF Verdict
    <3>. QED BY <1>4, <2>2, <2>3, <3>1 DEF FInv, Ruled, Left
  <2>8. Signed(f)'
    <3>1. CASE ~denied[f] /\ ~stream[f]
      <4>1. up'[f].auth = auth[f] /\ up'[f].injected = injected[f] /\ up'[f].body = held[f]
        BY <2>3, <3>1
      <4>2. OwnAuth(q, injected[f]) \notin Signatures BY <1>3 DEF OwnAuth, AgentAuth, Signatures
      <4>3. SignableAkia(q) => auth[f] \in Signatures /\ injected[f] = 0
        BY <2>1, <3>1 DEF Verdict, Signatures
      <4>4. ~SignableAkia(q)
              => FirstToAdmit(injected[f], q) /\ auth[f] = OwnAuth(q, injected[f])
        BY <2>1, <3>1 DEF Verdict
      <4>5. auth[f] = "signed" => deferred[f]
        BY <2>1, <3>1, <4>2, <4>4 DEF Verdict, Signatures
      <4>6. Owned(q, up'[f]) BY <2>1, <4>1, <4>2, <4>3, <4>4 DEF Owned
      <4>. QED BY <2>2, <2>4, <3>1, <4>1, <4>3, <4>5, <4>6 DEF Signed, Left
    <3>2. CASE denied[f] \/ stream[f]
      BY <2>2, <2>3, <2>4, <3>2 DEF FInv, Signed, Left
    <3>. QED BY <3>1, <3>2
  <2>9. Small(f)' BY <2>2 DEF Small, FInv
  <2>10. up'[f].body <= q.body.chunks
    <3>1. CASE ~denied[f] /\ ~stream[f] BY <1>3, <1>6, <2>3, <2>4, <3>1 DEF FInv
    <3>2. CASE denied[f] \/ stream[f] BY <2>3, <3>2 DEF FInv
    <3>. QED BY <3>1, <3>2
  <2>. QED BY <2>1, <2>2, <2>5, <2>6, <2>7, <2>8, <2>9, <2>10 DEF FInv, Early, Late
<1>14. CASE ResponseHeaders(f)
  <2>1. PICK b \in Body : reply' = Put(reply, f,
          [stream |-> Streams(b), held |-> IF Streams(b) THEN 0 ELSE b.chunks])
    BY <1>14 DEF ResponseHeaders
  <2>2. ~Streams(b) => b.chunks <= Threshold
    BY <1>6 DEF Body, Streams, Unknown
  <2>3. reply'[f].held <= Threshold BY <1>6, <2>1, <2>2 DEF Put
  <2>4. /\ UNCHANGED <<req, auth, injected, stream, deferred, denied, held, got, hashed, up>>
        /\ stage'[f] = "done" /\ stage[f] = "sent"
    BY <1>14 DEF ResponseHeaders, Put
  <2>5. Ruled(f)' /\ Signed(f)' BY <2>4 DEF FInv, Ruled, Signed, Left
  <2>6. Small(f)' BY <2>3, <2>4 DEF FInv, Small
  <2>. QED BY <2>4, <2>5, <2>6 DEF FInv, Early, Late
<1>15. CASE Relay(f)
  <2>1. match_l4(q.host) BY <1>15 DEF Relay, FInv
  <2>2. /\ UNCHANGED <<req, auth, injected, stream, deferred, denied, held, got, hashed, reply>>
        /\ stage'[f] = "done"
        /\ up'[f] = [auth |-> q.auth, injected |-> 0, body |-> q.body.chunks]
    BY <1>15 DEF Relay, Put
  <2>3. Ruled(f)' BY <1>5, <2>1, <2>2 DEF Ruled
  <2>4. q.auth \notin Signatures /\ q.auth # "signed" BY <1>3 DEF AgentAuth, Signatures
  <2>5. Owned(q, up'[f]) BY <2>2, <2>4 DEF Owned, OwnAuth
  <2>6. Signed(f)' BY <2>1, <2>2, <2>4, <2>5 DEF Signed, Left
  <2>7. Small(f)' BY <2>2 DEF FInv, Small
  <2>. QED BY <1>3, <2>2, <2>3, <2>6, <2>7 DEF FInv, Early, Late
<1>16. CASE Abort(f)
  <2>1. /\ UNCHANGED <<req, auth, injected, stream, deferred, denied, held, got, hashed, up, reply>>
        /\ stage'[f] = "done"
    BY <1>16 DEF Abort, Put
  <2>2. Ruled(f)' /\ Signed(f)' /\ Small(f)' BY <2>1 DEF FInv, Ruled, Signed, Left, Small
  <2>. QED BY <2>1, <2>2 DEF FInv, Early, Late
<1>. QED BY <1>7, <1>8, <1>9, <1>10, <1>11, <1>12, <1>13, <1>14, <1>15, <1>16 DEF Proxy

LEMMA Inductive == Spec => []MInv
<1>1. ASSUME MInv, [Next]_vars PROVE MInv'
  <2>1. ASSUME NEW f \in Flows, Proxy(f) \/ Abort(f) PROVE MInv'
    <3>1. TypeOK' BY <1>1, <2>1, TypeStep
    <3>2. FInv(f)' BY <1>1, <2>1, FlowStep
    <3>3. ASSUME NEW g \in Flows, g # f PROVE FInv(g)'
      <4>1. Same(g) BY <1>1, <2>1, <3>3, OthersSame
      <4>. QED BY <1>1, <4>1, SameKeeps DEF MInv
    <3>. QED BY <3>1, <3>2, <3>3 DEF MInv
  <2>2. CASE UNCHANGED vars
    <3>1. \A f \in Flows : Same(f) BY <2>2 DEF vars, Same
    <3>2. TypeOK' BY <1>1, <2>2 DEF vars, MInv, TypeOK
    <3>. QED BY <1>1, <3>1, <3>2, SameKeeps DEF MInv
  <2>. QED BY <1>1, <2>1, <2>2 DEF Next
<1>. QED BY MInit, <1>1, PTL DEF Spec

(* Every variable keeps its type.                                          *)
THEOREM TypeCorrect == Spec => []TypeOK
BY Inductive, PTL DEF MInv

(* Whatever the rules and their order, nothing of a request leaves that no *)
(* rule admits (requestheaders, next_layer).                               *)
THEOREM UnruledStays == Spec => []NothingLeavesUnruled
<1>1. MInv => NothingLeavesUnruled BY DEF MInv, FInv, Ruled, NothingLeavesUnruled
<1>. QED BY Inductive, <1>1, PTL

(* No request of a terminated connection signed with a known dummy key     *)
(* leaves without its new signature, streamed or not (_begin_sigv4,        *)
(* request).                                                               *)
THEOREM KnownKeysAreResigned == Spec => []KnownKeysResigned
<1>1. MInv => KnownKeysResigned BY DEF MInv, FInv, Signed, KnownKeysResigned
<1>. QED BY Inductive, <1>1, PTL

(* The real credentials sign nothing but what goes to AWS under a dummy    *)
(* key of theirs (_signable_akia), a rule's headers go only with what it   *)
(* is the first to admit and replace the agent's, and all else leaves with *)
(* the agent's own header (requestheaders, next_layer).                    *)
THEOREM RealKeysAreKept == Spec => []RealKeysStayHome
<1>1. MInv => RealKeysStayHome BY DEF MInv, FInv, Signed, RealKeysStayHome
<1>. QED BY Inductive, <1>1, PTL

(* A deferred signature's payload hash is of the body that is sent, for    *)
(* every size and any Content-Length (request).                            *)
THEOREM HashIsOfBody == Spec => []HashCoversBody
<1>1. MInv => HashCoversBody BY DEF MInv, FInv, Signed, HashCoversBody
<1>. QED BY Inductive, <1>1, PTL

(* No flow holds more than _STREAM_THRESHOLD but one that is refused or    *)
(* waits for its signature (_apply_streaming).                                *)
THEOREM MemoryIsBounded == Spec => []MemoryBounded
<1>1. MInv => MemoryBounded BY DEF MInv, FInv, Small, MemoryBounded
<1>. QED BY Inductive, <1>1, PTL
=============================================================================
