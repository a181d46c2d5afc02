------------------------------ MODULE MitmFlow ------------------------------
(***************************************************************************)
(* The mitmproxy addon (mitm_addon/filter.py) as mitmproxy drives it: the  *)
(* hooks of one proxied request in the order they run, what each leaves in *)
(* the flow, and what has left for the upstream server in the meantime.    *)
(* Flows share nothing but the rules and the credentials, which are read   *)
(* once, so each runs by itself.                                           *)
(*                                                                         *)
(* A header that has left cannot be changed any more: with stream set,     *)
(* mitmproxy sends the headers as soon as requestheaders returns, without  *)
(* it, after the whole body is held and the request hook has run.          *)
(***************************************************************************)
EXTENDS Naturals, Sequences

CONSTANTS
    Flows,
    Hosts, AwsHosts, S3Hosts,  \* targets; those under amazonaws.com; S3's
    Methods, Paths,
    Rules,        \* the resolved rules in layer order
    Requests,     \* the requests the agent may send, see Request
    Threshold,    \* _STREAM_THRESHOLD, in body chunks
    MaxBody       \* bound: chunks of a body

(* Authorization as the agent sent it: a signature made with a dummy AKIA  *)
(* the addon holds real credentials for, or with another one; something    *)
(* else; nothing.                                                          *)
AgentAuth == {"held", "unheld", "bearer", "none"}
Unknown == MaxBody + 1   \* no Content-Length, or one that is no number

Rule == [hosts : SUBSET Hosts, methods : SUBSET Methods, paths : SUBSET Paths,
         inject : SUBSET {"Authorization", "other"}, l4 : BOOLEAN]
Body == {b \in [declared : 0..Unknown, chunks : 0..MaxBody] :
            b.declared \in {b.chunks, Unknown}}
Request == [host : Hosts, method : Methods, path : Paths, auth : AgentAuth,
            body : Body]

ASSUME FlowAssumption ==
    /\ S3Hosts \subseteq AwsHosts /\ AwsHosts \subseteq Hosts
    /\ Rules \in Seq(Rule)
    /\ Threshold \in Nat /\ MaxBody \in Nat
    /\ Requests \subseteq Request

VARIABLES
    req,      \* each flow's request, as the agent sent it
    stage,    \* where mitmproxy is with it
    auth,     \* the Authorization header it now carries
    injected, \* the rule whose inject.headers have been set, 0 for none
    stream,   \* flow.request.stream
    deferred, \* flow.metadata["aws_sign"]
    denied,   \* flow.response is the addon's 403
    held,     \* body chunks held in memory
    got,      \* body chunks received
    hashed,   \* chunks covered by the signed payload hash
    up,       \* what has left: the Authorization value, and body chunks
    reply     \* what holds of the response: stream flag, chunks held

vars == <<req, stage, auth, injected, stream, deferred, denied, held, got,
          hashed, up, reply>>

Stages == {"connect", "raw", "headers", "flush", "body", "complete", "sent",
           "done", "broken"}
Signatures == {"signed", "signed_unsigned_payload"}
UpAuth == AgentAuth \cup Signatures \cup {"stripped", "rule", "nothing"}

Init ==
    /\ req \in [Flows -> Requests]
    /\ stage = [f \in Flows |-> "connect"]
    /\ auth = [f \in Flows |-> req[f].auth]
    /\ injected = [f \in Flows |-> 0]
    /\ stream = [f \in Flows |-> FALSE]
    /\ deferred = [f \in Flows |-> FALSE]
    /\ denied = [f \in Flows |-> FALSE]
    /\ held = [f \in Flows |-> 0]
    /\ got = [f \in Flows |-> 0]
    /\ hashed = [f \in Flows |-> 0]
    /\ up = [f \in Flows |-> [auth |-> "nothing", injected |-> 0, body |-> 0]]
    /\ reply = [f \in Flows |-> [stream |-> FALSE, held |-> 0]]

Put(v, f, x) == [v EXCEPT ![f] = x]

-----------------------------------------------------------------------------
(* Rule matching.                                                          *)

Admits(r, q) ==
    /\ q.host \in r.hosts
    /\ r.methods # {} => q.method \in r.methods
    /\ r.paths # {} => q.path \in r.paths

Least(S) == CHOOSE i \in S : \A j \in S : i <= j

(* The index of the first rule that admits the request; 0 for none.        *)
match_rule(q) ==
    LET hits == {i \in DOMAIN Rules : ~Rules[i].l4 /\ Admits(Rules[i], q)}
    IN  IF hits = {} THEN 0 ELSE Least(hits)

(* Mutant: any rule's host opens a tunnel.                                 *)
Mut_match_l4(h) == \E i \in DOMAIN Rules : h \in Rules[i].hosts

(* The CONNECT target is a tunnel's if an l4_forward rule names it.        *)
match_l4(h) == \E i \in DOMAIN Rules : Rules[i].l4 /\ h \in Rules[i].hosts

-----------------------------------------------------------------------------
(* The addon's hooks.                                                      *)

(* next_layer, before TLS is terminated.                                   *)
NextLayer(f) ==
    /\ stage[f] = "connect"
    /\ stage' = Put(stage, f, IF match_l4(req[f].host) THEN "raw" ELSE "headers")
    /\ UNCHANGED <<req, auth, injected, stream, deferred, denied, held, got,
                   hashed, up, reply>>

(* Mutant: a body of unknown size is taken for a small one.                *)
Mut_Streams_KnownOnly(b) == b.declared # Unknown /\ b.declared > Threshold

Streams(b) == b.declared = Unknown \/ b.declared > Threshold

SignableAkia(q) == q.host \in AwsHosts /\ q.auth = "held"

(* Mutant: the streaming choice comes before the verdict.                  *)
Mut_Deny(f) ==
    /\ stage[f] = "headers"
    /\ match_rule(req[f]) = 0
    /\ denied' = Put(denied, f, TRUE)
    /\ stream' = Put(stream, f, Streams(req[f].body))
    /\ stage' = Put(stage, f, "flush")
    /\ UNCHANGED <<req, auth, injected, deferred, held, got, hashed, up, reply>>

(* requestheaders on a request that no rule admits: answer 403, and leave  *)
(* stream unset, which mitmproxy does not accept beside a response.        *)
Deny(f) ==
    /\ stage[f] = "headers"
    /\ match_rule(req[f]) = 0
    /\ denied' = Put(denied, f, TRUE)
    /\ stage' = Put(stage, f, "flush")
    /\ UNCHANGED <<req, auth, injected, stream, deferred, held, got, hashed, up,
                   reply>>

(* Mutant: the streaming choice survives for the deferred flow.            *)
Mut_begin_sigv4(f) ==
    /\ stream' = Put(stream, f, Streams(req[f].body))
    /\ IF req[f].host \in S3Hosts
       THEN auth' = Put(auth, f, "signed_unsigned_payload") /\ UNCHANGED deferred
       ELSE auth' = Put(auth, f, "stripped") /\ deferred' = Put(deferred, f, TRUE)
    /\ UNCHANGED injected

(* _begin_sigv4 strips the dummy signature; for S3 it signs at once, with  *)
(* an unsigned payload, for any other service it stops the streaming and   *)
(* leaves the signature to the request hook.                               *)
begin_sigv4(f) ==
    /\ IF req[f].host \in S3Hosts
       THEN /\ auth' = Put(auth, f, "signed_unsigned_payload")
            /\ stream' = Put(stream, f, Streams(req[f].body))
            /\ UNCHANGED deferred
       ELSE /\ auth' = Put(auth, f, "stripped")
            /\ stream' = Put(stream, f, FALSE)
            /\ deferred' = Put(deferred, f, TRUE)
    /\ UNCHANGED injected

(* Mutant: every admitted request is signed with the real credentials.     *)
Mut_Admit(f) ==
    /\ stage[f] = "headers"
    /\ match_rule(req[f]) # 0
    /\ stage' = Put(stage, f, "flush")
    /\ begin_sigv4(f)
    /\ UNCHANGED <<req, denied, held, got, hashed, up, reply>>

(* inject.headers overwrite those of the request, Authorization included.  *)
Inject(f, i) ==
    /\ injected' = Put(injected, f, i)
    /\ auth' = IF "Authorization" \in Rules[i].inject THEN Put(auth, f, "rule")
                                                     ELSE auth

(* requestheaders on an admitted request: decide the streaming, then either*)
(* re-sign or set the rule's headers, never both.                          *)
Admit(f) ==
    /\ stage[f] = "headers"
    /\ match_rule(req[f]) # 0
    /\ stage' = Put(stage, f, "flush")
    /\ IF SignableAkia(req[f])
       THEN begin_sigv4(f)
       ELSE /\ stream' = Put(stream, f, Streams(req[f].body))
            /\ Inject(f, match_rule(req[f]))
            /\ UNCHANGED deferred
    /\ UNCHANGED <<req, denied, held, got, hashed, up, reply>>

(* Mutant: the hash is of a body as long as the Content-Length says.       *)
Mut_RequestHook(f) ==
    /\ stage[f] = "body"
    /\ got[f] = req[f].body.chunks
    /\ stage' = Put(stage, f, "complete")
    /\ IF deferred[f]
       THEN /\ auth' = Put(auth, f, "signed")
            /\ hashed' = Put(hashed, f, req[f].body.declared)
       ELSE UNCHANGED <<auth, hashed>>
    /\ UNCHANGED <<req, injected, stream, deferred, denied, held, got, up, reply>>

(* request: sign the body held, on the flows that were deferred.           *)
RequestHook(f) ==
    /\ stage[f] = "body"
    /\ got[f] = req[f].body.chunks
    /\ stage' = Put(stage, f, "complete")
    /\ IF deferred[f]
       THEN auth' = Put(auth, f, "signed") /\ hashed' = Put(hashed, f, held[f])
       ELSE UNCHANGED <<auth, hashed>>
    /\ UNCHANGED <<req, injected, stream, deferred, denied, held, got, up, reply>>

(* responseheaders: large downloads stream, others are held.               *)
ResponseHeaders(f) ==
    /\ stage[f] = "sent"
    /\ stage' = Put(stage, f, "done")
    /\ \E b \in Body : reply' = Put(reply, f,
          [stream |-> Streams(b), held |-> IF Streams(b) THEN 0 ELSE b.chunks])
    /\ UNCHANGED <<req, auth, injected, stream, deferred, denied, held, got,
                   hashed, up>>

-----------------------------------------------------------------------------
(* mitmproxy around the hooks.                                             *)

(* After requestheaders.  A response together with stream is an error of   *)
(* the proxy; stream alone sends the headers off.                          *)
Flush(f) ==
    /\ stage[f] = "flush"
    /\ stage' = Put(stage, f, IF denied[f] /\ stream[f] THEN "broken" ELSE "body")
    /\ up' = IF stream[f] /\ ~denied[f]
             THEN Put(up, f, [auth |-> auth[f], injected |-> injected[f], body |-> 0])
             ELSE up
    /\ UNCHANGED <<req, auth, injected, stream, deferred, denied, held, got,
                   hashed, reply>>

(* A chunk of the body passes through or is held.                          *)
Chunk(f) ==
    /\ stage[f] = "body"
    /\ got[f] < req[f].body.chunks
    /\ got' = [got EXCEPT ![f] = @ + 1]
    /\ IF stream[f]
       THEN up' = [up EXCEPT ![f].body = @ + 1] /\ UNCHANGED held
       ELSE held' = [held EXCEPT ![f] = @ + 1] /\ UNCHANGED up
    /\ UNCHANGED <<req, stage, auth, injected, stream, deferred, denied, hashed,
                   reply>>

(* After the request hook: the agent gets the addon's 403, or what was     *)
(* held goes upstream.                                                     *)
Forward(f) ==
    /\ stage[f] = "complete"
    /\ stage' = Put(stage, f, IF denied[f] THEN "done" ELSE "sent")
    /\ up' = IF denied[f] \/ stream[f]
             THEN up
             ELSE Put(up, f, [auth |-> auth[f], injected |-> injected[f],
                              body |-> held[f]])
    /\ UNCHANGED <<req, auth, injected, stream, deferred, denied, held, got,
                   hashed, reply>>

(* A tunnel relays what the agent sends, end to end.                       *)
Relay(f) ==
    /\ stage[f] = "raw"
    /\ stage' = Put(stage, f, "done")
    /\ up' = Put(up, f, [auth |-> req[f].auth, injected |-> 0,
                         body |-> req[f].body.chunks])
    /\ UNCHANGED <<req, auth, injected, stream, deferred, denied, held, got,
                   hashed, reply>>

(* The agent or the server hangs up.                                       *)
Abort(f) ==
    /\ stage[f] \in {"raw", "body", "sent"}
    /\ stage' = Put(stage, f, "done")
    /\ UNCHANGED <<req, auth, injected, stream, deferred, denied, held, got,
                   hashed, up, reply>>

Proxy(f) ==
    \/ NextLayer(f) \/ Deny(f) \/ Admit(f) \/ Flush(f) \/ Chunk(f)
    \/ RequestHook(f) \/ Forward(f) \/ ResponseHeaders(f) \/ Relay(f)

Next == \E f \in Flows : Proxy(f) \/ Abort(f)

Spec == Init /\ [][Next]_vars

(* The peers go on sending; nobody has to hang up.                         *)
FairSpec == Spec /\ \A f \in Flows : WF_vars(Proxy(f))

-----------------------------------------------------------------------------
(* Properties.                                                             *)

(* Every variable keeps its type.                                         *)
TypeOK ==
    /\ req \in [Flows -> Request]
    /\ stage \in [Flows -> Stages]
    /\ auth \in [Flows -> UpAuth \ {"nothing"}]
    /\ injected \in [Flows -> 0..Len(Rules)]
    /\ stream \in [Flows -> BOOLEAN]
    /\ deferred \in [Flows -> BOOLEAN]
    /\ denied \in [Flows -> BOOLEAN]
    /\ held \in [Flows -> 0..MaxBody]
    /\ got \in [Flows -> 0..MaxBody]
    /\ hashed \in [Flows -> 0..MaxBody]
    /\ up \in [Flows -> [auth : UpAuth, injected : 0..Len(Rules), body : 0..MaxBody]]
    /\ reply \in [Flows -> [stream : BOOLEAN, held : 0..MaxBody]]

Left(f) == up[f].auth # "nothing"

(* Nothing of a request leaves unless an HTTP rule admits its host, method *)
(* and path, or a tunnel rule names its target.                            *)
NothingLeavesUnruled ==
    \A f \in Flows : Left(f) => \E i \in DOMAIN Rules :
       IF Rules[i].l4 THEN req[f].host \in Rules[i].hosts
                      ELSE Admits(Rules[i], req[f])

(* A request signed with a dummy key the addon knows never leaves a        *)
(* terminated connection with that signature, with none, or with the       *)
(* rule's headers set over the new one: the deferred signature is in place *)
(* before the headers go.                                                  *)
KnownKeysResigned ==
    \A f \in Flows :
       Left(f) /\ SignableAkia(req[f]) /\ ~match_l4(req[f].host)
       => up[f].auth \in Signatures /\ up[f].injected = 0

FirstToAdmit(i, q) ==
    /\ ~Rules[i].l4 /\ Admits(Rules[i], q)
    /\ \A j \in DOMAIN Rules : j < i => Rules[j].l4 \/ ~Admits(Rules[j], q)

(* The Authorization header of a request that is not signed anew, when     *)
(* rule i (0 for none) has set its headers.                                *)
OwnAuth(q, i) ==
    IF i # 0 /\ "Authorization" \in Rules[i].inject THEN "rule" ELSE q.auth

(* Whose credentials may leave with a request.                             *)
Owned(q, u) ==
    /\ u.auth \in Signatures => SignableAkia(q) /\ ~match_l4(q.host)
    /\ u.injected # 0 => FirstToAdmit(u.injected, q) /\ ~match_l4(q.host)
    /\ u.auth \in Signatures \cup {OwnAuth(q, u.injected)}

(* The real AWS credentials sign only what goes to AWS, on a terminated    *)
(* connection, under a dummy key they belong to; a rule's headers go only  *)
(* with the request of such a connection that it is the first rule to      *)
(* admit, and then its Authorization replaces the agent's                  *)
(* (filter.py:479-480, docs/rules.md:53-54).  Whatever else leaves, a      *)
(* tunnel's traffic above all, carries the agent's own header untouched.   *)
RealKeysStayHome == \A f \in Flows : Left(f) => Owned(req[f], up[f])

(* The payload hash of a deferred signature covers exactly the body that   *)
(* is sent.                                                                *)
HashCoversBody ==
    \A f \in Flows :
       up[f].auth = "signed" =>
          up[f].body = req[f].body.chunks /\ hashed[f] = up[f].body

(* Only a flow that waits for its signature, or is refused, holds more     *)
(* than the threshold in memory; responses never do.                       *)
MemoryBounded ==
    \A f \in Flows :
       /\ held[f] > Threshold => deferred[f] \/ denied[f]
       /\ reply[f].held <= Threshold

(* Whatever the size of its body, a flow that reached requestheaders is    *)
(* answered, by the server or with the addon's 403: headers held back for  *)
(* a signature are released, and a refusal does not break the proxy.       *)
FlowsEnd == \A f \in Flows : stage[f] = "headers" ~> stage[f] = "done"

(* docs/aws-resigning.md:26: "bodies over 1MB or of unknown length stream, *)
(* everything else buffers, and a flow awaiting SigV4 always buffers".     *)
LargeBodiesStream ==
    \A f \in Flows : held[f] > Threshold => deferred[f]
=============================================================================
