------------------------------ MODULE Gateway -------------------------------
(***************************************************************************)
(* The gateway's event endpoint (backend/: routers, dependencies, services *)
(* and clients of events) in front of the nodes. A request reads the body, *)
(* then calls the configured nodes in order until one answers; a call may  *)
(* be lost, or outlive its deadline and be handled by the node afterwards. *)
(* Of the nodes only what EventLog promises is used: EventNode implements  *)
(* it.                                                                     *)
(***************************************************************************)
EXTENDS EventLog, Naturals, Sequences, FiniteSets

CONSTANTS
    Request,      \* the HTTP requests; a client's retry is another request
    Stubs,        \* config.node_addrs: the nodes to call, primary first
    SizeOf,       \* the length of an envelope in bytes
    Json          \* the envelopes that are JSON texts

ASSUME GatewayAssumption ==
    /\ Stubs \in Seq(Node)
    /\ SizeOf \in [Envelope -> Nat]
    /\ Json \subseteq Envelope

VARIABLES
    pc,           \* pc[r]: where the handler of request r stands
    env,          \* env[r]: the body of the request
    at,           \* at[r]: which of Stubs is being called
    reply,        \* reply[r]: the HTTP status and body sent back
    rpcs          \* gRPC calls the nodes may still act upon

gatewayVars == <<pc, env, at, reply, rpcs>>
vars == <<logVars, gatewayVars>>

MAX_ENVELOPE == 16384              \* dependencies/events.py
MaxMessage == 16384 + 8            \* server.go

\* A protobuf message with one bytes field: a tag, a varint length, the bytes.
VarintLength(n) == CASE n < 128 -> 1 [] n \in 128..16383 -> 2 [] OTHER -> 3
MessageSize(e) == 1 + VarintLength(SizeOf[e]) + SizeOf[e]

NoReply == [status |-> 0, body |-> "none"]
Http(status, body) == [status |-> status, body |-> body]

Rpc == [request : Request, at : 1..Len(Stubs),
        stage : {"sent"} \cup Outcome]

\* Mutant: the outcome of a call given up counts for the one that followed.
AwaitedEver(c) == pc[c.request] \in {"calling", "awaiting"}

\* Mutant: the answer of an earlier node counts for the one asked now.
AwaitedAnyNode(c) == pc[c.request] = "awaiting"

\* Only the newest call of a request, while it is waited for.
Awaited(c) == pc[c.request] = "awaiting" /\ at[c.request] = c.at

Init ==
    /\ LogInit
    /\ pc = [r \in Request |-> "idle"]
    /\ env = [r \in Request |-> NoEnvelope]
    /\ at = [r \in Request |-> 0]
    /\ reply = [r \in Request |-> NoReply]
    /\ rpcs = {}

Respond(r, answer) ==
    /\ pc' = [pc EXCEPT ![r] = "answered"]
    /\ reply' = [reply EXCEPT ![r] = answer]

-----------------------------------------------------------------------------
(* The gateway's own steps.                                                *)

Post(r, e) ==
    /\ pc[r] = "idle"
    /\ pc' = [pc EXCEPT ![r] = "reading"]
    /\ env' = [env EXCEPT ![r] = e]
    /\ UNCHANGED <<logVars, at, reply, rpcs>>

\* Mutant: the ceiling is the node's message limit.
ReadToNodeLimit(r) ==
    /\ pc[r] = "reading"
    /\ IF SizeOf[env[r]] <= MaxMessage /\ env[r] \in Json
       THEN /\ pc' = [pc EXCEPT ![r] = "calling"]
            /\ at' = [at EXCEPT ![r] = 1]
            /\ UNCHANGED reply
       ELSE /\ Respond(r, Http(400, "invalid_request_error"))
            /\ UNCHANGED at
    /\ UNCHANGED <<logVars, env, rpcs>>

(* read_envelope: size first, then syntax; InvalidRequestError either way. *)
ReadEnvelope(r) ==
    /\ pc[r] = "reading"
    /\ IF SizeOf[env[r]] <= MAX_ENVELOPE /\ env[r] \in Json
       THEN /\ pc' = [pc EXCEPT ![r] = "calling"]
            /\ at' = [at EXCEPT ![r] = 1]
            /\ UNCHANGED reply
       ELSE /\ Respond(r, Http(400, "invalid_request_error"))
            /\ UNCHANGED at
    /\ UNCHANGED <<logVars, env, rpcs>>

(* NodeClient.publish's loop: call the next node, or give up after the     *)
(* last.                                                                   *)
CallNode(r) ==
    /\ pc[r] = "calling"
    /\ at[r] <= Len(Stubs)
    /\ pc' = [pc EXCEPT ![r] = "awaiting"]
    /\ rpcs' = rpcs \cup {[request |-> r, at |-> at[r], stage |-> "sent"]}
    /\ Submit(env[r])
    /\ UNCHANGED <<env, at, reply>>

NoNodeLeft(r) ==
    /\ pc[r] = "calling"
    /\ at[r] > Len(Stubs)
    /\ Respond(r, Http(503, "node_unavailable_error"))
    /\ UNCHANGED <<logVars, env, at, rpcs>>

\* Mutant: the loop starts the same call again, without limit.
NextNodeSame(r) ==
    /\ pc' = [pc EXCEPT ![r] = "calling"]
    /\ UNCHANGED <<env, at, reply>>

\* A retryable failure of the awaited call: the loop goes on.
NextNode(r) ==
    /\ pc' = [pc EXCEPT ![r] = "calling"]
    /\ at' = [at EXCEPT ![r] = @ + 1]
    /\ UNCHANGED <<env, reply>>

\* UNAVAILABLE: the connection is lost, before or after the node stored.
Unavailable(c) ==
    /\ rpcs' = rpcs \ {c}
    /\ IF Awaited(c) THEN NextNode(c.request) ELSE UNCHANGED <<pc, env, at, reply>>
    /\ UNCHANGED logVars

\* DEADLINE_EXCEEDED: the node may go on handling the call.
DeadlineExceeded(c) ==
    /\ Awaited(c)
    /\ NextNode(c.request)
    /\ UNCHANGED <<logVars, rpcs>>

\* Any other status code, RESOURCE_EXHAUSTED for a message over the node's
\* limit included, is raised and answered by the catch-all handler.
CallFails(c) ==
    /\ Awaited(c)
    /\ rpcs' = rpcs \ {c}
    /\ Respond(c.request, Http(500, "internal_error"))
    /\ UNCHANGED <<logVars, env, at>>

\* Mutant: a rejection is reported with the status of a success.
ReplyOk(o) ==
    CASE o = "ACCEPTED" -> Http(200, "accepted")
      [] o = "ALREADY_EXISTS" -> Http(200, "already_exists")
      [] OTHER -> Http(200, "rejected")

(* EventService.publish and STATUS_BY_OUTCOME: an outcome outside the      *)
(* contract counts as no answer.                                           *)
ReplyTo(o) ==
    CASE o = "ACCEPTED" -> Http(200, "accepted")
      [] o = "ALREADY_EXISTS" -> Http(200, "already_exists")
      [] o = "ORPHAN" -> Http(202, "orphan")
      [] o = "REJECTED" -> Http(400, "rejected")
      [] OTHER -> Http(503, "node_unavailable_error")

\* The answer arrives; one nobody awaits any more is dropped.
Receive(c) ==
    /\ c.stage # "sent"
    /\ rpcs' = rpcs \ {c}
    /\ IF Awaited(c)
       THEN Respond(c.request, ReplyTo(c.stage))
       ELSE UNCHANGED <<pc, reply>>
    /\ UNCHANGED <<logVars, env, at>>

-----------------------------------------------------------------------------
(* The nodes' steps: what EventLog allows, and the gRPC server's limit.    *)

NodeAnswers(c, o) ==
    /\ c.stage = "sent"
    /\ MessageSize(env[c.request]) <= MaxMessage
    /\ Reply(Stubs[c.at], env[c.request], o)
    /\ rpcs' = (rpcs \ {c}) \cup {[c EXCEPT !.stage = o]}
    /\ UNCHANGED <<pc, env, at, reply>>

\* A node stores a submitted event: from a call, even a late one, or gossip.
NodeStores(n, e) ==
    /\ Adopt(n, e)
    /\ UNCHANGED gatewayVars

-----------------------------------------------------------------------------
RequestStep(r) ==
    \/ \E e \in Envelope : Post(r, e)
    \/ ReadEnvelope(r)
    \/ CallNode(r)
    \/ NoNodeLeft(r)

RpcStep(c) ==
    \/ Unavailable(c)
    \/ DeadlineExceeded(c)
    \/ CallFails(c)
    \/ Receive(c)
    \/ \E o \in Outcome : NodeAnswers(c, o)

Next ==
    \/ \E r \in Request : RequestStep(r)
    \/ \E c \in rpcs : RpcStep(c)
    \/ \E n \in Node, e \in Envelope : NodeStores(n, e)

Spec == Init /\ [][Next]_vars

(* The handler is scheduled and every call has CALL_TIMEOUT; no node has   *)
(* to do anything.                                                         *)
Fairness ==
    \A r \in Request :
        /\ WF_vars(ReadEnvelope(r))
        /\ WF_vars(CallNode(r))
        /\ WF_vars(NoNodeLeft(r))
        /\ WF_vars(\E c \in rpcs : c.request = r /\ DeadlineExceeded(c))

FairSpec == Spec /\ Fairness

-----------------------------------------------------------------------------
(* Every variable has its type.                                            *)
TypeOK ==
    /\ submitted \subseteq Envelope
    /\ log \in [Node -> [Id -> Envelope \cup {NoEnvelope}]]
    /\ answers \subseteq Answer
    /\ pc \in [Request -> {"idle", "reading", "calling", "awaiting", "answered"}]
    /\ env \in [Request -> Envelope \cup {NoEnvelope}]
    /\ at \in [Request -> 0..(Len(Stubs) + 1)]
    /\ reply \in [Request -> [status : {0, 200, 202, 400, 500, 503},
                              body : {"none", "accepted", "already_exists", "orphan",
                                      "rejected", "invalid_request_error",
                                      "node_unavailable_error", "internal_error"}]]
    /\ rpcs \subseteq Rpc

(* A success told to the client is true for good, whichever of the nodes   *)
(* answered and however late or often they were called: a configured node  *)
(* stores the id, and stores these very bytes when it said accepted        *)
(* (NodeClient.publish, EventService.publish, STATUS_BY_OUTCOME).          *)
SuccessIsStored ==
    \A r \in Request :
        reply[r].status = 200 =>
            \E k \in 1..Len(Stubs) :
                /\ ClaimedId[env[r]] # NoId
                /\ log[Stubs[k]][ClaimedId[env[r]]] # NoEnvelope
                /\ reply[r].body = "accepted" =>
                       log[Stubs[k]][ClaimedId[env[r]]] = env[r]

(* What the gateway lets through is within the node's own message limit,   *)
(* once wrapped in its protobuf field: no call can fail for its size       *)
(* (MAX_ENVELOPE of one program, MaxMessage of the other).                 *)
CallsFit == \A c \in rpcs : MessageSize(env[c.request]) <= MaxMessage

\* What the clients were told, as answers of the nodes that were asked last.
AnsweredBy(r) == Stubs[at[r]]
OutcomeTold == [accepted |-> "ACCEPTED", already_exists |-> "ALREADY_EXISTS",
                rejected |-> "REJECTED"]
told == {[node |-> AnsweredBy(r), env |-> env[r], outcome |-> OutcomeTold[reply[r].body]] :
            r \in {q \in Request : reply[q].body \in DOMAIN OutcomeTold}}

(* A client and its retry, or two clients with envelopes of one id, are    *)
(* both told accepted only by different nodes, whatever deadlines passed   *)
(* and however late the nodes were (NodeClient.publish).                   *)
AcceptedByDifferentNodes ==
    \A r, q \in Request :
        /\ r # q /\ reply[r].body = "accepted" /\ reply[q].body = "accepted"
        /\ ClaimedId[env[r]] = ClaimedId[env[q]]
        => AnsweredBy(r) # AnsweredBy(q)

(* To its clients the gateway is the network of nodes itself: with what    *)
(* they are told for the nodes' answers, EventLog still holds, though      *)
(* calls are lost, repeated and answered late (NodeClient.publish).        *)
Clients == INSTANCE EventLog WITH
    Node <- Node, Envelope <- Envelope, Id <- Id, ClaimedId <- ClaimedId,
    NoId <- NoId, NoEnvelope <- NoEnvelope,
    submitted <- submitted, log <- log, answers <- told
ClientsSeeTheLog == Clients!LogSpec

(* Every request is answered, though no node ever is: each call has its    *)
(* deadline and the list of nodes its end (NodeClient.publish).            *)
EveryPostAnswered ==
    \A r \in Request : pc[r] = "reading" ~> pc[r] = "answered"
=============================================================================
