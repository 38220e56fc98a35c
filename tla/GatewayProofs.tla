--------------------------- MODULE GatewayProofs ----------------------------
(***************************************************************************)
(* Proofs about Gateway, for any nodes, any list of them, any envelopes    *)
(* and any number of requests.                                             *)
(***************************************************************************)
EXTENDS Gateway, EventLogProofs, TLAPS

\* A call carries the body of its request, which has been read and accepted;
\* what a node answered is so in its log.
RpcsKept ==
    \A c \in rpcs :
        LET e == env[c.request] IN
        /\ pc[c.request] \notin {"idle", "reading"}
        /\ e \in Envelope
        /\ SizeOf[e] <= MAX_ENVELOPE
        /\ c.stage = "ACCEPTED" =>
               ClaimedId[e] # NoId /\ log[Stubs[c.at]][ClaimedId[e]] = e
        /\ c.stage = "ALREADY_EXISTS" =>
               ClaimedId[e] # NoId /\ log[Stubs[c.at]][ClaimedId[e]] # NoEnvelope

\* A handler past reading has a checked body; only then is a reply a success.
RequestsKept ==
    \A r \in Request :
        /\ pc[r] \in {"idle", "reading"} => reply[r].status = 0
        /\ pc[r] # "idle" => env[r] \in Envelope
        /\ pc[r] \in {"calling", "awaiting"} =>
               /\ env[r] \in Json
               /\ SizeOf[env[r]] <= MAX_ENVELOPE
               /\ at[r] \in 1..(Len(Stubs) + 1)
        /\ pc[r] = "awaiting" => at[r] <= Len(Stubs)

SafeInv == TypeOK /\ RequestsKept /\ RpcsKept /\ SuccessIsStored

\* What a client is told, or is on its way to be, a node did answer to its body.
ToldIsAnswered ==
    /\ \A c \in rpcs :
           /\ env[c.request] \in submitted
           /\ c.stage # "sent" =>
                  [node |-> Stubs[c.at], env |-> env[c.request], outcome |-> c.stage] \in answers
    /\ \A r \in Request :
           /\ pc[r] # "answered" => reply[r] = NoReply
           /\ reply[r].body \in DOMAIN OutcomeTold =>
                  /\ at[r] \in 1..Len(Stubs)
                  /\ env[r] \in submitted
    /\ told \subseteq answers

\* One acceptance of one node is told once: it is in one call or in one reply.
ToldOnce ==
    /\ \A c, d \in rpcs :
           /\ c.stage = "ACCEPTED" /\ d.stage = "ACCEPTED"
           /\ Stubs[c.at] = Stubs[d.at] /\ env[c.request] = env[d.request]
           => c = d
    /\ \A c \in rpcs, r \in Request :
           /\ c.stage = "ACCEPTED" /\ reply[r].body = "accepted"
           /\ env[c.request] = env[r]
           => Stubs[c.at] # AnsweredBy(r)
    /\ \A r, q \in Request :
           /\ r # q /\ reply[r].body = "accepted" /\ reply[q].body = "accepted"
           /\ env[r] = env[q]
           => AnsweredBy(r) # AnsweredBy(q)

ToldInv == LogInv /\ ToldIsAnswered /\ ToldOnce

-----------------------------------------------------------------------------
(* The two ceilings: an envelope of at most 16384 bytes makes a message of *)
(* at most 16388, four less than the node's limit.                         *)
LEMMA EnvelopeFits ==
    ASSUME NEW e \in Envelope, SizeOf[e] \in Nat, SizeOf[e] <= MAX_ENVELOPE
    PROVE  MessageSize(e) <= MaxMessage
<1>1. VarintLength(SizeOf[e]) \in 1..3
    BY DEF VarintLength
<1> QED BY <1>1 DEF MessageSize, MAX_ENVELOPE, MaxMessage

\* The nodes keep what they store.
LEMMA LogGrows ==
    ASSUME TypeOK, LogNext \/ UNCHANGED logVars, NEW n \in Node, NEW i \in Id,
           log[n][i] # NoEnvelope
    PROVE  log'[n][i] = log[n][i]
BY WriteOnceStep DEF TypeOK, LogTypeOK

-----------------------------------------------------------------------------
(* Types.                                                                  *)

LEMMA TypeInit == Init => TypeOK
BY GatewayAssumption, LogAssumption DEF Init, LogInit, TypeOK, NoReply

Replies ==
    [status : {0, 200, 202, 400, 500, 503},
     body : {"none", "accepted", "already_exists", "orphan", "rejected",
             "invalid_request_error", "node_unavailable_error", "internal_error"}]

LEMMA RepliesTyped ==
    /\ \A o : ReplyTo(o) \in Replies
    /\ Http(400, "invalid_request_error") \in Replies
    /\ Http(500, "internal_error") \in Replies
    /\ Http(503, "node_unavailable_error") \in Replies
BY DEF ReplyTo, Http, Replies

LEMMA RespondTypes ==
    ASSUME TypeOK, NEW r \in Request, NEW answer \in Replies, Respond(r, answer)
    PROVE  /\ pc' \in [Request -> {"idle", "reading", "calling", "awaiting", "answered"}]
           /\ reply' \in [Request -> Replies]
BY DEF TypeOK, Respond, Replies

LEMMA TypeStep ==
    ASSUME TypeOK, RequestsKept, [Next]_vars
    PROVE  TypeOK'
<1> DEFINE Places == {"idle", "reading", "calling", "awaiting", "answered"}
<1>1. Len(Stubs) \in Nat
    BY GatewayAssumption, LogAssumption
<1>2. ASSUME NEW r \in Request, NEW e \in Envelope, Post(r, e)
      PROVE  TypeOK'
    BY <1>2 DEF TypeOK, Post, logVars
<1>3. ASSUME NEW r \in Request, ReadEnvelope(r)
      PROVE  TypeOK'
    <2>a. [pc EXCEPT ![r] = "calling"] \in [Request -> Places]
        BY DEF TypeOK
    <2>b. [pc EXCEPT ![r] = "answered"] \in [Request -> Places]
        BY DEF TypeOK
    <2>c. [at EXCEPT ![r] = 1] \in [Request -> 0..(Len(Stubs) + 1)]
        BY <1>1 DEF TypeOK
    <2>d. pc' = [pc EXCEPT ![r] = "calling"] \/ pc' = [pc EXCEPT ![r] = "answered"]
        BY <1>3 DEF ReadEnvelope, Respond
    <2>e. at' = at \/ at' = [at EXCEPT ![r] = 1]
        BY <1>3 DEF ReadEnvelope
    <2>f. pc' \in [Request -> Places]
        BY <2>a, <2>b, <2>d
    <2>g. at' \in [Request -> 0..(Len(Stubs) + 1)]
        BY <2>c, <2>e DEF TypeOK
    <2>1. pc' \in [Request -> Places] /\ at' \in [Request -> 0..(Len(Stubs) + 1)]
        BY <2>f, <2>g
    <2>2. reply' \in [Request -> Replies]
        BY <1>3, RepliesTyped, RespondTypes DEF TypeOK, ReadEnvelope, Replies
    <2> QED BY <1>3, <2>1, <2>2 DEF TypeOK, ReadEnvelope, logVars, Replies
<1>4. ASSUME NEW r \in Request, CallNode(r)
      PROVE  TypeOK'
    <2>1. at[r] \in 1..Len(Stubs) /\ env[r] \in Envelope
        BY <1>1, <1>4 DEF CallNode, RequestsKept
    <2>2. [request |-> r, at |-> at[r], stage |-> "sent"] \in Rpc
        BY <2>1 DEF Rpc
    <2> QED BY <1>4, <2>1, <2>2 DEF TypeOK, CallNode, Submit
<1>5. ASSUME NEW r \in Request, NoNodeLeft(r)
      PROVE  TypeOK'
    <2>1. Respond(r, Http(503, "node_unavailable_error"))
        BY <1>5 DEF NoNodeLeft
    <2> QED BY <1>5, <2>1, RepliesTyped, RespondTypes DEF TypeOK, NoNodeLeft, logVars, Replies
<1>6. ASSUME NEW c \in rpcs, Awaited(c), NextNode(c.request)
      PROVE  /\ pc' \in [Request -> Places]
             /\ at' \in [Request -> 0..(Len(Stubs) + 1)]
             /\ UNCHANGED <<env, reply>>
    <2>1. c \in Rpc /\ c.request \in Request
        BY DEF TypeOK, Rpc
    <2>2. at[c.request] + 1 \in 0..(Len(Stubs) + 1)
        BY <1>1, <1>6, <2>1 DEF RequestsKept, Awaited
    <2> QED BY <1>6, <2>1, <2>2 DEF TypeOK, NextNode
<1>7. ASSUME NEW c \in rpcs, Unavailable(c) \/ DeadlineExceeded(c)
      PROVE  TypeOK'
    <2>1. rpcs' \subseteq rpcs /\ UNCHANGED logVars
        BY <1>7 DEF Unavailable, DeadlineExceeded
    <2>2. \/ Awaited(c) /\ NextNode(c.request)
          \/ UNCHANGED <<pc, env, at, reply>>
        BY <1>7 DEF Unavailable, DeadlineExceeded
    <2> QED BY <1>6, <2>1, <2>2 DEF TypeOK, logVars
<1>8. ASSUME NEW c \in rpcs, CallFails(c) \/ Receive(c)
      PROVE  TypeOK'
    <2>1. c.request \in Request
        BY DEF TypeOK, Rpc
    <2>2. /\ \/ Respond(c.request, Http(500, "internal_error"))
             \/ Respond(c.request, ReplyTo(c.stage))
             \/ UNCHANGED <<pc, reply>>
          /\ rpcs' \subseteq rpcs
          /\ UNCHANGED <<logVars, env, at>>
        BY <1>8 DEF CallFails, Receive
    <2>3. pc' \in [Request -> Places] /\ reply' \in [Request -> Replies]
        BY <2>1, <2>2, RepliesTyped, RespondTypes DEF TypeOK, Replies
    <2> QED BY <2>2, <2>3 DEF TypeOK, logVars, Replies
<1>9. ASSUME NEW c \in rpcs, NEW o \in Outcome, NodeAnswers(c, o)
      PROVE  TypeOK'
    <2>1. c \in Rpc /\ [c EXCEPT !.stage = o] \in Rpc
        BY DEF TypeOK, Rpc
    <2>2. Stubs[c.at] \in Node /\ env[c.request] \in Envelope
        BY <1>9, <2>1, GatewayAssumption, LogAssumption DEF Rpc, NodeAnswers, Reply, TypeOK
    <2>3. answers' \subseteq Answer
        BY <1>9, <2>2 DEF TypeOK, NodeAnswers, Reply, Answer
    <2>4. rpcs' \subseteq Rpc
        <3>1. rpcs \subseteq Rpc
            BY DEF TypeOK
        <3>2. rpcs' = (rpcs \ {c}) \cup {[c EXCEPT !.stage = o]}
            BY <1>9 DEF NodeAnswers
        <3> QED BY <2>1, <3>1, <3>2
    <2>5. UNCHANGED <<submitted, log, pc, env, at, reply>>
        BY <1>9 DEF NodeAnswers, Reply
    <2> QED BY <2>3, <2>4, <2>5 DEF TypeOK
<1>10. ASSUME NEW n \in Node, NEW e \in Envelope, NodeStores(n, e)
       PROVE  TypeOK'
    <2>1. ClaimedId[e] \in Id
        BY <1>10, GatewayAssumption, LogAssumption DEF NodeStores, Adopt
    <2>2. log' = [log EXCEPT ![n][ClaimedId[e]] = e]
        BY <1>10 DEF NodeStores, Adopt
    <2>3. log' \in [Node -> [Id -> Envelope \cup {NoEnvelope}]]
        BY <2>1, <2>2 DEF TypeOK
    <2> QED BY <1>10, <2>3 DEF TypeOK, NodeStores, Adopt, gatewayVars
<1>11. CASE UNCHANGED vars
    BY <1>11 DEF TypeOK, vars, logVars, gatewayVars
<1> QED BY <1>2, <1>3, <1>4, <1>5, <1>7, <1>8, <1>9, <1>10, <1>11
        DEF Next, RequestStep, RpcStep

-----------------------------------------------------------------------------
(* What a step leaves alone.                                               *)

\* Every step of the gateway is a step of the log it is written against.
LEMMA LogStep ==
    ASSUME TypeOK, RequestsKept, [Next]_vars
    PROVE  LogNext \/ UNCHANGED logVars
<1>1. ASSUME NEW r \in Request, CallNode(r)
      PROVE  LogNext
    <2>1. env[r] \in Envelope
        BY <1>1 DEF CallNode, RequestsKept
    <2> QED BY <1>1, <2>1 DEF CallNode, LogNext
<1>2. ASSUME NEW c \in rpcs, NEW o \in Outcome, NodeAnswers(c, o)
      PROVE  LogNext
    <2>1. c \in Rpc
        BY DEF TypeOK
    <2>2. Stubs[c.at] \in Node
        BY <2>1, GatewayAssumption, LogAssumption DEF Rpc
    <2>3. env[c.request] \in Envelope
        BY <1>2, <2>1 DEF NodeAnswers, Reply, TypeOK
    <2>4. Reply(Stubs[c.at], env[c.request], o)
        BY <1>2 DEF NodeAnswers
    <2> QED BY <2>2, <2>3, <2>4 DEF LogNext
<1>3. ASSUME NEW n \in Node, NEW e \in Envelope, NodeStores(n, e)
      PROVE  LogNext
    BY <1>3 DEF NodeStores, LogNext
<1>4. ASSUME NEW r \in Request, (\E e \in Envelope : Post(r, e)) \/ ReadEnvelope(r) \/ NoNodeLeft(r)
      PROVE  UNCHANGED logVars
    BY <1>4 DEF Post, ReadEnvelope, NoNodeLeft
<1>5. ASSUME NEW c \in rpcs, Unavailable(c) \/ DeadlineExceeded(c) \/ CallFails(c) \/ Receive(c)
      PROVE  UNCHANGED logVars
    BY <1>5 DEF Unavailable, DeadlineExceeded, CallFails, Receive
<1>6. CASE UNCHANGED vars
    BY <1>6 DEF vars
<1> QED BY <1>1, <1>2, <1>3, <1>4, <1>5, <1>6 DEF Next, RequestStep, RpcStep

\* A request keeps its body, and never goes back to reading it.
LEMMA RequestMoves ==
    ASSUME TypeOK, [Next]_vars, NEW r \in Request, pc[r] # "idle"
    PROVE  /\ env'[r] = env[r]
           /\ pc'[r] # "idle"
           /\ pc[r] # "reading" => pc'[r] # "reading"
<1>1. ASSUME NEW q \in Request, RequestStep(q)
      PROVE  /\ env'[r] = env[r]
             /\ pc'[r] # "idle"
             /\ pc[r] # "reading" => pc'[r] # "reading"
    BY <1>1 DEF RequestStep, Post, ReadEnvelope, CallNode, NoNodeLeft, Respond, TypeOK
<1>2. ASSUME NEW c \in rpcs, RpcStep(c)
      PROVE  /\ env' = env
             /\ \/ pc' = pc
                \/ pc' = [pc EXCEPT ![c.request] = "calling"]
                \/ pc' = [pc EXCEPT ![c.request] = "answered"]
    BY <1>2 DEF RpcStep, Unavailable, DeadlineExceeded, CallFails, Receive, NodeAnswers,
                NextNode, Respond
<1>3. ASSUME NEW n \in Node, NEW e \in Envelope, NodeStores(n, e)
      PROVE  UNCHANGED <<env, pc>>
    BY <1>3 DEF NodeStores, gatewayVars
<1>4. CASE UNCHANGED vars
    BY <1>4 DEF vars, gatewayVars
<1> QED BY <1>1, <1>2, <1>3, <1>4 DEF Next, TypeOK

-----------------------------------------------------------------------------
(* The conjuncts of SafeInv, one by one.                                   *)

LEMMA RequestsStep ==
    ASSUME TypeOK, RequestsKept, [Next]_vars
    PROVE  RequestsKept'
<1>1. Len(Stubs) \in Nat
    BY GatewayAssumption, LogAssumption
<1>2. ASSUME NEW r \in Request, NEW e \in Envelope, Post(r, e)
      PROVE  RequestsKept'
    BY <1>2 DEF Post, RequestsKept, TypeOK
<1>3. ASSUME NEW r \in Request, ReadEnvelope(r)
      PROVE  RequestsKept'
    BY <1>1, <1>3 DEF ReadEnvelope, Respond, RequestsKept, TypeOK
<1>4. ASSUME NEW r \in Request, CallNode(r)
      PROVE  RequestsKept'
    BY <1>1, <1>4 DEF CallNode, RequestsKept, TypeOK
<1>5. ASSUME NEW r \in Request, NEW answer, Respond(r, answer), UNCHANGED <<env, at>>,
             pc[r] \notin {"idle", "reading"}
      PROVE  RequestsKept'
    BY <1>5 DEF Respond, RequestsKept, TypeOK
<1>6. ASSUME NEW c \in rpcs, Awaited(c), NextNode(c.request)
      PROVE  RequestsKept'
    <2>1. c.request \in Request
        BY DEF TypeOK, Rpc
    <2>2. at[c.request] \in 1..Len(Stubs)
        BY <1>1, <1>6, <2>1 DEF Awaited, RequestsKept
    <2> QED BY <1>1, <1>6, <2>1, <2>2 DEF Awaited, NextNode, RequestsKept, TypeOK
<1>7. ASSUME UNCHANGED <<pc, env, at, reply>>
      PROVE  RequestsKept'
    BY <1>7 DEF RequestsKept
<1>8. ASSUME NEW r \in Request, NoNodeLeft(r)
      PROVE  RequestsKept'
    BY <1>5, <1>8 DEF NoNodeLeft
<1>9. ASSUME NEW c \in rpcs, RpcStep(c)
      PROVE  RequestsKept'
    <2>1. c.request \in Request
        BY DEF TypeOK, Rpc
    <2>2. CASE Unavailable(c) \/ DeadlineExceeded(c)
        BY <1>6, <1>7, <2>2 DEF Unavailable, DeadlineExceeded
    <2>3. CASE CallFails(c) \/ Receive(c)
        BY <1>5, <1>7, <2>1, <2>3 DEF CallFails, Receive, Awaited
    <2>4. CASE \E o \in Outcome : NodeAnswers(c, o)
        BY <1>7, <2>4 DEF NodeAnswers
    <2> QED BY <1>9, <2>2, <2>3, <2>4 DEF RpcStep
<1>10. ASSUME NEW n \in Node, NEW e \in Envelope, NodeStores(n, e)
       PROVE  RequestsKept'
    BY <1>7, <1>10 DEF NodeStores, gatewayVars
<1>11. CASE UNCHANGED vars
    BY <1>7, <1>11 DEF vars, gatewayVars
<1> QED BY <1>2, <1>3, <1>4, <1>8, <1>9, <1>10, <1>11 DEF Next, RequestStep

LEMMA RpcsStep ==
    ASSUME TypeOK, TypeOK', RequestsKept, RpcsKept, [Next]_vars
    PROVE  RpcsKept'
<1> DEFINE Kept(c, e, l) ==
        /\ c.stage = "ACCEPTED" =>
               ClaimedId[e] # NoId /\ l[Stubs[c.at]][ClaimedId[e]] = e
        /\ c.stage = "ALREADY_EXISTS" =>
               ClaimedId[e] # NoId /\ l[Stubs[c.at]][ClaimedId[e]] # NoEnvelope
\* A call that was there before.
<1>1. ASSUME NEW c \in rpcs
      PROVE  /\ pc'[c.request] \notin {"idle", "reading"}
             /\ env'[c.request] = env[c.request]
             /\ Kept(c, env[c.request], log')
    <2>1. c \in Rpc /\ c.request \in Request /\ Stubs[c.at] \in Node
        BY GatewayAssumption, LogAssumption DEF TypeOK, Rpc
    <2>2. pc[c.request] \notin {"idle", "reading"} /\ env[c.request] \in Envelope
        BY DEF RpcsKept
    <2>3. pc'[c.request] \notin {"idle", "reading"} /\ env'[c.request] = env[c.request]
        BY <2>1, <2>2, RequestMoves
    <2>4. Kept(c, env[c.request], log)
        BY DEF RpcsKept
    <2>5. ASSUME ClaimedId[env[c.request]] # NoId,
                 log[Stubs[c.at]][ClaimedId[env[c.request]]] # NoEnvelope
          PROVE  log'[Stubs[c.at]][ClaimedId[env[c.request]]]
                     = log[Stubs[c.at]][ClaimedId[env[c.request]]]
        <3>1. ClaimedId[env[c.request]] \in Id
            BY <2>2, <2>5, GatewayAssumption, LogAssumption
        <3> QED BY <2>1, <2>5, <3>1, LogStep, LogGrows
    <2>6. NoEnvelope # env[c.request]
        BY <2>2, GatewayAssumption, LogAssumption
    <2> QED BY <2>3, <2>4, <2>5, <2>6
\* A call that was not.
<1>2. ASSUME NEW r \in Request, CallNode(r),
             NEW c, c = [request |-> r, at |-> at[r], stage |-> "sent"]
      PROVE  /\ pc'[c.request] \notin {"idle", "reading"}
             /\ env'[c.request] \in Envelope
             /\ SizeOf[env'[c.request]] <= MAX_ENVELOPE
             /\ Kept(c, env'[c.request], log')
    BY <1>2 DEF CallNode, RequestsKept, TypeOK
<1>3. ASSUME NEW d \in rpcs, NEW o \in Outcome, NodeAnswers(d, o),
             NEW c, c = [d EXCEPT !.stage = o]
      PROVE  /\ c.request = d.request
             /\ Kept(c, env[c.request], log')
    <2>1. d \in Rpc
        BY DEF TypeOK
    <2>2. c.request = d.request /\ c.at = d.at /\ c.stage = o
        BY <1>3, <2>1 DEF Rpc
    <2>3. Reply(Stubs[d.at], env[d.request], o)
        BY <1>3 DEF NodeAnswers
    <2> QED BY <2>2, <2>3 DEF Reply
<1>4. ASSUME NEW c \in rpcs'
      PROVE  \/ c \in rpcs
             \/ \E r \in Request : /\ CallNode(r)
                                   /\ c = [request |-> r, at |-> at[r], stage |-> "sent"]
             \/ \E d \in rpcs, o \in Outcome : /\ NodeAnswers(d, o)
                                              /\ c = [d EXCEPT !.stage = o]
    <2>1. ASSUME NEW r \in Request, RequestStep(r)
          PROVE  \/ c \in rpcs
                 \/ CallNode(r) /\ c = [request |-> r, at |-> at[r], stage |-> "sent"]
        BY <2>1, <1>4 DEF RequestStep, Post, ReadEnvelope, CallNode, NoNodeLeft
    <2>2. ASSUME NEW d \in rpcs, RpcStep(d)
          PROVE  \/ c \in rpcs
                 \/ \E o \in Outcome : NodeAnswers(d, o) /\ c = [d EXCEPT !.stage = o]
        BY <2>2, <1>4 DEF RpcStep, Unavailable, DeadlineExceeded, CallFails, Receive, NodeAnswers
    <2>3. ASSUME NEW n \in Node, NEW e \in Envelope, NodeStores(n, e)
          PROVE  c \in rpcs
        BY <2>3, <1>4 DEF NodeStores, gatewayVars
    <2>4. CASE UNCHANGED vars
        BY <2>4, <1>4 DEF vars, gatewayVars
    <2> QED BY <2>1, <2>2, <2>3, <2>4 DEF Next
<1>5. ASSUME NEW c \in rpcs'
      PROVE  /\ pc'[c.request] \notin {"idle", "reading"}
             /\ env'[c.request] \in Envelope
             /\ SizeOf[env'[c.request]] <= MAX_ENVELOPE
             /\ Kept(c, env'[c.request], log')
    <2>1. CASE c \in rpcs
        BY <1>1, <2>1 DEF RpcsKept
    <2>2. CASE \E r \in Request : /\ CallNode(r)
                                 /\ c = [request |-> r, at |-> at[r], stage |-> "sent"]
        BY <1>2, <2>2
    <2>3. CASE \E d \in rpcs, o \in Outcome : /\ NodeAnswers(d, o)
                                            /\ c = [d EXCEPT !.stage = o]
        <3>1. PICK d \in rpcs, o \in Outcome : NodeAnswers(d, o) /\ c = [d EXCEPT !.stage = o]
            BY <2>3
        <3>2. c.request = d.request /\ Kept(c, env[c.request], log')
            BY <1>3, <3>1
        <3>3. pc'[d.request] \notin {"idle", "reading"} /\ env'[d.request] = env[d.request]
            BY <1>1
        <3>4. env[d.request] \in Envelope /\ SizeOf[env[d.request]] <= MAX_ENVELOPE
            BY DEF RpcsKept
        <3> QED BY <3>2, <3>3, <3>4
    <2> QED BY <1>4, <2>1, <2>2, <2>3
<1> QED BY <1>5 DEF RpcsKept

\* Only two outcomes are reported as a success, each as itself.
LEMMA SuccessfulReplies ==
    /\ \A o : ReplyTo(o).status = 200 => o \in {"ACCEPTED", "ALREADY_EXISTS"}
    /\ \A o : ReplyTo(o).body = "accepted" => o = "ACCEPTED"
BY DEF ReplyTo, Http

LEMMA SuccessStep ==
    ASSUME TypeOK, RequestsKept, RpcsKept, SuccessIsStored, [Next]_vars
    PROVE  SuccessIsStored'
<1> DEFINE StoredAt(k, e, l, accepted) ==
        /\ ClaimedId[e] # NoId
        /\ l[Stubs[k]][ClaimedId[e]] # NoEnvelope
        /\ accepted => l[Stubs[k]][ClaimedId[e]] = e
\* The log only grows, so what was stored at k still is.
<1>1. ASSUME NEW k \in 1..Len(Stubs), NEW e \in Envelope,
             ClaimedId[e] # NoId, log[Stubs[k]][ClaimedId[e]] # NoEnvelope
      PROVE  log'[Stubs[k]][ClaimedId[e]] = log[Stubs[k]][ClaimedId[e]]
    <2>1. Stubs[k] \in Node /\ ClaimedId[e] \in Id
        BY <1>1, GatewayAssumption, LogAssumption
    <2> QED BY <1>1, <2>1, LogStep, LogGrows
<1> SUFFICES ASSUME NEW r \in Request, reply'[r].status = 200
             PROVE  \E k \in 1..Len(Stubs) :
                        StoredAt(k, env'[r], log', reply'[r].body = "accepted")
    BY DEF SuccessIsStored
<1>2. \/ reply'[r] = reply[r]
      \/ \E c \in rpcs : Receive(c) /\ Awaited(c) /\ c.request = r
    <2>1. ASSUME NEW q \in Request, RequestStep(q)
          PROVE  reply'[r] = reply[r]
        <3>1. \/ reply' = reply
              \/ \E b \in {Http(400, "invalid_request_error"), Http(503, "node_unavailable_error")} :
                     reply' = [reply EXCEPT ![q] = b]
            BY <2>1 DEF RequestStep, Post, ReadEnvelope, CallNode, NoNodeLeft, Respond
        <3> QED BY <3>1 DEF Http, TypeOK
    <2>2. ASSUME NEW c \in rpcs, RpcStep(c)
          PROVE  reply'[r] = reply[r] \/ (Receive(c) /\ Awaited(c) /\ c.request = r)
        <3>1. \/ reply' = reply
              \/ reply' = [reply EXCEPT ![c.request] = Http(500, "internal_error")]
              \/ Receive(c) /\ Awaited(c) /\ reply' = [reply EXCEPT ![c.request] = ReplyTo(c.stage)]
            BY <2>2 DEF RpcStep, Unavailable, DeadlineExceeded, CallFails, Receive,
                        NodeAnswers, NextNode, Respond
        <3> QED BY <3>1 DEF Http, TypeOK
    <2>3. ASSUME UNCHANGED reply
          PROVE  reply'[r] = reply[r]
        BY <2>3
    <2> QED BY <2>1, <2>2, <2>3 DEF Next, NodeStores, vars, gatewayVars
<1>3. CASE reply'[r] = reply[r]
    <2>1. pc[r] \notin {"idle", "reading"} /\ env[r] \in Envelope
        BY <1>3 DEF RequestsKept
    <2>2. env'[r] = env[r]
        BY <2>1, RequestMoves
    <2>3. PICK k \in 1..Len(Stubs) : StoredAt(k, env[r], log, reply[r].body = "accepted")
        BY <1>3 DEF SuccessIsStored
    <2>4. StoredAt(k, env[r], log', reply[r].body = "accepted")
        BY <1>1, <2>1, <2>3
    <2> QED BY <1>3, <2>2, <2>4
<1>4. CASE \E c \in rpcs : Receive(c) /\ Awaited(c) /\ c.request = r
    <2>1. PICK c \in rpcs : Receive(c) /\ Awaited(c) /\ c.request = r
        BY <1>4
    <2>2. reply'[r] = ReplyTo(c.stage) /\ env'[r] = env[r] /\ log' = log
        BY <2>1 DEF Receive, Respond, TypeOK, logVars
    <2>3. c.stage \in {"ACCEPTED", "ALREADY_EXISTS"}
        BY <2>2, SuccessfulReplies
    <2>4. reply'[r].body = "accepted" => c.stage = "ACCEPTED"
        BY <2>2, SuccessfulReplies
    <2>5. env[r] # NoEnvelope /\ c.at \in 1..Len(Stubs)
        BY <2>1, GatewayAssumption, LogAssumption DEF RpcsKept, TypeOK, Rpc
    <2>6. StoredAt(c.at, env[r], log, c.stage = "ACCEPTED")
        BY <2>1, <2>3, <2>5 DEF RpcsKept
    <2> QED BY <2>2, <2>4, <2>5, <2>6
<1> QED BY <1>2, <1>3, <1>4

-----------------------------------------------------------------------------
(* SafeInv is inductive; the checked properties follow from it.            *)

THEOREM SafeInvariant == Spec => []SafeInv
<1>1. Init => SafeInv
    <2> SUFFICES ASSUME Init PROVE SafeInv
        OBVIOUS
    <2>1. TypeOK
        BY TypeInit
    <2>2. RequestsKept /\ RpcsKept
        BY DEF Init, RequestsKept, RpcsKept, NoReply
    <2>3. SuccessIsStored
        BY DEF Init, SuccessIsStored, NoReply
    <2> QED BY <2>1, <2>2, <2>3 DEF SafeInv
<1>2. SafeInv /\ [Next]_vars => SafeInv'
    <2> SUFFICES ASSUME SafeInv, [Next]_vars PROVE SafeInv'
        OBVIOUS
    <2>1. TypeOK /\ RequestsKept /\ RpcsKept /\ SuccessIsStored
        BY DEF SafeInv
    <2>2. TypeOK'
        BY <2>1, TypeStep
    <2>3. RequestsKept' /\ RpcsKept'
        BY <2>1, <2>2, RequestsStep, RpcsStep
    <2>4. SuccessIsStored'
        BY <2>1, SuccessStep
    <2> QED BY <2>2, <2>3, <2>4 DEF SafeInv
<1> QED BY <1>1, <1>2, PTL DEF Spec

(* Every variable has its type, in every behaviour of the gateway.         *)
THEOREM TypeCorrect == Spec => []TypeOK
<1>1. SafeInv => TypeOK
    BY DEF SafeInv
<1> QED BY <1>1, SafeInvariant, PTL

(* A success told to the client stays true: some configured node stores    *)
(* the envelope's id, and the envelope itself when it was accepted.        *)
THEOREM SuccessIsKept == Spec => []SuccessIsStored
<1>1. SafeInv => SuccessIsStored
    BY DEF SafeInv
<1> QED BY <1>1, SafeInvariant, PTL

(* No call the gateway makes is over the node's message limit.             *)
THEOREM NoCallTooLarge == Spec => []CallsFit
<1>1. SafeInv => CallsFit
    <2> SUFFICES ASSUME SafeInv, NEW c \in rpcs
                 PROVE  MessageSize(env[c.request]) <= MaxMessage
        BY DEF CallsFit
    <2>1. env[c.request] \in Envelope /\ SizeOf[env[c.request]] <= MAX_ENVELOPE
        BY DEF SafeInv, RpcsKept
    <2>2. SizeOf[env[c.request]] \in Nat
        BY <2>1, GatewayAssumption, LogAssumption
    <2> QED BY <2>1, <2>2, EnvelopeFits
<1> QED BY <1>1, SafeInvariant, PTL

-----------------------------------------------------------------------------
(* The gateway as EventLog's client, and as EventLog to its own clients.   *)

(* The gateway asks nothing of the nodes but what EventLog promises.       *)
THEOREM UsesTheLog == Spec => LogSpec
<1>1. Init => LogInit
    BY DEF Init
<1>2. SafeInv /\ [Next]_vars => [LogNext]_logVars
    BY LogStep DEF SafeInv
<1> QED BY <1>1, <1>2, SafeInvariant, PTL DEF Spec, LogSpec

\* Each outcome of the contract is told as itself, and nothing else is told.
LEMMA ToldAsItself ==
    /\ DOMAIN OutcomeTold = {"accepted", "already_exists", "rejected"}
    /\ \A o \in Outcome : /\ ReplyTo(o).body \in DOMAIN OutcomeTold
                          /\ OutcomeTold[ReplyTo(o).body] = o
    /\ OutcomeTold["accepted"] = "ACCEPTED"
BY DEF OutcomeTold, Outcome, ReplyTo, Http

\* An answered request is left alone.
LEMMA AnsweredStays ==
    ASSUME TypeOK, [Next]_vars, NEW r \in Request, pc[r] = "answered"
    PROVE  /\ pc'[r] = "answered"
           /\ env'[r] = env[r] /\ at'[r] = at[r] /\ reply'[r] = reply[r]
<1>1. ASSUME NEW q \in Request, RequestStep(q)
      PROVE  /\ q # r
             /\ \A p \in Request \ {q} :
                    pc'[p] = pc[p] /\ env'[p] = env[p] /\ at'[p] = at[p] /\ reply'[p] = reply[p]
    BY <1>1 DEF RequestStep, Post, ReadEnvelope, CallNode, NoNodeLeft, Respond, TypeOK
<1>2. ASSUME NEW c \in rpcs, RpcStep(c)
      PROVE  \/ UNCHANGED <<pc, env, at, reply>>
             \/ /\ c.request # r
                /\ \A p \in Request \ {c.request} :
                       pc'[p] = pc[p] /\ env'[p] = env[p] /\ at'[p] = at[p] /\ reply'[p] = reply[p]
    BY <1>2 DEF RpcStep, Unavailable, DeadlineExceeded, CallFails, Receive, NodeAnswers,
                NextNode, Respond, Awaited, TypeOK
<1>3. CASE UNCHANGED gatewayVars
    BY <1>3 DEF gatewayVars
<1> QED BY <1>1, <1>2, <1>3 DEF Next, NodeStores, vars

\* A step that tells nobody an outcome and learns of none.
Quiet ==
    /\ \A c \in rpcs' : c \in rpcs \/ (c.stage = "sent" /\ env'[c.request] \in submitted')
    /\ \A r \in Request : reply'[r] # reply[r] => reply'[r].body \notin DOMAIN OutcomeTold
    /\ answers' = answers

\* What else can happen: a node answers a call, or an awaited answer arrives.
LEMMA QuietOrNot ==
    ASSUME TypeOK, [Next]_vars
    PROVE  \/ Quiet
           \/ \E c \in rpcs, o \in Outcome : NodeAnswers(c, o)
           \/ \E c \in rpcs : Receive(c) /\ Awaited(c)
<1> USE ToldAsItself
<1>1. ASSUME NEW r \in Request, CallNode(r)
      PROVE  Quiet
    BY <1>1 DEF CallNode, Submit, Quiet
<1>2. ASSUME NEW r \in Request, NEW b \in {"invalid_request_error", "node_unavailable_error",
                                           "internal_error"},
             NEW s, Respond(r, Http(s, b)), answers' = answers, rpcs' \subseteq rpcs
      PROVE  Quiet
    BY <1>2 DEF Respond, Http, Quiet, TypeOK
<1>3. ASSUME reply' = reply, answers' = answers, rpcs' \subseteq rpcs
      PROVE  Quiet
    BY <1>3 DEF Quiet
<1>4. ASSUME NEW r \in Request, RequestStep(r)
      PROVE  Quiet
    <2>1. CASE \E e \in Envelope : Post(r, e)
        BY <1>3, <2>1 DEF Post, logVars
    <2>2. CASE ReadEnvelope(r)
        BY <1>2, <1>3, <2>2 DEF ReadEnvelope, logVars
    <2>3. CASE NoNodeLeft(r)
        BY <1>2, <2>3 DEF NoNodeLeft, logVars
    <2> QED BY <1>1, <1>4, <2>1, <2>2, <2>3 DEF RequestStep
<1>5. ASSUME NEW c \in rpcs, RpcStep(c), ~ \E o \in Outcome : NodeAnswers(c, o),
             ~ (Receive(c) /\ Awaited(c))
      PROVE  Quiet
    <2>1. c.request \in Request
        BY DEF TypeOK, Rpc
    <2>2. CASE CallFails(c)
        BY <1>2, <2>1, <2>2 DEF CallFails, logVars
    <2>3. CASE Unavailable(c) \/ DeadlineExceeded(c) \/ Receive(c)
        BY <1>3, <1>5, <2>3 DEF Unavailable, DeadlineExceeded, Receive, NextNode, logVars
    <2> QED BY <1>5, <2>2, <2>3 DEF RpcStep
<1>6. ASSUME NEW n \in Node, NEW e \in Envelope, NodeStores(n, e)
      PROVE  Quiet
    BY <1>3, <1>6 DEF NodeStores, Adopt, gatewayVars
<1>7. CASE UNCHANGED vars
    BY <1>3, <1>7 DEF vars, logVars, gatewayVars
<1> QED BY <1>4, <1>5, <1>6, <1>7 DEF Next

\* Every request past its first step keeps its body, every call is of such a one.
LEMMA CallsKeepBody ==
    ASSUME TypeOK, RpcsKept, [Next]_vars, NEW c \in rpcs
    PROVE  c.request \in Request /\ env'[c.request] = env[c.request]
<1>1. c.request \in Request /\ pc[c.request] \notin {"idle", "reading"}
    BY DEF TypeOK, Rpc, RpcsKept
<1> QED BY <1>1, RequestMoves

\* What an awaited answer makes of its request.
LEMMA ReceiveTells ==
    ASSUME TypeOK, NEW c \in rpcs, Receive(c), Awaited(c)
    PROVE  /\ c.request \in Request /\ c.at \in 1..Len(Stubs) /\ c.stage \in Outcome
           /\ at[c.request] = c.at /\ pc[c.request] # "answered"
           /\ pc'[c.request] = "answered"
           /\ reply'[c.request] = ReplyTo(c.stage)
           /\ \A r \in Request \ {c.request} : pc'[r] = pc[r] /\ reply'[r] = reply[r]
           /\ rpcs' = rpcs \ {c}
           /\ UNCHANGED <<env, at, answers, submitted, log>>
BY DEF TypeOK, Rpc, Receive, Respond, Awaited, logVars

LEMMA ToldIsAnsweredStep ==
    ASSUME SafeInv, ToldInv, [Next]_vars
    PROVE  ToldIsAnswered'
<1> USE DEF SafeInv, ToldInv
<1> USE ToldAsItself
<1>0. submitted \subseteq submitted' /\ answers \subseteq answers'
    BY LogStep DEF LogNext, Submit, Adopt, Reply, logVars
<1> DEFINE Ans(c, e) == [node |-> Stubs[c.at], env |-> e, outcome |-> c.stage]
           Said(r) == [node |-> AnsweredBy(r), env |-> env[r],
                       outcome |-> OutcomeTold[reply[r].body]]
\* The calls.
<1>1. ASSUME NEW c \in rpcs'
      PROVE  /\ env'[c.request] \in submitted'
             /\ c.stage # "sent" => Ans(c, env'[c.request]) \in answers'
    <2>1. CASE c \in rpcs
        BY <1>0, <2>1, CallsKeepBody DEF ToldIsAnswered
    <2>2. CASE c \notin rpcs /\ Quiet
        BY <2>2 DEF Quiet
    <2>3. ASSUME NEW d \in rpcs, NEW o \in Outcome, NodeAnswers(d, o), c \notin rpcs
          PROVE  /\ env'[c.request] \in submitted'
                 /\ c.stage # "sent" => Ans(c, env'[c.request]) \in answers'
        <3>1. c = [d EXCEPT !.stage = o] /\ env' = env
            BY <2>3 DEF NodeAnswers
        <3>2. c.request = d.request /\ c.at = d.at /\ c.stage = o
            BY <3>1 DEF TypeOK, Rpc
        <3>3. [node |-> Stubs[d.at], env |-> env[d.request], outcome |-> o] \in answers'
            BY <2>3 DEF NodeAnswers, Reply
        <3>4. env[d.request] \in submitted
            BY DEF ToldIsAnswered
        <3> QED BY <1>0, <3>1, <3>2, <3>3, <3>4
    <2>4. ASSUME NEW d \in rpcs, Receive(d), Awaited(d)
          PROVE  c \in rpcs
        BY <2>4, ReceiveTells
    <2> QED BY <2>1, <2>2, <2>3, <2>4, QuietOrNot
\* The requests.
<1>2. ASSUME NEW r \in Request, pc'[r] # "answered"
      PROVE  reply'[r] = NoReply
    <2>1. pc[r] # "answered" /\ reply[r] = NoReply
        BY <1>2, AnsweredStays DEF ToldIsAnswered
    <2>2. ASSUME NEW q \in Request, NEW b, Respond(q, b)
          PROVE  reply'[r] = NoReply
        BY <1>2, <2>1, <2>2 DEF Respond, TypeOK
    <2>3. ASSUME UNCHANGED reply
          PROVE  reply'[r] = NoReply
        BY <2>1, <2>3
    <2>4. ASSUME NEW q \in Request, RequestStep(q)
          PROVE  reply'[r] = NoReply
        BY <2>2, <2>3, <2>4 DEF RequestStep, Post, ReadEnvelope, CallNode, NoNodeLeft
    <2>5. ASSUME NEW c \in rpcs, RpcStep(c)
          PROVE  reply'[r] = NoReply
        <3>1. c.request \in Request
            BY DEF TypeOK, Rpc
        <3> QED BY <2>2, <2>3, <2>5, <3>1
                DEF RpcStep, Unavailable, DeadlineExceeded, CallFails, Receive, NodeAnswers,
                    NextNode
    <2> QED BY <2>3, <2>4, <2>5 DEF Next, NodeStores, vars, gatewayVars
<1>3. ASSUME NEW r \in Request, reply'[r].body \in DOMAIN OutcomeTold
      PROVE  /\ at'[r] \in 1..Len(Stubs)
             /\ env'[r] \in submitted'
             /\ [node |-> Stubs[at'[r]], env |-> env'[r],
                 outcome |-> OutcomeTold[reply'[r].body]] \in answers'
    <2>1. CASE reply'[r] = reply[r]
        <3>1. pc[r] = "answered"
            BY <1>3, <2>1 DEF ToldIsAnswered, NoReply
        <3>2. env'[r] = env[r] /\ at'[r] = at[r]
            BY <3>1, AnsweredStays
        <3>3. at[r] \in 1..Len(Stubs) /\ env[r] \in submitted
            BY <1>3, <2>1 DEF ToldIsAnswered
        <3>4. Said(r) \in told
            BY <1>3, <2>1 DEF told
        <3>5. Said(r) \in answers
            BY <3>4 DEF ToldIsAnswered
        <3> QED BY <1>0, <2>1, <3>2, <3>3, <3>5 DEF AnsweredBy
    <2>2. CASE reply'[r] # reply[r]
        <3>1. ~ Quiet /\ ~ \E c \in rpcs, o \in Outcome : NodeAnswers(c, o)
            BY <1>3, <2>2 DEF Quiet, NodeAnswers
        <3>2. PICK c \in rpcs : Receive(c) /\ Awaited(c)
            BY <3>1, QuietOrNot
        <3>3. c.request = r
            BY <2>2, <3>2, ReceiveTells
        <3>4. /\ env[r] \in submitted
              /\ Ans(c, env[r]) \in answers
            BY <3>2, <3>3 DEF ToldIsAnswered, Receive
        <3> QED BY <3>2, <3>3, <3>4, ReceiveTells
    <2> QED BY <2>1, <2>2
<1>4. told' \subseteq answers'
    BY <1>3 DEF told, AnsweredBy
<1> QED BY <1>1, <1>2, <1>3, <1>4 DEF ToldIsAnswered

LEMMA ToldOnceStep ==
    ASSUME SafeInv, ToldInv, [Next]_vars
    PROVE  ToldOnce'
<1> USE DEF SafeInv, ToldInv
<1> USE ToldAsItself
\* An accepted reply that was there before has not moved.
<1>1. ASSUME NEW r \in Request, reply[r].body = "accepted"
      PROVE  /\ env'[r] = env[r] /\ at'[r] = at[r] /\ reply'[r] = reply[r]
             /\ AnsweredBy(r)' = AnsweredBy(r)
             /\ Accepted(AnsweredBy(r), env[r]) \in answers
    <2>1. pc[r] = "answered"
        BY <1>1 DEF ToldIsAnswered, NoReply
    <2>2. Accepted(AnsweredBy(r), env[r]) \in told
        BY <1>1 DEF told, Accepted
    <2> QED BY <2>1, <2>2, AnsweredStays DEF AnsweredBy, ToldIsAnswered
<1>2. ASSUME NEW c \in rpcs, c.stage = "ACCEPTED"
      PROVE  Accepted(Stubs[c.at], env[c.request]) \in answers
    BY <1>2 DEF ToldIsAnswered, Accepted
\* No reply and no call appears that says accepted.
<1>3. ASSUME \A r \in Request : reply'[r].body = "accepted" => reply'[r] = reply[r],
             \A c \in rpcs' : c.stage = "ACCEPTED" => c \in rpcs
      PROVE  ToldOnce'
    BY <1>1, <1>3, CallsKeepBody DEF ToldOnce
<1>4. CASE Quiet
    BY <1>3, <1>4 DEF Quiet
<1>5. ASSUME NEW d \in rpcs, NEW o \in Outcome, NodeAnswers(d, o)
      PROVE  ToldOnce'
    <2> DEFINE e == [d EXCEPT !.stage = o]
    <2>1. /\ e.request = d.request /\ e.at = d.at /\ e.stage = o
          /\ rpcs' = (rpcs \ {d}) \cup {e} /\ UNCHANGED <<env, at, reply>>
        BY <1>5 DEF NodeAnswers, TypeOK, Rpc
    <2>2. CASE o # "ACCEPTED"
        BY <1>3, <2>1, <2>2
    <2>3. CASE o = "ACCEPTED"
        <3>1. Accepted(Stubs[d.at], env[d.request]) \notin answers
            BY <1>5, <2>3 DEF NodeAnswers, Reply
        <3>2. \A c \in rpcs :
                  c.stage = "ACCEPTED" =>
                      ~ (Stubs[c.at] = Stubs[d.at] /\ env[c.request] = env[d.request])
            BY <1>2, <3>1
        <3>3. \A r \in Request :
                  reply[r].body = "accepted" =>
                      ~ (AnsweredBy(r) = Stubs[d.at] /\ env[r] = env[d.request])
            BY <1>1, <3>1
        <3>4. \A c \in rpcs' : c # e => c \in rpcs
            BY <2>1
        <3>5. \A r \in Request : AnsweredBy(r)' = AnsweredBy(r)
            BY <2>1 DEF AnsweredBy
        <3>6. ASSUME NEW b \in rpcs', NEW c \in rpcs',
                     b.stage = "ACCEPTED", c.stage = "ACCEPTED",
                     Stubs[b.at] = Stubs[c.at], env[b.request] = env[c.request]
              PROVE  b = c
            <4>1. CASE b # e /\ c # e
                BY <3>4, <3>6, <4>1 DEF ToldOnce
            <4>2. CASE b = e /\ c # e
                BY <2>1, <3>2, <3>4, <3>6, <4>2
            <4>3. CASE b # e /\ c = e
                BY <2>1, <3>2, <3>4, <3>6, <4>3
            <4> QED BY <4>1, <4>2, <4>3
        <3>7. ASSUME NEW c \in rpcs', NEW r \in Request, c.stage = "ACCEPTED",
                     reply[r].body = "accepted", env[c.request] = env[r]
              PROVE  Stubs[c.at] # AnsweredBy(r)
            <4>1. CASE c = e
                BY <2>1, <3>3, <3>7, <4>1
            <4>2. CASE c # e
                BY <3>4, <3>7, <4>2 DEF ToldOnce
            <4> QED BY <4>1, <4>2
        <3> QED BY <2>1, <3>5, <3>6, <3>7 DEF ToldOnce
    <2> QED BY <2>2, <2>3
<1>6. ASSUME NEW d \in rpcs, Receive(d), Awaited(d)
      PROVE  ToldOnce'
    <2> DEFINE q == d.request
    <2>1. /\ q \in Request /\ at[q] = d.at /\ d.stage \in Outcome
          /\ reply'[q] = ReplyTo(d.stage)
          /\ \A r \in Request \ {q} : reply'[r] = reply[r]
          /\ rpcs' = rpcs \ {d} /\ UNCHANGED <<env, at>>
        BY <1>6, ReceiveTells
    <2>2. CASE d.stage # "ACCEPTED"
        <3>1. reply'[q].body # "accepted"
            BY <2>1, <2>2
        <3> QED BY <1>3, <2>1, <3>1
    <2>3. CASE d.stage = "ACCEPTED"
        <3>1. AnsweredBy(q) = Stubs[d.at] /\ \A r \in Request : AnsweredBy(r)' = AnsweredBy(r)
            BY <2>1 DEF AnsweredBy
        <3> QED BY <2>1, <2>3, <3>1 DEF ToldOnce
    <2> QED BY <2>2, <2>3
<1> QED BY <1>4, <1>5, <1>6, QuietOrNot

LEMMA ToldInvariant == Spec => []ToldInv
<1>1. Init => ToldInv
    <2> SUFFICES ASSUME Init PROVE ToldInv
        OBVIOUS
    <2>1. LogInv
        BY TypeInit DEF Init, LogInit, LogInv, LogTypeOK, NothingForged, AnswersHold, TypeOK
    <2>2. rpcs = {} /\ \A r \in Request : reply[r] = NoReply
        BY DEF Init
    <2>3. told = {}
        BY <2>2, ToldAsItself DEF told, NoReply
    <2> QED BY <2>1, <2>2, <2>3, ToldAsItself DEF ToldInv, ToldIsAnswered, ToldOnce, NoReply
<1>2. SafeInv /\ ToldInv /\ [Next]_vars => ToldInv'
    <2> SUFFICES ASSUME SafeInv, ToldInv, [Next]_vars PROVE ToldInv'
        OBVIOUS
    <2>1. [LogNext]_logVars
        BY LogStep DEF SafeInv
    <2>2. LogInv'
        BY <2>1, LogTypeStep, ForgedStep, AnswersStep DEF ToldInv, LogInv
    <2> QED BY <2>2, ToldIsAnsweredStep, ToldOnceStep DEF ToldInv
<1> QED BY <1>1, <1>2, SafeInvariant, PTL DEF Spec

(* Two clients told accepted for one id were told so by different nodes,   *)
(* however many calls outlived their deadlines (NodeClient.publish).       *)
THEOREM AcceptedApart == Spec => []AcceptedByDifferentNodes
<1>1. ToldInv => AcceptedByDifferentNodes
    <2> SUFFICES ASSUME ToldInv, NEW r \in Request, NEW q \in Request, r # q,
                        reply[r].body = "accepted", reply[q].body = "accepted",
                        ClaimedId[env[r]] = ClaimedId[env[q]],
                        AnsweredBy(r) = AnsweredBy(q)
                 PROVE  FALSE
        BY DEF AcceptedByDifferentNodes
    <2>1. Accepted(AnsweredBy(r), env[r]) \in told /\ Accepted(AnsweredBy(q), env[q]) \in told
        BY ToldAsItself DEF told, Accepted
    <2>2. Accepted(AnsweredBy(r), env[r]) \in answers /\ Accepted(AnsweredBy(q), env[q]) \in answers
        BY <2>1 DEF ToldInv, ToldIsAnswered
    <2>3. /\ log[AnsweredBy(r)][ClaimedId[env[r]]] = env[r]
          /\ log[AnsweredBy(q)][ClaimedId[env[q]]] = env[q]
        BY <2>2 DEF ToldInv, LogInv, AnswersHold, Accepted
    <2> QED BY <2>3 DEF ToldInv, ToldOnce
<1> QED BY <1>1, ToldInvariant, PTL

\* A step that tells nobody an outcome leaves what was told.
LEMMA QuietTells ==
    ASSUME SafeInv, ToldInv, [Next]_vars,
           \A r \in Request : reply'[r] # reply[r] => reply'[r].body \notin DOMAIN OutcomeTold
    PROVE  told' = told
<1>1. ASSUME NEW r \in Request, reply[r].body \in DOMAIN OutcomeTold
      PROVE  /\ reply'[r] = reply[r] /\ env'[r] = env[r]
             /\ AnsweredBy(r)' = AnsweredBy(r)
    <2>1. pc[r] = "answered"
        BY <1>1, ToldAsItself DEF ToldInv, ToldIsAnswered, NoReply
    <2> QED BY <2>1, AnsweredStays DEF SafeInv, AnsweredBy
<1>2. ASSUME NEW r \in Request
      PROVE  reply'[r].body \in DOMAIN OutcomeTold <=> reply[r].body \in DOMAIN OutcomeTold
    BY <1>1
<1>3. \A t : t \in told' <=> t \in told
    BY <1>1, <1>2 DEF told
<1> QED BY <1>3

\* The answer that arrives is the one thing a client learns.
LEMMA ReceiveAdds ==
    ASSUME SafeInv, ToldInv, [Next]_vars, NEW c \in rpcs, Receive(c), Awaited(c)
    PROVE  told' = told \cup {[node |-> Stubs[c.at], env |-> env[c.request],
                               outcome |-> c.stage]}
<1> DEFINE q == c.request
           Said(r) == [node |-> AnsweredBy(r), env |-> env[r],
                       outcome |-> OutcomeTold[reply[r].body]]
<1>1. /\ q \in Request /\ at[q] = c.at /\ c.stage \in Outcome /\ pc[q] # "answered"
      /\ reply'[q] = ReplyTo(c.stage)
      /\ \A r \in Request \ {q} : reply'[r] = reply[r]
      /\ UNCHANGED <<env, at>>
    BY ReceiveTells DEF SafeInv
<1>2. reply[q].body \notin DOMAIN OutcomeTold
    BY <1>1, ToldAsItself DEF ToldInv, ToldIsAnswered, NoReply
<1>3. /\ reply'[q].body \in DOMAIN OutcomeTold
      /\ Said(q)' = [node |-> Stubs[c.at], env |-> env[c.request], outcome |-> c.stage]
    BY <1>1, ToldAsItself DEF AnsweredBy
<1>4. ASSUME NEW r \in Request \ {q}
      PROVE  Said(r)' = Said(r) /\ reply'[r] = reply[r]
    BY <1>1 DEF AnsweredBy
<1>5. \A t : t \in told' <=> t \in told \/ t = Said(q)'
    <2>1. \A t : t \in told <=> \E r \in Request : reply[r].body \in DOMAIN OutcomeTold /\ t = Said(r)
        BY DEF told
    <2>2. \A t : t \in told' <=>
              \E r \in Request : reply'[r].body \in DOMAIN OutcomeTold /\ t = Said(r)'
        BY DEF told
    <2> HIDE DEF Said
    <2> QED BY <1>1, <1>2, <1>3, <1>4, <2>1, <2>2
<1> QED BY <1>3, <1>5

(* Asking a gateway is asking the network: put what the clients are told   *)
(* for what the nodes answer, and EventLog holds. A call lost, given up,   *)
(* repeated at the next node or answered late is a step they do not see.   *)
THEOREM GatewayIsTheLog == Spec => ClientsSeeTheLog
<1>1. Init => Clients!LogInit
    <2>1. Init => told = {}
        BY ToldAsItself DEF Init, told, NoReply
    <2> QED BY <2>1 DEF Init, LogInit, Clients!LogInit
<1>2. SafeInv /\ ToldInv /\ [Next]_vars => [Clients!LogNext]_Clients!logVars
    <2> SUFFICES ASSUME SafeInv, ToldInv, [Next]_vars, ~ UNCHANGED <<submitted, log, told>>
                 PROVE  Clients!LogNext
        BY DEF Clients!logVars
    <2> USE DEF SafeInv, ToldInv
    <2>1. ASSUME \A r \in Request :
                     reply'[r] # reply[r] => reply'[r].body \notin DOMAIN OutcomeTold
          PROVE  Clients!LogNext
        <3>1. told' = told
            BY <2>1, QuietTells
        <3>2. ASSUME NEW e \in Envelope, Submit(e)
              PROVE  Clients!LogNext
            BY <3>1, <3>2 DEF Submit, Clients!LogNext, Clients!Submit
        <3>3. ASSUME NEW n \in Node, NEW e \in Envelope, Adopt(n, e)
              PROVE  Clients!LogNext
            BY <3>1, <3>3 DEF Adopt, Clients!LogNext, Clients!Adopt
        <3>4. ~ UNCHANGED <<submitted, log>>
            BY <3>1
        <3> QED BY <3>2, <3>3, <3>4, LogStep DEF LogNext, Reply, logVars
    <2>2. ASSUME NEW c \in rpcs, Receive(c), Awaited(c)
          PROVE  Clients!LogNext
        <3> DEFINE n == Stubs[c.at]
                   e == env[c.request]
                   o == c.stage
        <3>1. /\ c.at \in 1..Len(Stubs) /\ o \in Outcome
              /\ UNCHANGED <<submitted, log>>
            BY <2>2, ReceiveTells
        <3>2. e \in Envelope /\ e \in submitted
            BY DEF RpcsKept, ToldIsAnswered
        <3>3. n \in Node /\ e # NoEnvelope
            BY <3>1, <3>2, GatewayAssumption, LogAssumption
        <3>4. o = "ACCEPTED" => Accepted(n, e) \notin told
            <4> SUFFICES ASSUME o = "ACCEPTED", Accepted(n, e) \in told
                         PROVE  FALSE
                OBVIOUS
            <4>1. PICK r \in Request : /\ reply[r].body \in DOMAIN OutcomeTold
                                       /\ OutcomeTold[reply[r].body] = "ACCEPTED"
                                       /\ AnsweredBy(r) = n /\ env[r] = e
                BY DEF told, Accepted
            <4>2. reply[r].body = "accepted"
                BY <4>1 DEF OutcomeTold
            <4> QED BY <4>1, <4>2 DEF ToldOnce
        <3>5. told' = told \cup {[node |-> n, env |-> e, outcome |-> o]}
            BY <2>2, ReceiveAdds
        <3>6. /\ o = "ACCEPTED" => ClaimedId[e] # NoId /\ log[n][ClaimedId[e]] = e
              /\ o = "ALREADY_EXISTS" =>
                     ClaimedId[e] # NoId /\ log[n][ClaimedId[e]] # NoEnvelope
            BY DEF RpcsKept
        <3>7. Clients!Reply(n, e, o)
            BY <3>1, <3>2, <3>4, <3>5, <3>6 DEF Clients!Reply, Clients!Accepted, Accepted
        <3>8. o \in Clients!Outcome
            BY <3>1 DEF Outcome, Clients!Outcome
        <3> QED BY <3>2, <3>3, <3>7, <3>8 DEF Clients!LogNext
    <2>3. ASSUME NEW c \in rpcs, NEW o \in Outcome, NodeAnswers(c, o)
          PROVE  Clients!LogNext
        BY <2>1, <2>3 DEF NodeAnswers
    <2> QED BY <2>1, <2>2, <2>3, QuietOrNot DEF Quiet
<1> QED BY <1>1, <1>2, SafeInvariant, ToldInvariant, PTL DEF Spec, ClientsSeeTheLog, Clients!LogSpec
=============================================================================
