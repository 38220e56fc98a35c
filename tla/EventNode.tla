----------------------------- MODULE EventNode ------------------------------
(***************************************************************************)
(* A network of Ecoa nodes (node/): each process has a bbolt event log, a  *)
(* gRPC door (server.Publish), a Run loop fed by the Gossipsub topic, and  *)
(* one background goroutine per accepted event that waits for the mesh and *)
(* publishes. Processes start, are interrupted, drain, exit and crash; the *)
(* log survives, everything else dies with the process.                    *)
(* Gossipsub and libp2p are external and modelled as the code uses them:   *)
(* no topic validator, no redial, a message with no route is lost.         *)
(***************************************************************************)
EXTENDS Naturals, FiniteSets

CONSTANTS
    Node, Envelope, Id, ClaimedId, NoId, NoEnvelope,   \* see EventLog
    Caller,       \* gateways: at most one call in flight each
    Flaggable,    \* files an operator may give to -publish
    Faults,       \* which of AllFaults the environment may produce
    MaxLives,     \* bound: how often one node may be started
    MaxFlags,     \* bound: how many processes are started with -publish
    SubBuffer     \* bound: messages a subscription holds before dropping

AllFaults == {"crash", "interrupt", "disk", "link"}

ASSUME DataAssumption ==
    /\ ClaimedId \in [Envelope -> Id \cup {NoId}]
    /\ NoId \notin Id
    /\ NoEnvelope \notin Envelope

ASSUME BoundAssumption ==
    /\ Faults \subseteq AllFaults
    /\ Flaggable \subseteq Envelope
    /\ MaxLives \in Nat
    /\ MaxFlags \in Nat
    /\ SubBuffer \in Nat

VARIABLES
    status,       \* status[n]: how far the process n is in main's life
    life,         \* life[n]: how many times n has been started
    log,          \* log[n][i]: the events bucket of n's bbolt file
    calls,        \* server.Publish calls in progress
    gossip,       \* gossip[m]: the goroutine that publishes m
    links,        \* libp2p connections, as pairs of nodes
    view,         \* view[n][p]: what n's Gossipsub knows of peer p
    wire,         \* copies of messages between two connected nodes
    inbox,        \* inbox[n]: messages buffered in n's subscription
    seen,         \* seen[n]: messages n's Gossipsub has already handled
    \* History, for properties:
    submitted,    \* envelopes handed in at either door
    answers,      \* what clients of the gRPC doors were told
    born,         \* born[n][i]: the life in which n stored i
    published,    \* published[n][i]: topic.Publish calls n made for its
                  \* gRPC clients with the id i, in all its lives
    dropped       \* dropped[n]: messages n received and did not handle, or
                  \* whose transaction failed

proc == <<status, life>>
net == <<links, view, wire, inbox, seen, dropped>>
vars == <<status, life, log, calls, gossip, links, view, wire, inbox, seen,
          submitted, answers, born, published, dropped>>

Lives == 1..MaxLives
Outcome == {"ACCEPTED", "ALREADY_EXISTS", "REJECTED"}
Result == {"new", "duplicate", "failed"}       \* nil, ErrDuplicate, others

(* A message is one call of topic.Publish: who makes it, in which life and *)
(* for which door, the gRPC server or the -publish flag.                   *)
Message == [env : Envelope, origin : Node, life : Lives,
            door : {"grpc", "flag"}]
Copy == [msg : Message, from : Node, to : Node]
Call == [caller : Caller, node : Node, env : Envelope,
         stage : {"arrived"} \cup Result]

Waiting == {"polling", "heartbeat", "grafted"}
Phase == Waiting \cup {"none", "sent", "lost"}

Running(n) == status[n] # "down"
Peers(n) == {p \in Node : view[n][p] # "unknown"}
Mesh(n) == {p \in Node : view[n][p] = "grafted"}
Linked(n, p) == {n, p} \in links
MessageFrom(n, e, d) ==
    [env |-> e, origin |-> n, life |-> life[n], door |-> d]

Init ==
    /\ status = [n \in Node |-> "down"]
    /\ life = [n \in Node |-> 0]
    /\ log = [n \in Node |-> [i \in Id |-> NoEnvelope]]
    /\ calls = {}
    /\ gossip = [m \in Message |-> "none"]
    /\ links = {}
    /\ view = [n \in Node |-> [p \in Node |-> "unknown"]]
    /\ wire = {}
    /\ inbox = [n \in Node |-> {}]
    /\ seen = [n \in Node |-> {}]
    /\ submitted = {}
    /\ answers = {}
    /\ born = [n \in Node |-> [i \in Id |-> 0]]
    /\ published = [n \in Node |-> [i \in Id |-> 0]]
    /\ dropped = [n \in Node |-> {}]

-----------------------------------------------------------------------------
(* The life of a process: main.                                            *)

(* Opens the store, dials the bootstrap peers (those it does not reach are *)
(* skipped for good), joins the topic, serves gRPC. With -publish a        *)
(* goroutine publishes the file without storing it first.                  *)
Start(n, reached, flagged) ==
    /\ status[n] = "down"
    /\ life[n] < MaxLives
    /\ \/ flagged = {}
       \/ Cardinality({m \in Message : m.door = "flag" /\ gossip[m] # "none"})
            < MaxFlags
    /\ status' = [status EXCEPT ![n] = "up"]
    /\ life' = [life EXCEPT ![n] = @ + 1]
    /\ links' = links \cup {{n, p} : p \in reached}
    /\ view' = [m \in Node |-> [p \in Node |->
                   IF n \in {m, p} THEN "unknown" ELSE view[m][p]]]
    /\ gossip' = [m \in Message |->
                   IF m.origin = n /\ m.life = life[n] + 1
                      /\ m.door = "flag" /\ m.env \in flagged
                   THEN "polling" ELSE gossip[m]]
    /\ submitted' = submitted \cup flagged
    /\ UNCHANGED <<log, calls, wire, inbox, seen, dropped,
                   answers, born, published>>

Interrupt(n) ==
    /\ "interrupt" \in Faults
    /\ status[n] = "up"
    /\ status' = [status EXCEPT ![n] = "stopping"]
    /\ UNCHANGED <<life, log, calls, gossip, net,
                   submitted, answers, born, published>>

(* Run returns on the cancelled context; GracefulStop then refuses new     *)
(* calls and waits for those in progress.                                  *)
RunReturns(n) ==
    /\ status[n] = "stopping"
    /\ status' = [status EXCEPT ![n] = "draining"]
    /\ UNCHANGED <<life, log, calls, gossip, net,
                   submitted, answers, born, published>>

\* Mutant: a log that is not synced to disk dies with the process.
EndsUnsynced(n) ==
    /\ status' = [status EXCEPT ![n] = "down"]
    /\ log' = [log EXCEPT ![n] = [i \in Id |-> NoEnvelope]]
    /\ calls' = {k \in calls : k.node # n}
    /\ UNCHANGED <<life, gossip, net,
                   submitted, answers, born, published>>

(* The process ends: everything but the log goes, goroutines included.     *)
Ends(n) ==
    /\ status' = [status EXCEPT ![n] = "down"]
    /\ calls' = {k \in calls : k.node # n}
    /\ gossip' = [m \in Message |->
                   IF m.origin = n /\ gossip[m] \in Waiting
                   THEN "lost" ELSE gossip[m]]
    /\ links' = {l \in links : n \notin l}
    /\ view' = [view EXCEPT ![n] = [p \in Node |-> "unknown"]]
    /\ wire' = {c \in wire : n \notin {c.from, c.to}}
    /\ inbox' = [inbox EXCEPT ![n] = {}]
    /\ seen' = [seen EXCEPT ![n] = {}]
    /\ dropped' = [dropped EXCEPT ![n] = {}]
    /\ UNCHANGED <<life, log, submitted, answers, born, published>>

\* Mutant: shutdown waits for the gossip goroutines as well.
ExitAwaitsGossip(n) ==
    /\ status[n] = "draining"
    /\ \A k \in calls : k.node # n
    /\ \A m \in Message : m.origin = n => gossip[m] \notin Waiting
    /\ Ends(n)

Exit(n) ==
    /\ status[n] = "draining"
    /\ \A k \in calls : k.node # n
    /\ Ends(n)

Crash(n) ==
    /\ "crash" \in Faults
    /\ Running(n)
    /\ Ends(n)

-----------------------------------------------------------------------------
(* The store, and the gRPC door.                                           *)

\* Mutant: Put without looking the id up first.
HandleOverwrites(n, e, r) ==
    /\ ClaimedId[e] # NoId
    /\ r = "new"
    /\ log' = [log EXCEPT ![n][ClaimedId[e]] = e]
    /\ born' = [born EXCEPT ![n][ClaimedId[e]] = life[n]]

\* Mutant: the lookup and the Put in two transactions, both of which win.
HandleRaces(n, e, r) ==
    /\ ClaimedId[e] # NoId
    /\ r = "new"
    /\ log' = [log EXCEPT ![n][ClaimedId[e]] =
                  IF @ = NoEnvelope THEN e ELSE @]
    /\ UNCHANGED born

(* Node.Handle over Store.AddEvent, one bbolt transaction: r is what it    *)
(* returns. The id is the claimed one: the envelope is not verified.       *)
Handle(n, e, r) ==
    LET i == ClaimedId[e] IN
    \/ /\ i = NoId
       /\ r = "failed"
       /\ UNCHANGED <<log, born>>
    \/ /\ i # NoId
       /\ log[n][i] # NoEnvelope
       /\ r = "duplicate"
       /\ UNCHANGED <<log, born>>
    \/ /\ i # NoId
       /\ log[n][i] = NoEnvelope
       /\ r = "new"
       /\ log' = [log EXCEPT ![n][i] = e]
       /\ born' = [born EXCEPT ![n][i] = life[n]]
    \/ /\ i # NoId
       /\ log[n][i] = NoEnvelope
       /\ "disk" \in Faults
       /\ r = "failed"
       /\ UNCHANGED <<log, born>>

Arrive(c, n, e) ==
    /\ status[n] \in {"up", "stopping"}
    /\ \A k \in calls : k.caller # c
    /\ calls' = calls \cup {[caller |-> c, node |-> n, env |-> e,
                             stage |-> "arrived"]}
    /\ submitted' = submitted \cup {e}
    /\ UNCHANGED <<proc, log, gossip, net, answers, born, published>>

ServerHandle(k, r) ==
    /\ k.stage = "arrived"
    /\ Handle(k.node, k.env, r)
    /\ calls' = (calls \ {k}) \cup {[k EXCEPT !.stage = r]}
    /\ UNCHANGED <<proc, gossip, net, submitted, answers, published>>

\* Mutant: an outcome of the contract the node never means.
OutcomeOfOrphan(r) == IF r = "new" THEN "ACCEPTED" ELSE "ORPHAN"

OutcomeOf(r) ==
    CASE r = "duplicate" -> "ALREADY_EXISTS"
      [] r = "failed" -> "REJECTED"
      [] OTHER -> "ACCEPTED"

\* Mutant: a resubmission starts a goroutine like a new event does.
ServerAnswerAgain(k) ==
    /\ k.stage \in Result
    /\ calls' = calls \ {k}
    /\ answers' = answers \cup {[node |-> k.node, env |-> k.env,
                                 outcome |-> OutcomeOf(k.stage)]}
    /\ IF k.stage # "failed"
       THEN gossip' = [gossip EXCEPT
                         ![MessageFrom(k.node, k.env, "grpc")] = "polling"]
       ELSE UNCHANGED gossip
    /\ UNCHANGED <<proc, log, net, submitted, born, published>>

(* A new event starts its gossip goroutine, then the call is answered.     *)
ServerAnswer(k) ==
    /\ k.stage \in Result
    /\ calls' = calls \ {k}
    /\ answers' = answers \cup {[node |-> k.node, env |-> k.env,
                                 outcome |-> OutcomeOf(k.stage)]}
    /\ IF k.stage = "new"
       THEN gossip' = [gossip EXCEPT
                         ![MessageFrom(k.node, k.env, "grpc")] = "polling"]
       ELSE UNCHANGED gossip
    /\ UNCHANGED <<proc, log, net, submitted, born, published>>

-----------------------------------------------------------------------------
(* The gossip goroutine: Node.Publish.                                     *)

Goroutine(m, phase) ==
    /\ Running(m.origin)
    /\ m.life = life[m.origin]
    /\ gossip[m] = phase

\* Mutant: a listed peer is enough, no heartbeat is waited for.
SeePeersHasty(m) ==
    /\ Goroutine(m, "polling")
    /\ Peers(m.origin) # {}
    /\ gossip' = [gossip EXCEPT ![m] = "grafted"]
    /\ UNCHANGED <<proc, log, calls, net,
                   submitted, answers, born, published>>

\* WaitForPeers' loop ends: some peer is listed now.
SeePeers(m) ==
    /\ Goroutine(m, "polling")
    /\ Peers(m.origin) # {}
    /\ gossip' = [gossip EXCEPT ![m] = "heartbeat"]
    /\ UNCHANGED <<proc, log, calls, net,
                   submitted, answers, born, published>>

(* One heartbeat of Gossipsub: listed peers are grafted, and the           *)
(* goroutines that waited for one are through, whoever has left meanwhile. *)
Heartbeat(n) ==
    /\ Running(n)
    /\ view' = [view EXCEPT ![n] = [p \in Node |->
                  IF view[n][p] = "listed" THEN "grafted" ELSE view[n][p]]]
    /\ gossip' = [m \in Message |->
                    IF m.origin = n /\ gossip[m] = "heartbeat"
                    THEN "grafted" ELSE gossip[m]]
    /\ UNCHANGED <<proc, log, calls, links, wire, inbox, seen, dropped,
                   submitted, answers, born, published>>

\* Mutant: waiting for peers has a time limit of its own.
GiveUpEarly(m) ==
    /\ Goroutine(m, "polling")
    /\ gossip' = [gossip EXCEPT ![m] = "lost"]
    /\ UNCHANGED <<proc, log, calls, net,
                   submitted, answers, born, published>>

\* WaitForPeers returns ctx.Err() and the event is not gossiped.
GiveUp(m) ==
    /\ \E phase \in Waiting : Goroutine(m, phase)
    /\ status[m.origin] # "up"
    /\ gossip' = [gossip EXCEPT ![m] = "lost"]
    /\ UNCHANGED <<proc, log, calls, net,
                   submitted, answers, born, published>>

\* What n's Gossipsub sends: one copy per mesh peer still connected.
Forward(n, m, others) ==
    {[msg |-> m, from |-> n, to |-> p] :
        p \in {q \in Mesh(n) \ others : Linked(n, q)}}

Buffered(n, m) ==
    IF Cardinality(inbox[n]) < SubBuffer
    THEN [inbox EXCEPT ![n] = @ \cup {m}] ELSE inbox

\* A full subscription loses the message; Gossipsub has relayed it already.
Overflown(n, m) ==
    IF Cardinality(inbox[n]) < SubBuffer
    THEN dropped ELSE [dropped EXCEPT ![n] = @ \cup {m}]

(* topic.Publish: to the mesh, and to the node's own subscription.         *)
GossipPublish(m) ==
    /\ Goroutine(m, "grafted")
    /\ gossip' = [gossip EXCEPT ![m] = "sent"]
    /\ wire' = wire \cup Forward(m.origin, m, {})
    /\ inbox' = Buffered(m.origin, m)
    /\ dropped' = Overflown(m.origin, m)
    /\ seen' = [seen EXCEPT ![m.origin] = @ \cup {m}]
    /\ published' = IF m.door = "grpc"
                    THEN [published EXCEPT
                            ![m.origin][ClaimedId[m.env]] = @ + 1]
                    ELSE published
    /\ UNCHANGED <<proc, log, calls, links, view, submitted, answers, born>>

-----------------------------------------------------------------------------
(* Gossipsub and the network, and the Run loop that reads from it.         *)

Learn(n, p) ==
    /\ Linked(n, p)
    /\ view[n][p] = "unknown"
    /\ view' = [view EXCEPT ![n][p] = "listed"]
    /\ UNCHANGED <<proc, log, calls, gossip, links, wire, inbox, seen, dropped,
                   submitted, answers, born, published>>

Forget(n, p) ==
    /\ ~Linked(n, p)
    /\ view[n][p] # "unknown"
    /\ view' = [view EXCEPT ![n][p] = "unknown"]
    /\ UNCHANGED <<proc, log, calls, gossip, links, wire, inbox, seen, dropped,
                   submitted, answers, born, published>>

Unlink(n, p) ==
    /\ "link" \in Faults
    /\ Linked(n, p)
    /\ links' = links \ {{n, p}}
    /\ wire' = {c \in wire : {c.from, c.to} # {n, p}}
    /\ UNCHANGED <<proc, log, calls, gossip, view, inbox, seen, dropped,
                   submitted, answers, born, published>>

(* A first copy is relayed at once and buffered for Run, or dropped when   *)
(* the buffer is full; later copies are ignored.                           *)
Deliver(c) ==
    /\ IF c.msg \in seen[c.to]
       THEN /\ wire' = wire \ {c}
            /\ UNCHANGED <<inbox, seen, dropped>>
       ELSE /\ wire' = (wire \ {c})
                        \cup Forward(c.to, c.msg, {c.from, c.msg.origin})
            /\ inbox' = Buffered(c.to, c.msg)
            /\ dropped' = Overflown(c.to, c.msg)
            /\ seen' = [seen EXCEPT ![c.to] = @ \cup {c.msg}]
    /\ UNCHANGED <<proc, log, calls, gossip, links, view,
                   submitted, answers, born, published>>

\* Mutant: Run passes over what the node itself has published.
RunSkipsOwn(n, m, r) ==
    /\ status[n] \in {"up", "stopping"}
    /\ m \in inbox[n]
    /\ IF m.origin = n
       THEN r = "duplicate" /\ UNCHANGED <<log, born, dropped>>
       ELSE /\ Handle(n, m.env, r)
            /\ dropped' = IF r = "failed"
                          THEN [dropped EXCEPT ![n] = @ \cup {m}] ELSE dropped
    /\ inbox' = [inbox EXCEPT ![n] = @ \ {m}]
    /\ UNCHANGED <<proc, calls, gossip, links, view, wire, seen,
                   submitted, answers, published>>

(* One turn of Run: ReceiveEvent, Handle; a duplicate is passed over, an   *)
(* error is logged and the message dropped.                                *)
Run(n, m, r) ==
    /\ status[n] \in {"up", "stopping"}
    /\ m \in inbox[n]
    /\ Handle(n, m.env, r)
    /\ inbox' = [inbox EXCEPT ![n] = @ \ {m}]
    /\ dropped' = IF r = "failed"
                  THEN [dropped EXCEPT ![n] = @ \cup {m}] ELSE dropped
    /\ UNCHANGED <<proc, calls, gossip, links, view, wire, seen,
                   submitted, answers, published>>

-----------------------------------------------------------------------------
NodeStep(n) ==
    \/ \E reached \in SUBSET {p \in Node \ {n} : Running(p)},
          flagged \in {{}} \cup {{e} : e \in Flaggable} :
            Start(n, reached, flagged)
    \/ Interrupt(n)
    \/ RunReturns(n)
    \/ Exit(n)
    \/ Crash(n)
    \/ Heartbeat(n)
    \/ \E m \in inbox[n], r \in Result : Run(n, m, r)

CallStep ==
    \/ \E c \in Caller, n \in Node, e \in Envelope : Arrive(c, n, e)
    \/ \E k \in calls, r \in Result : ServerHandle(k, r)
    \/ \E k \in calls : ServerAnswer(k)

GossipStep(m) == SeePeers(m) \/ GiveUp(m) \/ GossipPublish(m)

LinkStep(n, p) == Learn(n, p) \/ Forget(n, p) \/ Unlink(n, p)

Next ==
    \/ \E n \in Node : NodeStep(n)
    \/ CallStep
    \/ \E m \in Message : GossipStep(m)
    \/ \E n, p \in Node : LinkStep(n, p)
    \/ \E c \in wire : Deliver(c)

Spec == Init /\ [][Next]_vars

(* A running process is scheduled, heartbeats tick, and a connection that  *)
(* stays up delivers. Nobody has to submit, start a node or break anything.*)
Fairness ==
    /\ WF_vars(\E k \in calls, r \in Result : ServerHandle(k, r))
    /\ WF_vars(\E k \in calls : ServerAnswer(k))
    /\ \A m \in Message : WF_vars(SeePeers(m)) /\ WF_vars(GossipPublish(m))
    /\ \A n \in Node : WF_vars(Heartbeat(n))
    /\ \A n \in Node : WF_vars(\E m \in inbox[n], r \in Result : Run(n, m, r))
    /\ \A n, p \in Node : WF_vars(Learn(n, p))
    /\ WF_vars(\E c \in wire : Deliver(c))
    /\ \A n \in Node : WF_vars(RunReturns(n)) /\ WF_vars(Exit(n))

FairSpec == Spec /\ Fairness

-----------------------------------------------------------------------------
(* Every variable has its type.                                            *)
TypeOK ==
    /\ status \in [Node -> {"down", "up", "stopping", "draining"}]
    /\ life \in [Node -> 0..MaxLives]
    /\ log \in [Node -> [Id -> Envelope \cup {NoEnvelope}]]
    /\ calls \subseteq Call
    /\ gossip \in [Message -> Phase]
    /\ links \subseteq SUBSET Node
    /\ view \in [Node -> [Node -> {"unknown", "listed", "grafted"}]]
    /\ wire \subseteq Copy
    /\ inbox \in [Node -> SUBSET Message]
    /\ seen \in [Node -> SUBSET Message]
    /\ submitted \subseteq Envelope
    /\ answers \subseteq [node : Node, env : Envelope, outcome : Outcome]
    /\ born \in [Node -> [Id -> 0..MaxLives]]
    /\ published \in [Node -> [Id -> Nat]]
    /\ dropped \in [Node -> SUBSET Message]

(* The network of nodes implements the write-once log of EventLog.         *)
Log == INSTANCE EventLog WITH
    Node <- Node, Envelope <- Envelope, Id <- Id, ClaimedId <- ClaimedId,
    NoId <- NoId, NoEnvelope <- NoEnvelope,
    submitted <- submitted, log <- log, answers <- answers
ImplementsEventLog == Log!LogSpec

(* What a node once answered stays true through crashes and restarts: an   *)
(* accepted envelope is the one stored under its id, and ALREADY_EXISTS    *)
(* was said of an id that is stored (store.AddEvent, server.Publish).      *)
AnswersHold == Log!AnswersHold

(* No crash, restart, retry or rival changes an entry of a log             *)
(* (store.AddEvent, bbolt's Update).                                       *)
WriteOnce == Log!WriteOnce

(* Of all the calls and lives of a node, one at most is told ACCEPTED for  *)
(* an id: a call about to be told so has no rival and no predecessor, even *)
(* with the Run loop storing the same ids (server.Publish).                *)
SoleAcceptance ==
    \A k \in calls :
        k.stage = "new" =>
            /\ \A j \in calls \ {k} :
                   ~ /\ j.node = k.node
                     /\ j.stage = "new"
                     /\ ClaimedId[j.env] = ClaimedId[k.env]
            /\ \A a \in answers :
                   ~ /\ a.node = k.node
                     /\ a.outcome = "ACCEPTED"
                     /\ ClaimedId[a.env] = ClaimedId[k.env]

(* While a node is up, an event it stored in this life is not kept from    *)
(* the network: its call is still to be answered, or its goroutine waits,  *)
(* or somebody has published it (server.Publish, Node.Publish).            *)
OnItsWay(n, e) ==
    \/ \E k \in calls : k.node = n /\ k.env = e /\ k.stage = "new"
    \/ \E m \in Message :
          /\ m.env = e
          /\ \/ gossip[m] = "sent"
             \/ m.origin = n /\ m.life = life[n] /\ gossip[m] \in Waiting

NoQuietEntry ==
    \A n \in Node, i \in Id :
        /\ status[n] = "up"
        /\ log[n][i] # NoEnvelope
        /\ born[n][i] = life[n]
        => OnItsWay(n, log[n][i])

(* Over all its lives a node publishes each id for its clients once: no    *)
(* resubmission, before or after the first goroutine is through, no rival  *)
(* call with other bytes under that id, no copy of the event that comes by *)
(* gossip and no restart makes it publish the id a second time, which is a *)
(* new message to every peer (server.Publish, store.AddEvent).             *)
GossipedOnce == \A n \in Node, i \in Id : published[n][i] <= 1

Stored(n, e) == ClaimedId[e] # NoId /\ log[n][ClaimedId[e]] # NoEnvelope

(* Gossipsub passes a message on before Run has handled it, and -publish   *)
(* puts one on the topic that the node has not stored. Either way a        *)
(* running node keeps the event too: its id is in the log, or the message  *)
(* still waits for Run, unless the subscription overflowed or the          *)
(* transaction failed (Peer.ReceiveEvent, Run, Node.Publish).              *)
RelayedIsStored ==
    \A n \in Node : \A m \in seen[n] :
        Stored(n, m.env) \/ m \in inbox[n] \/ m \in dropped[n]

(* Unless a process is stopped, an event accepted by a connected node gets *)
(* to another node: the goroutine outwaits an empty topic and an ungrafted *)
(* mesh (WaitForPeers, Run).                                               *)
AcceptedSpreads ==
    \A n \in Node, e \in Envelope :
        (/\ Log!Accepted(n, e) \in answers
         /\ \E p \in Node : Linked(n, p))
        ~> \/ \E p \in Node \ {n} : Stored(p, e)
           \/ \E p \in Node : life[p] > 0 /\ status[p] # "up"

(* An interrupted process gets out: Run returns and GracefulStop is not    *)
(* held by a call for ever (main).                                         *)
InterruptedExits ==
    \A n \in Node : status[n] = "stopping" ~> status[n] = "down"

=============================================================================
