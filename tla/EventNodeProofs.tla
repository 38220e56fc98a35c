-------------------------- MODULE EventNodeProofs ---------------------------
(***************************************************************************)
(* Proofs about EventNode, for any sets of nodes, gateways, envelopes and  *)
(* ids, any faults and any bounds.                                         *)
(***************************************************************************)
EXTENDS EventNode, TLAPS

(* A step is a stutter or one of the actions, each with its parameters.    *)
LEMMA StepCases ==
    ASSUME [Next]_vars
    PROVE  \/ \E n \in Node, reached \in SUBSET Node, flagged \in SUBSET Flaggable :
                 /\ reached \subseteq {p \in Node \ {n} : Running(p)}
                 /\ Start(n, reached, flagged)
           \/ \E n \in Node : Interrupt(n) \/ RunReturns(n) \/ Exit(n) \/ Crash(n)
                              \/ Heartbeat(n)
           \/ \E n \in Node, r \in Result : \E m \in inbox[n] : Run(n, m, r)
           \/ \E c \in Caller, n \in Node, e \in Envelope : Arrive(c, n, e)
           \/ \E k \in calls, r \in Result : ServerHandle(k, r)
           \/ \E k \in calls : ServerAnswer(k)
           \/ \E m \in Message : SeePeers(m) \/ GiveUp(m) \/ GossipPublish(m)
           \/ \E n, p \in Node : Learn(n, p) \/ Forget(n, p) \/ Unlink(n, p)
           \/ \E c \in wire : Deliver(c)
           \/ UNCHANGED vars
<1>1. ASSUME NEW n \in Node, NodeStep(n)
      PROVE  \/ \E reached \in SUBSET Node, flagged \in SUBSET Flaggable :
                   /\ reached \subseteq {p \in Node \ {n} : Running(p)}
                   /\ Start(n, reached, flagged)
             \/ Interrupt(n) \/ RunReturns(n) \/ Exit(n) \/ Crash(n) \/ Heartbeat(n)
             \/ \E r \in Result : \E m \in inbox[n] : Run(n, m, r)
    <2>1. CASE \E reached \in SUBSET {p \in Node \ {n} : Running(p)},
                  flagged \in {{}} \cup {{e} : e \in Flaggable} :
                    Start(n, reached, flagged)
        BY <2>1
    <2> QED BY <1>1, <2>1 DEF NodeStep
<1> QED BY <1>1 DEF Next, CallStep, GossipStep, LinkStep

-----------------------------------------------------------------------------
(* Types.                                                                  *)

LEMMA TypeInit == Init => TypeOK
BY DataAssumption, BoundAssumption DEF Init, TypeOK, Phase

\* Handle leaves the log and its history well typed.
LEMMA HandleTypes ==
    ASSUME TypeOK, NEW n \in Node, NEW e \in Envelope, NEW r, Handle(n, e, r)
    PROVE  /\ log' \in [Node -> [Id -> Envelope \cup {NoEnvelope}]]
           /\ born' \in [Node -> [Id -> 0..MaxLives]]
           /\ r \in Result
<1>1. r \in Result
    BY DEF Handle, Result
<1>2. CASE UNCHANGED <<log, born>>
    BY <1>1, <1>2 DEF TypeOK
<1>3. CASE ~ UNCHANGED <<log, born>>
    <2>1. /\ ClaimedId[e] \in Id
          /\ log' = [log EXCEPT ![n][ClaimedId[e]] = e]
          /\ born' = [born EXCEPT ![n][ClaimedId[e]] = life[n]]
        BY <1>3, DataAssumption DEF Handle
    <2> QED BY <1>1, <2>1 DEF TypeOK
<1> QED BY <1>2, <1>3

LEMMA GossipTypes ==
    ASSUME TypeOK
    PROVE  /\ \A phase \in Waiting \cup {"none", "sent", "lost"} : phase \in Phase
           /\ \A m \in Message : gossip[m] \in Phase
           /\ {"polling", "heartbeat", "grafted"} \subseteq Phase
           /\ gossip \in [Message -> Phase]
BY DEF TypeOK, Phase, Waiting

\* The end of a process leaves everything well typed.
LEMMA EndsTypes ==
    ASSUME TypeOK, NEW n \in Node, Ends(n)
    PROVE  TypeOK'
BY DEF TypeOK, Ends, Phase, Waiting

LEMMA BufferedTypes ==
    ASSUME TypeOK, NEW n \in Node, NEW m \in Message
    PROVE  Buffered(n, m) \in [Node -> SUBSET Message]
BY DEF TypeOK, Buffered

LEMMA OverflownTypes ==
    ASSUME TypeOK, NEW n \in Node, NEW m \in Message
    PROVE  Overflown(n, m) \in [Node -> SUBSET Message]
BY DEF TypeOK, Overflown

\* The publications of a node are counted under the ids there are.
LEMMA PublishedTypes ==
    ASSUME TypeOK, NEW m \in Message, GossipPublish(m)
    PROVE  published' \in [Node -> [Id -> Nat]]
<1>1. published \in [Node -> [Id -> Nat]] /\ m.origin \in Node
    BY DEF TypeOK, Message
<1>2. CASE m.door = "grpc"
    <2> DEFINE counts(i) == published[m.origin][i] + 1
    <2>1. \A i \in Id : counts(i) \in Nat
        BY <1>1
    <2>2. published' = [published EXCEPT ![m.origin] =
                          [published[m.origin] EXCEPT ![ClaimedId[m.env]] =
                              counts(ClaimedId[m.env])]]
        BY <1>2 DEF GossipPublish
    <2>3. [published[m.origin] EXCEPT ![ClaimedId[m.env]] = counts(ClaimedId[m.env])]
              \in [Id -> Nat]
        <3> HIDE DEF counts
        <3> QED BY <1>1, <2>1
    <2> HIDE DEF counts
    <2> QED BY <1>1, <2>2, <2>3
<1>3. CASE m.door # "grpc"
    BY <1>1, <1>3 DEF GossipPublish
<1> QED BY <1>2, <1>3

LEMMA ForwardTypes ==
    ASSUME NEW n \in Node, NEW m \in Message, NEW others
    PROVE  Forward(n, m, others) \subseteq Copy
BY DEF Forward, Mesh, Copy

LEMMA TypeStep == TypeOK /\ [Next]_vars => TypeOK'
<1> SUFFICES ASSUME TypeOK, [Next]_vars PROVE TypeOK'
    OBVIOUS
<1>1. ASSUME NEW n \in Node, NEW reached \in SUBSET Node, NEW flagged \in SUBSET Flaggable,
             Start(n, reached, flagged)
      PROVE  TypeOK'
    <2>1. life' \in [Node -> 0..MaxLives]
        BY <1>1, BoundAssumption DEF TypeOK, Start
    <2>2. gossip' \in [Message -> Phase]
        BY <1>1, GossipTypes DEF Start
    <2>3. links' \subseteq SUBSET Node
        <3> SUFFICES ASSUME NEW l \in links' PROVE l \in SUBSET Node
            OBVIOUS
        <3>1. l \in links \/ \E p \in reached : l = {n, p}
            BY <1>1 DEF Start
        <3>2. CASE l \in links
            BY <3>2 DEF TypeOK
        <3>3. CASE \E p \in reached : l = {n, p}
            BY <3>3
        <3> QED BY <3>1, <3>2, <3>3
    <2>4. view' \in [Node -> [Node -> {"unknown", "listed", "grafted"}]]
        BY <1>1 DEF TypeOK, Start
    <2>5. submitted' \subseteq Envelope
        BY <1>1, BoundAssumption DEF TypeOK, Start
    <2> QED BY <1>1, <2>1, <2>2, <2>3, <2>4, <2>5 DEF TypeOK, Start
<1>2. ASSUME NEW n \in Node, Interrupt(n) \/ RunReturns(n)
      PROVE  TypeOK'
    BY <1>2 DEF TypeOK, Interrupt, RunReturns, net
<1>3. ASSUME NEW n \in Node, Exit(n) \/ Crash(n)
      PROVE  TypeOK'
    BY <1>3, EndsTypes DEF Exit, Crash
<1>4. ASSUME NEW n \in Node, Heartbeat(n)
      PROVE  TypeOK'
    <2>1. view' \in [Node -> [Node -> {"unknown", "listed", "grafted"}]]
        BY <1>4 DEF TypeOK, Heartbeat
    <2>2. gossip' \in [Message -> Phase]
        BY <1>4, GossipTypes DEF Heartbeat
    <2> QED BY <1>4, <2>1, <2>2 DEF TypeOK, Heartbeat, proc
<1>5. ASSUME NEW n \in Node, NEW r \in Result, NEW m \in inbox[n], Run(n, m, r)
      PROVE  TypeOK'
    <2>1. m.env \in Envelope
        BY DEF TypeOK, Message
    <2>2. dropped' \in [Node -> SUBSET Message]
        BY <1>5 DEF TypeOK, Run
    <2> QED BY <1>5, <2>1, <2>2, HandleTypes DEF TypeOK, Run, proc
<1>6. ASSUME NEW c \in Caller, NEW n \in Node, NEW e \in Envelope, Arrive(c, n, e)
      PROVE  TypeOK'
    BY <1>6 DEF TypeOK, Arrive, Call, proc, net
<1>7. ASSUME NEW k \in calls, NEW r \in Result, ServerHandle(k, r)
      PROVE  TypeOK'
    <2>1. k \in Call
        BY DEF TypeOK
    <2>2. [k EXCEPT !.stage = r] \in Call
        BY <2>1 DEF Call
    <2> QED BY <1>7, <2>1, <2>2, HandleTypes DEF TypeOK, ServerHandle, Call, proc, net
<1>8. ASSUME NEW k \in calls, ServerAnswer(k)
      PROVE  TypeOK'
    <2>1. k \in Call
        BY DEF TypeOK
    <2>2. OutcomeOf(k.stage) \in Outcome
        BY DEF OutcomeOf, Outcome
    <2>3. gossip' \in [Message -> Phase]
        BY <1>8 DEF TypeOK, ServerAnswer, Phase, Waiting
    <2> QED BY <1>8, <2>1, <2>2, <2>3 DEF TypeOK, ServerAnswer, Call, proc, net
<1>9. ASSUME NEW m \in Message, SeePeers(m) \/ GiveUp(m)
      PROVE  TypeOK'
    <2>1. gossip' \in [Message -> Phase]
        BY <1>9, GossipTypes DEF SeePeers, GiveUp
    <2> QED BY <1>9, <2>1 DEF TypeOK, SeePeers, GiveUp, proc, net
<1>10. ASSUME NEW m \in Message, GossipPublish(m)
       PROVE  TypeOK'
    <2>1. m.origin \in Node
        BY DEF Message
    <2>2. wire' \subseteq Copy /\ inbox' \in [Node -> SUBSET Message]
        BY <1>10, <2>1, ForwardTypes, BufferedTypes DEF TypeOK, GossipPublish
    <2>3. dropped' \in [Node -> SUBSET Message] /\ published' \in [Node -> [Id -> Nat]]
        BY <1>10, <2>1, OverflownTypes, PublishedTypes DEF GossipPublish
    <2> QED BY <1>10, <2>2, <2>3 DEF TypeOK, GossipPublish, Phase, Waiting, proc
<1>11. ASSUME NEW n \in Node, NEW p \in Node, Learn(n, p) \/ Forget(n, p) \/ Unlink(n, p)
       PROVE  TypeOK'
    <2>1. CASE Learn(n, p)
        BY <2>1 DEF TypeOK, Learn, proc
    <2>2. CASE Forget(n, p)
        BY <2>2 DEF TypeOK, Forget, proc
    <2>3. CASE Unlink(n, p)
        BY <2>3 DEF TypeOK, Unlink, proc
    <2> QED BY <1>11, <2>1, <2>2, <2>3
<1>12. ASSUME NEW c \in wire, Deliver(c)
       PROVE  TypeOK'
    <2>1. c.to \in Node /\ c.msg \in Message
        BY DEF TypeOK, Copy
    <2>2. Forward(c.to, c.msg, {c.from, c.msg.origin}) \subseteq Copy
        BY <2>1, ForwardTypes
    <2>3. Buffered(c.to, c.msg) \in [Node -> SUBSET Message]
        BY <2>1, BufferedTypes
    <2>4. /\ wire' \subseteq Copy
          /\ inbox' \in [Node -> SUBSET Message]
          /\ seen' \in [Node -> SUBSET Message]
          /\ dropped' \in [Node -> SUBSET Message]
        <3>1. CASE c.msg \in seen[c.to]
            BY <1>12, <3>1 DEF TypeOK, Deliver
        <3>2. CASE c.msg \notin seen[c.to]
            <4>1. /\ wire' = (wire \ {c})
                                 \cup Forward(c.to, c.msg, {c.from, c.msg.origin})
                  /\ inbox' = Buffered(c.to, c.msg)
                  /\ dropped' = Overflown(c.to, c.msg)
                  /\ seen' = [seen EXCEPT ![c.to] = @ \cup {c.msg}]
                BY <1>12, <3>2 DEF Deliver
            <4> QED BY <2>1, <2>2, <2>3, <4>1, OverflownTypes DEF TypeOK
        <3> QED BY <3>1, <3>2
    <2> QED BY <1>12, <2>4 DEF TypeOK, Deliver, proc
<1>13. CASE UNCHANGED vars
    BY <1>13 DEF TypeOK, vars
<1> QED BY <1>1, <1>2, <1>3, <1>4, <1>5, <1>6, <1>7, <1>8, <1>9, <1>10, <1>11, <1>12,
           <1>13, StepCases

(* Every variable keeps its type.                                          *)
THEOREM TypeCorrect == Spec => []TypeOK
<1> QED BY TypeInit, TypeStep, PTL DEF Spec

-----------------------------------------------------------------------------
(* The inductive invariant behind the safety properties. AnswersHold and   *)
(* SoleAcceptance speak of answers already given; what makes them last is  *)
(* what is known of the calls still in progress and of the goroutines.     *)

StoredAs(n, e) == ClaimedId[e] # NoId /\ log[n][ClaimedId[e]] = e

\* Calls run at live processes, and know the log they are about to answer for.
CallsKept ==
    \A k \in calls :
        /\ Running(k.node)
        /\ k.env \in submitted
        /\ k.stage = "new" => StoredAs(k.node, k.env)
        /\ k.stage = "duplicate" => Stored(k.node, k.env)

\* A goroutine belongs to a life its node has reached; those of the gRPC
\* door publish what was accepted.
GossipKept ==
    \A m \in Message :
        gossip[m] # "none" =>
            /\ m.env \in submitted
            /\ m.life <= life[m.origin]
            /\ m.door = "grpc" => Log!Accepted(m.origin, m.env) \in answers

\* What is on the wire, buffered or handled was published by its goroutine.
OnlyPublished ==
    /\ \A c \in wire : gossip[c.msg] = "sent"
    /\ \A n \in Node : \A m \in inbox[n] \cup seen[n] : gossip[m] = "sent"

\* Lives are counted from 1, and entries date from lives already begun.
LivesKept ==
    \A n \in Node :
        /\ Running(n) => life[n] # 0
        /\ \A i \in Id : born[n][i] <= life[n]

SafeInv ==
    /\ TypeOK
    /\ LivesKept
    /\ CallsKept
    /\ GossipKept
    /\ OnlyPublished
    /\ AnswersHold
    /\ SoleAcceptance

-----------------------------------------------------------------------------
(* Which actions change a variable.                                        *)

LEMMA LogFrame ==
    ASSUME [Next]_vars, ~ UNCHANGED <<log, born>>
    PROVE  \/ \E n \in Node, r \in Result : \E m \in inbox[n] : Run(n, m, r)
           \/ \E k \in calls, r \in Result : ServerHandle(k, r)
BY StepCases DEF Start, Interrupt, RunReturns, Exit, Crash, Ends, Heartbeat, Arrive,
    ServerAnswer, SeePeers, GiveUp, GossipPublish, Learn, Forget, Unlink, Deliver, vars

LEMMA AnswersFrame ==
    ASSUME [Next]_vars, ~ UNCHANGED answers
    PROVE  \E k \in calls : ServerAnswer(k)
BY StepCases DEF Start, Interrupt, RunReturns, Exit, Crash, Ends, Heartbeat, Run, Arrive,
    ServerHandle, SeePeers, GiveUp, GossipPublish, Learn, Forget, Unlink, Deliver, vars

LEMMA CallsFrame ==
    ASSUME [Next]_vars, ~ UNCHANGED calls
    PROVE  \/ \E n \in Node : Ends(n)
           \/ \E c \in Caller, n \in Node, e \in Envelope : Arrive(c, n, e)
           \/ \E k \in calls, r \in Result : ServerHandle(k, r)
           \/ \E k \in calls : ServerAnswer(k)
BY StepCases DEF Start, Interrupt, RunReturns, Exit, Crash, Heartbeat, Run,
    SeePeers, GiveUp, GossipPublish, Learn, Forget, Unlink, Deliver, vars

LEMMA ProcFrame ==
    ASSUME [Next]_vars, ~ UNCHANGED <<status, life>>
    PROVE  \/ \E n \in Node, reached \in SUBSET Node, flagged \in SUBSET Flaggable :
                 Start(n, reached, flagged)
           \/ \E n \in Node : Interrupt(n) \/ RunReturns(n) \/ Ends(n)
BY StepCases DEF Exit, Crash, Heartbeat, Run, Arrive, ServerHandle, ServerAnswer,
    SeePeers, GiveUp, GossipPublish, Learn, Forget, Unlink, Deliver, vars, proc

LEMMA GossipFrame ==
    ASSUME [Next]_vars, ~ UNCHANGED gossip
    PROVE  \/ \E n \in Node, reached \in SUBSET Node, flagged \in SUBSET Flaggable :
                 Start(n, reached, flagged)
           \/ \E n \in Node : Ends(n) \/ Heartbeat(n)
           \/ \E k \in calls : ServerAnswer(k)
           \/ \E m \in Message : SeePeers(m) \/ GiveUp(m) \/ GossipPublish(m)
BY StepCases DEF Interrupt, RunReturns, Exit, Crash, Run, Arrive, ServerHandle,
    Learn, Forget, Unlink, Deliver, vars

LEMMA SubmittedGrows ==
    ASSUME [Next]_vars
    PROVE  submitted \subseteq submitted'
BY StepCases DEF Start, Interrupt, RunReturns, Exit, Crash, Ends, Heartbeat, Run, Arrive,
    ServerHandle, ServerAnswer, SeePeers, GiveUp, GossipPublish, Learn, Forget, Unlink,
    Deliver, vars

-----------------------------------------------------------------------------
(* What a step does to the log: store.AddEvent writes an id once.          *)

LEMMA HandleEffect ==
    ASSUME TypeOK, NEW n \in Node, NEW e \in Envelope, NEW r, Handle(n, e, r)
    PROVE  /\ \A p \in Node, i \in Id :
                 log[p][i] # NoEnvelope => log'[p][i] = log[p][i]
           /\ r = "new" => /\ ClaimedId[e] \in Id
                           /\ ClaimedId[e] # NoId
                           /\ log[n][ClaimedId[e]] = NoEnvelope
                           /\ log'[n][ClaimedId[e]] = e
           /\ r = "duplicate" => ClaimedId[e] # NoId /\ log[n][ClaimedId[e]] # NoEnvelope
           /\ r # "new" => UNCHANGED <<log, born>>
<1>1. CASE r = "new"
    <2>1. /\ ClaimedId[e] \in Id
          /\ log[n][ClaimedId[e]] = NoEnvelope
          /\ log' = [log EXCEPT ![n][ClaimedId[e]] = e]
        BY <1>1, DataAssumption DEF Handle
    <2> QED BY <1>1, <2>1, DataAssumption DEF TypeOK
<1>2. CASE r # "new"
    BY <1>2 DEF Handle
<1> QED BY <1>1, <1>2

LEMMA HandleDates ==
    ASSUME TypeOK, NEW n \in Node, NEW e \in Envelope, NEW r, Handle(n, e, r),
           NEW p \in Node, NEW i \in Id
    PROVE  born'[p][i] = born[p][i] \/ born'[p][i] = life[p]
<1>1. UNCHANGED born \/ born' = [born EXCEPT ![n][ClaimedId[e]] = life[n]]
    BY DEF Handle
<1>2. CASE UNCHANGED born
    BY <1>2
<1>3. CASE born' = [born EXCEPT ![n][ClaimedId[e]] = life[n]]
    <2>1. born'[p] = IF p = n THEN [born[n] EXCEPT ![ClaimedId[e]] = life[n]] ELSE born[p]
        BY <1>3 DEF TypeOK
    <2> QED BY <2>1 DEF TypeOK
<1> QED BY <1>1, <1>2, <1>3

\* Ids stay stored, with the envelope they were stored with.
LEMMA LogGrows ==
    ASSUME TypeOK, [Next]_vars, NEW n \in Node, NEW i \in Id, log[n][i] # NoEnvelope
    PROVE  log'[n][i] = log[n][i]
<1>1. CASE UNCHANGED <<log, born>>
    BY <1>1
<1>2. ASSUME NEW p \in Node, NEW r \in Result, NEW m \in inbox[p], Run(p, m, r)
      PROVE  log'[n][i] = log[n][i]
    <2>1. m.env \in Envelope
        BY DEF TypeOK, Message
    <2> QED BY <1>2, <2>1, HandleEffect DEF Run
<1>3. ASSUME NEW k \in calls, NEW r \in Result, ServerHandle(k, r)
      PROVE  log'[n][i] = log[n][i]
    <2>1. k.node \in Node /\ k.env \in Envelope
        BY DEF TypeOK, Call
    <2> QED BY <1>3, <2>1, HandleEffect DEF ServerHandle
<1> QED BY <1>1, <1>2, <1>3, LogFrame

\* So what is known of a stored id stays known.
LEMMA StoredStays ==
    ASSUME TypeOK, [Next]_vars, NEW n \in Node, NEW e \in Envelope
    PROVE  /\ Stored(n, e) => Stored(n, e)'
           /\ StoredAs(n, e) => StoredAs(n, e)'
<1>1. ClaimedId[e] # NoId => ClaimedId[e] \in Id
    BY DataAssumption
<1>2. StoredAs(n, e) => Stored(n, e)
    BY DataAssumption DEF StoredAs, Stored
<1> QED BY <1>1, <1>2, LogGrows DEF StoredAs, Stored

-----------------------------------------------------------------------------
(* Each conjunct of SafeInv is preserved.                                  *)

LEMMA SafeInit == Init => SafeInv
<1> SUFFICES ASSUME Init PROVE SafeInv
    OBVIOUS
<1>1. LivesKept
    BY DEF Init, LivesKept, Running
<1>2. CallsKept /\ SoleAcceptance /\ AnswersHold /\ GossipKept /\ OnlyPublished
    BY DEF Init, CallsKept, SoleAcceptance, AnswersHold, Log!AnswersHold, GossipKept, OnlyPublished
<1> QED BY <1>1, <1>2, TypeInit DEF SafeInv

LEMMA LivesGrow ==
    ASSUME TypeOK, [Next]_vars
    PROVE  \A n \in Node : life[n] \in Nat /\ life'[n] \in Nat /\ life[n] <= life'[n]
<1>1. CASE UNCHANGED <<status, life>>
    BY <1>1, BoundAssumption DEF TypeOK
<1>2. ASSUME NEW n \in Node, NEW reached \in SUBSET Node,
             NEW flagged \in SUBSET Flaggable, Start(n, reached, flagged)
      PROVE  \A p \in Node : life[p] \in Nat /\ life'[p] \in Nat /\ life[p] <= life'[p]
    BY <1>2, BoundAssumption DEF TypeOK, Start
<1>3. ASSUME NEW n \in Node, Interrupt(n) \/ RunReturns(n) \/ Ends(n)
      PROVE  UNCHANGED life
    BY <1>3 DEF Interrupt, RunReturns, Ends
<1>4. CASE UNCHANGED life
    BY <1>4, BoundAssumption DEF TypeOK
<1> QED BY <1>1, <1>2, <1>3, <1>4, ProcFrame

LEMMA LivesStep ==
    ASSUME TypeOK, LivesKept, [Next]_vars
    PROVE  LivesKept'
<1>1. \A n \in Node : life[n] \in Nat /\ life'[n] \in Nat /\ life[n] <= life'[n]
    BY LivesGrow
<1>2. ASSUME NEW n \in Node, Running(n)'
      PROVE  life'[n] # 0
    <2>1. CASE UNCHANGED <<status, life>>
        BY <1>2, <2>1 DEF LivesKept, Running
    <2>2. ASSUME NEW p \in Node, NEW reached \in SUBSET Node,
                 NEW flagged \in SUBSET Flaggable, Start(p, reached, flagged)
          PROVE  life'[n] # 0
        BY <1>1, <1>2, <2>2, BoundAssumption DEF TypeOK, Start, LivesKept, Running
    <2>3. ASSUME NEW p \in Node, Interrupt(p) \/ RunReturns(p) \/ Ends(p)
          PROVE  life'[n] # 0
        BY <1>2, <2>3 DEF Interrupt, RunReturns, Ends, TypeOK, LivesKept, Running
    <2> QED BY <2>1, <2>2, <2>3, ProcFrame
<1>3. ASSUME NEW n \in Node, NEW i \in Id
      PROVE  born'[n][i] <= life'[n]
    <2> DEFINE Dated == born'[n][i] = born[n][i] \/ born'[n][i] = life[n]
    <2>1. ASSUME UNCHANGED <<log, born>> PROVE Dated
        BY <2>1
    <2>2. ASSUME NEW p \in Node, NEW r \in Result, NEW m \in inbox[p], Run(p, m, r)
          PROVE  Dated
        <3>1. m.env \in Envelope
            BY DEF TypeOK, Message
        <3> QED BY <2>2, <3>1, HandleDates DEF Run
    <2>3. ASSUME NEW k \in calls, NEW r \in Result, ServerHandle(k, r)
          PROVE  Dated
        <3>1. k.node \in Node /\ k.env \in Envelope
            BY DEF TypeOK, Call
        <3> QED BY <2>3, <3>1, HandleDates DEF ServerHandle
    <2>4. Dated
        BY <2>1, <2>2, <2>3, LogFrame
    <2>5. born[n][i] \in Nat /\ born[n][i] <= life[n]
        BY BoundAssumption DEF TypeOK, LivesKept
    <2> QED BY <1>1, <2>4, <2>5
<1> QED BY <1>2, <1>3 DEF LivesKept

\* The process of a call in progress is still the one it arrived at.
LEMMA CallsStep ==
    ASSUME SafeInv, [Next]_vars
    PROVE  CallsKept'
<1> USE DEF SafeInv
<1> SUFFICES ASSUME NEW k \in calls'
             PROVE  /\ Running(k.node)'
                    /\ k.env \in submitted'
                    /\ k.stage = "new" => StoredAs(k.node, k.env)'
                    /\ k.stage = "duplicate" => Stored(k.node, k.env)'
    BY DEF CallsKept
<1>1. TypeOK'
    BY TypeStep
<1>2. k.node \in Node /\ k.env \in Envelope
    BY <1>1 DEF TypeOK, Call
<1>3. ASSUME k \in calls
      PROVE  /\ k.env \in submitted'
             /\ k.stage = "new" => StoredAs(k.node, k.env)'
             /\ k.stage = "duplicate" => Stored(k.node, k.env)'
    BY <1>2, <1>3, StoredStays, SubmittedGrows DEF CallsKept
<1>4. ASSUME k \in calls
      PROVE  Running(k.node)'
    <2>1. Running(k.node)
        BY <1>4 DEF CallsKept
    <2>2. ASSUME NEW n \in Node, Ends(n)
          PROVE  status'[k.node] = status[k.node]
        <3>1. k.node # n
            BY <2>2 DEF Ends
        <3> QED BY <1>2, <2>2, <3>1 DEF Ends, TypeOK
    <2>3. CASE UNCHANGED <<status, life>>
        BY <2>1, <2>3 DEF Running
    <2>4. ASSUME NEW n \in Node, NEW reached \in SUBSET Node,
                 NEW flagged \in SUBSET Flaggable, Start(n, reached, flagged)
          PROVE  Running(k.node)'
        BY <1>2, <2>1, <2>4 DEF Start, Running, TypeOK
    <2>5. ASSUME NEW n \in Node, Interrupt(n) \/ RunReturns(n)
          PROVE  Running(k.node)'
        BY <1>2, <2>1, <2>5 DEF Interrupt, RunReturns, Running, TypeOK
    <2> QED BY <2>1, <2>2, <2>3, <2>4, <2>5, ProcFrame DEF Running
<1>5. CASE k \in calls
    BY <1>3, <1>4, <1>5
<1>6. ASSUME NEW c \in Caller, NEW n \in Node, NEW e \in Envelope, Arrive(c, n, e),
             k \notin calls
      PROVE  /\ Running(k.node)'
             /\ k.env \in submitted'
             /\ k.stage = "arrived"
    BY <1>6 DEF Arrive, Running, proc
<1>7. ASSUME NEW j \in calls, NEW r \in Result, ServerHandle(j, r), k \notin calls
      PROVE  /\ Running(k.node)'
             /\ k.env \in submitted'
             /\ k.stage = "new" => StoredAs(k.node, k.env)'
             /\ k.stage = "duplicate" => Stored(k.node, k.env)'
    <2>1. j \in Call
        BY DEF TypeOK
    <2>2. k = [j EXCEPT !.stage = r]
        BY <1>7 DEF ServerHandle
    <2>3. k.node = j.node /\ k.env = j.env /\ k.stage = r
        BY <2>1, <2>2 DEF Call
    <2>4. Running(k.node)' /\ k.env \in submitted'
        BY <1>7, <2>3 DEF ServerHandle, CallsKept, Running, proc
    <2>5. Handle(k.node, k.env, r)
        BY <1>7, <2>3 DEF ServerHandle
    <2>6. r = "new" => StoredAs(k.node, k.env)'
        BY <1>2, <2>5, HandleEffect DEF StoredAs
    <2>7. r = "duplicate" => Stored(k.node, k.env)'
        BY <1>2, <2>5, HandleEffect DEF Stored
    <2> QED BY <2>3, <2>4, <2>6, <2>7
<1>8. ASSUME NEW n \in Node, Ends(n)
      PROVE  k \in calls
    BY <1>8 DEF Ends
<1>9. ASSUME NEW j \in calls, ServerAnswer(j)
      PROVE  k \in calls
    BY <1>9 DEF ServerAnswer
<1> QED BY <1>5, <1>6, <1>7, <1>8, <1>9, CallsFrame

LEMMA AnswersStep ==
    ASSUME SafeInv, [Next]_vars
    PROVE  AnswersHold'
<1> USE DEF SafeInv
<1>1. TypeOK'
    BY TypeStep
<1> SUFFICES ASSUME NEW a \in answers'
             PROVE  /\ a.outcome = "ACCEPTED" => StoredAs(a.node, a.env)'
                    /\ a.outcome = "ALREADY_EXISTS" => Stored(a.node, a.env)'
    BY DEF AnswersHold, Log!AnswersHold, StoredAs, Stored
<1>2. a.node \in Node /\ a.env \in Envelope
    BY <1>1 DEF TypeOK
<1>3. CASE a \in answers
    BY <1>2, <1>3, StoredStays DEF AnswersHold, Log!AnswersHold, StoredAs, Stored
<1>4. ASSUME NEW k \in calls, ServerAnswer(k), a \notin answers
      PROVE  /\ a.outcome = "ACCEPTED" => StoredAs(a.node, a.env)'
             /\ a.outcome = "ALREADY_EXISTS" => Stored(a.node, a.env)'
    <2>1. a = [node |-> k.node, env |-> k.env, outcome |-> OutcomeOf(k.stage)]
        BY <1>4 DEF ServerAnswer
    <2>2. /\ k.stage \in Result
          /\ a.outcome = "ACCEPTED" => k.stage = "new"
          /\ a.outcome = "ALREADY_EXISTS" => k.stage = "duplicate"
        BY <1>4, <2>1 DEF ServerAnswer, OutcomeOf, Result
    <2>3. /\ a.outcome = "ACCEPTED" => StoredAs(a.node, a.env)
          /\ a.outcome = "ALREADY_EXISTS" => Stored(a.node, a.env)
        BY <2>1, <2>2 DEF CallsKept
    <2> QED BY <1>2, <2>3, StoredStays
<1> QED BY <1>3, <1>4, AnswersFrame

LEMMA SoleStep ==
    ASSUME SafeInv, [Next]_vars
    PROVE  SoleAcceptance'
<1> USE DEF SafeInv
<1> DEFINE SameId(x, y) == x.node = y.node /\ ClaimedId[x.env] = ClaimedId[y.env]
<1>1. TypeOK' /\ CallsKept'
    BY TypeStep, CallsStep
<1> SUFFICES ASSUME NEW k \in calls', k.stage = "new"
             PROVE  /\ \A j \in calls' \ {k} : j.stage = "new" => ~ SameId(j, k)
                    /\ \A a \in answers' : a.outcome = "ACCEPTED" => ~ SameId(a, k)
    BY DEF SoleAcceptance
<1>2. CASE UNCHANGED <<calls, answers>>
    BY <1>2 DEF SoleAcceptance
<1>3. ASSUME NEW n \in Node, Ends(n)
      PROVE  calls' \subseteq calls /\ UNCHANGED answers
    BY <1>3 DEF Ends
<1>4. ASSUME NEW c \in Caller, NEW n \in Node, NEW e \in Envelope, Arrive(c, n, e)
      PROVE  /\ \A j \in calls' : j.stage = "new" => j \in calls
             /\ UNCHANGED answers
    BY <1>4 DEF Arrive
<1>5. ASSUME \A j \in calls' : j.stage = "new" => j \in calls, UNCHANGED answers
      PROVE  /\ \A j \in calls' \ {k} : j.stage = "new" => ~ SameId(j, k)
             /\ \A a \in answers' : a.outcome = "ACCEPTED" => ~ SameId(a, k)
    BY <1>5 DEF SoleAcceptance
\* The id was free when the transaction of this call took it.
<1>6. ASSUME NEW h \in calls, NEW r \in Result, ServerHandle(h, r)
      PROVE  /\ \A j \in calls' \ {k} : j.stage = "new" => ~ SameId(j, k)
             /\ \A a \in answers' : a.outcome = "ACCEPTED" => ~ SameId(a, k)
    <2>1. h \in Call
        BY DEF TypeOK
    <2>2. /\ calls' = (calls \ {h}) \cup {[h EXCEPT !.stage = r]}
          /\ UNCHANGED answers
          /\ Handle(h.node, h.env, r)
        BY <1>6 DEF ServerHandle
    <2> DEFINE h2 == [h EXCEPT !.stage = r]
    <2>3. h2.node = h.node /\ h2.env = h.env /\ h2.stage = r
        BY <2>1 DEF Call
    <2>4. CASE r # "new"
        BY <1>5, <2>2, <2>3, <2>4
    <2>5. CASE r = "new"
        <3>1. ClaimedId[h.env] # NoId /\ log[h.node][ClaimedId[h.env]] = NoEnvelope
            BY <2>1, <2>2, <2>5, HandleEffect DEF Call
        <3>2. \A j \in calls : j.stage = "new" => ~ SameId(j, h)
            <4>1. ASSUME NEW j \in calls, j.stage = "new"
                  PROVE  log[j.node][ClaimedId[j.env]] # NoEnvelope
                <5>1. j.env \in Envelope
                    BY DEF TypeOK, Call
                <5> QED BY <4>1, <5>1, DataAssumption DEF CallsKept, StoredAs
            <4> QED BY <3>1, <4>1
        <3>3. \A a \in answers : a.outcome = "ACCEPTED" => ~ SameId(a, h)
            <4>1. ASSUME NEW a \in answers, a.outcome = "ACCEPTED"
                  PROVE  log[a.node][ClaimedId[a.env]] # NoEnvelope
                <5>1. a.env \in Envelope
                    BY DEF TypeOK
                <5> QED BY <4>1, <5>1, DataAssumption DEF AnswersHold, Log!AnswersHold
            <4> QED BY <3>1, <4>1
        <3>4. CASE k = h2
            BY <2>2, <2>3, <3>2, <3>3, <3>4
        <3>5. CASE k # h2
            <4>1. k \in calls
                BY <2>2, <3>5
            <4>2. \A j \in calls' \ {k} : j.stage = "new" => ~ SameId(j, k)
                BY <2>2, <2>3, <3>2, <4>1 DEF SoleAcceptance
            <4> QED BY <2>2, <4>1, <4>2 DEF SoleAcceptance
        <3> QED BY <3>4, <3>5
    <2> QED BY <2>4, <2>5
\* The call that is answered had no rival.
<1>7. ASSUME NEW h \in calls, ServerAnswer(h)
      PROVE  /\ \A j \in calls' \ {k} : j.stage = "new" => ~ SameId(j, k)
             /\ \A a \in answers' : a.outcome = "ACCEPTED" => ~ SameId(a, k)
    <2>1. /\ calls' = calls \ {h}
          /\ answers' = answers \cup {[node |-> h.node, env |-> h.env,
                                       outcome |-> OutcomeOf(h.stage)]}
          /\ OutcomeOf(h.stage) = "ACCEPTED" => h.stage = "new"
        BY <1>7 DEF ServerAnswer, OutcomeOf, Result
    <2>2. h.stage = "new" => ~ SameId(h, k)
        BY <2>1 DEF SoleAcceptance
    <2> QED BY <2>1, <2>2 DEF SoleAcceptance
<1> QED BY <1>2, <1>3, <1>4, <1>5, <1>6, <1>7, CallsFrame, AnswersFrame

\* The message of a call about to be accepted has not been seen before.
LEMMA AnswerIsFresh ==
    ASSUME SafeInv, NEW k \in calls, k.stage = "new"
    PROVE  /\ MessageFrom(k.node, k.env, "grpc") \in Message
           /\ gossip[MessageFrom(k.node, k.env, "grpc")] = "none"
<1> DEFINE m == MessageFrom(k.node, k.env, "grpc")
<1>1. k.node \in Node /\ k.env \in Envelope
    BY DEF SafeInv, TypeOK, Call
<1>2. life[k.node] \in Lives
    BY <1>1, BoundAssumption DEF SafeInv, TypeOK, LivesKept, CallsKept, Lives
<1>3. m \in Message /\ m.door = "grpc" /\ m.origin = k.node /\ m.env = k.env
    BY <1>1, <1>2 DEF MessageFrom, Message
<1>4. Log!Accepted(k.node, k.env) \notin answers
    BY DEF SafeInv, SoleAcceptance, Log!Accepted
<1> QED BY <1>3, <1>4 DEF SafeInv, GossipKept

\* A message of the gossip goroutine keeps its phase, or moves on.
LEMMA GossipMoves ==
    ASSUME SafeInv, [Next]_vars, NEW m \in Message
    PROVE  \/ gossip'[m] = gossip[m]
           \/ gossip[m] \in Waiting
           \/ gossip[m] = "none" /\ gossip'[m] = "polling"
<1> USE DEF SafeInv
<1> DEFINE Moves == \/ gossip'[m] = gossip[m]
                    \/ gossip[m] \in Waiting
                    \/ gossip[m] = "none" /\ gossip'[m] = "polling"
<1>1. CASE UNCHANGED gossip
    BY <1>1
<1>2. ASSUME NEW n \in Node, NEW reached \in SUBSET Node, NEW flagged \in SUBSET Flaggable,
             Start(n, reached, flagged)
      PROVE  Moves
    <2>1. CASE m.origin = n /\ m.life = life[n] + 1
        <3>1. gossip[m] = "none"
            BY <2>1, BoundAssumption DEF GossipKept, TypeOK
        <3> QED BY <1>2, <3>1 DEF Start
    <2>2. CASE ~ (m.origin = n /\ m.life = life[n] + 1)
        BY <1>2, <2>2 DEF Start
    <2> QED BY <2>1, <2>2
<1>3. ASSUME NEW n \in Node, Ends(n) \/ Heartbeat(n)
      PROVE  Moves
    BY <1>3 DEF Ends, Heartbeat, Waiting
<1>4. ASSUME NEW k \in calls, ServerAnswer(k)
      PROVE  Moves
    BY <1>4, AnswerIsFresh DEF ServerAnswer, TypeOK
<1>5. ASSUME NEW q \in Message, SeePeers(q) \/ GiveUp(q) \/ GossipPublish(q)
      PROVE  Moves
    BY <1>5 DEF SeePeers, GiveUp, GossipPublish, Goroutine, Waiting, TypeOK
<1> QED BY <1>1, <1>2, <1>3, <1>4, <1>5, GossipFrame

\* Only the answer to a call begins the gossip of an accepted event.
LEMMA OnlyAnswersBegin ==
    ASSUME SafeInv, [Next]_vars, NEW m \in Message, m.door = "grpc",
           gossip[m] = "none", gossip'[m] # "none"
    PROVE  \E k \in calls : ServerAnswer(k) /\ ~ UNCHANGED gossip
<1>1. ASSUME NEW n \in Node, NEW reached \in SUBSET Node, NEW flagged \in SUBSET Flaggable,
             Start(n, reached, flagged)
      PROVE  FALSE
    BY <1>1 DEF Start
<1>2. ASSUME NEW n \in Node, Ends(n) \/ Heartbeat(n)
      PROVE  FALSE
    BY <1>2 DEF Ends, Heartbeat, Waiting
<1>3. ASSUME NEW q \in Message, SeePeers(q) \/ GiveUp(q) \/ GossipPublish(q)
      PROVE  FALSE
    BY <1>3 DEF SeePeers, GiveUp, GossipPublish, Goroutine, Waiting, SafeInv, TypeOK
<1> QED BY <1>1, <1>2, <1>3, GossipFrame

LEMMA GossipStepKept ==
    ASSUME SafeInv, [Next]_vars
    PROVE  GossipKept'
<1> USE DEF SafeInv
<1> SUFFICES ASSUME NEW m \in Message, gossip'[m] # "none"
             PROVE  /\ m.env \in submitted'
                    /\ m.life <= life'[m.origin]
                    /\ m.door = "grpc" => Log!Accepted(m.origin, m.env) \in answers'
    BY DEF GossipKept, Log!Accepted
<1>1. m.origin \in Node /\ m.env \in Envelope /\ m.life \in Nat
    BY DEF Message, Lives
<1>2. answers \subseteq answers'
    BY AnswersFrame DEF ServerAnswer
<1>3. life[m.origin] \in Nat /\ life'[m.origin] \in Nat /\ life[m.origin] <= life'[m.origin]
    BY <1>1, LivesGrow
<1>4. CASE gossip[m] # "none"
    BY <1>1, <1>2, <1>3, <1>4, SubmittedGrows DEF GossipKept
<1>5. ASSUME NEW n \in Node, NEW reached \in SUBSET Node, NEW flagged \in SUBSET Flaggable,
             Start(n, reached, flagged), gossip[m] = "none"
      PROVE  m.door # "grpc" /\ m.env \in submitted' /\ m.life <= life'[m.origin]
    <2>1. m.origin = n /\ m.life = life[n] + 1 /\ m.door = "flag" /\ m.env \in flagged
        BY <1>5 DEF Start
    <2>2. submitted' = submitted \cup flagged /\ life'[n] = life[n] + 1
        BY <1>5 DEF Start, TypeOK
    <2> QED BY <1>1, <1>3, <2>1, <2>2
<1>6. ASSUME NEW n \in Node, Ends(n) \/ Heartbeat(n)
      PROVE  gossip[m] # "none"
    BY <1>6 DEF Ends, Heartbeat, Waiting
<1>7. ASSUME NEW k \in calls, ServerAnswer(k), gossip[m] = "none"
      PROVE  /\ m.env \in submitted'
             /\ m.life <= life'[m.origin]
             /\ m.door = "grpc" => Log!Accepted(m.origin, m.env) \in answers'
    <2>1. k.stage = "new" /\ m = MessageFrom(k.node, k.env, "grpc")
        BY <1>7 DEF ServerAnswer, TypeOK
    <2>2. m.env = k.env /\ m.origin = k.node /\ m.life = life[k.node]
        BY <2>1 DEF MessageFrom
    <2>3. Log!Accepted(m.origin, m.env) \in answers'
        BY <1>7, <2>1, <2>2 DEF ServerAnswer, OutcomeOf, Log!Accepted
    <2> QED BY <1>1, <1>3, <2>1, <2>2, <2>3, SubmittedGrows DEF CallsKept
<1>8. ASSUME NEW q \in Message, SeePeers(q) \/ GiveUp(q) \/ GossipPublish(q)
      PROVE  gossip[m] # "none"
    BY <1>8 DEF SeePeers, GiveUp, GossipPublish, Goroutine, Waiting, TypeOK
<1> QED BY <1>4, <1>5, <1>6, <1>7, <1>8, GossipFrame

\* What travels was published: no phase change undoes it.
LEMMA PublishedStep ==
    ASSUME SafeInv, [Next]_vars
    PROVE  OnlyPublished'
<1> USE DEF SafeInv
<1>1. \A m \in Message : gossip[m] = "sent" => gossip'[m] = "sent"
    BY GossipMoves DEF Waiting
<1>2. wire \subseteq Copy /\ \A n \in Node : inbox[n] \subseteq Message /\ seen[n] \subseteq Message
    BY DEF TypeOK
<1>3. \A c \in wire : gossip'[c.msg] = "sent"
    BY <1>1, <1>2 DEF OnlyPublished, Copy
<1>4. \A n \in Node : \A m \in inbox[n] \cup seen[n] : gossip'[m] = "sent"
    BY <1>1, <1>2 DEF OnlyPublished
<1>5. CASE /\ wire' \subseteq wire
           /\ \A n \in Node : inbox'[n] \subseteq inbox[n] /\ seen'[n] \subseteq seen[n]
    BY <1>3, <1>4, <1>5 DEF OnlyPublished
<1>6. ASSUME NEW m \in Message, NEW n \in Node, gossip'[m] = "sent",
             \A c \in wire' \ wire : c.msg = m,
             inbox' \in {inbox, Buffered(n, m)},
             seen' \in {seen, [seen EXCEPT ![n] = @ \cup {m}]}
      PROVE  OnlyPublished'
    <2>1. \A p \in Node : inbox'[p] \subseteq inbox[p] \cup {m} /\ seen'[p] \subseteq seen[p] \cup {m}
        <3>1. \A p \in Node : Buffered(n, m)[p] \subseteq inbox[p] \cup {m}
            BY DEF Buffered, TypeOK
        <3>2. \A p \in Node : [seen EXCEPT ![n] = @ \cup {m}][p] \subseteq seen[p] \cup {m}
            BY DEF TypeOK
        <3> QED BY <1>6, <3>1, <3>2
    <2> QED BY <1>3, <1>4, <1>6, <2>1 DEF OnlyPublished
<1>7. ASSUME NEW m \in Message, GossipPublish(m)
      PROVE  OnlyPublished'
    <2>1. m.origin \in Node
        BY DEF Message
    <2>2. gossip'[m] = "sent"
        BY <1>7 DEF GossipPublish, TypeOK
    <2>3. \A c \in wire' \ wire : c.msg = m
        BY <1>7 DEF GossipPublish, Forward
    <2>4. inbox' = Buffered(m.origin, m) /\ seen' = [seen EXCEPT ![m.origin] = @ \cup {m}]
        BY <1>7 DEF GossipPublish
    <2> QED BY <1>6, <2>1, <2>2, <2>3, <2>4
<1>8. ASSUME NEW c \in wire, Deliver(c)
      PROVE  OnlyPublished'
    <2>1. c.msg \in Message /\ c.to \in Node
        BY DEF TypeOK, Copy
    <2>2. gossip'[c.msg] = "sent"
        BY <1>3
    <2>3. \A d \in wire' \ wire : d.msg = c.msg
        BY <1>8 DEF Deliver, Forward
    <2>4. /\ inbox' \in {inbox, Buffered(c.to, c.msg)}
          /\ seen' \in {seen, [seen EXCEPT ![c.to] = @ \cup {c.msg}]}
        BY <1>8 DEF Deliver
    <2> QED BY <1>6, <2>1, <2>2, <2>3, <2>4
<1>9. ASSUME NEW n \in Node, Ends(n)
      PROVE  /\ wire' \subseteq wire
             /\ \A p \in Node : inbox'[p] \subseteq inbox[p] /\ seen'[p] \subseteq seen[p]
    BY <1>9 DEF Ends, TypeOK
<1>10. ASSUME NEW n \in Node, NEW r \in Result, NEW m \in inbox[n], Run(n, m, r)
       PROVE  /\ wire' \subseteq wire
              /\ \A p \in Node : inbox'[p] \subseteq inbox[p] /\ seen'[p] \subseteq seen[p]
    BY <1>10 DEF Run, TypeOK
<1>11. ASSUME NEW n \in Node, NEW p \in Node, Unlink(n, p)
       PROVE  /\ wire' \subseteq wire
              /\ UNCHANGED <<inbox, seen>>
    BY <1>11 DEF Unlink
<1>12. \/ UNCHANGED <<wire, inbox, seen>>
       \/ \E m \in Message : GossipPublish(m)
       \/ \E c \in wire : Deliver(c)
       \/ \E n \in Node : Ends(n)
       \/ \E n \in Node, r \in Result : \E m \in inbox[n] : Run(n, m, r)
       \/ \E n, p \in Node : Unlink(n, p)
    BY StepCases DEF Start, Interrupt, RunReturns, Exit, Crash, Heartbeat, Arrive,
        ServerHandle, ServerAnswer, SeePeers, GiveUp, Learn, Forget, vars, net
<1> QED BY <1>5, <1>7, <1>8, <1>9, <1>10, <1>11, <1>12

THEOREM SafeInvariant == Spec => []SafeInv
<1>1. SafeInv /\ [Next]_vars => SafeInv'
    BY TypeStep, LivesStep, CallsStep, GossipStepKept, PublishedStep, AnswersStep, SoleStep
        DEF SafeInv
<1> QED BY SafeInit, <1>1, PTL DEF Spec

(* Whatever crashes, restarts, interleavings and failed transactions there *)
(* are, an answer once given stays true of the node's log (AddEvent,       *)
(* server.Publish).                                                        *)
THEOREM AnswersAreKept == Spec => []AnswersHold
<1>1. SafeInv => AnswersHold
    BY DEF SafeInv
<1> QED BY SafeInvariant, <1>1, PTL

(* One call at most is told ACCEPTED for an id of a node, ever.            *)
THEOREM AcceptedOnce == Spec => []SoleAcceptance
<1>1. SafeInv => SoleAcceptance
    BY DEF SafeInv
<1> QED BY SafeInvariant, <1>1, PTL

-----------------------------------------------------------------------------
(* The node network implements EventLog: every step is a step of the       *)
(* write-once log or leaves submitted, log and answers alone.              *)

LEMMA LogInitMaps == Init => Log!LogInit
BY DEF Init, Log!LogInit

LEMMA HandleMaps ==
    ASSUME NEW n \in Node, NEW e \in Envelope, NEW r, Handle(n, e, r), e \in submitted,
           UNCHANGED <<submitted, answers>>
    PROVE  Log!Adopt(n, e) \/ UNCHANGED <<submitted, log, answers>>
BY DEF Handle, Log!Adopt

LEMMA StepMaps ==
    ASSUME SafeInv, [Next]_vars
    PROVE  [Log!LogNext]_<<submitted, log, answers>>
<1> USE DEF SafeInv
<1>1. ASSUME NEW n \in Node, NEW e \in Envelope, Log!Adopt(n, e)
      PROVE  Log!LogNext
    BY <1>1 DEF Log!LogNext
<1>2. ASSUME NEW n \in Node, NEW r \in Result, NEW m \in inbox[n], Run(n, m, r)
      PROVE  [Log!LogNext]_<<submitted, log, answers>>
    <2>1. m \in Message /\ gossip[m] = "sent"
        BY DEF TypeOK, OnlyPublished
    <2>2. m.env \in Envelope /\ m.env \in submitted
        BY <2>1 DEF Message, GossipKept
    <2> QED BY <1>1, <1>2, <2>2, HandleMaps DEF Run
<1>3. ASSUME NEW k \in calls, NEW r \in Result, ServerHandle(k, r)
      PROVE  [Log!LogNext]_<<submitted, log, answers>>
    <2>1. k.node \in Node /\ k.env \in Envelope /\ k.env \in submitted
        BY DEF TypeOK, Call, CallsKept
    <2> QED BY <1>1, <1>3, <2>1, HandleMaps DEF ServerHandle
\* An answer: the log is unchanged and already is what the answer says.
<1>4. ASSUME NEW k \in calls, ServerAnswer(k)
      PROVE  Log!LogNext
    <2>1. k.node \in Node /\ k.env \in Envelope /\ k.env \in submitted
        BY DEF TypeOK, Call, CallsKept
    <2>2. OutcomeOf(k.stage) \in Log!Outcome
        BY DEF OutcomeOf, Log!Outcome
    <2>3. OutcomeOf(k.stage) = "ACCEPTED" =>
              /\ StoredAs(k.node, k.env)
              /\ Log!Accepted(k.node, k.env) \notin answers
        <3>1. OutcomeOf(k.stage) = "ACCEPTED" => k.stage = "new"
            BY <1>4 DEF ServerAnswer, OutcomeOf, Result
        <3>2. k.stage = "new" => Log!Accepted(k.node, k.env) \notin answers
            BY DEF SoleAcceptance, Log!Accepted
        <3> QED BY <3>1, <3>2 DEF CallsKept
    <2>4. OutcomeOf(k.stage) = "ALREADY_EXISTS" => Stored(k.node, k.env)
        <3>1. OutcomeOf(k.stage) = "ALREADY_EXISTS" => k.stage = "duplicate"
            BY <1>4 DEF ServerAnswer, OutcomeOf, Result
        <3> QED BY <3>1 DEF CallsKept
    <2>5. Log!Reply(k.node, k.env, OutcomeOf(k.stage))
        BY <1>4, <2>1, <2>3, <2>4 DEF ServerAnswer, Log!Reply, StoredAs, Stored
    <2> QED BY <2>1, <2>2, <2>5 DEF Log!LogNext
\* Clients and operators hand envelopes in.
<1>5. ASSUME NEW e \in Envelope, submitted' = submitted \cup {e}, UNCHANGED <<log, answers>>
      PROVE  Log!LogNext
    BY <1>5 DEF Log!LogNext, Log!Submit
<1>6. ASSUME NEW c \in Caller, NEW n \in Node, NEW e \in Envelope, Arrive(c, n, e)
      PROVE  Log!LogNext
    BY <1>5, <1>6 DEF Arrive
<1>7. ASSUME NEW n \in Node, NEW reached \in SUBSET {p \in Node \ {n} : Running(p)},
             NEW flagged \in {{}} \cup {{e} : e \in Flaggable}, Start(n, reached, flagged)
      PROVE  [Log!LogNext]_<<submitted, log, answers>>
    <2>1. CASE flagged = {}
        BY <1>7, <2>1 DEF Start
    <2>2. ASSUME NEW e \in Flaggable, flagged = {e}
          PROVE  Log!LogNext
        BY <1>5, <1>7, <2>2, BoundAssumption DEF Start
    <2> QED BY <2>1, <2>2
<1>8. \/ UNCHANGED <<submitted, log, answers>>
      \/ \E n \in Node :
            \E reached \in SUBSET {p \in Node \ {n} : Running(p)},
               flagged \in {{}} \cup {{e} : e \in Flaggable} :
                  Start(n, reached, flagged)
      \/ \E n \in Node, r \in Result : \E m \in inbox[n] : Run(n, m, r)
      \/ \E c \in Caller, n \in Node, e \in Envelope : Arrive(c, n, e)
      \/ \E k \in calls, r \in Result : ServerHandle(k, r)
      \/ \E k \in calls : ServerAnswer(k)
    BY DEF Next, NodeStep, CallStep, GossipStep, LinkStep, Interrupt, RunReturns, Exit, Crash,
        Ends, Heartbeat, SeePeers, GiveUp, GossipPublish, Learn, Forget, Unlink, Deliver, vars
<1> QED BY <1>2, <1>3, <1>4, <1>6, <1>7, <1>8

(* EventNode implements EventLog, so in every behaviour of the code an id  *)
(* is written at most once per node, and only with what was submitted.     *)
THEOREM Refinement == Spec => ImplementsEventLog
<1>1. Init => Log!LogInit
    BY LogInitMaps
<1>2. SafeInv /\ [Next]_vars => [Log!LogNext]_<<submitted, log, answers>>
    BY StepMaps
<1> QED BY <1>1, <1>2, SafeInvariant, PTL DEF Spec, ImplementsEventLog, Log!LogSpec, Log!logVars

-----------------------------------------------------------------------------
(* So what follows from EventLog holds of the nodes.                       *)

LogFacts == INSTANCE EventLogProofs WITH
    Node <- Node, Envelope <- Envelope, Id <- Id, ClaimedId <- ClaimedId,
    NoId <- NoId, NoEnvelope <- NoEnvelope,
    submitted <- submitted, log <- log, answers <- answers

LEMMA SameLog == ImplementsEventLog => LogFacts!LogSpec
BY DEF ImplementsEventLog, Log!LogSpec, Log!LogInit, Log!LogNext, Log!logVars,
    Log!Submit, Log!Adopt, Log!Reply, Log!Accepted, Log!Outcome,
    LogFacts!LogSpec, LogFacts!LogInit, LogFacts!LogNext, LogFacts!logVars,
    LogFacts!Submit, LogFacts!Adopt, LogFacts!Reply, LogFacts!Accepted, LogFacts!Outcome

(* No crash, restart or rival rewrites what a node has stored.             *)
THEOREM NodesWriteOnce == Spec => WriteOnce
<1>1. LogFacts!LogSpec => LogFacts!WriteOnce
    BY LogFacts!LogIsWrittenOnce, DataAssumption DEF LogFacts!LogAssumption
<1>2. LogFacts!WriteOnce => WriteOnce
    BY DEF WriteOnce, Log!WriteOnce, Log!logVars, LogFacts!WriteOnce, LogFacts!logVars
<1> QED BY <1>1, <1>2, Refinement, SameLog, PTL

(* Only what was handed in is ever stored, under the id it claims.         *)
THEOREM NodesForgeNothing == Spec => []Log!NothingForged
<1>1. LogFacts!LogSpec => []LogFacts!NothingForged
    BY LogFacts!LogIsNotForged, DataAssumption DEF LogFacts!LogAssumption
<1>2. LogFacts!NothingForged => Log!NothingForged
    BY DEF Log!NothingForged, LogFacts!NothingForged
<1> QED BY <1>1, <1>2, Refinement, SameLog, PTL

(* No two envelopes are accepted by one node under one id.                 *)
THEOREM NodesAcceptOne == Spec => []Log!OneAccepted
<1>1. LogFacts!LogSpec => []LogFacts!OneAccepted
    BY LogFacts!OneEnvelopeAccepted, DataAssumption DEF LogFacts!LogAssumption
<1>2. LogFacts!OneAccepted => Log!OneAccepted
    BY DEF Log!OneAccepted, LogFacts!OneAccepted
<1> QED BY <1>1, <1>2, Refinement, SameLog, PTL

-----------------------------------------------------------------------------
(* A node publishes an id for its clients once in all its lives. The       *)
(* counter is exact because there is one goroutine an id, begun by the one *)
(* acceptance, and because a goroutine that has published is through.      *)

\* Two goroutines of one node's gRPC door, in whatever lives, have two ids.
OneMessage ==
    \A m, q \in Message :
        /\ m.door = "grpc" /\ q.door = "grpc"
        /\ m.origin = q.origin
        /\ ClaimedId[m.env] = ClaimedId[q.env]
        /\ gossip[m] # "none" /\ gossip[q] # "none"
        => m = q

\* What is counted was published by a goroutine that is through.
Counted ==
    \A n \in Node, i \in Id :
        published[n][i] # 0 =>
            /\ published[n][i] = 1
            /\ \E m \in Message : /\ m.door = "grpc"
                                  /\ m.origin = n
                                  /\ ClaimedId[m.env] = i
                                  /\ gossip[m] = "sent"

LEMMA OneMessageStep ==
    ASSUME SafeInv, OneMessage, [Next]_vars
    PROVE  OneMessage'
<1> USE DEF SafeInv
<1> DEFINE Rivals(m, q) == /\ m.door = "grpc" /\ q.door = "grpc"
                           /\ m.origin = q.origin
                           /\ ClaimedId[m.env] = ClaimedId[q.env]
<1> SUFFICES ASSUME NEW m \in Message, NEW q \in Message, Rivals(m, q),
                    gossip'[m] # "none", gossip'[q] # "none"
             PROVE  m = q
    BY DEF OneMessage
\* A message of the gRPC door that the step begins, and one there was before.
<1>1. ASSUME NEW x \in Message, NEW y \in Message, Rivals(x, y), gossip[y] # "none",
             gossip'[x] # "none", gossip[x] = "none"
      PROVE  FALSE
    <2>1. PICK k \in calls : ServerAnswer(k) /\ ~ UNCHANGED gossip
        BY <1>1, OnlyAnswersBegin
    <2>2. k.stage = "new" /\ x = MessageFrom(k.node, k.env, "grpc")
        BY <1>1, <2>1 DEF ServerAnswer, TypeOK
    <2>3. Log!Accepted(y.origin, y.env) \in answers
        BY <1>1 DEF GossipKept
    <2>4. y.origin = k.node /\ ClaimedId[y.env] = ClaimedId[k.env]
        BY <1>1, <2>2 DEF MessageFrom
    <2> QED BY <2>2, <2>3, <2>4 DEF SoleAcceptance, Log!Accepted
\* Of two messages that one step begins, both are of the one call it answers.
<1>2. ASSUME gossip[m] = "none", gossip[q] = "none"
      PROVE  m = q
    <2>1. PICK k \in calls : ServerAnswer(k) /\ ~ UNCHANGED gossip
        BY <1>2, OnlyAnswersBegin
    <2> QED BY <1>2, <2>1 DEF ServerAnswer, TypeOK
<1>3. CASE gossip[m] # "none" /\ gossip[q] # "none"
    BY <1>3 DEF OneMessage
<1> QED BY <1>1, <1>2, <1>3

LEMMA PublishedFrame ==
    ASSUME [Next]_vars, ~ UNCHANGED published
    PROVE  \E m \in Message : GossipPublish(m) /\ m.door = "grpc"
BY StepCases DEF Start, Interrupt, RunReturns, Exit, Crash, Ends, Heartbeat, Run, Arrive,
    ServerHandle, ServerAnswer, SeePeers, GiveUp, GossipPublish, Learn, Forget, Unlink,
    Deliver, vars

LEMMA CountedStep ==
    ASSUME SafeInv, OneMessage, Counted, [Next]_vars
    PROVE  Counted'
<1> USE DEF SafeInv
<1> SUFFICES ASSUME NEW n \in Node, NEW i \in Id, published'[n][i] # 0
             PROVE  /\ published'[n][i] = 1
                    /\ \E m \in Message : /\ m.door = "grpc"
                                          /\ m.origin = n
                                          /\ ClaimedId[m.env] = i
                                          /\ gossip'[m] = "sent"
    BY DEF Counted
\* A goroutine that is through stays so.
<1>1. CASE published'[n][i] = published[n][i]
    <2>1. PICK m \in Message : /\ m.door = "grpc"
                              /\ m.origin = n
                              /\ ClaimedId[m.env] = i
                              /\ gossip[m] = "sent"
        BY <1>1 DEF Counted
    <2>2. gossip'[m] = "sent"
        BY <2>1, GossipMoves DEF Waiting
    <2>3. published'[n][i] = 1
        BY <1>1 DEF Counted
    <2> QED BY <2>1, <2>2, <2>3
\* A publication that counts under the id: it is the first.
<1>2. CASE published'[n][i] # published[n][i]
    <2>1. PICK q \in Message : GossipPublish(q) /\ q.door = "grpc"
        BY <1>2, PublishedFrame
    <2>2. /\ gossip[q] = "grafted"
          /\ gossip'[q] = "sent"
          /\ published' = [published EXCEPT ![q.origin][ClaimedId[q.env]] = @ + 1]
        BY <2>1 DEF GossipPublish, Goroutine, TypeOK
    <2>3. /\ q.origin = n
          /\ ClaimedId[q.env] = i
          /\ published'[n][i] = published[n][i] + 1
        BY <1>2, <2>2 DEF TypeOK
    <2>4. published[n][i] = 0
        <3> SUFFICES ASSUME published[n][i] # 0 PROVE FALSE
            OBVIOUS
        <3>1. PICK m \in Message : /\ m.door = "grpc"
                                  /\ m.origin = n
                                  /\ ClaimedId[m.env] = i
                                  /\ gossip[m] = "sent"
            BY DEF Counted
        <3>2. m = q
            BY <2>1, <2>2, <2>3, <3>1 DEF OneMessage
        <3> QED BY <2>2, <3>1, <3>2
    <2> QED BY <2>1, <2>2, <2>3, <2>4
<1> QED BY <1>1, <1>2

(* Neither resubmissions, rivals, messages from the network nor restarts   *)
(* make a node publish an id a second time for its clients.                *)
THEOREM OneGossip == Spec => []GossipedOnce
<1>1. Init => OneMessage /\ Counted
    BY DEF Init, OneMessage, Counted
<1>2. SafeInv /\ OneMessage /\ Counted /\ [Next]_vars => (OneMessage /\ Counted)'
    BY OneMessageStep, CountedStep
<1>3. SafeInv /\ Counted => GossipedOnce
    <2> SUFFICES ASSUME SafeInv, Counted, NEW n \in Node, NEW i \in Id
                 PROVE  published[n][i] <= 1
        BY DEF GossipedOnce
    <2>1. published[n][i] \in Nat
        BY DEF SafeInv, TypeOK
    <2>2. published[n][i] = 0 \/ published[n][i] = 1
        BY DEF Counted
    <2> QED BY <2>1, <2>2
<1> QED BY <1>1, <1>2, <1>3, SafeInvariant, PTL DEF Spec

-----------------------------------------------------------------------------
(* A running node keeps what its Gossipsub has passed on.                  *)

\* A transaction fails, or the id is stored after it.
LEMMA HandleStores ==
    ASSUME TypeOK, NEW n \in Node, NEW e \in Envelope, NEW r, Handle(n, e, r)
    PROVE  r = "failed" \/ Stored(n, e)'
<1>1. r \in Result
    BY HandleTypes
<1>2. CASE r = "new"
    BY <1>2, HandleEffect, DataAssumption DEF Stored
<1>3. CASE r = "duplicate"
    BY <1>3, HandleEffect DEF Stored
<1> QED BY <1>1, <1>2, <1>3 DEF Result

LEMMA RelayedStep ==
    ASSUME TypeOK, RelayedIsStored, [Next]_vars
    PROVE  RelayedIsStored'
<1> DEFINE Kept(n, m) == Stored(n, m.env) \/ m \in inbox[n] \/ m \in dropped[n]
<1> SUFFICES ASSUME NEW n \in Node, NEW m \in seen'[n] PROVE Kept(n, m)'
    BY DEF RelayedIsStored
<1>1. m \in Message /\ m.env \in Envelope
    BY TypeStep DEF TypeOK, Message
<1>2. Stored(n, m.env) => Stored(n, m.env)'
    BY <1>1, StoredStays
<1>3. m \in seen[n] => Kept(n, m)
    BY DEF RelayedIsStored
<1>4. CASE UNCHANGED <<inbox, seen, dropped>>
    BY <1>2, <1>3, <1>4
\* A first copy is buffered for Run, or the subscription overflows.
<1>5. ASSUME NEW p \in Node, NEW q \in Message,
             inbox' = Buffered(p, q), dropped' = Overflown(p, q),
             seen' = [seen EXCEPT ![p] = @ \cup {q}]
      PROVE  Kept(n, m)'
    <2>1. inbox[n] \subseteq inbox'[n] /\ dropped[n] \subseteq dropped'[n]
        BY <1>5 DEF TypeOK, Buffered, Overflown
    <2>2. CASE m \in seen[n]
        BY <1>2, <1>3, <2>1, <2>2
    <2>3. CASE m \notin seen[n]
        <3>1. p = n /\ q = m
            BY <1>5, <2>3 DEF TypeOK
        <3>2. m \in inbox'[n] \/ m \in dropped'[n]
            BY <1>5, <3>1 DEF TypeOK, Buffered, Overflown
        <3> QED BY <3>2
    <2> QED BY <2>2, <2>3
<1>6. ASSUME NEW q \in Message, GossipPublish(q)
      PROVE  Kept(n, m)'
    <2>1. q.origin \in Node
        BY DEF Message
    <2> QED BY <1>5, <1>6, <2>1 DEF GossipPublish
<1>7. ASSUME NEW c \in wire, Deliver(c)
      PROVE  Kept(n, m)'
    <2>1. c.to \in Node /\ c.msg \in Message
        BY DEF TypeOK, Copy
    <2>2. CASE c.msg \in seen[c.to]
        BY <1>4, <1>7, <2>2 DEF Deliver
    <2>3. CASE c.msg \notin seen[c.to]
        BY <1>5, <1>7, <2>1, <2>3 DEF Deliver
    <2> QED BY <2>2, <2>3
\* The turn of Run that takes the message out of the buffer stores its id.
<1>8. ASSUME NEW p \in Node, NEW r \in Result, NEW q \in inbox[p], Run(p, q, r)
      PROVE  Kept(n, m)'
    <2>1. /\ seen' = seen
          /\ inbox' = [inbox EXCEPT ![p] = @ \ {q}]
          /\ Handle(p, q.env, r)
        BY <1>8 DEF Run
    <2>2. dropped[n] \subseteq dropped'[n]
        BY <1>8 DEF Run, TypeOK
    <2>3. CASE p # n \/ q # m
        <3>1. m \in inbox[n] => m \in inbox'[n]
            BY <2>1, <2>3 DEF TypeOK
        <3> QED BY <1>2, <1>3, <2>1, <2>2, <3>1
    <2>4. CASE p = n /\ q = m
        <3>1. CASE r = "failed"
            BY <1>8, <2>4, <3>1 DEF Run, TypeOK
        <3>2. CASE r # "failed"
            BY <1>1, <2>1, <2>4, <3>2, HandleStores
        <3> QED BY <3>1, <3>2
    <2> QED BY <2>3, <2>4
<1>9. ASSUME NEW p \in Node, Ends(p)
      PROVE  Kept(n, m)'
    <2>1. p # n
        BY <1>9 DEF Ends, TypeOK
    <2>2. seen'[n] = seen[n] /\ inbox'[n] = inbox[n] /\ dropped'[n] = dropped[n]
        BY <1>9, <2>1 DEF Ends, TypeOK
    <2> QED BY <1>2, <1>3, <2>2
<1>10. \/ UNCHANGED <<inbox, seen, dropped>>
       \/ \E q \in Message : GossipPublish(q)
       \/ \E c \in wire : Deliver(c)
       \/ \E p \in Node : Ends(p)
       \/ \E p \in Node, r \in Result : \E q \in inbox[p] : Run(p, q, r)
    BY StepCases DEF Start, Interrupt, RunReturns, Exit, Crash, Heartbeat, Arrive,
        ServerHandle, ServerAnswer, SeePeers, GiveUp, Learn, Forget, Unlink, vars, net
<1> QED BY <1>4, <1>6, <1>7, <1>8, <1>9, <1>10

(* What a running node's Gossipsub has passed on, or -publish has put on   *)
(* the topic, is in that node's own log or waits for Run, save for a full  *)
(* subscription and a failed transaction.                                  *)
THEOREM RelayedIsKept == Spec => []RelayedIsStored
<1>1. Init => RelayedIsStored
    BY DEF Init, RelayedIsStored
<1>2. SafeInv /\ RelayedIsStored /\ [Next]_vars => RelayedIsStored'
    BY RelayedStep DEF SafeInv
<1> QED BY <1>1, <1>2, SafeInvariant, PTL DEF Spec

-----------------------------------------------------------------------------
(* While a node is up, nothing it stored in this life is kept from the     *)
(* network.                                                                *)

\* The one entry a transaction adds; all others keep envelope and date.
LEMMA HandleAdds ==
    ASSUME TypeOK, NEW n \in Node, NEW e \in Envelope, NEW r, Handle(n, e, r),
           NEW p \in Node, NEW i \in Id, log'[p][i] # NoEnvelope
    PROVE  \/ log[p][i] # NoEnvelope /\ born'[p][i] = born[p][i]
           \/ r = "new" /\ p = n /\ log'[p][i] = e
<1>1. CASE UNCHANGED <<log, born>>
    BY <1>1
<1>2. CASE ~ UNCHANGED <<log, born>>
    <2>1. /\ r = "new"
          /\ ClaimedId[e] \in Id
          /\ log' = [log EXCEPT ![n][ClaimedId[e]] = e]
          /\ born' = [born EXCEPT ![n][ClaimedId[e]] = life[n]]
        BY <1>2, DataAssumption DEF Handle
    <2>2. CASE p = n /\ i = ClaimedId[e]
        BY <2>1, <2>2 DEF TypeOK
    <2>3. CASE p # n \/ i # ClaimedId[e]
        <3>1. log'[p][i] = log[p][i] /\ born'[p][i] = born[p][i]
            BY <2>1, <2>3 DEF TypeOK
        <3> QED BY <3>1
    <2> QED BY <2>2, <2>3
<1> QED BY <1>1, <1>2

LEMMA WayCall ==
    ASSUME SafeInv, [Next]_vars, NEW n \in Node, status'[n] = "up",
           NEW k \in calls, k.node = n, k.stage = "new"
    PROVE  OnItsWay(n, k.env)'
<1> USE DEF SafeInv
<1>1. CASE k \in calls'
    BY <1>1 DEF OnItsWay
<1>2. ASSUME NEW p \in Node, Ends(p)
      PROVE  k \in calls'
    <2>1. p # n
        BY <1>2 DEF Ends, TypeOK
    <2> QED BY <1>2, <2>1 DEF Ends
<1>3. ASSUME NEW c \in Caller, NEW p \in Node, NEW e \in Envelope, Arrive(c, p, e)
      PROVE  k \in calls'
    BY <1>3 DEF Arrive
<1>4. ASSUME NEW h \in calls, NEW r \in Result, ServerHandle(h, r)
      PROVE  k \in calls'
    BY <1>4 DEF ServerHandle
<1>5. ASSUME NEW h \in calls, ServerAnswer(h), k \notin calls'
      PROVE  OnItsWay(n, k.env)'
    <2> DEFINE m == MessageFrom(k.node, k.env, "grpc")
    <2>1. h = k
        BY <1>5 DEF ServerAnswer
    <2>2. m \in Message /\ m.env = k.env /\ m.origin = n /\ m.life = life[n]
        BY AnswerIsFresh DEF MessageFrom
    <2>3. gossip'[m] = "polling" /\ UNCHANGED life
        BY <1>5, <2>1, <2>2 DEF ServerAnswer, TypeOK, proc
    <2> QED BY <2>2, <2>3 DEF OnItsWay, Waiting
<1> QED BY <1>1, <1>2, <1>3, <1>4, <1>5, CallsFrame

LEMMA WayGoroutine ==
    ASSUME SafeInv, [Next]_vars, NEW n \in Node, status[n] = "up", status'[n] = "up",
           life'[n] = life[n],
           NEW m \in Message, m.origin = n, m.life = life[n], gossip[m] \in Waiting
    PROVE  OnItsWay(n, m.env)'
<1> USE DEF SafeInv
<1> SUFFICES gossip'[m] \in Waiting \cup {"sent"}
    BY DEF OnItsWay
<1>1. CASE UNCHANGED gossip
    BY <1>1
<1>2. ASSUME NEW p \in Node, NEW reached \in SUBSET Node, NEW flagged \in SUBSET Flaggable,
             Start(p, reached, flagged)
      PROVE  gossip'[m] \in Waiting
    BY <1>2 DEF Start, Waiting
<1>3. ASSUME NEW p \in Node, Ends(p)
      PROVE  gossip'[m] \in Waiting
    <2>1. p # n
        BY <1>3 DEF Ends, TypeOK
    <2> QED BY <1>3, <2>1 DEF Ends
<1>4. ASSUME NEW p \in Node, Heartbeat(p)
      PROVE  gossip'[m] \in Waiting
    BY <1>4 DEF Heartbeat, Waiting
<1>5. ASSUME NEW k \in calls, ServerAnswer(k)
      PROVE  gossip'[m] \in Waiting
    BY <1>5 DEF ServerAnswer, Waiting, TypeOK
<1>6. ASSUME NEW q \in Message, SeePeers(q) \/ GiveUp(q) \/ GossipPublish(q)
      PROVE  gossip'[m] \in Waiting \cup {"sent"}
    BY <1>6 DEF SeePeers, GiveUp, GossipPublish, Waiting, TypeOK
<1> QED BY <1>1, <1>2, <1>3, <1>4, <1>5, <1>6, GossipFrame

LEMMA QuietStep ==
    ASSUME SafeInv, NoQuietEntry, [Next]_vars
    PROVE  NoQuietEntry'
<1> USE DEF SafeInv
<1> SUFFICES ASSUME NEW n \in Node, NEW i \in Id, NEW e, e = log'[n][i],
                    status'[n] = "up", e # NoEnvelope, born'[n][i] = life'[n]
             PROVE  OnItsWay(n, e)'
    BY DEF NoQuietEntry, OnItsWay
<1>1. ASSUME NEW m \in Message, gossip[m] = "sent"
      PROVE  OnItsWay(n, m.env)'
    <2>1. gossip'[m] = "sent"
        BY <1>1, GossipMoves DEF Waiting
    <2> QED BY <2>1 DEF OnItsWay
\* An entry of this life that was there before: its envelope is still on its way.
<1>2. ASSUME log[n][i] # NoEnvelope, born'[n][i] = born[n][i]
      PROVE  OnItsWay(n, e)'
    <2>1. status[n] = "up" /\ life'[n] = life[n]
        <3>1. CASE UNCHANGED <<status, life>>
            BY <3>1
        <3>2. ASSUME NEW p \in Node, NEW reached \in SUBSET Node,
                     NEW flagged \in SUBSET Flaggable, Start(p, reached, flagged)
              PROVE  p # n
            <4> SUFFICES ASSUME p = n PROVE FALSE
                OBVIOUS
            <4>1. life'[n] = life[n] + 1 /\ life[n] \in Nat
                BY <3>2, BoundAssumption DEF Start, TypeOK
            <4>2. born[n][i] <= life[n] /\ born[n][i] \in Nat
                BY BoundAssumption DEF LivesKept, TypeOK
            <4>3. born[n][i] = life[n] + 1
                BY <1>2, <4>1
            <4> QED BY <4>1, <4>2, <4>3
        <3>3. ASSUME NEW p \in Node, NEW reached \in SUBSET Node,
                     NEW flagged \in SUBSET Flaggable, Start(p, reached, flagged)
              PROVE  status[n] = "up" /\ life'[n] = life[n]
            BY <3>2, <3>3 DEF Start, TypeOK
        <3>4. ASSUME NEW p \in Node, Interrupt(p) \/ RunReturns(p) \/ Ends(p)
              PROVE  status[n] = "up" /\ life'[n] = life[n]
            BY <3>4 DEF Interrupt, RunReturns, Ends, TypeOK
        <3> QED BY <3>1, <3>3, <3>4, ProcFrame
    <2>2. e = log[n][i]
        BY <1>2, LogGrows
    <2>3. OnItsWay(n, log[n][i])
        BY <1>2, <2>1 DEF NoQuietEntry
    <2>4. \/ \E k \in calls : k.node = n /\ k.env = log[n][i] /\ k.stage = "new"
          \/ \E m \in Message : m.env = log[n][i] /\ gossip[m] = "sent"
          \/ \E m \in Message : /\ m.env = log[n][i]
                                /\ m.origin = n /\ m.life = life[n] /\ gossip[m] \in Waiting
        BY <2>3 DEF OnItsWay
    <2> QED BY <1>1, <2>1, <2>2, <2>4, WayCall, WayGoroutine
\* A new entry: stored by Run from a published message, or by a call.
<1>3. ASSUME NEW p \in Node, NEW r \in Result, NEW m \in inbox[p], Run(p, m, r)
      PROVE  OnItsWay(n, e)'
    <2>1. m \in Message /\ gossip[m] = "sent" /\ m.env \in Envelope
        BY DEF TypeOK, OnlyPublished, Message
    <2>2. \/ log[n][i] # NoEnvelope /\ born'[n][i] = born[n][i]
          \/ log'[n][i] = m.env
        BY <1>3, <2>1, HandleAdds DEF Run
    <2> QED BY <1>1, <1>2, <2>1, <2>2
<1>4. ASSUME NEW k \in calls, NEW r \in Result, ServerHandle(k, r)
      PROVE  OnItsWay(n, e)'
    <2>1. k \in Call /\ k.node \in Node /\ k.env \in Envelope
        BY DEF TypeOK, Call
    <2>2. \/ log[n][i] # NoEnvelope /\ born'[n][i] = born[n][i]
          \/ r = "new" /\ n = k.node /\ log'[n][i] = k.env
        BY <1>4, <2>1, HandleAdds DEF ServerHandle
    <2>3. ASSUME r = "new", n = k.node, log'[n][i] = k.env
          PROVE  OnItsWay(n, e)'
        <3> DEFINE k2 == [k EXCEPT !.stage = r]
        <3>1. k2 \in calls' /\ k2.node = n /\ k2.env = k.env /\ k2.stage = "new"
            BY <1>4, <2>1, <2>3 DEF ServerHandle, Call
        <3> QED BY <2>3, <3>1 DEF OnItsWay
    <2> QED BY <1>2, <2>2, <2>3
<1>5. CASE UNCHANGED <<log, born>>
    BY <1>2, <1>5
<1> QED BY <1>3, <1>4, <1>5, LogFrame

(* Nothing a running node stored in this life is kept from the network:    *)
(* no interleaving drops the goroutine between the store and the publish.  *)
THEOREM NothingQuiet == Spec => []NoQuietEntry
<1>1. Init => NoQuietEntry
    BY DEF Init, NoQuietEntry
<1>2. SafeInv /\ NoQuietEntry /\ [Next]_vars => NoQuietEntry'
    BY QuietStep
<1> QED BY <1>1, <1>2, SafeInvariant, PTL DEF Spec

=============================================================================
