------------------------------ MODULE EventLog ------------------------------
(***************************************************************************)
(* What the event network promises, whatever happens inside it: every node *)
(* keeps a log in which an event id is written at most once and never      *)
(* rewritten, only envelopes somebody submitted are ever written, and a    *)
(* submission is answered in keeping with the log of the node that answers.*)
(* EventNode is the code, and implements this module; so does what the     *)
(* clients of a Gateway are told.                                          *)
(***************************************************************************)
CONSTANTS
    Node,         \* the node processes, each with its bbolt file
    Envelope,     \* the byte strings clients submit
    Id,           \* the non-empty event ids
    ClaimedId,    \* the id an envelope claims, NoId if it claims none
    NoId,
    NoEnvelope

ASSUME LogAssumption ==
    /\ ClaimedId \in [Envelope -> Id \cup {NoId}]
    /\ NoId \notin Id
    /\ NoEnvelope \notin Envelope

VARIABLES
    submitted,    \* the envelopes clients and operators have handed in
    log,          \* log[n][i]: the envelope node n stores under id i
    answers       \* what the nodes have answered so far

logVars == <<submitted, log, answers>>

\* The outcomes of node_api.proto a node really sends (it never sends ORPHAN).
Outcome == {"ACCEPTED", "ALREADY_EXISTS", "REJECTED"}

Answer == [node : Node, env : Envelope, outcome : Outcome]

Accepted(n, e) == [node |-> n, env |-> e, outcome |-> "ACCEPTED"]

LogInit ==
    /\ submitted = {}
    /\ log = [n \in Node |-> [i \in Id |-> NoEnvelope]]
    /\ answers = {}

Submit(e) ==
    /\ submitted' = submitted \cup {e}
    /\ UNCHANGED <<log, answers>>

Adopt(n, e) ==
    /\ e \in submitted
    /\ ClaimedId[e] # NoId
    /\ log[n][ClaimedId[e]] = NoEnvelope
    /\ log' = [log EXCEPT ![n][ClaimedId[e]] = e]
    /\ UNCHANGED <<submitted, answers>>

(* A node accepts an envelope it stores, and accepts it once; it answers   *)
(* ALREADY_EXISTS only for an id it stores; it may reject anything.        *)
Reply(n, e, o) ==
    /\ e \in submitted
    /\ o = "ACCEPTED" =>
          /\ ClaimedId[e] # NoId
          /\ log[n][ClaimedId[e]] = e
          /\ Accepted(n, e) \notin answers
    /\ o = "ALREADY_EXISTS" =>
          /\ ClaimedId[e] # NoId
          /\ log[n][ClaimedId[e]] # NoEnvelope
    /\ answers' = answers \cup {[node |-> n, env |-> e, outcome |-> o]}
    /\ UNCHANGED <<submitted, log>>

LogNext ==
    \/ \E e \in Envelope : Submit(e)
    \/ \E n \in Node, e \in Envelope : Adopt(n, e)
    \/ \E n \in Node, e \in Envelope, o \in Outcome : Reply(n, e, o)

LogSpec == LogInit /\ [][LogNext]_logVars

-----------------------------------------------------------------------------
\* An id once written keeps its envelope, crash or restart (store.AddEvent).
WriteOnce ==
    [][\A n \in Node, i \in Id :
           log[n][i] # NoEnvelope => log'[n][i] = log[n][i]]_logVars

\* What is written was handed in, under the id it claims.
NothingForged ==
    \A n \in Node, i \in Id :
        log[n][i] # NoEnvelope =>
            log[n][i] \in submitted /\ ClaimedId[log[n][i]] = i

\* Whatever a node has answered is true of its log.
AnswersHold ==
    \A a \in answers :
        LET i == ClaimedId[a.env] IN
        /\ a.outcome = "ACCEPTED" => i # NoId /\ log[a.node][i] = a.env
        /\ a.outcome = "ALREADY_EXISTS" => i # NoId /\ log[a.node][i] # NoEnvelope

\* A node accepts one envelope for an id.
OneAccepted ==
    \A a, b \in answers :
        /\ a.node = b.node /\ ClaimedId[a.env] = ClaimedId[b.env]
        /\ a.outcome = "ACCEPTED" /\ b.outcome = "ACCEPTED"
        => a = b
=============================================================================
