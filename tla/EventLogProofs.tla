--------------------------- MODULE EventLogProofs ----------------------------
(***************************************************************************)
(* What follows from EventLog alone, for every implementation of it: logs  *)
(* are written once, hold what was handed in, and bear out every answer.   *)
(***************************************************************************)
EXTENDS EventLog, TLAPS

LogTypeOK ==
    /\ submitted \subseteq Envelope
    /\ log \in [Node -> [Id -> Envelope \cup {NoEnvelope}]]
    /\ answers \subseteq Answer

LogInv == LogTypeOK /\ NothingForged /\ AnswersHold

LEMMA ReplyTyped ==
    ASSUME LogTypeOK, NEW n \in Node, NEW e \in Envelope, NEW o \in Outcome, Reply(n, e, o)
    PROVE  LogTypeOK'
BY DEF LogTypeOK, Reply, Answer

\* The one entry that adopting an envelope adds.
LEMMA AdoptAdds ==
    ASSUME LogTypeOK, NEW n \in Node, NEW e \in Envelope, Adopt(n, e),
           NEW p \in Node, NEW i \in Id
    PROVE  IF p = n /\ i = ClaimedId[e]
           THEN log[p][i] = NoEnvelope /\ log'[p][i] = e
           ELSE log'[p][i] = log[p][i]
<1>1. log' = [log EXCEPT ![n][ClaimedId[e]] = e] /\ log[n][ClaimedId[e]] = NoEnvelope
    BY DEF Adopt
<1>2. log'[p] = IF p = n THEN [log[n] EXCEPT ![ClaimedId[e]] = e] ELSE log[p]
    BY <1>1 DEF LogTypeOK
<1> QED BY <1>1, <1>2 DEF LogTypeOK

LEMMA LogTypeStep ==
    ASSUME LogTypeOK, [LogNext]_logVars
    PROVE  LogTypeOK'
<1>1. ASSUME NEW n \in Node, NEW e \in Envelope, Adopt(n, e)
      PROVE  LogTypeOK'
    <2>1. ClaimedId[e] \in Id
        BY <1>1, LogAssumption DEF Adopt
    <2>2. log' \in [Node -> [Id -> Envelope \cup {NoEnvelope}]]
        BY <1>1, <2>1 DEF Adopt, LogTypeOK
    <2> QED BY <1>1, <2>2 DEF Adopt, LogTypeOK
<1>2. ASSUME NEW e \in Envelope, Submit(e)
      PROVE  LogTypeOK'
    BY <1>2 DEF Submit, LogTypeOK
<1>3. CASE UNCHANGED logVars
    BY <1>3 DEF logVars, LogTypeOK
<1> QED BY <1>1, <1>2, <1>3, ReplyTyped DEF LogNext

LEMMA WriteOnceStep ==
    ASSUME LogTypeOK, [LogNext]_logVars, NEW n \in Node, NEW i \in Id, log[n][i] # NoEnvelope
    PROVE  log'[n][i] = log[n][i]
<1>1. ASSUME NEW p \in Node, NEW e \in Envelope, Adopt(p, e)
      PROVE  log'[n][i] = log[n][i]
    BY <1>1, AdoptAdds
<1>2. CASE UNCHANGED log
    BY <1>2
<1> QED BY <1>1, <1>2 DEF LogNext, Submit, Reply, logVars

LEMMA ForgedStep ==
    ASSUME LogInv, [LogNext]_logVars
    PROVE  NothingForged'
<1> SUFFICES ASSUME NEW n \in Node, NEW i \in Id, log'[n][i] # NoEnvelope
             PROVE  log'[n][i] \in submitted' /\ ClaimedId[log'[n][i]] = i
    BY DEF NothingForged
<1>1. submitted \subseteq submitted'
    BY DEF LogNext, Submit, Adopt, Reply, logVars
<1>2. ASSUME log'[n][i] = log[n][i]
      PROVE  log'[n][i] \in submitted' /\ ClaimedId[log'[n][i]] = i
    BY <1>1, <1>2 DEF LogInv, NothingForged
<1>3. ASSUME NEW p \in Node, NEW e \in Envelope, Adopt(p, e)
      PROVE  log'[n][i] \in submitted' /\ ClaimedId[log'[n][i]] = i
    <2>1. CASE n = p /\ i = ClaimedId[e]
        BY <1>3, <2>1, AdoptAdds DEF Adopt, LogInv
    <2>2. CASE ~ (n = p /\ i = ClaimedId[e])
        BY <1>2, <1>3, <2>2, AdoptAdds DEF LogInv
    <2> QED BY <2>1, <2>2
<1>4. CASE UNCHANGED log
    BY <1>2, <1>4
<1> QED BY <1>3, <1>4 DEF LogNext, Submit, Reply, logVars

LEMMA AnswersStep ==
    ASSUME LogInv, [LogNext]_logVars
    PROVE  AnswersHold'
<1>1. LogTypeOK'
    BY LogTypeStep DEF LogInv
<1> SUFFICES ASSUME NEW a \in answers'
             PROVE  LET i == ClaimedId[a.env] IN
                    /\ a.outcome = "ACCEPTED" => i # NoId /\ log'[a.node][i] = a.env
                    /\ a.outcome = "ALREADY_EXISTS" =>
                           i # NoId /\ log'[a.node][i] # NoEnvelope
    BY DEF AnswersHold
<1> DEFINE i == ClaimedId[a.env]
<1>2. a.node \in Node /\ a.env \in Envelope /\ (i # NoId => i \in Id)
    BY <1>1, LogAssumption DEF LogTypeOK, Answer
\* True before the step, hence after it.
<1>3. ASSUME /\ a.outcome = "ACCEPTED" => i # NoId /\ log[a.node][i] = a.env
             /\ a.outcome = "ALREADY_EXISTS" => i # NoId /\ log[a.node][i] # NoEnvelope
      PROVE  /\ a.outcome = "ACCEPTED" => i # NoId /\ log'[a.node][i] = a.env
             /\ a.outcome = "ALREADY_EXISTS" => i # NoId /\ log'[a.node][i] # NoEnvelope
    BY <1>2, <1>3, WriteOnceStep, LogAssumption DEF LogInv
<1>4. CASE a \in answers
    BY <1>3, <1>4 DEF LogInv, AnswersHold
<1>5. ASSUME NEW n \in Node, NEW e \in Envelope, NEW o \in Outcome, Reply(n, e, o),
             a \notin answers
      PROVE  /\ a.outcome = "ACCEPTED" => i # NoId /\ log'[a.node][i] = a.env
             /\ a.outcome = "ALREADY_EXISTS" => i # NoId /\ log'[a.node][i] # NoEnvelope
    <2>1. a.node = n /\ a.env = e /\ a.outcome = o
        BY <1>5 DEF Reply
    <2> QED BY <1>3, <1>5, <2>1 DEF Reply
<1> QED BY <1>4, <1>5 DEF LogNext, Submit, Adopt, logVars

LEMMA LogInvariant == LogSpec => []LogInv
<1>1. LogInit => LogInv
    BY DEF LogInit, LogInv, LogTypeOK, NothingForged, AnswersHold
<1>2. LogInv /\ [LogNext]_logVars => LogInv'
    BY LogTypeStep, ForgedStep, AnswersStep DEF LogInv
<1> QED BY <1>1, <1>2, PTL DEF LogSpec

(* In every implementation of EventLog an id once written keeps its        *)
(* envelope for good (store.AddEvent).                                     *)
THEOREM LogIsWrittenOnce == LogSpec => WriteOnce
<1>1. LogInv /\ [LogNext]_logVars =>
          [\A n \in Node, i \in Id :
               log[n][i] # NoEnvelope => log'[n][i] = log[n][i]]_logVars
    BY WriteOnceStep DEF LogInv
<1> QED BY <1>1, LogInvariant, PTL DEF LogSpec, WriteOnce

(* Nothing is written but what was handed in, under the id it claims.      *)
THEOREM LogIsNotForged == LogSpec => []NothingForged
<1>1. LogInv => NothingForged
    BY DEF LogInv
<1> QED BY <1>1, LogInvariant, PTL

(* Every answer ever given is true of the log, now and later.              *)
THEOREM AnswersStayTrue == LogSpec => []AnswersHold
<1>1. LogInv => AnswersHold
    BY DEF LogInv
<1> QED BY <1>1, LogInvariant, PTL

(* Two acceptances of one id by one node are one: the log, which holds one *)
(* envelope, bears out both.                                               *)
THEOREM OneEnvelopeAccepted == LogSpec => []OneAccepted
<1>1. LogInv => OneAccepted
    BY DEF LogInv, LogTypeOK, AnswersHold, OneAccepted, Answer
<1> QED BY <1>1, LogInvariant, PTL
=============================================================================
