--------------------------- MODULE Admission_proofs ---------------------------
(***************************************************************************)
(* Proofs about the broker's admission of connections: that the queue      *)
(* keeps its bound and drops no candidate it has not read from, and that   *)
(* only a peer with the right credential gets a worker.                    *)
(***************************************************************************)
EXTENDS Admission, TLAPS

Live == {"ProducerProof", "ProducerCommit", "ProducerHello", "ControllerInit", "ControllerAttach", "Closing"}

AdmTypeOK ==
    /\ admRole \in {"producer", "controller"}
    /\ admQueue \in Seq(Peers) /\ admBacklog \in Seq(Peers)
    /\ DOMAIN cand = Peers /\ \A p \in Peers : cand[p] = Candidate(cand[p].stage, cand[p].out, cand[p].auth)
    /\ DOMAIN admIn = Peers /\ DOMAIN admHandler = Peers
    /\ admTurn \in [step : {"service"}, left : Nat] \cup [step : {"accept"}, left : 0 .. AdmAccepts]

\* No element is twice in a sequence.
Once(s) == \A i, j \in 1 .. Len(s) : s[i] = s[j] => i = j

\* The queue keeps its limit; no candidate is twice in it, and none is in it that has
\* ended; who waits in the listener has no candidate yet.
QueueOK ==
    /\ Len(admQueue) <= AdmLimit
    /\ Once(admQueue) /\ Once(admBacklog)
    /\ \A i \in 1 .. Len(admQueue) : cand[admQueue[i]].stage \in Live
    /\ \A i \in 1 .. Len(admBacklog) : cand[admBacklog[i]].stage = "away"

\* Who may be unpolled: while the queue is served, those that are still to be served
\* in this turn; while connections are accepted, those accepted in this turn.
TurnOK ==
    /\ admTurn.step = "service" =>
         /\ admTurn.left <= Len(admQueue)
         /\ \A i \in 1 .. Len(admQueue) : i > admTurn.left => admQueue[i] \in admPolled
    /\ admTurn.step = "accept" =>
         \A i \in 1 .. Len(admQueue) :
             i + AdmAccepts <= Len(admQueue) + admTurn.left => admQueue[i] \in admPolled

\* The credential of p was derived from this broker's token, for its port and p's launch.
Genuine(p) == admCred[p] = FrontKey(AdmRoot, "broker", AdmPort, admCred[p].launch)

\* What is said in the name of p is said with its own credential.
FrameOK(p, record) ==
    /\ record.kind = "proof" => \E challenge : record.value = ProducerProof(admCred[p], challenge)
    /\ record.kind \in {"attach", "other"} => record.proof = SessionClientProof(admCred[p], p, p, "bound")

FramesOK == \A p \in Peers : admIn[p] = <<>> \/ \E record : admIn[p] = <<record>> /\ FrameOK(p, record)

\* What each stage of a handshake has established.
Proven(p) ==
    /\ cand[p].stage = "ProducerCommit" => Genuine(p) /\ cand[p].auth.key = admCred[p]
    /\ cand[p].stage = "ProducerHello" => Genuine(p) /\ cand[p].auth = admCred[p].launch
    /\ cand[p].stage \in {"ProducerProof", "ProducerCommit", "ProducerHello"} => admRole = "producer"
    /\ cand[p].stage \in {"ControllerInit", "ControllerAttach"} => admRole = "controller"
    /\ cand[p].stage = "admitted" =>
         IF admRole = "producer" THEN Genuine(p) /\ admHandler[p].launch = admCred[p].launch
         ELSE admCred[p] = AdmRoot /\ admHandler[p].binding = "bound"

AdmInv == AdmTypeOK /\ QueueOK /\ TurnOK /\ FramesOK /\ EvictedWasPolled /\ \A p \in Peers : Proven(p)

-----------------------------------------------------------------------------
(* Lemmas on the handshake *)

LEMMA CandidateFields ==
    ASSUME NEW stage, NEW out, NEW auth
    PROVE  /\ Candidate(stage, out, auth).stage = stage
           /\ Candidate(stage, out, auth).out = out
           /\ Candidate(stage, out, auth).auth = auth
           /\ Ended(stage).stage = stage
           /\ Ended(stage) = Candidate(Ended(stage).stage, Ended(stage).out, Ended(stage).auth)
BY DEF Candidate, Ended

\* A proof that verifies was made with the credential of a genuine producer: the
\* digest holds the key (verify_producer_proof of producer_auth.rs).
LEMMA ProofNamesKey ==
    ASSUME NEW key, NEW challenge, NEW mine,
           VerifyProducerProof(AdmRoot, mine, "broker", AdmPort, ProducerProof(key, challenge))
    PROVE  /\ key = FrontKey(AdmRoot, "broker", AdmPort, key.launch)
           /\ ProducerProof(key, challenge).launch = key.launch
BY DEF VerifyProducerProof, ProducerProof, DirectionalProof

\* A session proof that is authentic was made with the broker's token, for the very
\* request it came with.
LEMMA AttachNamesToken ==
    ASSUME NEW token, NEW p, NEW client, NEW server, NEW request,
           request.proof = SessionClientProof(token, p, p, "bound"),
           AttachAuthentic(AdmRoot, client, server, request)
    PROVE  token = AdmRoot /\ request.binding = "bound"
BY DEF AttachAuthentic, SessionClientProof

\* A peer answers with its own credential.
LEMMA AnswersAreOwn ==
    ASSUME NEW p \in Peers, NEW record \in Answers(p) \cup {[kind |-> "garbage"], [kind |-> "eof"]}
    PROVE  FrameOK(p, record)
<1>1. CASE record \in {[kind |-> "garbage"], [kind |-> "eof"]}
  BY <1>1 DEF FrameOK
<1>2. CASE record \in Answers(p) /\ admRole = "producer"
  <2> DEFINE challenge == ListenerChallenge("broker", AdmPort, p)
  <2>1. \/ record = [kind |-> "proof", value |-> ProducerProof(admCred[p], admSeen[p].value)]
        \/ record = [kind |-> "commit", value |-> ProducerCommit(admCred[p], challenge)]
        \/ \E l : record = [kind |-> "hello", ok |-> TRUE, token |-> FALSE, launch |-> l]
    BY <1>2 DEF Answers
  <2> QED BY <2>1 DEF FrameOK
<1>3. CASE record \in Answers(p) /\ admRole # "producer"
  <2>1. \/ record = [kind |-> "init", client |-> p]
        \/ /\ admSeen[p].value = SessionServerProof(admCred[p], p, p)
           /\ \E k \in {"attach", "other"}, b \in {"bound", "altered"} :
                record = [kind |-> k, binding |-> b, proof |-> SessionClientProof(admCred[p], p, p, "bound")]
    BY <1>3 DEF Answers
  <2> QED BY <2>1 DEF FrameOK
<1> QED BY <1>1, <1>2, <1>3

-----------------------------------------------------------------------------
(* Lemmas on the queue *)

LEMMA TailFacts ==
    ASSUME NEW S, NEW s \in Seq(S), s # <<>>
    PROVE  /\ Len(s) \in Nat \ {0}
           /\ Head(s) = s[1] /\ s[1] \in S
           /\ Tail(s) \in Seq(S)
           /\ Len(Tail(s)) = Len(s) - 1
           /\ \A i \in 1 .. Len(Tail(s)) : i + 1 \in 1 .. Len(s) /\ Tail(s)[i] = s[i + 1]
<1>1. Len(s) \in Nat \ {0} OBVIOUS
<1>2. Head(s) = s[1] /\ s[1] \in S OBVIOUS
<1>3. Tail(s) \in Seq(S) /\ Len(Tail(s)) = Len(s) - 1 BY <1>1
<1>4. \A i \in 1 .. Len(Tail(s)) : i + 1 \in 1 .. Len(s) /\ Tail(s)[i] = s[i + 1] BY <1>1, <1>3
<1> QED BY <1>1, <1>2, <1>3, <1>4

LEMMA AppendFacts ==
    ASSUME NEW S, NEW s \in Seq(S), NEW e \in S
    PROVE  /\ Append(s, e) \in Seq(S)
           /\ Len(s) \in Nat
           /\ Len(Append(s, e)) = Len(s) + 1
           /\ Append(s, e)[Len(s) + 1] = e
           /\ \A i \in 1 .. Len(s) : Append(s, e)[i] = s[i] /\ s[i] \in S
OBVIOUS

LEMMA TailOnce ==
    ASSUME NEW S, NEW s \in Seq(S), s # <<>>, Once(s)
    PROVE  Once(Tail(s)) /\ \A i \in 1 .. Len(Tail(s)) : Tail(s)[i] # s[1]
<1>1. /\ Len(s) \in Nat \ {0} /\ Len(Tail(s)) = Len(s) - 1
      /\ \A i \in 1 .. Len(Tail(s)) : i + 1 \in 1 .. Len(s) /\ Tail(s)[i] = s[i + 1]
  BY TailFacts
<1>2. \A i \in 1 .. Len(Tail(s)) : i + 1 # 1 BY <1>1
<1>3. 1 \in 1 .. Len(s) BY <1>1
<1>4. \A i \in 1 .. Len(Tail(s)) : Tail(s)[i] # s[1] BY <1>1, <1>2, <1>3 DEF Once
<1>5. ASSUME NEW i \in 1 .. Len(Tail(s)), NEW j \in 1 .. Len(Tail(s)), Tail(s)[i] = Tail(s)[j]
      PROVE  i = j
  <2>1. i + 1 = j + 1 BY <1>1, <1>5 DEF Once
  <2> QED BY <2>1
<1> QED BY <1>4, <1>5 DEF Once

LEMMA AppendOnce ==
    ASSUME NEW S, NEW s \in Seq(S), NEW e \in S, Once(s), \A i \in 1 .. Len(s) : s[i] # e
    PROVE  Once(Append(s, e))
<1>1. /\ Len(s) \in Nat /\ Len(Append(s, e)) = Len(s) + 1 /\ Append(s, e)[Len(s) + 1] = e
      /\ \A i \in 1 .. Len(s) : Append(s, e)[i] = s[i]
  BY AppendFacts
<1> SUFFICES ASSUME NEW i \in 1 .. Len(s) + 1, NEW j \in 1 .. Len(s) + 1,
                    Append(s, e)[i] = Append(s, e)[j]
             PROVE  i = j
  BY <1>1 DEF Once
<1>2. CASE i = Len(s) + 1 /\ j = Len(s) + 1 BY <1>2
<1>3. CASE i \in 1 .. Len(s) /\ j \in 1 .. Len(s) BY <1>1, <1>3 DEF Once
<1>4. CASE i \in 1 .. Len(s) /\ j = Len(s) + 1 BY <1>1, <1>4
<1>5. CASE i = Len(s) + 1 /\ j \in 1 .. Len(s) BY <1>1, <1>5
<1> QED BY <1>1, <1>2, <1>3, <1>4, <1>5

-----------------------------------------------------------------------------
(* The steps of the thread *)

LEMMA AdmStarts == AdmInit => AdmInv
<1> SUFFICES ASSUME AdmInit PROVE AdmInv
  OBVIOUS
<1>1. \A p \in Peers : cand[p] = Ended("away") BY DEF AdmInit
<1>2. \A p \in Peers : cand[p].stage = "away" /\ cand[p] = Candidate(cand[p].stage, cand[p].out, cand[p].auth)
  BY <1>1, CandidateFields
<1>3. AdmTypeOK BY <1>2 DEF AdmInit, AdmTypeOK
<1>4. QueueOK BY AdmAssumption DEF AdmInit, QueueOK, Once
<1>5. TurnOK BY DEF AdmInit, TurnOK
<1>6. FramesOK BY DEF AdmInit, FramesOK
<1>7. EvictedWasPolled /\ \A p \in Peers : Proven(p)
  BY <1>2 DEF EvictedWasPolled, Proven
<1> QED BY <1>3, <1>4, <1>5, <1>6, <1>7 DEF AdmInv

\* The candidate that is due is the first of the queue.
LEMMA DueIsFirst ==
    ASSUME AdmInv, NEW p \in Peers, Due(p)
    PROVE  /\ admQueue # <<>> /\ admQueue[1] = p
           /\ cand[p].stage \in Live
           /\ admTurn.step = "service" /\ admTurn.left \in Nat \ {0} /\ admTurn.left <= Len(admQueue)
<1>1. admTurn.step = "service" /\ admTurn.left \in Nat \ {0} /\ admTurn.left <= Len(admQueue)
  BY DEF AdmInv, AdmTypeOK, TurnOK, Due
<1>2. admQueue \in Seq(Peers) /\ admQueue # <<>> BY <1>1 DEF AdmInv, AdmTypeOK
<1>3. 1 \in 1 .. Len(admQueue) BY <1>1, <1>2
<1> QED BY <1>1, <1>2, <1>3 DEF Due, AdmInv, QueueOK

\* What the end of a poll does to the queue: the candidate leaves it or goes to its
\* back, where the candidates that were polled in this turn are.
LEMMA RequeueKeeps ==
    ASSUME AdmInv, NEW p \in Peers, Due(p), NEW c, Requeue(p, c),
           c = Candidate(c.stage, c.out, c.auth), c.stage \in Live \cup {"closed", "admitted"},
           DOMAIN admIn' = Peers, DOMAIN admHandler' = Peers
    PROVE  AdmTypeOK' /\ QueueOK' /\ TurnOK' /\ EvictedWasPolled'
<1> DEFINE rest == Tail(admQueue)
           kept == c.stage \notin {"closed", "admitted"}
<1>1. /\ admQueue # <<>> /\ admQueue[1] = p /\ cand[p].stage \in Live /\ admTurn.step = "service"
      /\ admTurn.left \in Nat \ {0} /\ admTurn.left <= Len(admQueue)
  BY DueIsFirst
<1>2. /\ admQueue \in Seq(Peers) /\ admBacklog \in Seq(Peers) /\ DOMAIN cand = Peers
      /\ Once(admQueue) /\ Once(admBacklog) /\ Len(admQueue) <= AdmLimit
      /\ admTurn = [step |-> "service", left |-> admTurn.left]
  <2>1. admTurn \in [step : {"service"}, left : Nat] \cup [step : {"accept"}, left : 0 .. AdmAccepts]
    BY DEF AdmInv, AdmTypeOK
  <2> QED BY <1>1, <2>1 DEF AdmInv, AdmTypeOK, QueueOK
<1>3. /\ Len(admQueue) \in Nat \ {0} /\ rest \in Seq(Peers) /\ Len(rest) = Len(admQueue) - 1
      /\ \A i \in 1 .. Len(rest) : i + 1 \in 1 .. Len(admQueue) /\ rest[i] = admQueue[i + 1]
  BY <1>1, <1>2, TailFacts
<1>4. Once(rest) /\ \A i \in 1 .. Len(rest) : rest[i] # p
  BY <1>1, <1>2, TailOnce
<1>5. admQueue' = IF kept THEN Append(rest, p) ELSE rest
  BY DEF Requeue
<1>6. /\ Append(rest, p) \in Seq(Peers) /\ Len(Append(rest, p)) = Len(admQueue)
      /\ Append(rest, p)[Len(admQueue)] = p
      /\ \A i \in 1 .. Len(rest) : Append(rest, p)[i] = rest[i] /\ rest[i] \in Peers
  <2>1. /\ Append(rest, p) \in Seq(Peers) /\ Len(Append(rest, p)) = Len(rest) + 1
        /\ Append(rest, p)[Len(rest) + 1] = p
        /\ \A i \in 1 .. Len(rest) : Append(rest, p)[i] = rest[i] /\ rest[i] \in Peers
    BY <1>3, AppendFacts
  <2> QED BY <1>3, <2>1
<1>7. /\ cand' = [cand EXCEPT ![p] = c] /\ admPolled' = admPolled \cup {p}
      /\ admTurn' = [step |-> "service", left |-> admTurn.left - 1]
      /\ admBacklog' = admBacklog /\ admRole' = admRole
  BY <1>2 DEF Requeue
<1>8. cand'[p] = c /\ \A q \in Peers \ {p} : cand'[q] = cand[q]
  BY <1>2, <1>7
<1>9. /\ \A i \in 1 .. Len(rest) : admQueue'[i] = rest[i] /\ rest[i] \in Peers
      /\ Len(admQueue') \in Nat /\ Len(rest) <= Len(admQueue') /\ Len(admQueue') <= Len(admQueue)
      /\ \A i \in 1 .. Len(admQueue') : i \in 1 .. Len(rest) \/ (kept /\ admQueue'[i] = p)
  BY <1>3, <1>5, <1>6
<1>10. AdmTypeOK'
  <2>1. admQueue' \in Seq(Peers) BY <1>3, <1>5, <1>6
  <2>2. \A q \in Peers : cand'[q] = Candidate(cand'[q].stage, cand'[q].out, cand'[q].auth)
    BY <1>8 DEF AdmInv, AdmTypeOK
  <2>3. admTurn' \in [step : {"service"}, left : Nat] BY <1>1, <1>7
  <2>4. DOMAIN cand' = Peers BY <1>2, <1>7
  <2>5. admRole' \in {"producer", "controller"} /\ admBacklog' \in Seq(Peers)
    BY <1>2, <1>7 DEF AdmInv, AdmTypeOK
  <2> QED BY <2>1, <2>2, <2>3, <2>4, <2>5 DEF AdmTypeOK
<1>11. QueueOK'
  <2>1. Len(admQueue') <= AdmLimit BY <1>2, <1>3, <1>9, AdmAssumption
  <2>2. Once(admQueue')
    BY <1>3, <1>4, <1>5, AppendOnce
  <2>3. \A i \in 1 .. Len(admQueue') : cand'[admQueue'[i]].stage \in Live
    <3> SUFFICES ASSUME NEW i \in 1 .. Len(admQueue') PROVE cand'[admQueue'[i]].stage \in Live
      OBVIOUS
    <3>1. CASE i \in 1 .. Len(rest)
      <4>1. admQueue'[i] = admQueue[i + 1] /\ admQueue'[i] # p /\ admQueue'[i] \in Peers
            /\ i + 1 \in 1 .. Len(admQueue)
        BY <1>3, <1>4, <1>9, <3>1
      <4>2. cand[admQueue[i + 1]].stage \in Live BY <4>1 DEF AdmInv, QueueOK
      <4> QED BY <1>8, <4>1, <4>2
    <3>2. CASE kept /\ admQueue'[i] = p BY <1>8, <3>2
    <3> QED BY <1>9, <3>1, <3>2
  <2>4. \A i \in 1 .. Len(admBacklog') : cand'[admBacklog'[i]].stage = "away"
    <3> SUFFICES ASSUME NEW i \in 1 .. Len(admBacklog) PROVE cand'[admBacklog[i]].stage = "away"
      BY <1>7
    <3>1. cand[admBacklog[i]].stage = "away" BY DEF AdmInv, QueueOK
    <3>2. admBacklog[i] \in Peers BY <1>2
    <3>3. admBacklog[i] # p BY <1>1, <3>1 DEF Live
    <3> QED BY <1>8, <3>1, <3>2, <3>3
  <2> QED BY <1>2, <1>7, <2>1, <2>2, <2>3, <2>4 DEF QueueOK
<1>12. TurnOK'
  <2>1. admTurn'.step = "service" /\ admTurn'.left = admTurn.left - 1 BY <1>7
  <2>2. admTurn.left - 1 <= Len(admQueue') BY <1>1, <1>3, <1>9
  <2>3. ASSUME NEW i \in 1 .. Len(admQueue'), i > admTurn.left - 1
        PROVE  admQueue'[i] \in admPolled'
    <3>1. CASE i \in 1 .. Len(rest)
      <4>1. admQueue'[i] = admQueue[i + 1] /\ i + 1 \in 1 .. Len(admQueue) BY <1>3, <1>9, <3>1
      <4>2. i + 1 > admTurn.left BY <1>1, <2>3
      <4>3. admQueue[i + 1] \in admPolled BY <1>1, <4>1, <4>2 DEF AdmInv, TurnOK
      <4> QED BY <1>7, <4>1, <4>3
    <3>2. CASE admQueue'[i] = p BY <1>7, <3>2
    <3> QED BY <1>9, <3>1, <3>2
  <2> QED BY <2>1, <2>2, <2>3 DEF TurnOK
<1>13. EvictedWasPolled'
  <2> SUFFICES ASSUME NEW q \in Peers, cand'[q].stage = "evicted" PROVE q \in admPolled'
    BY DEF EvictedWasPolled
  <2>1. q # p BY <1>8 DEF Live
  <2> QED BY <1>7, <1>8, <2>1 DEF AdmInv, EvictedWasPolled
<1> QED BY <1>10, <1>11, <1>12, <1>13

\* Who is not touched by a step keeps what was established about it.
LEMMA OthersKeep ==
    ASSUME AdmInv, NEW q \in Peers, UNCHANGED <<admRole, admCred>>,
           cand'[q] = cand[q], admHandler'[q] = admHandler[q]
    PROVE  Proven(q)'
BY DEF AdmInv, Proven, Genuine

\* What a stage, reached with what it keeps, must have established about p: the part
\* of Proven that a worker is started from.
StageProves(p, c) ==
    /\ c.stage = "ProducerCommit" => Genuine(p) /\ c.auth.key = admCred[p]
    /\ c.stage = "ProducerHello" => Genuine(p) /\ c.auth = admCred[p].launch
    /\ c.stage \in {"ProducerProof", "ProducerCommit", "ProducerHello"} => admRole = "producer"
    /\ c.stage \in {"ControllerInit", "ControllerAttach"} => admRole = "controller"
    /\ c.stage = "authenticated" =>
         IF admRole = "producer" THEN Genuine(p) /\ c.auth.launch = admCred[p].launch
         ELSE admCred[p] = AdmRoot /\ c.auth.binding = "bound"

\* A candidate, still running or not, that Candidate::poll may leave.
GoodCandidate(p, c) ==
    /\ c = Candidate(c.stage, c.out, c.auth)
    /\ c.stage \in Live \cup {"closed", "authenticated"}
    /\ StageProves(p, c)

LEMMA ClosedIsGood ==
    ASSUME NEW p \in Peers
    PROVE  GoodCandidate(p, Ended("closed"))
BY CandidateFields DEF GoodCandidate, StageProves

\* Each stage passes only what entitles p to the next.
LEMMA AfterProofProves ==
    ASSUME AdmInv, NEW p \in Peers, NEW c, NEW record, FrameOK(p, record), admRole = "producer"
    PROVE  GoodCandidate(p, AfterProof(p, c, record))
<1>1. CASE ~(record.kind = "proof" /\ VerifyProducerProof(AdmRoot, c.auth, "broker", AdmPort, record.value))
  BY <1>1, ClosedIsGood DEF AfterProof
<1>2. CASE record.kind = "proof" /\ VerifyProducerProof(AdmRoot, c.auth, "broker", AdmPort, record.value)
  <2>1. PICK challenge : record.value = ProducerProof(admCred[p], challenge)
    BY <1>2 DEF FrameOK
  <2>2. Genuine(p) /\ record.value.launch = admCred[p].launch
    BY <1>2, <2>1, ProofNamesKey DEF Genuine
  <2> DEFINE auth == AuthenticatedTranscript(AdmRoot, c.auth, "broker", AdmPort, record.value.launch)
             out == [kind |-> "listener", value |-> ListenerProof(auth)]
  <2>3. AfterProof(p, c, record) = Candidate("ProducerCommit", out, auth)
    BY <1>2 DEF AfterProof
  <2>4. auth.key = admCred[p] BY <2>2 DEF AuthenticatedTranscript, Genuine
  <2> HIDE DEF auth, out
  <2> QED BY <2>2, <2>3, <2>4, CandidateFields DEF GoodCandidate, StageProves, Live
<1> QED BY <1>1, <1>2

LEMMA AfterCommitProves ==
    ASSUME NEW p \in Peers, NEW record, cand[p].stage = "ProducerCommit", Proven(p)
    PROVE  GoodCandidate(p, AfterCommit(p, cand[p], record))
<1>1. AfterCommit(p, cand[p], record)
        \in {Candidate("ProducerHello", [kind |-> "ok"], cand[p].auth.key.launch), Ended("closed")}
  BY DEF AfterCommit
<1>2. Genuine(p) /\ cand[p].auth.key = admCred[p] /\ admRole = "producer" BY DEF Proven
<1>3. GoodCandidate(p, Candidate("ProducerHello", [kind |-> "ok"], cand[p].auth.key.launch))
  BY <1>2, CandidateFields DEF GoodCandidate, StageProves, Live
<1> QED BY <1>1, <1>3, ClosedIsGood

LEMMA AfterHelloProves ==
    ASSUME NEW p \in Peers, NEW record, cand[p].stage = "ProducerHello", Proven(p)
    PROVE  GoodCandidate(p, AfterHello(p, cand[p], record))
<1>1. CASE ~(record.kind = "hello" /\ ProducerResult(record, cand[p].auth) # Nothing)
  BY <1>1, ClosedIsGood DEF AfterHello
<1>2. CASE record.kind = "hello" /\ ProducerResult(record, cand[p].auth) # Nothing
  <2>1. ProducerResult(record, cand[p].auth) = [kind |-> "hello", launch |-> cand[p].auth]
    BY <1>2 DEF ProducerResult
  <2>2. AfterHello(p, cand[p], record) = Candidate("authenticated", Nothing, [kind |-> "hello", launch |-> cand[p].auth])
    BY <1>2, <2>1 DEF AfterHello
  <2>3. Genuine(p) /\ cand[p].auth = admCred[p].launch /\ admRole = "producer" BY DEF Proven
  <2> QED BY <2>2, <2>3, CandidateFields DEF GoodCandidate, StageProves
<1> QED BY <1>1, <1>2

LEMMA AfterInitProves ==
    ASSUME NEW p \in Peers, NEW c, NEW record, admRole = "controller"
    PROVE  GoodCandidate(p, AfterInit(p, c, record))
<1>1. \/ AfterInit(p, c, record) = Ended("closed")
      \/ \E out, auth : AfterInit(p, c, record) = Candidate("ControllerAttach", out, auth)
  BY DEF AfterInit
<1> QED BY <1>1, ClosedIsGood, CandidateFields DEF GoodCandidate, StageProves, Live

LEMMA AfterAttachProves ==
    ASSUME NEW p \in Peers, NEW c, NEW record, FrameOK(p, record), admRole = "controller"
    PROVE  GoodCandidate(p, AfterAttach(p, c, record))
<1>1. CASE record.kind = "attach" /\ AttachAuthentic(AdmRoot, c.auth.client, c.auth.server, record)
  <2>1. AfterAttach(p, c, record) = Candidate("authenticated", Nothing, [kind |-> "attach", binding |-> record.binding])
    BY <1>1 DEF AfterAttach
  <2>2. record.proof = SessionClientProof(admCred[p], p, p, "bound") BY <1>1 DEF FrameOK
  <2>3. admCred[p] = AdmRoot /\ record.binding = "bound" BY <1>1, <2>2, AttachNamesToken
  <2> QED BY <2>1, <2>3, CandidateFields DEF GoodCandidate, StageProves
<1>2. CASE ~(record.kind = "attach" /\ AttachAuthentic(AdmRoot, c.auth.client, c.auth.server, record))
  <2>1. AfterAttach(p, c, record) \in {Candidate("Closing", [kind |-> "error"], Nothing), Ended("closed")}
    BY <1>2 DEF AfterAttach
  <2> QED BY <2>1, ClosedIsGood, CandidateFields DEF GoodCandidate, StageProves, Live
<1> QED BY <1>1, <1>2

LEMMA AfterFrameProves ==
    ASSUME AdmInv, NEW p \in Peers, cand[p].stage \in Live \ {"Closing"}, NEW record, FrameOK(p, record)
    PROVE  GoodCandidate(p, AfterFrame(p, cand[p], record))
<1> DEFINE c == AfterFrame(p, cand[p], record)
<1>0. Proven(p) BY DEF AdmInv
<1>1. CASE record.kind = "eof"
  <2>1. /\ AfterProof(p, cand[p], record) = Ended("closed") /\ AfterCommit(p, cand[p], record) = Ended("closed")
        /\ AfterHello(p, cand[p], record) = Ended("closed") /\ AfterInit(p, cand[p], record) = Ended("closed")
        /\ AfterAttach(p, cand[p], record) = Ended("closed")
    BY <1>1 DEF AfterProof, AfterCommit, AfterHello, AfterInit, AfterAttach
  <2>2. c = Ended("closed") BY <1>1, <2>1 DEF AfterFrame
  <2> QED BY <2>2, ClosedIsGood
<1>2. CASE record.kind # "eof" /\ cand[p].stage = "ProducerProof"
  BY <1>0, <1>2, AfterProofProves DEF AfterFrame, Proven
<1>3. CASE record.kind # "eof" /\ cand[p].stage = "ProducerCommit"
  BY <1>0, <1>3, AfterCommitProves DEF AfterFrame
<1>4. CASE record.kind # "eof" /\ cand[p].stage = "ProducerHello"
  BY <1>0, <1>4, AfterHelloProves DEF AfterFrame
<1>5. CASE record.kind # "eof" /\ cand[p].stage = "ControllerInit"
  BY <1>0, <1>5, AfterInitProves DEF AfterFrame, Proven
<1>6. CASE record.kind # "eof" /\ cand[p].stage = "ControllerAttach"
  BY <1>0, <1>6, AfterAttachProves DEF AfterFrame, Proven
<1> QED BY <1>1, <1>2, <1>3, <1>4, <1>5, <1>6 DEF Live

\* A frame that is taken leaves no other.
LEMMA FramesKept ==
    ASSUME AdmInv, NEW p \in Peers, UNCHANGED admCred,
           \/ UNCHANGED admIn
           \/ admIn[p] # <<>> /\ admIn' = [admIn EXCEPT ![p] = Tail(@)]
    PROVE  FramesOK'
<1>1. CASE UNCHANGED admIn BY <1>1 DEF AdmInv, FramesOK, FrameOK
<1>2. CASE admIn[p] # <<>> /\ admIn' = [admIn EXCEPT ![p] = Tail(@)]
  <2>1. PICK record : admIn[p] = <<record>> BY <1>2 DEF AdmInv, FramesOK
  <2>2. Tail(<<record>>) = <<>> OBVIOUS
  <2>3. admIn'[p] = <<>> /\ \A q \in Peers \ {p} : admIn'[q] = admIn[q]
    BY <1>2, <2>1, <2>2 DEF AdmInv, AdmTypeOK
  <2> QED BY <2>3 DEF AdmInv, FramesOK, FrameOK
<1> QED BY <1>1, <1>2

\* A poll that leaves a good candidate keeps the invariant.
LEMMA PollKeeps ==
    ASSUME AdmInv, NEW p \in Peers, Due(p), NEW c, Requeue(p, c), GoodCandidate(p, c),
           c.stage # "authenticated", UNCHANGED admHandler,
           \/ UNCHANGED admIn
           \/ admIn[p] # <<>> /\ admIn' = [admIn EXCEPT ![p] = Tail(@)]
    PROVE  AdmInv'
<1>1. DOMAIN admIn' = Peers /\ DOMAIN admHandler' = Peers BY DEF AdmInv, AdmTypeOK
<1>2. AdmTypeOK' /\ QueueOK' /\ TurnOK' /\ EvictedWasPolled'
  BY <1>1, RequeueKeeps DEF GoodCandidate
<1>3. UNCHANGED <<admRole, admCred>> BY DEF Requeue
<1>4. FramesOK' BY <1>3, FramesKept
<1>5. cand'[p] = c /\ \A q \in Peers \ {p} : cand'[q] = cand[q]
  BY DEF Requeue, AdmInv, AdmTypeOK
<1>6. Proven(p)'
  <2>1. c.stage # "admitted" BY DEF GoodCandidate, Live
  <2> QED BY <1>3, <1>5, <2>1 DEF GoodCandidate, StageProves, Proven, Genuine
<1>7. \A q \in Peers \ {p} : Proven(q)' BY <1>3, <1>5, OthersKeep
<1> QED BY <1>2, <1>4, <1>6, <1>7 DEF AdmInv

LEMMA PollExpiredKeeps ==
    ASSUME AdmInv, NEW p \in Peers, PollExpired(p)
    PROVE  AdmInv'
BY ClosedIsGood, CandidateFields, PollKeeps DEF PollExpired

\* A candidate that is not read from stays as good as it is.
LEMMA LiveIsGood ==
    ASSUME AdmInv, NEW p \in Peers, Due(p)
    PROVE  /\ GoodCandidate(p, cand[p]) /\ cand[p].stage \notin {"closed", "authenticated"}
           /\ GoodCandidate(p, [cand[p] EXCEPT !.out = Nothing])
           /\ [cand[p] EXCEPT !.out = Nothing].stage = cand[p].stage
<1>1. cand[p].stage \in Live BY DueIsFirst
<1>2. cand[p] = Candidate(cand[p].stage, cand[p].out, cand[p].auth) BY DEF AdmInv, AdmTypeOK
<1>3. cand[p].stage \notin {"closed", "authenticated"} BY <1>1 DEF Live
<1>4. GoodCandidate(p, cand[p])
  BY <1>1, <1>2, <1>3 DEF AdmInv, Proven, GoodCandidate, StageProves
<1>5. [cand[p] EXCEPT !.out = Nothing] = Candidate(cand[p].stage, Nothing, cand[p].auth)
  BY <1>2 DEF Candidate
<1>6. GoodCandidate(p, Candidate(cand[p].stage, Nothing, cand[p].auth))
  BY <1>4, CandidateFields DEF GoodCandidate, StageProves
<1> QED BY <1>3, <1>4, <1>5, <1>6, CandidateFields

LEMMA PollBlockedKeeps ==
    ASSUME AdmInv, NEW p \in Peers, PollBlocked(p)
    PROVE  AdmInv'
<1>1. PICK failed \in BOOLEAN : Requeue(p, IF failed THEN Ended("closed") ELSE cand[p])
  BY DEF PollBlocked
<1>2. Due(p) /\ UNCHANGED <<admIn, admHandler>> BY DEF PollBlocked
<1>3. CASE failed BY <1>1, <1>2, <1>3, ClosedIsGood, CandidateFields, PollKeeps
<1>4. CASE ~failed BY <1>1, <1>2, <1>4, LiveIsGood, PollKeeps
<1> QED BY <1>3, <1>4

LEMMA PollNoFrameKeeps ==
    ASSUME AdmInv, NEW p \in Peers, PollNoFrame(p)
    PROVE  AdmInv'
<1>1. Requeue(p, IF cand[p].stage = "Closing" THEN Ended("closed") ELSE [cand[p] EXCEPT !.out = Nothing])
  BY DEF PollNoFrame
<1>2. Due(p) /\ UNCHANGED <<admIn, admHandler>> BY DEF PollNoFrame
<1>3. CASE cand[p].stage = "Closing" BY <1>1, <1>2, <1>3, ClosedIsGood, CandidateFields, PollKeeps
<1>4. CASE cand[p].stage # "Closing" BY <1>1, <1>2, <1>4, LiveIsGood, PollKeeps
<1> QED BY <1>3, <1>4

\* A frame moves the handshake on, or starts the worker.
LEMMA PollFrameKeeps ==
    ASSUME AdmInv, NEW p \in Peers, PollFrame(p)
    PROVE  AdmInv'
<1> DEFINE c == AfterFrame(p, cand[p], Head(admIn[p]))
<1>1. Due(p) /\ admIn[p] # <<>> /\ admIn' = [admIn EXCEPT ![p] = Tail(@)] /\ cand[p].stage # "Closing"
  BY DEF PollFrame
<1>2. GoodCandidate(p, c)
  <2>1. PICK record : admIn[p] = <<record>> /\ FrameOK(p, record)
    BY <1>1 DEF AdmInv, FramesOK
  <2>2. Head(admIn[p]) = record BY <2>1
  <2>3. cand[p].stage \in Live \ {"Closing"} BY <1>1, DueIsFirst
  <2> QED BY <2>1, <2>2, <2>3, AfterFrameProves
<1>3. IF c.stage = "authenticated"
      THEN \E late \in BOOLEAN :
           /\ Requeue(p, Ended(IF late THEN "closed" ELSE "admitted"))
           /\ admHandler' = IF late THEN admHandler ELSE [admHandler EXCEPT ![p] = c.auth]
      ELSE Requeue(p, c) /\ UNCHANGED admHandler
  BY DEF PollFrame
<1> HIDE DEF c
<1>4. CASE c.stage # "authenticated" BY <1>1, <1>2, <1>3, <1>4, PollKeeps
<1>5. CASE c.stage = "authenticated"
  <2>1. PICK late \in BOOLEAN :
           /\ Requeue(p, Ended(IF late THEN "closed" ELSE "admitted"))
           /\ admHandler' = IF late THEN admHandler ELSE [admHandler EXCEPT ![p] = c.auth]
    BY <1>3, <1>5
  <2>2. CASE late
    <3>1. Requeue(p, Ended("closed")) /\ UNCHANGED admHandler BY <2>1, <2>2
    <3>2. Ended("closed").stage # "authenticated" BY CandidateFields
    <3> QED BY <1>1, <3>1, <3>2, ClosedIsGood, PollKeeps
  <2>3. CASE ~late
    <3>1. Requeue(p, Ended("admitted")) /\ admHandler' = [admHandler EXCEPT ![p] = c.auth]
      BY <2>1, <2>3
    <3>2. DOMAIN admIn' = Peers /\ DOMAIN admHandler' = Peers
      BY <1>1, <3>1 DEF AdmInv, AdmTypeOK
    <3>3. AdmTypeOK' /\ QueueOK' /\ TurnOK' /\ EvictedWasPolled'
      BY <1>1, <3>1, <3>2, CandidateFields, RequeueKeeps
    <3>4. UNCHANGED <<admRole, admCred>> BY <3>1 DEF Requeue
    <3>5. FramesOK' BY <1>1, <3>4, FramesKept
    <3>6. cand'[p].stage = "admitted" /\ \A q \in Peers \ {p} : cand'[q] = cand[q]
      BY <3>1, CandidateFields DEF Requeue, AdmInv, AdmTypeOK
    <3>7. admHandler'[p] = c.auth /\ \A q \in Peers \ {p} : admHandler'[q] = admHandler[q]
      BY <3>1 DEF AdmInv, AdmTypeOK
    <3>8. Proven(p)'
      BY <1>2, <1>5, <3>4, <3>6, <3>7 DEF GoodCandidate, StageProves, Proven, Genuine
    <3>9. \A q \in Peers \ {p} : Proven(q)' BY <3>4, <3>6, <3>7, OthersKeep
    <3> QED BY <3>3, <3>5, <3>8, <3>9 DEF AdmInv
  <2> QED BY <2>2, <2>3
<1> QED BY <1>4, <1>5

LEMMA AdmServicedKeeps == AdmInv /\ AdmServiced => AdmInv'
<1> SUFFICES ASSUME AdmInv, AdmServiced PROVE AdmInv'
  OBVIOUS
<1>1. /\ UNCHANGED <<admRole, admBacklog, admQueue, cand, admIn, admCred, admPolled, admHandler>>
      /\ admTurn.step = "service" /\ admTurn.left = 0 /\ admTurn' = [step |-> "accept", left |-> AdmAccepts]
  BY DEF AdmServiced
<1>2. AdmTypeOK'
  <2>1. admTurn' \in [step : {"accept"}, left : 0 .. AdmAccepts] BY <1>1, AdmAssumption
  <2> QED BY <1>1, <2>1 DEF AdmInv, AdmTypeOK
<1>3. TurnOK'
  <2>1. \A i \in 1 .. Len(admQueue) : admQueue[i] \in admPolled BY <1>1 DEF AdmInv, TurnOK
  <2> QED BY <1>1, <2>1 DEF TurnOK
<1>4. QueueOK' /\ FramesOK' /\ EvictedWasPolled'
  BY <1>1 DEF AdmInv, QueueOK, FramesOK, FrameOK, EvictedWasPolled
<1>5. \A p \in Peers : Proven(p)' BY <1>1, OthersKeep
<1> QED BY <1>2, <1>3, <1>4, <1>5 DEF AdmInv

LEMMA AdmAcceptedKeeps == AdmInv /\ AdmAccepted => AdmInv'
<1> SUFFICES ASSUME AdmInv, AdmAccepted PROVE AdmInv'
  OBVIOUS
<1>1. /\ UNCHANGED <<admRole, admBacklog, admQueue, cand, admIn, admCred, admPolled, admHandler>>
      /\ admTurn' = [step |-> "service", left |-> Len(admQueue)]
  BY DEF AdmAccepted
<1>2. Len(admQueue) \in Nat BY DEF AdmInv, AdmTypeOK
<1>3. AdmTypeOK'
  <2>1. admTurn' \in [step : {"service"}, left : Nat] BY <1>1, <1>2
  <2> QED BY <1>1, <2>1 DEF AdmInv, AdmTypeOK
<1>4. TurnOK' BY <1>1, <1>2 DEF TurnOK
<1>5. QueueOK' /\ FramesOK' /\ EvictedWasPolled'
  BY <1>1 DEF AdmInv, QueueOK, FramesOK, FrameOK, EvictedWasPolled
<1>6. \A p \in Peers : Proven(p)' BY <1>1, OthersKeep
<1> QED BY <1>3, <1>4, <1>5, <1>6 DEF AdmInv

\* The candidate that makes room is the oldest, and it was polled: a full queue holds
\* more candidates than were accepted in this turn.
LEMMA AcceptOneKeeps == AdmInv /\ AcceptOne => AdmInv'
<1> SUFFICES ASSUME AdmInv, AcceptOne PROVE AdmInv'
  OBVIOUS
<1> DEFINE p == Head(admBacklog)
           full == Len(admQueue) = AdmLimit
           kept == IF full THEN Tail(admQueue) ELSE admQueue
           gone == IF full THEN {Head(admQueue)} ELSE {}
<1>1. PICK failed \in BOOLEAN :
        /\ admQueue' = IF failed THEN kept ELSE Append(kept, p)
        /\ cand' = [q \in Peers |-> IF q \in gone THEN Ended("evicted")
                                    ELSE IF q # p THEN cand[q]
                                    ELSE IF failed THEN Ended("closed") ELSE NewCandidate(p, admRole)]
  BY DEF AcceptOne
<1>2. /\ admTurn.step = "accept" /\ admTurn.left > 0 /\ admBacklog # <<>> /\ admBacklog' = Tail(admBacklog)
      /\ admTurn' = [admTurn EXCEPT !.left = @ - 1]
      /\ UNCHANGED <<admRole, admIn, admCred, admPolled, admHandler>>
  BY DEF AcceptOne
<1>3. /\ admQueue \in Seq(Peers) /\ admBacklog \in Seq(Peers) /\ Once(admQueue) /\ Once(admBacklog)
      /\ Len(admQueue) \in Nat /\ Len(admQueue) <= AdmLimit
      /\ AdmLimit \in Nat \ {0} /\ AdmAccepts \in 1 .. AdmLimit
  BY AdmAssumption DEF AdmInv, AdmTypeOK, QueueOK
<1>4. /\ admTurn.left \in 1 .. AdmAccepts /\ admTurn'.step = "accept"
      /\ admTurn'.left = admTurn.left - 1 /\ admTurn' \in [step : {"accept"}, left : 0 .. AdmAccepts]
  <2>1. admTurn \in [step : {"service"}, left : Nat] \cup [step : {"accept"}, left : 0 .. AdmAccepts]
    BY DEF AdmInv, AdmTypeOK
  <2>2. admTurn \in [step : {"accept"}, left : 0 .. AdmAccepts] BY <1>2, <2>1
  <2> QED BY <1>2, <1>3, <2>2
<1>5. /\ p \in Peers /\ cand[p].stage = "away" /\ Len(Tail(admBacklog)) = Len(admBacklog) - 1
      /\ admBacklog' \in Seq(Peers) /\ Once(admBacklog')
      /\ \A i \in 1 .. Len(admBacklog') : /\ admBacklog'[i] # p /\ admBacklog'[i] \in Peers
                                          /\ cand[admBacklog'[i]].stage = "away"
  <2>1. /\ Len(admBacklog) \in Nat \ {0} /\ p = admBacklog[1] /\ p \in Peers /\ admBacklog' \in Seq(Peers)
        /\ Len(Tail(admBacklog)) = Len(admBacklog) - 1
        /\ \A i \in 1 .. Len(admBacklog') : i + 1 \in 1 .. Len(admBacklog) /\ admBacklog'[i] = admBacklog[i + 1]
    BY <1>2, <1>3, TailFacts
  <2>2. Once(admBacklog') /\ \A i \in 1 .. Len(admBacklog') : admBacklog'[i] # p
    BY <1>2, <1>3, <2>1, TailOnce
  <2>3. \A i \in 1 .. Len(admBacklog) : cand[admBacklog[i]].stage = "away" /\ admBacklog[i] \in Peers
    BY <1>3 DEF AdmInv, QueueOK
  <2>4. 1 \in 1 .. Len(admBacklog) BY <2>1
  <2> QED BY <2>1, <2>2, <2>3, <2>4
<1>6. \A i \in 1 .. Len(admQueue) : /\ admQueue[i] \in Peers /\ cand[admQueue[i]].stage \in Live
                                    /\ admQueue[i] # p
  BY <1>3, <1>5 DEF AdmInv, QueueOK, Live
\* What is kept of the queue: its end, without the head of a full one.
<1>7. PICK shift \in {0, 1} :
        /\ shift = 1 <=> full
        /\ kept \in Seq(Peers) /\ Len(kept) = Len(admQueue) - shift /\ Once(kept)
        /\ \A i \in 1 .. Len(kept) : i + shift \in 1 .. Len(admQueue) /\ kept[i] = admQueue[i + shift]
        /\ full => /\ gone = {admQueue[1]} /\ 1 \in 1 .. Len(admQueue)
                   /\ \A i \in 1 .. Len(kept) : kept[i] # admQueue[1]
        /\ ~full => gone = {}
  <2>1. CASE full
    <3>1. admQueue # <<>> /\ 1 \in 1 .. Len(admQueue) BY <1>3, <2>1
    <3>2. /\ Head(admQueue) = admQueue[1] /\ Tail(admQueue) \in Seq(Peers) /\ Len(Tail(admQueue)) = Len(admQueue) - 1
          /\ \A i \in 1 .. Len(Tail(admQueue)) :
               i + 1 \in 1 .. Len(admQueue) /\ Tail(admQueue)[i] = admQueue[i + 1]
      BY <1>3, <3>1, TailFacts
    <3>3. Once(Tail(admQueue)) /\ \A i \in 1 .. Len(Tail(admQueue)) : Tail(admQueue)[i] # admQueue[1]
      BY <1>3, <3>1, TailOnce
    <3> WITNESS 1 \in {0, 1}
    <3> QED BY <2>1, <3>1, <3>2, <3>3
  <2>2. CASE ~full
    <3> WITNESS 0 \in {0, 1}
    <3> QED BY <1>3, <2>2
  <2> QED BY <2>1, <2>2
<1>8. Len(kept) \in Nat /\ Len(kept) < AdmLimit
  <2>1. CASE full BY <1>3, <1>7, <2>1
  <2>2. CASE ~full BY <1>3, <1>7, <2>2
  <2> QED BY <2>1, <2>2
<1>9. \A i \in 1 .. Len(kept) : /\ kept[i] \in Peers /\ kept[i] # p /\ kept[i] \notin gone
                                /\ cand[kept[i]].stage \in Live
  BY <1>6, <1>7
<1>10. p \notin gone BY <1>6, <1>7
<1>11. /\ cand'[p] = IF failed THEN Ended("closed") ELSE NewCandidate(p, admRole)
       /\ \A q \in gone \cap Peers : cand'[q] = Ended("evicted")
       /\ \A q \in Peers : q \notin gone /\ q # p => cand'[q] = cand[q]
       /\ DOMAIN cand' = Peers
  BY <1>1, <1>5, <1>10
<1>12. /\ ~failed => cand'[p].stage = IF admRole = "producer" THEN "ProducerProof" ELSE "ControllerInit"
       /\ failed => cand'[p].stage = "closed"
       /\ cand'[p] = Candidate(cand'[p].stage, cand'[p].out, cand'[p].auth)
  BY <1>11, CandidateFields DEF NewCandidate
<1> HIDE DEF p, full, kept, gone
<1>13. /\ admQueue' \in Seq(Peers) /\ Once(admQueue') /\ Len(admQueue') \in Nat
       /\ Len(admQueue') = IF failed THEN Len(kept) ELSE Len(kept) + 1
       /\ \A i \in 1 .. Len(kept) : admQueue'[i] = kept[i]
       /\ ~failed => admQueue'[Len(kept) + 1] = p
  <2>1. CASE failed BY <1>1, <1>7, <1>8, <2>1
  <2>2. CASE ~failed
    <3>1. Once(Append(kept, p)) BY <1>5, <1>7, <1>9, AppendOnce
    <3>2. /\ Append(kept, p) \in Seq(Peers) /\ Len(Append(kept, p)) = Len(kept) + 1
          /\ Append(kept, p)[Len(kept) + 1] = p
          /\ \A i \in 1 .. Len(kept) : Append(kept, p)[i] = kept[i]
      BY <1>5, <1>7, AppendFacts
    <3> QED BY <1>1, <1>8, <2>2, <3>1, <3>2
  <2> QED BY <2>1, <2>2
<1>14. AdmTypeOK'
  <2>1. \A q \in Peers : cand'[q] = Candidate(cand'[q].stage, cand'[q].out, cand'[q].auth)
    <3> SUFFICES ASSUME NEW q \in Peers PROVE cand'[q] = Candidate(cand'[q].stage, cand'[q].out, cand'[q].auth)
      OBVIOUS
    <3>1. CASE q = p BY <1>12, <3>1
    <3>2. CASE q \in gone BY <1>11, <3>2, CandidateFields
    <3>3. CASE q \notin gone /\ q # p BY <1>11, <3>3 DEF AdmInv, AdmTypeOK
    <3> QED BY <3>1, <3>2, <3>3
  <2> QED BY <1>2, <1>4, <1>5, <1>11, <1>13, <2>1 DEF AdmInv, AdmTypeOK
<1>15. QueueOK'
  <2>1. Len(admQueue') <= AdmLimit BY <1>3, <1>8, <1>13
  <2>2. ASSUME NEW i \in 1 .. Len(admQueue') PROVE cand'[admQueue'[i]].stage \in Live
    <3>1. CASE i \in 1 .. Len(kept) BY <1>9, <1>11, <1>13, <3>1
    <3>2. CASE ~failed /\ i = Len(kept) + 1 BY <1>12, <1>13, <3>2 DEF Live
    <3> QED BY <1>8, <1>13, <3>1, <3>2
  <2>3. ASSUME NEW i \in 1 .. Len(admBacklog') PROVE cand'[admBacklog'[i]].stage = "away"
    <3>1. admBacklog'[i] \notin gone
      <4> SUFFICES ASSUME admBacklog'[i] \in gone PROVE FALSE
        OBVIOUS
      <4>1. admBacklog'[i] = admQueue[1] /\ 1 \in 1 .. Len(admQueue) BY <1>7
      <4>2. cand[admQueue[1]].stage \in Live BY <1>6, <4>1
      <4> QED BY <1>5, <4>1, <4>2 DEF Live
    <3> QED BY <1>5, <1>11, <3>1
  <2> QED BY <1>5, <1>13, <2>1, <2>2, <2>3 DEF QueueOK
<1>16. TurnOK'
  <2> SUFFICES ASSUME NEW i \in 1 .. Len(admQueue'), i + AdmAccepts <= Len(admQueue') + (admTurn.left - 1)
               PROVE  admQueue'[i] \in admPolled
    BY <1>2, <1>4 DEF TurnOK
  <2>1. i \in 1 .. Len(kept)
    BY <1>3, <1>4, <1>8, <1>13
  <2>2. i + shift \in 1 .. Len(admQueue) /\ admQueue'[i] = admQueue[i + shift]
    BY <1>7, <1>13, <2>1
  <2>3. (i + shift) + AdmAccepts <= Len(admQueue) + admTurn.left
    <3>1. Len(admQueue') <= Len(kept) + 1 /\ Len(kept) = Len(admQueue) - shift
      BY <1>7, <1>8, <1>13
    <3>2. /\ Len(admQueue') \in Nat /\ Len(admQueue) \in Nat /\ i \in Nat /\ AdmAccepts \in Nat
          /\ admTurn.left \in Nat /\ shift \in Nat
      BY <1>3, <1>4, <1>13
    <3> QED BY <1>8, <3>1, <3>2
  <2> QED BY <1>2, <2>2, <2>3 DEF AdmInv, TurnOK
<1>17. EvictedWasPolled'
  <2> SUFFICES ASSUME NEW q \in Peers, cand'[q].stage = "evicted" PROVE q \in admPolled
    BY <1>2 DEF EvictedWasPolled
  <2>1. CASE q \in gone
    <3>1. full /\ q = admQueue[1] /\ 1 \in 1 .. Len(admQueue) BY <1>7, <2>1
    <3>2. 1 + AdmAccepts <= Len(admQueue) + admTurn.left BY <1>3, <1>4, <3>1 DEF full
    <3> QED BY <1>2, <3>1, <3>2 DEF AdmInv, TurnOK
  <2>2. CASE q \notin gone
    <3>1. q # p BY <1>12
    <3> QED BY <1>11, <2>2, <3>1 DEF AdmInv, EvictedWasPolled
  <2> QED BY <2>1, <2>2
<1>18. FramesOK' BY <1>2 DEF AdmInv, FramesOK, FrameOK
<1>19. ASSUME NEW q \in Peers PROVE Proven(q)'
  <2>1. CASE q = p
    <3>1. \/ cand'[q].stage = "ProducerProof" /\ admRole = "producer"
          \/ cand'[q].stage = "ControllerInit" /\ admRole = "controller"
          \/ cand'[q].stage = "closed"
      BY <1>12, <2>1 DEF AdmInv, AdmTypeOK
    <3> QED BY <1>2, <3>1 DEF Proven
  <2>2. CASE q \in gone
    <3>1. cand'[q].stage = "evicted" BY <1>11, <2>2, CandidateFields
    <3> QED BY <3>1 DEF Proven
  <2>3. CASE q \notin gone /\ q # p BY <1>2, <1>11, <2>3, OthersKeep
  <2> QED BY <2>1, <2>2, <2>3
<1> QED BY <1>14, <1>15, <1>16, <1>17, <1>18, <1>19 DEF AdmInv

-----------------------------------------------------------------------------
(* The peers and the clock *)

LEMMA PeerConnectsKeeps ==
    ASSUME AdmInv, NEW p \in Peers, PeerConnects(p)
    PROVE  AdmInv'
<1>1. /\ UNCHANGED <<admRole, admQueue, cand, admIn, admCred, admTurn, admPolled, admHandler>>
      /\ cand[p].stage = "away" /\ admBacklog' = Append(admBacklog, p)
  BY DEF PeerConnects
<1>2. admBacklog \in Seq(Peers) /\ Once(admBacklog) /\ \A i \in 1 .. Len(admBacklog) : cand[admBacklog[i]].stage = "away"
  BY DEF AdmInv, AdmTypeOK, QueueOK
<1>3. \A i \in 1 .. Len(admBacklog) : admBacklog[i] # p BY <1>2 DEF PeerConnects
<1>4. /\ admBacklog' \in Seq(Peers) /\ Len(admBacklog) \in Nat /\ Len(admBacklog') = Len(admBacklog) + 1
      /\ admBacklog'[Len(admBacklog) + 1] = p /\ \A i \in 1 .. Len(admBacklog) : admBacklog'[i] = admBacklog[i]
  BY <1>1, <1>2, AppendFacts
<1>5. Once(admBacklog') BY <1>1, <1>2, <1>3, AppendOnce
<1>6. \A i \in 1 .. Len(admBacklog') : cand'[admBacklog'[i]].stage = "away"
  BY <1>1, <1>2, <1>4
<1>7. QueueOK' BY <1>1, <1>5, <1>6 DEF AdmInv, QueueOK
<1>8. AdmTypeOK' /\ TurnOK' /\ FramesOK' /\ EvictedWasPolled'
  BY <1>1, <1>4 DEF AdmInv, AdmTypeOK, TurnOK, FramesOK, FrameOK, EvictedWasPolled
<1>9. \A q \in Peers : Proven(q)' BY <1>1, OthersKeep
<1> QED BY <1>7, <1>8, <1>9 DEF AdmInv

LEMMA PeerAnswersKeeps ==
    ASSUME AdmInv, NEW p \in Peers, PeerAnswers(p)
    PROVE  AdmInv'
<1>1. UNCHANGED <<admRole, admBacklog, admQueue, cand, admCred, admTurn, admPolled, admHandler>>
  BY DEF PeerAnswers
<1>2. PICK record \in Answers(p) \cup {[kind |-> "garbage"], [kind |-> "eof"]} :
        admIn' = [admIn EXCEPT ![p] = <<record>>]
  BY DEF PeerAnswers
<1>3. FrameOK(p, record) BY AnswersAreOwn
<1>4. admIn'[p] = <<record>> /\ DOMAIN admIn' = Peers /\ \A q \in Peers \ {p} : admIn'[q] = admIn[q]
  BY <1>2 DEF AdmInv, AdmTypeOK
<1>5. FramesOK' BY <1>1, <1>3, <1>4 DEF AdmInv, FramesOK, FrameOK
<1>6. AdmTypeOK' /\ QueueOK' /\ TurnOK' /\ EvictedWasPolled'
  BY <1>1, <1>4 DEF AdmInv, AdmTypeOK, QueueOK, TurnOK, EvictedWasPolled
<1>7. \A q \in Peers : Proven(q)' BY <1>1, OthersKeep
<1> QED BY <1>5, <1>6, <1>7 DEF AdmInv

\* A step that leaves all of what the invariant is about alone.
LEMMA AdmIdleKeeps ==
    ASSUME AdmInv,
           UNCHANGED <<admRole, admBacklog, admQueue, cand, admIn, admCred, admTurn, admPolled, admHandler>>
    PROVE  AdmInv'
<1>1. AdmTypeOK' /\ QueueOK' /\ TurnOK' /\ FramesOK' /\ EvictedWasPolled'
  BY DEF AdmInv, AdmTypeOK, QueueOK, TurnOK, FramesOK, FrameOK, EvictedWasPolled
<1>2. \A q \in Peers : Proven(q)' BY OthersKeep
<1> QED BY <1>1, <1>2 DEF AdmInv

-----------------------------------------------------------------------------
(* The theorems *)

LEMMA AdmInvariant == AdmSpec => []AdmInv
<1>1. AdmInit => AdmInv BY AdmStarts
<1>2. AdmInv /\ [AdmNext]_admVars => AdmInv'
  <2> SUFFICES ASSUME AdmInv, [AdmNext]_admVars PROVE AdmInv'
    OBVIOUS
  <2>1. CASE UNCHANGED admVars BY <2>1, AdmIdleKeeps DEF admVars
  <2>2. CASE AdmServes
    <3>1. ASSUME NEW p \in Peers, PollExpired(p) \/ PollBlocked(p) \/ PollNoFrame(p) \/ PollFrame(p)
          PROVE  AdmInv'
      BY <3>1, PollExpiredKeeps, PollBlockedKeeps, PollNoFrameKeeps, PollFrameKeeps
    <3> QED BY <2>2, <3>1, AdmServicedKeeps, AcceptOneKeeps, AdmAcceptedKeeps DEF AdmServes
  <2>3. ASSUME NEW p \in Peers, PeerConnects(p) \/ PeerAnswers(p) \/ DeadlinePasses(p)
        PROVE  AdmInv'
    BY <2>3, PeerConnectsKeeps, PeerAnswersKeeps, AdmIdleKeeps DEF DeadlinePasses
  <2> QED BY <2>1, <2>2, <2>3 DEF AdmNext
<1> QED BY <1>1, <1>2, PTL DEF AdmSpec

\* A candidate that accept_candidates evicts to make room was polled since it was
\* accepted, so nothing it had sent by then is dropped unread: whatever the limit of
\* the queue and the accepts of one turn are, as long as a turn accepts no more than
\* the queue holds.
THEOREM EvictionIsFair == AdmSpec => []EvictedWasPolled
<1>1. AdmInv => EvictedWasPolled BY DEF AdmInv
<1> QED BY <1>1, AdmInvariant, PTL

\* The queue of half-finished handshakes never passes PER_ROLE_LIMIT, and no candidate
\* is in it twice.
QueueBounded == Len(admQueue) <= AdmLimit /\ Once(admQueue)

\* However many peers connect in one turn, and however they stall, accept_candidates
\* leaves at most PER_ROLE_LIMIT of them pending.
THEOREM QueueKeepsItsLimit == AdmSpec => []QueueBounded
<1>1. AdmInv => QueueBounded BY DEF AdmInv, QueueOK, QueueBounded
<1> QED BY <1>1, AdmInvariant, PTL

\* A worker starts only for a producer whose key was derived from this broker's token
\* for this port and for the launch it is registered under, or for a frontend that
\* holds the token and sent the very attach it proved.
THEOREM AdmissionIsEntitled == AdmSpec => []AdmittedIsEntitled
<1>1. AdmInv => AdmittedIsEntitled BY DEF AdmInv, Proven, Genuine, AdmittedIsEntitled
<1> QED BY <1>1, AdmInvariant, PTL

\* Admission as the runs check it: evictions are fair and every worker's peer has
\* proved what it is served as, for any number of peers and any limit of the queue.
THEOREM AdmissionIsSound == AdmSpec => []AdmissionSound
<1>1. EvictedWasPolled /\ AdmittedIsEntitled => AdmissionSound BY DEF AdmissionSound
<1> QED BY <1>1, EvictionIsFair, AdmissionIsEntitled, PTL
=============================================================================
