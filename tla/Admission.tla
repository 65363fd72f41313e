------------------------------ MODULE Admission ------------------------------
(***************************************************************************)
(* The broker's admission of connections (src/live/broker/admission.rs):   *)
(* one thread for each role polls a bounded queue of nonblocking           *)
(* handshakes and then accepts a few more, evicting the oldest when the    *)
(* queue is full.  Only a candidate that finishes its handshake gets a     *)
(* worker.                                                                 *)
(***************************************************************************)
EXTENDS ProducerAuth, Naturals, Sequences

CONSTANTS Peers,        \* connections, each with the credential AdmCreds allows
          AdmLimit,     \* PER_ROLE_LIMIT
          AdmAccepts    \* ACCEPTS_PER_TURN

ASSUME AdmAssumption == AdmLimit \in Nat \ {0} /\ AdmAccepts \in 1 .. AdmLimit

VARIABLES admRole,      \* the role of this thread
          admBacklog,   \* connections that wait in the listener
          admQueue,     \* the candidates, in order
          cand,         \* peer -> its Candidate, or its end
          admIn,        \* peer -> the frames that the broker has not read
          admSeen,      \* peer -> what the broker has written to it last
          admCred,      \* peer -> its front key or its token
          admLate,      \* the candidates whose deadline has passed
          admTurn,      \* the step of the loop and what is left of it
          admPolled,    \* the candidates polled since they were accepted
          admHandler    \* peer -> what its worker was started with

admVars == <<admRole, admBacklog, admQueue, cand, admIn, admSeen, admCred, admLate,
             admTurn, admPolled, admHandler>>

AdmRoot == "root"
AdmPort == 1
Nothing == [kind |-> "none"]

\* A producer's token is derived from the controller's, so a frontend's token is
\* no root of a front key.  The credentials of this listener, of another port, of
\* another boundary and of another broker.
AdmCreds ==
    {FrontKey(AdmRoot, "broker", AdmPort, "L1"), FrontKey(AdmRoot, "broker", 2, "L2"),
     FrontKey(AdmRoot, "direct", AdmPort, "L3"), FrontKey("other", "broker", AdmPort, "L4")}

AdmTokens == {AdmRoot, "other"}

Candidate(stage, out, auth) == [stage |-> stage, out |-> out, auth |-> auth]
Ended(how) == Candidate(how, Nothing, Nothing)

NewCandidate(p, role) ==
    IF role = "producer"
    THEN LET challenge == ListenerChallenge("broker", AdmPort, p)
         IN  Candidate("ProducerProof", [kind |-> "challenge", value |-> challenge], challenge)
    ELSE Candidate("ControllerInit", Nothing, Nothing)

AdmInit ==
    /\ admRole \in {"producer", "controller"}
    /\ admCred \in [Peers -> IF admRole = "producer" THEN AdmCreds ELSE AdmTokens]
    /\ admBacklog = <<>> /\ admQueue = <<>>
    /\ cand = [p \in Peers |-> Ended("away")]
    /\ admIn = [p \in Peers |-> <<>>]
    /\ admSeen = [p \in Peers |-> Nothing]
    /\ admLate = {} /\ admPolled = {}
    /\ admTurn = [step |-> "service", left |-> 0]
    /\ admHandler = [p \in Peers |-> Nothing]

Queued(p) == \E i \in DOMAIN admQueue : admQueue[i] = p

-----------------------------------------------------------------------------
\* What a producer's hello must be.  The worker gets the launch that was proven,
\* whether the hello repeats it or not.
ProducerResult(hello, launch) ==
    IF hello.ok /\ ~hello.token /\ hello.launch \in {"none", launch}
    THEN [kind |-> "hello", launch |-> launch]
    ELSE Nothing

\* Mutant: the proof covers the nonces and not the rest of the request.
AttachAuthenticUnbound(token, client, server, request) ==
    \E binding \in {"bound", "altered"} :
        request.proof = SessionClientProof(token, client, server, binding)

\* The proof of a frontend covers the attach request it sends.
AttachAuthentic(token, client, server, request) ==
    request.proof = SessionClientProof(token, client, server, request.binding)

\* What Candidate::poll makes of the frame it has read: the stage that follows,
\* or the end of the candidate.
AfterProof(p, c, record) ==
    IF record.kind = "proof" /\ VerifyProducerProof(AdmRoot, c.auth, "broker", AdmPort, record.value)
    THEN LET auth == AuthenticatedTranscript(AdmRoot, c.auth, "broker", AdmPort, record.value.launch)
         IN  Candidate("ProducerCommit", [kind |-> "listener", value |-> ListenerProof(auth)], auth)
    ELSE Ended("closed")

AfterCommit(p, c, record) ==
    IF record.kind = "commit" /\ VerifyProducerCommit(c.auth, record.value)
    THEN Candidate("ProducerHello", [kind |-> "ok"], c.auth.key.launch)
    ELSE Ended("closed")

AfterHello(p, c, record) ==
    IF record.kind = "hello" /\ ProducerResult(record, c.auth) # Nothing
    THEN Candidate("authenticated", Nothing, ProducerResult(record, c.auth))
    ELSE Ended("closed")

AfterInit(p, c, record) ==
    IF record.kind = "init"
    THEN Candidate("ControllerAttach",
                   [kind |-> "server", value |-> SessionServerProof(AdmRoot, record.client, p)],
                   [client |-> record.client, server |-> p])
    ELSE Ended("closed")

AfterAttach(p, c, record) ==
    IF /\ record.kind \in {"attach", "other"}
       /\ AttachAuthentic(AdmRoot, c.auth.client, c.auth.server, record)
       /\ record.kind = "attach"
    THEN Candidate("authenticated", Nothing, [kind |-> "attach", binding |-> record.binding])
    ELSE IF record.kind \in {"attach", "other"}
         THEN Candidate("Closing", [kind |-> "error"], Nothing)
         ELSE Ended("closed")

AfterFrame(p, c, record) ==
    CASE record.kind = "eof"             -> Ended("closed")
      [] c.stage = "ProducerProof"       -> AfterProof(p, c, record)
      [] c.stage = "ProducerCommit"      -> AfterCommit(p, c, record)
      [] c.stage = "ProducerHello"       -> AfterHello(p, c, record)
      [] c.stage = "ControllerInit"      -> AfterInit(p, c, record)
      [] OTHER                           -> AfterAttach(p, c, record)

-----------------------------------------------------------------------------
\* One candidate of the queue is polled.  It goes to the back of the queue unless
\* it ended, and a worker starts if it is authenticated and still in time.
Requeue(p, c) ==
    /\ cand' = [cand EXCEPT ![p] = c]
    /\ admQueue' = IF c.stage \in {"closed", "admitted"} THEN Tail(admQueue)
                                                       ELSE Append(Tail(admQueue), p)
    /\ admTurn' = [admTurn EXCEPT !.left = @ - 1]
    /\ admPolled' = admPolled \cup {p}
    /\ UNCHANGED <<admRole, admBacklog, admCred, admLate>>

Due(p) == admTurn.step = "service" /\ admTurn.left > 0 /\ admQueue[1] = p

PollExpired(p) ==
    /\ Due(p) /\ p \in admLate
    /\ Requeue(p, Ended("closed"))
    /\ UNCHANGED <<admIn, admSeen, admHandler>>

\* The peer does not take what it is sent, or the write fails.
PollBlocked(p) ==
    /\ Due(p) /\ p \notin admLate /\ cand[p].out # Nothing
    /\ \E failed \in BOOLEAN : Requeue(p, IF failed THEN Ended("closed") ELSE cand[p])
    /\ UNCHANGED <<admIn, admSeen, admHandler>>

\* Everything pending is written; there is no whole frame to read.
PollNoFrame(p) ==
    /\ Due(p) /\ p \notin admLate
    /\ admIn[p] = <<>> \/ cand[p].stage = "Closing"
    /\ admSeen' = IF cand[p].out # Nothing THEN [admSeen EXCEPT ![p] = cand[p].out] ELSE admSeen
    /\ Requeue(p, IF cand[p].stage = "Closing" THEN Ended("closed") ELSE [cand[p] EXCEPT !.out = Nothing])
    /\ UNCHANGED <<admIn, admHandler>>

\* Everything pending is written and one frame is read.  into_reader looks at the
\* clock again before the worker starts.
PollFrame(p) ==
    /\ Due(p) /\ p \notin admLate /\ admIn[p] # <<>> /\ cand[p].stage # "Closing"
    /\ admSeen' = IF cand[p].out # Nothing THEN [admSeen EXCEPT ![p] = cand[p].out] ELSE admSeen
    /\ admIn' = [admIn EXCEPT ![p] = Tail(@)]
    /\ LET c == AfterFrame(p, cand[p], Head(admIn[p]))
       IN  IF c.stage = "authenticated"
           THEN \E late \in BOOLEAN :
                /\ Requeue(p, Ended(IF late THEN "closed" ELSE "admitted"))
                /\ admHandler' = IF late THEN admHandler ELSE [admHandler EXCEPT ![p] = c.auth]
           ELSE Requeue(p, c) /\ UNCHANGED admHandler

AdmServiced ==
    /\ admTurn.step = "service" /\ admTurn.left = 0
    /\ admTurn' = [step |-> "accept", left |-> AdmAccepts]
    /\ UNCHANGED <<admRole, admBacklog, admQueue, cand, admIn, admSeen, admCred, admLate,
                   admPolled, admHandler>>

\* One connection is accepted; the oldest candidate makes room for it even when
\* the new one then fails.
AcceptOne ==
    /\ admTurn.step = "accept" /\ admTurn.left > 0 /\ admBacklog # <<>>
    /\ \E failed \in BOOLEAN :
       LET p == Head(admBacklog)
           kept == IF Len(admQueue) = AdmLimit THEN Tail(admQueue) ELSE admQueue
           gone == IF Len(admQueue) = AdmLimit THEN {Head(admQueue)} ELSE {}
       IN  /\ admQueue' = IF failed THEN kept ELSE Append(kept, p)
           /\ cand' = [q \in Peers |-> IF q \in gone THEN Ended("evicted")
                                       ELSE IF q # p THEN cand[q]
                                       ELSE IF failed THEN Ended("closed") ELSE NewCandidate(p, admRole)]
    /\ admBacklog' = Tail(admBacklog)
    /\ admTurn' = [admTurn EXCEPT !.left = @ - 1]
    /\ UNCHANGED <<admRole, admIn, admSeen, admCred, admLate, admPolled, admHandler>>

\* The turn's accepts are used up, nobody waits, or the process is out of sockets.
AdmAccepted ==
    /\ admTurn.step = "accept"
    /\ admTurn' = [step |-> "service", left |-> Len(admQueue)]
    /\ UNCHANGED <<admRole, admBacklog, admQueue, cand, admIn, admSeen, admCred, admLate,
                   admPolled, admHandler>>

-----------------------------------------------------------------------------
PeerConnects(p) ==
    /\ cand[p].stage = "away" /\ ~\E i \in DOMAIN admBacklog : admBacklog[i] = p
    /\ admBacklog' = Append(admBacklog, p)
    /\ UNCHANGED <<admRole, admQueue, cand, admIn, admSeen, admCred, admLate, admTurn, admPolled,
                   admHandler>>

\* The answers of a peer to what it has seen: authenticate_producer_stream and the
\* hello of a producer, or broker_authenticate and attach of a frontend, which
\* goes on only with a broker that knows its token.
Answers(p) ==
    LET seen == admSeen[p]
        cred == admCred[p]
        challenge == ListenerChallenge("broker", AdmPort, p)
    IN  IF admRole = "producer"
        THEN CASE seen.kind = "challenge" /\ ChallengeMatches(cred.boundary, AdmPort, seen.value) ->
                      {[kind |-> "proof", value |-> ProducerProof(cred, seen.value)]}
               [] seen.kind = "listener" /\ ListenerProofMatches(cred, challenge, seen.value) ->
                      {[kind |-> "commit", value |-> ProducerCommit(cred, challenge)]}
               [] seen.kind = "ok" ->
                      {[kind |-> "hello", ok |-> TRUE, token |-> FALSE, launch |-> l]
                          : l \in {"none", cred.launch, "other"}}
               [] OTHER -> {}
        ELSE CASE seen.kind = "none" -> {[kind |-> "init", client |-> p]}
               [] seen.kind = "server" /\ seen.value = SessionServerProof(cred, p, p) ->
                      {[kind |-> k, binding |-> b,
                        proof |-> SessionClientProof(cred, p, p, "bound")]
                          : k \in {"attach", "other"}, b \in {"bound", "altered"}}
               [] OTHER -> {}

PeerAnswers(p) ==
    /\ cand[p].stage \notin {"away", "closed", "admitted", "evicted"} /\ admIn[p] = <<>>
    /\ \E record \in Answers(p) \cup {[kind |-> "garbage"], [kind |-> "eof"]} :
          admIn' = [admIn EXCEPT ![p] = <<record>>]
    /\ UNCHANGED <<admRole, admBacklog, admQueue, cand, admSeen, admCred, admLate, admTurn,
                   admPolled, admHandler>>

\* The deadline of a candidate passes.
DeadlinePasses(p) ==
    /\ Queued(p) /\ p \notin admLate
    /\ admLate' = admLate \cup {p}
    /\ UNCHANGED <<admRole, admBacklog, admQueue, cand, admIn, admSeen, admCred, admTurn,
                   admPolled, admHandler>>

AdmServes ==
    \/ \E p \in Peers : PollExpired(p) \/ PollBlocked(p) \/ PollNoFrame(p) \/ PollFrame(p)
    \/ AdmServiced \/ AcceptOne \/ AdmAccepted

AdmNext ==
    \/ AdmServes
    \/ \E p \in Peers : PeerConnects(p) \/ PeerAnswers(p) \/ DeadlinePasses(p)

AdmSpec == AdmInit /\ [][AdmNext]_admVars

-----------------------------------------------------------------------------
\* A candidate is evicted only after it was polled: what it had sent by then was
\* read before accept_candidates could drop it.
EvictedWasPolled == \A p \in Peers : cand[p].stage = "evicted" => p \in admPolled

\* A worker starts only for a producer whose key was derived from this broker's
\* token for this port and the launch it is registered under, or for a frontend
\* that holds the token and sent the very attach it proved.
AdmittedIsEntitled ==
    \A p \in Peers : cand[p].stage = "admitted" =>
        IF admRole = "producer"
        THEN admCred[p] = FrontKey(AdmRoot, "broker", AdmPort, admHandler[p].launch)
        ELSE admCred[p] = AdmRoot /\ admHandler[p].binding = "bound"

\* Nobody is dropped from the queue unread, and nobody leaves it for a worker whose
\* proof is not its own: whatever the peers send, hold back or send late.
AdmissionSound == EvictedWasPolled /\ AdmittedIsEntitled
==============================================================================
