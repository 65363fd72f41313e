---------------------------- MODULE ProducerAuth ----------------------------
(***************************************************************************)
(* The mutual authentication of an emulator and the listener it connects   *)
(* to (src/live/producer_auth.rs) and of a frontend and the broker         *)
(* (the proofs of src/live/broker.rs).  A keyed digest is the record of    *)
(* what goes into it: two digests are equal iff their inputs are.          *)
(***************************************************************************)

\* The key that a launcher derives from a listener's token for one launch.
FrontKey(root, boundary, port, launch) ==
    [root |-> root, boundary |-> boundary, port |-> port, launch |-> launch]

\* What a listener sends first.  The nonce is fresh for every connection.
ListenerChallenge(boundary, port, nonce) ==
    [boundary |-> boundary, port |-> port, nonce |-> nonce]

\* The digest that ties one direction to a key and to everything said so far.
DirectionalProof(key, direction, transcript) ==
    [key |-> key, direction |-> direction, transcript |-> transcript]

Transcript(key, challenge, launch) ==
    [challenge |-> challenge, launch |-> launch, nonce |-> <<key, challenge>>]

\* The producer checks that the challenge is for the boundary of its key and for
\* the port it connected to, and answers with the launch it was started for.
ChallengeMatches(boundary, port, challenge) ==
    /\ challenge.boundary = boundary
    /\ challenge.port = port

ProducerProof(key, challenge) ==
    LET said == Transcript(key, challenge, key.launch)
    IN  [boundary |-> key.boundary, launch |-> key.launch, nonce |-> said.nonce,
         proof |-> DirectionalProof(key, "producer", said)]

VerifyProducerProof(root, challenge, boundary, port, record) ==
    LET key == FrontKey(root, boundary, port, record.launch)
    IN  /\ record.boundary = boundary
        /\ record.nonce = <<key, challenge>>
        /\ record.proof = DirectionalProof(key, "producer", Transcript(key, challenge, record.launch))

\* What the listener keeps of a verified proof.
AuthenticatedTranscript(root, challenge, boundary, port, launch) ==
    LET key == FrontKey(root, boundary, port, launch)
    IN  [key |-> key, transcript |-> Transcript(key, challenge, launch)]

ListenerProof(auth) == DirectionalProof(auth.key, "listener", auth.transcript)

ListenerProofMatches(key, challenge, record) ==
    record = DirectionalProof(key, "listener", Transcript(key, challenge, key.launch))

ProducerCommit(key, challenge) ==
    DirectionalProof(key, "commit", Transcript(key, challenge, key.launch))

VerifyProducerCommit(auth, record) ==
    record = DirectionalProof(auth.key, "commit", auth.transcript)

-----------------------------------------------------------------------------
\* The session proofs of a frontend: both sides hold the broker's token, and the
\* client's proof covers the attach request it is sent with.
SessionServerProof(token, client, server) ==
    [token |-> token, direction |-> "server", client |-> client, server |-> server]

SessionClientProof(token, client, server, binding) ==
    [token |-> token, direction |-> "client", client |-> client, server |-> server,
     binding |-> binding]
=============================================================================
