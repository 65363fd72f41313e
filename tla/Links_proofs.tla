----------------------------- MODULE Links_proofs -----------------------------
(***************************************************************************)
(* Proofs about the links of a frontend: the direct link (TcpLink), the    *)
(* election of the broker and the link that reconnects to it               *)
(* (BrokerLinks), and the ports that direct links listen on                *)
(* (PortSelection).  Each has an inductive invariant of its own.           *)
(***************************************************************************)
EXTENDS TcpLink, BrokerLinks, PortSelection, FiniteSetTheorems, WellFoundedInduction, TLAPS

-----------------------------------------------------------------------------
(* The direct link *)

Lines == [id : Nat, kind : {"answer", "working", "garbage"}]
Connections == [token : Tokens, owed : SUBSET Nat, inbox : Seq(Lines), open : BOOLEAN]
Workers == [held : Tokens, token : Tokens]
Supervisors ==
    [step : {"none", "failed"}] \cup [step : {"won"}, token : Tokens]
    \cup [step : {"running"}, workers : SUBSET Workers, error : BOOLEAN]
TcpCalls == [step : {"idle", "bind", "arm", "wait", "write"}] \cup [step : {"read"}, id : Nat]
            \cup [step : {"exchange"}, id : Nat, sent : SUBSET Nat, due : SUBSET Nat]

TcpTypeOK ==
    /\ session \in Tokens /\ staged \in Tokens \cup {NoToken} /\ shared \in Tokens
    /\ tokenFile \in Tokens \cup {NoToken} /\ bound \in BOOLEAN
    /\ conn \in Connections \cup {NoConn}
    /\ pre \in Supervisors
    /\ tcpCall \in TcpCalls
    /\ nextId \in Nat /\ timeouts \in Nat /\ silent \in Nat

\* A call that looks for an emulator has no connection, one that writes or reads has one.
CallHasConnection ==
    /\ tcpCall.step \in {"bind", "arm", "wait"} => ~Connected
    /\ tcpCall.step \in {"write", "read", "exchange"} => Connected

\* The ids of requests that an emulator can still answer, and of the lines it has sent,
\* are ids that were used, and so are those of the call in progress and its abort.
IdsWereUsed ==
    /\ Connected => /\ \A id \in conn.owed : id < nextId
                    /\ \A i \in DOMAIN conn.inbox : conn.inbox[i].id < nextId
    /\ tcpCall.step = "read" => tcpCall.id < nextId
    /\ tcpCall.step = "exchange" => tcpCall.id + 1 < nextId

TcpInv == TcpTypeOK /\ CallHasConnection /\ IdsWereUsed /\ ConnectionIsExpected /\ SilenceIsCounted

LEMMA ConnectionsDiffer == NoConn \notin Connections
BY DEF NoConn, Connections

LEMMA ConnectionIsConnection ==
    ASSUME NEW t \in Tokens
    PROVE  /\ Connection(t) \in Connections /\ Connection(t).token = t
           /\ Connection(t).owed = {} /\ Connection(t).inbox = <<>>
BY DEF Connection, Connections

LEMMA ExpectedIsToken == TcpTypeOK => Expected \in Tokens
BY DEF TcpTypeOK, Expected

LEMMA SupervisorTypes ==
    /\ NoPre \in Supervisors /\ FreshPre \in Supervisors /\ [step |-> "failed"] \in Supervisors
    /\ \A t \in Tokens : [step |-> "won", token |-> t] \in Supervisors
<1>1. NoPre \in Supervisors /\ [step |-> "failed"] \in Supervisors
  BY DEF NoPre, Supervisors
<1>2. FreshPre \in Supervisors
  BY DEF FreshPre, Supervisors, Workers
<1>3. \A t \in Tokens : [step |-> "won", token |-> t] \in Supervisors
  BY DEF Supervisors
<1> QED BY <1>1, <1>2, <1>3

\* A running supervisor may gain and lose workers and errors.
LEMMA RunningSupervisor ==
    ASSUME pre \in Supervisors, pre.step = "running"
    PROVE  /\ pre \in [step : {"running"}, workers : SUBSET Workers, error : BOOLEAN]
           /\ \A ws \in SUBSET Workers, e \in BOOLEAN :
                 [pre EXCEPT !.workers = ws, !.error = e] \in Supervisors
           /\ \A ws \in SUBSET Workers : [pre EXCEPT !.workers = ws] \in Supervisors
           /\ \A e \in BOOLEAN : [pre EXCEPT !.error = e] \in Supervisors
<1>1. pre \in [step : {"running"}, workers : SUBSET Workers, error : BOOLEAN]
  BY DEF Supervisors
<1>2. \A q \in [step : {"running"}, workers : SUBSET Workers, error : BOOLEAN] : q \in Supervisors
  BY DEF Supervisors
<1> QED BY <1>1, <1>2

LEMMA FinishedType == pre \in Supervisors => Finished \in Supervisors
BY SupervisorTypes, RunningSupervisor DEF Finished

LEMMA CallTypes ==
    /\ Idle \in TcpCalls /\ Idle.step = "idle"
    /\ \A st \in {"bind", "arm", "wait", "write"} : [step |-> st] \in TcpCalls /\ [step |-> st].step = st
    /\ \A n \in Nat : [step |-> "read", id |-> n] \in TcpCalls
    /\ \A n \in Nat : [step |-> "exchange", id |-> n, sent |-> {n}, due |-> {n}] \in TcpCalls
BY DEF Idle, TcpCalls

LEMMA TcpInitInv == TcpInit => TcpInv
<1> SUFFICES ASSUME TcpInit PROVE TcpInv
  OBVIOUS
<1>1. TcpTypeOK
  BY TcpAssumption, CallTypes, SupervisorTypes DEF TcpInit, TcpTypeOK
<1>2. ~Connected /\ tcpCall.step = "idle"
  BY CallTypes DEF TcpInit, Connected
<1> QED BY <1>1, <1>2 DEF TcpInv, CallHasConnection, IdsWereUsed, ConnectionIsExpected, SilenceIsCounted

LEMMA SupervisorAcceptsInv ==
    ASSUME TcpInv, NEW t \in Tokens, SupervisorAccepts(t)
    PROVE  TcpInv'
<1>1. [held |-> t, token |-> shared] \in Workers
  BY DEF TcpInv, TcpTypeOK, Workers
<1>2. pre' \in Supervisors
  BY <1>1, RunningSupervisor DEF TcpInv, TcpTypeOK, SupervisorAccepts
<1> QED BY <1>2 DEF TcpInv, TcpTypeOK, CallHasConnection, IdsWereUsed, ConnectionIsExpected, SilenceIsCounted, Connected, Expected, SupervisorAccepts

LEMMA WorkerEndsInv ==
    ASSUME TcpInv, NEW w \in Workers, WorkerEnds(w)
    PROVE  TcpInv'
<1>1. pre' \in Supervisors
  BY RunningSupervisor, SupervisorTypes DEF TcpInv, TcpTypeOK, WorkerEnds, Workers
<1> QED BY <1>1 DEF TcpInv, TcpTypeOK, CallHasConnection, IdsWereUsed, ConnectionIsExpected, SilenceIsCounted, Connected, Expected, WorkerEnds

LEMMA HandshakeFailsInv ==
    ASSUME TcpInv, HandshakeFails
    PROVE  TcpInv'
<1>1. ASSUME NEW w \in pre.workers, pre' = [pre EXCEPT !.workers = @ \ {w}, !.error = TRUE]
      PROVE  pre' \in Supervisors
  BY <1>1, RunningSupervisor DEF TcpInv, TcpTypeOK, HandshakeFails
<1>2. pre' \in Supervisors
  BY <1>1 DEF HandshakeFails
<1> QED BY <1>2 DEF TcpInv, TcpTypeOK, CallHasConnection, IdsWereUsed, ConnectionIsExpected, SilenceIsCounted, Connected, Expected, HandshakeFails

LEMMA AcceptFailsInv ==
    ASSUME TcpInv, AcceptFails
    PROVE  TcpInv'
<1>1. pre' \in Supervisors
  BY SupervisorTypes DEF AcceptFails
<1> QED BY <1>1 DEF TcpInv, TcpTypeOK, CallHasConnection, IdsWereUsed, ConnectionIsExpected, SilenceIsCounted, Connected, Expected, AcceptFails

\* An adopted connection has proved the token that is expected, and owes nothing yet.
LEMMA AdoptInv ==
    ASSUME TcpInv, Adopts, Adopt, tcpCall' = [step |-> "write"],
           UNCHANGED <<session, staged, shared, tokenFile, bound, nextId>>
    PROVE  TcpInv'
<1>1. pre.token \in Tokens /\ pre.token = Expected /\ Expected' = Expected
  BY ExpectedIsToken DEF TcpInv, Adopts, Expected
<1>2. /\ conn' \in Connections /\ conn'.token = Expected'
      /\ conn'.owed = {} /\ conn'.inbox = <<>>
  BY <1>1, ConnectionIsConnection DEF Adopt
<1>3. TcpTypeOK'
  BY <1>2, CallTypes, SupervisorTypes DEF TcpInv, TcpTypeOK, Adopt
<1>4. Connected' /\ tcpCall'.step = "write"
  BY <1>2, ConnectionsDiffer, CallTypes DEF Connected
<1> QED
  BY <1>2, <1>3, <1>4, TcpAssumption
     DEF TcpInv, CallHasConnection, IdsWereUsed, ConnectionIsExpected, SilenceIsCounted, Adopt

LEMMA CallConnectedInv ==
    ASSUME TcpInv, CallConnected
    PROVE  TcpInv'
<1> USE DEF TcpInv
<1>1. CASE pre # NoPre /\ Adopts
  BY <1>1, AdoptInv DEF CallConnected
<1>2. CASE ~(pre # NoPre /\ Adopts)
  <2>1. pre' \in Supervisors
    BY <1>2, SupervisorTypes, FinishedType DEF CallConnected, TcpTypeOK
  <2> QED BY <1>2, <2>1, CallTypes DEF CallConnected, TcpTypeOK, CallHasConnection, IdsWereUsed, ConnectionIsExpected, SilenceIsCounted, Connected, Expected
<1> QED BY <1>1, <1>2

LEMMA CallUnconnectedInv ==
    ASSUME TcpInv, CallUnconnected
    PROVE  TcpInv'
<1>1. CASE Adopts /\ Adopt /\ tcpCall' = [step |-> "write"]
  BY <1>1, AdoptInv DEF CallUnconnected
<1>2. ASSUME pre' \in Supervisors, tcpCall' \in {Idle, [step |-> "arm"], [step |-> "bind"]},
             UNCHANGED <<conn, timeouts, silent>>
      PROVE  TcpInv'
  BY <1>2, CallTypes DEF CallUnconnected, TcpInv, TcpTypeOK, CallHasConnection, IdsWereUsed, ConnectionIsExpected, SilenceIsCounted, Connected, Expected
<1> QED BY <1>1, <1>2, SupervisorTypes, FinishedType DEF CallUnconnected, TcpInv, TcpTypeOK

LEMMA CallBindsInv ==
    ASSUME TcpInv, CallBinds
    PROVE  TcpInv'
<1>1. ~Connected /\ ~Connected'
  BY DEF CallBinds, TcpInv, CallHasConnection, Connected
<1>2. TcpTypeOK'
  BY CallTypes DEF CallBinds, TcpInv, TcpTypeOK
<1>3. tcpCall'.step \in {"idle", "arm"}
  BY CallTypes DEF CallBinds
<1> QED
  BY <1>1, <1>2, <1>3
     DEF TcpInv, CallHasConnection, IdsWereUsed, ConnectionIsExpected, SilenceIsCounted

LEMMA CallArmsInv ==
    ASSUME TcpInv, CallArms
    PROVE  TcpInv'
BY SupervisorTypes
   DEF TcpInv, TcpTypeOK, CallHasConnection, IdsWereUsed, ConnectionIsExpected, SilenceIsCounted, Connected, Expected, CallArms, TcpCalls

LEMMA CallWaitsInv ==
    ASSUME TcpInv, CallWaits
    PROVE  TcpInv'
<1>1. CASE Adopts
  BY <1>1, AdoptInv DEF CallWaits
<1>2. CASE ~Adopts
  <2>1. pre' \in Supervisors
    BY <1>2, FinishedType DEF CallWaits, TcpInv, TcpTypeOK
  <2> QED BY <1>2, <2>1, CallTypes DEF CallWaits, TcpInv, TcpTypeOK, CallHasConnection, IdsWereUsed, ConnectionIsExpected, SilenceIsCounted, Connected, Expected
<1> QED BY <1>1, <1>2

\* A request that is sent under an id that was taken for it.
LEMMA RequestSent ==
    ASSUME TcpInv, NEW n \in Nat, NEW next \in Nat, n < next, nextId <= next, Connected,
           conn' = [conn EXCEPT !.owed = @ \cup {n}], nextId' = next,
           tcpCall' \in TcpCalls, tcpCall'.step \in {"read", "exchange"},
           tcpCall'.step = "read" => tcpCall'.id < next,
           tcpCall'.step = "exchange" => tcpCall'.id + 1 < next,
           UNCHANGED <<session, staged, shared, tokenFile, bound, pre, timeouts, silent>>
    PROVE  TcpInv'
<1>1. conn \in Connections
  BY DEF TcpInv, TcpTypeOK, Connected
<1>2. /\ conn' \in Connections /\ conn'.token = conn.token
      /\ conn'.owed = conn.owed \cup {n} /\ conn'.inbox = conn.inbox
  BY <1>1 DEF Connections
<1>3. Connected'
  BY <1>2, ConnectionsDiffer DEF Connected
<1>4. TcpTypeOK'
  BY <1>2 DEF TcpInv, TcpTypeOK
<1>5. IdsWereUsed'
  <2>1. \A id \in conn'.owed : id < next
    BY <1>1, <1>2 DEF TcpInv, IdsWereUsed, TcpTypeOK, Connections
  <2>2. ASSUME NEW i \in DOMAIN conn.inbox
        PROVE  conn.inbox[i].id < next
    <3>1. conn.inbox \in Seq(Lines)
      BY <1>1 DEF Connections
    <3>2. conn.inbox[i] \in Lines
      BY <3>1
    <3>3. conn.inbox[i].id < nextId /\ conn.inbox[i].id \in Nat
      BY <3>2 DEF TcpInv, IdsWereUsed, Lines
    <3> QED BY <3>3 DEF TcpInv, TcpTypeOK
  <2> QED BY <1>2, <2>1, <2>2 DEF IdsWereUsed
<1> QED BY <1>2, <1>3, <1>4, <1>5
           DEF TcpInv, CallHasConnection, ConnectionIsExpected, SilenceIsCounted, Expected

\* The connection is given up and the call ends.
LEMMA CallGone ==
    ASSUME TcpInv, conn' = NoConn, tcpCall' = Idle, nextId' \in Nat, timeouts' \in Nat, silent' \in Nat,
           UNCHANGED <<session, staged, shared, tokenFile, bound, pre>>
    PROVE  TcpInv'
BY CallTypes DEF TcpInv, TcpTypeOK, CallHasConnection, IdsWereUsed, ConnectionIsExpected, SilenceIsCounted,
                 Connected, Expected

\* A line is taken off the inbox.
LEMMA LineRead ==
    ASSUME TcpInv, Connected, conn.inbox # <<>>, conn' = [conn EXCEPT !.inbox = Tail(@)],
           tcpCall' \in TcpCalls, tcpCall'.step \in {"idle", "read", "exchange"},
           tcpCall'.step # "idle" => tcpCall'.step = tcpCall.step /\ tcpCall'.id = tcpCall.id,
           \/ UNCHANGED <<timeouts, silent>>
           \/ timeouts' = 0 /\ silent' = 0,
           UNCHANGED <<session, staged, shared, tokenFile, bound, pre, nextId>>
    PROVE  TcpInv'
<1>1. conn \in Connections
  BY DEF TcpInv, TcpTypeOK, Connected
<1>2. /\ conn' \in Connections /\ conn'.token = conn.token
      /\ conn'.owed = conn.owed /\ conn'.inbox = Tail(conn.inbox)
  <2>1. Tail(conn.inbox) \in Seq(Lines)
    BY <1>1 DEF Connections
  <2> QED BY <1>1, <2>1 DEF Connections
<1>3. \A i \in DOMAIN conn'.inbox : conn'.inbox[i].id < nextId
  <2>1. conn.inbox \in Seq(Lines)
    BY <1>1 DEF Connections
  <2> QED BY <1>2, <2>1 DEF TcpInv, IdsWereUsed
<1>4. Connected'
  BY <1>2, ConnectionsDiffer DEF Connected
<1>5. TcpTypeOK'
  BY <1>2 DEF TcpInv, TcpTypeOK
<1>6. IdsWereUsed'
  BY <1>2, <1>3 DEF TcpInv, IdsWereUsed
<1> QED BY <1>2, <1>4, <1>5, <1>6, TcpAssumption
           DEF TcpInv, CallHasConnection, ConnectionIsExpected, SilenceIsCounted, Expected

LEMMA CallWritesInv ==
    ASSUME TcpInv, CallWrites
    PROVE  TcpInv'
<1>1. Connected /\ nextId \in Nat
  BY DEF CallWrites, TcpInv, CallHasConnection, TcpTypeOK
<1>2. CASE conn' = NoConn /\ tcpCall' = Idle
  BY <1>1, <1>2, CallGone DEF CallWrites, TcpInv, TcpTypeOK
<1>3. CASE conn' = [conn EXCEPT !.owed = @ \cup {nextId}] /\ tcpCall' = [step |-> "read", id |-> nextId]
  <2>1. tcpCall' \in TcpCalls /\ tcpCall'.step = "read" /\ tcpCall'.id = nextId
    BY <1>1, <1>3, CallTypes
  <2> QED BY <1>1, <1>3, <2>1, RequestSent DEF CallWrites
<1> QED BY <1>2, <1>3 DEF CallWrites

LEMMA CallAbortsInv ==
    ASSUME TcpInv, CallAborts
    PROVE  TcpInv'
<1>1. Connected /\ nextId \in Nat /\ tcpCall \in TcpCalls /\ tcpCall.id \in Nat
  BY DEF CallAborts, TcpInv, CallHasConnection, TcpTypeOK, TcpCalls
<1>2. CASE conn' = NoConn /\ tcpCall' = Idle /\ silent' = 0
  BY <1>1, <1>2, CallGone DEF CallAborts, TcpInv, TcpTypeOK
<1>3. CASE conn' = [conn EXCEPT !.owed = @ \cup {nextId}] /\ UNCHANGED <<tcpCall, silent>>
  BY <1>1, <1>3, RequestSent DEF CallAborts
<1> QED BY <1>2, <1>3 DEF CallAborts

LEMMA ExchangeWritesInv ==
    ASSUME TcpInv, ExchangeWrites
    PROVE  TcpInv'
<1>1. Connected /\ nextId \in Nat
  BY DEF ExchangeWrites, TcpInv, CallHasConnection, TcpTypeOK
<1>2. tcpCall' \in TcpCalls /\ tcpCall'.step = "exchange" /\ tcpCall'.id = nextId
  BY <1>1, CallTypes DEF ExchangeWrites
<1>3. nextId + 2 \in Nat /\ nextId < nextId + 2 /\ nextId + 1 < nextId + 2 /\ nextId <= nextId + 2
  BY <1>1
<1> QED BY <1>1, <1>2, <1>3, RequestSent DEF ExchangeWrites

\* An exchange in progress, and what it may become.
LEMMA ExchangeTypes ==
    ASSUME tcpCall \in TcpCalls, tcpCall.step = "exchange"
    PROVE  tcpCall \in [step : {"exchange"}, id : Nat, sent : SUBSET Nat, due : SUBSET Nat]
BY DEF TcpCalls

LEMMA ExchangeGrows ==
    ASSUME tcpCall \in TcpCalls, tcpCall.step = "exchange", NEW n \in Nat, NEW c,
           c = [tcpCall EXCEPT !.sent = tcpCall.sent \cup {n}, !.due = tcpCall.due \cup {n}]
    PROVE  c \in TcpCalls /\ c.step = "exchange" /\ c.id = tcpCall.id
BY ExchangeTypes DEF TcpCalls

LEMMA ExchangeShrinks ==
    ASSUME tcpCall \in TcpCalls, tcpCall.step = "exchange", NEW n, NEW c,
           c = [tcpCall EXCEPT !.due = tcpCall.due \ {n}]
    PROVE  c \in TcpCalls /\ c.step = "exchange" /\ c.id = tcpCall.id
BY ExchangeTypes DEF TcpCalls

LEMMA ExchangeStopsInv ==
    ASSUME TcpInv, ExchangeStops
    PROVE  TcpInv'
<1>1. Connected /\ nextId \in Nat /\ tcpCall \in TcpCalls /\ tcpCall.step = "exchange"
  BY DEF ExchangeStops, TcpInv, CallHasConnection, TcpTypeOK
<1>2. tcpCall.id \in Nat
  BY <1>1, ExchangeTypes
<1>3. tcpCall.id + 1 \in Nat /\ tcpCall.id + 1 < nextId
  BY <1>1, <1>2 DEF TcpInv, IdsWereUsed
<1>4. tcpCall' = [tcpCall EXCEPT !.sent = tcpCall.sent \cup {tcpCall.id + 1}, !.due = tcpCall.due \cup {tcpCall.id + 1}]
  BY DEF ExchangeStops
<1>5. tcpCall' \in TcpCalls /\ tcpCall'.step = "exchange" /\ tcpCall'.id = tcpCall.id
  BY <1>1, <1>3, <1>4, ExchangeGrows
<1>6. /\ conn' = [conn EXCEPT !.owed = @ \cup {tcpCall.id + 1}]
      /\ UNCHANGED <<session, staged, shared, tokenFile, bound, pre, nextId, timeouts, silent>>
  BY DEF ExchangeStops
<1> QED BY <1>1, <1>2, <1>3, <1>5, <1>6, RequestSent

LEMMA ExchangeReadsInv ==
    ASSUME TcpInv, ExchangeReads
    PROVE  TcpInv'
<1>1. /\ Connected /\ nextId \in Nat /\ tcpCall \in TcpCalls /\ tcpCall.step = "exchange"
      /\ conn.inbox # <<>> /\ timeouts \in Nat
      /\ UNCHANGED <<session, staged, shared, tokenFile, bound, pre, nextId, timeouts>>
  BY DEF ExchangeReads, TcpInv, CallHasConnection, TcpTypeOK
<1>2. CASE conn' = NoConn /\ tcpCall' = Idle /\ silent' = 0
  BY <1>1, <1>2, CallGone
<1>3. CASE /\ conn' = [conn EXCEPT !.inbox = Tail(@)] /\ UNCHANGED silent
           /\ \/ tcpCall' \in {Idle, tcpCall}
              \/ \E n : tcpCall' = [tcpCall EXCEPT !.due = tcpCall.due \ {n}]
  <2>1. CASE tcpCall' \in {Idle, tcpCall}
    BY <1>1, <1>3, <2>1, CallTypes, LineRead
  <2>2. CASE \E n : tcpCall' = [tcpCall EXCEPT !.due = tcpCall.due \ {n}]
    <3>1. tcpCall' \in TcpCalls /\ tcpCall'.step = "exchange" /\ tcpCall'.id = tcpCall.id
      BY <1>1, <2>2, ExchangeShrinks
    <3> QED BY <1>1, <1>3, <3>1, LineRead
  <2> QED BY <1>3, <2>1, <2>2
<1> QED BY <1>2, <1>3 DEF ExchangeReads

LEMMA ExchangeFailsInv ==
    ASSUME TcpInv, ExchangeFails
    PROVE  TcpInv'
BY CallGone DEF ExchangeFails, TcpInv, TcpTypeOK

LEMMA CallReadsInv ==
    ASSUME TcpInv, CallReads
    PROVE  TcpInv'
<1>1. /\ Connected /\ nextId \in Nat /\ tcpCall \in TcpCalls /\ tcpCall.step = "read"
      /\ conn.inbox # <<>> /\ timeouts' = 0 /\ silent' = 0
      /\ UNCHANGED <<session, staged, shared, tokenFile, bound, pre, nextId>>
  BY DEF CallReads, TcpInv, CallHasConnection, TcpTypeOK
<1>2. CASE conn' = NoConn /\ tcpCall' = Idle
  BY <1>1, <1>2, CallGone
<1>3. CASE conn' = [conn EXCEPT !.inbox = Tail(@)] /\ tcpCall' \in {tcpCall, Idle}
  BY <1>1, <1>3, CallTypes, LineRead
<1> QED BY <1>2, <1>3 DEF CallReads

LEMMA CallTimesOutInv ==
    ASSUME TcpInv, CallTimesOut
    PROVE  TcpInv'
BY TcpAssumption, ConnectionsDiffer
   DEF TcpInv, TcpTypeOK, CallHasConnection, IdsWereUsed, ConnectionIsExpected, SilenceIsCounted, Connected, Expected, CallTimesOut, TcpCalls, Idle

LEMMA CallExpiresInv ==
    ASSUME TcpInv, CallExpires
    PROVE  TcpInv'
BY TcpAssumption, ConnectionsDiffer
   DEF TcpInv, TcpTypeOK, CallHasConnection, IdsWereUsed, ConnectionIsExpected, SilenceIsCounted, Connected, Expected, CallExpires, TcpCalls, Idle

LEMMA CallEofInv ==
    ASSUME TcpInv, CallEof
    PROVE  TcpInv'
BY TcpAssumption, ConnectionsDiffer
   DEF TcpInv, TcpTypeOK, CallHasConnection, IdsWereUsed, ConnectionIsExpected, SilenceIsCounted, Connected, Expected, CallEof, TcpCalls, Idle

LEMMA StageTokenInv ==
    ASSUME TcpInv, NEW t \in Tokens, StageToken(t)
    PROVE  TcpInv'
BY SupervisorTypes
   DEF TcpInv, TcpTypeOK, CallHasConnection, IdsWereUsed, ConnectionIsExpected, SilenceIsCounted, Connected, Expected, StageToken, Rearm, Quiet, TcpCalls, Idle

LEMMA CommitTokenInv ==
    ASSUME TcpInv, NEW t \in Tokens, CommitToken(t)
    PROVE  TcpInv'
BY SupervisorTypes
   DEF TcpInv, TcpTypeOK, CallHasConnection, IdsWereUsed, ConnectionIsExpected, SilenceIsCounted, Connected, Expected, CommitToken, Rearm, Quiet, TcpCalls, Idle

LEMMA AbortTokenInv ==
    ASSUME TcpInv, NEW t \in Tokens, AbortToken(t)
    PROVE  TcpInv'
BY SupervisorTypes
   DEF TcpInv, TcpTypeOK, CallHasConnection, IdsWereUsed, ConnectionIsExpected, SilenceIsCounted, Connected, Expected, AbortToken, Rearm, Quiet, TcpCalls, Idle

LEMMA ReplaceTokenInv ==
    ASSUME TcpInv, NEW t \in Tokens, ReplaceToken(t)
    PROVE  TcpInv'
BY SupervisorTypes
   DEF TcpInv, TcpTypeOK, CallHasConnection, IdsWereUsed, ConnectionIsExpected, SilenceIsCounted, Connected, Expected, ReplaceToken, Rearm, Quiet, TcpCalls, Idle

LEMMA ReattachInv ==
    ASSUME TcpInv, NEW t \in Tokens, NEW moved \in BOOLEAN, Reattach(t, moved)
    PROVE  TcpInv'
BY SupervisorTypes, ConnectionsDiffer, TcpAssumption
   DEF TcpInv, TcpTypeOK, CallHasConnection, IdsWereUsed, ConnectionIsExpected, SilenceIsCounted, Connected, Expected, Reattach, Quiet, TcpCalls, Idle

LEMMA EmulatorSendsInv ==
    ASSUME TcpInv, EmulatorSends
    PROVE  TcpInv'
<1>1. conn \in Connections /\ Connected
  BY DEF EmulatorSends, TcpInv, TcpTypeOK, Connected
<1>2. PICK id \in conn.owed, kind \in {"answer", "working", "garbage"} :
        conn' = [conn EXCEPT !.inbox = Append(@, [id |-> id, kind |-> kind]),
                             !.owed = IF kind = "answer" THEN @ \ {id} ELSE @]
  BY DEF EmulatorSends
<1>3. [id |-> id, kind |-> kind] \in Lines /\ id < nextId
  BY <1>1 DEF Connections, Lines, TcpInv, IdsWereUsed
<1>4. /\ conn' \in Connections /\ conn'.token = conn.token
      /\ conn'.owed \subseteq conn.owed
      /\ conn'.inbox = Append(conn.inbox, [id |-> id, kind |-> kind])
  <2> DEFINE line == [id |-> id, kind |-> kind]
  <2>1. Append(conn.inbox, line) \in Seq(Lines)
    BY <1>1, <1>3 DEF Connections
  <2>2. (IF kind = "answer" THEN conn.owed \ {id} ELSE conn.owed) \in SUBSET conn.owed
    OBVIOUS
  <2>3. conn' = [conn EXCEPT !.inbox = Append(conn.inbox, line),
                             !.owed = IF kind = "answer" THEN conn.owed \ {id} ELSE conn.owed]
    BY <1>1, <1>2 DEF Connections
  <2> HIDE DEF line
  <2>4. conn' \in Connections /\ conn'.token = conn.token /\ conn'.inbox = Append(conn.inbox, line)
    BY <1>1, <2>1, <2>2, <2>3 DEF Connections
  <2>5. conn'.owed \subseteq conn.owed
    BY <1>1, <2>2, <2>3 DEF Connections
  <2> QED BY <2>4, <2>5 DEF line
<1>5. \A i \in DOMAIN conn'.inbox : conn'.inbox[i].id < nextId
  <2>1. conn.inbox \in Seq(Lines)
    BY <1>1 DEF Connections
  <2> QED BY <1>1, <1>3, <1>4, <2>1 DEF TcpInv, IdsWereUsed
<1>6. Connected'
  BY <1>4, ConnectionsDiffer DEF Connected
<1>7. TcpTypeOK' /\ IdsWereUsed'
  BY <1>1, <1>4, <1>5 DEF EmulatorSends, TcpInv, TcpTypeOK, IdsWereUsed
<1> QED BY <1>1, <1>4, <1>6, <1>7
           DEF EmulatorSends, TcpInv, CallHasConnection, ConnectionIsExpected, SilenceIsCounted, Expected

LEMMA EmulatorLeavesInv ==
    ASSUME TcpInv, EmulatorLeaves
    PROVE  TcpInv'
BY ConnectionsDiffer DEF TcpInv, TcpTypeOK, CallHasConnection, IdsWereUsed, ConnectionIsExpected, SilenceIsCounted, Connected, Expected, EmulatorLeaves, Connections

LEMMA TcpNextInv == TcpInv /\ [TcpNext]_tcpVars => TcpInv'
<1> SUFFICES ASSUME TcpInv, [TcpNext]_tcpVars PROVE TcpInv'
  OBVIOUS
<1>1. CASE \E t \in Tokens : SupervisorAccepts(t)
  BY <1>1, SupervisorAcceptsInv
<1>2. CASE \E w \in Workers : WorkerEnds(w)
  BY <1>2, WorkerEndsInv
<1>3. CASE \E t \in Tokens : StageToken(t) \/ CommitToken(t) \/ AbortToken(t) \/ ReplaceToken(t)
  BY <1>3, StageTokenInv, CommitTokenInv, AbortTokenInv, ReplaceTokenInv
<1>4. CASE \E t \in Tokens, moved \in BOOLEAN : Reattach(t, moved)
  BY <1>4, ReattachInv
<1>5. CASE UNCHANGED tcpVars
  BY <1>5 DEF tcpVars, TcpInv, TcpTypeOK, CallHasConnection, IdsWereUsed, ConnectionIsExpected, SilenceIsCounted,
              Connected, Expected
<1> QED
  BY <1>1, <1>2, <1>3, <1>4, <1>5, HandshakeFailsInv, AcceptFailsInv, CallConnectedInv, CallUnconnectedInv, CallBindsInv,
     CallArmsInv, CallWaitsInv, CallWritesInv, CallReadsInv, CallTimesOutInv, CallExpiresInv, CallEofInv,
     CallAbortsInv, ExchangeWritesInv, ExchangeStopsInv, ExchangeReadsInv, ExchangeFailsInv,
     EmulatorSendsInv, EmulatorLeavesInv
  DEF TcpNext, Workers

\* A late answer, whether owed or unread, has an id that was used before.
LEMMA AnswersAreOwn == TcpInv => NoAnswerBeforeRequest
<1> SUFFICES ASSUME TcpInv, tcpCall.step = "write"
             PROVE  /\ conn.owed \cap {nextId, nextId + 1} = {}
                    /\ \A i \in DOMAIN conn.inbox : conn.inbox[i].id \notin {nextId, nextId + 1}
  BY DEF NoAnswerBeforeRequest
<1>1. Connected /\ conn \in Connections /\ nextId \in Nat
  BY DEF TcpInv, CallHasConnection, TcpTypeOK, Connected
<1>2. conn.owed \cap {nextId, nextId + 1} = {}
  BY <1>1 DEF TcpInv, IdsWereUsed, Connections
<1>3. ASSUME NEW i \in DOMAIN conn.inbox PROVE conn.inbox[i].id \notin {nextId, nextId + 1}
  <2>1. conn.inbox \in Seq(Lines)
    BY <1>1 DEF Connections
  <2>2. conn.inbox[i] \in Lines
    BY <2>1
  <2>3. conn.inbox[i].id < nextId /\ conn.inbox[i].id \in Nat
    BY <1>1, <2>2 DEF TcpInv, IdsWereUsed, Lines
  <2> QED BY <1>1, <2>3
<1> QED BY <1>2, <1>3

\* A direct link only ever talks to an emulator that proved the token it expects
\* now, the silence it counts is that of plain calls of this connection, and what it
\* takes for an answer was sent after the request (tcp.rs: finish_preaccept,
\* raw_call_bounded, raw_call_inner), for any tokens, any number of workers and
\* calls, aborts and temporal exchanges among them.
THEOREM TcpLinkIsSound == TcpSpec => []LinkSound
<1>1. TcpInv => LinkSound
  BY AnswersAreOwn DEF TcpInv, LinkSound
<1> QED BY <1>1, TcpInitInv, TcpNextInv, PTL DEF TcpSpec

-----------------------------------------------------------------------------
(* The broker and the link that reconnects to it *)

Steps == {"start", "bound", "waiting", "elected", "published", "serving", "deferred", "failed", "dead"}

\* What a process has by the step of main() it is in.  As a port has one owner, at
\* most one process is past the election.
Held(b) ==
    /\ proc[b] \in {"bound", "elected", "published", "serving"} => emuPort = b
    /\ proc[b] \in {"elected", "published", "serving"} => sessPort = b
    /\ proc[b] \in {"published", "serving"} => ctlFile = b
    /\ proc[b] = "serving" => prodFile = ProducerToken(b)

BlTypeOK ==
    /\ ctlFile \in BrokerProcs \cup {Nobody}
    /\ registry \in [id : Nat, launch : EmuLaunches \cup {Nobody}, session : {Nobody, "link"}]
    /\ nextReg \in Nat /\ linkSilent \in Nat
    /\ lazy \in [named : BOOLEAN, reg : Nat, launch : EmuLaunches \cup {Nobody}, token : BrokerProcs \cup {Nobody},
                 inner : {NoLink} \cup [server : BrokerProcs \cup {Nobody}, reg : Nat, launch : EmuLaunches \cup {Nobody}]]

BlInv ==
    /\ proc \in [BrokerProcs -> Steps]
    /\ \A b \in BrokerProcs : Held(b)

\* The pins of a link are those of the connection it has.
PinsAreOfInner == lazy.inner # NoLink => lazy.inner.launch = lazy.launch

LEMMA BlInitInv == BlInit => BlInv /\ BlTypeOK /\ PinsAreOfInner
<1> SUFFICES ASSUME BlInit PROVE BlInv /\ BlTypeOK /\ PinsAreOfInner
  OBVIOUS
<1>1. BlInv /\ PinsAreOfInner
  BY DEF BlInit, BlInv, Held, Steps, PinsAreOfInner
<1>2. BlTypeOK
  BY DEF BlInit, BlTypeOK, NoReg
<1> QED BY <1>1, <1>2

\* A step of process b that leaves the ports and files of the others alone.
LEMMA OthersHold ==
    ASSUME BlInv, NEW b \in BrokerProcs, NEW where \in Steps, Go(b, where),
           emuPort' \in {emuPort, b, Nobody}, emuPort' # emuPort => emuPort \in {b, Nobody},
           sessPort' \in {sessPort, b, Nobody}, sessPort' # sessPort => sessPort \in {b, Nobody},
           ctlFile' # ctlFile => sessPort = b, prodFile' # prodFile => sessPort = b,
           Held(b)'
    PROVE  BlInv'
<1>1. proc' \in [BrokerProcs -> Steps]
  BY DEF BlInv, Go
<1>2. ASSUME NEW c \in BrokerProcs, c # b PROVE Held(c)'
  <2>1. proc'[c] = proc[c]
    BY <1>2 DEF BlInv, Go
  <2>2. c # Nobody
    BY BrokerLinksAssumption
  <2> QED BY <1>2, <2>1, <2>2 DEF BlInv, Held
<1> QED BY <1>1, <1>2 DEF BlInv

LEMMA ElectionStep ==
    ASSUME BlInv, NEW b \in BrokerProcs,
           BindEmu(b) \/ BindSess(b) \/ WaitForSession(b) \/ PublishController(b) \/ PublishProducer(b) \/ BrokerDies(b)
    PROVE  BlInv'
<1> USE DEF BlInv
<1>1. CASE BindEmu(b)
  <2>1. PICK where \in {"bound", "waiting"} : Go(b, where) /\ (where = "bound" => emuPort' = b)
    BY <1>1 DEF BindEmu
  <2>2. Held(b)'
    BY <2>1 DEF Held, Go
  <2> QED BY <1>1, <2>1, <2>2, OthersHold DEF BindEmu, Steps
<1>2. CASE BindSess(b)
  <2>1. emuPort = b
    BY <1>2 DEF BindSess, Held
  <2>2. PICK where \in {"elected", "waiting"} :
          Go(b, where) /\ (where = "elected" => emuPort' = b /\ sessPort' = b)
    BY <1>2, <2>1 DEF BindSess
  <2>3. Held(b)'
    BY <2>2 DEF Held, Go
  <2> QED BY <1>2, <2>1, <2>2, <2>3, OthersHold DEF BindSess, Steps
<1>3. CASE WaitForSession(b)
  <2>1. PICK where \in {"deferred", "failed"} : Go(b, where)
    BY <1>3 DEF WaitForSession
  <2>2. Held(b)'
    BY <2>1 DEF Held, Go
  <2> QED BY <1>3, <2>1, <2>2, OthersHold DEF WaitForSession, Steps
<1>4. CASE PublishController(b)
  <2>1. emuPort = b /\ sessPort = b
    BY <1>4 DEF PublishController, Held
  <2>2. Held(b)'
    BY <1>4, <2>1 DEF PublishController, Held, Go
  <2> QED BY <1>4, <2>1, <2>2, OthersHold DEF PublishController, Steps
<1>5. CASE PublishProducer(b)
  <2>1. emuPort = b /\ sessPort = b /\ ctlFile = b
    BY <1>5 DEF PublishProducer, Held
  <2>2. Held(b)'
    BY <1>5, <2>1 DEF PublishProducer, Held, Go
  <2> QED BY <1>5, <2>1, <2>2, OthersHold DEF PublishProducer, Steps
<1>6. CASE BrokerDies(b)
  <2>1. Held(b)'
    BY <1>6 DEF BrokerDies, Held, Go
  <2> QED BY <1>6, <2>1, OthersHold DEF BrokerDies, Steps
<1> QED BY <1>1, <1>2, <1>3, <1>4, <1>5, <1>6

LEMMA BlNextInv == BlInv /\ [BlNext]_blVars => BlInv'
<1> SUFFICES ASSUME BlInv, [BlNext]_blVars PROVE BlInv'
  OBVIOUS
<1>1. CASE \E b \in BrokerProcs :
              \/ BindEmu(b) \/ BindSess(b) \/ WaitForSession(b)
              \/ PublishController(b) \/ PublishProducer(b) \/ BrokerDies(b)
  BY <1>1, ElectionStep
<1>2. CASE UNCHANGED <<proc, emuPort, sessPort, ctlFile, prodFile>>
  BY <1>2 DEF BlInv, Held
<1> QED
  BY <1>1, <1>2 DEF BlNext, blVars, Registers, Unregisters, LazyConnects, LazyCallAnswered, LazyCallTimesOut, LazyGivesUp

\* Only one process serves, it has both ports, and the tokens that controllers and
\* producers read are its own, through any number of starts and deaths; and a
\* process that stands back does so for such a one
\* (elect_broker and mint_and_publish_session_token of bin/emucap-broker.rs).
THEOREM BrokerServesPublished == BlSpec => ServingIsPublished
<1>1. ASSUME BlInv, [BlNext]_blVars
      PROVE  [\A b \in BrokerProcs :
                /\ Serving(b)' => Publishes(b)'
                /\ StandsBack(b) => \E d \in BrokerProcs \ {b} : Serving(d) /\ Publishes(d)]_blVars
  <2> SUFFICES ASSUME NEW b \in BrokerProcs
               PROVE  /\ Serving(b)' => Publishes(b)'
                      /\ StandsBack(b) => \E d \in BrokerProcs \ {b} : Serving(d) /\ Publishes(d)
    OBVIOUS
  <2>1. Serving(b)' => Publishes(b)'
    BY <1>1, BlNextInv DEF BlInv, Held, Serving, Publishes
  <2>2. ASSUME StandsBack(b) PROVE \E d \in BrokerProcs \ {b} : Serving(d) /\ Publishes(d)
    <3>1. PICK c \in BrokerProcs : WaitForSession(c) /\ proc' = [proc EXCEPT ![c] = "deferred"]
      <4>1. UNCHANGED proc => FALSE
        BY <2>2 DEF StandsBack
      <4>2. PICK c \in BrokerProcs :
                \/ BindEmu(c) \/ BindSess(c) \/ WaitForSession(c)
                \/ PublishController(c) \/ PublishProducer(c) \/ BrokerDies(c)
        BY <1>1, <4>1 DEF BlNext, blVars, Registers, Unregisters, LazyConnects,
                          LazyCallAnswered, LazyCallTimesOut, LazyGivesUp
      <4>3. PICK where : proc' = [proc EXCEPT ![c] = where]
                         /\ (WaitForSession(c) \/ where # "deferred")
        BY <4>2 DEF BindEmu, BindSess, WaitForSession, PublishController, PublishProducer,
                    BrokerDies, Go
      <4>4. c = b /\ where = "deferred"
        BY <1>1, <2>2, <4>3 DEF StandsBack, BlInv
      <4> QED BY <4>3, <4>4
    <3>2. c = b
      BY <1>1, <2>2, <3>1 DEF StandsBack, BlInv
    <3>3. ProvesToken(ctlFile)
      BY <1>1, <3>1 DEF WaitForSession, Go, BlInv
    <3>4. PICK d \in BrokerProcs : Serving(d) /\ sessPort = d
      BY <3>3 DEF ProvesToken
    <3>5. Publishes(d) /\ d # b
      BY <1>1, <3>1, <3>2, <3>4 DEF BlInv, Held, Serving, Publishes, WaitForSession
    <3> QED BY <3>4, <3>5
  <2> QED BY <2>1, <2>2
<1>2. BlInv /\ [BlNext]_blVars =>
        [\A b \in BrokerProcs :
           /\ Serving(b)' => Publishes(b)'
           /\ StandsBack(b) => \E d \in BrokerProcs \ {b} : Serving(d) /\ Publishes(d)]_blVars
  BY <1>1
<1> QED BY <1>2, BlInitInv, BlNextInv, PTL DEF BlSpec, ServingIsPublished

LEMMA BlTypeNext == BlTypeOK /\ [BlNext]_blVars => BlTypeOK'
<1> SUFFICES ASSUME BlTypeOK, [BlNext]_blVars PROVE BlTypeOK'
  OBVIOUS
<1>1. NoReg \in [id : Nat, launch : EmuLaunches \cup {Nobody}, session : {Nobody, "link"}]
  BY DEF NoReg
<1>2. \A s \in {Nobody, "link"} :
        [registry EXCEPT !.session = s] \in [id : Nat, launch : EmuLaunches \cup {Nobody}, session : {Nobody, "link"}]
  BY DEF BlTypeOK
<1>3. Detached \in [id : Nat, launch : EmuLaunches \cup {Nobody}, session : {Nobody, "link"}]
  BY <1>2 DEF Detached, BlTypeOK
<1>4. ASSUME NEW b \in BrokerProcs, BindEmu(b) \/ BindSess(b) \/ WaitForSession(b) \/ PublishController(b)
      PROVE  BlTypeOK'
  BY <1>4 DEF BindEmu, BindSess, WaitForSession, PublishController, BlTypeOK
<1>5. ASSUME NEW b \in BrokerProcs, PublishProducer(b) \/ BrokerDies(b)
      PROVE  BlTypeOK'
  BY <1>1, <1>5 DEF PublishProducer, BrokerDies, BlTypeOK
<1>6. ASSUME NEW launch \in EmuLaunches, Registers(launch) PROVE BlTypeOK'
  BY <1>6 DEF Registers, BlTypeOK
<1>7. CASE Unregisters \/ LazyCallAnswered
  BY <1>1, <1>7 DEF Unregisters, LazyCallAnswered, BlTypeOK
<1>8. CASE LazyConnects
  <2>1. CASE ProvesToken(ctlFile) /\ PinsMatch
    <3>1. registry.id \in Nat /\ registry.launch \in EmuLaunches \cup {Nobody} /\ ctlFile \in BrokerProcs \cup {Nobody}
      BY DEF BlTypeOK
    <3>2. /\ lazy' = [named |-> TRUE, reg |-> registry.id, launch |-> registry.launch, token |-> ctlFile,
                      inner |-> [server |-> ctlFile, reg |-> registry.id, launch |-> registry.launch]]
          /\ registry' = [registry EXCEPT !.session = "link"] /\ linkSilent' = 0
          /\ UNCHANGED <<ctlFile, nextReg>>
      BY <1>8, <2>1 DEF LazyConnects
    <3>3. registry' \in [id : Nat, launch : EmuLaunches \cup {Nobody}, session : {Nobody, "link"}]
      BY <1>2, <3>2
    <3> QED BY <3>1, <3>2, <3>3 DEF BlTypeOK
  <2>2. CASE ~(ProvesToken(ctlFile) /\ PinsMatch)
    BY <1>8, <2>2 DEF LazyConnects, BlTypeOK
  <2> QED BY <2>1, <2>2
<1>9. CASE LazyCallTimesOut \/ LazyGivesUp
  BY <1>3, <1>9 DEF LazyCallTimesOut, LazyGivesUp, BlTypeOK
<1>10. CASE UNCHANGED blVars
  BY <1>10 DEF blVars, BlTypeOK
<1> QED BY <1>4, <1>5, <1>6, <1>7, <1>8, <1>9, <1>10 DEF BlNext

LEMMA PinsNext == BlTypeOK /\ PinsAreOfInner /\ [BlNext]_blVars => PinsAreOfInner'
<1> SUFFICES ASSUME BlTypeOK, PinsAreOfInner, [BlNext]_blVars PROVE PinsAreOfInner'
  OBVIOUS
<1>1. [lazy EXCEPT !.inner = NoLink].inner = NoLink
  BY DEF BlTypeOK
<1>2. CASE LazyConnects
  BY <1>2 DEF LazyConnects, BlTypeOK, PinsAreOfInner
<1>3. CASE LazyCallTimesOut \/ LazyGivesUp
  BY <1>1, <1>3 DEF LazyCallTimesOut, LazyGivesUp, PinsAreOfInner
<1>4. CASE UNCHANGED lazy
  BY <1>4 DEF PinsAreOfInner
<1> QED
  BY <1>2, <1>3, <1>4 DEF BlNext, blVars, Registers, Unregisters, LazyCallAnswered, BindEmu, BindSess, WaitForSession,
                          PublishController, PublishProducer, BrokerDies

\* A LazyBrokerLink that was attached to a launch is attached to no other one
\* afterwards, whatever broker hands out whatever registration id again
\* (ensure_connected of broker_link.rs).
THEOREM LinkKeepsItsLaunch == BlSpec => LinkStaysOnLaunch
<1> DEFINE Stays == \A l \in EmuLaunches : lazy.launch = l /\ lazy'.inner # NoLink => lazy'.inner.launch = l
<1>1. BlTypeOK /\ PinsAreOfInner /\ [BlNext]_blVars => [Stays]_blVars
  <2> SUFFICES ASSUME BlTypeOK, PinsAreOfInner, [BlNext]_blVars,
                      NEW l \in EmuLaunches, lazy.launch = l, lazy'.inner # NoLink
               PROVE  lazy'.inner.launch = l
    OBVIOUS
  <2>1. CASE LazyConnects
    <3>1. CASE ProvesToken(ctlFile) /\ PinsMatch
      BY <2>1, <3>1, BrokerLinksAssumption DEF LazyConnects, PinsMatch
    <3>2. CASE ~(ProvesToken(ctlFile) /\ PinsMatch)
      BY <2>1, <3>2 DEF LazyConnects, BlTypeOK, PinsAreOfInner
    <3> QED BY <3>1, <3>2
  <2>2. CASE LazyCallTimesOut \/ LazyGivesUp
    BY <2>2 DEF LazyCallTimesOut, LazyGivesUp, BlTypeOK, PinsAreOfInner
  <2>3. CASE UNCHANGED lazy
    BY <2>3 DEF PinsAreOfInner
  <2> QED
    BY <2>1, <2>2, <2>3 DEF BlNext, blVars, Registers, Unregisters, LazyCallAnswered, BindEmu, BindSess,
                            WaitForSession, PublishController, PublishProducer, BrokerDies
<1> QED BY <1>1, BlInitInv, BlTypeNext, PinsNext, PTL DEF BlSpec, LinkStaysOnLaunch

-----------------------------------------------------------------------------
(* The ports of direct links *)

Leases == [holder : PortLinks \cup {"gone"}, key : PortKeys]
Gens == [emulator : {"alive", "unknown", "exited"}, bridge : {"none", "alive", "exited"}, auth : BOOLEAN,
         launch : Nat, lease : {NoLease} \cup Leases]
PortStates == [step : {"idle", "scanned", "bound"}, attach : {0} \cup Ports, reserved : SUBSET Ports,
               port : {0} \cup Ports, launch : Nat, returned : BOOLEAN, raced : SUBSET Ports]

PortTypeOK ==
    /\ slots \in [Ports -> {NoGeneration} \cup Gens]
    /\ persisted \in [PortKeys -> {0} \cup Ports]
    /\ portKey \in [PortLinks -> PortKeys]
    /\ portLink \in [PortLinks -> PortStates]
    /\ portCount \in Nat

\* A port has one listener.
PortsExclusive ==
    /\ \A l \in PortLinks : portLink[l].step = "bound" <=> portLink[l].port # 0
    /\ \A l, q \in PortLinks : l # q /\ portLink[l].port # 0 => portLink[l].port # portLink[q].port

\* Link l is the successor on port p: nobody else that runs holds the lease of the
\* generation with this launch.
Succeeds(l, p, launch) ==
    MayBeLive(slots[p]) /\ slots[p].lease # NoLease =>
        slots[p].launch = launch /\ slots[p].lease.holder \in {l, "gone"}

\* What a link read in the store still holds of the ports that nobody raced for.
ScanHolds(l) ==
    portLink[l].step = "scanned" =>
        /\ portLink[l].attach \in Ports \ portLink[l].raced =>
             /\ Succeeds(l, portLink[l].attach, portLink[l].launch)
             /\ MayBeLive(slots[portLink[l].attach]) /\ slots[portLink[l].attach].lease # NoLease
                  => SameControl(slots[portLink[l].attach], portKey[l])
        /\ portLink[l].attach = 0 =>
             \A p \in Ports \ (portLink[l].raced \cup portLink[l].reserved) : ~MayBeLive(slots[p])

\* PortKept, of one link.
KeptBy(l) ==
    portLink[l].port # 0 /\ portLink[l].port \notin portLink[l].raced =>
        /\ Succeeds(l, portLink[l].port, portLink[l].launch)
        /\ MayBeLive(slots[portLink[l].port]) /\ slots[portLink[l].port].lease # NoLease =>
             \/ SameControl(slots[portLink[l].port], portKey[l])
             \/ slots[portLink[l].port].lease.holder = l
             \/ portLink[l].returned

PortInv == PortTypeOK /\ PortsExclusive /\ (\A l \in PortLinks : ScanHolds(l) /\ KeptBy(l))

LEMMA KeptIsPortKept == (\A l \in PortLinks : KeptBy(l)) <=> PortKept
BY DEF KeptBy, PortKept, Succeeds

LEMMA LowestPort ==
    ASSUME NEW T \in SUBSET Ports, T # {}
    PROVE  (CHOOSE p \in T : \A q \in T : p <= q) \in T
<1>1. T \subseteq Nat
  BY PortAssumption DEF Ports
<1> DEFINE Less == {ss \in Nat \X Nat : ss[1] < ss[2]}
<1>2. IsWellFoundedOn(Less, Nat)
  BY NatLessThanWellFounded DEF OpToRel
<1> HIDE DEF Less
<1>3. PICK x \in T : \A y \in T : ~ (<<y, x>> \in Less)
  BY <1>1, <1>2, WFMin
<1>4. ASSUME NEW y \in T PROVE x <= y
  <2>1. y < x => <<y, x>> \in Less
    <3>1. <<y, x>> \in Nat \X Nat
      BY <1>1
    <3>2. <<y, x>>[1] = y /\ <<y, x>>[2] = x
      OBVIOUS
    <3> QED BY <3>1, <3>2 DEF Less
  <2> QED BY <1>1, <1>3, <2>1
<1> QED BY <1>4

LEMMA BoundPortIsFree ==
    ASSUME NEW kept, NEW reserved, NEW busy
    PROVE  BoundPort(kept, reserved, busy) \in {0} \cup (Ports \ (reserved \cup busy))
<1> DEFINE free == Ports \ (reserved \cup busy)
<1>1. free # {} => (CHOOSE p \in free : \A q \in free : p <= q) \in free
  BY LowestPort
<1> HIDE DEF free
<1>2. BoundPort(kept, reserved, busy) \in {0} \cup free
  BY <1>1 DEF BoundPort, free
<1> QED BY <1>2 DEF free

LEMMA GenerationsDiffer == NoGeneration \notin Gens /\ NoLease \notin Leases /\ NoLease.holder = "none"
BY DEF NoGeneration, Gens, NoLease, Leases

LEMMA UnboundType == Unbound \in PortStates /\ Unbound.step = "idle" /\ Unbound.port = 0
BY DEF Unbound, PortStates

LEMMA PortInitInv == PortInit => PortInv
<1> SUFFICES ASSUME PortInit PROVE PortInv
  OBVIOUS
<1>1. PortTypeOK
  BY UnboundType DEF PortInit, PortTypeOK
<1>2. \A l \in PortLinks : portLink[l].step = "idle" /\ portLink[l].port = 0
  BY UnboundType DEF PortInit
<1> QED BY <1>1, <1>2 DEF PortInv, PortsExclusive, ScanHolds, KeptBy

\* A generation only decays, and no lease of link q is given up.
Decayed(q) ==
    \A p \in Ports :
        /\ MayBeLive(slots[p])' => MayBeLive(slots[p])
        /\ MayBeLive(slots[p])' => slots'[p].launch = slots[p].launch
        /\ MayBeLive(slots[p])' => slots'[p].lease \in {NoLease, slots[p].lease}
              \/ ( /\ slots[p].lease # NoLease /\ slots[p].lease.holder # q
                   /\ slots'[p].lease.holder = "gone" /\ slots'[p].lease.key = slots[p].lease.key)

LEMMA DecayKeeps ==
    ASSUME PortInv, NEW q \in PortLinks, Decayed(q), portLink'[q] = portLink[q], portKey' = portKey
    PROVE  ScanHolds(q)' /\ KeptBy(q)'
<1>1. portLink[q] \in PortStates
  BY DEF PortInv, PortTypeOK
<1>2. ScanHolds(q) /\ KeptBy(q)
  BY DEF PortInv
<1>3. ASSUME NEW p \in Ports, NEW launch, Succeeds(q, p, launch) PROVE Succeeds(q, p, launch)'
  BY <1>3 DEF Decayed, Succeeds
<1>4. ASSUME NEW p \in Ports, MayBeLive(slots[p])', slots'[p].lease # NoLease
      PROVE  /\ MayBeLive(slots[p]) /\ slots[p].lease # NoLease
             /\ SameControl(slots[p], portKey[q]) => SameControl(slots[p], portKey[q])'
             /\ slots[p].lease.holder = q => slots'[p].lease.holder = q
  BY <1>4 DEF Decayed, SameControl
<1>5. ScanHolds(q)'
  BY <1>1, <1>2, <1>3, <1>4 DEF ScanHolds, PortStates, Decayed
<1>6. KeptBy(q)'
  BY <1>1, <1>2, <1>3, <1>4 DEF KeptBy, PortStates
<1> QED BY <1>5, <1>6

\* A launch, claim or reattachment on port p leaves the others what they know.
LEMMA RaceKeeps ==
    ASSUME PortInv, NEW p \in Ports, NEW q \in PortLinks, portLink[q].port # p,
           slots' = [slots EXCEPT ![p] = slots'[p]], portLink'[q] = Races(p)[q], portKey' = portKey
    PROVE  ScanHolds(q)' /\ KeptBy(q)'
<1>1. portLink[q] \in PortStates /\ slots \in [Ports -> {NoGeneration} \cup Gens]
  BY DEF PortInv, PortTypeOK
<1>2. ScanHolds(q) /\ KeptBy(q)
  BY DEF PortInv
<1>3. \A r \in Ports \ {p} : slots'[r] = slots[r]
  BY <1>1
<1>4. CASE portLink[q].step = "scanned"
  <2>1. portLink'[q] = [portLink[q] EXCEPT !.raced = @ \cup {p}]
    BY <1>4 DEF Races
  <2>2. portLink[q].port = 0
    BY <1>4 DEF PortInv, PortsExclusive
  <2>3. /\ portLink'[q].step = portLink[q].step /\ portLink'[q].attach = portLink[q].attach
        /\ portLink'[q].reserved = portLink[q].reserved /\ portLink'[q].port = 0
        /\ portLink'[q].launch = portLink[q].launch /\ portLink'[q].raced = portLink[q].raced \cup {p}
    BY <1>1, <2>1, <2>2 DEF PortStates
  <2> QED BY <1>1, <1>2, <1>3, <2>3 DEF ScanHolds, KeptBy, Succeeds, MayBeLive, SameControl, PortStates
<1>5. CASE portLink[q].step # "scanned"
  <2>1. portLink'[q] = portLink[q]
    BY <1>5 DEF Races
  <2>2. KeptBy(q)'
    BY <1>1, <1>2, <1>3, <2>1 DEF KeptBy, Succeeds, MayBeLive, SameControl, PortStates
  <2> QED BY <1>5, <2>1, <2>2 DEF ScanHolds
<1> QED BY <1>4, <1>5

LEMMA SelectionType ==
    ASSUME PortInv, NEW l \in PortLinks
    PROVE  LET choice == SelectRuntimeGeneration(l) IN
           /\ choice.port \in {0} \cup Ports /\ choice.reserved \in SUBSET Ports
           /\ choice.port # 0 => Preferred(slots[choice.port], l)
           /\ choice.port = 0 => choice.reserved = {p \in Ports : MayBeLive(slots[p])}
<1> DEFINE preferred == {p \in Ports : Preferred(slots[p], l)}
<1>1. 0 \notin Ports
  BY PortAssumption DEF Ports
<1>2. CASE Cardinality(preferred) = 1
  <2>1. preferred # {}
    BY <1>2, FS_EmptySet
  <2>2. (CHOOSE p \in preferred : TRUE) \in preferred
    BY <2>1
  <2> QED BY <1>1, <1>2, <2>2 DEF SelectRuntimeGeneration
<1>3. CASE Cardinality(preferred) # 1
  BY <1>1, <1>3 DEF SelectRuntimeGeneration
<1> QED BY <1>2, <1>3

LEMMA ScanInv ==
    ASSUME PortInv, NEW l \in PortLinks, Scan(l)
    PROVE  PortInv'
<1> DEFINE choice == SelectRuntimeGeneration(l)
           new == [Unbound EXCEPT !.step = "scanned", !.attach = choice.port, !.reserved = choice.reserved,
                                  !.launch = IF choice.port = 0 THEN 0 ELSE slots[choice.port].launch]
<1>1. /\ choice.port \in {0} \cup Ports /\ choice.reserved \in SUBSET Ports
      /\ choice.port # 0 => Preferred(slots[choice.port], l)
      /\ choice.port = 0 => choice.reserved = {p \in Ports : MayBeLive(slots[p])}
  BY SelectionType
<1>2. slots \in [Ports -> {NoGeneration} \cup Gens] /\ portLink \in [PortLinks -> PortStates]
  BY DEF PortInv, PortTypeOK
<1>3. portLink' = [portLink EXCEPT ![l] = new] /\ UNCHANGED <<slots, persisted, portKey, portCount>>
  BY DEF Scan
<1>4. (IF choice.port = 0 THEN 0 ELSE slots[choice.port].launch) \in Nat
  BY <1>1, <1>2, GenerationsDiffer DEF Preferred, MayBeLive, Gens
<1> HIDE DEF choice
<1>5. /\ new \in PortStates /\ new.step = "scanned" /\ new.port = 0 /\ new.raced = {}
      /\ new.attach = choice.port /\ new.reserved = choice.reserved
      /\ new.launch = IF choice.port = 0 THEN 0 ELSE slots[choice.port].launch
  BY <1>1, <1>4 DEF Unbound, PortStates
<1> HIDE DEF new
<1>6. portLink'[l] = new /\ \A q \in PortLinks \ {l} : portLink'[q] = portLink[q]
  BY <1>2, <1>3
<1>7. PortTypeOK'
  BY <1>2, <1>3, <1>5 DEF PortInv, PortTypeOK
<1>8. PortsExclusive'
  BY <1>5, <1>6 DEF PortInv, PortsExclusive
<1>9. ASSUME NEW q \in PortLinks \ {l} PROVE ScanHolds(q)' /\ KeptBy(q)'
  BY <1>3, <1>6, DecayKeeps DEF PortInv, ScanHolds, KeptBy, Succeeds
<1>10. ScanHolds(l)' /\ KeptBy(l)'
  <2>1. KeptBy(l)'
    BY <1>5, <1>6 DEF KeptBy
  <2>2. choice.port # 0 => /\ Succeeds(l, choice.port, slots[choice.port].launch)
                           /\ SameControl(slots[choice.port], portKey[l])
    BY <1>1 DEF Succeeds, Preferred, LeaseState
  <2>3. 0 \notin Ports
    BY PortAssumption DEF Ports
  <2>4. ScanHolds(l)'
    BY <1>1, <1>3, <1>5, <1>6, <2>2, <2>3 DEF ScanHolds, Succeeds, MayBeLive, SameControl
  <2> QED BY <2>1, <2>4
<1> QED BY <1>7, <1>8, <1>9, <1>10 DEF PortInv

LEMMA BindInv ==
    ASSUME PortInv, NEW l \in PortLinks, Bind(l)
    PROVE  PortInv'
<1> DEFINE link == portLink[l]
           kept == IF portKey[l] = "none" THEN 0 ELSE persisted[portKey[l]]
           port == IF link.attach = 0 THEN BoundPort(kept, link.reserved, Busy(l))
                   ELSE IF link.attach \in Busy(l) THEN 0 ELSE link.attach
           live == port # 0 /\ slots[port].emulator = "alive" /\ slots[port].auth
           launch == IF link.attach # 0 THEN link.launch
                     ELSE IF port = kept /\ live THEN slots[port].launch ELSE 0
           new == [Unbound EXCEPT !.step = "bound", !.port = port, !.launch = launch, !.raced = link.raced]
<1>1. slots \in [Ports -> {NoGeneration} \cup Gens] /\ portLink \in [PortLinks -> PortStates] /\ link \in PortStates
  BY DEF PortInv, PortTypeOK
<1>2. 0 \notin Ports
  BY PortAssumption DEF Ports
<1>3. /\ port \in {0} \cup (Ports \ Busy(l))
      /\ port # 0 /\ link.attach # 0 => port = link.attach
      /\ port # 0 /\ link.attach = 0 => port \notin link.reserved
  BY <1>1, <1>2, BoundPortIsFree DEF PortStates
<1>4. portLink' = [portLink EXCEPT ![l] = IF port = 0 THEN Unbound ELSE new]
      /\ link.step = "scanned" /\ UNCHANGED <<slots, portKey, portCount>>
  BY DEF Bind
<1>5. persisted' \in [PortKeys -> {0} \cup Ports]
  BY <1>3 DEF Bind, PortInv, PortTypeOK
<1>6. port # 0 => launch \in Nat
  <2>1. NoGeneration.emulator # "alive"
    BY DEF NoGeneration
  <2>2. slots[port].emulator = "alive" /\ port # 0 => slots[port] \in Gens
    <3> HIDE DEF port
    <3> QED BY <1>1, <1>3, <2>1
  <2> HIDE DEF port
  <2> QED BY <1>1, <2>2 DEF PortStates, Gens
<1>7. link.attach # 0 => launch = link.launch
  OBVIOUS
<1> HIDE DEF port, launch
<1>8. port # 0 => /\ new \in PortStates /\ new.step = "bound" /\ new.port = port
                  /\ new.launch = launch /\ new.raced = link.raced
  BY <1>1, <1>3, <1>6 DEF Unbound, PortStates
<1> HIDE DEF new
<1>9. portLink'[l] = (IF port = 0 THEN Unbound ELSE new) /\ \A q \in PortLinks \ {l} : portLink'[q] = portLink[q]
  BY <1>1, <1>4
<1>10. PortTypeOK'
  BY <1>1, <1>4, <1>5, <1>8, UnboundType DEF PortInv, PortTypeOK
<1>11. PortsExclusive'
  BY <1>3, <1>8, <1>9, UnboundType DEF PortInv, PortsExclusive, Busy
<1>12. ASSUME NEW q \in PortLinks \ {l} PROVE ScanHolds(q)' /\ KeptBy(q)'
  BY <1>4, <1>9 DEF PortInv, ScanHolds, KeptBy, Succeeds
<1>13. ScanHolds(l)' /\ KeptBy(l)'
  <2>1. CASE port = 0
    BY <1>9, <2>1, UnboundType DEF ScanHolds, KeptBy
  <2>2. CASE port # 0
    <3>1. ScanHolds(l)
      BY DEF PortInv
    <3>2. ScanHolds(l)'
      BY <1>8, <1>9, <2>2 DEF ScanHolds
    <3>3. KeptBy(l)'
      BY <1>1, <1>3, <1>4, <1>7, <1>8, <1>9, <2>2, <3>1 DEF ScanHolds, KeptBy, Succeeds
    <3> QED BY <3>2, <3>3
  <2> QED BY <2>1, <2>2
<1> QED BY <1>10, <1>11, <1>12, <1>13 DEF PortInv

\* Link l takes over port p: it listens there alone, and its lease is on the slot.
LEMMA TakesOver ==
    ASSUME PortInv, NEW l \in PortLinks, NEW p \in Ports, p \notin Busy(l),
           NEW s \in Gens, slots' = [slots EXCEPT ![p] = s],
           NEW new \in PortStates, portLink' = [Races(p) EXCEPT ![l] = new],
           new.step = "bound", new.port = p, new.launch = s.launch, s.lease \in Leases, s.lease.holder = l,
           UNCHANGED <<persisted, portKey>>, portCount' \in Nat
    PROVE  PortInv'
<1>1. slots \in [Ports -> {NoGeneration} \cup Gens] /\ portLink \in [PortLinks -> PortStates]
  BY DEF PortInv, PortTypeOK
<1>2. 0 \notin Ports
  BY PortAssumption DEF Ports
<1>3. Races(p) \in [PortLinks -> PortStates] /\ \A q \in PortLinks : Races(p)[q].port = portLink[q].port
                                            /\ Races(p)[q].step = portLink[q].step
  BY <1>1 DEF Races, PortStates
<1>4. portLink'[l] = new /\ \A q \in PortLinks \ {l} : portLink'[q] = Races(p)[q]
  BY <1>3
<1>5. slots'[p] = s /\ slots' = [slots EXCEPT ![p] = slots'[p]]
  BY <1>1
<1>6. PortTypeOK'
  BY <1>1, <1>3 DEF PortInv, PortTypeOK
<1>7. PortsExclusive'
  BY <1>2, <1>3, <1>4 DEF PortInv, PortsExclusive, Busy
<1>8. ASSUME NEW q \in PortLinks \ {l} PROVE ScanHolds(q)' /\ KeptBy(q)'
  BY <1>4, <1>5, RaceKeeps DEF Busy
<1>9. ScanHolds(l)' /\ KeptBy(l)'
  BY <1>4, <1>5 DEF ScanHolds, KeptBy, Succeeds
<1> QED BY <1>6, <1>7, <1>8, <1>9 DEF PortInv

\* The port that a link listens on is no other's.
LEMMA OwnPortNotBusy ==
    ASSUME PortInv, NEW l \in PortLinks, portLink[l].step = "bound"
    PROVE  portLink[l].port \in Ports /\ portLink[l].port \notin Busy(l)
BY DEF PortInv, PortTypeOK, PortStates, PortsExclusive, Busy

LEMMA LeasedType ==
    ASSUME PortInv, NEW l \in PortLinks, NEW s \in Gens
    PROVE  /\ Leased(s, l) \in Gens /\ Leased(s, l).launch = s.launch
           /\ Leased(s, l).lease \in Leases /\ Leased(s, l).lease.holder = l
<1>1. portKey[l] \in PortKeys
  BY DEF PortInv, PortTypeOK
<1>2. [holder |-> l, key |-> portKey[l]] \in Leases
  BY <1>1 DEF Leases
<1> QED BY <1>2 DEF Leased, Gens

LEMMA ReattachTargetInv ==
    ASSUME PortInv, NEW l \in PortLinks, NEW p \in Ports, ReattachTarget(l, p)
    PROVE  PortInv'
<1>1. slots[p] \in Gens
  BY DEF PortInv, PortTypeOK, ReattachTarget, CanReattach
<1> DEFINE new == [Unbound EXCEPT !.step = "bound", !.port = p, !.launch = slots[p].launch, !.returned = TRUE]
<1>2. new \in PortStates /\ new.step = "bound" /\ new.port = p /\ new.launch = slots[p].launch
  BY <1>1 DEF Unbound, PortStates, Gens
<1> HIDE DEF new
<1>3. slots' = [slots EXCEPT ![p] = Leased(slots[p], l)] /\ portLink' = [Races(p) EXCEPT ![l] = new]
  BY DEF ReattachTarget, new
<1> DEFINE s == Leased(slots[p], l)
<1>4. s \in Gens /\ s.launch = slots[p].launch /\ s.lease \in Leases /\ s.lease.holder = l
  BY <1>1, LeasedType
<1>5. p \notin Busy(l) /\ UNCHANGED <<persisted, portKey>> /\ portCount' \in Nat
  BY DEF ReattachTarget, PortInv, PortTypeOK
<1>6. slots' = [slots EXCEPT ![p] = s]
  BY <1>3
<1> HIDE DEF s
<1> QED BY <1>2, <1>3, <1>4, <1>5, <1>6, TakesOver

LEMMA PortLaunchInv ==
    ASSUME PortInv, NEW l \in PortLinks, PortLaunch(l)
    PROVE  PortInv'
<1> DEFINE p == portLink[l].port
           new == [portLink[l] EXCEPT !.launch = portCount + 1]
<1>1. p \in Ports /\ p \notin Busy(l) /\ portLink[l] \in PortStates /\ portLink[l].step = "bound" /\ portCount \in Nat
  BY OwnPortNotBusy DEF PortLaunch, PortInv, PortTypeOK
<1>2. PICK bridge \in {"none", "alive"} :
        slots' = [slots EXCEPT ![p] =
                    Leased([emulator |-> "alive", bridge |-> bridge, auth |-> TRUE, launch |-> portCount + 1,
                            lease |-> NoLease], l)]
  BY DEF PortLaunch
<1> DEFINE s == [emulator |-> "alive", bridge |-> bridge, auth |-> TRUE, launch |-> portCount + 1, lease |-> NoLease]
<1>3. s \in Gens /\ s.launch = portCount + 1
  BY <1>1 DEF Gens
<1>4. Races(p)[l] = portLink[l] /\ Races(p) \in [PortLinks -> PortStates]
  BY <1>1 DEF Races, PortInv, PortTypeOK, PortStates
<1>5. portLink' = [Races(p) EXCEPT ![l] = new]
  BY <1>4 DEF PortLaunch
<1>6. new \in PortStates /\ new.step = "bound" /\ new.port = p /\ new.launch = portCount + 1
  BY <1>1 DEF PortStates
<1>7. UNCHANGED <<persisted, portKey>> /\ portCount' \in Nat
  BY <1>1 DEF PortLaunch
<1> DEFINE t == Leased(s, l)
<1>8. t \in Gens /\ t.launch = portCount + 1 /\ t.lease \in Leases /\ t.lease.holder = l
  BY <1>3, LeasedType
<1>9. slots' = [slots EXCEPT ![p] = t]
  BY <1>2
<1> HIDE DEF p, new, s, t
<1> QED BY <1>1, <1>5, <1>6, <1>7, <1>8, <1>9, TakesOver

LEMMA PortClaimInv ==
    ASSUME PortInv, NEW l \in PortLinks, PortClaim(l)
    PROVE  PortInv'
<1> DEFINE p == portLink[l].port
<1>1. p \in Ports /\ p \notin Busy(l) /\ portLink[l] \in PortStates /\ portLink[l].step = "bound" /\ portCount' \in Nat
  BY OwnPortNotBusy DEF PortClaim, PortInv, PortTypeOK
<1>2. slots[p] \in Gens /\ slots[p].launch = portLink[l].launch
  BY <1>1 DEF PortClaim, PortInv, PortTypeOK
<1>3. Races(p)[l] = portLink[l] /\ Races(p) \in [PortLinks -> PortStates]
  BY <1>1 DEF Races, PortInv, PortTypeOK, PortStates
<1>4. portLink' = [Races(p) EXCEPT ![l] = portLink[l]]
  BY <1>3 DEF PortClaim
<1>5. slots' = [slots EXCEPT ![p] = Leased(slots[p], l)] /\ UNCHANGED <<persisted, portKey>>
  BY DEF PortClaim
<1> DEFINE s == Leased(slots[p], l)
<1>6. s \in Gens /\ s.launch = portLink[l].launch /\ s.lease \in Leases /\ s.lease.holder = l
  BY <1>2, LeasedType
<1>7. slots' = [slots EXCEPT ![p] = s] /\ portLink[l].port = p
  BY <1>5
<1> HIDE DEF p, s
<1> QED BY <1>1, <1>4, <1>5, <1>6, <1>7, TakesOver

LEMMA PortDecaysInv ==
    ASSUME PortInv, NEW p \in Ports, PortDecays(p)
    PROVE  PortInv'
<1>1. slots \in [Ports -> {NoGeneration} \cup Gens] /\ slots[p] \in Gens
  BY DEF PortInv, PortTypeOK, PortDecays
<1>2. PICK s \in Gens : /\ slots' = [slots EXCEPT ![p] = s]
                        /\ MayBeLive(s) => MayBeLive(slots[p])
                        /\ s.launch = slots[p].launch /\ s.lease \in {slots[p].lease, NoLease}
  <2>1. CASE slots' = [slots EXCEPT ![p].emulator = "exited"]
    <3>1. [slots[p] EXCEPT !.emulator = "exited"] \in Gens
      BY <1>1 DEF Gens
    <3> QED BY <1>1, <2>1, <3>1, GenerationsDiffer DEF Gens, MayBeLive
  <2>2. CASE slots[p].emulator = "alive" /\ slots' = [slots EXCEPT ![p].emulator = "unknown"]
    <3>1. [slots[p] EXCEPT !.emulator = "unknown"] \in Gens
      BY <1>1 DEF Gens
    <3> QED BY <1>1, <2>2, <3>1, GenerationsDiffer DEF Gens, MayBeLive
  <2>3. CASE slots[p].bridge = "alive" /\ slots' = [slots EXCEPT ![p].bridge = "exited"]
    <3>1. [slots[p] EXCEPT !.bridge = "exited"] \in Gens
      BY <1>1 DEF Gens
    <3> QED BY <1>1, <2>3, <3>1, GenerationsDiffer DEF Gens, MayBeLive
  <2>4. CASE slots' = [slots EXCEPT ![p].lease = NoLease]
    <3>1. [slots[p] EXCEPT !.lease = NoLease] \in Gens
      BY <1>1 DEF Gens
    <3> QED BY <1>1, <2>4, <3>1, GenerationsDiffer DEF Gens, MayBeLive
  <2>5. CASE slots' = [slots EXCEPT ![p].auth = FALSE]
    <3>1. [slots[p] EXCEPT !.auth = FALSE] \in Gens
      BY <1>1 DEF Gens
    <3> QED BY <1>1, <2>5, <3>1, GenerationsDiffer DEF Gens, MayBeLive
  <2> QED BY <2>1, <2>2, <2>3, <2>4, <2>5 DEF PortDecays
<1>3. UNCHANGED <<persisted, portKey, portLink, portCount>>
  BY DEF PortDecays
<1>4. slots'[p] = s /\ \A r \in Ports \ {p} : slots'[r] = slots[r]
  BY <1>1, <1>2
<1>5. \A q \in PortLinks : Decayed(q)
  BY <1>2, <1>4 DEF Decayed, MayBeLive
<1>6. PortTypeOK' /\ PortsExclusive'
  BY <1>1, <1>2, <1>3 DEF PortInv, PortTypeOK, PortsExclusive
<1>7. \A q \in PortLinks : ScanHolds(q)' /\ KeptBy(q)'
  BY <1>3, <1>5, DecayKeeps
<1> QED BY <1>6, <1>7 DEF PortInv

LEMMA PortRestartInv ==
    ASSUME PortInv, NEW l \in PortLinks, PortRestart(l)
    PROVE  PortInv'
<1>1. slots \in [Ports -> {NoGeneration} \cup Gens] /\ portLink \in [PortLinks -> PortStates]
  BY DEF PortInv, PortTypeOK
<1>2. UNCHANGED <<persisted, portKey, portCount>>
  BY DEF PortRestart
<1>3. portLink'[l] = Unbound /\ \A q \in PortLinks \ {l} : portLink'[q] = portLink[q]
  BY <1>1 DEF PortRestart
<1>4. ASSUME NEW p \in Ports, slots[p] # NoGeneration, slots[p].lease.holder = l
      PROVE  /\ slots'[p] \in Gens /\ slots'[p].emulator = slots[p].emulator /\ slots'[p].bridge = slots[p].bridge
             /\ slots'[p].launch = slots[p].launch /\ slots[p].lease # NoLease
             /\ slots'[p].lease.holder = "gone" /\ slots'[p].lease.key = slots[p].lease.key
  <2>1. slots[p] \in Gens /\ slots[p].lease \in Leases
    BY <1>1, <1>4, GenerationsDiffer, PortAssumption DEF Gens
  <2>2. [slots[p].lease EXCEPT !.holder = "gone"] \in Leases
    BY <2>1 DEF Leases
  <2>3. slots'[p] = [slots[p] EXCEPT !.lease = [slots[p].lease EXCEPT !.holder = "gone"]]
    BY <1>4, <2>1 DEF PortRestart
  <2> QED BY <2>1, <2>2, <2>3, GenerationsDiffer DEF Gens, Leases
<1>5. ASSUME NEW p \in Ports, ~(slots[p] # NoGeneration /\ slots[p].lease.holder = l) PROVE slots'[p] = slots[p]
  BY <1>5 DEF PortRestart
<1>6. slots' \in [Ports -> {NoGeneration} \cup Gens]
  <2>1. DOMAIN slots' = Ports /\ slots' = [p \in Ports |-> slots'[p]]
    BY DEF PortRestart
  <2>2. \A p \in Ports : slots'[p] \in {NoGeneration} \cup Gens
    BY <1>1, <1>4, <1>5
  <2> QED BY <2>1, <2>2
<1>7. PortTypeOK'
  BY <1>1, <1>2, <1>6, UnboundType DEF PortRestart, PortInv, PortTypeOK
<1>8. PortsExclusive'
  BY <1>3, UnboundType DEF PortInv, PortsExclusive
<1>9. ASSUME NEW q \in PortLinks \ {l} PROVE ScanHolds(q)' /\ KeptBy(q)'
  <2>1. Decayed(q)
    <3> SUFFICES ASSUME NEW p \in Ports, MayBeLive(slots[p])'
                 PROVE  /\ MayBeLive(slots[p])
                        /\ slots'[p].launch = slots[p].launch
                        /\ \/ slots'[p].lease \in {NoLease, slots[p].lease}
                           \/ ( /\ slots[p].lease # NoLease /\ slots[p].lease.holder # q
                                /\ slots'[p].lease.holder = "gone" /\ slots'[p].lease.key = slots[p].lease.key)
      BY DEF Decayed
    <3>1. CASE slots[p] # NoGeneration /\ slots[p].lease.holder = l
      BY <1>4, <3>1 DEF MayBeLive
    <3>2. CASE ~(slots[p] # NoGeneration /\ slots[p].lease.holder = l)
      BY <1>5, <3>2 DEF MayBeLive
    <3> QED BY <3>1, <3>2
  <2> QED BY <1>2, <1>3, <2>1, DecayKeeps
<1>10. ScanHolds(l)' /\ KeptBy(l)'
  BY <1>3, UnboundType DEF ScanHolds, KeptBy
<1> QED BY <1>7, <1>8, <1>9, <1>10 DEF PortInv

LEMMA PortNextInv == PortInv /\ [PortNext]_portVars => PortInv'
<1> SUFFICES ASSUME PortInv, [PortNext]_portVars PROVE PortInv'
  OBVIOUS
<1>1. CASE UNCHANGED portVars
  BY <1>1 DEF portVars, PortInv, PortTypeOK, PortsExclusive, ScanHolds, KeptBy, Succeeds
<1> QED
  BY <1>1, ScanInv, BindInv, PortLaunchInv, PortClaimInv, PortRestartInv, ReattachTargetInv, PortDecaysInv
  DEF PortNext

\* However many controllers share however many ports: who listens on the port of a
\* generation that may be live is its successor, except where another controller got
\* in between the reading of the store and the bind (select_runtime_generation and
\* ensure_connected of tcp.rs, tcp/reattach.rs).
THEOREM PortsAreKept == PortSpec => []PortKept
<1>1. PortInv => PortKept
  BY KeptIsPortKept DEF PortInv
<1> QED BY <1>1, PortInitInv, PortNextInv, PTL DEF PortSpec
=============================================================================
