------------------------------- MODULE TcpLink -------------------------------
(***************************************************************************)
(* The direct link of a frontend (src/live/tcp.rs, tcp/preaccept.rs,       *)
(* tcp/call.rs, tcp/reattach.rs).  A supervisor thread accepts emulators   *)
(* in the background and shakes hands with the token that was shared when  *)
(* each was accepted; the link adopts the first that finishes, between     *)
(* calls.  A launch stages the next generation's token and commits or      *)
(* aborts it.                                                              *)
(***************************************************************************)
EXTENDS Naturals, Sequences, FiniteSets

CONSTANTS Tokens,        \* the session token first, then those of generations
          OwnToken,      \* the token that the link starts with
          MaxWorkers,    \* handshakes at once (8)
          MaxSilent,     \* MAX_CONSECUTIVE_TIMEOUTS
          MaxCalls,      \* bound on the request ids of a behaviour
          MaxInbox       \* bound on the lines that the link has not read yet

ASSUME TcpAssumption ==
    /\ OwnToken \in Tokens /\ MaxWorkers \in Nat \ {0}
    /\ MaxSilent \in Nat \ {0} /\ MaxCalls \in Nat /\ MaxInbox \in Nat

VARIABLES session,    \* session_token
          staged,     \* staged_reclaim_token
          shared,     \* preaccept_token, read by the supervisor
          tokenFile,  \* the token file of the bound port
          bound,      \* listener is bound
          conn,       \* the admitted connection
          pre,        \* the supervisor of the background accepts
          tcpCall,    \* the call in progress
          nextId,
          timeouts,   \* consecutive_timeouts
          silent      \* plain calls of this connection that got no line since one
                      \* of them read a line (history)

tcpVars == <<session, staged, shared, tokenFile, bound, conn, pre, tcpCall, nextId, timeouts,
             silent>>

NoToken == "none"
NoConn == [token |-> NoToken]
NoPre == [step |-> "none"]
FreshPre == [step |-> "running", workers |-> {}, error |-> FALSE]
Idle == [step |-> "idle"]

Expected == IF staged # NoToken THEN staged ELSE session
Connected == conn # NoConn
Connection(t) == [token |-> t, owed |-> {}, inbox |-> <<>>, open |-> TRUE]

TcpInit ==
    /\ session = OwnToken /\ staged = NoToken /\ shared = OwnToken
    /\ tokenFile = NoToken /\ bound = FALSE
    /\ conn = NoConn /\ pre = NoPre /\ tcpCall = Idle
    /\ nextId = 1 /\ timeouts = 0 /\ silent = 0

-----------------------------------------------------------------------------
\* The supervisor takes an emulator that holds token t, unless all workers are
\* busy.  The handshake uses the token that is shared now.
SupervisorAccepts(t) ==
    /\ bound /\ pre.step = "running" /\ Cardinality(pre.workers) < MaxWorkers
    /\ pre' = [pre EXCEPT !.workers = @ \cup {[held |-> t, token |-> shared]}]
    /\ UNCHANGED <<session, staged, shared, tokenFile, bound, conn, tcpCall, nextId, timeouts, silent>>

\* A handshake ends.  The first that succeeds stops and joins the others.
WorkerEnds(w) ==
    /\ pre.step = "running" /\ w \in pre.workers
    /\ pre' = IF w.held = w.token
              THEN [step |-> "won", token |-> w.token]
              ELSE [pre EXCEPT !.workers = @ \ {w}, !.error = TRUE]
    /\ UNCHANGED <<session, staged, shared, tokenFile, bound, conn, tcpCall, nextId, timeouts, silent>>

\* A handshake of a matching emulator fails for another reason.
HandshakeFails ==
    /\ pre.step = "running"
    /\ \E w \in pre.workers : pre' = [pre EXCEPT !.workers = @ \ {w}, !.error = TRUE]
    /\ UNCHANGED <<session, staged, shared, tokenFile, bound, conn, tcpCall, nextId, timeouts, silent>>

\* accept itself fails: the supervisor ends with that error.
AcceptFails ==
    /\ pre.step = "running" /\ pre' = [step |-> "failed"]
    /\ UNCHANGED <<session, staged, shared, tokenFile, bound, conn, tcpCall, nextId, timeouts, silent>>

\* A finished handshake is adopted only if its token is still the expected one.
Adopts == pre.step = "won" /\ pre.token = Expected

Adopt ==
    /\ conn' = Connection(pre.token)
    /\ pre' = FreshPre
    /\ timeouts' = 0 /\ silent' = 0

\* What finish_preaccept leaves of the supervisor when it adopts nothing: a result
\* ends it, a handshake's error is taken out of its channel.
Finished == IF pre.step = "running" THEN [pre EXCEPT !.error = FALSE] ELSE NoPre

-----------------------------------------------------------------------------
\* A call over a connection first adopts a replacement that is ready; every
\* failure of finish_preaccept is ignored here.
CallConnected ==
    /\ tcpCall = Idle /\ nextId <= MaxCalls /\ Connected
    /\ tcpCall' = [step |-> "write"]
    /\ IF pre # NoPre /\ Adopts
       THEN Adopt
       ELSE /\ pre' = IF pre = NoPre THEN FreshPre ELSE Finished
            /\ UNCHANGED <<conn, timeouts, silent>>
    /\ UNCHANGED <<session, staged, shared, tokenFile, bound, nextId>>

\* A call without a connection waits a moment for the supervisor.  It fails with
\* the error of a handshake, or while the supervisor has no result; after a stale
\* result or on the first call it goes on to bind and to start a new supervisor.
CallUnconnected ==
    /\ tcpCall = Idle /\ nextId <= MaxCalls /\ ~Connected
    /\ \/ /\ pre # NoPre /\ Adopts /\ Adopt
          /\ tcpCall' = [step |-> "write"]
       \/ /\ pre.step = "running" \/ pre.step = "failed"
          /\ pre' = Finished /\ tcpCall' = Idle
          /\ UNCHANGED <<conn, timeouts, silent>>
       \/ /\ pre = NoPre \/ (pre.step = "won" /\ ~Adopts)
          /\ pre' = NoPre /\ tcpCall' = [step |-> IF bound THEN "arm" ELSE "bind"]
          /\ UNCHANGED <<conn, timeouts, silent>>
    /\ UNCHANGED <<session, staged, shared, tokenFile, bound, nextId>>

\* The listener is bound to a port whose generation or token file this session may
\* reclaim with t, or to a fresh one.  set_reclaim_token runs before the listener
\* is in place, so it does not write the token file.
CallBinds ==
    /\ tcpCall.step = "bind"
    /\ \/ \E t \in Tokens :
             /\ session' = t /\ shared' = t /\ staged' = NoToken
             /\ bound' = TRUE /\ tcpCall' = [step |-> "arm"] /\ UNCHANGED tokenFile
       \/ /\ tokenFile' = session /\ bound' = TRUE /\ tcpCall' = [step |-> "arm"]
          /\ UNCHANGED <<session, shared, staged>>
       \/ /\ tcpCall' = Idle      \* PortBusy, or the token file cannot be written
          /\ UNCHANGED <<session, shared, staged, tokenFile, bound>>
    /\ UNCHANGED <<conn, pre, nextId, timeouts, silent>>

CallArms ==
    /\ tcpCall.step = "arm"
    /\ pre' = FreshPre /\ tcpCall' = [step |-> "wait"]
    /\ UNCHANGED <<session, staged, shared, tokenFile, bound, conn, nextId, timeouts, silent>>

CallWaits ==
    /\ tcpCall.step = "wait"
    /\ IF Adopts
       THEN Adopt /\ tcpCall' = [step |-> "write"]
       ELSE /\ pre' = Finished /\ tcpCall' = Idle
            /\ UNCHANGED <<conn, timeouts, silent>>
    /\ UNCHANGED <<session, staged, shared, tokenFile, bound, nextId>>

\* A plain request is written.  A write that fails may have sent a part of the line,
\* so the connection is given up.
CallWrites ==
    /\ tcpCall.step = "write"
    /\ nextId' = nextId + 1
    /\ \/ /\ conn' = [conn EXCEPT !.owed = @ \cup {nextId}]
          /\ tcpCall' = [step |-> "read", id |-> nextId]
       \/ conn' = NoConn /\ tcpCall' = Idle
    /\ UNCHANGED <<session, staged, shared, tokenFile, bound, pre, timeouts, silent>>

\* A line is read: an answer of an earlier call is skipped, a working frame goes
\* on, the answer ends the call, and anything else ends the connection.
CallReads ==
    /\ tcpCall.step = "read" /\ conn.inbox # <<>>
    /\ timeouts' = 0 /\ silent' = 0
    /\ LET line == Head(conn.inbox)
           rest == [conn EXCEPT !.inbox = Tail(@)]
       IN  CASE line.kind = "garbage"     -> conn' = NoConn /\ tcpCall' = Idle
             [] line.id # tcpCall.id      -> conn' = rest /\ UNCHANGED tcpCall
             [] line.kind = "working"     ->
                   \/ conn' = rest /\ UNCHANGED tcpCall
                   \/ conn' = NoConn /\ tcpCall' = Idle     \* the observer refuses it, or it is cancelled
             [] OTHER                     -> conn' = rest /\ tcpCall' = Idle
    /\ UNCHANGED <<session, staged, shared, tokenFile, bound, pre, nextId>>

\* send_abort: a cancelled call asks once for its end, and reads on.
CallAborts ==
    /\ tcpCall.step = "read" /\ nextId = tcpCall.id + 1
    /\ nextId' = nextId + 1
    /\ \/ conn' = [conn EXCEPT !.owed = @ \cup {nextId}] /\ UNCHANGED <<tcpCall, silent>>
       \/ conn' = NoConn /\ tcpCall' = Idle /\ silent' = 0
    /\ UNCHANGED <<session, staged, shared, tokenFile, bound, pre, timeouts>>

\* No line came in time.  The third call in a row that gets none ends the connection.
CallTimesOut ==
    /\ tcpCall.step = "read" /\ conn.open /\ conn.inbox = <<>>
    /\ tcpCall' = Idle
    /\ IF timeouts + 1 >= MaxSilent
       THEN timeouts' = 0 /\ silent' = 0 /\ conn' = NoConn
       ELSE timeouts' = timeouts + 1 /\ silent' = silent + 1 /\ UNCHANGED conn
    /\ UNCHANGED <<session, staged, shared, tokenFile, bound, pre, nextId>>

\* The deadline of the call passes, or the call is cancelled and cannot be aborted.
CallExpires ==
    /\ tcpCall.step = "read"
    /\ \/ timeouts' = 0
       \/ conn.inbox = <<>> /\ UNCHANGED timeouts
    /\ conn' = NoConn /\ silent' = 0 /\ tcpCall' = Idle
    /\ UNCHANGED <<session, staged, shared, tokenFile, bound, pre, nextId>>

\* The emulator is gone.
CallEof ==
    /\ tcpCall.step = "read" /\ ~conn.open /\ conn.inbox = <<>>
    /\ conn' = NoConn /\ silent' = 0 /\ tcpCall' = Idle
    /\ UNCHANGED <<session, staged, shared, tokenFile, bound, pre, nextId, timeouts>>

-----------------------------------------------------------------------------
(* A call under a temporal operation: wire::exchange (ControlledTool has its *)
(* other side).  It takes the id of its abort with its own, reads until each *)
(* request it sent is answered, and counts no silence: timeouts stays as the *)
(* plain calls left it, whatever it reads.                                   *)

ExchangeWrites ==
    /\ tcpCall.step = "write"
    /\ nextId' = nextId + 2
    /\ conn' = [conn EXCEPT !.owed = @ \cup {nextId}]
    /\ tcpCall' = [step |-> "exchange", id |-> nextId, sent |-> {nextId}, due |-> {nextId}]
    /\ UNCHANGED <<session, staged, shared, tokenFile, bound, pre, timeouts, silent>>

\* It is cancelled before its answer: the abort goes out under the id kept for it.
ExchangeStops ==
    /\ tcpCall.step = "exchange" /\ tcpCall.sent = {tcpCall.id}
    /\ conn' = [conn EXCEPT !.owed = @ \cup {tcpCall.id + 1}]
    /\ tcpCall' = [tcpCall EXCEPT !.sent = @ \cup {tcpCall.id + 1}, !.due = @ \cup {tcpCall.id + 1}]
    /\ UNCHANGED <<session, staged, shared, tokenFile, bound, pre, nextId, timeouts, silent>>

\* A line that is no response, a second answer, and an acknowledgement that is none
\* end the connection; an answer of an earlier call is skipped.
ExchangeReads ==
    /\ tcpCall.step = "exchange" /\ conn.inbox # <<>>
    /\ LET line == Head(conn.inbox)
           rest == [conn EXCEPT !.inbox = Tail(@)]
           left == tcpCall.due \ {line.id}
           again == line.id \in tcpCall.sent \ tcpCall.due
           broken == line.kind = "working" /\ line.id # tcpCall.id /\ line.id \in tcpCall.sent
       IN  CASE line.kind = "garbage" \/ again \/ broken ->
                   conn' = NoConn /\ tcpCall' = Idle /\ silent' = 0
             [] line.kind = "answer" /\ left = {} /\ line.id \in tcpCall.due ->
                   conn' = rest /\ tcpCall' = Idle /\ UNCHANGED silent
             [] line.kind = "answer" /\ line.id \in tcpCall.due ->
                   conn' = rest /\ tcpCall' = [tcpCall EXCEPT !.due = left] /\ UNCHANGED silent
             [] OTHER -> conn' = rest /\ UNCHANGED <<tcpCall, silent>>
    /\ UNCHANGED <<session, staged, shared, tokenFile, bound, pre, nextId, timeouts>>

\* Refused or cancelled before it is sent, a write that fails, the deadline, a
\* connection that is closed: any error of the exchange ends the connection.
ExchangeFails ==
    /\ tcpCall.step \in {"write", "exchange"}
    /\ nextId' = IF tcpCall.step = "write" THEN nextId + 2 ELSE nextId
    /\ conn' = NoConn /\ silent' = 0 /\ tcpCall' = Idle
    /\ UNCHANGED <<session, staged, shared, tokenFile, bound, pre, timeouts>>

-----------------------------------------------------------------------------
Quiet == tcpCall = Idle

\* Stage, abort and replace drop the connection, share the new token and replace
\* the supervisor, so that no handshake of the old token is left.
Rearm == pre' = IF bound THEN FreshPre ELSE NoPre

\* Mutant: staging keeps the connection of the token before.
StageTokenKeeps(t) ==
    /\ Quiet /\ t # OwnToken /\ staged \in {NoToken, t}
    /\ staged' = t /\ shared' = t /\ Rearm
    /\ UNCHANGED <<session, tokenFile, bound, conn, tcpCall, nextId, timeouts, silent>>

StageToken(t) ==
    /\ Quiet /\ t # OwnToken /\ staged \in {NoToken, t}
    /\ staged' = t /\ shared' = t /\ conn' = NoConn /\ silent' = 0 /\ Rearm
    /\ UNCHANGED <<session, tokenFile, bound, tcpCall, nextId, timeouts>>

\* Committed before its token file is written; a failed write changes nothing.
CommitToken(t) ==
    /\ Quiet /\ staged = t /\ t # NoToken
    /\ tokenFile' = IF bound THEN t ELSE tokenFile
    /\ session' = t /\ staged' = NoToken /\ shared' = t
    /\ UNCHANGED <<bound, conn, pre, tcpCall, nextId, timeouts, silent>>

AbortToken(t) ==
    /\ Quiet /\ staged = t /\ t # NoToken
    /\ staged' = NoToken /\ shared' = session /\ conn' = NoConn /\ silent' = 0 /\ Rearm
    /\ UNCHANGED <<session, tokenFile, bound, tcpCall, nextId, timeouts>>

ReplaceToken(t) ==
    /\ Quiet
    /\ conn' = NoConn /\ silent' = 0
    /\ \/ /\ session' = t /\ staged' = NoToken /\ shared' = t /\ Rearm
          /\ tokenFile' = IF bound THEN t ELSE tokenFile
       \/ bound /\ UNCHANGED <<session, staged, shared, pre, tokenFile>>   \* the file cannot be written
    /\ UNCHANGED <<bound, tcpCall, nextId, timeouts>>

\* A returned generation is taken back: its token is published under its lease, and
\* the connection stays only if it already is of that token and of the same port.
Reattach(t, moved) ==
    /\ Quiet /\ t # OwnToken
    /\ tokenFile' = t /\ bound' = TRUE
    /\ conn' = IF Expected # t \/ moved THEN NoConn ELSE conn
    /\ silent' = IF Expected # t \/ moved THEN 0 ELSE silent
    /\ session' = t /\ staged' = NoToken /\ shared' = t /\ pre' = FreshPre
    /\ UNCHANGED <<tcpCall, nextId, timeouts>>

-----------------------------------------------------------------------------
EmulatorSends ==
    /\ Connected /\ conn.open /\ Len(conn.inbox) < MaxInbox
    /\ \E id \in conn.owed, kind \in {"answer", "working", "garbage"} :
          conn' = [conn EXCEPT !.inbox = Append(@, [id |-> id, kind |-> kind]),
                               !.owed = IF kind = "answer" THEN @ \ {id} ELSE @]
    /\ UNCHANGED <<session, staged, shared, tokenFile, bound, pre, tcpCall, nextId, timeouts, silent>>

EmulatorLeaves ==
    /\ Connected /\ conn.open
    /\ conn' = [conn EXCEPT !.open = FALSE]
    /\ UNCHANGED <<session, staged, shared, tokenFile, bound, pre, tcpCall, nextId, timeouts, silent>>

TcpNext ==
    \/ \E t \in Tokens : SupervisorAccepts(t)
    \/ \E w \in [held : Tokens, token : Tokens] : WorkerEnds(w)
    \/ HandshakeFails \/ AcceptFails
    \/ CallConnected \/ CallUnconnected \/ CallBinds \/ CallArms \/ CallWaits \/ CallWrites
    \/ CallReads \/ CallAborts \/ CallTimesOut \/ CallExpires \/ CallEof
    \/ ExchangeWrites \/ ExchangeStops \/ ExchangeReads \/ ExchangeFails
    \/ \E t \in Tokens : StageToken(t) \/ CommitToken(t) \/ AbortToken(t) \/ ReplaceToken(t)
    \/ \E t \in Tokens, moved \in BOOLEAN : Reattach(t, moved)
    \/ EmulatorSends \/ EmulatorLeaves

TcpSpec == TcpInit /\ [][TcpNext]_tcpVars

-----------------------------------------------------------------------------
\* The link never talks to an emulator of a token other than the expected one,
\* although handshakes end in the background while the token is staged, aborted,
\* replaced or taken back.
ConnectionIsExpected == Connected => conn.token = Expected

\* The count that gives a connection up belongs to that connection: plain calls in
\* a row that got no line, none of them of a connection before.  What a temporal
\* exchange hears in between does not break the row.
SilenceIsCounted == Connected => timeouts = silent /\ silent < MaxSilent

\* What is still owed or unread on a connection when a request is to be written are
\* answers of requests before it: next_id goes on over calls, aborts, exchanges and
\* connections, so no late answer is taken for the new call's.
NoAnswerBeforeRequest ==
    tcpCall.step = "write" =>
        /\ conn.owed \cap {nextId, nextId + 1} = {}
        /\ \A i \in DOMAIN conn.inbox : conn.inbox[i].id \notin {nextId, nextId + 1}

\* A TcpLink adopts only a connection that proved the token it expects now, gives
\* it up for silence only after a run of silent plain calls of that connection, and
\* takes no late answer for a later one (finish_preaccept, raw_call_bounded,
\* raw_call_inner).
LinkSound == ConnectionIsExpected /\ SilenceIsCounted /\ NoAnswerBeforeRequest
==============================================================================
