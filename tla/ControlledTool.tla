-------------------------- MODULE ControlledTool ---------------------------
(***************************************************************************)
(* A cancellable tool of the host, step or tap                             *)
(* (src/live/tools/cancellable.rs), the temporal exchange that carries its *)
(* requests (src/live/temporal/wire.rs) over a link that the host retires  *)
(* by itself (tcp/call.rs, broker_link.rs), the durable record of the      *)
(* operation (continuity.rs), and the bridge that serves it (OwnedBridge). *)
(*                                                                         *)
(* The bridge is attached directly; a broker between the two forwards the  *)
(* same lines and turns a closed link into a detach (see Broker).          *)
(* Deadlines are not counted: an exchange may fail at any time.            *)
(***************************************************************************)
EXTENDS OwnedBridge, Sequences

CONSTANTS
    Kinds   \* the kinds of link that the host may have

ASSUME KindsAssumption == Kinds \subseteq {"TcpLink", "LazyBrokerLink"}

VARIABLES
    pc,       \* the tool: "idle", or the call it is about to make
    tool,     \* "tap" or "step"
    parent,   \* its operation
    target,   \* the port a tap presses
    cancel,   \* the tool's RequestCancellation
    outcome,  \* the tool's result so far: "ok", "interrupted", "error"
    scope,    \* what the tool owes: effects_started, stop_verified,
              \*     input_issued, input_ports
    record,   \* the durable record: "none", "active", "unverified"
    kind,     \* the kind of its link
    link,     \* the host's end of the connection: "up", "down"
    next_id,  \* the id of the next request; an abort has the id after it
    wire,     \* the exchange: "none", "entered", "sent"
    call,     \* its request: id, what it asks, and whether it is a cleanup,
              \*     which the tool's cancellation does not stop
    abort,    \* the abort of the exchange: "none", "sent", "acknowledged"
    answer,   \* the responses to the request that were read
    result,   \* how the last exchange ended: "ok", "rejected", "cancelled",
              \*     "unverified", or "refused" before it began
    up, down, \* lines on their way to the bridge and to the host
    doing,    \* the bridge: the line that is being worked on,
    reply     \*     and what will be answered to it

host == <<pc, tool, parent, target, cancel, outcome, scope, record>>
exchange == <<kind, link, next_id, wire, call, abort, answer, result>>
lines == <<up, down>>
served == <<doing, reply>>

toolvars == <<vars, host, exchange, lines, served>>

-----------------------------------------------------------------------------
(* The tool.                                                                *)

Owes(effects, stop, input, ports) ==
    [effects_started |-> effects, stop_verified |-> stop,
     input_issued |-> input, input_ports |-> ports]

NothingOwed == Owes(FALSE, FALSE, FALSE, {})

\* ControlledTool::admit, up to the exchange: the operation is on record before
\* the producer hears of it, and only if no other one is.
StartTool ==
    /\ pc = "idle"
    /\ link = "up"
    /\ record = "none"
    /\ operation < MaxOperations
    /\ tool' \in {"tap", "step"}
    /\ target' \in Ports
    /\ parent' = operation + 1
    /\ pc' = "begin"
    /\ cancel' = FALSE
    /\ outcome' = "ok"
    /\ scope' = NothingOwed
    /\ record' = "active"
    /\ UNCHANGED <<vars, exchange, lines, served>>

\* The client cancels the tool's request.
Cancel ==
    /\ pc # "idle"
    /\ ~cancel
    /\ cancel' = TRUE
    /\ UNCHANGED <<vars, pc, tool, parent, target, outcome, scope, record, exchange,
                   lines, served>>

\* The request of each call: an advance that finds the tool cancelled only
\* looks where the emulator is.
Asks ==
    CASE pc \in {"pause", "freeze"} -> "pause"
      [] pc \in {"advance", "after"} -> IF cancel THEN "status" ELSE "step"
      [] OTHER -> pc

\* What a call makes the tool owe, before its outcome is known.
Owing(what) ==
    CASE what \in {"pause", "step"} ->
            [scope EXCEPT !.effects_started = TRUE, !.stop_verified = FALSE]
      [] what = "press" ->
            [scope EXCEPT !.effects_started = TRUE, !.input_issued = TRUE,
                          !.input_ports = @ \cup {target}]
      [] what = "release" -> [scope EXCEPT !.input_ports = @ \cup {target}]
      [] OTHER -> scope

\* Mutant: a release is taken for done whatever the producer answers.
SettledAnyway(what, r) ==
    CASE what \in {"pause", "step", "status"} /\ r.ok /\ r.frozen ->
            [scope EXCEPT !.stop_verified = TRUE]
      [] what = "release" -> [scope EXCEPT !.input_issued = FALSE]
      [] OTHER -> scope

\* What an answer settles.
Settled(what, r) ==
    CASE what \in {"pause", "step", "status"} /\ r.ok /\ r.frozen ->
            [scope EXCEPT !.stop_verified = TRUE]
      [] what = "release" /\ r.ok -> [scope EXCEPT !.input_issued = FALSE]
      [] OTHER -> scope

\* step_with_cancellation: a step that was sent and failed is followed by a
\* pause.
AfterInStep(e) ==
    IF pc = "advance" /\ e = "error" /\ call.what = "step" THEN {"freeze"} ELSE {"finish"}

\* Mutant: a release that fails is tried again.
AfterInTapRetry(e) ==
    LET failed == e \in {"error", "cancelled"} IN
    CASE pc = "pause" -> IF failed THEN {"finish"} ELSE {"press"}
      [] pc = "press" -> IF failed THEN {"release"} ELSE {"advance"}
      [] pc = "advance" -> {"release"}
      [] pc = "release" -> IF failed THEN {"release"} ELSE {"after", "finish"}
      [] OTHER -> {"finish"}

\* tap_axes_in_unit, or tap_buttons with one_tap: a press is released whatever
\* became of it and of its advance; then an error is followed by a pause and an
\* interruption by nothing (finish_transient_input, finish_frozen).  (The
\* validation of a scoped input, which changes nothing, is left out.)
AfterInTap(e) ==
    LET failed == e \in {"error", "cancelled"} IN
    CASE pc = "pause" -> IF failed THEN {"finish"} ELSE {"press"}
      [] pc = "press" -> IF failed THEN {"release"} ELSE {"advance"}
      [] pc = "advance" -> {"release"}
      [] pc = "release" -> IF failed \/ outcome = "error" THEN {"freeze"}
                           ELSE IF outcome = "interrupted" THEN {"finish"}
                           ELSE {"after", "finish"}
      [] pc = "after" -> IF failed THEN {"freeze"} ELSE {"finish"}
      [] pc = "freeze" -> {"finish"}

\* The calls that may follow one that ended with e: "ok", "interrupted",
\* "error" or "cancelled".
Following(e) ==
    CASE pc = "begin" -> IF e # "ok" THEN {"idle"}
                         ELSE IF tool = "tap" THEN {"pause"} ELSE {"advance"}
      [] pc = "finish" -> {"idle"}
      [] OTHER -> IF tool = "tap" THEN AfterInTap(e) ELSE AfterInStep(e)

\* Mutant: what the tool knows by itself is evidence enough.
ClearedByTool(e, r, s) ==
    (s.effects_started => s.stop_verified) /\ ~s.input_issued

\* ControlledTool::finish: the operation is taken off the record only if the
\* tool owes nothing and the producer has closed it over the same ports.
Cleared(e, r, s) ==
    /\ e = "ok"
    /\ r.ports = s.input_ports
    /\ s.effects_started => r.effects
    /\ s.effects_started => s.stop_verified
    /\ ~s.input_issued

\* The call ends with e and the answer r, and leaves the tool owing s.
EndCall(e, r, s) ==
    /\ pc' \in Following(e)
    /\ outcome' = IF e \in {"error", "cancelled"} THEN "error"
                  ELSE IF e = "interrupted" /\ outcome = "ok" THEN e ELSE outcome
    /\ scope' = s
    /\ record' = CASE pc = "begin" /\ e # "ok" -> "unverified"
                    [] pc = "finish" -> IF Cleared(e, r, s) THEN "none" ELSE "unverified"
                    [] OTHER -> record
    /\ UNCHANGED <<tool, parent, target, cancel>>

NoAnswer == [ok |-> FALSE, interrupted |-> FALSE, frozen |-> FALSE, ports |-> {},
             effects |-> FALSE]

\* A call that ends before its request is made: the release of an input that
\* was never issued, a press or an admission that finds the tool cancelled, a
\* call that finds the link down.
AtRest == pc # "idle" /\ wire = "none"

NothingToRelease ==
    /\ AtRest
    /\ pc = "release"
    /\ ~scope.input_issued
    /\ EndCall("ok", NoAnswer, scope)
    /\ UNCHANGED <<vars, exchange, lines, served>>

CancelledBefore ==
    /\ AtRest
    /\ pc \in {"begin", "press"}
    /\ cancel
    /\ link = "up"
    /\ EndCall("cancelled", NoAnswer, scope)
    /\ UNCHANGED <<vars, exchange, lines, served>>

NotConnected ==
    /\ AtRest
    /\ pc = "release" => scope.input_issued
    /\ link = "down"
    /\ EndCall("error", NoAnswer,
               IF pc \in {"pause", "freeze"} THEN Owing("pause") ELSE scope)
    /\ UNCHANGED <<vars, exchange, lines, served>>

-----------------------------------------------------------------------------
(* The exchange.                                                            *)

\* The tool has decided on its request; the link checks the cancellation again.
EnterCall ==
    /\ AtRest
    /\ link = "up"
    /\ pc = "release" => scope.input_issued
    /\ pc \in {"begin", "press"} => ~cancel
    /\ wire' = "entered"
    /\ call' = [id |-> next_id, what |-> Asks,
                cleanup |-> pc \in {"release", "finish"} \/ cancel]
    /\ UNCHANGED <<vars, host, kind, link, next_id, abort, answer, result, lines, served>>

\* The identity by which the producer knows what an abort is for: a step has
\* one of its own, every other request that of the parent (0).
Control(c) == IF c.what = "step" THEN c.id ELSE 0

Line(id, what) ==
    [id |-> id, what |-> what, control |-> Control(call), owner |-> parent,
     port |-> IF what \in {"press", "release"} THEN target ELSE 0]

Cancelled == cancel /\ ~call.cleanup

Dispatch ==
    /\ wire = "entered"
    /\ ~Cancelled
    /\ wire' = "sent"
    /\ up' = Append(up, Line(call.id, call.what))
    /\ next_id' = next_id + 2
    /\ abort' = "none"
    /\ answer' = <<>>
    /\ scope' = Owing(call.what)
    /\ UNCHANGED <<vars, pc, tool, parent, target, cancel, outcome, record, kind, link,
                   call, result, down, served>>

\* call_with_progress of the observed link: a request that needs the lease is
\* refused before the link is touched (ensure_mutation_lease), so that it stays
\* up.  Only a read goes without.
LeaseRefused ==
    /\ wire = "entered"
    /\ call.what # "status"
    /\ wire' = "none"
    /\ result' = "refused"
    /\ EndCall("error", NoAnswer, Owing(call.what))
    /\ UNCHANGED <<vars, kind, link, next_id, call, abort, answer, lines, served>>

\* A cancellation before the dispatch.  If call_with_progress sees it, the link
\* is kept; if only exchange_inner does, the caller drops the connection.
CancelledAtDispatch ==
    /\ wire = "entered"
    /\ Cancelled
    /\ wire' = "none"
    /\ result' = "cancelled"
    /\ link' \in {"up", "down"}
    /\ EndCall("cancelled", NoAnswer, scope)
    /\ UNCHANGED <<vars, kind, next_id, call, abort, answer, lines, served>>

\* A cancellation sends one abort, unless the response is there already.
SendAbort ==
    /\ wire = "sent"
    /\ Cancelled
    /\ abort = "none"
    /\ answer = <<>>
    /\ abort' = "sent"
    /\ up' = Append(up, Line(call.id + 1, "cancel"))
    /\ UNCHANGED <<vars, host, kind, link, next_id, wire, call, answer, result, down, served>>

\* A line is read: the acknowledgement of the abort, the response, or neither.
Receive ==
    LET r == Head(down) IN
    /\ wire = "sent"
    /\ down # <<>>
    /\ answer = <<>> \/ abort = "sent"
    /\ down' = Tail(down)
    /\ abort' = IF r.id = call.id + 1 /\ abort = "sent" THEN "acknowledged" ELSE abort
    /\ answer' = IF r.id = call.id THEN Append(answer, r.answer) ELSE answer
    /\ UNCHANGED <<vars, host, kind, link, next_id, wire, call, result, up, served>>

\* Mutant: the response is enough, the acknowledgement of the abort is left.
DrainedByAnswer == wire = "sent" /\ answer # <<>>

\* Both the response and, if an abort was sent, its acknowledgement were read.
Drained == wire = "sent" /\ answer # <<>> /\ abort # "sent"

\* The exchange returns the producer's response, which may be a rejection; a
\* LazyBrokerLink drops the link on any error.
Return ==
    LET r == Head(answer)
        e == IF ~r.ok THEN "error"
             ELSE IF call.what = "status" THEN IF r.frozen THEN "interrupted" ELSE "error"
             ELSE IF r.interrupted THEN "interrupted" ELSE "ok" IN
    /\ Drained
    /\ wire' = "none"
    /\ result' = IF r.ok THEN "ok" ELSE "rejected"
    /\ link' = IF kind = "LazyBrokerLink" /\ ~r.ok THEN "down" ELSE "up"
    /\ EndCall(e, r, Settled(call.what, r))
    /\ UNCHANGED <<vars, kind, next_id, call, abort, answer, lines, served>>

\* Mutant: an exchange that failed leaves the link as it is.
ExchangeFailsOnly ==
    /\ wire \in {"entered", "sent"}
    /\ wire' = "none"
    /\ result' = "unverified"
    /\ EndCall("error", NoAnswer, Owing(call.what))
    /\ UNCHANGED <<vars, kind, link, next_id, call, abort, answer, lines, served>>

\* A deadline, before the dispatch (check_temporal_deadline, exchange_inner) or
\* after, an end of file or a failed write: the connection is dropped and nothing is known of the request.
ExchangeFails ==
    /\ wire \in {"entered", "sent"}
    /\ wire' = "none"
    /\ result' = "unverified"
    /\ link' = "down"
    /\ EndCall("error", NoAnswer, Owing(call.what))
    /\ UNCHANGED <<vars, kind, next_id, call, abort, answer, lines, served>>

\* Between two tools another request finds that the bridge has gone.
LinkLost ==
    /\ pc = "idle"
    /\ link = "up"
    /\ conn \in {"down", "exited"}
    /\ link' = "down"
    /\ UNCHANGED <<vars, host, kind, next_id, wire, call, abort, answer, result, lines, served>>

-----------------------------------------------------------------------------
(* The bridge, with the lines it reads and writes.                          *)

\* The connection of the bridge is admitted when no tool is running.
BridgeConnects ==
    /\ link = "down"
    /\ pc = "idle"
    /\ Connect
    /\ link' = IF conn' = "idle" THEN "up" ELSE "down"
    /\ up' = <<>> /\ down' = <<>>
    /\ UNCHANGED <<host, kind, next_id, wire, call, abort, answer, result, served>>

\* The end of file is read, possibly before lines that were sent ahead of it.
BridgeDisconnects ==
    /\ link = "down"
    /\ Disconnect
    /\ UNCHANGED <<host, exchange, lines, served>>

BridgeLosesTransport ==
    /\ link = "down"
    /\ LoseTransport
    /\ UNCHANGED <<host, exchange, lines, served>>

BridgeEnds ==
    /\ DependencyEnds
    /\ UNCHANGED <<host, exchange, lines, served>>

BridgeCloses ==
    /\ Close
    /\ up' = <<>>
    /\ UNCHANGED <<host, exchange, down, served>>

\* The requests as the bridge's dispatcher tells them apart.
MethodOf(what) ==
    CASE what \in {"begin", "finish"} -> what
      [] what = "status" -> "observe"
      [] OTHER -> "effect"

BridgeAccepts ==
    LET line == Head(up) IN
    /\ up # <<>>
    /\ line.what # "cancel"
    /\ AcceptRequest
    /\ method' = MethodOf(line.what)
    /\ key' = line.owner
    /\ port' = line.port
    /\ up' = Tail(up)
    /\ doing' = line
    /\ UNCHANGED <<host, exchange, down, reply>>

\* cancel_operation: an abort for the request in progress cancels its worker,
\* any other one finds nothing active.  Both are acknowledged.
BridgeCancels ==
    /\ up # <<>>
    /\ Head(up).what = "cancel"
    /\ IF conn = "idle" \/ Head(up).control # doing.control
       THEN (conn = "idle" \/ Listening) /\ UNCHANGED vars
       ELSE ReadCancel
    /\ up' = Tail(up)
    /\ down' = Append(down, [id |-> Head(up).id, answer |-> NoAnswer])
    /\ UNCHANGED <<host, exchange, served>>

Replies(ok, interrupted, frozen) ==
    reply' = [ok |-> ok, interrupted |-> interrupted, frozen |-> frozen,
              ports |-> input_ports, effects |-> effects_started]

BridgeBegins ==
    /\ WorkBegin
    /\ Replies(parent_key' = key, FALSE, FALSE)
    /\ UNCHANGED <<host, exchange, lines, doing>>

BridgeFinishes ==
    /\ WorkFinish
    /\ Replies(key \in completed', FALSE, TRUE)
    /\ UNCHANGED <<host, exchange, lines, doing>>

BridgeCleans ==
    /\ WorkCleanup
    /\ Replies(~fatal', FALSE, TRUE)
    /\ UNCHANGED <<host, exchange, lines, doing>>

\* A request that is not admitted is rejected.
BridgeAdmits ==
    /\ WorkAdmit
    /\ Replies(FALSE, FALSE, FALSE)
    /\ UNCHANGED <<host, exchange, lines, doing>>

\* What the native call of each request may do, and when it may be reported as
\* done: a pause and a step answer only with evidence that the emulator has
\* stopped, a step also when it was interrupted before its end.
BridgeActs ==
    /\ WorkNative
    /\ doing.what = "press" => held \subseteq held'
    /\ doing.what = "release" => held' \subseteq held
    /\ doing.what = "pause" => (advancing' => advancing)
    /\ \E ok \in BOOLEAN, interrupted \in BOOLEAN, frozen \in BOOLEAN :
        /\ ok => CASE doing.what = "press" -> port \in held'
                   [] doing.what = "release" -> port \notin held'
                   [] doing.what \in {"pause", "step"} -> frozen
                   [] OTHER -> TRUE
        /\ frozen => ok /\ ~advancing' /\ port = 0
        /\ interrupted => ok /\ doing.what = "step"
        /\ Replies(ok, interrupted, frozen)
    /\ UNCHANGED <<host, exchange, lines, doing>>

BridgeReplies ==
    /\ Complete
    /\ down' = IF transport_error \/ link = "down" THEN down
               ELSE Append(down, [id |-> doing.id, answer |-> reply])
    /\ UNCHANGED <<host, exchange, up, served>>

-----------------------------------------------------------------------------
NoCall == [id |-> 0, what |-> "status", cleanup |-> FALSE]

ToolInit ==
    /\ Init
    /\ pc = "idle" /\ tool = "step" /\ parent = 0 /\ target \in Ports
    /\ cancel = FALSE /\ outcome = "ok" /\ scope = NothingOwed /\ record = "none"
    /\ kind \in Kinds /\ link = "down" /\ next_id = 1
    /\ wire = "none" /\ call = NoCall /\ abort = "none" /\ answer = <<>>
    /\ result = "ok"
    /\ up = <<>> /\ down = <<>>
    /\ doing = [id |-> 0, what |-> "status", control |-> 0, owner |-> 0, port |-> 0]
    /\ reply = NoAnswer

HostWork ==
    \/ NothingToRelease \/ CancelledBefore \/ NotConnected
    \/ EnterCall \/ Dispatch \/ LeaseRefused \/ CancelledAtDispatch
    \/ SendAbort \/ Receive \/ Return \/ ExchangeFails

BridgeWork ==
    \/ BridgeAccepts \/ BridgeCancels
    \/ BridgeBegins \/ BridgeFinishes \/ BridgeCleans \/ BridgeAdmits \/ BridgeActs
    \/ BridgeReplies \/ BridgeDisconnects \/ BridgeCloses

ToolNext ==
    \/ StartTool \/ Cancel \/ LinkLost \/ HostWork
    \/ BridgeConnects \/ BridgeEnds \/ BridgeLosesTransport \/ BridgeWork

ToolSpec == ToolInit /\ [][ToolNext]_toolvars

\* The host's calls end at their deadlines, if nothing else ends them.  The
\* bridge's threads run; what they wait for, the emulator, has deadlines too.
FairToolSpec ==
    ToolSpec /\ WF_toolvars(HostWork) /\ WF_toolvars(BridgeWork)

-----------------------------------------------------------------------------
(* Properties.                                                              *)

\* Every variable of the tool has its type, and there is an exchange only while
\* a tool runs.
ToolTypeOK ==
    /\ pc \in {"idle", "begin", "pause", "press", "advance", "release", "after",
               "freeze", "finish"}
    /\ tool \in {"tap", "step"} /\ parent \in Nat /\ target \in Ports
    /\ cancel \in BOOLEAN /\ outcome \in {"ok", "interrupted", "error"}
    /\ scope \in [effects_started : BOOLEAN, stop_verified : BOOLEAN,
                  input_issued : BOOLEAN, input_ports : SUBSET Ports]
    /\ record \in {"none", "active", "unverified"}
    /\ (record = "active") = (pc # "idle")
    /\ kind \in Kinds /\ link \in {"up", "down"} /\ next_id \in Nat
    /\ wire \in {"none", "entered", "sent"}
    /\ wire # "none" => pc # "idle" /\ link = "up"
    /\ abort \in {"none", "sent", "acknowledged"}
    /\ Len(answer) <= 1

Clean == parent_key = 0 /\ held = {} /\ ~advancing

\* As long as no operation is on record, the emulator has no parent, and nothing
\* that a tool pressed or set running: what ControlledTool::finish lets go of
\* was cleaned up, whatever was cancelled, lost or rejected on the way.
NoRecordMeansClean == record = "none" => Clean

\* A link that outlives an exchange is in step: no line of it is left in either
\* direction, and the bridge is not working on it.  So no response or abort
\* meets a later request.
StreamInStep ==
    link = "up" /\ wire # "sent" => up = <<>> /\ down = <<>> /\ conn # "working"

\* Between its calls, as long as the link is up, a tool knows what it has done:
\* every port that is pressed is one it has issued and not released, the
\* emulator runs only if its stop is not verified, and all that the producer
\* would have to clean up is owed by the tool as well.
ToolKnows ==
    pc \notin {"idle", "begin"} /\ link = "up" /\ wire # "sent" =>
        /\ held # {} => scope.input_issued
        /\ advancing => scope.effects_started /\ ~scope.stop_verified
        /\ input_ports \subseteq scope.input_ports
        /\ effects_started => scope.effects_started

\* Both together: an operation is on record exactly while its tool runs, and the
\* tool's own account of it is complete (ControlledTool of tools/cancellable.rs).
ToolAccounts == ToolTypeOK /\ ToolKnows

\* The caller of an exchange retires the connection only when the exchange
\* itself is unverified (wire.rs, exchange).
RetiredOnlyUnverified ==
    [][link = "up" /\ link' = "down" /\ pc # "idle" => result' = "unverified"]_toolvars

\* A producer's rejection is a complete response; the tool's cleanup uses the
\* same attachment (temporal/wire/tests.rs, rejected_input_peer).
RejectionKeepsAttachment ==
    [][result' = "rejected" /\ result # result' => link' = link]_toolvars

\* A tool ends, whatever becomes of its link and its producer.
ToolEnds == pc # "idle" ~> pc = "idle"

\* The producer of a quarantined operation cleans up after it, or exits.  Not so
\* if its last call was refused the lease: the link is kept, with the operation
\* open, and only the end of the connection starts the producer's cleanup.
QuarantinedIsCleaned ==
    record = "unverified" /\ result # "refused" ~> Clean \/ conn = "exited"
=============================================================================
