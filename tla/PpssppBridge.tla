---------------------------- MODULE PpssppBridge ----------------------------
(* The PSP bridge (ppsspp_bridge*.rs) of a managed launch and the debugger of *)
(* PPSSPP behind one WebSocket.  Replies carry the ticket of their request;  *)
(* stops of the CPU are broadcast as bare events; a reply may come after the *)
(* bridge has given up on it.  Only whether a ticket belongs to the exchange *)
(* under way is ever compared, so an exchange that ends turns "this" to "old". *)
EXTENDS Naturals, Sequences, FiniteSets, SequencesExt

CONSTANTS Points,      \* breakpoint addresses
          MaxPending,  \* MAX_PENDING_EVENTS
          MaxHits,     \* bound: breakpoint hits of one behaviour
          MaxReqs      \* bound: requests of one behaviour

VARIABLES native,      \* PPSSPP: CPU, owner of a pending stop, frame operation, timed press, points
          wire,        \* requests on their way to PPSSPP, messages on their way to the bridge
          bridge,      \* the PpssppBridge and its transport
          req          \* the request being served

pspVars == <<native, wire, bridge, req>>

Idle(answer) == [m |-> "idle", todo |-> <<>>, answer |-> answer, arg |-> "none", waits |-> "none", st |-> "none",
                 was |-> "none", asked |-> FALSE, cancel |-> "none", terminal |-> "none"]

\* A managed launch: owned control is enabled, the machine runs.
PspInit ==
  /\ native = [cpu |-> "run", own |-> "none", ticket |-> "none", frame |-> "none", fticket |-> "none",
               press |-> "none", keys |-> FALSE, points |-> {}, hits |-> 0]
  /\ wire = [in |-> <<>>, out |-> <<>>, eof |-> FALSE]
  /\ bridge = [pending |-> 0, stops |-> 0, events |-> 0, told |-> 0, terminal |-> FALSE, unverified |-> FALSE,
               bps |-> <<>>, held |-> FALSE, parent |-> "none", effects |-> FALSE, port |-> FALSE, lost |-> FALSE, reqs |-> 0]
  /\ req = Idle("none")

-----------------------------------------------------------------------------
(* PPSSPP, as the bridge uses it *)

Message(event, ticket, data) == [event |-> event, ticket |-> ticket, data |-> data]
Out(m) == wire' = [wire EXCEPT !.out = Append(@, m)]
\* Every stop of the CPU is broadcast; a breakpoint's says so.
StopEvent(reason) == Message("cpu.stepping", "bare", reason)
Busy == native.own # "none" \/ native.frame # "none"

Hit ==
  /\ native.cpu = "run" /\ native.hits < MaxHits /\ native.points # {}
  /\ native' = [native EXCEPT !.cpu = "stop", !.hits = @ + 1] /\ Out(StopEvent("hit"))
\* An owned pause breaks the CPU; its receipt is published once the CPU is parked.
OwnedBreak ==
  /\ native.own # "none" /\ native.cpu = "run"
  /\ native' = [native EXCEPT !.cpu = "stop"] /\ Out(StopEvent("step"))
Receipt ==
  /\ native.own # "none" /\ native.cpu = "stop"
  /\ native' = [native EXCEPT !.own = "none", !.ticket = "none"]
  /\ Out(Message("cpu.stepping", native.ticket, "ok"))
\* The frame operation reaches its VBlank, or is asked to stop; its terminal follows the stop.
FrameEnds ==
  /\ native.frame \in {"going", "stopping"} /\ native.cpu = "run"
  /\ native' = [native EXCEPT !.cpu = "stop"] /\ Out(StopEvent("frame"))
FrameTerminal ==
  /\ native.frame \in {"going", "stopping"} /\ native.cpu = "stop"
  /\ native' = [native EXCEPT !.frame = "none", !.fticket = "none"]
  /\ Out(Message("emucap.frameStep", native.fticket, IF native.frame = "going" THEN "completed" ELSE "interrupted"))
\* Frames pass only while the CPU runs; then the timed press releases its button and acknowledges.
PressEnds ==
  /\ native.press # "none" /\ native.cpu = "run"
  /\ native' = [native EXCEPT !.press = "none", !.keys = FALSE]
  /\ Out(Message("input.buttons.press", native.press, "ok"))

\* Requests are handled one after the other; operations that move the CPU answer later.
Handle ==
  LET q == Head(wire.in) rest == Tail(wire.in)
      Reply(data) == wire' = [wire EXCEPT !.in = rest, !.out = Append(@, Message(q.event, q.ticket, data))]
      Fails == wire' = [wire EXCEPT !.in = rest, !.out = Append(@, Message("error", q.ticket, "error"))]
      Later == wire' = [wire EXCEPT !.in = rest]
  IN
  /\ wire.in # <<>> /\ ~wire.eof
  /\ \/ q.event \in {"cpu.status", "emucap.frameStep.capability"} /\ Reply(native.cpu) /\ UNCHANGED native
     \/ /\ q.event \in {"cpu.stepping", "cpu.stepInto"}
        /\ IF Busy THEN Fails /\ UNCHANGED native
           ELSE Later /\ native' = [native EXCEPT !.own = q.event, !.ticket = q.ticket]
     \/ /\ q.event = "cpu.resume"
        /\ IF Busy \/ native.cpu = "run" THEN Fails /\ UNCHANGED native
           ELSE Reply("ok") /\ native' = [native EXCEPT !.cpu = "run"]
     \/ /\ q.event = "emucap.frameStep"
        /\ IF Busy \/ native.cpu = "run" THEN Fails /\ UNCHANGED native
           ELSE Later /\ native' = [native EXCEPT !.frame = "going", !.fticket = q.ticket, !.cpu = "run"]
     \/ /\ q.event = "emucap.frameStep.cancel"
        /\ IF native.frame = "none" THEN Fails /\ UNCHANGED native
           ELSE Reply("requested") /\ native' = [native EXCEPT !.frame = "stopping"]
     \/ /\ q.event = "input.buttons.press"
        /\ Later /\ native' = [native EXCEPT !.press = q.ticket, !.keys = TRUE]
     \/ q.event = "input.buttons.send" /\ Reply("ok") /\ native' = [native EXCEPT !.keys = q.data = "held"]
     \/ q.event = "savestate.load" /\ (Fails \/ Reply("frozen")) /\ native' = [native EXCEPT !.cpu = "stop"]
     \/ /\ q.event = "game.reset" /\ Reply("ok")              \* headless halts at the entry; a window reboots running
        /\ \E c \in {"run", "stop"} : native' = [native EXCEPT !.cpu = IF Busy THEN @ ELSE c]
     \/ q.event = "breakpoint.add" /\ Reply("ok") /\ native' = [native EXCEPT !.points = @ \cup {q.data}]
     \/ q.event = "breakpoint.remove" /\ Reply("ok") /\ native' = [native EXCEPT !.points = @ \ {q.data}]
     \/ q.event \in {"read", "emucap.pacing", "emucap.memoryBatch"} /\ (Fails \/ Reply("ok")) /\ UNCHANGED native
\* The connection is gone: its frame operation is stopped and given up.
NativeEof ==
  /\ wire.eof /\ native.frame # "none"
  /\ native' = [native EXCEPT !.frame = "none", !.fticket = "none", !.cpu = "stop"] /\ UNCHANGED wire

Emulate == Hit \/ OwnedBreak \/ Receipt \/ FrameEnds \/ FrameTerminal \/ PressEnds \/ Handle \/ NativeEof

-----------------------------------------------------------------------------
(* Scripts: calls by the event they send, and decisions on what they returned *)

VerifyOwnedHalt == <<"emucap.frameStep.capability", "halted?">>
Pause == VerifyOwnedHalt
Resume == <<"cpu.status", "resume if stopped">>
StepFrames == <<"cpu.status", "halt if running", "emucap.frameStep.capability", "emucap.frameStep">>
StepInstructions == <<"cpu.status", "halt if running", "cpu.stepInto", "read">>
LoadState == <<"savestate.load", "frozen!">>
Probe == Pause \o LoadState \o StepFrames \o <<"read">>
FindPattern == <<"cpu.status", "was?", "halt if running", "read", "as it was">>
SetInput == <<"input.buttons.send">>
PressButtons == <<"cpu.status", "running!", "input.buttons.press">>
SaveState == <<"read">>
Reset == <<"game.reset", "cpu.status">>
Status == <<"cpu.status">>
CallStack == <<"cpu.status", "stopped!", "read">>
ReadMemoryBatch == <<"cpu.status", "stopped!", "emucap.memoryBatch">>
ExecutionSpeed == <<"read", "emucap.pacing", "cpu.status">>
ReadMemory == <<"read">>
SetBreakpoint == <<"breakpoint.add", "added">>
ClearBreakpoint == <<"remove if last", "removed">>
PollEvents == <<"drain", "read">>
CleanParent == VerifyOwnedHalt \o <<"release ports", "close">>

Script(m) ==
  CASE m = "pause" -> Pause [] m = "resume" -> Resume [] m = "step" -> StepFrames [] m = "step_instructions" -> StepInstructions
    [] m = "load" -> LoadState [] m = "probe" -> Probe [] m = "find_pattern" -> FindPattern [] m = "set_input" -> SetInput
    [] m = "press" -> PressButtons [] m = "save" -> SaveState [] m = "reset" -> Reset [] m = "status" -> Status
    [] m = "call_stack" -> CallStack [] m = "batch" -> ReadMemoryBatch [] m = "speed" -> ExecutionSpeed
    [] m = "read" -> ReadMemory [] m = "set_breakpoint" -> SetBreakpoint [] m = "clear_breakpoint" -> ClearBreakpoint
    [] m = "poll" -> PollEvents
ParentMethods == {"set_input", "pause", "step"}
Reads == {"status", "call_stack", "batch", "read", "poll", "save"}
Methods == ParentMethods \cup Reads \cup {"resume", "step_instructions", "load", "probe", "find_pattern", "press",
             "reset", "speed", "set_breakpoint", "clear_breakpoint"}
Calls == {"emucap.frameStep.capability", "cpu.status", "cpu.stepping", "cpu.stepInto", "cpu.resume", "savestate.load",
          "game.reset", "input.buttons.send", "input.buttons.press", "read", "emucap.pacing", "emucap.memoryBatch",
          "breakpoint.add", "breakpoint.remove"}

-----------------------------------------------------------------------------
(* The bridge *)

Current == Head(req.todo)
Do(c) == req.todo # <<>> /\ Current = c /\ req.waits = "none"
Advance == req' = [req EXCEPT !.todo = Tail(@)]
Answer(a) == req' = Idle(a)
BackendTerminal == bridge.terminal \/ bridge.unverified
Spent(msgs) == [i \in DOMAIN msgs |-> [msgs[i] EXCEPT !.ticket = IF @ = "bare" THEN @ ELSE "old"]]
\* The exchange under way ends: what is still to come of it carries an old ticket.
EndExchange(w) == [w EXCEPT !.in = Spent(@), !.out = Spent(@)]
Old(n) == [n EXCEPT !.ticket = IF @ = "none" THEN @ ELSE "old", !.press = IF @ = "none" THEN @ ELSE "old",
                    !.fticket = IF @ = "none" THEN @ ELSE "old"]

\* handle_request, handle_parent_request, authorize_unscoped.
Begin(m, p) ==
  /\ req.m = "idle" /\ ~BackendTerminal /\ bridge.reqs < MaxReqs
  /\ bridge.parent = "open" => m \in ParentMethods \cup Reads
  /\ m = "clear_breakpoint" => p \in ToSet(bridge.bps)
  /\ m = "set_breakpoint" => Len(bridge.bps) < 2
  /\ bridge' = [bridge EXCEPT !.reqs = @ + 1, !.effects = @ \/ (bridge.parent = "open" /\ m \notin Reads),
                              !.port = @ \/ (bridge.parent = "open" /\ m = "set_input")]
  /\ req' = [Idle("none") EXCEPT !.m = m, !.todo = Script(m), !.arg = p]
  /\ UNCHANGED <<native, wire>>
BeginParent ==
  /\ req.m = "idle" /\ ~BackendTerminal /\ bridge.parent = "none" /\ bridge.reqs < MaxReqs
  /\ bridge' = [bridge EXCEPT !.parent = "open", !.effects = FALSE, !.port = FALSE, !.reqs = @ + 1]
  /\ UNCHANGED <<native, wire, req>>
FinishParent ==
  /\ req.m = "idle" /\ ~BackendTerminal /\ bridge.parent = "open"
  /\ req' = [Idle("none") EXCEPT !.m = "finish", !.todo = IF bridge.effects THEN CleanParent ELSE <<"close">>]
  /\ UNCHANGED <<native, wire, bridge>>

\* send_request.
Payload == CASE Current = "input.buttons.send" -> IF req.m = "set_input" THEN "held" ELSE "none"
             [] Current \in {"breakpoint.add", "breakpoint.remove"} -> req.arg
             [] OTHER -> "none"
Call ==
  /\ req.todo # <<>> /\ req.waits = "none" /\ Current \in Calls /\ ~bridge.terminal
  /\ wire' = [wire EXCEPT !.in = Append(@, Message(Current, "this", Payload))]
  /\ req' = [req EXCEPT !.waits = IF Current = "cpu.stepInto" THEN "cpu.stepping" ELSE Current]
  /\ UNCHANGED <<native, bridge>>

\* queue_event: a message of no exchange is kept for poll_events, up to the budget.
QueueEvent(m) ==
  IF bridge.pending + bridge.stops >= MaxPending
  THEN /\ bridge' = [bridge EXCEPT !.terminal = TRUE] /\ wire' = [wire EXCEPT !.out = Tail(@), !.eof = TRUE]
       /\ Answer("error")
  ELSE /\ bridge' = IF m.data = "hit" THEN [bridge EXCEPT !.stops = @ + 1] ELSE [bridge EXCEPT !.pending = @ + 1]
       /\ wire' = [wire EXCEPT !.out = Tail(@)] /\ UNCHANGED req
\* What follows a call that failed.
FailsTo ==
  CASE Current = "input.buttons.press" -> /\ req' = [req EXCEPT !.waits = "none", !.m = "failed", !.todo = <<"input.buttons.send">>]
                                          /\ UNCHANGED bridge
    [] req.m = "find_pattern" /\ Current = "read" -> /\ req' = [req EXCEPT !.waits = "none", !.m = "failed", !.todo = Tail(@)]
                                                    /\ UNCHANGED bridge
    [] req.m = "finish" \/ (req.m = "speed" /\ Current # "read") \/ Current = "emucap.memoryBatch" ->
         bridge' = [bridge EXCEPT !.unverified = TRUE] /\ Answer("error")
    [] Current = "savestate.load" -> \E u \in BOOLEAN : bridge' = [bridge EXCEPT !.unverified = u] /\ Answer("error")
    [] OTHER -> Answer("error") /\ bridge' = [bridge EXCEPT !.lost = @ \/ Current \in {"breakpoint.add", "breakpoint.remove"}]
\* read_until_ticketed: the expected event and this request's ticket.
Accepts(m) == m.event = req.waits /\ m.ticket = "this"
Read ==
  LET m == Head(wire.out) IN
  /\ req.waits \notin {"none", "emucap.frameStep"} /\ wire.out # <<>>
  /\ \/ /\ m.event = "error" /\ m.ticket = "this"
        /\ FailsTo /\ wire' = EndExchange([wire EXCEPT !.out = Tail(@)]) /\ native' = Old(native)
     \/ /\ Accepts(m)
        /\ req' = [req EXCEPT !.waits = "none", !.todo = Tail(@), !.st = m.data]
        /\ wire' = EndExchange([wire EXCEPT !.out = Tail(@)]) /\ native' = Old(native)
        /\ bridge' = IF Current = "input.buttons.send" THEN [bridge EXCEPT !.held = req.m = "set_input"] ELSE bridge
     \/ /\ ~Accepts(m) /\ ~(m.event = "error" /\ m.ticket = "this")
        /\ QueueEvent(m) /\ UNCHANGED native
\* The exchange's deadline passes; the reply may still come.
ReadTimesOut ==
  /\ req.waits \notin {"none", "emucap.frameStep"}
  /\ FailsTo /\ wire' = EndExchange(wire) /\ native' = Old(native)

\* PPSSPP keeps one breakpoint per address; other ids of the bridge may stand for it too.
SharedPoint == Cardinality({i \in DOMAIN bridge.bps : bridge.bps[i] = req.arg}) > 1
Decide ==
  LET rest == Tail(req.todo)
      Then(c) == req' = [req EXCEPT !.todo = c \o rest]
      Refuse == Answer("error")
  IN
  /\ \/ Do("resume if stopped") /\ Then(IF req.st = "stop" THEN <<"cpu.resume">> ELSE <<>>)
     \/ Do("halt if running") /\ Then(IF req.st = "run" THEN <<"cpu.stepping">> ELSE <<>>)
     \/ Do("was?") /\ req' = [req EXCEPT !.todo = rest, !.was = req.st]
     \/ Do("as it was") /\ Then(IF req.was = "run" THEN <<"cpu.resume">> ELSE <<>>)
     \/ Do("running!") /\ IF req.st = "run" THEN Then(<<>>) ELSE Refuse
     \/ Do("stopped!") /\ IF req.st = "stop" THEN Then(<<>>) ELSE Refuse
     \/ Do("frozen!") /\ IF req.st = "frozen" THEN Then(<<>>) ELSE Refuse
     \/ Do("release ports") /\ Then(IF bridge.port THEN <<"input.buttons.send">> ELSE <<>>)
     \/ Do("remove if last") /\ Then(IF SharedPoint THEN <<>> ELSE <<"breakpoint.remove">>)
  /\ UNCHANGED <<native, wire, bridge>>
\* verify_owned_halt: ask once, then look until the proof is there or the deadline passes.
Halted ==
  LET rest == Tail(req.todo) again == VerifyOwnedHalt IN
  /\ Do("halted?") /\ UNCHANGED <<native, wire>>
  /\ \/ req.st = "stop" /\ req' = [req EXCEPT !.todo = rest, !.asked = FALSE] /\ UNCHANGED bridge
     \/ /\ req.st = "run" /\ UNCHANGED bridge
        /\ req' = [req EXCEPT !.asked = TRUE, !.todo = (IF req.asked THEN <<>> ELSE <<"cpu.stepping">>) \o again \o rest]
     \/ req.st = "run" /\ Answer("error") /\ bridge' = [bridge EXCEPT !.unverified = req.m = "finish"]
Added == Do("added") /\ bridge' = [bridge EXCEPT !.bps = Append(@, req.arg)] /\ Advance /\ UNCHANGED <<native, wire>>
Removed ==
  /\ Do("removed") /\ Advance /\ UNCHANGED <<native, wire>>
  /\ \E i \in DOMAIN bridge.bps : bridge.bps[i] = req.arg /\ bridge' = [bridge EXCEPT !.bps = RemoveAt(@, i)]
\* poll_events: drain_events takes what is queued and what can be read now; only stops are told.
Hits(msgs) == Len(SelectSeq(msgs, LAMBDA m : m.data = "hit"))
Drain ==
  /\ Do("drain") /\ Advance /\ UNCHANGED native
  /\ bridge' = [bridge EXCEPT !.events = @ + bridge.stops + Hits(wire.out), !.stops = 0, !.pending = 0]
  /\ wire' = [wire EXCEPT !.out = <<>>]
\* A poll with a filter holds what does not match for a later one.
Tell ==
  /\ req.m = "poll" /\ req.todo = <<>> /\ req.waits = "none" /\ \E n \in {0, bridge.events} :
       bridge' = [bridge EXCEPT !.told = @ + n, !.events = @ - n]
  /\ Answer("ok") /\ UNCHANGED <<native, wire>>
Close ==
  /\ Do("close") /\ bridge' = [bridge EXCEPT !.parent = "none"] /\ Answer(IF bridge.effects THEN "clean" ELSE "ok")
  /\ UNCHANGED <<native, wire>>

-----------------------------------------------------------------------------
(* frame_step_cancellable *)

FrameSend ==
  /\ Do("emucap.frameStep") /\ UNCHANGED native
  /\ \/ /\ ~bridge.terminal /\ wire' = [wire EXCEPT !.in = Append(@, Message("emucap.frameStep", "this", "none"))]
        /\ req' = [req EXCEPT !.waits = "emucap.frameStep", !.cancel = "none", !.terminal = "none"] /\ UNCHANGED bridge
     \/ Answer("error") /\ UNCHANGED <<wire, bridge>>          \* cancelled before admission
FrameCancel ==
  /\ req.waits = "emucap.frameStep" /\ req.cancel = "none"
  /\ wire' = [wire EXCEPT !.in = Append(@, Message("emucap.frameStep.cancel", "that", "none"))]
  /\ req' = [req EXCEPT !.cancel = "sent"] /\ UNCHANGED <<native, bridge>>
\* After dispatch, uncertainty retires the channel.
RetireFrame ==
  /\ Answer("error") /\ bridge' = [bridge EXCEPT !.terminal = TRUE]
  /\ wire' = [EndExchange(wire) EXCEPT !.eof = TRUE] /\ native' = Old(native)
FrameRead ==
  LET m == Head(wire.out)
      term == IF m.ticket = "this" THEN m.data ELSE req.terminal
      ack == IF m.ticket = "that" THEN "acked" ELSE req.cancel
  IN
  /\ req.waits = "emucap.frameStep" /\ wire.out # <<>>
  /\ IF m.ticket = "this" /\ m.event # "emucap.frameStep" THEN RetireFrame
     ELSE IF m.ticket \notin {"this", "that"} THEN QueueEvent(m) /\ UNCHANGED native
     ELSE IF term # "none" /\ ack # "sent"
     THEN /\ req' = [req EXCEPT !.waits = "none", !.todo = Tail(@), !.cancel = "none", !.terminal = "none"]
          /\ wire' = EndExchange([wire EXCEPT !.out = Tail(@)]) /\ native' = Old(native) /\ UNCHANGED bridge
     ELSE /\ req' = [req EXCEPT !.terminal = term, !.cancel = ack]
          /\ wire' = [wire EXCEPT !.out = Tail(@)] /\ UNCHANGED <<native, bridge>>
\* The grace period of a cancellation passes without its proof.
FrameTimesOut == req.waits = "emucap.frameStep" /\ req.cancel # "none" /\ RetireFrame

SaysFrozen == req.m \in {"pause", "step", "step_instructions", "load", "probe"}
Finish ==
  /\ req.m \notin {"idle", "poll"} /\ req.todo = <<>> /\ req.waits = "none"
  /\ Answer(IF req.m = "failed" THEN "error" ELSE IF SaysFrozen THEN "frozen" ELSE "ok")
  /\ UNCHANGED <<native, wire, bridge>>

PspNext ==
  \/ \E m \in Methods, p \in Points : Begin(m, p)
  \/ BeginParent \/ FinishParent \/ Call \/ Read \/ ReadTimesOut \/ Decide \/ Halted \/ Added \/ Removed \/ Drain \/ Tell
  \/ Close \/ FrameSend \/ FrameCancel \/ FrameRead \/ FrameTimesOut \/ Finish
  \/ (Emulate /\ UNCHANGED <<bridge, req>>)

PspSpec == PspInit /\ [][PspNext]_pspVars

-----------------------------------------------------------------------------
\* An answer that says frozen finds the CPU stopped, whatever late reply, breakpoint or cancellation
\* crossed it, with no frame operation left to run; the cleanup of a parent that recorded its port also
\* left no button held.
PspHaltIsReal ==
  /\ req.answer \in {"frozen", "clean"} => native.cpu = "stop" /\ native.frame = "none"
  /\ req.answer = "clean" /\ bridge.port => ~native.keys

\* Unless the transport was retired, every breakpoint hit is told, held or still to be read, and every
\* breakpoint the bridge lists is armed (a request whose answer was lost excepted).
PspHitsKept ==
  /\ ~BackendTerminal => native.hits = bridge.told + bridge.events + bridge.stops + Hits(wire.out)
  /\ req.m = "idle" /\ ~bridge.lost /\ ~BackendTerminal => native.points = ToSet(bridge.bps)
=============================================================================
