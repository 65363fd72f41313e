---------------------------- MODULE Pc98Bridge ----------------------------
(* The PC-98 bridge (pc98_bridge.rs and its modules) over the MAME plugin.   *)
(* A request is served by a script of native exchanges, one at a time; stops *)
(* arrive between them.  What a request is told is checked against what the  *)
(* machine really does.                                                      *)
EXTENDS MamePlugin

CONSTANTS MaxEvents,   \* MAX_EVENTS of the retained debugger events
          MaxReqs      \* bound: requests of one behaviour

VARIABLES bridge,      \* the Bridge: frozen, control_fatal, events, bps, ...
          req          \* the request being served: its method, what is left, its answer

pc98Vars == <<native, wire, bridge, req>>

Idle(answer) == [m |-> "idle", todo |-> <<>>, answer |-> answer, cut |-> FALSE, sent |-> FALSE]

\* Bridge::new interrupts the machine; a managed launch then enables owned control.
Pc98Init ==
  /\ PluginInit
  /\ \E o \in BOOLEAN :
       bridge = [frozen |-> TRUE, fatal |-> FALSE, owned |-> o, events |-> <<>>, batch |-> <<>>,
                 kept |-> 0, ended |-> 0, bps |-> {}, plan |-> "none", reqs |-> 0]
  /\ req = Idle("none")

-----------------------------------------------------------------------------
(* Scripts: the native commands of a method, in the order it sends them *)

MediaStatus == <<"media">>
AdvertisedMethods == <<"pointerstatus", "features">>
Hello == MediaStatus \o AdvertisedMethods
Status == <<"drain">> \o MediaStatus \o <<"inputfields", "inputstatus">> \o AdvertisedMethods
            \o <<"pacing", "frame">>
\* Blocks of at most one read chunk; one read stands for all of them.
ReadMemory == <<"m">>
FindPattern == ReadMemory
DumpMemory == ReadMemory
GetState == <<"g">>
\* call_stack_from_frame_pointer; with a trace the rows of the file are scanned instead.
CallStack == GetState \o ReadMemory
ReadMemoryBatch == <<"drain", "frozen?", "peek">>
WriteMemory == <<"M">>
StopForStateRestore == <<"stop">>
SaveState == StopForStateRestore \o <<"g", "items", "pixels", "m">>
\* restore_state_data with device items: memory after them, then the callbacks.
RestoreStateData == <<"items", "M", "frame", "finishload", "frame">>
LoadState == StopForStateRestore \o MediaStatus \o RestoreStateData
               \o <<"frame", "pixels", "frame", "regload", "frame", "health", "frame">> \o MediaStatus
ArmFrameDeadline == <<"features", "pacing", "opdeadline">>
Probe == StopForStateRestore \o RestoreStateData \o <<"drainall">> \o ArmFrameDeadline \o <<"regprobe">>
PollEvents == <<"drain", "pollreset", "take", "enrich", "deliver">>
SetBreakpoint == <<"setpoint">>
ClearBreakpoint == <<"clearpoint">>
Screenshot == <<"frame", "ok", "frame">>
Reset == <<"ok">>
BreakOnReset == <<"ok">>
Disassemble == <<"ok">>
TraceStart == <<"ok">>
\* traceflush and tracestop; get_trace flushes before it reads the file.
TraceStop == <<"ok", "ok">>
GetTrace == <<"flush">>
SetInput == <<"setinput">>
DeferredLuaOp(c) == <<"drainall">> \o ArmFrameDeadline \o <<c, "calm", "frame">>
RunFrames == DeferredLuaOp("runframes")
PressButtons == DeferredLuaOp("press")
MovePointer == <<"pointerstatus">> \o DeferredLuaOp("pointermove")
StepInstructions == <<"drainall", "s">>
\* mame_owned_frames::run behind owned_frame_step.
OwnedFrameStep == <<"frozen?", "features", "framebegin", "framepoll", "framefinish", "frame">>
VerifyOwnedHalt == <<"haltstate">>
ChangeMedia == <<"frozen?">> \o MediaStatus \o <<"mediachange">>
ExecutionSpeed == <<"drain", "setpacing", "drain">>
Resume == <<"c">>
\* clean_parent: a halt only after a recorded effect, a release and its proof only for a recorded port.
CleanParent ==
  IF bridge.plan = "open" THEN <<>>
  ELSE VerifyOwnedHalt \o (IF bridge.plan = "port" THEN <<"release", "inputstatus0">> ELSE <<>>)

Script(m) ==
  CASE m = "hello" -> Hello [] m = "status" -> Status [] m = "read_memory" -> ReadMemory
    [] m = "get_state" -> GetState [] m = "batch" -> ReadMemoryBatch [] m = "write" -> WriteMemory
    [] m = "save" -> SaveState [] m = "load" -> LoadState [] m = "probe" -> Probe
    [] m = "poll" -> PollEvents [] m = "set_breakpoint" -> SetBreakpoint
    [] m = "clear_breakpoint" -> ClearBreakpoint [] m = "screenshot" -> Screenshot
    [] m = "find" -> FindPattern [] m = "dump" -> DumpMemory [] m = "call_stack" -> CallStack
    [] m = "reset" -> Reset [] m = "break_on_reset" -> BreakOnReset [] m = "disassemble" -> Disassemble
    [] m = "trace" -> TraceStart [] m = "untrace" -> TraceStop [] m = "get_trace" -> GetTrace
    [] m = "set_input" -> SetInput [] m = "press" -> PressButtons
    [] m = "move_pointer" -> MovePointer [] m = "run_frames" -> RunFrames
    [] m = "step" -> IF bridge.owned THEN OwnedFrameStep ELSE DeferredLuaOp("framestep")
    [] m = "step_instructions" -> StepInstructions [] m = "media" -> ChangeMedia
    [] m = "speed" -> ExecutionSpeed [] m = "resume" -> IF bridge.frozen THEN Resume ELSE <<>>
    [] m = "pause" -> IF bridge.owned THEN VerifyOwnedHalt
                      ELSE IF bridge.frozen THEN <<>> ELSE <<"drainall", "int">>

Methods == {"hello", "status", "read_memory", "get_state", "batch", "write", "save", "load", "probe",
            "poll", "set_breakpoint", "clear_breakpoint", "screenshot", "set_input", "press", "find", "dump", "call_stack",
            "reset", "break_on_reset", "disassemble", "trace", "untrace", "get_trace",
            "move_pointer", "run_frames", "step", "step_instructions", "media", "speed", "resume", "pause"}
\* is_read_only, and what handle_parent_request admits besides.
Reads == {"hello", "status", "get_state", "read_memory", "batch", "screenshot", "get_trace", "call_stack",
          "disassemble", "find", "poll"}
ParentMethods == {"set_input", "pause", "step"}

-----------------------------------------------------------------------------
(* Exchanges *)

NoTerminal == ~bridge.fatal
ExpectsStop(c) == c \in {"s", "framestep", "runframes", "press", "pointermove"}
\* send_cmd_data: a bare OK cannot be the answer.
IsData(c) == c \in {"frame", "features", "media", "pacing", "setpacing", "mediachange", "g", "m", "peek",
                    "health", "regprobe", "regs?"}
IsDrain(c) == c \in {"drain", "drainall", "calm"}
IsLocal(c) == IsDrain(c) \/ c \in {"frozen?", "take", "enrich", "deliver"}
Current == Head(req.todo)
OnWire(c) == CASE c = "inputstatus0" -> "inputstatus" [] c = "regs?" -> "g" [] c = "flush" -> "ok" [] OTHER -> c

\* PendingEvents::push: the oldest event makes room.
PushEvents(q, e) == IF Len(q) >= MaxEvents THEN Append(Tail(q), e) ELSE Append(q, e)
\* note_stop: a point's stop is evidence; every stop is taken for a freeze.
NoteStopPacket(b, pk) ==
  [b EXCEPT !.frozen = TRUE, !.events = PushEvents(@, pk.p),
            !.kept = @ + (IF pk.p = "none" THEN 0 ELSE 1)]

Advance == req' = [req EXCEPT !.todo = Tail(@), !.sent = FALSE]
Answer(a) == req' = Idle(a)
Rejects == Answer("error") /\ UNCHANGED bridge
Fails == Answer("error") /\ bridge' = [bridge EXCEPT !.fatal = TRUE]

\* record_input_attempt and record_effect: what the open parent has to undo, before the handler runs.
Noted(m) == CASE bridge.plan = "none" \/ m \in Reads -> bridge.plan
              [] m = "set_input" -> "port"
              [] OTHER -> IF bridge.plan = "open" THEN "effects" ELSE bridge.plan
\* handle_request, unscoped or in the open parent.
Begin(m) ==
  /\ req.m = "idle" /\ NoTerminal
  /\ bridge.plan # "none" => m \in ParentMethods \cup Reads
  /\ bridge.reqs < MaxReqs
  /\ bridge' = [bridge EXCEPT !.reqs = @ + 1, !.plan = Noted(m)]
  /\ req' = [Idle("none") EXCEPT !.m = m, !.todo = Script(m)]
  /\ UNCHANGED <<native, wire>>
BeginParent ==
  /\ req.m = "idle" /\ NoTerminal /\ bridge.owned /\ bridge.plan = "none" /\ bridge.reqs < MaxReqs
  /\ bridge' = [bridge EXCEPT !.plan = "open"] /\ UNCHANGED <<native, wire, req>>
\* finish_temporal_operation, or the detach of the owner.
FinishParent ==
  /\ req.m = "idle" /\ NoTerminal /\ bridge.plan # "none"
  /\ req' = [Idle("none") EXCEPT !.m = "cleanup", !.todo = CleanParent] /\ UNCHANGED <<native, wire, bridge>>

Send ==
  /\ req.m # "idle" /\ req.todo # <<>> /\ ~req.sent /\ NoTerminal /\ ~IsLocal(Current)
  /\ wire.cmd = "none"
  /\ wire' = [wire EXCEPT !.cmd = OnWire(Current)]
  /\ req' = [req EXCEPT !.sent = Current # "c", !.todo = IF Current = "c" THEN Tail(@) ELSE @]
  /\ UNCHANGED <<native, bridge>>

\* exchange_command: what is skipped before the answer.
Skip ==
  LET pk == Head(wire.out) IN
  /\ req.sent /\ wire.out # <<>> /\ Current # "int"
  /\ \/ pk.k = "stop" /\ ~ExpectsStop(Current)
     \/ pk.k = "ok" /\ IsData(Current)
  /\ bridge' = IF pk.k = "stop" THEN NoteStopPacket(bridge, pk) ELSE bridge
  /\ wire' = [wire EXCEPT !.out = Tail(@)]
  /\ UNCHANGED <<native, req>>

\* The answer of the current command, and the packets after it.
Receives(pk) ==
  /\ req.sent /\ wire.out # <<>>
  /\ ~(pk.k = "stop" /\ ~ExpectsStop(Current) /\ Current # "int")
  /\ ~(pk.k = "ok" /\ IsData(Current))
  /\ wire' = [wire EXCEPT !.out = Tail(@)]
  /\ UNCHANGED native

\* mame_features, ensure_event_regs, ...: an error is part of the answer.
Tolerates(c) == c \in {"regs?", "frame", "features", "inputfields", "inputstatus", "pointerstatus"}
ReceiveData(pk) ==
  /\ Current \in DataCommands \cup {"inputstatus", "regs?"}
  /\ IF pk.k # "err" \/ Tolerates(Current) THEN Advance /\ bridge' = bridge
     ELSE IF Current \in {"regload", "setpacing"} THEN Fails
     ELSE Answer("error") /\ bridge' = bridge
ReceiveOk(pk) ==
  /\ Current \in OkCommands \cup {"stop", "flush"}
  /\ IF pk.k = "ok" \/ Current = "flush"
     THEN Advance /\ bridge' = [bridge EXCEPT !.frozen = @ \/ Current = "stop"]
     ELSE Rejects
\* lua_cmd_allow_stop: a stop is the answer of these.
ReceiveDeferred(pk) ==
  /\ ExpectsStop(Current) /\ Current # "s"
  /\ IF pk.k = "ok" THEN Advance /\ bridge' = bridge
     ELSE IF pk.k = "stop"
     THEN /\ req' = [req EXCEPT !.todo = Tail(@), !.sent = FALSE, !.cut = TRUE]
          /\ bridge' = NoteStopPacket(bridge, pk)
     ELSE IF pk.k = "deadline"
     THEN req' = [req EXCEPT !.todo = Tail(@), !.sent = FALSE, !.cut = TRUE] /\ bridge' = bridge
     ELSE Rejects
\* step_instruction_count: the stop that answers a step makes no event, though a point's hit may be what
\* it reports; a step answered after the deadline is an error, and the machine is taken for frozen.
ReceiveStep(pk) == \E late \in BOOLEAN :
  /\ Current = "s"
  /\ IF pk.k = "stop" /\ ~late THEN Advance ELSE Answer("error")
  /\ bridge' = [bridge EXCEPT !.frozen = @ \/ late \/ pk.k = "stop",
                              !.ended = @ + (IF pk.k = "stop" /\ pk.p # "none" THEN 1 ELSE 0)]
StepExpires ==
  /\ req.m = "step_instructions" /\ req.todo # <<>> /\ ~req.sent /\ NoTerminal
  /\ Answer("error") /\ bridge' = [bridge EXCEPT !.frozen = TRUE] /\ UNCHANGED <<native, wire>>
ReceiveProbe(pk) ==
  /\ Current = "regprobe"
  /\ IF pk.k = "data" THEN Advance /\ bridge' = bridge
     ELSE IF pk.k = "err" THEN Rejects ELSE Fails
ReceivePoint(pk) ==
  \/ /\ Current = "setpoint"
     /\ IF pk.k = "data" THEN Advance /\ bridge' = [bridge EXCEPT !.bps = @ \cup {pk.p}]
        ELSE Rejects
  \/ /\ Current = "clearpoint"
     /\ IF pk.k \in {"ok", "err"} THEN Advance /\ bridge' = bridge ELSE Rejects
\* set_input under owned control: only OK and the resolver's refusal are evidence.
ReceiveInput(pk) ==
  /\ Current = "setinput"
  /\ IF pk.k = "ok" THEN Advance /\ bridge' = bridge
     ELSE IF pk.k = "err" \/ ~bridge.owned THEN Rejects ELSE Fails

\* verify_owned_halt: frozen, or an interrupt and the proof after it.
ReceiveHalt(pk) ==
  \/ /\ Current = "haltstate"
     /\ IF pk.k = "frozen" THEN Advance /\ bridge' = [bridge EXCEPT !.frozen = TRUE]
        ELSE IF pk.k = "running" /\ ~req.cut
        THEN /\ req' = [req EXCEPT !.todo = <<"int">> \o @, !.sent = FALSE, !.cut = TRUE] /\ UNCHANGED bridge
        ELSE Fails
  \/ /\ Current = "int"
     /\ IF pk.k = "stop" /\ bridge.owned THEN Advance /\ bridge' = NoteStopPacket(bridge, pk)
        ELSE IF bridge.owned THEN Fails
        ELSE Advance /\ bridge' = [bridge EXCEPT !.frozen = TRUE]

\* FrameReply::parse and the loop of mame_owned_frames::run.
ReceiveOwned(pk) ==
  \/ /\ Current = "framebegin"
     /\ IF pk.k = "going" THEN Advance /\ bridge' = [bridge EXCEPT !.frozen = FALSE] ELSE Fails
  \/ /\ Current = "framepoll"
     /\ IF pk.k \in {"completed", "cut"} THEN Advance /\ bridge' = [bridge EXCEPT !.frozen = TRUE]
        ELSE IF pk.k \in {"going", "stopping"}
        THEN /\ \/ req' = [req EXCEPT !.sent = FALSE]
                \/ /\ ~req.cut
                   /\ req' = [req EXCEPT !.todo = <<"framecancel">> \o @, !.sent = FALSE, !.cut = TRUE]
             /\ bridge' = [bridge EXCEPT !.frozen = FALSE]
        ELSE Fails
  \/ /\ Current = "framecancel"
     /\ IF pk.k \in {"stopping", "completed", "cut"} THEN Advance /\ UNCHANGED bridge ELSE Fails
  \/ /\ Current = "framefinish"
     /\ IF pk.k \in {"completed", "cut"} THEN Advance /\ UNCHANGED bridge ELSE Fails
ReceiveRelease(pk) ==
  \/ Current = "release" /\ IF pk.k = "ok" THEN Advance /\ UNCHANGED bridge ELSE Fails
  \/ Current = "inputstatus0" /\ IF pk.k = "free" THEN Advance /\ UNCHANGED bridge ELSE Fails

Receive == LET pk == Head(wire.out) IN
  /\ Receives(pk)
  /\ \/ ReceiveData(pk) \/ ReceiveOk(pk) \/ ReceiveDeferred(pk) \/ ReceiveStep(pk) \/ ReceiveProbe(pk) \/ ReceivePoint(pk)
     \/ ReceiveInput(pk) \/ ReceiveHalt(pk) \/ ReceiveOwned(pk) \/ ReceiveRelease(pk)

\* A budget runs out: the transport is shut and the bridge ends with this answer.
TimeOut ==
  /\ req.sent /\ NoTerminal
  /\ Fails /\ UNCHANGED <<native, wire>>

-----------------------------------------------------------------------------
(* Steps without a command *)

\* drain_stop, drain_buffered_stops, drain_immediate_stops: what has arrived so far.
DrainOne ==
  LET pk == Head(wire.out) IN
  /\ req.todo # <<>> /\ IsDrain(Current) /\ wire.out # <<>>
  /\ Current = "drain" => ~bridge.frozen
  /\ wire' = [wire EXCEPT !.out = Tail(@)]
  /\ bridge' = IF pk.k = "stop" THEN NoteStopPacket(bridge, pk) ELSE bridge
  /\ req' = [req EXCEPT !.todo = IF pk.k # "stop" \/ Current = "drain" THEN Tail(@) ELSE @,
                        !.cut = @ \/ (Current = "calm" /\ pk.k = "stop")]
  /\ UNCHANGED native
DrainEnd ==
  /\ req.todo # <<>> /\ IsDrain(Current)
  /\ Advance /\ UNCHANGED <<native, wire, bridge>>
RequireFrozen ==
  /\ req.todo # <<>> /\ Current = "frozen?"
  /\ IF bridge.frozen THEN Advance ELSE Answer("error")
  /\ UNCHANGED <<native, wire, bridge>>
\* poll_events: the batch is detached, enriched by register reads, and what is left is merged.
TakeBatch ==
  /\ req.todo # <<>> /\ Current = "take"
  /\ bridge' = [bridge EXCEPT !.batch = @ \o bridge.events, !.events = <<>>]
  /\ Advance /\ UNCHANGED <<native, wire>>
Enrich ==
  /\ req.todo # <<>> /\ Current = "enrich"
  /\ req' = [req EXCEPT !.todo = IF bridge.batch = <<>> THEN Tail(@) ELSE <<"regs?">> \o Tail(@)]
  /\ UNCHANGED <<native, wire, bridge>>
Deliver == \E matching \in BOOLEAN :
  /\ req.todo # <<>> /\ Current = "deliver"
  /\ bridge' = [bridge EXCEPT !.batch = <<>>, !.events = IF matching THEN @ ELSE bridge.batch \o @]
  /\ Advance /\ UNCHANGED <<native, wire>>

\* The handler's last assignments and its answer.
Leaves(m) == CASE m \in {"run_frames", "press"} -> req.cut
               [] m \in {"step", "move_pointer", "pause", "load", "probe"} -> TRUE
               [] m = "resume" -> FALSE
               [] OTHER -> bridge.frozen
Finish ==
  /\ req.m # "idle" /\ req.todo = <<>>
  /\ bridge' = [bridge EXCEPT !.frozen = Leaves(req.m), !.plan = IF req.m = "cleanup" THEN "none" ELSE @]
  /\ Answer(CASE req.m = "cleanup" -> bridge.plan
               [] bridge.owned /\ req.m \in {"step", "pause"} -> req.m
               [] OTHER -> "ok")
  /\ UNCHANGED <<native, wire>>

Pc98Next ==
  \/ \E m \in Methods : Begin(m)
  \/ BeginParent \/ FinishParent
  \/ Send \/ Skip \/ Receive \/ TimeOut \/ StepExpires
  \/ DrainOne \/ DrainEnd \/ RequireFrozen \/ TakeBatch \/ Enrich \/ Deliver \/ Finish
  \/ (Handle /\ UNCHANGED <<bridge, req>>)
  \/ (Emulate /\ UNCHANGED <<bridge, req>>)

Pc98Spec == Pc98Init /\ [][Pc98Next]_pc98Vars

-----------------------------------------------------------------------------
\* An owned pause or step, or the cleanup of a parent with a recorded effect, that was answered with
\* success left the machine halted and unowned, whatever stops and late replies crossed it; the cleanup
\* of a parent that recorded its port also left no key held.
Pc98HaltIsReal ==
  /\ req.answer \in {"pause", "step", "effects", "port"} => ReallyHalted
  /\ req.answer = "port" => ~native.held

\* Every hit of a point is on the wire, was recorded as an event, or is the stop that one
\* instruction step was answered with: poll_events never tells the last (step_instruction_count).
Pc98HitsKept ==
  bridge.owned /\ NoTerminal =>
    native.hits = bridge.kept + bridge.ended
                    + Len(SelectSeq(wire.out, LAMBDA pk : pk.p # "none" /\ pk.k = "stop"))

=============================================================================
