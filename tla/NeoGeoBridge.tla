--------------------------- MODULE NeoGeoBridge ---------------------------
(* The Neo Geo bridge (neogeo_bridge.rs and its modules) over the MAME       *)
(* plugin.  Unlike the PC-98 bridge its plain exchanges take the next packet *)
(* for the answer, whatever it is; only the owned exchanges pass over stops. *)
(* A hit disarms its native point, and the bridge arms it again.             *)
EXTENDS MamePlugin

CONSTANT MaxReqs       \* bound: requests of one behaviour

VARIABLES bridge,      \* the NeoGeoBridge: frozen, control_fatal, breakpoints, owned_stops, ...
          req          \* the request being served: its method, what is left, its answer

neoVars == <<native, wire, bridge, req>>

Idle(answer) == [m |-> "idle", todo |-> <<>>, answer |-> answer, cut |-> FALSE, sent |-> FALSE, arg |-> "none"]

\* NeoGeoBridge::new; enable_owned_control reads the halt state of a managed launch.
NeoInit ==
  /\ PluginInit
  /\ \E o \in BOOLEAN :
       bridge = [frozen |-> o, fatal |-> FALSE, owned |-> o, listed |-> {}, live |-> {}, stops |-> <<>>,
                 kept |-> 0, free |-> FALSE, plan |-> "none", reqs |-> 0]
  /\ req = Idle("none")

-----------------------------------------------------------------------------
(* Scripts: the native commands of a method, in the order it sends them *)

Status == <<"drain", "pacing", "frame", "inputfields", "inputstatus">>
GetState == <<"frozen?", "g", "frame">>
CallStack == <<"frozen?", "g">>
SaveState == <<"frozen?", "items", "frame">>
LoadState == <<"frozen?", "items", "frame">>
ReadMemory == <<"frozen?", "m">>
ReadMemoryBatch == <<"drain", "frozen?", "peek">>
WriteMemory == <<"frozen?", "M">>
ExecutionSpeed == <<"drain", "setpacing", "drain">>
\* frame_wait_timeout arms the plugin's deadline.
FrameWaitTimeout == <<"pacing", "opdeadline">>
FrameStep == <<"drain", "frozen?", "frame">> \o FrameWaitTimeout \o <<"framestep", "frame">>
RunFrames == <<"drain", "frame">> \o FrameWaitTimeout \o <<"runframes", "frame">>
PressButtons == <<"drain">> \o FrameWaitTimeout \o <<"press">>
InstructionStep == <<"frozen?", "s">>
Pause == <<"drain", "int?", "frame">>
Resume == <<"drain", "c?">>
Screenshot == <<"frame", "ok", "frame">>
SetInput == <<"setinput">>
Reset == <<"resetsync">>
SetBreakpoint == <<"setpoint">>
ClearBreakpoint == <<"clearpoint">>
PollEvents == <<"drain">>
Disassemble == <<"ok">>
\* owned_frame_step around mame_owned_frames::run.
OwnedFrameStep == <<"frozen?", "drain", "ownframe", "framebegin", "framepoll", "framefinish", "stops">>
VerifyOwnedHalt == <<"haltstate">>
\* clean_parent: a halt only after a recorded effect, a release and its proof only for a recorded port.
CleanParent ==
  IF bridge.plan = "open" THEN <<>>
  ELSE VerifyOwnedHalt \o (IF bridge.plan = "port" THEN <<"release", "inputstatus0">> ELSE <<>>)

Script(m) ==
  CASE m = "status" -> Status [] m = "get_state" -> GetState [] m = "call_stack" -> CallStack
    [] m = "save" -> SaveState [] m = "load" -> LoadState [] m = "read_memory" -> ReadMemory
    [] m = "batch" -> ReadMemoryBatch [] m = "write" -> WriteMemory [] m = "speed" -> ExecutionSpeed
    [] m = "run_frames" -> RunFrames [] m = "press" -> PressButtons [] m = "resume" -> Resume
    [] m = "step_instructions" -> InstructionStep [] m = "screenshot" -> Screenshot
    [] m = "set_input" -> SetInput [] m = "reset" -> Reset [] m = "set_breakpoint" -> SetBreakpoint
    [] m = "clear_breakpoint" -> ClearBreakpoint [] m = "poll" -> PollEvents
    [] m = "disassemble" -> Disassemble
    [] m = "step" -> IF bridge.owned THEN OwnedFrameStep ELSE FrameStep
    [] m = "pause" -> IF bridge.owned THEN VerifyOwnedHalt ELSE Pause
Methods == {"status", "get_state", "call_stack", "save", "load", "read_memory", "batch", "write", "speed",
            "run_frames", "press", "resume", "step_instructions", "screenshot", "set_input", "reset",
            "set_breakpoint", "clear_breakpoint", "poll", "disassemble", "step", "pause"}
\* is_read_only, and what handle_parent_request admits besides.
Reads == {"status", "get_state", "call_stack", "read_memory", "batch", "screenshot", "poll", "disassemble"}
ParentMethods == {"set_input", "pause", "step"}

-----------------------------------------------------------------------------
(* Exchanges *)

NoTerminal == ~bridge.fatal
IsLocal(c) == c \in {"drain", "frozen?", "int?", "c?", "stops"}
\* frame_exchange: the exchanges that pass over stops.
IsOwned(c) == c \in {"ownframe", "framebegin", "framepoll", "framecancel", "framefinish", "haltstate",
                     "release", "inputstatus0"} \/ (c = "setinput" /\ bridge.owned)
Current == Head(req.todo)
OnWire(c) == CASE c = "inputstatus0" -> "inputstatus" [] c = "ownframe" -> "frame" [] c = "snap" -> "m"
               [] c = "rearm" -> "setpoint" [] OTHER -> c

Advance == req' = [req EXCEPT !.todo = Tail(@), !.sent = FALSE]
Answer(a) == req' = Idle(a)
Rejects == Answer("error") /\ UNCHANGED bridge
Fails == Answer("error") /\ bridge' = [bridge EXCEPT !.fatal = TRUE]

\* record_input_attempt and record_effect: what the open parent has to undo, before the handler runs.
Noted(m) == CASE bridge.plan = "none" \/ m \in Reads -> bridge.plan
              [] m = "set_input" -> "port"
              [] OTHER -> IF bridge.plan = "open" THEN "effects" ELSE bridge.plan
\* handle_request, unscoped or in the open parent; clear_breakpoint of a point without a native id only forgets it.
Begin(m, p) ==
  /\ req.m = "idle" /\ NoTerminal
  /\ bridge.plan # "none" => m \in ParentMethods \cup Reads
  /\ m = "set_breakpoint" => p \notin bridge.listed
  /\ m = "clear_breakpoint" => p \in bridge.listed
  /\ bridge.reqs < MaxReqs
  /\ bridge' = [bridge EXCEPT !.reqs = @ + 1, !.plan = Noted(m), !.free = @ \/ m \in {"resume", "run_frames", "press", "reset"}]
  /\ req' = [Idle("none") EXCEPT !.m = m, !.arg = p,
               !.todo = IF m = "clear_breakpoint" /\ p \notin bridge.live THEN <<>> ELSE Script(m)]
  /\ UNCHANGED <<native, wire>>
BeginParent ==
  /\ req.m = "idle" /\ NoTerminal /\ bridge.owned /\ bridge.plan = "none" /\ bridge.reqs < MaxReqs
  /\ bridge' = [bridge EXCEPT !.plan = "open"] /\ UNCHANGED <<native, wire, req>>
\* finish_temporal_operation, or the detach of the owner.
FinishParent ==
  /\ req.m = "idle" /\ NoTerminal /\ bridge.plan # "none"
  /\ req' = [Idle("none") EXCEPT !.m = "cleanup", !.todo = CleanParent] /\ UNCHANGED <<native, wire, bridge>>

Send ==
  /\ req.todo # <<>> /\ ~req.sent /\ NoTerminal /\ ~IsLocal(Current) /\ wire.cmd = "none"
  /\ wire' = [wire EXCEPT !.cmd = OnWire(Current)]
  /\ req' = [req EXCEPT !.sent = TRUE]
  /\ UNCHANGED <<native, bridge>>

\* note_owned_stop: kept aside until the frames have settled.
NoteOwnedStop(b, pk) == IF pk.p = "none" THEN b ELSE [b EXCEPT !.stops = Append(@, pk.p)]
SkipStop ==
  LET pk == Head(wire.out) IN
  /\ req.sent /\ wire.out # <<>> /\ IsOwned(Current) /\ pk.k = "stop"
  /\ bridge' = NoteOwnedStop(bridge, pk)
  /\ wire' = [wire EXCEPT !.out = Tail(@)]
  /\ UNCHANGED <<native, req>>
Receives(pk) ==
  /\ req.sent /\ wire.out # <<>>
  /\ IsOwned(Current) => pk.k # "stop"
  /\ wire' = [wire EXCEPT !.out = Tail(@)]
  /\ UNCHANGED native

\* record_breakpoint_hit: the point is read, its native id is void, and it is armed again.
Recorded(b, p) == [b EXCEPT !.frozen = TRUE, !.live = @ \ {p}, !.kept = @ + 1]
RecordNext(p, rest) == [req EXCEPT !.todo = <<"snap", "rearm">> \o rest, !.sent = FALSE, !.arg = p]

\* lua_cmd and gdb.send: an answer of another command may or may not parse.
Parses(c, pk) ==
  IF pk.c = OnWire(c) THEN {pk.k \notin {"err", "stop"}}
  ELSE IF pk.k = "err" THEN {FALSE}
  ELSE IF c \in {"inputfields", "ok", "setinput"} THEN {TRUE}
  ELSE IF pk.k = "stop" THEN {FALSE} ELSE BOOLEAN
ReceiveData(pk) ==
  /\ Current \in {"pacing", "frame", "inputfields", "inputstatus", "g", "m", "peek", "ok", "M", "opdeadline"}
       \/ (Current = "setinput" /\ ~bridge.owned)
  /\ \E good \in Parses(Current, pk) : IF good THEN Advance ELSE Answer("error")
  /\ UNCHANGED bridge
\* state_lua_cmd and setpacing: what is not a known outcome retires control.
ReceiveState(pk) ==
  /\ Current \in {"items", "setpacing"}
  /\ IF pk.k = "data" /\ pk.c = Current THEN Advance /\ UNCHANGED bridge
     ELSE IF pk.k = "err" THEN Rejects ELSE Fails
ReceiveFrames(pk) ==
  /\ Current \in {"framestep", "runframes", "press"}
  /\ IF pk.k = "stop" /\ pk.p # "none"
     THEN IF pk.p \in bridge.live
          THEN bridge' = Recorded(bridge, pk.p) /\ req' = RecordNext(pk.p, <<>>)
          ELSE Answer("error") /\ bridge' = [bridge EXCEPT !.frozen = TRUE]
     ELSE IF pk.k = "deadline"
     THEN req' = [req EXCEPT !.todo = Tail(@), !.sent = FALSE, !.cut = TRUE]
          /\ bridge' = [bridge EXCEPT !.frozen = TRUE]
     ELSE IF pk.k = "ok" THEN Advance /\ bridge' = [bridge EXCEPT !.frozen = Current = "framestep"]
     ELSE Rejects
ReceiveStep(pk) ==
  /\ Current = "s"
  /\ IF pk.k # "stop" THEN Rejects
     ELSE IF pk.p = "none" THEN Advance /\ UNCHANGED bridge
     ELSE IF pk.p \in bridge.live THEN bridge' = Recorded(bridge, pk.p) /\ req' = RecordNext(pk.p, <<>>)
     ELSE Rejects
ReceivePoint(pk) ==
  \/ /\ Current = "setpoint"
     /\ IF pk.k = "data" /\ pk.p # "none"
        THEN Advance /\ bridge' = [bridge EXCEPT !.listed = @ \cup {req.arg}, !.live = @ \cup {req.arg}]
        ELSE Rejects
  \/ /\ Current = "clearpoint"
     /\ IF pk.k = "ok"
        THEN Advance /\ bridge' = [bridge EXCEPT !.listed = @ \ {req.arg}, !.live = @ \ {req.arg}]
        ELSE Rejects
  \/ Current = "snap" /\ Advance /\ UNCHANGED bridge
  \/ /\ Current = "rearm" /\ Advance
     /\ bridge' = IF pk.k = "data" /\ pk.p # "none" THEN [bridge EXCEPT !.live = @ \cup {req.arg}] ELSE bridge
ReceiveInterrupt(pk) ==
  /\ Current = "int"
  /\ IF bridge.owned
     THEN IF pk.k = "stop" THEN Advance /\ bridge' = NoteOwnedStop(bridge, pk) ELSE Fails
     ELSE IF pk.k = "stop" THEN Advance /\ bridge' = [bridge EXCEPT !.frozen = TRUE] ELSE Rejects
\* verify_owned_halt: frozen, or an interrupt and the proof after it.
ReceiveHalt(pk) ==
  /\ Current = "haltstate"
  /\ IF pk.k = "frozen" THEN Advance /\ bridge' = [bridge EXCEPT !.frozen = TRUE]
     ELSE IF pk.k = "running" /\ ~req.cut
     THEN req' = [req EXCEPT !.todo = <<"int">> \o @, !.sent = FALSE, !.cut = TRUE] /\ UNCHANGED bridge
     ELSE Fails
\* The start clock and the loop of mame_owned_frames::run; every error retires control.
ReceiveOwned(pk) ==
  \/ Current = "ownframe" /\ IF pk.k = "data" THEN Advance /\ UNCHANGED bridge ELSE Fails
  \/ /\ Current = "framebegin"
     /\ IF pk.k = "going" THEN Advance /\ bridge' = [bridge EXCEPT !.frozen = FALSE] ELSE Fails
  \/ /\ Current = "framepoll"
     /\ IF pk.k \in {"completed", "cut"} THEN Advance /\ bridge' = [bridge EXCEPT !.frozen = TRUE]
        ELSE IF pk.k \in {"going", "stopping"}
        THEN /\ \/ req' = [req EXCEPT !.sent = FALSE]
                \/ /\ ~req.cut
                   /\ req' = [req EXCEPT !.todo = <<"framecancel">> \o @, !.sent = FALSE, !.cut = TRUE]
             /\ bridge' = [bridge EXCEPT !.frozen = FALSE]
        ELSE Fails
  \/ Current = "framecancel" /\ IF pk.k \in {"stopping", "completed", "cut"} THEN Advance /\ UNCHANGED bridge ELSE Fails
  \/ Current = "framefinish" /\ IF pk.k \in {"completed", "cut"} THEN Advance /\ UNCHANGED bridge ELSE Fails
  \/ Current = "release" /\ IF pk.k = "ok" THEN Advance /\ UNCHANGED bridge ELSE Fails
  \/ Current = "inputstatus0" /\ IF pk.k = "free" THEN Advance /\ UNCHANGED bridge ELSE Fails
  \/ /\ Current = "setinput" /\ bridge.owned
     /\ IF pk.k = "ok" THEN Advance /\ UNCHANGED bridge ELSE IF pk.k = "err" THEN Rejects ELSE Fails
\* reset: without the proof of its sequence no native id is trusted.
ReceiveReset(pk) ==
  /\ Current = "resetsync"
  /\ IF pk.k = "ok" /\ pk.c = "resetsync" THEN Advance /\ bridge' = [bridge EXCEPT !.frozen = FALSE]
     ELSE Answer("error") /\ bridge' = [bridge EXCEPT !.live = {}]

Receive == LET pk == Head(wire.out) IN
  /\ Receives(pk)
  /\ \/ ReceiveData(pk) \/ ReceiveState(pk) \/ ReceiveFrames(pk) \/ ReceiveStep(pk) \/ ReceivePoint(pk)
     \/ ReceiveInterrupt(pk) \/ ReceiveHalt(pk) \/ ReceiveOwned(pk) \/ ReceiveReset(pk)
TimeOut ==
  /\ req.sent /\ NoTerminal
  /\ Fails /\ UNCHANGED <<native, wire>>

-----------------------------------------------------------------------------
(* Steps without a command *)

\* finish_owned_stops: a stop that is nobody's retires control.
FinishOwnedStops ==
  LET p == Head(bridge.stops) IN
  /\ req.todo # <<>> /\ Current \in {"drain", "stops"} /\ bridge.stops # <<>>
  /\ IF p \in bridge.live
     THEN bridge' = [Recorded(bridge, p) EXCEPT !.stops = Tail(@)] /\ req' = RecordNext(p, req.todo)
     ELSE Answer("error") /\ bridge' = [bridge EXCEPT !.stops = Tail(@), !.fatal = TRUE]
  /\ UNCHANGED <<native, wire>>
\* drain_breakpoint_packets: what is not a breakpoint's stop is dropped.
DrainOne ==
  LET pk == Head(wire.out) IN
  /\ req.todo # <<>> /\ Current = "drain" /\ bridge.stops = <<>> /\ wire.out # <<>>
  /\ wire' = [wire EXCEPT !.out = Tail(@)]
  /\ IF pk.p = "none" \/ pk.k # "stop" THEN UNCHANGED <<bridge, req>>
     ELSE IF pk.p \in bridge.live THEN bridge' = Recorded(bridge, pk.p) /\ req' = RecordNext(pk.p, req.todo)
     ELSE Answer("error") /\ bridge' = [bridge EXCEPT !.frozen = TRUE]
  /\ UNCHANGED native
DrainEnd ==
  /\ req.todo # <<>> /\ Current \in {"drain", "stops"} /\ bridge.stops = <<>>
  /\ Advance /\ UNCHANGED <<native, wire, bridge>>
Local ==
  /\ req.todo # <<>>
  /\ \/ /\ Current = "frozen?"
        /\ IF bridge.frozen THEN Advance ELSE Answer("error")
        /\ UNCHANGED <<wire, bridge>>
     \/ /\ Current = "int?"
        /\ req' = [req EXCEPT !.todo = IF bridge.frozen THEN Tail(@) ELSE <<"int">> \o Tail(@)]
        /\ UNCHANGED <<wire, bridge>>
     \/ /\ Current = "c?" /\ wire.cmd = "none"
        /\ wire' = IF bridge.frozen THEN [wire EXCEPT !.cmd = "c"] ELSE wire
        /\ Advance /\ bridge' = [bridge EXCEPT !.frozen = FALSE]
  /\ UNCHANGED native
\* The handler's last assignments and its answer.
Finish ==
  /\ req.m # "idle" /\ req.todo = <<>>
  /\ bridge' = [bridge EXCEPT !.listed = IF req.m = "clear_breakpoint" THEN @ \ {req.arg} ELSE @,
                              !.frozen = @ \/ req.m \in {"save", "load"},
                              !.plan = IF req.m = "cleanup" THEN "none" ELSE @]
  /\ Answer(CASE req.m = "cleanup" -> bridge.plan
               [] bridge.owned /\ req.m \in {"step", "pause"} -> req.m
               [] OTHER -> "ok")
  /\ UNCHANGED <<native, wire>>

\* The plugin serves a point command for the point it names; the reset notifier answers resetsync.
NamesPoint ==
  native'.armed # native.armed => native'.armed \in {native.armed \cup {req.arg}, native.armed \ {req.arg}}
HandleReset ==
  /\ Takes("resetsync")
  /\ \/ Says("resetsync", "ok") /\ native' = [native EXCEPT !.paused = FALSE, !.running = FALSE, !.held = FALSE]
     \/ Says("resetsync", "err") /\ UNCHANGED native

NeoNext ==
  \/ \E m \in Methods, p \in Points : Begin(m, p)
  \/ BeginParent \/ FinishParent
  \/ Send \/ SkipStop \/ Receive \/ TimeOut
  \/ FinishOwnedStops \/ DrainOne \/ DrainEnd \/ Local \/ Finish
  \/ (Handle /\ NamesPoint /\ UNCHANGED <<bridge, req>>)
  \/ (HandleReset /\ UNCHANGED <<bridge, req>>)
  \/ (Emulate /\ UNCHANGED <<bridge, req>>)

NeoSpec == NeoInit /\ [][NeoNext]_neoVars

-----------------------------------------------------------------------------
\* An owned pause or step, or the cleanup of a parent with a recorded effect, that was answered with
\* success left the machine halted and unowned, although a crossing stop can leave the plain exchanges
\* one answer behind; the cleanup of a parent that recorded its port also left no key held.
NeoHaltIsReal ==
  /\ req.answer \in {"pause", "step", "effects", "port"} => ReallyHalted
  /\ req.answer = "port" => ~native.held

\* As long as only owned frames and instruction steps advanced the machine, every hit is recorded or
\* on its way to be, and between requests a point with a native id is armed in the machine.
NeoHitsKept ==
  bridge.owned /\ NoTerminal /\ ~bridge.free =>
    LET coming == {wire.out[i].p : i \in DOMAIN wire.out} \cup {bridge.stops[i] : i \in DOMAIN bridge.stops} IN
    /\ native.hits = bridge.kept + Len(bridge.stops)
                       + Len(SelectSeq(wire.out, LAMBDA pk : pk.k = "stop" /\ pk.p # "none"))
    /\ req.m = "idle" => bridge.live \subseteq native.armed \cup coming
=============================================================================
