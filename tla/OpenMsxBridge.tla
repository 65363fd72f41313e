--------------------------- MODULE OpenMsxBridge --------------------------
(* The MSX bridge (openmsx_bridge.rs and its modules) over openMSX's XML     *)
(* control.  A command and its reply are one step, for openMSX serves its    *)
(* control between slices of emulation and a command without a timely reply  *)
(* ends the process.  Between commands the machine moves: delayed callbacks, *)
(* frame ticks and breakpoint hits of the bridge's own Tcl code.             *)
EXTENDS Naturals, Sequences, FiniteSets

CONSTANTS MsxPoints,   \* identities of the breakpoints of one behaviour (next_breakpoint_id never gives one again)
          MaxQueue,    \* bound of the Tcl event queue
          MaxReqs      \* bound: requests of one behaviour

VARIABLES native,      \* openMSX: pause, breaked, the Tcl namespace, the active machine
          wire,        \* updates of the pause setting that the bridge has not read
          bridge,      \* the OpenMsxBridge
          req          \* the request being served

msxVars == <<native, wire, bridge, req>>

Idle(answer) == [m |-> "idle", todo |-> <<>>, answer |-> answer, arg |-> "none", was |-> FALSE,
                 held |-> FALSE, err |-> FALSE, cut |-> FALSE]

\* initialize_debugger: paused, in the debugger, no breakpoints, one frame probe.
MsxInit ==
  /\ native = [pause |-> TRUE, breaked |-> TRUE, due |-> FALSE, target |-> FALSE, seq |-> 0, queue |-> <<>>,
               dropped |-> 0, points |-> {}, keys |-> FALSE, machine |-> "old"]
  /\ wire = <<>>
  /\ bridge = [frozen |-> TRUE, fatal |-> FALSE, dead |-> FALSE, seen |-> FALSE, events |-> <<>>, last |-> 0,
               kept |-> 0, told |-> 0, mute |-> 0, bps |-> {}, used |-> {}, keys |-> FALSE,
               parent |-> FALSE, effects |-> FALSE, port |-> FALSE, reqs |-> 0]
  /\ req = Idle("none")

-----------------------------------------------------------------------------
(* openMSX and the Tcl callbacks *)

Moves == ~native.pause /\ ~native.breaked
Updates(on) == wire' = Append(wire, on)

\* start_frame, delayed by next_frame; cancel_frame voids it with a new generation.
StartFrame ==
  /\ native.due /\ ~native.target
  /\ native' = [native EXCEPT !.due = FALSE, !.target = TRUE, !.pause = FALSE, !.breaked = FALSE]
  /\ IF native.pause THEN Updates(FALSE) ELSE UNCHANGED wire
\* frame_tick at the target.
FrameTick ==
  /\ Moves /\ native.target
  /\ native' = [native EXCEPT !.target = FALSE, !.pause = TRUE]
  /\ Updates(TRUE)
\* hit: one record per hit, the oldest makes room; then both stops.
HitRecord(n, p) ==
  [n EXCEPT !.seq = @ + 1, !.pause = TRUE, !.breaked = TRUE,
            !.queue = Append(IF Len(@) >= MaxQueue THEN Tail(@) ELSE @, <<n.seq + 1, p>>),
            !.dropped = @ + (IF Len(n.queue) >= MaxQueue THEN 1 ELSE 0)]
Hit(p) ==
  /\ Moves /\ p \in native.points
  /\ native' = HitRecord(native, p)
  /\ Updates(TRUE)

-----------------------------------------------------------------------------
(* Scripts: commands with what their rejection does (soft: the request fails; hard: control is *)
(* retired; the others name the handler's own cleanup)                                         *)

Policy(p, cmds) == [i \in DOMAIN cmds |-> <<cmds[i], p>>]
Soft(cmds) == Policy("soft", cmds)
Hard(cmds) == Policy("hard", cmds)
Name(item) == item[1]

RequireFrozen == Soft(<<"frozen?">>)
PrepareTemporal == Soft(<<"prepare">>)
RequireRuntimeIdentity == <<"ident", "ident", "media">>
Status == Soft(<<"drain", "refresh", "input", "frame", "media", "policy">>)
GetState == RequireFrozen \o Soft(<<"reg", "frame">>)
ReadMemory == RequireFrozen \o Soft(<<"read">>)
ReadMemoryBatch == RequireFrozen \o Soft(<<"read">>)
WriteMemory == RequireFrozen \o Soft(<<"write">>)
Disassemble == RequireFrozen \o Soft(<<"read">>)
Screenshot == RequireFrozen \o Soft(<<"read", "frame">>)
PollEvents == Soft(<<"drain", "deliver">>)
Pause == Soft(<<"refresh", "frozen->frame", "pause_on">>) \o Policy("unpause", <<"break">>)
           \o Hard(<<"stop!">>) \o Soft(<<"frame">>)
Resume == Soft(<<"cont", "refresh", "resumed">>)
FrameStep == RequireFrozen \o PrepareTemporal \o Soft(<<"frame">>) \o Policy("step", <<"next_frame", "wait">>)
               \o Soft(<<"frame", "drain", "stepped">>)
StepCompleted == Soft(<<"unbroken">>) \o Soft(<<"break", "pause_on", "stop!", "count?">>)
StepBroken == Hard(<<"cancel_frame">>) \o Soft(<<"stop!">>)
\* finish_interrupted_frame_step, and the cleanup of an advance that failed.
StepInterrupted == Hard(<<"cancel_frame", "pause_on", "break", "stop!", "frame", "drain">>)
StepFailed == Hard(<<"cancel_frame", "pause_on", "break", "stop!">>)
InstructionStep == RequireFrozen \o PrepareTemporal
                     \o Soft(<<"reg", "step", "pause_on", "drain", "reg", "pause_on", "stop!", "reg", "frame">>)
ApplyButtons(on) == Soft(<<IF on THEN "keys_down" ELSE "keys_up">>)
SetInput(on) == ApplyButtons(on)
PressButtons == Soft(<<"refresh", "running->pause">>) \o Policy("pulse", <<"keys_down">>) \o FrameStep
                  \o Policy("release", <<"keys_back">>) \o Soft(<<"resume?">>)
SetBreakpoint == Soft(<<"spec">>) \o Policy("unarmed", <<"create">>) \o Policy("arm", <<"inv">>)
ClearBreakpoint == Soft(<<"remove">>) \o Hard(<<"inv", "spec">>)
SaveState == RequireFrozen \o Soft(RequireRuntimeIdentity \o <<"store">>)
LoadState == RequireFrozen \o Hard(RequireRuntimeIdentity \o <<"inv">>) \o Soft(<<"probe", "media", "restore">>)
               \o Policy("back", <<"activate", "break", "stop!">> \o RequireRuntimeIdentity
                                   \o <<"keys_again", "inv", "probe", "frame">>)
               \o Hard(<<"delete">>)
LoadRollback == Hard(<<"activate_old", "stop!">> \o RequireRuntimeIdentity
                       \o <<"keys_again", "inv", "probe", "delete">>)
Reset == Soft(<<"keys_off", "reset", "break", "pause_on", "stop!">>) \o Hard(RequireRuntimeIdentity)
           \o Soft(<<"keys_again">>) \o Hard(<<"inv", "probe">>) \o Soft(<<"frame">>)
ChangeMedia == RequireFrozen \o Soft(RequireRuntimeIdentity \o <<"media", "frame">>)
                 \o Policy("media", <<"disk">>) \o Hard(<<"stop!">> \o RequireRuntimeIdentity \o <<"frame">>)
MediaRejected == Hard(<<"stop!">> \o RequireRuntimeIdentity \o <<"frame">>)
ExecutionSpeed == Soft(<<"drain", "refresh", "policy">>) \o Hard(<<"apply", "refresh">>)
\* clean_parent: the ports that the parent recorded are released even if the stop failed.
ReleasePorts(port) == IF port THEN Hard(<<"keys_up", "released">>) ELSE <<>>
CleanParent(port) == Policy("stop", <<"cancel_frame", "pause_on", "break", "stop!">>) \o ReleasePorts(port)

Script(m) ==
  CASE m = "status" -> Status [] m = "get_state" -> GetState [] m = "read" -> ReadMemory
    [] m = "batch" -> ReadMemoryBatch [] m = "write" -> WriteMemory [] m = "disassemble" -> Disassemble
    [] m = "screenshot" -> Screenshot [] m = "poll" -> PollEvents [] m = "pause" -> Pause
    [] m = "resume" -> Resume [] m = "step" -> FrameStep [] m = "step_instructions" -> InstructionStep
    [] m = "hold" -> SetInput(TRUE) [] m = "free" -> SetInput(FALSE) [] m = "press" -> PressButtons
    [] m = "set_breakpoint" -> SetBreakpoint [] m = "clear_breakpoint" -> ClearBreakpoint
    [] m = "save" -> SaveState [] m = "load" -> LoadState [] m = "reset" -> Reset
    [] m = "media" -> ChangeMedia [] m = "speed" -> ExecutionSpeed
\* is_read_only, and what handle_parent_request admits besides.
Reads == {"status", "get_state", "read", "batch", "disassemble", "screenshot", "poll"}
ParentMethods == {"hold", "free", "pause", "step"}
Methods == Reads \cup ParentMethods \cup {"write", "resume", "step_instructions", "press", "set_breakpoint",
             "clear_breakpoint", "save", "load", "reset", "media", "speed"}

-----------------------------------------------------------------------------
(* Commands *)

CancelFrame(n) == [n EXCEPT !.target = FALSE, !.due = FALSE]

\* What openMSX does for a command it accepts.
Effect(n, c) ==
  CASE c = "pause_on" -> [n EXCEPT !.pause = TRUE]
    [] c = "break" -> [n EXCEPT !.breaked = TRUE]
    [] c = "pause_off" -> [n EXCEPT !.pause = FALSE]
    [] c = "cont" -> IF n.breaked THEN [n EXCEPT !.pause = FALSE, !.breaked = FALSE] ELSE n
    [] c = "step" -> [n EXCEPT !.pause = FALSE, !.breaked = TRUE]
    [] c = "next_frame" -> [n EXCEPT !.due = TRUE]
    [] c = "cancel_frame" -> CancelFrame(n)
    [] c = "create" -> [n EXCEPT !.points = @ \cup {req.arg}]
    [] c = "remove" -> [n EXCEPT !.points = @ \ {req.arg}]
    [] c = "keys_down" -> [n EXCEPT !.keys = TRUE]
    [] c \in {"keys_up", "keys_off"} -> [n EXCEPT !.keys = FALSE]
    [] c = "keys_back" -> [n EXCEPT !.keys = req.held]
    [] c = "keys_again" -> [n EXCEPT !.keys = bridge.keys]
    [] c = "reset" -> [n EXCEPT !.pause = TRUE]
    [] c = "activate" -> [n EXCEPT !.machine = "new", !.pause = TRUE, !.breaked = FALSE, !.keys = FALSE]
    [] c = "activate_old" -> [n EXCEPT !.machine = "old", !.pause = TRUE, !.breaked = TRUE]
    [] c = "delete" -> [n EXCEPT !.machine = "old"]
    [] c = "drain" \/ c = "prepare" -> [n EXCEPT !.queue = <<>>, !.dropped = 0]
    [] OTHER -> n

\* verify_native_breakpoints_with: the expected native set of this request.
Inventory == CASE req.m = "set_breakpoint" /\ ~req.err -> bridge.bps \cup {req.arg}
               [] req.m = "clear_breakpoint" -> bridge.bps \ {req.arg}
               [] OTHER -> bridge.bps
\* The readbacks that the bridge itself evaluates.
Holds(c) == CASE c = "stop!" -> native.pause /\ native.breaked
              [] c \in {"refresh", "frozen?"} -> native.pause = native.breaked /\ (c = "frozen?" => native.pause)
              [] c = "running!" -> ~native.pause /\ ~native.breaked
              [] c = "inv" -> native.points = Inventory
              [] c = "unbroken" -> ~native.breaked
              [] c = "released" -> ~native.keys
              [] c = "prepare" -> bridge.events = <<>> /\ native.queue = <<>> /\ native.dropped = 0
              [] OTHER -> TRUE
\* drain_debug_events: a record of a breakpoint that is gone, a damaged one or one with a callback's error, and a
\* gap in the sequence that the drops do not explain retire control; poll_events alone tells the count of the drops.
Unreadable(b) ==
  LET q == native.queue IN
  \/ \E i \in DOMAIN q : q[i][2] \notin b.bps
  \/ native.dropped # 0 /\ q = <<>>
  \/ q # <<>> /\ q[Len(q)][1] - b.last # Len(q) + native.dropped
Damaged == {FALSE} \cup {x \in {TRUE} : native.queue # <<>>}
Drained(b, damaged) ==
  LET q == native.queue IN
  IF damaged \/ Unreadable(b) THEN [b EXCEPT !.fatal = TRUE]
  ELSE [b EXCEPT !.events = @ \o [i \in DOMAIN q |-> q[i][2]], !.last = IF q = <<>> THEN @ ELSE q[Len(q)][1],
                 !.kept = @ + Len(q), !.told = @ + (IF req.m = "poll" THEN native.dropped ELSE 0),
                 !.mute = @ + (IF req.m = "poll" THEN 0 ELSE native.dropped)]
\* What the bridge records from an accepted command.
Noted(b, c, damaged) ==
  CASE c \in {"stop!", "refresh", "frozen?", "running!"} -> [b EXCEPT !.frozen = native.pause /\ native.breaked]
    [] c \in {"drain", "prepare"} -> Drained(b, damaged)
    [] c = "keys_down" -> [b EXCEPT !.keys = TRUE]
    [] c = "keys_back" -> [b EXCEPT !.keys = req.held]
    [] c = "keys_up" -> [b EXCEPT !.keys = FALSE]
    [] c = "next_frame" -> [b EXCEPT !.seen = FALSE]
    [] OTHER -> b

IsLocal(c) == c \in {"wait", "deliver", "stepped", "resumed", "hit?", "count?", "frozen->frame",
                        "running->pause", "resume?"}
Current == Name(Head(req.todo))
Advance == req' = [req EXCEPT !.todo = Tail(@)]

\* handle_request, handle_parent_request: the effect or the port is recorded before the handler is entered.
Begin(m, p) ==
  /\ req.m = "idle" /\ ~bridge.fatal /\ ~bridge.dead
  /\ bridge.parent => m \in ParentMethods \cup Reads
  /\ m = "set_breakpoint" => p \notin bridge.used
  /\ m = "clear_breakpoint" => p \in bridge.bps
  /\ bridge.reqs < MaxReqs
  /\ bridge' = [bridge EXCEPT !.reqs = @ + 1, !.effects = @ \/ (bridge.parent /\ m \in ParentMethods),
                              !.port = @ \/ (bridge.parent /\ m \in {"hold", "free"})]
  /\ req' = [Idle("none") EXCEPT !.m = m, !.todo = Script(m), !.arg = p, !.held = bridge.keys]
  /\ UNCHANGED <<native, wire>>
BeginParent ==
  /\ req.m = "idle" /\ ~bridge.fatal /\ ~bridge.dead /\ ~bridge.parent /\ bridge.reqs < MaxReqs
  /\ bridge' = [bridge EXCEPT !.reqs = @ + 1, !.parent = TRUE, !.effects = FALSE, !.port = FALSE]
  /\ req' = Idle("ok") /\ UNCHANGED <<native, wire>>
\* finish_temporal_operation, or the detach of the owner: a parent without effects has nothing to clean.
FinishParent == \E p \in MsxPoints :
  /\ req.m = "idle" /\ ~bridge.fatal /\ ~bridge.dead /\ bridge.parent
  /\ bridge' = [bridge EXCEPT !.parent = bridge.effects]
  /\ req' = IF bridge.effects THEN [Idle("none") EXCEPT !.m = "cleanup", !.todo = CleanParent(bridge.port), !.arg = p]
            ELSE Idle("closed")
  /\ UNCHANGED <<native, wire>>

\* What a press whose pulse fails or is cut short still does: its buttons are released.
ReleaseTail ==
  LET tails == {i \in DOMAIN req.todo : /\ req.todo[i][2] = "release"
                                        /\ \A j \in DOMAIN req.todo : req.todo[j][2] # "pulse"} IN
  IF tails = {} THEN <<>> ELSE SubSeq(req.todo, CHOOSE i \in tails : TRUE, Len(req.todo))
\* A rejected command, or a readback that does not hold: what is left of the handler.
AfterFailure(policy) ==
  CASE policy = "stop" -> [req EXCEPT !.todo = ReleasePorts(bridge.port), !.err = TRUE]
    [] policy = "back" -> [req EXCEPT !.todo = LoadRollback, !.err = TRUE]
    [] policy = "arm" -> [req EXCEPT !.todo = Hard(<<"remove", "spec", "inv">>), !.err = TRUE]
    [] policy = "media" -> [req EXCEPT !.todo = MediaRejected, !.err = TRUE]
    [] policy = "unarmed" -> [req EXCEPT !.todo = Hard(<<"spec">>), !.err = TRUE]
    [] policy = "unpause" -> [req EXCEPT !.todo = Hard(<<"cont", "pause_off", "running!">>), !.err = TRUE]
    [] policy = "pulse" -> [req EXCEPT !.todo = Soft(<<"resume?">>), !.err = TRUE]
    [] policy = "release" -> [req EXCEPT !.todo = Tail(@), !.err = TRUE]
    [] policy = "step" -> [req EXCEPT !.err = TRUE, !.todo = StepFailed \o ReleaseTail]
    [] OTHER -> [req EXCEPT !.err = TRUE, !.cut = FALSE, !.todo = ReleaseTail]

\* XmlControl::command with its reply, and with the updates that came before it.
Command ==
  LET c == Current IN
  /\ req.todo # <<>> /\ ~IsLocal(c) /\ ~bridge.dead
  /\ Holds(c)
  /\ \E hit \in {{}} \cup (IF c = "step" THEN {{p} : p \in native.points} ELSE {}) :
       native' = IF hit = {} THEN Effect(native, c) ELSE HitRecord(Effect(native, c), CHOOSE p \in hit : TRUE)
  /\ \E d \in Damaged : bridge' = Noted(bridge, c, d)
  /\ wire' = <<>>
  /\ IF bridge'.fatal /\ ~bridge.fatal THEN req' = AfterFailure(Head(req.todo)[2])
     ELSE IF c = "drain" /\ req.m = "step_instructions" /\ bridge'.events # <<>>
     THEN req' = [req EXCEPT !.todo = Soft(<<"stop!", "reg", "frame">>)]
     ELSE Advance
Refused ==
  LET c == Current IN
  /\ req.todo # <<>> /\ ~IsLocal(c) /\ ~bridge.dead
  /\ \/ Holds(c) /\ native' = native
     \/ ~Holds(c) /\ native' = IF c = "prepare" THEN Effect(native, c) ELSE native
  /\ \E d \in Damaged :
       bridge' = [Noted(bridge, IF Holds(c) THEN "rejected" ELSE c, d) EXCEPT
                    !.fatal = @ \/ Head(req.todo)[2] \in {"hard", "stop"} \/ (c = "unbroken" /\ ~Holds(c)),
                    !.frozen = @ /\ ~(c \in {"refresh", "frozen?"} /\ ~Holds(c) /\ native.pause # native.breaked)]
  /\ wire' = <<>>
  /\ req' = AfterFailure(Head(req.todo)[2])
\* The deadline of a command, or the process is gone: retire.
Dies ==
  /\ req.m # "idle" /\ ~bridge.dead
  /\ bridge' = [bridge EXCEPT !.dead = TRUE] /\ req' = Idle("error") /\ UNCHANGED <<native, wire>>

-----------------------------------------------------------------------------
(* Steps without a command *)

\* advance_frames_cancellable: the pause update, a cancellation, or the host deadline.
ReadUpdate ==
  /\ req.todo # <<>> /\ Current = "wait" /\ wire # <<>>
  /\ bridge' = [bridge EXCEPT !.seen = Head(wire)] /\ wire' = Tail(wire) /\ UNCHANGED <<native, req>>
WaitEnds ==
  /\ req.todo # <<>> /\ Current = "wait"
  /\ \/ bridge.seen /\ Advance
     \/ /\ ~bridge.seen
        /\ req' = [req EXCEPT !.cut = TRUE, !.todo = StepInterrupted \o ReleaseTail]
  /\ UNCHANGED <<native, wire, bridge>>
Decide ==
  LET rest == Tail(req.todo) IN
  /\ req.todo # <<>>
  /\ \/ /\ Current = "stepped"
        /\ req' = [req EXCEPT !.cut = bridge.events # <<>>,
                     !.todo = (IF bridge.events # <<>> THEN StepBroken ELSE StepCompleted) \o rest]
     \/ /\ Current = "frozen->frame"
        /\ req' = [req EXCEPT !.todo = IF bridge.frozen THEN SubSeq(rest, 4, Len(rest)) ELSE rest]
     \/ /\ Current = "running->pause"
        /\ req' = [req EXCEPT !.was = ~bridge.frozen, !.todo = IF bridge.frozen THEN rest ELSE Pause \o rest]
     \/ /\ Current = "resume?"
        /\ req' = [req EXCEPT !.todo = IF req.was /\ ~req.cut THEN Resume ELSE rest]
     \/ /\ Current = "resumed"
        /\ req' = [req EXCEPT !.todo = IF bridge.frozen THEN Soft(<<"drain", "hit?">>) ELSE rest,
                     !.cut = IF req.m = "resume" THEN bridge.frozen ELSE @]
     \/ /\ Current = "hit?"
        /\ req' = [req EXCEPT !.todo = rest, !.err = @ \/ bridge.events = <<>>]
     \/ /\ Current = "count?"   \* the frame counter may have gone another way than asked
        /\ \E wrong \in BOOLEAN : req' = [req EXCEPT !.todo = rest, !.err = @ \/ wrong]
  /\ UNCHANGED <<native, wire, bridge>>
Deliver == \E matching \in BOOLEAN :
  /\ req.todo # <<>> /\ Current = "deliver"
  /\ bridge' = [bridge EXCEPT !.events = IF matching THEN <<>> ELSE @]
  /\ Advance /\ UNCHANGED <<native, wire>>

\* Which answers say that the machine is frozen.
SaysFrozen == req.m \in {"pause", "step", "step_instructions", "load", "reset", "media", "cleanup"}
                \/ (req.m = "press" /\ (~req.was \/ req.cut)) \/ (req.m = "resume" /\ req.cut)
Finish ==
  /\ req.m # "idle" /\ req.todo = <<>>
  /\ bridge' = IF req.err \/ bridge.fatal THEN bridge
               ELSE [bridge EXCEPT !.bps = CASE req.m = "set_breakpoint" -> @ \cup {req.arg}
                                             [] req.m = "clear_breakpoint" -> @ \ {req.arg} [] OTHER -> @,
                                   !.used = IF req.m = "set_breakpoint" THEN @ \cup {req.arg} ELSE @,
                                   !.parent = @ /\ req.m # "cleanup"]
  /\ req' = Idle(IF bridge.fatal THEN "error"
                 ELSE IF req.err THEN IF req.m = "load" THEN "load_failed" ELSE "error"
                 ELSE IF req.m = "cleanup" THEN "clean" ELSE IF SaysFrozen THEN "frozen" ELSE "ok")
  /\ UNCHANGED <<native, wire>>

MsxNext ==
  \/ \E m \in Methods, p \in MsxPoints : Begin(m, p)
  \/ BeginParent \/ FinishParent
  \/ Command \/ Refused \/ Dies \/ ReadUpdate \/ WaitEnds \/ Decide \/ Deliver \/ Finish
  \/ ((StartFrame \/ FrameTick \/ \E p \in MsxPoints : Hit(p)) /\ UNCHANGED <<bridge, req>>)

MsxSpec == MsxInit /\ [][MsxNext]_msxVars

-----------------------------------------------------------------------------
\* An answer that says frozen left openMSX paused and in the debugger with no delayed start of a frame
\* pending, which alone would move it again (an armed target cannot); the cleanup of a parent with effects
\* also left no frame target, and no key down if the parent recorded a port (a key held before stays).
MsxHaltIsReal ==
  /\ req.answer \in {"frozen", "clean"} => native.pause /\ native.breaked /\ ~native.due
  /\ req.answer = "clean" => ~native.target /\ (bridge.port => ~native.keys)

\* Unless control was retired, every hit waits in the Tcl queue or became an event of the bridge, or was
\* dropped: then its number is missing before the next event's hit_seq, and the missing numbers are those
\* counted in openMSX still, told by poll_events, or told by nobody because another drain read the count.
MsxHitsKept ==
  ~bridge.fatal => /\ native.seq = bridge.last + Len(native.queue) + native.dropped
                   /\ bridge.last = bridge.kept + bridge.told + bridge.mute
=============================================================================
