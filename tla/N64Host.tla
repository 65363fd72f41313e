------------------------------ MODULE N64Host -----------------------------
(* The N64 adapter (n64_adapter*.rs): a host thread that serves requests and *)
(* the emulation thread of Mupen64Plus in one process.  They meet in the     *)
(* debugger's run state and semaphore, in UPDATE_COUNT and in the frame gate *)
(* that holds the emulation thread inside its frame callback.  Calls into    *)
(* the core are taken to succeed; waits may time out.                        *)
EXTENDS Naturals, Sequences, FiniteSets

CONSTANTS Points,      \* breakpoints the client may set
          MaxReqs      \* bound: requests of one behaviour

VARIABLES native,      \* the core: emulation thread, run state, semaphore, breakpoint latch, input
          wire,        \* what the callbacks share with the host: the gate, UPDATE_COUNT, job results
          bridge,      \* the Mupen64PlusHost
          req          \* the request being served

n64Vars == <<native, wire, bridge, req>>

Idle(answer) == [m |-> "idle", todo |-> <<>>, answer |-> answer, before |-> 0, arg |-> "none", trig |-> "frame",
                 left |-> 0, was |-> FALSE, cut |-> FALSE, asked |-> FALSE, paused |-> FALSE, old |-> "native"]

\* Ready: the first rendered frame was seen, the machine runs.
N64Init ==
  /\ native = [emu |-> "run", rs |-> "running", sem |-> 0, latch |-> "none", points |-> {}, keys |-> "native",
               job |-> "none"]
  /\ wire = [arm |-> FALSE, trig |-> "frame", blocked |-> FALSE, upd |-> 0, result |-> "none",
             parm |-> FALSE, shot |-> "none", pc |-> "none"]
  /\ bridge = [frozen |-> FALSE, framePaused |-> FALSE, dead |-> FALSE, keys |-> "native", base |-> "none", scope |-> "none",
               parent |-> "none", effects |-> FALSE, port |-> FALSE, bps |-> {}, last |-> 0, events |-> 0,
               late |-> FALSE, over |-> FALSE, reqs |-> 0]
  /\ req = Idle("none")

-----------------------------------------------------------------------------
(* The emulation thread *)

\* update_debugger: a hit sets the latch and pauses; whoever is paused calls debug_update_callback
\* and waits.  The thread is taken to reach its semaphore before the host looks again.
DebugUpdateCallback(n) ==
  /\ native' = [n EXCEPT !.emu = "wait"]
  /\ wire' = [wire EXCEPT !.upd = @ + 1, !.pc = n.latch]
Boundary ==
  /\ native.emu = "run"
  /\ \/ \E p \in native.points : DebugUpdateCallback([native EXCEPT !.rs = "paused", !.latch = p])
     \/ native.rs = "paused" /\ DebugUpdateCallback(native)
\* A step call releases the thread.
Released ==
  /\ native.emu = "wait" /\ native.sem > 0
  /\ native' = [native EXCEPT !.emu = "run", !.sem = @ - 1]
  /\ UNCHANGED wire
\* completed_boundary, from frame_callback and poll_callback.
CompletedBoundary(poll) ==
  /\ native.emu = "run" /\ wire.arm
  /\ CASE wire.trig = "frame" -> ~poll [] wire.trig = "poll" -> poll [] OTHER -> ~poll /\ wire.shot # "none"
  /\ native' = [native EXCEPT !.emu = "gate"]
  /\ wire' = [wire EXCEPT !.arm = FALSE, !.trig = "frame", !.blocked = TRUE]
LeaveGate ==
  /\ native.emu = "gate" /\ ~wire.blocked
  /\ native' = [native EXCEPT !.emu = "run"]
  /\ UNCHANGED wire
\* state_callback: the result of a screenshot or of a state job, which may be a failure.
StateCallback ==
  /\ native.emu = "run" /\ native.job # "none" /\ \E r \in {"ok", "bad"} :
       wire' = IF native.job = "shot" THEN [wire EXCEPT !.shot = r] ELSE [wire EXCEPT !.result = r]
  /\ native' = [native EXCEPT !.job = IF @ = "shot" THEN "none" ELSE "boundary"]
\* pause_on_state_boundary.
PauseOnStateBoundary ==
  /\ native.emu = "run" /\ native.job = "boundary"
  /\ native' = [native EXCEPT !.job = "none", !.rs = IF wire.parm THEN "paused" ELSE @]
  /\ wire' = [wire EXCEPT !.parm = FALSE]

Emulate == Boundary \/ Released \/ (\E poll \in BOOLEAN : CompletedBoundary(poll))
             \/ LeaveGate \/ StateCallback \/ PauseOnStateBoundary

-----------------------------------------------------------------------------
(* Scripts *)

Pause == <<"drain->frozen", "paused?", "before", "rs paused", "await pause", "frozen">>
Resume == <<"drain", "was?", "rs running", "let go", "running">>
\* One iteration of step_with_frame_gate.
FrameIteration == <<"next", "before", "arm", "go", "gate">>
StepWithFrameGate == <<"frozen?">> \o FrameIteration
RunFrames == <<"pause first">> \o StepWithFrameGate \o <<"resume!">>
StepInstructions == <<"frozen?", "before", "to boundary", "step", "await step", "drain->frozen", "frozen">>
SetInput == <<"publish">>
PressButtons == <<"pause first", "publish">> \o StepWithFrameGate \o <<"restore">>
Screenshot == <<"frozen?", "shoot">> \o StepWithFrameGate \o <<"shot?">>
CompleteStateJob == <<"before", "parm">> \o Resume \o <<"await job", "frozen", "result?">>
SaveState == <<"frozen?", "job">> \o CompleteStateJob
LoadState == <<"frozen?", "job">> \o CompleteStateJob
Reset == <<"reset from", "reset", "resume?">>
Status == <<"drain", "belief">>
Observe == <<"frozen?">>
ExecutionSpeed == <<"drain", "belief">>
PollEvents == <<"drain", "deliver">>
SetBreakpoint == <<"point">>
ClearBreakpoint == <<"point">>
CleanParent == <<"drain", "parked?", "before", "park", "release", "close">>

Script(m) ==
  CASE m = "status" -> Status [] m = "pause" -> Pause [] m = "resume" -> Resume
    [] m \in {"step", "step_input_polls"} -> StepWithFrameGate [] m = "run_frames" -> RunFrames
    [] m = "step_instructions" -> StepInstructions [] m = "set_input" -> SetInput [] m = "press" -> PressButtons
    [] m = "screenshot" -> Screenshot [] m = "save" -> SaveState [] m = "load" -> LoadState
    [] m = "reset" -> Reset [] m = "observe" -> Observe [] m = "speed" -> ExecutionSpeed
    [] m = "poll" -> PollEvents [] m = "set_breakpoint" -> SetBreakpoint
    [] m = "clear_breakpoint" -> ClearBreakpoint [] m = "finish" -> CleanParent
ParentMethods == {"set_input", "pause", "step", "step_input_polls"}
Methods == ParentMethods \cup {"status", "resume", "run_frames", "step_instructions", "press", "screenshot", "save",
             "load", "reset", "observe", "speed", "poll", "set_breakpoint", "clear_breakpoint"}
Reads == {"status", "observe", "poll"}

-----------------------------------------------------------------------------
(* The host *)

Current == Head(req.todo)
Do(c) == req.todo # <<>> /\ Current = c
Advance == req' = [req EXCEPT !.todo = Tail(@)]
Becomes(items) == req' = [req EXCEPT !.todo = items]
Answer(a) == req' = Idle(a)
Keep(vs) == UNCHANGED vs

\* handle_request, handle_parent_request and authorize_unscoped.
Begin(m, p) ==
  /\ req.m = "idle" /\ ~bridge.dead /\ bridge.reqs < MaxReqs
  /\ bridge.parent = "open" => m \in ParentMethods \cup Reads
  /\ m = "set_breakpoint" => p \notin bridge.bps
  /\ m = "clear_breakpoint" => p \in bridge.bps
  /\ bridge' = [bridge EXCEPT !.reqs = @ + 1, !.effects = @ \/ (bridge.parent = "open" /\ m \notin Reads),
                              !.port = @ \/ (bridge.parent = "open" /\ m = "set_input")]
  /\ \E n \in IF m \in {"step", "step_input_polls"} THEN 1..2 ELSE {1} : req' = [Idle("none") EXCEPT !.m = m, !.todo = Script(m), !.arg = p, !.left = n,
       !.trig = CASE m = "step_input_polls" -> "poll" [] m = "screenshot" -> "shot" [] OTHER -> "frame"]
  /\ Keep(<<native, wire>>)
\* begin_temporal_operation keeps the input to return to; finish or detach cleans up.
BeginParent ==
  /\ req.m = "idle" /\ ~bridge.dead /\ bridge.parent = "none" /\ bridge.reqs < MaxReqs
  /\ bridge' = [bridge EXCEPT !.parent = "open", !.scope = bridge.keys, !.effects = FALSE, !.port = FALSE,
                              !.reqs = @ + 1]
  /\ Keep(<<native, wire, req>>)
FinishParent ==
  /\ req.m = "idle" /\ ~bridge.dead /\ bridge.parent = "open"
  /\ req' = [Idle("none") EXCEPT !.m = "finish", !.todo = IF bridge.effects THEN CleanParent ELSE <<"close">>]
  /\ Keep(<<native, wire, bridge>>)

\* drain_debug_update: the latch is read once per debugger update; a hit settles what is frozen.
Drained(b) ==
  IF wire.upd <= b.last THEN b
  ELSE IF native.latch = "none" THEN [b EXCEPT !.last = wire.upd]
  ELSE [b EXCEPT !.last = wire.upd, !.frozen = TRUE, !.framePaused = FALSE,
                 !.events = @ + (IF native.latch \in b.bps /\ wire.pc = native.latch THEN 1 ELSE 0)]
Consumed(n) == IF wire.upd <= bridge.last THEN n ELSE [n EXCEPT !.latch = "none"]
Matches == native.latch \in bridge.bps /\ wire.pc = native.latch
Fresh == wire.upd > bridge.last /\ native.latch # "none"
\* A pause and an instruction step are answered from the debugger, the others from a verified stop.
Stopped == IF req.m \in {"pause", "step_instructions", "run_frames", "press", "reset"} THEN "paused" ELSE "frozen"
Drain ==
  /\ Do("drain") \/ Do("drain->frozen")
  /\ bridge' = [Drained(bridge) EXCEPT !.dead = req.m = "speed" /\ Fresh /\ ~Matches]
  /\ native' = Consumed(native) /\ Keep(<<wire>>)
  /\ IF Fresh /\ ~Matches
     THEN IF req.m \in {"finish", "save", "load"} THEN Becomes(<<"stop">>) ELSE Answer("error")
     ELSE IF ~Fresh \/ Current = "drain" THEN Advance
     ELSE IF req.m \in {"press", "reset"} THEN Becomes(SubSeq(req.todo, 7, Len(req.todo)))
     ELSE Answer(Stopped)
Deliver == Do("deliver") /\ bridge' = [bridge EXCEPT !.events = 0] /\ Advance /\ Keep(<<native, wire>>)

\* stop_generation_with_unresolved_effect: the gate is opened and the generation ends.
StopGeneration ==
  /\ wire' = [wire EXCEPT !.arm = FALSE, !.trig = "frame", !.blocked = FALSE]
  /\ bridge' = [bridge EXCEPT !.dead = TRUE, !.frozen = FALSE, !.framePaused = FALSE]
  /\ Answer("error") /\ Keep(<<native>>)
Stop == Do("stop") /\ StopGeneration

\* Reads of the shared state, and what the handlers conclude from them.
AtBoundary == bridge.frozen /\ (native.rs = "paused" \/ (bridge.framePaused /\ wire.blocked))
Local ==
  /\ \/ Do("frozen?") /\ IF AtBoundary THEN Advance ELSE Answer("error")
     \/ /\ Do("paused?")
        /\ Becomes(IF bridge.framePaused \/ native.rs = "paused" THEN SubSeq(req.todo, 5, Len(req.todo))
                   ELSE Tail(req.todo))
     \/ Do("before") /\ req' = [req EXCEPT !.todo = Tail(@), !.before = wire.upd, !.asked = FALSE]
     \/ Do("was?") /\ req' = [req EXCEPT !.todo = Tail(@), !.paused = native.rs = "paused"]
     \/ /\ Do("pause first")
        /\ req' = [req EXCEPT !.was = AtBoundary,
                     !.todo = IF AtBoundary THEN Tail(@) ELSE Pause \o Tail(@)]
     \/ Do("resume?") /\ Becomes(IF req.was THEN Tail(req.todo) ELSE Resume \o Tail(req.todo))
     \/ Do("resume!") /\ Becomes(IF req.cut THEN Tail(req.todo) ELSE Resume \o Tail(req.todo))
     \/ /\ Do("parked?")
        /\ Becomes(IF AtBoundary THEN SubSeq(req.todo, 4, Len(req.todo)) ELSE Tail(req.todo))
     \/ /\ Do("reset from")
        /\ req' = [req EXCEPT !.was = AtBoundary, !.todo =
             (IF bridge.framePaused /\ wire.blocked THEN <<"before", "rs paused", "release gate", "await reset">>
              ELSE IF AtBoundary THEN <<>> ELSE Pause) \o Tail(@)]
     \/ /\ Do("to boundary")
        /\ Becomes(IF bridge.framePaused
                   THEN <<"rs paused", "release gate", "await boundary">> \o SubSeq(req.todo, 5, Len(req.todo))
                   ELSE Tail(req.todo))
  /\ Keep(<<native, wire, bridge>>)
Believe ==
  /\ \/ Do("frozen") /\ bridge' = [bridge EXCEPT !.frozen = TRUE]
     \/ Do("running") /\ bridge' = [bridge EXCEPT !.frozen = FALSE, !.framePaused = FALSE]
     \/ /\ Do("belief")
        /\ bridge' = [bridge EXCEPT !.frozen = native.rs = "paused" \/ (bridge.framePaused /\ wire.blocked)]
  /\ Advance /\ Keep(<<native, wire>>)

SetRunState ==
  /\ Do("rs paused") \/ Do("rs running")
  /\ native' = [native EXCEPT !.rs = IF Current = "rs paused" THEN "paused" ELSE "running"]
  /\ bridge' = [bridge EXCEPT !.over = @ \/ (Current = "rs running" /\ native.latch # "none")]
  /\ Advance /\ Keep(<<wire>>)
DebugStep == Do("step") /\ native' = [native EXCEPT !.sem = @ + 1] /\ Advance /\ Keep(<<wire, bridge>>)
\* resume: the gate, or the debugger, or nothing lets the thread go.
LetGo ==
  /\ Do("let go")
  /\ IF bridge.framePaused /\ ~wire.blocked THEN Becomes(<<"before", "park", "error">>) /\ Keep(<<native, wire>>)
     ELSE /\ Advance
          /\ IF bridge.framePaused THEN wire' = [wire EXCEPT !.blocked = FALSE] /\ Keep(<<native>>)
             ELSE native' = [native EXCEPT !.sem = @ + (IF req.paused THEN 1 ELSE 0)] /\ Keep(<<wire>>)
  /\ Keep(<<bridge>>)
ReleaseGate ==
  /\ Do("release gate")
  /\ IF wire.blocked THEN wire' = [wire EXCEPT !.blocked = FALSE] /\ Advance
     ELSE Becomes(<<"before", "park", "error">>) /\ Keep(<<wire>>)
  /\ Keep(<<native, bridge>>)

\* wait_until, with its deadline.
Awaits(c) ==
  CASE c = "await step" -> wire.upd > req.before
    [] c = "await job" -> wire.result # "none" /\ ~wire.parm /\ wire.upd > req.before /\ native.rs = "paused"
    [] OTHER -> wire.upd > req.before /\ native.rs = "paused"
Waits == {"await pause", "await step", "await boundary", "await reset", "await job", "await recovery"}
Await ==
  /\ req.todo # <<>> /\ Current \in Waits /\ Awaits(Current)
  /\ bridge' = [bridge EXCEPT !.framePaused = IF Current = "await step" THEN @ ELSE FALSE,
                              !.frozen = @ \/ Current = "await recovery"]
  /\ Advance /\ Keep(<<native, wire>>)
AwaitTimesOut ==
  /\ req.todo # <<>> /\ Current \in Waits /\ ~Awaits(Current)
  /\ IF Current = "await job" THEN Becomes(<<"stop">>) /\ Keep(<<bridge>>)
     ELSE IF Current \in {"await step", "await boundary"}
     THEN Becomes(<<"rs paused", "await recovery", "error">>) /\ Keep(<<bridge>>)
     ELSE Answer("error") /\ bridge' = [bridge EXCEPT !.late = TRUE]
  /\ Keep(<<native, wire>>)

-----------------------------------------------------------------------------
(* The frame gate *)

\* The top of an iteration: a cancellation, or the host budget, ends the step where it is.
NextIteration ==
  LET rest == SubSeq(req.todo, 6, Len(req.todo)) IN
  /\ Do("next")
  /\ \/ Advance
     \/ req' = [req EXCEPT !.todo = <<"frozen">> \o rest, !.cut = TRUE]
  /\ Keep(<<native, wire, bridge>>)
ArmFrameGate ==
  /\ Do("arm")
  /\ IF wire.arm THEN Answer("error") /\ Keep(<<wire>>)
     ELSE wire' = [wire EXCEPT !.arm = TRUE, !.trig = req.trig] /\ Advance
  /\ Keep(<<native, bridge>>)
Go ==
  /\ Do("go")
  /\ Becomes((IF bridge.framePaused THEN <<"rs running", "release gate">> ELSE <<"rs running", "step">>) \o Tail(req.todo))
  /\ bridge' = [bridge EXCEPT !.framePaused = @ /\ ~wire.blocked]
  /\ Keep(<<native, wire>>)

\* Mutant: a frame gate that is given up stays armed.
CancelFrameGateArmed(w) == [w EXCEPT !.trig = "frame", !.blocked = FALSE]

CancelFrameGate(w) == [w EXCEPT !.arm = FALSE, !.trig = "frame", !.blocked = FALSE]

\* wait_frame_gate_or_debug_update.
WaitGate ==
  /\ Do("gate")
  /\ \/ /\ wire.blocked                                      \* the frame
        /\ bridge' = [bridge EXCEPT !.framePaused = TRUE, !.frozen = @ \/ req.left = 1]
        /\ req' = [req EXCEPT !.left = @ - 1, !.todo = IF req.left > 1 THEN FrameIteration \o Tail(@) ELSE Tail(@)]
        /\ Keep(<<native, wire>>)
     \/ /\ ~wire.blocked /\ wire.upd > req.before            \* a debugger update
        /\ wire' = CancelFrameGate(wire) /\ bridge' = Drained(bridge) /\ native' = Consumed(native)
        /\ req' = IF Fresh /\ Matches THEN [req EXCEPT !.todo = <<"frozen">> \o Tail(@), !.cut = TRUE]
                  ELSE IF Fresh THEN [req EXCEPT !.todo = <<"error">>]
                  ELSE [req EXCEPT !.todo = <<"before", "park", "error">>]
     \/ /\ req' = [req EXCEPT !.todo = <<"park", "cancelled">> \o Tail(@)]   \* a cancellation
        /\ Keep(<<native, wire, bridge>>)
     \/ /\ ~wire.blocked /\ wire.upd <= req.before           \* the deadline
        /\ \E a \in {"error", "cancelled"} : req' = [req EXCEPT !.todo = <<"before", "park", a>> \o Tail(@)]
        /\ Keep(<<native, wire, bridge>>)
\* A native pause flag alone is insufficient: a newer debugger callback must acknowledge it.
StopProven == native.rs = "paused" /\ wire.upd > req.before
\* park_cancelled_at: a held gate, or a debugger update that is newer, proves the stop.
Park ==
  /\ Do("park")
  /\ \/ /\ wire.blocked
        /\ bridge' = [bridge EXCEPT !.framePaused = TRUE, !.frozen = TRUE] /\ Advance /\ Keep(<<native, wire>>)
     \/ /\ ~wire.blocked /\ StopProven
        /\ wire' = [wire EXCEPT !.arm = FALSE, !.trig = "frame"]
        /\ bridge' = [bridge EXCEPT !.framePaused = FALSE, !.frozen = TRUE] /\ Advance /\ Keep(<<native>>)
     \/ /\ ~wire.blocked /\ ~req.asked
        /\ native' = [native EXCEPT !.rs = "paused"] /\ req' = [req EXCEPT !.asked = TRUE] /\ Keep(<<wire, bridge>>)
     \/ /\ ~wire.blocked /\ ~StopProven /\ req.asked
        /\ StopGeneration
\* What the step returns after a stop; a pulse or a screenshot goes on with its own cleanup.
Cancelled ==
  /\ Do("cancelled")
  /\ bridge' = Drained(bridge) /\ native' = Consumed(native) /\ Keep(<<wire>>)
  /\ IF Fresh /\ ~Matches THEN Becomes(<<"stop">>) ELSE req' = [req EXCEPT !.todo = Tail(@), !.cut = TRUE]
Failed ==
  /\ Do("error")
  /\ IF req.m = "screenshot" THEN Becomes(<<"stop">>)
     ELSE IF "restore" \in {req.todo[i] : i \in DOMAIN req.todo} THEN Becomes(<<"restore", "failed">>)
     ELSE Answer("error")
  /\ Keep(<<native, wire, bridge>>)

-----------------------------------------------------------------------------
(* Input, jobs, reset, breakpoints *)

Publish(k) == native' = [native EXCEPT !.keys = k] /\ bridge' = [bridge EXCEPT !.keys = k]
PublishController ==
  /\ Do("publish") /\ bridge.base = "none"
  /\ \E k \in {"native", "held"} : (req.m = "press" => k = "held") /\ Publish(k)
  /\ req' = [req EXCEPT !.todo = Tail(@), !.old = bridge.keys] /\ Keep(<<wire>>)
\* A parent's input scope: acquire at a frozen boundary, release restores; others are busy.
ScopeInput ==
  /\ Do("publish") /\ Keep(<<wire>>)
  /\ \/ /\ bridge.parent = "open" /\ bridge.base = "none" /\ AtBoundary /\ Advance
        /\ native' = [native EXCEPT !.keys = "held"]
        /\ bridge' = [bridge EXCEPT !.base = bridge.keys, !.keys = "held"]
     \/ /\ bridge.parent = "open" /\ bridge.base # "none" /\ Advance
        /\ native' = [native EXCEPT !.keys = bridge.base]
        /\ bridge' = [bridge EXCEPT !.base = "none", !.keys = bridge.base]
     \/ bridge.base # "none" /\ Answer("error") /\ Keep(<<native, bridge>>)
\* The pulse ends: the input comes back, and a machine that ran is resumed.
Restore ==
  /\ Do("restore") /\ Publish(req.old)
  /\ req' = [req EXCEPT !.todo = (IF req.was \/ req.cut THEN <<>> ELSE Resume) \o Tail(@)] /\ Keep(<<wire>>)
FailedPulse == Do("failed") /\ Answer("error") /\ Keep(<<native, wire, bridge>>)
\* clean_parent gives the ports back as they were when the parent began.
ReleasePorts ==
  /\ Do("release") /\ Advance /\ Keep(<<wire>>)
  /\ IF bridge.port THEN /\ native' = [native EXCEPT !.keys = bridge.scope]
                        /\ bridge' = [bridge EXCEPT !.keys = bridge.scope, !.base = "none"]
     ELSE Keep(<<native, bridge>>)
Close ==
  /\ Do("close") /\ bridge' = [bridge EXCEPT !.parent = "none"] /\ Answer(IF bridge.effects THEN "clean" ELSE "ok")
  /\ Keep(<<native, wire>>)
Shoot ==
  /\ Do("shoot") /\ native' = [native EXCEPT !.job = "shot"] /\ wire' = [wire EXCEPT !.shot = "none"]
  /\ Advance /\ Keep(<<bridge>>)
ShotResult ==
  /\ Do("shot?")
  /\ \/ wire.shot # "none" /\ Answer(IF wire.shot = "ok" THEN "frozen" ELSE "error") /\ Keep(<<native, wire, bridge>>)
     \/ wire.shot = "none" /\ StopGeneration
StartJob ==
  /\ Do("job") /\ native' = [native EXCEPT !.job = "job"] /\ wire' = [wire EXCEPT !.result = "none"]
  /\ Advance /\ Keep(<<bridge>>)
ArmStatePause == Do("parm") /\ wire' = [wire EXCEPT !.parm = TRUE] /\ Advance /\ Keep(<<native, bridge>>)
JobResult ==
  /\ Do("result?") /\ IF wire.result = "ok" THEN Answer("frozen") ELSE Becomes(<<"stop">>)
  /\ Keep(<<native, wire, bridge>>)
\* reset marks every debugger update as seen.
ResetCore ==
  /\ Do("reset") /\ bridge' = [bridge EXCEPT !.last = wire.upd, !.frozen = TRUE]
  /\ Advance /\ Keep(<<native, wire>>)
\* set_breakpoint and clear_breakpoint, on the live core.
Point ==
  LET new == IF req.m = "set_breakpoint" THEN bridge.bps \cup {req.arg} ELSE bridge.bps \ {req.arg} IN
  /\ Do("point") /\ bridge' = [bridge EXCEPT !.bps = new] /\ native' = [native EXCEPT !.points = new]
  /\ Advance /\ Keep(<<wire>>)
\* Which answers say that the machine is frozen.
SaysFrozen == \/ req.m \in {"pause", "step", "step_input_polls", "step_instructions"}
              \/ req.m \in {"press", "reset"} /\ req.was
              \/ req.m \in {"press", "run_frames"} /\ req.cut
Finish ==
  /\ req.m # "idle" /\ req.todo = <<>> /\ Answer(IF SaysFrozen THEN Stopped ELSE "ok")
  /\ Keep(<<native, wire, bridge>>)

N64Next ==
  \/ \E m \in Methods, p \in Points : Begin(m, p)
  \/ BeginParent \/ FinishParent \/ Drain \/ Deliver \/ Stop \/ Local \/ Believe \/ SetRunState \/ DebugStep \/ LetGo
  \/ ReleaseGate \/ Await \/ AwaitTimesOut \/ NextIteration \/ ArmFrameGate \/ Go \/ WaitGate \/ Park \/ Cancelled
  \/ Failed \/ PublishController \/ ScopeInput \/ Restore \/ FailedPulse \/ ReleasePorts \/ Close \/ Shoot \/ ShotResult \/ StartJob
  \/ ArmStatePause \/ JobResult \/ ResetCore \/ Point \/ Finish
  \/ (Emulate /\ UNCHANGED <<bridge, req>>)

N64Spec == N64Init /\ [][N64Next]_n64Vars

-----------------------------------------------------------------------------
\* The emulation thread is held in its frame callback, or waits in the debugger with no step pending.
Parked == \/ native.emu = "gate" /\ wire.blocked
          \/ native.emu = "wait" /\ native.rs = "paused" /\ native.sem = 0
\* No debugger wait timed out and left its request standing, and no run state was set over a hit that
\* was not read yet: in both cases the flags that pause and resume read no longer tell where the thread is.
Settled == ~bridge.late /\ ~bridge.over

\* An answer that says frozen was given while the emulation thread was parked, whatever frame, hit,
\* job or cancellation raced the request, unless the host is no longer Settled; the cleanup of a parent that
\* recorded its port also gave the port back as it was.
N64HaltIsReal ==
  /\ req.answer \in {"frozen", "paused", "clean"} /\ Settled => Parked
  /\ req.answer = "clean" /\ bridge.port => native.keys = bridge.scope /\ bridge.base = "none"

\* Between requests the gate is never left armed, it holds the thread only if the host knows that it
\* must be released, and no step call is left over for a later wait.
N64GateIsKnown ==
  req.m = "idle" /\ ~bridge.dead /\ Settled =>
    (wire.blocked <=> bridge.framePaused) /\ ~wire.arm /\ (native.sem > 0 => native.emu = "wait")

=============================================================================
