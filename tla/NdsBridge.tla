------------------------------ MODULE NdsBridge ------------------------------
(* The NDS bridge (nds_bridge.rs, nds_bridge/) of a managed launch: two GDB   *)
(* endpoints, one per CPU, over DeSmuME's single scheduler.  A stop of either *)
(* CPU stops both, but is announced on one endpoint only.  An exchange that   *)
(* fails poisons its endpoint, and the bridge then serves no more requests.   *)
EXTENDS Naturals, Sequences, FiniteSets, SequencesExt

CONSTANTS Armed,       \* the CPUs that get breakpoints
          MaxHits,     \* bound: breakpoint hits of one behaviour
          MaxReqs      \* bound: requests of one behaviour

VARIABLES native,      \* DeSmuME: scheduler, frame step, breakpoints, forced input
          wire,        \* per endpoint: requests on their way in, packets on their way out
          bridge,      \* the NdsBridge and its two CpuConns
          req          \* the request being served

ndsVars == <<native, wire, bridge, req>>

Cpus == {"arm9", "arm7"}
Idle(answer) == [m |-> "idle", cpu |-> "arm9", todo |-> <<>>, waits |-> "none", reply |-> "none", resume |-> FALSE,
                 stop |-> "none", from |-> "arm9", asked |-> FALSE, cancel |-> FALSE, answer |-> answer]
NdsInit ==
  /\ native = [run |-> FALSE, frame |-> "none", points |-> {}, hits |-> 0, keys |-> FALSE, timed |-> FALSE]
  /\ wire = [in |-> [c \in Cpus |-> <<>>], out |-> [c \in Cpus |-> <<>>]]
  /\ bridge = [frozen |-> [c \in Cpus |-> TRUE], events |-> [c \in Cpus |-> 0], held |-> 0, told |-> 0, bps |-> <<>>,
               terminal |-> FALSE, parent |-> "none", effects |-> FALSE, port |-> FALSE, reqs |-> 0]
  /\ req = Idle("none")

-----------------------------------------------------------------------------
(* DeSmuME, as the bridge uses it *)

Announce(c, p) == wire' = [wire EXCEPT !.out[c] = Append(@, p)]
Parked(n) == [n EXCEPT !.run = FALSE, !.frame = IF @ = "going" THEN "interrupted" ELSE @]
Hit(c) ==
  /\ native.run /\ c \in native.points /\ native.hits < MaxHits
  /\ native' = [Parked(native) EXCEPT !.hits = @ + 1] /\ Announce(c, "hit")
FrameCompletes ==
  /\ native.run /\ native.frame = "going"
  /\ native' = [native EXCEPT !.run = FALSE, !.frame = "completed"] /\ Announce("arm9", "trap")
TimedReleases == native.run /\ native.timed /\ native' = [native EXCEPT !.timed = FALSE, !.keys = FALSE] /\ UNCHANGED wire
\* Queries the fork answers while the guest runs; anything else sent to a running stub is refused.
RunningSafe == {"haltstate", "inputstatus", "rate"}
Handle(c) ==
  LET q == Head(wire.in[c])
      Reply(p) == wire' = [wire EXCEPT !.in[c] = Tail(@), !.out[c] = Append(@, p)]
      Silent == wire' = [wire EXCEPT !.in[c] = Tail(@)]
  IN
  /\ wire.in[c] # <<>>
  /\ \/ q = "int" /\ native.run /\ native' = Parked(native) /\ Reply("S02")
     \/ q = "int" /\ ~native.run /\ UNCHANGED native /\ Silent     \* a stopped stub does not answer 0x03
     \/ native.run /\ q \notin RunningSafe \cup {"int"} /\ UNCHANGED native /\ Silent
     \/ q = "haltstate" /\ Reply(IF native.run THEN "running" ELSE "parked") /\ UNCHANGED native
     \/ q = "inputstatus" /\ Reply(IF native.timed THEN "left" ELSE "0") /\ UNCHANGED native
     \/ q = "rate" /\ Reply("ok") /\ UNCHANGED native
     \/ /\ ~native.run
        /\ \/ q = "status" /\ Reply(native.frame) /\ UNCHANGED native
           \/ q = "s" /\ Reply("trap") /\ UNCHANGED native
           \/ q = "read" /\ (Reply("ok") \/ Reply("error")) /\ UNCHANGED native
           \/ q = "hold" /\ Reply("ok") /\ native' = [native EXCEPT !.keys = TRUE, !.timed = FALSE]
           \/ q = "release" /\ Reply("ok") /\ native' = [native EXCEPT !.keys = FALSE, !.timed = FALSE]
           \/ q = "timed" /\ Reply("ok") /\ native' = [native EXCEPT !.keys = TRUE, !.timed = TRUE]
           \/ q = "Z" /\ Reply("ok") /\ native' = [native EXCEPT !.points = @ \cup {c}]
           \/ q = "z" /\ Reply("ok") /\ native' = [native EXCEPT !.points = @ \ {c}]
Emulate == FrameCompletes \/ TimedReleases \/ \E c \in Cpus : Hit(c) \/ Handle(c)

-----------------------------------------------------------------------------
(* Scripts *)

WithFrozen(cmd) == <<"pause", cmd, "unpause">>
Resume == <<"drain both", "c">>
Pause == <<"halt">>
SetInput == <<"halt", "hold">>
StepFrames == <<"halt", "take both", "haltstate", "parked!", "framestep", "halt", "status", "haltstate", "parked!", "terminal">>
StepInstructions == <<"pause", "drain", "s", "all frozen", "read">>
SharedRead == <<"share", "pause", "read", "unpause", "unshare">>
TimedInput == <<"frozen?">> \o WithFrozen("timed") \o <<"resume if frozen", "drain", "inputstatus", "released?">>
Reset == <<"pause", "drain", "read", "all frozen">>
Status == <<"drain both", "inputstatus", "rate">>
ExecutionSpeed == <<"drain both", "rate", "rate", "drain both">>
ReadMemoryBatch == <<"drain both", "frozen!", "drain", "read">>
PollEvents == <<"drain both", "tell">>
SetBreakpoint == WithFrozen("Z") \o <<"added">>
ClearBreakpoint == WithFrozen("z") \o <<"removed">>
CleanParent == <<"halt", "release ports", "close">>
Script(m) ==
  CASE m = "pause" -> Pause [] m = "resume" -> Resume [] m = "set_input" -> SetInput [] m = "step" -> StepFrames
    [] m = "step_instructions" -> StepInstructions [] m = "find_pattern" -> SharedRead [] m = "press" -> TimedInput
    [] m = "reset" -> Reset [] m = "status" -> Status [] m = "speed" -> ExecutionSpeed [] m = "batch" -> ReadMemoryBatch
    [] m = "poll" -> PollEvents [] m = "set_breakpoint" -> SetBreakpoint [] m = "clear_breakpoint" -> ClearBreakpoint
    [] m \in {"read", "save", "load", "screenshot"} -> WithFrozen("read")
ParentMethods == {"set_input", "pause", "step"}
Reads == {"read", "status", "batch", "poll", "find_pattern"}
Methods == ParentMethods \cup Reads \cup {"resume", "step_instructions", "press", "reset", "speed", "set_breakpoint", "clear_breakpoint"}
\* These are always addressed to the ARM9.
PerCpu == {"read", "find_pattern", "step_instructions", "set_breakpoint", "clear_breakpoint"}

-----------------------------------------------------------------------------
(* The bridge *)

Do(c) == req.todo # <<>> /\ Head(req.todo) = c /\ req.waits = "none"
Rest == Tail(req.todo)
Answer(a) == req' = Idle(a)
Conn == req.cpu
Hits(ps) == Len(SelectSeq(ps, LAMBDA p : p = "hit"))
\* note_stop: every stop but the bridge's own SIGINT freezes its core and is an event.
NoteStop(b, c, p) ==
  IF p = "S02" THEN b ELSE [b EXCEPT !.frozen[c] = TRUE, !.events[c] = @ + (IF p = "hit" THEN 1 ELSE 0)]
Stops(c) == wire.out[c] # <<>>
\* drain_stops: what can be read of the endpoint now.
Drained(b, c) == IF Stops(c) THEN [NoteStop(b, c, "trap") EXCEPT !.events[c] = @ + Hits(wire.out[c])] ELSE b
SetSchedulerFrozen(b, f) == [b EXCEPT !.frozen = [c \in Cpus |-> f]]
\* drain_scheduler_stops: one frozen core makes both frozen.
DrainSchedulerStops ==
  LET d == Drained(Drained(bridge, "arm9"), "arm7")
  IN IF \E c \in Cpus : d.frozen[c] THEN SetSchedulerFrozen(d, TRUE) ELSE d
\* A failed exchange leaves control unverified.
Retire == bridge' = [bridge EXCEPT !.terminal = TRUE] /\ Answer("error")
\* Only what restores the machine is left of a request that failed.
Failed(r) == [r EXCEPT !.m = "failed", !.waits = "none", !.todo = SelectSeq(@, LAMBDA x : x \in {"unpause", "unshare"})]

Begin(m, c) ==
  /\ req.m = "idle" /\ ~bridge.terminal /\ bridge.reqs < MaxReqs
  /\ bridge.parent = "open" => m \in ParentMethods \cup Reads
  /\ m \notin PerCpu => c = "arm9"
  /\ m = "set_breakpoint" => c \in Armed /\ Len(bridge.bps) < 2
  /\ m = "clear_breakpoint" => c \in ToSet(bridge.bps)
  /\ bridge' = [bridge EXCEPT !.reqs = @ + 1, !.effects = @ \/ (bridge.parent = "open" /\ m \in ParentMethods),
                              !.port = @ \/ (bridge.parent = "open" /\ m = "set_input")]
  /\ req' = [Idle("none") EXCEPT !.m = m, !.cpu = c, !.todo = Script(m)]
  /\ UNCHANGED <<native, wire>>
BeginParent ==
  /\ req.m = "idle" /\ ~bridge.terminal /\ bridge.parent = "none" /\ bridge.reqs < MaxReqs
  /\ bridge' = [bridge EXCEPT !.parent = "open", !.effects = FALSE, !.port = FALSE, !.reqs = @ + 1]
  /\ UNCHANGED <<native, wire, req>>
FinishParent ==
  /\ req.m = "idle" /\ ~bridge.terminal /\ bridge.parent = "open"
  /\ req' = [Idle("none") EXCEPT !.m = "finish", !.todo = IF bridge.effects THEN CleanParent ELSE <<"close">>]
  /\ UNCHANGED <<native, wire, bridge>>

\* CpuConn::pause: drain this endpoint, interrupt unless that showed a stop; a drained stop is not resumed past.
PauseConn ==
  /\ Do("pause") /\ UNCHANGED native
  /\ \/ bridge.frozen[Conn] /\ req' = [req EXCEPT !.todo = Rest, !.resume = FALSE] /\ UNCHANGED <<wire, bridge>>
     \/ /\ ~bridge.frozen[Conn] /\ Stops(Conn) /\ bridge' = Drained(bridge, Conn)
        /\ wire' = [wire EXCEPT !.out[Conn] = <<>>] /\ req' = [req EXCEPT !.todo = Rest, !.resume = FALSE]
     \/ /\ ~bridge.frozen[Conn] /\ ~Stops(Conn) /\ UNCHANGED <<wire, bridge>>
        /\ req' = [req EXCEPT !.todo = <<"interrupt">> \o Rest, !.resume = TRUE]
Interrupt ==
  /\ Do("interrupt") /\ wire' = [wire EXCEPT !.in[Conn] = Append(@, "int")]
  /\ req' = [req EXCEPT !.waits = "stop"] /\ UNCHANGED <<native, bridge>>
Interrupted ==
  /\ req.waits = "stop" /\ Stops(Conn)
  /\ bridge' = [NoteStop(bridge, Conn, Head(wire.out[Conn])) EXCEPT !.frozen[Conn] = TRUE]
  /\ wire' = [wire EXCEPT !.out[Conn] = Tail(@)] /\ req' = [req EXCEPT !.waits = "none", !.todo = Rest] /\ UNCHANGED native
\* send_no_reply waits for the acknowledgement, with which the stub acts on the packet.
Continue(c) ==
  /\ native' = IF bridge.frozen[c] THEN [native EXCEPT !.run = TRUE] ELSE native
  /\ bridge' = [bridge EXCEPT !.frozen[c] = FALSE]
Unpause ==
  /\ Do("unpause") /\ req' = [req EXCEPT !.todo = Rest] /\ UNCHANGED wire
  /\ IF req.resume THEN Continue(Conn) ELSE UNCHANGED <<native, bridge>>
\* with_shared_scheduler_frozen interrupts one running endpoint, the ARM9 first.
Share ==
  LET c == IF bridge.frozen["arm9"] THEN "arm7" ELSE "arm9" IN
  /\ Do("share") /\ UNCHANGED native
  /\ \/ /\ \A d \in Cpus : bridge.frozen[d]
        /\ req' = [req EXCEPT !.todo = Rest, !.from = "none"] /\ UNCHANGED <<wire, bridge>>
     \/ /\ ~bridge.frozen[c] /\ Stops(c) /\ bridge' = Drained(bridge, c)
        /\ wire' = [wire EXCEPT !.out[c] = <<>>] /\ req' = [req EXCEPT !.todo = Rest, !.from = "none"]
     \/ /\ ~bridge.frozen[c] /\ ~Stops(c) /\ wire' = [wire EXCEPT !.in[c] = Append(@, "int")]
        /\ req' = [req EXCEPT !.waits = "shared", !.from = c] /\ UNCHANGED bridge
Shared ==
  /\ req.waits = "shared" /\ Stops(req.from)
  /\ bridge' = [NoteStop(bridge, req.from, Head(wire.out[req.from])) EXCEPT !.frozen[req.from] = TRUE]
  /\ wire' = [wire EXCEPT !.out[req.from] = Tail(@)] /\ req' = [req EXCEPT !.waits = "none", !.todo = Rest] /\ UNCHANGED native
Unshare ==
  /\ Do("unshare") /\ req' = [req EXCEPT !.todo = Rest] /\ UNCHANGED wire
  /\ IF req.from = "none" THEN UNCHANGED <<native, bridge>> ELSE Continue(req.from)

\* exchange, owned_exchange: stops ahead of the reply are noted; `s` is answered by a stop.
Requests == {"read", "hold", "release", "timed", "Z", "z", "inputstatus", "rate", "haltstate", "status", "s"}
Endpoint == IF req.waits \in {"haltstate", "status", "hold", "release", "timed", "inputstatus", "rate"} THEN "arm9" ELSE Conn
Send ==
  /\ req.todo # <<>> /\ req.waits = "none" /\ Head(req.todo) \in Requests
  /\ LET q == Head(req.todo) c == IF q \in {"haltstate", "status"} THEN "arm9" ELSE Conn IN
     wire' = [wire EXCEPT !.in[c] = Append(@, q)] /\ req' = [req EXCEPT !.waits = q]
  /\ UNCHANGED <<native, bridge>>
Receive ==
  LET p == Head(wire.out[Endpoint])
      skip == p \in {"hit", "S02"} \/ (p = "trap" /\ req.waits # "s")
  IN
  /\ req.waits \in Requests /\ Stops(Endpoint) /\ UNCHANGED native
  /\ wire' = [wire EXCEPT !.out[Endpoint] = Tail(@)]
  /\ \/ skip /\ req.waits # "s" /\ bridge' = NoteStop(bridge, Endpoint, p) /\ UNCHANGED req
     \/ /\ ~skip \/ req.waits = "s"
        /\ IF p = "error"
           THEN /\ req' = Failed(req)
                /\ bridge' = [bridge EXCEPT !.terminal = req.m \in {"batch", "speed"}]
           ELSE req' = [req EXCEPT !.waits = "none", !.reply = p, !.todo = Rest] /\ UNCHANGED bridge
\* Nothing comes within the budget of the exchange.
TimesOut == req.waits \notin {"none", "frame"} /\ Retire /\ UNCHANGED <<native, wire>>

\* verify_owned_halt: the native proof, or one interrupt, a stop of either endpoint, and then the proof.
HaltProof == Do("halt") /\ req' = [req EXCEPT !.todo = <<"haltstate", "halted?">> \o Rest, !.asked = FALSE]
             /\ UNCHANGED <<native, wire, bridge>>
Halted == req.reply = "parked"
HaltDecide ==
  /\ Do("halted?") /\ UNCHANGED native
  /\ \/ Halted /\ bridge' = SetSchedulerFrozen(bridge, TRUE) /\ req' = [req EXCEPT !.todo = Rest] /\ UNCHANGED wire
     \/ /\ ~Halted /\ ~req.asked /\ wire' = [wire EXCEPT !.in["arm9"] = Append(@, "int")]
        /\ req' = [req EXCEPT !.asked = TRUE, !.waits = "any stop"] /\ UNCHANGED bridge
     \/ /\ ~Halted /\ req.asked /\ UNCHANGED <<wire, bridge>>
        /\ req' = [req EXCEPT !.todo = <<"haltstate">> \o req.todo]
     \/ ~Halted /\ req.asked /\ Retire /\ UNCHANGED wire
AnyStop ==
  /\ req.waits = "any stop" /\ UNCHANGED native
  /\ \E c \in Cpus :
       /\ Stops(c) /\ (c = "arm7" => ~Stops("arm9"))
       /\ bridge' = NoteStop(bridge, c, Head(wire.out[c])) /\ wire' = [wire EXCEPT !.out[c] = Tail(@)]
  /\ req' = [req EXCEPT !.waits = "none", !.todo = <<"haltstate">> \o req.todo]

\* owned_frame_step.
FrameSend ==
  /\ Do("framestep") /\ UNCHANGED wire
  /\ \/ Answer("error") /\ UNCHANGED <<native, bridge>>                    \* cancelled before admission
     \/ /\ native' = [native EXCEPT !.run = TRUE, !.frame = "going"]
        /\ bridge' = SetSchedulerFrozen(bridge, FALSE) /\ req' = [req EXCEPT !.waits = "frame", !.cancel = FALSE]
FrameStop ==
  /\ req.waits = "frame" /\ UNCHANGED <<native, bridge>>
  /\ \E c \in Cpus : /\ Stops(c) /\ (c = "arm7" => ~Stops("arm9"))
                     /\ wire' = [wire EXCEPT !.out[c] = Tail(@)]
                     /\ req' = [req EXCEPT !.waits = "none", !.todo = Rest, !.stop = Head(wire.out[c]), !.from = c]
\* A cancellation or the host deadline sends one interrupt; without a stop in time control is unverified.
FrameCancel ==
  /\ req.waits = "frame" /\ UNCHANGED native
  /\ IF req.cancel THEN Retire /\ UNCHANGED wire
     ELSE /\ wire' = [wire EXCEPT !.in["arm9"] = Append(@, "int")]
          /\ req' = [req EXCEPT !.cancel = TRUE] /\ UNCHANGED bridge
\* finish_frame_step: the stop of an interrupted advance is an event, the terminal of a completed one is not.
FinishFrameStep == IF native.frame = "interrupted" THEN NoteStop(bridge, req.from, req.stop) ELSE bridge
Terminal ==
  /\ Do("terminal") /\ bridge' = FinishFrameStep /\ req' = [req EXCEPT !.todo = Rest, !.stop = "none"] /\ UNCHANGED <<native, wire>>

Resumed(b) == SetSchedulerFrozen(b, FALSE)
ResumeScheduler ==
  /\ Do("c") /\ req' = [req EXCEPT !.todo = Rest] /\ bridge' = Resumed(bridge) /\ UNCHANGED wire
  /\ native' = IF bridge.frozen["arm9"] THEN [native EXCEPT !.run = TRUE] ELSE native
\* The rest of the steps of the scripts.
Step ==
  LET Then(s) == req' = [req EXCEPT !.todo = s \o Rest] IN
  \/ /\ Do("drain both") /\ Then(<<>>) /\ bridge' = DrainSchedulerStops
     /\ wire' = [wire EXCEPT !.out = [c \in Cpus |-> <<>>]]
  \/ /\ Do("take both") /\ Then(<<>>) /\ bridge' = Drained(Drained(bridge, "arm9"), "arm7")
     /\ wire' = [wire EXCEPT !.out = [c \in Cpus |-> <<>>]]
  \/ Do("drain") /\ Then(<<>>) /\ bridge' = Drained(bridge, Conn) /\ wire' = [wire EXCEPT !.out[Conn] = <<>>]
  \/ Do("all frozen") /\ Then(<<>>) /\ bridge' = SetSchedulerFrozen(bridge, TRUE) /\ UNCHANGED wire
  \/ /\ Do("parked!") /\ UNCHANGED wire
     /\ IF req.reply = "parked" THEN Then(<<>>) /\ UNCHANGED bridge ELSE Retire
  \/ Do("frozen!") /\ (IF bridge.frozen["arm9"] THEN Then(<<>>) ELSE Answer("error")) /\ UNCHANGED <<wire, bridge>>
  \/ Do("frozen?") /\ req' = [req EXCEPT !.todo = Rest, !.asked = bridge.frozen["arm9"]] /\ UNCHANGED <<wire, bridge>>
  \/ Do("resume if frozen") /\ Then(IF req.asked THEN Resume ELSE <<>>) /\ UNCHANGED <<wire, bridge>>
  \/ /\ Do("released?") /\ UNCHANGED <<wire, bridge>>       \* wait_timed_override
     /\ \/ bridge.frozen["arm9"] /\ Then(<<"release">>)
        \/ ~bridge.frozen["arm9"] /\ req.reply = "0" /\ Then(<<>>)
        \/ ~bridge.frozen["arm9"] /\ req.reply = "left" /\ Then(<<"drain", "inputstatus", "released?">>)
        \/ ~bridge.frozen["arm9"] /\ req.reply = "left" /\ req' = [req EXCEPT !.m = "failed", !.todo = WithFrozen("release")]
  \/ /\ Do("tell") /\ UNCHANGED wire /\ Answer("ok")        \* a poll with a filter holds the events that do not match
     /\ LET all == bridge.held + bridge.events["arm9"] + bridge.events["arm7"] IN
        \E n \in {0, all} : bridge' = [bridge EXCEPT !.told = @ + n, !.held = all - n, !.events = [c \in Cpus |-> 0]]
  \/ Do("added") /\ Then(<<>>) /\ bridge' = [bridge EXCEPT !.bps = Append(@, Conn)] /\ UNCHANGED wire
  \/ /\ Do("removed") /\ Then(<<>>) /\ UNCHANGED wire
     /\ \E i \in DOMAIN bridge.bps : bridge.bps[i] = Conn /\ bridge' = [bridge EXCEPT !.bps = RemoveAt(@, i)]
  \/ Do("release ports") /\ Then(IF bridge.port THEN <<"release", "inputstatus">> ELSE <<>>) /\ UNCHANGED <<wire, bridge>>
  \/ /\ Do("close") /\ UNCHANGED wire
     /\ bridge' = [bridge EXCEPT !.parent = "none"] /\ Answer(IF bridge.effects THEN "clean" ELSE "ok")

SaysFrozen == req.m \in {"pause", "step", "step_instructions", "reset", "batch"}
              \/ (req.m \in {"status", "speed", "press"} /\ bridge.frozen["arm9"])
Finish ==
  /\ req.m # "idle" /\ req.todo = <<>> /\ req.waits = "none"
  /\ Answer(IF req.m = "failed" THEN "error" ELSE IF SaysFrozen THEN "frozen" ELSE "ok")
  /\ UNCHANGED <<native, wire, bridge>>

NdsNext ==
  \/ \E m \in Methods, c \in Cpus : Begin(m, c)
  \/ BeginParent \/ FinishParent \/ PauseConn \/ Interrupt \/ Interrupted \/ Unpause \/ Share \/ Shared \/ Unshare
  \/ Send \/ Receive \/ TimesOut \/ HaltProof \/ HaltDecide \/ AnyStop \/ FrameSend \/ FrameStop \/ FrameCancel \/ Terminal \/ ResumeScheduler
  \/ (Step /\ UNCHANGED native) \/ Finish
  \/ (Emulate /\ UNCHANGED <<bridge, req>>)

NdsSpec == NdsInit /\ [][NdsNext]_ndsVars

-----------------------------------------------------------------------------
\* An answer that says frozen finds the scheduler stopped, and so does every core the bridge believes
\* frozen between requests, with no frame step under way; the cleanup of a parent that recorded its port
\* also left no button held.
NdsHaltIsReal ==
  /\ req.answer \in {"frozen", "clean"} => ~native.run /\ native.frame # "going"
  /\ req.m = "idle" /\ ~bridge.terminal => \A c \in Cpus : bridge.frozen[c] => ~native.run
  /\ req.answer = "clean" /\ bridge.port => ~native.keys

\* Unless the bridge gave up, every breakpoint hit is told, held, queued for its core, in the hands of
\* the frame step or still to be read.
NdsHitsKept ==
  ~bridge.terminal => native.hits = bridge.told + bridge.held + (IF req.stop = "hit" THEN 1 ELSE 0)
    + bridge.events["arm9"] + bridge.events["arm7"] + Hits(wire.out["arm9"]) + Hits(wire.out["arm7"])

=============================================================================
