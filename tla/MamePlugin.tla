---------------------------- MODULE MamePlugin ----------------------------
(* The native side of the two MAME adapters: the Lua plugin                  *)
(* emucap_gdbstub, which answers GDB packets on MAME's emulation thread.     *)
(* Stops of debugger points are packets nobody asked for: they may overtake  *)
(* the answer of a command that is on its way.                               *)
EXTENDS Naturals, Sequences

CONSTANTS Points,      \* debugger points the client may set
          Tracing      \* the points of them with pause_on_hit = false

VARIABLES native,      \* the machine and the plugin's variables
          wire         \* cmd: the packet to the plugin; out: packets from it

\* What the plugin sends: its kind, the command it answers, the point it reports.
Packet(k, c, p) == [k |-> k, c |-> c, p |-> p]
Sends(pks) == wire' = [cmd |-> "none", out |-> wire.out \o pks]
Emits(pks) == wire' = [wire EXCEPT !.out = @ \o pks]

\* The machine after boot: it waits in the debugger, no point is set.
PluginInit ==
  /\ \E s \in BOOLEAN :
       native = [paused |-> TRUE, running |-> FALSE, wait |-> "none", cmd |-> "none", owner |-> "none",
                 settling |-> "none", hold |-> FALSE, armed |-> {}, held |-> FALSE,
                 settled |-> s, hits |-> 0]
  /\ wire = [cmd |-> "none", out |-> <<>>]

\* clear_frame_wait: a timed input ends with the wait that carries it.
NoWait(n) == [n EXCEPT !.wait = "none", !.held = @ /\ n.wait # "press"]
\* service_frozen_socket: the machine is halted for as long as nothing resumes it.
Halted(n) == [n EXCEPT !.paused = TRUE, !.running = FALSE, !.hold = FALSE]
Result(n, r) == [n EXCEPT !.owner = IF @ = "going" THEN r ELSE @]

\* request_settled_stop, or the stop that note_stop settles on a later tick.
Stopping(n, reply) ==
  IF n.settled THEN [Halted(n) EXCEPT !.settling = reply]
  ELSE [n EXCEPT !.running = FALSE, !.hold = TRUE]

\* start_frame_wait.
Waiting(n, w, c) ==
  [n EXCEPT !.wait = w, !.cmd = c, !.running = TRUE, !.paused = FALSE, !.hold = FALSE]

-----------------------------------------------------------------------------
(* What happens on the emulation thread by itself *)

\* note_breakpoint: the point is cleared; a tracing point lets the machine run on.
NoteBreakpoint(p) ==
  LET goes == p \in Tracing
      keeps == goes /\ native.owner # "none"
      hit == [native EXCEPT !.armed = @ \ {p}, !.hits = @ + 1]
      replies == native.wait # "none" /\ ~keeps
      next == IF keeps THEN hit
              ELSE IF goes THEN [NoWait(hit) EXCEPT !.running = TRUE]
              ELSE Result(Halted(NoWait(hit)), "cut") IN
  /\ p \in native.armed /\ ~native.paused /\ ~native.hold /\ native.settling = "none"
  /\ native' = next
  /\ Emits(<<Packet("stop", IF replies /\ native.owner = "none" THEN native.cmd ELSE "async", p)>>)

\* note_stop: an explicit stop is settled, the end of an instruction step is reported.
NoteStop ==
  /\ native.hold /\ ~native.paused /\ native.settling = "none"
  /\ native' = Halted(NoWait(native))
  /\ IF native.wait = "step" THEN Emits(<<Packet("stop", native.cmd, "none")>>) ELSE UNCHANGED wire

\* The frame notifier: the target is reached, or its deadline has passed.
FrameNotifier(r) ==
  LET done == Result(NoWait(native), IF r = "ok" THEN "completed" ELSE "cut")
      stops == native.wait \in {"stop", "probe"} \/ r = "deadline"
      reply == IF native.wait = "probe" /\ r = "ok" THEN "data" ELSE r IN
  /\ native.wait \notin {"none", "step"} /\ ~native.paused
  /\ native' = IF stops THEN Stopping(done, IF native.owner = "none" THEN reply ELSE "owned") ELSE done
  /\ IF native.owner # "none" \/ (stops /\ native.settled) THEN UNCHANGED wire
     ELSE Emits(<<Packet(reply, native.cmd, "none")>>)

\* The periodic callback answers a stop once the scheduler has unwound.
SettledStop ==
  /\ native.settling # "none"
  /\ native' = [native EXCEPT !.settling = "none"]
  /\ IF native.settling = "owned" THEN UNCHANGED wire
     ELSE Emits(<<Packet(IF native.settling = "int" THEN "stop" ELSE native.settling,
                         IF native.settling = "int" THEN "int" ELSE native.cmd, "none")>>)

-----------------------------------------------------------------------------
(* handle: one packet from the bridge *)

\* What is served while an owned frame operation runs.
Observes == {"frame", "haltstate", "pacing", "features", "inputstatus", "inputfields", "pointerstatus",
             "media", "framepoll", "framecancel", "framefinish", "g", "m"}
DataCommands == {"frame", "pacing", "features", "inputfields", "pointerstatus", "media", "g", "m",
                 "peek", "setpacing", "mediachange", "pollreset", "items", "pixels", "health", "regload"}
OkCommands == {"opdeadline", "M", "ok", "finishload"}
FrameWaits == [framestep |-> "stop", runframes |-> "run", press |-> "press", pointermove |-> "stop",
               regprobe |-> "probe"]

\* Served inside a throttle wait, before a pending stop is settled.
MidWait == {"frame", "framepoll", "haltstate", "pacing", "features", "media", "inputstatus", "inputfields",
            "pointerstatus"}
Takes(c) == /\ wire.cmd = c /\ native.settling = "none"
            /\ native.hold /\ ~native.paused => c \in MidWait
            /\ native.owner = "none" \/ c \in Observes \cup {"int"}
Says(c, k) == Sends(<<Packet(k, c, "none")>>)

HandleData == \E c \in DataCommands, k \in {"data", "err"} :
  Takes(c) /\ Says(c, k) /\ UNCHANGED native
HandleOk == \E c \in OkCommands, k \in {"ok", "err"} :
  Takes(c) /\ Says(c, k) /\ UNCHANGED native
HandleRefused == \E c \in {"stop", "framebegin", "setinput", "setpoint", "clearpoint", "peek", "setpacing",
                           "items", "pixels", "regload", "M", "ok"} \cup DOMAIN FrameWaits :
  /\ wire.cmd = c /\ native.owner # "none" /\ native.settling = "none"
  /\ Says(c, "err") /\ UNCHANGED native

HandlePoint == \E p \in Points :
  \/ /\ Takes("setpoint") /\ p \notin native.armed
     /\ native' = [native EXCEPT !.armed = @ \cup {p}] /\ Sends(<<Packet("data", "setpoint", p)>>)
  \/ /\ Takes("clearpoint")
     /\ native' = [native EXCEPT !.armed = @ \ {p}] /\ Says("clearpoint", "ok")
  \/ Takes("setpoint") /\ Says("setpoint", "err") /\ UNCHANGED native
HandleSetInput == \E keys \in BOOLEAN, k \in {"ok", "err"} :
  /\ Takes("setinput") \/ Takes("release")
  /\ wire.cmd = "release" => ~keys
  /\ native' = [native EXCEPT !.held = IF k = "ok" THEN keys ELSE @]
  /\ Says(wire.cmd, k)
HandleInputStatus ==
  /\ Takes("inputstatus") /\ Says("inputstatus", IF native.held THEN "held" ELSE "free")
  /\ UNCHANGED native

HandleFrameWait == \E c \in DOMAIN FrameWaits :
  /\ Takes(c)
  /\ \/ Says(c, "err") /\ UNCHANGED native
     \/ /\ native.wait = "none"
        /\ native' = [Waiting(native, FrameWaits[c], c) EXCEPT !.held = @ \/ c = "press"]
        /\ Sends(<<>>)
HandleStep ==
  /\ Takes("s") /\ Sends(<<>>)
  /\ native' = [Waiting(native, "step", "s") EXCEPT !.hold = TRUE]
HandleContinue ==
  /\ Takes("c") /\ Sends(<<>>)
  /\ native' = [native EXCEPT !.running = TRUE, !.paused = FALSE, !.hold = FALSE]
HandleStop ==
  /\ Takes("stop") /\ Says("stop", "ok")
  /\ native' = Halted(NoWait(native))
HandleInterrupt ==
  LET cut == Result(NoWait(native), "cut") IN
  /\ Takes("int")
  /\ IF native.settled /\ ~native.paused
     THEN native' = Stopping(cut, "int") /\ Sends(<<>>)
     ELSE native' = Halted(cut) /\ Says("int", "stop")

HandleHaltState ==
  /\ Takes("haltstate") /\ UNCHANGED native
  /\ Says("haltstate", IF /\ native.paused /\ ~native.running
                          /\ native.wait = "none" /\ native.owner = "none" THEN "frozen" ELSE "running")
\* owned_frame_payload.
OwnedPhase(n) == IF n.owner = "going" THEN "going"
                 ELSE IF n.paused /\ ~n.running /\ n.settling = "none" THEN n.owner ELSE "stopping"
HandleFrameBegin ==
  /\ Takes("framebegin")
  /\ IF native.wait # "none" \/ native.running \/ ~native.paused
     THEN Says("framebegin", "err") /\ UNCHANGED native
     ELSE /\ native' = [Waiting(native, "stop", "framebegin") EXCEPT !.owner = "going"]
          /\ Says("framebegin", "going")
HandleFramePoll ==
  /\ Takes("framepoll") /\ native.owner # "none"
  /\ Says("framepoll", OwnedPhase(native)) /\ UNCHANGED native
HandleFrameCancel ==
  LET cut == Stopping(Result(NoWait(native), "cut"), "owned") IN
  /\ Takes("framecancel") /\ native.owner # "none"
  /\ IF native.owner # "going"
     THEN UNCHANGED native /\ Says("framecancel", OwnedPhase(native))
     ELSE /\ native' = IF native.settled THEN cut ELSE Halted(cut)
          /\ Says("framecancel", OwnedPhase(cut))
HandleFrameFinish ==
  /\ Takes("framefinish")
  /\ IF native.owner # "none" /\ OwnedPhase(native) \in {"completed", "cut"}
     THEN native' = [native EXCEPT !.owner = "none"] /\ Says("framefinish", OwnedPhase(native))
     ELSE Says("framefinish", "err") /\ UNCHANGED native

Handle ==
  \/ HandleData \/ HandleOk \/ HandleRefused \/ HandlePoint \/ HandleSetInput \/ HandleInputStatus
  \/ HandleFrameWait \/ HandleStep \/ HandleContinue \/ HandleStop \/ HandleInterrupt
  \/ HandleHaltState \/ HandleFrameBegin \/ HandleFramePoll \/ HandleFrameCancel \/ HandleFrameFinish

Emulate ==
  \/ \E p \in Points : NoteBreakpoint(p)
  \/ NoteStop
  \/ \E r \in {"ok", "deadline"} : FrameNotifier(r)
  \/ SettledStop

\* The machine is verifiably halted: nothing is on its way that would move it.
ReallyHalted == native.paused /\ ~native.running /\ native.wait = "none" /\ native.owner = "none"
=============================================================================
