------------------------------ MODULE Np2kaiHost ------------------------------
(***************************************************************************)
(* The NP2kai frontend (emucap-np2kai): a libretro core run by one owner   *)
(* thread, and a server thread that passes it commands over a channel.     *)
(*                                                                         *)
(* The owner serves a command between two frames or runs a frame; a        *)
(* synchronous advance runs frames until it is done, a breakpoint stops    *)
(* it, its budget ends or it is cancelled.  The server waits for the reply *)
(* with a deadline and is retired when it passes.                          *)
(*                                                                         *)
(* No frame is counted and no memory kept: a frame is a step of the core   *)
(* that may queue a hit.                                                   *)
(***************************************************************************)
EXTENDS Integers

CONSTANTS MaxPendingEvents,   \* MAX_PENDING_EVENTS
          MaxNativeEvents,    \* the core's own event queue
          MaxHits, MaxReqs    \* bounds: hits, requests sent

VARIABLES native,   \* the core: its event queue and its breakpoint
          bridge,   \* the host on the owner thread, and the core's input
          wire,     \* the command in the channel and the reply
          req       \* the server thread and what the agent knows

npVars == <<native, bridge, wire, req>>

\* The commands of a parent operation, and those that are not.
ParentOps == {"begin", "finish", "detach", "pstep", "pinput", "ppause"}
ReadOps == {"batch", "poll"}
PlainOps == {"pause", "resume", "step", "press", "input", "insn", "write", "media", "save", "load", "reset",
             "set", "clear", "speed", "fast"} \union ReadOps
Advances == {"step", "press", "pstep"}

Idle == [cmd |-> "none", queued |-> FALSE, waiting |-> FALSE, cancelled |-> FALSE, reply |-> "none"]

NpInit ==
    /\ native = [queue |-> 0, lost |-> 0, armed |-> FALSE]
    /\ \E controlled \in BOOLEAN :
         bridge = [frozen |-> controlled, doing |-> "none", was |-> FALSE, pace |-> "limited",
                   pending |-> 0, dropped |-> 0, held |-> FALSE, keys |-> FALSE,
                   parent |-> "none", effects |-> FALSE, inputs |-> FALSE, over |-> FALSE]
    /\ wire = Idle
    /\ req = [count |-> 0, retired |-> FALSE, told |-> "unknown", hits |-> 0, settled |-> 0, mislaid |-> 0]

(***************************************************************************)
(* The core.                                                               *)
(***************************************************************************)
\* A breakpoint is reached, and its event queued or counted as lost.
Queued(nat) ==
    IF nat.queue < MaxNativeEvents THEN [nat EXCEPT !.queue = @ + 1]
    ELSE [nat EXCEPT !.lost = @ + 1]

MayHit == native.armed /\ req.hits < MaxHits

\* One retro_run: a whole frame, or up to a breakpoint.
FrameDone == UNCHANGED <<native, req>>

FrameStopped ==
    /\ MayHit
    /\ native' = Queued(native)
    /\ req' = [req EXCEPT !.hits = @ + 1]

(***************************************************************************)
(* The host's event queue.                                                 *)
(***************************************************************************)
\* n native events are queued; the oldest make room, and are counted.
Enqueue(b, n) ==
    LET over == b.pending + n - MaxPendingEvents
    IN  IF over > 0 THEN [b EXCEPT !.pending = MaxPendingEvents, !.dropped = @ + over]
        ELSE [b EXCEPT !.pending = @ + n]

\* drain_native_events.
Drained == Enqueue(bridge, native.queue)

(***************************************************************************)
(* Answering.                                                              *)
(***************************************************************************)
\* The reply of a handler; a server that stopped waiting makes the host give up.
Answer(b, says) ==
    /\ wire' = [wire EXCEPT !.reply = IF wire.waiting THEN says ELSE "none", !.cmd = "none",
                            !.queued = FALSE]
    /\ bridge' = [b EXCEPT !.doing = "none", !.over = ~wire.waiting]

Running(b) == IF b.frozen THEN "frozen" ELSE "running"

(***************************************************************************)
(* Commands.                                                               *)
(***************************************************************************)
\* Which commands the ownership of the moment lets through.
Admitted(cmd) ==
    CASE cmd = "begin" -> bridge.parent = "none"
      [] cmd \in ParentOps \ {"begin", "detach"} -> bridge.parent = "open"
      [] cmd \in ReadOps \union {"detach"} -> TRUE
      [] OTHER -> bridge.parent = "none"

NeedsFrozen == {"insn", "batch", "media", "save", "load"}

\* clean_parent: after an effect the machine is frozen and the inputs released.
CleanParent(b) ==
    [b EXCEPT !.parent = "none", !.effects = FALSE, !.inputs = FALSE,
              !.frozen = @ \/ b.effects,
              !.keys = @ /\ ~b.inputs, !.held = @ /\ ~b.inputs]

\* The commands that change the host alone, and what they answer.
Settles ==
    [pause  |-> [bridge EXCEPT !.frozen = TRUE],
     ppause |-> [bridge EXCEPT !.frozen = TRUE, !.effects = TRUE],
     resume |-> [bridge EXCEPT !.frozen = FALSE],
     speed  |-> [bridge EXCEPT !.pace = "limited"],
     fast   |-> [bridge EXCEPT !.pace = "unlimited"],
     begin  |-> [bridge EXCEPT !.parent = "open"],
     finish |-> CleanParent(bridge),
     detach |-> IF bridge.parent = "open" THEN CleanParent(bridge) ELSE bridge]

Says(cmd) ==
    CASE cmd \in {"pause", "ppause"} -> "frozen"
      [] cmd = "resume" -> "running"
      [] cmd = "finish" /\ bridge.effects -> "frozen"
      [] OTHER -> "unknown"

HostCommand(cmd) ==
    /\ cmd \in DOMAIN Settles
    /\ Answer(Settles[cmd], Says(cmd))
    /\ UNCHANGED <<native, req>>

SetInput(cmd) ==
    /\ cmd \in {"input", "pinput"}
    /\ \E buttons \in BOOLEAN :
         Answer([bridge EXCEPT !.held = buttons, !.keys = buttons,
                               !.effects = @ \/ cmd = "pinput", !.inputs = @ \/ cmd = "pinput"], "unknown")
    /\ UNCHANGED <<native, req>>

Breakpoints(cmd) ==
    /\ cmd \in {"set", "clear"}
    /\ LET drained == IF cmd = "clear" THEN Drained ELSE bridge
       IN Answer(drained, "unknown")
    /\ native' = [native EXCEPT !.armed = cmd = "set", !.queue = IF cmd = "clear" THEN 0 ELSE @]
    /\ UNCHANGED req

PollEvents(cmd) ==
    /\ cmd = "poll"
    /\ Answer([Drained EXCEPT !.pending = 0, !.dropped = 0], "unknown")
    /\ req' = [req EXCEPT !.settled = @ + Drained.pending + Drained.dropped + native.lost]
    /\ native' = [native EXCEPT !.queue = 0, !.lost = 0]

ReadMemoryBatch(cmd) ==
    /\ cmd = "batch" /\ bridge.frozen
    /\ Answer(bridge, "frozen")
    /\ UNCHANGED <<native, req>>

WriteMemory(cmd) == cmd = "write" /\ FrameDone /\ Answer(bridge, "unknown")

\* The host alone keeps the path of the medium, and it changes once the core
\* reports the new one.
ChangeMedia(cmd) == cmd = "media" /\ bridge.frozen /\ FrameDone /\ Answer(bridge, "frozen")

SaveState(cmd) == cmd = "save" /\ bridge.frozen /\ FrameDone /\ Answer(bridge, "frozen")

LoadState(cmd) == cmd = "load" /\ bridge.frozen /\ FrameDone /\ Answer(bridge, "frozen")

\* A stop met by the instructions or by the reset keeps its event.
StepInstructions(cmd) ==
    /\ cmd = "insn" /\ bridge.frozen
    /\ FrameDone \/ FrameStopped
    /\ Answer(bridge, "frozen")

Reset(cmd) ==
    /\ cmd = "reset"
    /\ FrameDone \/ FrameStopped
    /\ Answer([bridge EXCEPT !.frozen = TRUE], "frozen")

\* A synchronous advance begins: a step freezes, a pulse presses its buttons.
Advance(cmd) ==
    /\ cmd \in Advances
    /\ ~(cmd = "pstep" /\ wire.cancelled)
    /\ bridge' = [bridge EXCEPT !.doing = cmd, !.was = @ \/ bridge.frozen \/ cmd # "press",
                                !.frozen = @ \/ cmd # "press", !.keys = @ \/ cmd = "press",
                                !.effects = @ \/ cmd = "pstep"]
    /\ wire' = [wire EXCEPT !.queued = FALSE]
    /\ UNCHANGED <<native, req>>

Refused(cmd) ==
    /\ \/ ~Admitted(cmd)
       \/ cmd \in NeedsFrozen /\ ~bridge.frozen
       \/ cmd = "pstep" /\ wire.cancelled
    /\ Answer(bridge, "unknown")
    /\ UNCHANGED <<native, req>>

\* A handler that fails in the core: an attached host is unverified then, and ends; a legacy one goes on.
Fails(cmd, b) ==
    /\ wire' = [wire EXCEPT !.reply = IF wire.waiting THEN "unknown" ELSE "none", !.cmd = "none",
                            !.queued = FALSE]
    /\ \E attached \in BOOLEAN :
         /\ cmd \in ParentOps => attached
         /\ bridge' = [b EXCEPT !.over = attached \/ ~wire.waiting]

CoreFails(cmd) ==
    /\ cmd \notin {"pause", "resume", "ppause", "speed", "fast", "begin", "finish", "detach", "poll", "clear"}
    /\ Admitted(cmd) /\ (cmd \in NeedsFrozen => bridge.frozen)
    /\ Fails(cmd, [bridge EXCEPT !.frozen = @ \/ cmd \in {"step", "pstep"}])
    /\ UNCHANGED <<native, req>>

\* The core keeps its breakpoint after the drain, or the snapshot of an event that the drain has
\* taken from the core cannot be read: that event is gone, the ones before it are queued.
ClearFails(cmd) ==
    /\ cmd = "clear" /\ Admitted(cmd)
    /\ Fails(cmd, Drained) /\ native' = [native EXCEPT !.queue = 0]
    /\ UNCHANGED req

DrainFails(cmd) ==
    /\ cmd \in {"poll", "clear"} /\ Admitted(cmd)
    /\ \E n \in 0 .. native.queue - 1 :
         Fails(cmd, Enqueue(bridge, n)) /\ native' = [native EXCEPT !.queue = @ - n - 1]
    /\ req' = [req EXCEPT !.mislaid = @ + 1]

Processes(cmd) ==
    \/ Admitted(cmd) /\ \/ HostCommand(cmd) \/ SetInput(cmd) \/ Breakpoints(cmd) \/ PollEvents(cmd)
                        \/ ReadMemoryBatch(cmd) \/ WriteMemory(cmd) \/ ChangeMedia(cmd)
                        \/ SaveState(cmd) \/ LoadState(cmd) \/ StepInstructions(cmd)
                        \/ Reset(cmd) \/ Advance(cmd)
    \/ Refused(cmd)
    \/ CoreFails(cmd) \/ ClearFails(cmd) \/ DrainFails(cmd)

(***************************************************************************)
(* The owner loop.                                                         *)
(***************************************************************************)
OwnerFree == ~bridge.over /\ bridge.doing = "none"

\* Frozen, it waits for a command; at a limited pace, until the frame is due;
\* at an unlimited pace it looks before every frame.
TakesCommand == OwnerFree /\ wire.queued /\ Processes(wire.cmd)

\* A frame runs when it is due, and a limited pace makes it due whenever the
\* host is late: the channel is not looked at then.
ScheduledFrame ==
    /\ OwnerFree /\ ~bridge.frozen
    /\ bridge.pace = "unlimited" => ~wire.queued
    /\ \/ FrameDone /\ UNCHANGED bridge
       \/ FrameStopped /\ bridge' = [bridge EXCEPT !.frozen = TRUE]
    /\ UNCHANGED wire

\* The end of an advance: buttons of a pulse are given back, and a run that was
\* stopped stays frozen.
EndsAdvance(stopped) ==
    LET b == [bridge EXCEPT !.frozen = bridge.was \/ stopped, !.was = FALSE, !.keys = bridge.held]
    IN Answer(b, Running(b))

AdvanceFrame ==
    /\ ~bridge.over /\ bridge.doing # "none" /\ ~wire.cancelled
    /\ \/ FrameDone /\ UNCHANGED <<bridge, wire>>
       \/ FrameStopped /\ EndsAdvance(TRUE)

\* All frames are run, or none of the next may start: budget or cancellation.
AdvanceEnds ==
    /\ ~bridge.over /\ bridge.doing # "none"
    /\ \E stopped \in BOOLEAN : EndsAdvance(stopped)
    /\ UNCHANGED <<native, req>>

OwnerLoop == TakesCommand \/ ScheduledFrame \/ AdvanceFrame \/ AdvanceEnds

(***************************************************************************)
(* The server thread.                                                      *)
(***************************************************************************)
Send(op) ==
    /\ ~req.retired /\ wire = Idle /\ req.count < MaxReqs
    /\ wire' = [Idle EXCEPT !.cmd = op, !.queued = TRUE, !.waiting = TRUE]
    /\ req' = [req EXCEPT !.count = @ + 1, !.told = "unknown"]
    /\ UNCHANGED <<native, bridge>>

CancelStep ==
    /\ wire.waiting /\ wire.cmd = "pstep" /\ ~wire.cancelled
    /\ wire' = [wire EXCEPT !.cancelled = TRUE]
    /\ UNCHANGED <<native, bridge, req>>

TakesReply ==
    /\ wire.waiting /\ wire.reply # "none"
    /\ req' = [req EXCEPT !.told = wire.reply]
    /\ wire' = Idle
    /\ UNCHANGED <<native, bridge>>

\* The deadline passes, before the reply or just after it was sent.
GivesUp ==
    /\ wire.waiting
    /\ wire' = [wire EXCEPT !.waiting = FALSE, !.reply = "none"]
    /\ req' = [req EXCEPT !.retired = TRUE]
    /\ UNCHANGED <<native, bridge>>

NpNext ==
    \/ OwnerLoop
    \/ \E op \in PlainOps \union ParentOps : Send(op)
    \/ CancelStep \/ TakesReply \/ GivesUp

NpSpec == NpInit /\ [][NpNext]_npVars

(***************************************************************************)
(* Properties.                                                             *)
(***************************************************************************)
\* While the agent believes the machine frozen, it is; and between commands the
\* core sees the buttons that are held and no others, whatever interrupted a
\* pulse or ended a parent operation (run_one_frame, press_buttons, clean_parent).
NpHaltIsReal ==
    /\ req.told = "frozen" => bridge.frozen
    /\ bridge.doing = "none" /\ ~bridge.over => bridge.keys = bridge.held

\* Every breakpoint hit is queued, delivered or counted as dropped, except the one that a failing
\* drain had in hand (drain_native_events): its poll or clear is answered with an error.
NpHitsKept ==
    req.hits = req.settled + req.mislaid + native.queue + native.lost + bridge.pending + bridge.dropped
===============================================================================
