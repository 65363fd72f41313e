----------------------------- MODULE Pcsx2Bridge -----------------------------
(* The PlayStation 2 bridge (pcsx2_bridge.rs, pcsx2_bridge/) over PINE, one   *)
(* exchange at a time: a reply that is late or malformed retires the stream.  *)
(* Pauses and frame steps are native operations with an identity; only their  *)
(* Finished receipt releases the CPU.  A cancellation gives everything that   *)
(* follows one stop budget, which nothing but the parent's end renews.        *)
EXTENDS Naturals, Sequences, FiniteSets

CONSTANTS Cards,       \* memory card files of the managed directory
          MaxHits,     \* bound: breakpoint hits of one behaviour
          MaxReqs      \* bound: requests of one behaviour

VARIABLES native,      \* PCSX2: execution, operation, breakpoint, events, input, memory card
          bridge,      \* the Pcsx2Bridge
          req          \* the request being served

pcsxVars == <<native, bridge, req>>

NoOp == [id |-> 0, kind |-> "none", phase |-> "finished", reason |-> "completed", cancel |-> FALSE]
Idle(answer) == [m |-> "idle", todo |-> <<>>, reply |-> "none", was |-> "none", id |-> 0, card |-> "none",
                 cancelled |-> FALSE, asked |-> FALSE, answer |-> answer]
Pcsx2Init ==
  /\ native = [run |-> TRUE, op |-> NoOp, point |-> FALSE, hits |-> 0, events |-> 0, keys |-> FALSE, card |-> "none", busy |-> FALSE]
  /\ bridge = [terminal |-> FALSE, last |-> 0, bp |-> FALSE, told |-> 0, parent |-> "none", effects |-> FALSE, port |-> FALSE,
               stop |-> "none", due |-> "none", reqs |-> 0]
  /\ req = Idle("none")

-----------------------------------------------------------------------------
(* PCSX2 as its patches make it: a native operation, the breakpoint events, the pad override, the memory card *)

OpOpen == native.op.phase # "finished"
Stopped(n, why) == [n EXCEPT !.run = FALSE, !.op = IF @.phase = "running" THEN [@ EXCEPT !.phase = "terminal", !.reason = why] ELSE @]
Hit == /\ native.run /\ native.point /\ native.hits < MaxHits
       /\ native' = [Stopped(native, "stop") EXCEPT !.hits = @ + 1, !.events = @ + 1]
ExternalPause == native.run /\ native' = Stopped(native, "stop")
\* FrameOperations::Service of a queued operation; a fault it meets is among the replies that retire the stream.
OpStarts ==
  /\ native.op.phase = "admitted"
  /\ \/ /\ native.op.kind = "frames" /\ ~native.op.cancel
        /\ native' = [native EXCEPT !.op.phase = "running", !.run = TRUE]
     \/ \E r \in {"completed", "cancelled", "host_deadline"} :
          /\ r = "completed" <=> native.op.kind # "frames"
          /\ r = "cancelled" => native.op.cancel
          /\ native' = [native EXCEPT !.op.phase = "terminal", !.run = FALSE, !.op.reason = r]
OpEnds == native.op.phase = "running" /\ \E r \in {"completed", "host_deadline"} \cup {x \in {"cancelled"} : native.op.cancel} :
            native' = Stopped(native, r)
OpUnwinds == native.op.phase = "finishing" /\ native' = [native EXCEPT !.op.phase = "finished"]
CardSettles == native.busy /\ native' = [native EXCEPT !.busy = FALSE]
Emulate == Hit \/ ExternalPause \/ OpStarts \/ OpEnds \/ OpUnwinds \/ CardSettles

\* The effect of a PINE command and its reply; while an operation holds the CPU all but these are rejected.
Admits(kind) == [id |-> bridge.last + 1, kind |-> kind, phase |-> "admitted", reason |-> "completed", cancel |-> FALSE]
ServedWhileOpen == {"status", "POLL", "CANCEL", "FINISH"}
RunState(n) == IF n.run THEN "running" ELSE "frozen"
\* MsgEmuCapPressButtons: a stopped CPU is let run for the frames of the pulse, whose end or deadline releases the pad.
PulseStarts == [native EXCEPT !.run = TRUE, !.keys = TRUE]
PulseEnds == [(IF req.was = "frozen" THEN Stopped(native, "stop") ELSE native) EXCEPT !.keys = FALSE]
Replies(q) ==
  IF OpOpen /\ q \notin ServedWhileOpen THEN {<<native, "rejected">>}
  ELSE CASE q = "status" -> {<<native, RunState(native)>>}
         [] q = "PAUSE" -> {<<[native EXCEPT !.op = Admits("pause")], "admitted">>}
         [] q = "BEGIN" -> IF native.run THEN {<<native, "rejected">>} ELSE {<<[native EXCEPT !.op = Admits("frames")], "admitted">>}
         [] q = "POLL" -> {<<native, native.op.phase>>}
         [] q = "CANCEL" -> {<<[native EXCEPT !.op.cancel = TRUE], native.op.phase>>}
         [] q = "FINISH" -> {<<[native EXCEPT !.op.phase = p], p>> : p \in {"finishing", "finished"}}
         [] q = "resume" -> {<<[native EXCEPT !.run = TRUE], "ok">>}
         [] q = "pause_cpu" -> {<<Stopped(native, "stop"), "ok">>}
         [] q = "reset" -> {<<[native EXCEPT !.run = FALSE], "ok">>}
         [] q = "hold" -> {<<[native EXCEPT !.keys = TRUE], "ok">>}
         [] q = "release" -> {<<[native EXCEPT !.keys = FALSE], "ok">>}
         [] q = "press" -> {<<PulseStarts, RunState(native)>>}
         [] q = "pulse" -> {<<PulseEnds, RunState(PulseEnds)>>, <<PulseEnds, "rejected">>}
         [] q = "input" -> {<<native, IF native.keys THEN "engaged" ELSE "native">>}
         [] q = "set_point" -> {<<[native EXCEPT !.point = TRUE], "ok">>, <<native, "rejected">>}
         [] q = "clear_point" -> {<<[native EXCEPT !.point = FALSE], "ok">>, <<native, "rejected">>}
         [] q = "events" -> {<<[native EXCEPT !.events = 0], "ok">>}
         [] q = "cards" -> {<<native, IF native.busy THEN "busy" ELSE "ok">>}
         [] q = "change_card" -> {<<[native EXCEPT !.card = req.card, !.busy = TRUE], "completed">>, <<native, "rolled_back">>,
                                  <<[native EXCEPT !.card = "none"], "rollback_failed">>}
         [] OTHER -> {<<native, "ok">>, <<native, "rejected">>}

-----------------------------------------------------------------------------
(* Scripts *)

VerifyOwnedPause == <<"PAUSE", "admit", "terminal?", "finish">>
OwnedFrameStep == <<"BEGIN", "admit", "terminal?", "finish">>
RequireFrozen == <<"status", "frozen!">>
Probe == VerifyOwnedPause \o RequireFrozen \o <<"load">> \o OwnedFrameStep \o <<"read">>
FindPattern == <<"status", "halt_if_running", "scan", "as_it_was">>
PressButtons == <<"press", "pulse", "input", "released!">>
ChangeMedia == RequireFrozen \o <<"cards", "idle!", "change_card", "changed!">>
SetBreakpoint == <<"set_point", "added">>
ClearBreakpoint == <<"clear_point", "removed">>
ExecutionSpeed == <<"read", "rate", "status">>
ReadMemoryBatch == RequireFrozen \o <<"batch">>
Status == <<"status", "read", "input", "cards", "read">>
CleanParent == VerifyOwnedPause \o <<"release_ports", "close">>
Script(m) ==
  CASE m = "pause" -> VerifyOwnedPause [] m = "step" -> OwnedFrameStep [] m = "probe" -> Probe [] m = "find_pattern" -> FindPattern
    [] m = "press" -> PressButtons [] m = "media" -> ChangeMedia [] m = "set_breakpoint" -> SetBreakpoint
    [] m = "clear_breakpoint" -> ClearBreakpoint [] m = "speed" -> ExecutionSpeed [] m = "batch" -> ReadMemoryBatch
    [] m = "status" -> Status [] m = "load" -> RequireFrozen \o <<"load">> [] m = "save" -> RequireFrozen \o <<"save">>
    [] m = "call_stack" -> RequireFrozen \o <<"read">> [] m = "reset" -> <<"reset">> [] m = "resume" -> <<"resume">>
    [] m = "read" -> <<"read">> [] m = "set_input" -> <<"hold">> [] m = "poll" -> <<"events">>
ParentMethods == {"set_input", "pause", "step"}
Reads == {"status", "read", "call_stack", "batch", "poll", "find_pattern"}
Methods == ParentMethods \cup Reads \cup {"probe", "save", "press", "media", "set_breakpoint", "clear_breakpoint",
             "speed", "load", "reset", "resume"}
Commands == {"PAUSE", "BEGIN", "POLL", "CANCEL", "FINISH", "status", "load", "save", "read", "scan", "press", "pulse", "input", "cards",
             "change_card", "set_point", "clear_point", "rate", "batch", "reset", "resume", "pause_cpu", "hold", "release", "events"}

-----------------------------------------------------------------------------
(* The bridge *)

Do(c) == req.todo # <<>> /\ Head(req.todo) = c
Rest == Tail(req.todo)
Then(s) == req' = [req EXCEPT !.todo = s \o Rest]
Answer(a) == req' = Idle(a)
Retired == bridge' = [bridge EXCEPT !.terminal = TRUE] /\ Answer("error")
\* remember_cancel_deadline, cleanup_deadline: the first stop budget stays.
FirstBudget(b) == [b EXCEPT !.stop = IF @ = "none" THEN "set" ELSE @]
Due(b) == [b EXCEPT !.due = IF @ = "none" THEN "set" ELSE @]

Begin(m, card) ==
  /\ req.m = "idle" /\ ~bridge.terminal /\ bridge.reqs < MaxReqs
  /\ bridge.parent = "open" => m \in ParentMethods \cup Reads
  /\ m = "set_breakpoint" => ~bridge.bp
  /\ m = "clear_breakpoint" => bridge.bp
  /\ m # "media" => card = "none"
  /\ bridge' = [bridge EXCEPT !.reqs = @ + 1, !.effects = @ \/ (bridge.parent = "open" /\ m \in ParentMethods),
                              !.port = @ \/ (bridge.parent = "open" /\ m = "set_input")]
  /\ req' = [Idle("none") EXCEPT !.m = m, !.todo = Script(m), !.card = card] /\ UNCHANGED native
\* A fresh parent starts without a stop budget.
BeginParent ==
  /\ req.m = "idle" /\ ~bridge.terminal /\ bridge.parent = "none" /\ bridge.reqs < MaxReqs
  /\ bridge' = [bridge EXCEPT !.parent = "open", !.effects = FALSE, !.port = FALSE, !.stop = "none", !.due = "none", !.reqs = @ + 1]
  /\ UNCHANGED <<native, req>>
FinishParent ==
  /\ req.m = "idle" /\ ~bridge.terminal /\ bridge.parent = "open"
  /\ bridge' = Due(FirstBudget(bridge))
  /\ req' = [Idle("none") EXCEPT !.m = "finish", !.todo = IF bridge.effects THEN CleanParent ELSE <<"close">>] /\ UNCHANGED native
\* The owner cancels the request being served: one of a parent, or a controlled step.
Cancel ==
  /\ req.m \notin {"idle", "finish"} /\ ~req.cancelled /\ (bridge.parent = "open" \/ req.m = "step")
  /\ bridge' = Due(FirstBudget(bridge)) /\ req' = [req EXCEPT !.cancelled = TRUE] /\ UNCHANGED native
BudgetPasses ==
  /\ "set" \in {bridge.stop, bridge.due} /\ UNCHANGED <<native, req>>
  /\ bridge' = [bridge EXCEPT !.stop = IF @ = "set" THEN "past" ELSE @, !.due = IF @ = "set" THEN "past" ELSE @]

\* What a rejected command leads to.
Rejected ==
  IF req.m \in {"finish", "batch"} \/ (req.m = "speed" /\ Head(req.todo) # "read") \/ Head(req.todo) \in {"PAUSE", "BEGIN", "POLL", "CANCEL", "FINISH"}
  THEN Retired
  ELSE /\ UNCHANGED bridge
       /\ IF Head(req.todo) = "scan" THEN req' = [req EXCEPT !.todo = Rest, !.m = "failed"] ELSE Answer("error")
\* command, bounded_command, transact: a reply in time, or the stream is retired with the effect unknown.
Exchange ==
  LET q == Head(req.todo) IN
  /\ req.todo # <<>> /\ q \in Commands /\ ~(q = "BEGIN" /\ req.cancelled)
  /\ IF bridge.stop = "past" THEN Retired /\ UNCHANGED native
     ELSE \E r \in Replies(q) :
       \/ /\ native' = r[1]
          /\ IF r[2] = "rejected" THEN Rejected
             ELSE /\ req' = [req EXCEPT !.todo = Rest, !.reply = r[2], !.was = IF q \in {"press", "pulse"} THEN r[2] ELSE @]
                  /\ bridge' = IF q = "events" THEN [bridge EXCEPT !.told = @ + native.events] ELSE bridge
       \/ native' \in {native, r[1]} /\ Retired

\* owned_frame_step cancelled before it asks for anything.
StepCancelled == Do("BEGIN") /\ req.cancelled /\ Answer("error") /\ UNCHANGED <<native, bridge>>
\* admit_native: a new identity.
Admit ==
  /\ Do("admit") /\ bridge' = [bridge EXCEPT !.last = native.op.id] /\ UNCHANGED native
  /\ req' = [req EXCEPT !.todo = Rest, !.id = native.op.id, !.asked = FALSE]
\* The poll loops of verify_owned_pause and owned_frame_step.
AwaitTerminal ==
  /\ Do("terminal?") /\ UNCHANGED native
  /\ \/ bridge.stop = "past" /\ Retired
     \/ bridge.stop # "past" /\ req.reply = "terminal" /\ Then(<<>>) /\ UNCHANGED bridge
     \/ /\ bridge.stop # "past" /\ req.reply # "terminal"
        /\ IF req.cancelled /\ native.op.kind = "frames" /\ ~req.asked
           THEN req' = [req EXCEPT !.todo = <<"CANCEL">> \o req.todo, !.asked = TRUE] /\ UNCHANGED bridge
           ELSE req' = [req EXCEPT !.todo = <<"POLL">> \o req.todo] /\ UNCHANGED bridge
     \/ /\ bridge.stop # "past" /\ req.reply # "terminal" /\ native.op.kind = "frames" /\ ~req.asked   \* execution_end passes
        /\ req' = [req EXCEPT !.todo = <<"CANCEL">> \o req.todo, !.asked = TRUE] /\ bridge' = Due(FirstBudget(bridge))
\* finish_native: only the Finished receipt releases the operation.
ReleasedByFinish == req.reply = "finished"
FinishNative ==
  /\ Do("finish") /\ UNCHANGED <<native, bridge>>
  /\ req' = IF req.reply = "terminal" THEN [req EXCEPT !.todo = <<"FINISH">> \o req.todo]
            ELSE IF ReleasedByFinish THEN [req EXCEPT !.todo = Rest]
            ELSE [req EXCEPT !.todo = <<"POLL">> \o req.todo]

\* change_media accepts the outcome only with the slot read back.
Changed == req.reply = "completed" /\ native.card = req.card
Step ==
  \/ Do("frozen!") /\ (IF req.reply = "frozen" THEN Then(<<>>) ELSE Answer("error")) /\ UNCHANGED bridge
  \/ Do("idle!") /\ (IF req.reply = "ok" THEN Then(<<>>) ELSE Answer("error")) /\ UNCHANGED bridge
  \/ Do("released!") /\ (IF req.reply = "native" THEN Then(<<>>) ELSE Answer("error")) /\ UNCHANGED bridge
  \/ Do("changed!") /\ (IF Changed THEN Then(<<>>) ELSE Answer("error")) /\ UNCHANGED bridge
  \/ /\ Do("halt_if_running") /\ UNCHANGED bridge
     /\ req' = [req EXCEPT !.todo = (IF req.reply = "running" THEN <<"pause_cpu">> ELSE <<>>) \o Rest, !.was = req.reply]
  \/ Do("as_it_was") /\ Then(IF req.was = "running" THEN <<"resume">> ELSE <<>>) /\ UNCHANGED bridge
  \/ Do("added") /\ Then(<<>>) /\ bridge' = [bridge EXCEPT !.bp = TRUE]
  \/ Do("removed") /\ Then(<<>>) /\ bridge' = [bridge EXCEPT !.bp = FALSE]
  \/ Do("release_ports") /\ Then(IF bridge.port THEN <<"release", "input">> ELSE <<>>) /\ UNCHANGED bridge
  \/ Do("close") /\ (IF bridge.stop = "past" \/ (bridge.effects /\ bridge.port /\ req.reply # "native") THEN Retired
                     ELSE /\ bridge' = [bridge EXCEPT !.parent = "none", !.stop = "none", !.due = IF @ = "set" THEN "none" ELSE @]
                          /\ Answer(IF bridge.effects THEN "clean" ELSE "ok"))

SaysFrozen == req.m \in {"pause", "step", "probe", "load", "save", "reset", "media", "batch"}
              \/ (req.m = "speed" /\ req.reply = "frozen") \/ (req.m = "press" /\ req.was = "frozen")
Finish ==
  /\ req.m # "idle" /\ req.todo = <<>>
  /\ Answer(IF req.m = "failed" THEN "error" ELSE IF req.m = "media" THEN "changed" ELSE IF SaysFrozen THEN "frozen" ELSE "ok")
  /\ UNCHANGED <<native, bridge>>

Pcsx2Next ==
  \/ \E m \in Methods, c \in Cards \cup {"none"} : Begin(m, c)
  \/ BeginParent \/ FinishParent \/ Cancel \/ BudgetPasses \/ Exchange \/ StepCancelled \/ Admit \/ AwaitTerminal \/ FinishNative
  \/ (Step /\ UNCHANGED native) \/ Finish
  \/ (Emulate /\ UNCHANGED <<bridge, req>>)

Pcsx2Spec == Pcsx2Init /\ [][Pcsx2Next]_pcsxVars

-----------------------------------------------------------------------------
\* An answer that says frozen finds the CPU stopped with no native operation open, whatever breakpoint,
\* user pause or cancellation met the operation; the cleanup of a parent that recorded
\* its port also left no button held.
Pcsx2HaltIsReal ==
  /\ req.answer \in {"frozen", "clean", "changed"} => ~native.run /\ ~OpOpen
  /\ req.answer = "clean" /\ bridge.port => ~native.keys

\* While the stream lives, every hit is told or waits in PCSX2, and the breakpoint the bridge lists is armed.
Pcsx2HitsKept ==
  ~bridge.terminal => /\ native.hits = bridge.told + native.events
                      /\ req.m = "idle" => native.point = bridge.bp

\* A cleanup that answers clean came within the stop budget of the first cancellation: later requests,
\* retries and the cleanup itself do not renew it.
Pcsx2StopInBudget == req.answer = "clean" => bridge.due # "past"

=============================================================================
