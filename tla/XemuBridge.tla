------------------------------ MODULE XemuBridge ------------------------------
(* The Xbox bridge (xemu_bridge.rs, xemu_bridge/): QMP requests with a reply  *)
(* each, and a GDB stream on which stop packets arrive late and in between.   *)
(* A packet is "02" (interrupt), "05" (breakpoint hit) or "step".  A machine  *)
(* state and an EEPROM have labels: 0 for the live pair, else the snapshot    *)
(* that holds the same.                                                       *)
EXTENDS Naturals, Sequences, FiniteSets

CONSTANTS Discs,       \* disc images that change_media may mount
          MaxHits,     \* bound: breakpoint hits of one behaviour
          MaxReqs      \* bound: requests of one behaviour

VARIABLES native,      \* xemu: execution, frame step, input, disc, machine state, EEPROM file, snapshots, job
          wire,        \* stop packets sent on the GDB stream and not read yet
          bridge,      \* the XemuBridge, and the state file it published last
          req          \* the request being served

xemuVars == <<native, wire, bridge, req>>

NoJob == [kind |-> "none", tag |-> 0, phase |-> "none"]
NoFile == [tag |-> 0, vm |-> 0, ee |-> 0, disc |-> "none"]
Idle(answer, was) == [m |-> "idle", todo |-> <<>>, phase |-> "plain", reply |-> "none", mark |-> 0, took |-> 0, failed |-> FALSE,
                      tag |-> 0, ee |-> 0, prev |-> <<0, FALSE>>, kept |-> {}, was |-> was, late |-> FALSE, asked |-> FALSE,
                      disc |-> "none", answer |-> answer]
XemuInit ==
  /\ native = [run |-> FALSE, debug |-> FALSE, stopping |-> FALSE, point |-> FALSE, hits |-> 0, armed |-> FALSE, keys |-> FALSE,
               phys |-> FALSE, disc |-> "none", vm |-> 0, ee |-> 0, snaps |-> {}, job |-> NoJob, changed |-> FALSE]
  /\ wire = <<>>
  /\ \E controlled \in BOOLEAN :
       bridge = [lost |-> {}, integrity |-> FALSE, hello |-> FALSE, controlled |-> controlled, bp |-> FALSE, held |-> FALSE,
                 seen |-> FALSE, events |-> 0, told |-> 0, exact |-> TRUE, passed |-> FALSE, disc |-> "none", tag |-> 0,
                 pending |-> {}, file |-> NoFile, batch |-> FALSE, reqs |-> 0]
  /\ req = Idle("none", 0)

-----------------------------------------------------------------------------
(* xemu, as the bridge uses it *)

Stop(n) == [n EXCEPT !.run = FALSE, !.stopping = FALSE]
Hit == /\ native.run /\ native.point /\ native.hits < MaxHits
       /\ native' = [Stop(native) EXCEPT !.hits = @ + 1, !.debug = TRUE] /\ wire' = Append(wire, "05")
StopLands == native.stopping /\ native' = Stop(native) /\ wire' = Append(wire, "02")
FrameStepEnds == native.run /\ native.armed /\ native' = [Stop(native) EXCEPT !.armed = FALSE] /\ wire' = Append(wire, "02")
\* A snapshot job takes effect or fails; a load may lose the input override and the breakpoints.
JobRuns ==
  /\ native.job.phase = "pending" /\ UNCHANGED wire
  /\ \/ native' = [native EXCEPT !.job.phase = "failed"]
     \/ native.job.kind = "save" /\ native' = [native EXCEPT !.job.phase = "done", !.snaps = @ \cup {[tag |-> native.job.tag, vm |-> native.vm]}]
     \/ native.job.kind = "delete" /\ native' = [native EXCEPT !.job.phase = "done", !.snaps = {s \in @ : s.tag # native.job.tag}]
     \/ /\ native.job.kind = "load"
        /\ \E s \in {x \in native.snaps : x.tag = native.job.tag}, kept \in BOOLEAN :
             native' = [native EXCEPT !.job.phase = "done", !.vm = s.vm, !.changed = TRUE, !.point = @ /\ kept, !.keys = @ /\ kept]
Emulate == Hit \/ StopLands \/ FrameStepEnds \/ JobRuns

\* The guest runs, or its memory is written: machine state and EEPROM are no longer what a snapshot holds.
Moved(n) == [n EXCEPT !.vm = 0, !.ee = 0, !.changed = TRUE]
Job(kind, tag) == [native EXCEPT !.job = [kind |-> kind, tag |-> tag, phase |-> "pending"]]
NextPending == CHOOSE t \in bridge.pending \ req.kept : TRUE
Effects(q) ==
  CASE q = "stop" -> {[native EXCEPT !.stopping = native.run]}
    [] q = "c" -> {[Moved(native) EXCEPT !.run = TRUE, !.debug = FALSE]}
    [] q = "arm" -> {[native EXCEPT !.armed = TRUE]}
    [] q = "cancel" -> {[native EXCEPT !.armed = FALSE]}
    [] q \in {"M", "system_reset"} -> {Moved(native)}
    [] q = "input on" -> {native, [native EXCEPT !.keys = TRUE]}
    [] q = "input off" -> {native, [native EXCEPT !.keys = FALSE]}
    [] q = "load disc" -> {[native EXCEPT !.disc = req.disc]}
    [] q = "eject" -> {[native EXCEPT !.disc = "none"]}
    [] q = "Z" -> {[native EXCEPT !.point = TRUE]}
    [] q = "z" -> {[native EXCEPT !.point = FALSE]}
    [] q = "phys" -> {[native EXCEPT !.phys = TRUE]}
    [] q = "virt" -> {[native EXCEPT !.phys = FALSE]}
    [] q = "batch" -> {[native EXCEPT !.changed = FALSE]}
    [] q = "save job" -> {Job("save", req.tag)}
    [] q = "load job" -> {Job("load", bridge.file.tag)}
    [] q = "rollback job" -> {Job("load", req.tag)}
    [] q = "delete job" -> {Job("delete", req.tag)}
    [] q = "drop job" -> {Job("delete", NextPending)}
    [] OTHER -> {native}
Reply(q) == CASE q = "running?" -> IF native.run THEN "running" ELSE "frozen"
              [] q = "jobs?" -> native.job.phase
              [] OTHER -> "ok"
Jobs == {"save job", "load job", "rollback job", "delete job", "drop job"}
GdbCommands == {"g", "m", "walk", "M", "phys", "virt", "Z", "z"}
QmpCommands == Jobs \cup {"running?", "ext", "stop", "arm", "cancel", "system_reset", "input on", "input off", "load disc", "eject",
                          "batch", "jobs?", "shot", "shot?", "pace?", "pace"}
\* What xemu may refuse with a declared error, which leaves the connection usable.
Refusable == (QmpCommands \cup GdbCommands) \ {"running?", "ext", "stop", "cancel", "jobs?", "virt"}

-----------------------------------------------------------------------------
(* Scripts *)

Pause == <<"drain", "running?", "halt">>
Operation(commands) == <<"drain", "running?", "freeze">> \o commands \o <<"restore">>
WithPhysicalMemory(command) == <<"phys", command, "virt">>
SynchronizeGdbStop == <<"drain unreported", "g">>
StepFrames == Pause \o SynchronizeGdbStop \o <<"ext", "arm", "step", "c", "wait step", "settle">>
StepInstructions == Pause \o SynchronizeGdbStop \o <<"match", "s">>
SendInput(on) == IF on THEN <<"input on", "ext", "engaged!">> ELSE <<"input off", "ext", "native!">>
Reset == Pause \o SendInput(FALSE) \o <<"released", "system_reset", "frozen?", "drain unreported", "ext">>
RequireFrozen == <<"drain", "running?", "frozen!">>
RequireFrozenStateOperation == RequireFrozen \o <<"ext", "drop">>
RunSnapshotJob(job) == <<job, "jobs?", "job!">>
SaveState == RequireFrozenStateOperation \o <<"layout", "tag">> \o RunSnapshotJob("save job") \o <<"running?", "unresumed!", "ext", "publish">>
ReconcileDebugger == <<"reconcile", "drain unreported">>
LoadState == RequireFrozenStateOperation \o <<"file", "layout", "tag">> \o RunSnapshotJob("save job") \o <<"load">>
  \o RunSnapshotJob("load job") \o <<"running?", "frozen!", "eeprom">> \o ReconcileDebugger
  \o <<"reapply", "layout", "ext", "g", "tidy">> \o RunSnapshotJob("delete job") \o <<"loaded">>
Recover == RunSnapshotJob("rollback job") \o <<"eeprom back">> \o ReconcileDebugger
  \o <<"reapply", "running?", "frozen!", "g">> \o RunSnapshotJob("delete job") \o <<"recovered">>
Hello == <<"ext", "running?", "greet">>
Status == <<"drain", "running?", "ext">>
PollEvents == <<"drain", "capture", "take">>
ChangeMedia(disc) == <<"running?", "frozen!", "staged", IF disc = "none" THEN "eject" ELSE "load disc", "mounted">>
ExecutionSpeed == <<"pace?", "set", "pace", "running?">>
\* main memory is read in physical mode, the cpu view is not
ReadRouted(command) == {WithPhysicalMemory(command), <<command>>}
ReadMemory == {Operation(read) : read \in ReadRouted("m")}
WriteMemory == {Operation(write) : write \in ReadRouted("M")}
FindPattern == ReadMemory
Disassemble == ReadMemory
CallStack == Operation(<<"g", "walk">>)
GetState == Operation(<<"g">>)
DumpMemory == {Operation(<<"create">> \o read) : read \in ReadRouted("m")}
SetBreakpoint == Operation(<<"Z">>) \o <<"added">>
ClearBreakpoint == Operation(<<"z">>) \o <<"removed">>
SetInput == SendInput(TRUE) \o <<"held">>
ReleaseInputOverride == SendInput(FALSE) \o <<"released">>
Probe == LoadState \o StepFrames \o Operation(WithPhysicalMemory("m"))
ReadMemoryBatch == RequireFrozen \o <<"batch", "epoch">>
Screenshot == <<"shot", "shot?", "ext">>
Resume == <<"drain", "running?", "go">>
\* What a request does, for each of the ways its parameters may ask for.
Scripts(m, disc) ==
  CASE m = "hello" -> {Hello} [] m = "status" -> {Status} [] m = "pause" -> {Pause \o <<"ext">>} [] m = "resume" -> {Resume}
    [] m = "step" -> {StepFrames} [] m = "step_instructions" -> {StepInstructions} [] m = "reset" -> {Reset}
    [] m = "read" -> ReadMemory \cup FindPattern \cup Disassemble \cup {CallStack, GetState}
    [] m = "write" -> WriteMemory [] m = "dump" -> DumpMemory
    [] m = "set_breakpoint" -> {SetBreakpoint} [] m = "clear_breakpoint" -> {ClearBreakpoint} [] m = "poll_events" -> {PollEvents}
    [] m = "hold" -> {SetInput} [] m = "release" -> {ReleaseInputOverride} [] m = "media" -> {ChangeMedia(disc)}
    [] m = "save_state" -> {SaveState} [] m = "load_state" -> {LoadState} [] m = "probe" -> {Probe}
    [] m = "batch" -> {ReadMemoryBatch} [] m = "speed" -> {ExecutionSpeed} [] m = "screenshot" -> {Screenshot}
ObservationMethods == {"hello", "status", "read", "dump", "poll_events", "save_state", "batch", "speed", "screenshot"}
Methods == ObservationMethods \cup {"pause", "resume", "step", "step_instructions", "reset", "write", "set_breakpoint",
             "clear_breakpoint", "hold", "release", "media", "load_state", "probe"}
\* The requests that advance or replace the machine, and drop the stop packets that meet them.
Moving == {"step", "step_instructions", "reset", "load_state", "probe"}

-----------------------------------------------------------------------------
(* The bridge *)

Do(c) == req.todo # <<>> /\ Head(req.todo) = c
Rest == Tail(req.todo)
Then(s) == req' = [req EXCEPT !.todo = s \o Rest]
Suffix(stops) == LET first == CHOOSE i \in 2..Len(req.todo) : req.todo[i] \in stops /\ \A j \in 2..(i - 1) : req.todo[j] \notin stops
                 IN SubSeq(req.todo, first, Len(req.todo))
Unread == \E i \in DOMAIN wire : wire[i] = "05"
Gone(transport) == [bridge EXCEPT !.lost = @ \cup {transport}]
\* note_stop: interrupts are not reported, nor is a stop while one is observed.
NoteStop(b, packets, report) ==
  IF report /\ ~b.seen /\ \E i \in DOMAIN packets : packets[i] = "05" THEN [b EXCEPT !.seen = TRUE, !.events = @ + 1] ELSE b

\* What an error leads to, by the part of the request it ends.
FailedRequest ==
  CASE req.phase = "operation" /\ Head(req.todo) = "walk" -> [req EXCEPT !.todo = Rest]
    [] req.phase = "operation" /\ Head(req.todo) # "walk" -> [req EXCEPT !.failed = TRUE, !.todo = Suffix(IF Head(@) \in {"phys", "create"} THEN {"restore"} ELSE {"virt", "restore"})]
    [] req.phase = "step" -> [req EXCEPT !.failed = TRUE, !.phase = "failing", !.todo = <<"stop", "frozen?", "cancel">>]
    [] req.phase = "failing" -> [req EXCEPT !.todo = IF Head(@) = "cancel" THEN <<>> ELSE <<"cancel">>]
    [] req.phase = "loading" -> [req EXCEPT !.phase = "recovering", !.todo = Recover]
    [] req.phase = "tidying" -> [req EXCEPT !.phase = "plain", !.todo = Suffix({"loaded"})]
    [] req.phase = "dropping" -> [req EXCEPT !.phase = "plain", !.todo = Suffix({"drop"}), !.kept = @ \cup {NextPending}]
    [] OTHER -> Idle("error", 0)
Fail(b) ==
  /\ req' = FailedRequest
  /\ bridge' = CASE req.phase = "polled" -> [b EXCEPT !.events = @ + req.took]
                 [] req.phase = "set" -> [b EXCEPT !.lost = @ \cup {"control"}]
                 [] req.phase = "recovering" -> [b EXCEPT !.integrity = TRUE]
                 [] req.phase = "tidying" -> [b EXCEPT !.pending = @ \cup {req.tag}]
                 [] OTHER -> b
Check(condition) == (IF condition THEN Then(<<>>) /\ UNCHANGED bridge ELSE Fail(bridge)) /\ UNCHANGED <<native, wire>>

\* handle_request: a terminal backend ends the session; unresolved state integrity leaves only status.
Begin(m, disc) ==
  /\ req.m = "idle" /\ bridge.lost = {} /\ bridge.reqs < MaxReqs
  /\ bridge.integrity => m = "status"
  /\ bridge.hello \/ m = "hello"
  /\ m = "set_breakpoint" => ~bridge.bp
  /\ m = "clear_breakpoint" => bridge.bp
  /\ m # "media" => disc = "none"
  /\ bridge' = [bridge EXCEPT !.reqs = @ + 1, !.batch = @ /\ m \in ObservationMethods, !.exact = @ /\ m \notin Moving]
  /\ \E script \in Scripts(m, disc) : req' = [Idle("none", 0) EXCEPT !.m = m, !.todo = script, !.disc = disc]
  /\ UNCHANGED <<native, wire>>

\* QmpClient::execute, gdb_command: a reply, a declared error, or a connection lost with the effect unknown.
\* A GDB reply comes after every stop packet sent before it.
Exchange ==
  LET q == Head(req.todo)
      gdb == q \in GdbCommands
      b == IF gdb THEN NoteStop(bridge, wire, TRUE) ELSE bridge
      transport == IF gdb THEN "gdb" ELSE "qmp"
  IN
  /\ req.todo # <<>> /\ q \in QmpCommands \cup GdbCommands
  /\ q \in Jobs => native.job.phase # "pending"
  /\ IF transport \in bridge.lost THEN Fail(bridge) /\ UNCHANGED <<native, wire>>
     ELSE \/ /\ native' \in Effects(q) /\ wire' = (IF gdb THEN <<>> ELSE wire) /\ bridge' = b
             /\ req' = [req EXCEPT !.todo = Rest, !.reply = Reply(q), !.asked = @ \/ gdb]
          \/ q \in Refusable /\ UNCHANGED native /\ wire' = (IF gdb THEN <<>> ELSE wire) /\ Fail(b)
          \/ native' \in {native} \cup Effects(q) /\ UNCHANGED wire /\ Fail(Gone(transport))
\* send_no_reply("c"): reads nothing, so a hit may still be unread.
Continue ==
  /\ Do("c") /\ UNCHANGED wire
  /\ \/ "gdb" \notin bridge.lost /\ native' \in Effects("c") /\ Then(<<>>) /\ bridge' = [bridge EXCEPT !.exact = @ /\ ~Unread]
     \/ native' \in {native} \cup Effects("c") /\ Fail(Gone("gdb"))
\* drain_gdb_stops: what has arrived by now.
Drain ==
  /\ Do("drain") \/ Do("drain unreported")
  /\ UNCHANGED native
  /\ \/ \E k \in 0..Len(wire) : /\ wire' = SubSeq(wire, k + 1, Len(wire)) /\ Then(<<>>)
                                /\ bridge' = NoteStop(bridge, SubSeq(wire, 1, k), Do("drain"))
     \/ UNCHANGED wire /\ Fail(Gone("gdb"))
\* wait_frozen
AwaitFrozen ==
  /\ Do("frozen?") /\ UNCHANGED <<native, wire>>
  /\ \/ ~native.run /\ Then(<<>>) /\ UNCHANGED bridge
     \/ native.run /\ Fail(bridge)
     \/ Fail(Gone("qmp"))

\* wait_frame_step: the first stop packet, or the interrupt at the deadline, and what xemu says of it.
WaitFrameStep ==
  /\ Do("wait step")
  /\ \/ /\ wire # <<>> /\ wire' = Tail(wire) /\ bridge' = NoteStop(bridge, <<Head(wire)>>, TRUE) /\ Then(<<>>) /\ UNCHANGED native
     \/ /\ wire = <<>> /\ ~req.late /\ req' = [req EXCEPT !.late = TRUE] /\ UNCHANGED bridge
        /\ native' = Stop(native) /\ wire' = IF native.run THEN <<"02">> ELSE wire
     \/ Fail(Gone("gdb")) /\ UNCHANGED <<native, wire>>
Settle ==
  /\ Do("settle") /\ UNCHANGED <<native, wire>>
  /\ IF ~native.run THEN Then(IF native.armed THEN <<"cancel", "ended">> ELSE <<"drain unreported", "ended">>) /\ UNCHANGED bridge
     ELSE Fail(bridge)
\* step_instructions: stale interrupts are passed over.
StepOne ==
  /\ Do("s")
  /\ \/ \E p \in {"step"} \cup {x \in {"05"} : native.point /\ native.hits < MaxHits} :
          LET packets == SelectSeq(Append(wire, p), LAMBDA x : x # "02") IN
          /\ native' = [Moved(native) EXCEPT !.hits = IF p = "05" THEN @ + 1 ELSE @, !.debug = TRUE]
          /\ wire' = Tail(packets) /\ bridge' = NoteStop([bridge EXCEPT !.seen = FALSE], <<Head(packets)>>, TRUE)
          /\ Then(IF Head(packets) = "step" /\ bridge.bp THEN <<"g", "match">> ELSE <<>>)
     \/ Fail(Gone("gdb")) /\ UNCHANGED <<native, wire>>
\* record_instruction_exec_hit
Match ==
  /\ Do("match") /\ UNCHANGED <<native, wire>>
  /\ \/ Then(<<>>) /\ UNCHANGED bridge
     \/ bridge.bp /\ req' = [req EXCEPT !.todo = <<>>] /\ bridge' = [bridge EXCEPT !.seen = TRUE, !.events = @ + 1]

\* run_snapshot_job: concluded, or cancelled at its deadline; a job that does not settle leaves the state in doubt.
InDoubt == [bridge EXCEPT !.integrity = TRUE]
AwaitJob ==
  /\ Do("job!") /\ UNCHANGED wire
  /\ \/ req.reply = "done" /\ Then(<<>>) /\ UNCHANGED <<native, bridge>>
     \/ req.reply = "failed" /\ Fail(bridge) /\ UNCHANGED native
     \/ req.reply = "pending" /\ native.job.phase # "pending" /\ Then(<<"jobs?", "job!">>) /\ UNCHANGED <<native, bridge>>
     \/ req.reply = "pending" /\ native.job.phase # "pending" /\ Fail(bridge) /\ UNCHANGED native
     \/ req.reply = "pending" /\ native.job.phase = "pending" /\ native' = [native EXCEPT !.job.phase = "cancelled"] /\ Fail(bridge)
     \/ req.reply = "pending" /\ native.job.phase = "pending" /\ UNCHANGED native /\ Fail(InDoubt)

\* poll_events: a stop xemu reports must arrive; events are kept when the registers cannot be read.
Capture ==
  \/ Do("capture") /\ Then(IF bridge.events = 0 THEN <<"running?", "debug?">> ELSE <<>>) /\ UNCHANGED <<native, wire, bridge>>
  \/ /\ Do("debug?") /\ UNCHANGED native
     /\ IF native.debug /\ ~bridge.seen
        THEN \/ Unread /\ bridge' = NoteStop(bridge, wire, TRUE) /\ wire' = <<>> /\ Then(<<>>)
             \/ Fail(bridge) /\ UNCHANGED wire
        ELSE Then(<<>>) /\ UNCHANGED <<wire, bridge>>
Take ==
  \/ /\ Do("take") /\ bridge' = [bridge EXCEPT !.events = 0]
     /\ req' = [req EXCEPT !.todo = IF bridge.events = 0 THEN Rest ELSE <<"g", "tell">> \o Rest, !.phase = "polled", !.took = bridge.events]
  \/ /\ Do("tell") /\ req' = [req EXCEPT !.todo = Rest, !.took = 0]
     /\ \E k \in 0..req.took : bridge' = [bridge EXCEPT !.told = @ + k, !.events = @ + (req.took - k)]

\* freeze_for_operation, restore_after_operation: no resume when a stop was noted since.
Freeze ==
  \/ Do("halt") /\ Then(IF req.reply = "running" THEN <<"stop", "frozen?", "drain">> ELSE <<>>) /\ UNCHANGED bridge
  \/ /\ Do("freeze") /\ UNCHANGED bridge
     /\ req' = IF req.reply = "running" THEN [req EXCEPT !.todo = <<"stop", "frozen?", "drain", "frozen">> \o Rest, !.mark = bridge.events + 1]
               ELSE [req EXCEPT !.todo = Rest, !.phase = "operation"]
  \/ Do("frozen") /\ req' = [req EXCEPT !.todo = Rest, !.phase = "operation"] /\ UNCHANGED bridge
RestoresRun == req.mark # 0 /\ bridge.events = req.mark - 1
Restore ==
  /\ Do("restore")
  /\ req' = [req EXCEPT !.phase = "plain", !.todo = (IF RestoresRun THEN <<"c">> ELSE <<>>) \o (IF req.failed THEN <<>> ELSE Rest)]
  /\ bridge' = IF RestoresRun THEN [bridge EXCEPT !.seen = FALSE, !.passed = @ \/ (native.debug /\ req.asked)] ELSE bridge

\* The state file, the EEPROM file, the debugger and the input around a snapshot.
NameState == native' = IF native.vm = 0 THEN [native EXCEPT !.vm = bridge.tag + 1, !.ee = IF @ = 0 THEN bridge.tag + 1 ELSE @] ELSE native
Unpublished == [req EXCEPT !.failed = TRUE, !.todo = RunSnapshotJob("delete job")]
ReapplyInput == IF bridge.held THEN SendInput(TRUE) ELSE SendInput(TRUE) \o SendInput(FALSE)
BlockLayout == Do("layout") /\ Check(native.disc = bridge.disc)
\* read_replaced_container, current_media_identity
ValidateContainer == Do("file") /\ Check(bridge.file.tag # 0 /\ bridge.file.disc = bridge.disc)
StateContainer == [tag |-> req.tag, vm |-> req.was, ee |-> req.ee, disc |-> bridge.disc]
State ==
  \/ BlockLayout \/ ValidateContainer
  \/ /\ Do("tag") /\ NameState /\ bridge' = [bridge EXCEPT !.tag = @ + 1] /\ UNCHANGED wire
     /\ req' = [req EXCEPT !.todo = Rest, !.tag = bridge.tag + 1, !.ee = native'.ee, !.was = native'.vm, !.prev = <<bridge.events, bridge.seen>>]
  \/ Do("unresumed!") /\ req' = (IF req.reply = "frozen" THEN [req EXCEPT !.todo = Rest] ELSE Unpublished) /\ UNCHANGED <<native, wire, bridge>>
  \/ /\ Do("publish") /\ UNCHANGED <<native, wire>>
     /\ \/ Then(<<>>) /\ bridge' = [bridge EXCEPT !.file = StateContainer]
        \/ req' = Unpublished /\ UNCHANGED bridge
  \/ Do("load") /\ req' = [req EXCEPT !.todo = Rest, !.phase = "loading"] /\ UNCHANGED <<native, wire, bridge>>
  \/ /\ Do("eeprom") /\ UNCHANGED wire
     /\ \/ native' = [native EXCEPT !.ee = bridge.file.ee] /\ Then(<<>>) /\ UNCHANGED bridge
        \/ Fail(bridge) /\ UNCHANGED native
  \/ /\ Do("eeprom back") /\ UNCHANGED wire
     /\ \/ native' = [native EXCEPT !.ee = req.ee] /\ Then(<<>>) /\ UNCHANGED bridge
        \/ Fail(bridge) /\ UNCHANGED native
  \/ Do("reconcile") /\ Then(IF bridge.bp THEN <<"z", "Z">> ELSE <<>>) /\ UNCHANGED <<native, wire, bridge>>
  \/ Do("reapply") /\ Then(ReapplyInput) /\ UNCHANGED <<native, wire, bridge>>
  \/ Do("tidy") /\ req' = [req EXCEPT !.todo = Rest, !.phase = "tidying"] /\ UNCHANGED <<native, wire, bridge>>
  \/ /\ Do("loaded") /\ req' = [req EXCEPT !.todo = Rest, !.phase = "plain"] /\ UNCHANGED <<native, wire>>
     /\ bridge' = [bridge EXCEPT !.events = 0, !.seen = FALSE]
  \/ /\ Do("recovered") /\ req' = Idle("restored", req.was) /\ UNCHANGED <<native, wire>>
     /\ bridge' = [bridge EXCEPT !.events = req.prev[1], !.seen = req.prev[2], !.integrity = FALSE]
\* retry_pending_snapshot_cleanup
RetryCleanup ==
  \/ /\ Do("drop") /\ UNCHANGED bridge
     /\ IF bridge.pending \subseteq req.kept THEN Then(<<>>)
        ELSE req' = [req EXCEPT !.phase = "dropping", !.todo = RunSnapshotJob("drop job") \o <<"dropped">> \o req.todo]
  \/ Do("dropped") /\ req' = [req EXCEPT !.todo = Rest, !.phase = "plain"] /\ bridge' = [bridge EXCEPT !.pending = @ \ {NextPending}]

\* The rest of the handlers.
Local ==
  \/ Do("frozen!") /\ Check(req.reply = "frozen")
  \/ Do("engaged!") /\ Check(native.keys)
  \/ Do("native!") /\ Check(~native.keys)
  \/ Do("staged") /\ (Check(TRUE) \/ Check(FALSE))
  \/ Do("create") /\ (Check(TRUE) \/ Check(FALSE))
  \/ Do("await run") /\ Check(native.run)
  \/ /\ UNCHANGED <<native, wire>>
     /\ \/ Do("greet") /\ UNCHANGED bridge /\ (IF bridge.hello THEN Then(<<>>) ELSE IF req.reply # "frozen" THEN req' = Idle("error", 0)
                                               ELSE Then(<<"g">> \o (IF bridge.controlled THEN <<"greeted">> ELSE <<"c", "await run", "greeted">>)))
        \/ Do("greeted") /\ Then(<<>>) /\ bridge' = [bridge EXCEPT !.hello = TRUE]
        \/ Do("go") /\ Then(IF req.reply = "frozen" THEN <<"c">> ELSE <<>>)
           /\ bridge' = [bridge EXCEPT !.seen = IF req.reply = "frozen" THEN FALSE ELSE @]
        \/ Do("step") /\ req' = [req EXCEPT !.todo = Rest, !.phase = "step"] /\ bridge' = [bridge EXCEPT !.seen = FALSE]
        \/ Do("ended") /\ req' = [req EXCEPT !.todo = Rest, !.phase = "plain"] /\ UNCHANGED bridge
        \/ Do("set") /\ req' = [req EXCEPT !.todo = Rest, !.phase = "set"] /\ UNCHANGED bridge
        \/ Do("added") /\ Then(<<>>) /\ bridge' = [bridge EXCEPT !.bp = TRUE]
        \/ Do("removed") /\ Then(<<>>) /\ bridge' = [bridge EXCEPT !.bp = FALSE]
        \/ Do("held") /\ Then(<<>>) /\ bridge' = [bridge EXCEPT !.held = TRUE]
        \/ Do("released") /\ Then(<<>>) /\ bridge' = [bridge EXCEPT !.held = FALSE, !.seen = @ /\ req.m # "reset"]
        \/ Do("mounted") /\ Then(<<>>) /\ bridge' = [bridge EXCEPT !.disc = req.disc]
        \/ Do("epoch") /\ Then(<<>>) /\ bridge' = [bridge EXCEPT !.batch = TRUE]

SaysFrozen == req.m \in {"pause", "step", "step_instructions", "reset", "media", "save_state", "batch", "probe"}
              \/ (req.m = "speed" /\ req.reply = "frozen")
Finish ==
  /\ req.m # "idle" /\ req.todo = <<>> /\ UNCHANGED <<native, wire, bridge>>
  /\ req' = Idle(IF req.failed THEN "error" ELSE IF req.m = "load_state" THEN "loaded" ELSE IF SaysFrozen THEN "frozen" ELSE "ok", 0)

XemuNext ==
  \/ \E m \in Methods, d \in Discs \cup {"none"} : Begin(m, d)
  \/ Exchange \/ Continue \/ Drain \/ AwaitFrozen \/ WaitFrameStep \/ Settle \/ StepOne \/ Match \/ AwaitJob \/ Capture
  \/ ((Take \/ Freeze \/ Restore \/ RetryCleanup) /\ UNCHANGED <<native, wire>>)
  \/ State \/ Local \/ Finish
  \/ (Emulate /\ UNCHANGED <<bridge, req>>)

XemuSpec == XemuInit /\ [][XemuNext]_xemuVars

-----------------------------------------------------------------------------
\* An answer that says the machine is halted finds it stopped with no frame step armed, whatever stop packets,
\* deadlines and lost replies met the request (pause, step_frames, reset, load_state).
XemuHaltIsReal == req.answer \in {"frozen", "loaded", "restored"} /\ bridge.lost = {} => ~native.run /\ ~native.armed

\* Between requests machine state and EEPROM belong together, input, breakpoints and disc are what the bridge records,
\* and the published state file has its snapshot, unless the bridge says that state integrity is unresolved; a load
\* that failed and was rolled back left the machine it found (load_state, recover_failed_state_load).
XemuStateWhole ==
  req.m = "idle" /\ bridge.lost = {} /\ ~bridge.integrity =>
    /\ native.vm = native.ee /\ ~native.phys
    /\ native.keys = bridge.held /\ native.point = bridge.bp /\ native.disc = bridge.disc
    /\ req.answer = "restored" => native.vm = req.was
    /\ req.answer = "loaded" => native.vm = bridge.file.vm
    /\ bridge.file.tag # 0 => [tag |-> bridge.file.tag, vm |-> bridge.file.vm] \in native.snaps

\* Two batches with the same stop epoch read the same memory: nothing moved the machine within one boundary_seq.
XemuEpochHolds == bridge.batch /\ bridge.lost = {} => ~native.changed

\* An operation that halted a running machine and reached the debugger does not resume past a hit that raced with it;
\* and while no request moved the machine past an unread stop, every hit is told, queued or on the wire.
XemuHitsKept ==
  /\ ~bridge.passed
  /\ bridge.exact /\ bridge.lost = {} =>
       native.hits = bridge.told + bridge.events + req.took + Cardinality({i \in DOMAIN wire : wire[i] = "05"})

=============================================================================
