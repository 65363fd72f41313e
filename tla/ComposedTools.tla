---------------------------- MODULE ComposedTools ----------------------------
(***************************************************************************)
(* The tools that a frontend composes out of several calls over one link:  *)
(* taps, drags and holds of input (src/live/tools.rs, tools/controller.rs, *)
(* tools/pointer.rs), the probe of a savestate (tools/probe.rs), a reset   *)
(* that reconnects, a batch of reads (memory_batch.rs), and on top of them *)
(* the search for the first bad frame (analysis/bisect.rs) and the replays *)
(* of a regression suite or of a check of determinism                      *)
(* (analysis/live_regression.rs, bin/emucap-mcp.rs).                       *)
(*                                                                         *)
(* A tool holds the link for itself, so nobody else calls the emulator.    *)
(* Any call may be refused or lost, with or without its effect; between    *)
(* two calls the emulator may be replaced by another launch, which the     *)
(* next call then adopts without a word (TcpLink).                         *)
(***************************************************************************)
EXTENDS Integers, FiniteSets

CONSTANTS Attempts,     \* SESSION_CLEANUP_ATTEMPTS
          Hold,         \* max_frames of hold_until
          Movie,        \* frames of a movie, and of the probe of a savestate
          Cases,        \* cases of a suite, or replays of a check of determinism
          Last,         \* the last frame of a bisection, which starts at frame 0
          MaxLaunches,  \* bound on the launches of a behaviour
          MaxFaults     \* bound on the calls that a live emulator fails

VARIABLES native,  \* the emulator: its launch; whether it runs and holds a tool's input;
                   \*     the case whose anchor is armed, whether someone else's breakpoint
                   \*     is; the undelivered events, by the case that armed them, 0 for
                   \*     someone else; the frames since it was last frozen or restored
          wire,    \* the link: the launch of its capabilities (0: none); whether the
                   \*     adapter names its launch; the failures so far
          req      \* the tool

toolVars == <<native, wire, req>>

Inputs == {"tap", "scoped", "click", "move", "drag", "hold"}
Analyses == {"suite", "determinism"}
Counted(n) == IF n > Movie + Last THEN Movie + Last + 1 ELSE n
NoRead == [id |-> 0, at |-> 0, event |-> 0]

\* The step that a tool starts with.
First(t) ==
    CASE t \in {"tap", "scoped"} -> "caps"
      [] t \in {"hold", "probe"} -> "gate"
      [] t \in {"move", "drag"} -> "pause"
      [] t = "bisect" -> "probe"
      [] t \in Analyses -> "prepare"
      [] OTHER -> t

Tool(t, k) ==
    [tool |-> t, pc |-> First(t), launch |-> 0, n |-> 0, failed |-> FALSE, bad |-> FALSE,
     hit |-> FALSE, via |-> "enter", to |-> "none", left |-> 0, running |-> FALSE, late |-> FALSE,
     case |-> 1, kind |-> "none", got |-> NoRead, result |-> "none",
     lo |-> 0, hi |-> Last, phase |-> "lo", k |-> k, odd |-> FALSE]

ToolsInit ==
    /\ native \in [id : {1}, run : BOOLEAN, held : {FALSE}, armed : {0}, user : BOOLEAN,
                   events : {{}, {0}}, at : {0}]
    /\ wire \in [at : {0, 1}, named : BOOLEAN, faults : {0}]
    /\ \/ \E t \in Inputs \cup Analyses \cup {"probe", "reset", "batch"} : req = Tool(t, 0)
       \/ \E k \in 0 .. Last + 1 : req = Tool("bisect", k)

-----------------------------------------------------------------------------
(* The emulator and the link.                                               *)

\* What stops an emulator that advances.
Armed == {c \in 0 .. Cases : IF c = 0 THEN native.user ELSE native.armed = c}

\* An advance of n frames: it completes, or a breakpoint interrupts it.
Advanced(n) ==
    {[hit |-> FALSE, native |-> [native EXCEPT !.run = FALSE, !.at = Counted(@ + n)]]}
    \cup {[hit |-> TRUE, native |-> [native EXCEPT !.run = FALSE, !.at = Counted(@ + j),
                                                   !.events = @ \cup {c}]] :
             c \in Armed, j \in 0 .. n - 1}

\* What the methods do.
Effects(m, n) ==
    IF m = "step" THEN Advanced(n)
    ELSE {[hit |-> FALSE, native |->
        CASE m = "pause" -> [native EXCEPT !.run = FALSE, !.at = 0]
          [] m = "resume" -> [native EXCEPT !.run = TRUE]
          [] m = "press" -> [native EXCEPT !.held = TRUE]
          [] m = "release" -> [native EXCEPT !.held = FALSE]
          [] m \in {"load_state", "reset"} -> [native EXCEPT !.at = 0]
          [] m = "clear_all_breakpoints" -> [native EXCEPT !.user = FALSE, !.armed = 0]
          [] m = "poll_events" -> [native EXCEPT !.events = {}]
          [] m = "set_breakpoint" -> [native EXCEPT !.armed = req.case]
          [] OTHER -> native]}

\* The native probe: the restore, the advance and the read in one call.
Probed(n) ==
    {[hit |-> FALSE, native |-> [native EXCEPT !.run = FALSE, !.at = n]]}
    \cup {[hit |-> TRUE, native |-> [native EXCEPT !.run = FALSE, !.at = j, !.events = @ \cup {c}]] :
             c \in Armed, j \in 0 .. n - 1}

Reply(o, l, h, m, w) == [ok |-> o, lost |-> l, hit |-> h, native |-> m, wire |-> w]

\* A live emulator carries the call out, or refuses it, or its answer is lost with
\* or without the connection (a timeout keeps it); a failed advance may also leave
\* it running.
Served(w, effects, advances) ==
    {Reply(TRUE, FALSE, e.hit, e.native, w) : e \in effects}
    \cup IF w.faults = MaxFaults THEN {}
         ELSE {Reply(FALSE, x.lost, FALSE, m, [w EXCEPT !.faults = @ + 1, !.at = x.at]) :
                  x \in {[lost |-> FALSE, at |-> w.at], [lost |-> TRUE, at |-> w.at],
                         [lost |-> TRUE, at |-> 0]},
                  m \in {native} \cup {e.native : e \in effects}
                        \cup IF advances THEN {[native EXCEPT !.run = TRUE]} ELSE {}}

\* The answers to a call: a link without a connection to the emulator that lives
\* adopts it, or finds nobody.
AnswersOver(w, m, n) ==
    LET effects == IF m = "probe" THEN Probed(n) ELSE Effects(m, n)
        advances == m \in {"step", "probe"}
    IN  Served([w EXCEPT !.at = native.id], effects, advances)
        \cup IF w.at = native.id THEN {}
             ELSE {Reply(FALSE, TRUE, FALSE, native, [w EXCEPT !.at = 0])}

Answers(m, n) == AnswersOver(wire, m, n)

\* call_before_deadline: past the deadline of an analysis nothing is called.
Before(m, n) ==
    IF req.late THEN {Reply(FALSE, FALSE, FALSE, native, wire)} ELSE Answers(m, n)

Calls(answers, Then(_)) ==
    \E o \in answers : native' = o.native /\ wire' = o.wire /\ req' = Then(o)

\* The launch that the link's capabilities name, and the one a cleanup expects.
Launch(w) == IF w.named THEN w.at ELSE 0
Expected == IF wire.named THEN req.launch ELSE 0

At(p) == [req EXCEPT !.pc = p]
Ends(r, res) == [r EXCEPT !.pc = "answered", !.result = res]
Fails(p) == [req EXCEPT !.pc = p, !.failed = TRUE]

\* A running emulator: frames pass that no tool counts, and a breakpoint may stop it.
GuestRuns ==
    /\ native.run /\ req.pc # "answered"
    /\ \/ native' = [native EXCEPT !.at = Movie + Last + 1]
       \/ \E c \in Armed : native' = [native EXCEPT !.run = FALSE, !.events = @ \cup {c}]
    /\ UNCHANGED <<wire, req>>

\* The emulator exits and another launch of it takes its place.
Relaunched ==
    /\ native.id < MaxLaunches /\ req.pc # "answered"
    /\ \E r \in BOOLEAN :
          native' = [id |-> native.id + 1, run |-> r, held |-> FALSE, armed |-> 0, user |-> FALSE,
                     events |-> {}, at |-> 0]
    /\ UNCHANGED <<wire, req>>

\* The deadline of an analysis passes.
DeadlinePasses ==
    /\ req.tool \in Analyses /\ ~req.late /\ req.pc # "answered"
    /\ req' = [req EXCEPT !.late = TRUE]
    /\ UNCHANGED <<native, wire>>

-----------------------------------------------------------------------------
(* Cleanup: an idempotent call that is repeated over a new session of the   *)
(* same launch when its answer is lost.                                     *)

Cleanups == {"release", "freeze", "unhold", "unarm", "refreeze"}

CleanupMethod ==
    CASE req.pc \in {"release", "unhold"} -> "release"
      [] req.pc = "unarm" -> "clear_all_breakpoints"
      [] OTHER -> "pause"

\* The end of a replay: a failure of the replay, or of its cleanup, is an error
\* whatever was read.
Judged(r) ==
    [r EXCEPT !.pc = "judged", !.result = IF r.failed \/ r.bad THEN "repro_error" ELSE @]

\* How a tool goes on after a cleanup call: finish_transient_input and finish_frozen
\* freeze after any error; cleanup_replay makes its three calls in any case.
Cleaned(ok) ==
    LET r == [req EXCEPT !.bad = @ \/ ~ok, !.via = "enter"] IN
    CASE req.pc = "release" ->
            IF req.failed \/ ~ok THEN [r EXCEPT !.pc = "freeze", !.failed = TRUE]
            ELSE IF req.hit /\ req.tool # "hold" THEN Ends(r, "ok")
            ELSE [r EXCEPT !.pc = IF req.tool \in {"drag", "hold"} THEN "edge" ELSE "after"]
      [] req.pc = "freeze" -> Ends(r, "error")
      [] req.pc = "unhold" -> [r EXCEPT !.pc = "unarm"]
      [] req.pc = "unarm" -> [r EXCEPT !.pc = "refreeze"]
      [] req.pc = "refreeze" -> Judged(r)

Retries(n) == [req EXCEPT !.via = "status", !.left = n]

\* call_session_cleanup: another launch, or a link that cannot tell, gets no call.
CleanupEnters ==
    /\ req.pc \in Cleanups /\ req.via = "enter"
    /\ LET refuses == IF Expected = 0 THEN wire.at = 0
                      ELSE wire.at # 0 /\ Launch(wire) # Expected
           preflight == Expected # 0 /\ wire.at = 0
       IN  \/ refuses /\ req' = Cleaned(FALSE) /\ UNCHANGED <<native, wire>>
           \/ preflight /\ req' = Retries(Attempts) /\ UNCHANGED <<native, wire>>
           \/ /\ ~refuses /\ ~preflight
              /\ Calls(Answers(CleanupMethod, 0),
                       LAMBDA o : IF o.lost /\ Expected # 0 THEN Retries(Attempts)
                                  ELSE Cleaned(o.ok))

\* prepare_reconnect, and the launch that answers is asked for.
CleanupAsks ==
    /\ req.pc \in Cleanups /\ req.via = "status"
    /\ \/ req.left = 0 /\ req' = Cleaned(FALSE) /\ UNCHANGED <<native, wire>>
       \/ /\ req.left > 0
          /\ Calls(AnswersOver([wire EXCEPT !.at = 0], "status", 0),
                   LAMBDA o : IF o.lost THEN Retries(req.left - 1)
                              ELSE IF o.ok /\ Launch(o.wire) = Expected
                              THEN [req EXCEPT !.via = "again"]
                              ELSE Cleaned(FALSE))

CleanupRepeats ==
    /\ req.pc \in Cleanups /\ req.via = "again"
    /\ Calls(Answers(CleanupMethod, 0),
             LAMBDA o : IF o.lost THEN Retries(req.left - 1) ELSE Cleaned(o.ok))

-----------------------------------------------------------------------------
(* Before a tool.                                                           *)

\* ensure_capabilities_loaded: a link without capabilities asks for them.  A tap may
\* be cancelled before and after.
LoadsCaps ==
    /\ req.pc = "caps"
    /\ LET tap == req.tool \in Inputs
           on == At(IF tap THEN "tap axes" ELSE "mode")
       IN  \/ wire.at # 0 /\ req' = on /\ UNCHANGED <<native, wire>>
           \/ wire.at = 0 /\ Calls(Before("status", 0),
                                   LAMBDA o : IF o.ok THEN on ELSE Ends(req, "error"))
           \/ tap /\ req' = Ends(req, "error") /\ UNCHANGED <<native, wire>>

\* The axes of a tap are compared with the status; only scoped input has any.
ChecksTapAxes ==
    /\ req.pc = "tap axes"
    /\ LET on == At(IF req.tool = "scoped" THEN "validate" ELSE "pause")
       IN  \/ req' \in {on, Ends(req, "error")} /\ UNCHANGED <<native, wire>>
           \/ \E fit \in BOOLEAN :
                 Calls(Answers("status", 0),
                       LAMBDA o : IF o.ok /\ fit /\ req.tool = "scoped" THEN on ELSE Ends(req, "error"))

\* The operation that the debug tool is asked for.
Routed == At(IF req.tool = "hold" THEN "pause" ELSE "probe")

\* validate_routed_operation: it runs under the capability revision that its caller
\* knows, which is compared with a status.
Gates ==
    /\ req.pc = "gate"
    /\ \E known \in BOOLEAN :
          Calls(Answers("status", 0), LAMBDA o : IF o.ok /\ known THEN Routed ELSE Ends(req, "error"))

\* A click of the pointer is a tap of its button.
Clicks ==
    /\ req.pc = "click"
    /\ req' \in {At("validate"), At("pause"), Ends(req, "error")}
    /\ UNCHANGED <<native, wire>>

\* The arguments of an input tool do not pass: no call is made.
Refuses ==
    /\ req.pc \in {"pause", "validate"}
    /\ req' = Ends(req, "error")
    /\ UNCHANGED <<native, wire>>

-----------------------------------------------------------------------------
(* Input for a number of frames.                                            *)

\* tap_axes_in_unit: an adapter with scoped input validates it first.
Validates ==
    /\ req.pc = "validate"
    /\ Calls(Answers("validate", 0), LAMBDA o : IF o.ok THEN At("pause") ELSE Ends(req, "error"))

\* The emulator is frozen, and its launch remembered.
Pauses ==
    /\ req.pc = "pause"
    /\ Calls(Answers("pause", 0),
             LAMBDA o : IF o.ok
                        THEN [req EXCEPT !.pc = IF req.tool = "move" THEN "act" ELSE "press",
                                         !.launch = o.wire.at]
                        ELSE Ends(req, "error"))

\* A press whose answer is lost may hold: it is released like any other.
Presses ==
    /\ req.pc = "press"
    /\ Calls(Answers("press", 0),
             LAMBDA o : IF ~o.ok THEN Fails("release")
                        ELSE At(IF req.tool = "hold" THEN "look" ELSE "act"))

\* hold_until reads the watched memory before the first frame and after every one.
Looks ==
    /\ req.pc = "look"
    /\ \E changed \in IF req.n = 0 THEN {FALSE} ELSE BOOLEAN :
          Calls(Answers("read_memory", 0),
                LAMBDA o : IF ~o.ok THEN Fails("release")
                           ELSE At(IF changed \/ req.n = Hold THEN "release" ELSE "act"))

\* The frames under the input: a step, or a movement of the pointer.
Acts ==
    /\ req.pc = "act" /\ req.tool # "move"
    /\ Calls(Answers("step", 1),
             LAMBDA o : IF ~o.ok THEN Fails("release")
                        ELSE IF req.tool = "hold" THEN [req EXCEPT !.pc = "look", !.n = @ + 1]
                        ELSE [req EXCEPT !.pc = "release", !.hit = o.hit])

\* move_pointer holds nothing.
Moves ==
    /\ req.pc = "act" /\ req.tool = "move"
    /\ Calls(Answers("step", 1), LAMBDA o : IF o.ok THEN Ends(req, "ok") ELSE Fails("freeze"))

\* The frame in which the release takes effect; an interruption ends a drag.
ReleaseEdge ==
    /\ req.pc = "edge"
    /\ Calls(Answers("step", 1),
             LAMBDA o : IF ~o.ok THEN Fails("freeze")
                        ELSE IF o.hit \/ req.tool = "hold" THEN Ends(req, "ok")
                        ELSE At("after"))

\* The frames after the release, if any were asked for.
Trails ==
    /\ req.pc = "after"
    /\ \/ req' = Ends(req, "ok") /\ UNCHANGED <<native, wire>>
       \/ Calls(Answers("step", 1), LAMBDA o : IF o.ok THEN Ends(req, "ok") ELSE Fails("freeze"))

-----------------------------------------------------------------------------
(* A reset or a power cycle.                                                *)

\* call_reconnecting_operation: the identity is the one before the call.  An answer
\* may announce that the adapter reconnects.
Resets ==
    /\ req.pc = "reset"
    /\ \E reconnect \in BOOLEAN :
       \E o \in Answers("reset", 0) :
          /\ native' = o.native
          /\ wire' = IF o.ok /\ reconnect THEN [o.wire EXCEPT !.at = 0] ELSE o.wire
          /\ req' = IF ~o.ok THEN Ends(req, "error")
                    ELSE IF ~reconnect THEN Ends(req, "ok")
                    ELSE [req EXCEPT !.pc = "reconnect", !.launch = wire.at, !.got.at = o.wire.at]

\* require_preserved_reconnect_identity
Preserved(o) == Expected = 0 \/ Launch(o.wire) = Expected

\* It asks until somebody answers or the deadline passes, and takes nobody else.
Reconnects ==
    /\ req.pc = "reconnect"
    /\ \E expired \in BOOLEAN :
          Calls(Answers("status", 0),
                LAMBDA o : IF o.ok
                           THEN IF Preserved(o)
                                THEN [Ends(req, "reconnected") EXCEPT !.got.id = o.wire.at]
                                ELSE Ends(req, "error")
                           ELSE IF o.lost /\ ~expired THEN req
                           ELSE Ends(req, "error"))

-----------------------------------------------------------------------------
(* A batch of reads.                                                        *)

\* The adapter has no batches, or a range does not pass: no call is made.
BatchRefuses ==
    /\ req.pc = "batch"
    /\ req' = Ends(req, "error")
    /\ UNCHANGED <<native, wire>>

\* verify_reply: a whole reply of a frozen machine, of the launch known before the call.
BatchAccepted(o, whole) == whole /\ ~o.native.run /\ (wire.named => o.wire.at = wire.at)

Batches ==
    /\ req.pc = "batch" /\ wire.at # 0
    /\ \E whole \in BOOLEAN :
          Calls(Answers("read_memory", 0),
                LAMBDA o : IF o.ok /\ BatchAccepted(o, whole)
                           THEN [Ends(req, "ok") EXCEPT !.launch = wire.at]
                           ELSE Ends(req, "error"))

-----------------------------------------------------------------------------
(* The probe of a savestate, and the bisection over its frames.             *)

Middle == req.lo + (req.hi - req.lo) \div 2

\* The frame that is probed.
ProbeFrame ==
    CASE req.tool # "bisect" -> Movie
      [] req.phase = "lo" -> req.lo
      [] req.phase = "hi" -> req.hi
      [] OTHER -> Middle

ProbeFails(r) ==
    IF r.tool \in Analyses THEN [r EXCEPT !.pc = "judged", !.result = "repro_error"]
    ELSE Ends(r, "error")

Found(r, f) == [Ends(r, "ok") EXCEPT !.got = [id |-> 1, at |-> f, event |-> 0]]
NotFound(r) == [Ends(r, "ok") EXCEPT !.got = NoRead]

\* The bisection narrows to a good frame followed by a bad one.
Narrows(r) == IF r.hi - r.lo > 1 THEN [r EXCEPT !.pc = "probe", !.phase = "mid"] ELSE Found(r, r.hi)

Bisected(r, bad) ==
    CASE r.phase = "lo" -> IF bad THEN Found(r, r.lo)
                           ELSE IF r.hi <= r.lo THEN NotFound(r)
                           ELSE [r EXCEPT !.pc = "probe", !.phase = "hi"]
      [] r.phase = "hi" -> IF bad THEN Narrows(r) ELSE NotFound(r)
      [] OTHER -> Narrows(IF bad THEN [r EXCEPT !.hi = Middle] ELSE [r EXCEPT !.lo = Middle])

ReadBy(o) == [id |-> o.wire.at, at |-> o.native.at, event |-> 0]

\* The predicate holds from frame k on.
Bad(r) == r.got.at >= r.k

\* A probe that returned what it read: an interruption is not told apart by those
\* who only take the bytes.
ProbeEnds(r) ==
    LET odd == r.odd \/ r.hit \/ r.got.id # r.launch IN
    CASE r.tool \in Analyses -> [r EXCEPT !.pc = "judged", !.result = "measured", !.odd = odd]
      [] r.tool = "bisect" -> Bisected([r EXCEPT !.odd = odd], Bad(r))
      [] OTHER -> Ends([r EXCEPT !.odd = odd], "ok")

\* The span is wrong, or the capabilities lack a method.
ProbeRefuses ==
    /\ req.pc = "probe"
    /\ req' = ProbeFails(req)
    /\ UNCHANGED <<native, wire>>

\* The adapter has a probe of its own; afterwards it must be frozen.
ProbesNatively ==
    /\ req.pc = "probe" /\ wire.at # 0
    /\ Calls(Answers("probe", ProbeFrame),
             LAMBDA o : IF ~o.ok THEN ProbeFails(req)
                        ELSE [req EXCEPT !.pc = "terminal", !.launch = o.wire.at, !.hit = o.hit,
                                         !.got = ReadBy(o)])

\* An interrupted native probe may come without the bytes.
ProbeTerminal ==
    /\ req.pc = "terminal"
    /\ \E bytes \in IF req.hit THEN BOOLEAN ELSE {TRUE} :
          Calls(Answers("status", 0),
                LAMBDA o : IF ~o.ok \/ o.native.run \/ ~bytes THEN ProbeFails(req) ELSE ProbeEnds(req))

\* verify_frozen_boundary: an answer without a state is followed by a status.
Bounded(o, told, r) ==
    CASE ~told -> [r EXCEPT !.pc = "boundary", !.to = r.pc]
      [] o.native.run -> ProbeFails(req)
      [] OTHER -> r

ProbeBoundary ==
    /\ req.pc = "boundary"
    /\ Calls(Answers("status", 0),
             LAMBDA o : IF ~o.ok \/ o.native.run THEN ProbeFails(req)
                        ELSE [req EXCEPT !.pc = req.to, !.to = "none"])

\* The composed probe freezes a running emulator,
ProbeStatus ==
    /\ req.pc = "probe" /\ wire.at # 0
    /\ Calls(Answers("status", 0),
             LAMBDA o : IF ~o.ok THEN ProbeFails(req)
                        ELSE [req EXCEPT !.pc = IF o.native.run THEN "still" ELSE "preflight",
                                         !.hit = FALSE])

ProbePauses ==
    /\ req.pc = "still"
    /\ \E told \in BOOLEAN :
          Calls(Answers("pause", 0),
                LAMBDA o : IF ~o.ok THEN ProbeFails(req)
                           ELSE Bounded(o, told, [req EXCEPT !.pc = "preflight", !.via = "paused"]))

\* reads the span once if no region vouches for it, and lets an emulator that ran
\* run on when that fails,
ProbePreflight ==
    /\ req.pc = "preflight"
    /\ \/ req' = [req EXCEPT !.pc = "load", !.via = "enter"] /\ UNCHANGED <<native, wire>>
       \/ Calls(Answers("read_memory", 0),
                LAMBDA o : IF o.ok THEN [req EXCEPT !.pc = "load", !.via = "enter"]
                           ELSE IF req.via = "paused"
                           THEN [req EXCEPT !.pc = "unpause", !.via = "enter"]
                           ELSE ProbeFails(req))

ProbeResumes ==
    /\ req.pc = "unpause"
    /\ Calls(Answers("resume", 0),
             LAMBDA o : [ProbeFails(req) EXCEPT !.bad = ~o.ok])

\* restores the state, which must leave the emulator frozen,
ProbeLoads ==
    /\ req.pc = "load"
    /\ \E told \in BOOLEAN :
          Calls(Answers("load_state", 0),
                LAMBDA o : IF ~o.ok THEN ProbeFails(req)
                           ELSE Bounded(o, told,
                                   [req EXCEPT !.pc = IF ProbeFrame = 0 THEN "fetch" ELSE "advance",
                                               !.launch = o.wire.at]))

ProbeSteps ==
    /\ req.pc = "advance"
    /\ \E told \in BOOLEAN :
          Calls(Answers("step", ProbeFrame),
                LAMBDA o : IF ~o.ok THEN ProbeFails(req)
                           ELSE Bounded(o, told, [req EXCEPT !.pc = "fetch", !.hit = o.hit]))

\* and reads.
ProbeReads ==
    /\ req.pc = "fetch"
    /\ Calls(Answers("read_memory", 0),
             LAMBDA o : IF o.ok THEN ProbeEnds([req EXCEPT !.got = ReadBy(o)]) ELSE ProbeFails(req))

-----------------------------------------------------------------------------
(* A regression suite, or the replays of one case.                          *)

Verdict(v) == [req EXCEPT !.pc = "judged", !.result = v]

\* The files of a suite are read before the first call; movies or frames beyond the
\* limits of a suite refuse it as a whole.
PreparesSuite ==
    /\ req.pc = "prepare" /\ req.tool = "suite"
    /\ req' \in {At("caps"), Ends(req, "error")}
    /\ UNCHANGED <<native, wire>>

\* A case whose files do not pass makes a check an invalid measurement.
PreflightFailure == Ends(req, "invalid")

PreparesCase ==
    /\ req.pc = "prepare" /\ req.tool = "determinism"
    /\ req' \in {At("caps"), Ends(req, "error"), PreflightFailure}
    /\ UNCHANGED <<native, wire>>

\* analysis_started_running
AsksMode ==
    /\ req.pc = "mode"
    /\ Calls(Before("status", 0),
             LAMBDA o : IF o.ok
                        THEN [req EXCEPT !.running = o.native.run,
                                         !.pc = IF req.tool = "suite" THEN "case" ELSE "rom"]
                        ELSE Ends(req, "error"))

\* How a case is reproduced: from a state, or by a movie, up to its end or an anchor.
Kinds == {"savestate", "replay", "anchored"}

\* What the files of a case may be.
Unfit == {"missing_payload", "invalid"}

\* prepare_case: the cases that can be run, and the verdict on the others.
Prepared == {[req EXCEPT !.kind = k, !.pc = "ready"] : k \in Kinds} \cup {Verdict(v) : v \in Unfit}

\* The next case of a suite, as prepared.
CaseStarts ==
    /\ req.pc = "case"
    /\ IF req.case > Cases THEN req' = At("restore") ELSE req' \in Prepared
    /\ UNCHANGED <<native, wire>>

Readies ==
    /\ req.pc = "ready"
    /\ \/ wire.at # 0 /\ req' = At("rom") /\ UNCHANGED <<native, wire>>
       \/ wire.at = 0 /\ Calls(Before("status", 0),
                               LAMBDA o : IF o.ok THEN At("rom") ELSE Verdict("repro_error"))

\* A hash of the image that differs ends the case; a failure to get one does not.
RomChecked(on) ==
    \/ req' = on /\ UNCHANGED <<native, wire>>
    \/ /\ wire.at # 0
       /\ \E differs \in BOOLEAN :
             Calls(Before("get_rom_info", 0),
                   LAMBDA o : IF o.ok /\ differs THEN Verdict("rom_mismatch") ELSE on)

ChecksRom == req.pc = "rom" /\ req.tool = "suite" /\ RomChecked(At("support"))

\* A check of determinism does it once, if its replays stay within the limit.
StartsReplays ==
    /\ req.pc = "rom" /\ req.tool = "determinism"
    /\ \/ req' = Verdict("invalid") /\ UNCHANGED <<native, wire>>
       \/ \E k \in Kinds : RomChecked([req EXCEPT !.pc = "support", !.kind = k])

\* The methods that a replay needs are looked up in the capabilities; a start from a
\* state asks whether the adapter restores exactly.
ReplaySupported ==
    \/ req' = Verdict("unsupported") /\ UNCHANGED <<native, wire>>
    \/ wire.at # 0 /\ req' = At("axes") /\ UNCHANGED <<native, wire>>
    \/ /\ wire.at # 0
       /\ \E exact \in BOOLEAN :
             Calls(Before("status", 0),
                   LAMBDA o : IF ~o.ok THEN Verdict("repro_error")
                              ELSE IF exact THEN At("axes") ELSE Verdict("unsupported"))

\* A start from a savestate is a probe.
ProbeSupported ==
    /\ \/ req' = Verdict("unsupported")
       \/ wire.at # 0 /\ req' = IF req.late THEN Verdict("repro_error") ELSE At("probe")
    /\ UNCHANGED <<native, wire>>

CaseSupported ==
    /\ req.pc = "support" /\ req.tool = "suite"
    /\ IF req.kind = "savestate" THEN ProbeSupported ELSE ReplaySupported

ObserveSupported ==
    /\ req.pc = "support" /\ req.tool = "determinism"
    /\ IF req.kind = "savestate" THEN ProbeSupported ELSE ReplaySupported

\* A movie with axes has them compared with the status, before the emulator starts
\* over and once more before it is frozen.
ChecksAxes ==
    /\ req.pc \in {"axes", "axes again"}
    /\ LET on == At(IF req.pc = "axes" THEN "start" ELSE "halt")
           off == Verdict(IF req.pc = "axes" THEN "invalid" ELSE "repro_error")
       IN  \/ req' = on /\ UNCHANGED <<native, wire>>
           \/ \E fit \in BOOLEAN :
                 Calls(Before("status", 0), LAMBDA o : IF o.ok /\ fit THEN on ELSE off)

\* The emulator starts over, from reset or from a state,
Restarts ==
    /\ req.pc = "start"
    /\ \E m \in {"reset", "load_state"} :
          Calls(Before(m, 0), LAMBDA o : IF o.ok THEN At("axes again") ELSE Verdict("repro_error"))

\* and is frozen, and its launch remembered.  From here on there is something to undo.

ReplayPauses ==
    /\ req.pc = "halt"
    /\ Calls(Before("pause", 0),
             LAMBDA o : IF o.ok
                        THEN [req EXCEPT !.pc = IF req.kind = "anchored" THEN "clear" ELSE "input",
                                         !.launch = o.wire.at]
                        ELSE Verdict("repro_error"))

\* Before the anchor is armed, what earlier activity left behind is removed.
ClearsStale ==
    /\ req.pc = "clear"
    /\ Calls(Before("clear_all_breakpoints", 0),
             LAMBDA o : IF o.ok THEN At("drain") ELSE Fails("unhold"))

\* Mutant: a poll that fails is taken for an empty one.
DrainsStaleHoped ==
    /\ req.pc = "drain"
    /\ Calls(Before("poll_events", 0), LAMBDA o : At("arm"))

DrainsStale ==
    /\ req.pc = "drain"
    /\ Calls(Before("poll_events", 0), LAMBDA o : IF o.ok THEN At("arm") ELSE Fails("unhold"))

Arms ==
    /\ req.pc = "arm"
    /\ Calls(Before("set_breakpoint", 0), LAMBDA o : IF o.ok THEN At("poll") ELSE Fails("unhold"))

\* Any event is the anchor's; after the last frame without one, it was missed.
PollsAnchor ==
    /\ req.pc = "poll"
    /\ Calls(Before("poll_events", 0),
             LAMBDA o :
                IF ~o.ok THEN Fails("unhold")
                ELSE IF native.events # {}
                THEN [req EXCEPT !.pc = "read", !.hit = TRUE,
                         !.got.event = IF native.events = {req.case} THEN req.case ELSE 0]
                ELSE IF req.n < Movie THEN At("input")
                ELSE [req EXCEPT !.pc = "unhold", !.result = "drift_suspected"])

\* The input of a frame, which is none between the rows of the movie.
ReplaysInput ==
    /\ req.pc = "input"
    /\ \E m \in {"press", "release"} :
          Calls(Before(m, 0), LAMBDA o : IF o.ok THEN At("frame") ELSE Fails("unhold"))

ReplaysFrame ==
    /\ req.pc = "frame"
    /\ Calls(Before("step", 1),
             LAMBDA o : IF ~o.ok THEN Fails("unhold")
                        ELSE [req EXCEPT !.n = @ + 1, !.odd = @ \/ (req.kind = "replay" /\ o.hit),
                                 !.pc = IF req.kind = "anchored" THEN "poll"
                                        ELSE IF req.n + 1 < Movie THEN "input" ELSE "read"])

\* observe_hash: a check of determinism refuses a read that was cut short,
Hashed(o, whole) == o.ok /\ (whole \/ req.tool = "suite")

\* evaluate: and a case one of another length.
Evaluated(whole) == IF whole THEN "measured" ELSE "invalid_read"

\* The observation: the target of a case, or the hash of a check of determinism.
Observes ==
    /\ req.pc = "read"
    /\ \E whole \in BOOLEAN :
          Calls(Before("read_memory", 0),
                LAMBDA o : IF ~Hashed(o, whole) THEN Fails("unhold")
                           ELSE [req EXCEPT !.pc = "unhold", !.result = Evaluated(whole),
                                    !.got.id = o.wire.at, !.got.at = o.native.at])

Afresh ==
    [req EXCEPT !.case = @ + 1, !.launch = 0, !.n = 0, !.failed = FALSE, !.bad = FALSE,
                !.hit = FALSE, !.got = NoRead, !.odd = FALSE, !.result = "none",
                !.via = "enter", !.to = "none"]

\* The next case of a suite.
NextCase ==
    /\ req.pc = "judged" /\ req.tool = "suite"
    /\ req' = [Afresh EXCEPT !.pc = "case", !.kind = "none"]
    /\ UNCHANGED <<native, wire>>

\* The next replay of a check of determinism; one that was not measured ends it.
NextReplay ==
    /\ req.pc = "judged" /\ req.tool = "determinism"
    /\ req' = [Afresh EXCEPT !.pc = IF req.result = "measured" /\ req.case < Cases
                                   THEN "support" ELSE "restore"]
    /\ UNCHANGED <<native, wire>>

\* restore_analysis_execution: the mode is what it was, and the emulator says so.
RestoresMode ==
    /\ req.pc = "restore"
    /\ Calls(Answers(IF req.running THEN "resume" ELSE "pause", 0),
             LAMBDA o : IF o.ok THEN At("check")
                        ELSE [Ends(req, "error") EXCEPT !.bad = TRUE])

ConfirmsMode ==
    /\ req.pc = "check"
    /\ Calls(Answers("status", 0),
             LAMBDA o : IF o.ok /\ o.native.run = req.running
                        THEN Ends(req, "ok")
                        ELSE [Ends(req, "error") EXCEPT !.bad = TRUE])

-----------------------------------------------------------------------------
OpeningStep == LoadsCaps \/ ChecksTapAxes \/ Gates \/ Clicks \/ Refuses

InputStep == Validates \/ Pauses \/ Presses \/ Looks \/ Acts \/ Moves \/ ReleaseEdge \/ Trails

CleanupStep == CleanupEnters \/ CleanupAsks \/ CleanupRepeats

ProbeStep ==
    \/ ProbeRefuses \/ ProbesNatively \/ ProbeTerminal \/ ProbeBoundary
    \/ ProbeStatus \/ ProbePauses \/ ProbePreflight \/ ProbeResumes
    \/ ProbeLoads \/ ProbeSteps \/ ProbeReads

SuiteStep ==
    \/ PreparesSuite \/ PreparesCase \/ AsksMode \/ CaseStarts \/ NextCase \/ NextReplay
    \/ RestoresMode \/ ConfirmsMode

CaseStep ==
    \/ Readies \/ ChecksRom \/ StartsReplays \/ CaseSupported \/ ObserveSupported \/ ChecksAxes \/ Restarts \/ ReplayPauses
    \/ ClearsStale \/ DrainsStale \/ Arms \/ PollsAnchor
    \/ ReplaysInput \/ ReplaysFrame \/ Observes

ToolsNext ==
    \/ GuestRuns \/ Relaunched \/ DeadlinePasses
    \/ OpeningStep \/ InputStep \/ CleanupStep
    \/ Resets \/ Reconnects \/ BatchRefuses \/ Batches
    \/ ProbeStep \/ SuiteStep \/ CaseStep

ToolsSpec == ToolsInit /\ [][ToolsNext]_toolVars

-----------------------------------------------------------------------------
Answered(tools) == req.pc = "answered" /\ req.tool \in tools

\* A tool that answers without a cleanup failure, error or not, leaves no input held,
\* and the launch it froze frozen; whatever was lost, refused or relaunched on the way.
InputGone ==
    Answered(Inputs) /\ ~req.bad => ~native.held /\ (native.id = req.launch => ~native.run)

\* The same for a replay, and its anchor is gone.
ReplayGone ==
    req.pc = "judged" /\ req.kind \in {"replay", "anchored"} /\ req.launch # 0 /\ ~req.bad
        => ~native.held /\ (native.id = req.launch => ~native.run /\ native.armed = 0)

\* A case is judged by what was read of the launch that its replay froze, after all
\* frames of the movie or at an event of its own anchor, and with everything undone;
\* an adapter that does not name its launch and breakpoints of others aside.
MeasuredIsReal ==
    req.pc = "judged" /\ req.result = "measured" =>
        /\ ~req.bad
        /\ req.kind = "savestate" /\ ~req.odd => req.got.at = Movie
        /\ req.kind # "savestate" /\ wire.named => req.got.id = req.launch
        /\ req.kind = "replay" /\ ~req.odd /\ req.got.id = req.launch => req.got.at = Movie
        /\ req.kind = "anchored" => req.got.event = req.case

\* A bisection whose probes all ran through in the launch that they restored finds
\* the first bad frame; a single probe read the frame that was asked for.
ProbeIsExact ==
    Answered({"probe", "bisect"}) /\ req.result = "ok" /\ ~req.odd =>
        req.got.at = CASE req.tool = "probe" -> Movie
                       [] req.k > Last -> 0
                       [] OTHER -> req.k

\* A reset that reports a reconnection reset the launch it reports.
ResetIsOfLaunch ==
    req.result = "reconnected" /\ wire.named /\ req.launch # 0 =>
        req.got.id = req.launch /\ req.got.at = req.launch

\* A batch that is accepted was read from the launch known before the call, frozen;
\* an adapter that does not name its launch aside.
BatchIsOfLaunch ==
    Answered({"batch"}) /\ req.result = "ok" => ~native.run /\ (wire.named => native.id = req.launch)

\* What a composed tool answers is true of the emulator, whatever calls were refused
\* or lost and whenever another launch took its place.
ComposedToolsSound ==
    InputGone /\ ReplayGone /\ MeasuredIsReal /\ ProbeIsExact /\ ResetIsOfLaunch /\ BatchIsOfLaunch
=============================================================================
