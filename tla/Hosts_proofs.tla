----------------------------- MODULE Hosts_proofs -----------------------------
(***************************************************************************)
(* Proofs about the hosts and bridges of single emulators, one instance    *)
(* each: that what they answer is true of the emulator, and that no hit of *)
(* a breakpoint is lost without being counted.                             *)
(***************************************************************************)
EXTENDS Integers, Sequences, SequenceTheorems, TLAPS

CONSTANTS MaxPendingEvents, MaxNativeEvents, Cards, MaxHits, MsxPoints, MaxQueue, MaxReqs
VARIABLES native, bridge, wire, req

Np == INSTANCE Np2kaiHost
Ps2 == INSTANCE Pcsx2Bridge
Msx == INSTANCE OpenMsxBridge

-----------------------------------------------------------------------------
(* The NP2kai host *)

NpAnswers == {"none", "unknown", "frozen", "running"}
NpOps == Np!PlainOps \cup Np!ParentOps

NpCores == [queue : Nat, lost : Nat, armed : BOOLEAN]
NpBridges ==
    [frozen : BOOLEAN, doing : {"none"} \cup Np!Advances, was : BOOLEAN, pace : {"limited", "unlimited"},
     pending : Nat, dropped : Nat, held : BOOLEAN, keys : BOOLEAN, parent : {"none", "open"},
     effects : BOOLEAN, inputs : BOOLEAN, over : BOOLEAN]
NpWires == [cmd : {"none"} \cup NpOps, queued : BOOLEAN, waiting : BOOLEAN, cancelled : BOOLEAN, reply : NpAnswers]
NpReqs == [count : Nat, retired : BOOLEAN, told : NpAnswers, hits : Nat, settled : Nat, mislaid : Nat]

NpTypeOK == native \in NpCores /\ bridge \in NpBridges /\ wire \in NpWires /\ req \in NpReqs

\* One command is in the channel, with the owner or answered, and never two of these.
NpOneCommand ==
    /\ wire.queued => bridge.doing = "none" /\ wire.reply = "none" /\ wire.cmd # "none"
    /\ bridge.doing # "none" => wire.cmd = bridge.doing /\ wire.reply = "none"
    /\ wire.reply # "none" => wire.waiting
    /\ wire.waiting => req.told = "unknown"

\* An answer that the machine is frozen stays true from when it is sent to the next
\* command; an advance gives a frozen machine back frozen.
NpFrozen ==
    /\ bridge.doing # "none" /\ bridge.frozen => bridge.was
    /\ wire.reply = "frozen" => bridge.frozen
    /\ req.told = "frozen" => bridge.frozen /\ ~wire.queued /\ ~wire.waiting /\ wire.cmd = "none"

NpKeys == bridge.doing = "none" /\ ~bridge.over => bridge.keys = bridge.held

NpInv == NpTypeOK /\ NpOneCommand /\ NpFrozen /\ NpKeys /\ Np!NpHitsKept

LEMMA NpStarts == Np!NpInit => NpInv
BY DEF Np!NpInit, Np!Idle, NpInv, NpTypeOK, NpCores, NpBridges, NpWires, NpReqs, NpAnswers, NpOneCommand,
       NpFrozen, NpKeys, Np!NpHitsKept

\* What the counters of hits and the state of the channel are for a step.
NpSteps == NpTypeOK' /\ NpOneCommand' /\ NpFrozen' /\ NpKeys'

\* The command in hand is answered by what is true of the host then.
LEMMA NpAnswered ==
    ASSUME NpInv, NEW b \in NpBridges, NEW says \in NpAnswers \ {"none"}, Np!Answer(b, says),
           wire.queued \/ bridge.doing # "none", says = "frozen" => b.frozen, b.keys = b.held,
           native' \in NpCores, req' \in NpReqs, req'.told = req.told
    PROVE  NpSteps /\ bridge'.pending = b.pending /\ bridge'.dropped = b.dropped
<1>1. wire \in NpWires /\ NpOneCommand /\ NpFrozen
  BY DEF NpInv, NpTypeOK
<1>2. /\ bridge' \in NpBridges /\ bridge'.frozen = b.frozen /\ bridge'.doing = "none"
      /\ bridge'.keys = b.keys /\ bridge'.held = b.held
      /\ bridge'.pending = b.pending /\ bridge'.dropped = b.dropped
  BY <1>1 DEF Np!Answer, NpBridges, NpWires
<1>3. /\ wire' \in NpWires /\ wire'.cmd = "none" /\ ~wire'.queued /\ wire'.waiting = wire.waiting
      /\ wire'.reply = IF wire.waiting THEN says ELSE "none"
  BY <1>1 DEF Np!Answer, NpWires, NpAnswers
<1>4. req.told # "frozen"
  BY <1>1 DEF NpOneCommand, NpFrozen
<1>5. NpOneCommand' /\ NpFrozen' /\ NpKeys'
  BY <1>1, <1>2, <1>3, <1>4 DEF NpOneCommand, NpFrozen, NpKeys
<1> QED BY <1>2, <1>3, <1>5 DEF NpSteps, NpTypeOK

\* The host's queue counts what it drops.
LEMMA NpEnqueued ==
    ASSUME MaxPendingEvents \in Nat, NEW b \in NpBridges, NEW n \in Nat
    PROVE  /\ Np!Enqueue(b, n) \in NpBridges
           /\ Np!Enqueue(b, n).pending + Np!Enqueue(b, n).dropped = b.pending + b.dropped + n
           /\ Np!Enqueue(b, n).frozen = b.frozen /\ Np!Enqueue(b, n).doing = b.doing
           /\ Np!Enqueue(b, n).keys = b.keys /\ Np!Enqueue(b, n).held = b.held
<1> DEFINE over == b.pending + n - MaxPendingEvents
<1>1. b.pending \in Nat /\ b.dropped \in Nat /\ over \in Int
  BY DEF NpBridges
<1>2. CASE over > 0
  <2>1. Np!Enqueue(b, n) = [b EXCEPT !.pending = MaxPendingEvents, !.dropped = @ + over]
    BY <1>2 DEF Np!Enqueue
  <2>2. PICK d \in Nat : d = b.dropped + over /\ MaxPendingEvents + d = b.pending + b.dropped + n
    BY <1>1, <1>2
  <2>3. Np!Enqueue(b, n) = [b EXCEPT !.pending = MaxPendingEvents, !.dropped = d]
    BY <2>1, <2>2
  <2> QED BY <2>2, <2>3 DEF NpBridges
<1>3. CASE ~(over > 0)
  <2>1. Np!Enqueue(b, n) = [b EXCEPT !.pending = @ + n]
    BY <1>3 DEF Np!Enqueue
  <2> QED BY <1>1, <2>1 DEF NpBridges
<1> QED BY <1>2, <1>3

\* A frame that a breakpoint stops adds one hit to one of the core's counters.
LEMMA NpStopped ==
    ASSUME NpTypeOK, Np!FrameStopped
    PROVE  /\ native' \in NpCores /\ req' \in NpReqs /\ req'.told = req.told
           /\ req'.hits = req.hits + 1 /\ req'.settled = req.settled /\ req'.mislaid = req.mislaid
           /\ native'.queue + native'.lost = native.queue + native.lost + 1
BY DEF NpTypeOK, NpCores, NpReqs, Np!FrameStopped, Np!Queued

LEMMA NpRan ==
    ASSUME NpInv, Np!FrameDone \/ Np!FrameStopped, bridge' \in NpBridges,
           bridge'.pending = bridge.pending, bridge'.dropped = bridge.dropped
    PROVE  native' \in NpCores /\ req' \in NpReqs /\ req'.told = req.told /\ Np!NpHitsKept'
<1>1. NpTypeOK /\ Np!NpHitsKept
  BY DEF NpInv
<1>2. CASE Np!FrameDone
  BY <1>1, <1>2 DEF Np!FrameDone, Np!NpHitsKept, NpTypeOK
<1>3. CASE Np!FrameStopped
  BY <1>1, <1>3, NpStopped DEF Np!NpHitsKept, NpTypeOK, NpCores, NpReqs, NpBridges
<1> QED BY <1>2, <1>3

\* A command that leaves the hits alone.
LEMMA NpQuiet ==
    ASSUME NpInv, NEW b \in NpBridges, NEW says \in NpAnswers \ {"none"}, Np!Answer(b, says),
           wire.queued, says = "frozen" => b.frozen, b.keys = b.held,
           b.pending = bridge.pending, b.dropped = bridge.dropped, UNCHANGED <<native, req>>
    PROVE  NpInv'
<1>1. native' \in NpCores /\ req' \in NpReqs /\ req'.told = req.told /\ Np!NpHitsKept
  BY DEF NpInv, NpTypeOK
<1>2. NpSteps /\ bridge'.pending = b.pending /\ bridge'.dropped = b.dropped
  BY <1>1, NpAnswered
<1> QED BY <1>1, <1>2 DEF NpSteps, NpInv, Np!NpHitsKept

\* The owner takes a command between two frames.
NpFree == NpInv /\ Np!OwnerFree /\ wire.queued

LEMMA NpFreeFacts ==
    ASSUME NpFree
    PROVE  /\ bridge \in NpBridges /\ bridge.keys = bridge.held /\ native \in NpCores /\ req \in NpReqs
           /\ wire \in NpWires /\ NpInv
BY DEF NpFree, NpInv, NpTypeOK, NpKeys, Np!OwnerFree

LEMMA NpHostCommands ==
    ASSUME NpFree, NEW cmd, Np!HostCommand(cmd)
    PROVE  NpInv'
<1>1. /\ bridge \in NpBridges /\ bridge.keys = bridge.held /\ NpInv /\ wire.queued
      /\ UNCHANGED <<native, req>>
  BY NpFreeFacts DEF NpFree, Np!HostCommand
<1>2. Np!Says(cmd) \in NpAnswers \ {"none"}
  BY DEF Np!Says, NpAnswers
<1>3. cmd \in {"pause", "ppause", "resume", "speed", "fast", "begin", "finish", "detach"}
  BY DEF Np!HostCommand, Np!Settles
<1> DEFINE b == Np!Settles[cmd]
<1>4. /\ Np!CleanParent(bridge) \in NpBridges
      /\ Np!CleanParent(bridge).keys = Np!CleanParent(bridge).held
      /\ Np!CleanParent(bridge).pending = bridge.pending
      /\ Np!CleanParent(bridge).dropped = bridge.dropped
      /\ bridge.effects => Np!CleanParent(bridge).frozen
  BY <1>1, ZenonT(60) DEF Np!CleanParent, NpBridges
<1>5. /\ b \in NpBridges /\ b.keys = b.held /\ b.pending = bridge.pending
      /\ b.dropped = bridge.dropped /\ (Np!Says(cmd) = "frozen" => b.frozen)
  <2>1. CASE cmd = "pause"
    <3>1. b = [bridge EXCEPT !.frozen = TRUE]
      BY <2>1 DEF Np!Settles
    <3> QED BY <1>1, <3>1 DEF NpBridges
  <2>2. CASE cmd = "ppause"
    <3>1. b = [bridge EXCEPT !.frozen = TRUE, !.effects = TRUE]
      BY <2>2 DEF Np!Settles
    <3> QED BY <1>1, <3>1 DEF NpBridges
  <2>3. CASE cmd = "resume"
    <3>1. b = [bridge EXCEPT !.frozen = FALSE] /\ Np!Says(cmd) = "running"
      BY <2>3 DEF Np!Settles, Np!Says
    <3> QED BY <1>1, <3>1 DEF NpBridges
  <2>4. CASE cmd \in {"speed", "fast", "begin"}
    <3>1. /\ b \in {[bridge EXCEPT !.pace = "limited"], [bridge EXCEPT !.pace = "unlimited"],
                    [bridge EXCEPT !.parent = "open"]}
          /\ Np!Says(cmd) = "unknown"
      BY <2>4 DEF Np!Settles, Np!Says
    <3> QED BY <1>1, <3>1 DEF NpBridges
  <2>5. CASE cmd = "finish"
    <3>1. b = Np!CleanParent(bridge) /\ (Np!Says(cmd) = "frozen" => bridge.effects)
      BY <2>5 DEF Np!Settles, Np!Says
    <3> HIDE DEF b
    <3> QED BY <1>4, <3>1
  <2>6. CASE cmd = "detach"
    <3>1. b \in {Np!CleanParent(bridge), bridge} /\ Np!Says(cmd) = "unknown"
      BY <2>6 DEF Np!Settles, Np!Says
    <3> HIDE DEF b
    <3> QED BY <1>1, <1>4, <3>1
  <2> QED BY <1>3, <2>1, <2>2, <2>3, <2>4, <2>5, <2>6
<1> HIDE DEF b
<1>6. Np!Answer(b, Np!Says(cmd))
  BY DEF Np!HostCommand, b
<1> QED BY <1>1, <1>2, <1>5, <1>6, NpQuiet

LEMMA NpInputs ==
    ASSUME NpFree, NEW cmd, Np!SetInput(cmd) \/ Np!ReadMemoryBatch(cmd) \/ Np!Refused(cmd)
    PROVE  NpInv'
<1>1. /\ bridge \in NpBridges /\ bridge.keys = bridge.held /\ NpInv /\ wire.queued
      /\ {"unknown", "frozen"} \subseteq NpAnswers \ {"none"}
  BY NpFreeFacts DEF NpFree, NpAnswers
<1>2. CASE Np!SetInput(cmd)
  <2>1. PICK buttons \in BOOLEAN :
          Np!Answer([bridge EXCEPT !.held = buttons, !.keys = buttons,
                                   !.effects = @ \/ cmd = "pinput", !.inputs = @ \/ cmd = "pinput"], "unknown")
    BY <1>2 DEF Np!SetInput
  <2>2. PICK e \in BOOLEAN, i \in BOOLEAN :
          e = (bridge.effects \/ cmd = "pinput") /\ i = (bridge.inputs \/ cmd = "pinput")
    OBVIOUS
  <2> DEFINE b == [bridge EXCEPT !.held = buttons, !.keys = buttons, !.effects = e, !.inputs = i]
  <2>3. Np!Answer(b, "unknown")
    BY <2>1, <2>2
  <2>4. b \in NpBridges /\ b.keys = b.held /\ b.pending = bridge.pending /\ b.dropped = bridge.dropped
    BY <1>1 DEF NpBridges
  <2> HIDE DEF b
  <2> QED BY <1>1, <1>2, <2>3, <2>4, NpQuiet DEF Np!SetInput
<1>3. CASE Np!ReadMemoryBatch(cmd)
  BY <1>1, <1>3, NpQuiet DEF Np!ReadMemoryBatch
<1>4. CASE Np!Refused(cmd)
  BY <1>1, <1>4, NpQuiet DEF Np!Refused
<1> QED BY <1>2, <1>3, <1>4

\* Draining and polling move the hits along and lose none.
LEMMA NpDrains ==
    ASSUME MaxPendingEvents \in Nat, NpFree, NEW cmd, Np!Breakpoints(cmd) \/ Np!PollEvents(cmd)
    PROVE  NpInv'
<1>1. /\ bridge \in NpBridges /\ bridge.keys = bridge.held /\ NpInv /\ wire.queued
      /\ native \in NpCores /\ req \in NpReqs
      /\ "unknown" \in NpAnswers \ {"none"} /\ native.queue \in Nat /\ Np!NpHitsKept
  BY NpFreeFacts DEF NpFree, NpAnswers, NpCores, NpInv
<1>2. /\ Np!Drained \in NpBridges /\ Np!Drained.keys = Np!Drained.held
      /\ Np!Drained.pending + Np!Drained.dropped = bridge.pending + bridge.dropped + native.queue
  BY <1>1, NpEnqueued DEF Np!Drained
<1>3. CASE Np!Breakpoints(cmd)
  <2>1. PICK b : b = (IF cmd = "clear" THEN Np!Drained ELSE bridge)
    OBVIOUS
  <2>2. Np!Answer(b, "unknown") /\ UNCHANGED req /\ b \in NpBridges /\ b.keys = b.held
    BY <1>1, <1>2, <1>3, <2>1 DEF Np!Breakpoints
  <2>3. native' \in NpCores /\ native'.lost = native.lost
        /\ native'.queue = IF cmd = "clear" THEN 0 ELSE native.queue
    BY <1>1, <1>3 DEF Np!Breakpoints, NpCores
  <2>4. NpSteps /\ bridge'.pending = b.pending /\ bridge'.dropped = b.dropped
    BY <1>1, <2>2, <2>3, NpAnswered
  <2>5. Np!NpHitsKept'
    BY <1>1, <1>2, <2>1, <2>2, <2>3, <2>4 DEF Np!NpHitsKept, NpCores, NpBridges, NpReqs
  <2> QED BY <2>4, <2>5 DEF NpSteps, NpInv
<1>4. CASE Np!PollEvents(cmd)
  <2>1. PICK b : b = [Np!Drained EXCEPT !.pending = 0, !.dropped = 0]
    OBVIOUS
  <2>2. b \in NpBridges /\ b.keys = b.held /\ b.pending = 0 /\ b.dropped = 0
    BY <1>2, <2>1 DEF NpBridges
  <2>3. Np!Answer(b, "unknown")
    BY <1>4, <2>1 DEF Np!PollEvents
  <2>4. native' \in NpCores /\ native'.queue = 0 /\ native'.lost = 0
    BY <1>1, <1>4 DEF Np!PollEvents, NpCores
  <2>5. /\ req' \in NpReqs /\ req'.told = req.told /\ req'.hits = req.hits /\ req'.mislaid = req.mislaid
        /\ req'.settled = req.settled + Np!Drained.pending + Np!Drained.dropped + native.lost
    BY <1>1, <1>2, <1>4 DEF Np!PollEvents, NpReqs, NpBridges, NpCores
  <2>6. NpSteps /\ bridge'.pending = 0 /\ bridge'.dropped = 0
    BY <1>1, <2>2, <2>3, <2>4, <2>5, NpAnswered
  <2>7. Np!NpHitsKept'
    BY <1>1, <1>2, <2>4, <2>5, <2>6 DEF Np!NpHitsKept, NpCores, NpBridges, NpReqs
  <2> QED BY <2>6, <2>7 DEF NpSteps, NpInv
<1> QED BY <1>3, <1>4

\* The commands that run the core, or leave it.
LEMMA NpRuns ==
    ASSUME NpFree, NEW cmd,
           \/ Np!WriteMemory(cmd) \/ Np!ChangeMedia(cmd) \/ Np!SaveState(cmd) \/ Np!LoadState(cmd)
           \/ Np!StepInstructions(cmd) \/ Np!Reset(cmd)
    PROVE  NpInv'
<1>1. /\ bridge \in NpBridges /\ bridge.keys = bridge.held /\ NpInv /\ wire.queued /\ NpTypeOK
      /\ {"unknown", "frozen"} \subseteq NpAnswers \ {"none"}
  BY NpFreeFacts DEF NpFree, NpAnswers, NpInv
<1>2. Np!FrameDone \/ Np!FrameStopped
  BY DEF Np!WriteMemory, Np!ChangeMedia, Np!SaveState, Np!LoadState, Np!StepInstructions, Np!Reset
<1>3. native' \in NpCores /\ req' \in NpReqs /\ req'.told = req.told
  BY <1>1, <1>2, NpStopped DEF Np!FrameDone, NpTypeOK
<1>4. PICK b \in NpBridges, says \in {"unknown", "frozen"} :
        /\ Np!Answer(b, says) /\ b.keys = b.held /\ (says = "frozen" => b.frozen)
        /\ b.pending = bridge.pending /\ b.dropped = bridge.dropped
  <2>1. CASE ~Np!Reset(cmd)
    BY <1>1, <2>1 DEF Np!WriteMemory, Np!ChangeMedia, Np!SaveState, Np!LoadState, Np!StepInstructions
  <2>2. CASE Np!Reset(cmd)
    <3>1. Np!Answer([bridge EXCEPT !.frozen = TRUE], "frozen")
      BY <2>2 DEF Np!Reset
    <3>2. PICK b : b = [bridge EXCEPT !.frozen = TRUE]
      OBVIOUS
    <3>3. /\ b \in NpBridges /\ b.keys = b.held /\ b.frozen
          /\ b.pending = bridge.pending /\ b.dropped = bridge.dropped
      BY <1>1, <3>2 DEF NpBridges
    <3> QED BY <3>1, <3>2, <3>3
  <2> QED BY <2>1, <2>2
<1>5. NpSteps /\ bridge'.pending = bridge.pending /\ bridge'.dropped = bridge.dropped
  BY <1>1, <1>3, <1>4, NpAnswered
<1>6. Np!NpHitsKept'
  BY <1>1, <1>2, <1>5, NpRan DEF NpSteps, NpTypeOK
<1> QED BY <1>5, <1>6 DEF NpSteps, NpInv


\* A handler that fails is answered like another, and may end the host.
LEMMA NpFailed ==
    ASSUME NpFree, wire.cmd \in NpOps, NEW b \in NpBridges, b.doing = "none", b.keys = b.held, Np!Fails(wire.cmd, b),
           native' \in NpCores, req' \in NpReqs, req'.told = req.told
    PROVE  NpSteps /\ bridge'.pending = b.pending /\ bridge'.dropped = b.dropped
<1>1. /\ wire \in NpWires /\ wire.queued /\ NpOneCommand /\ NpFrozen
  BY NpFreeFacts DEF NpFree, NpInv
<1>2. req.told # "frozen"
  BY <1>1 DEF NpFrozen
<1>3. PICK over \in BOOLEAN : bridge' = [b EXCEPT !.over = over]
  <2>1. PICK attached \in BOOLEAN : bridge' = [b EXCEPT !.over = attached \/ ~wire.waiting]
    BY DEF Np!Fails
  <2>2. PICK over \in BOOLEAN : over = (attached \/ ~wire.waiting)
    OBVIOUS
  <2> QED BY <2>1, <2>2
<1>4. /\ bridge' \in NpBridges /\ bridge'.doing = "none" /\ bridge'.keys = bridge'.held
      /\ bridge'.pending = b.pending /\ bridge'.dropped = b.dropped
  BY <1>3 DEF NpBridges
<1>5. /\ wire' \in NpWires /\ wire'.cmd = "none" /\ ~wire'.queued /\ wire'.waiting = wire.waiting
      /\ wire'.reply = IF wire.waiting THEN "unknown" ELSE "none"
  BY <1>1 DEF Np!Fails, NpWires, NpAnswers
<1>6. NpOneCommand' /\ NpFrozen' /\ NpKeys'
  BY <1>1, <1>2, <1>4, <1>5 DEF NpOneCommand, NpFrozen, NpKeys
<1> QED BY <1>4, <1>5, <1>6 DEF NpSteps, NpTypeOK

\* A drain that fails loses the one event it had in hand, and no other.
LEMMA NpDrainsFail ==
    ASSUME MaxPendingEvents \in Nat, NpFree, wire.cmd \in NpOps, Np!ClearFails(wire.cmd) \/ Np!DrainFails(wire.cmd)
    PROVE  NpInv'
<1>1. /\ bridge \in NpBridges /\ bridge.keys = bridge.held /\ NpInv /\ bridge.doing = "none"
      /\ native \in NpCores /\ req \in NpReqs /\ native.queue \in Nat /\ Np!NpHitsKept
  BY NpFreeFacts DEF NpFree, Np!OwnerFree, NpCores, NpInv
<1>2. CASE Np!ClearFails(wire.cmd)
  <2>1. PICK b : b = Np!Enqueue(bridge, native.queue)
    OBVIOUS
  <2>2. /\ b \in NpBridges /\ b.doing = "none" /\ b.keys = b.held
        /\ b.pending + b.dropped = bridge.pending + bridge.dropped + native.queue
    BY <1>1, <2>1, NpEnqueued
  <2>3. Np!Fails(wire.cmd, b) /\ req' = req /\ native' = [native EXCEPT !.queue = 0]
    BY <1>2, <2>1 DEF Np!ClearFails, Np!Drained
  <2>4. native' \in NpCores /\ native'.queue = 0 /\ native'.lost = native.lost
    BY <1>1, <2>3 DEF NpCores
  <2>5. NpSteps /\ bridge'.pending = b.pending /\ bridge'.dropped = b.dropped
    BY <1>1, <2>2, <2>3, <2>4, NpFailed
  <2>6. Np!NpHitsKept'
    BY <1>1, <2>2, <2>3, <2>4, <2>5 DEF Np!NpHitsKept, NpCores, NpBridges, NpReqs
  <2> QED BY <2>5, <2>6 DEF NpSteps, NpInv
<1>3. CASE Np!DrainFails(wire.cmd)
  <2>1. PICK n \in 0 .. native.queue - 1 :
          Np!Fails(wire.cmd, Np!Enqueue(bridge, n)) /\ native' = [native EXCEPT !.queue = @ - n - 1]
    BY <1>3 DEF Np!DrainFails
  <2>2. n \in Nat /\ native.queue - n - 1 \in Nat
    BY <1>1
  <2>3. PICK b : b = Np!Enqueue(bridge, n)
    OBVIOUS
  <2>4. /\ b \in NpBridges /\ b.doing = "none" /\ b.keys = b.held
        /\ b.pending + b.dropped = bridge.pending + bridge.dropped + n
    BY <1>1, <2>2, <2>3, NpEnqueued
  <2>5. native' \in NpCores /\ native'.queue = native.queue - n - 1 /\ native'.lost = native.lost
    BY <1>1, <2>1, <2>2 DEF NpCores
  <2>6. req' \in NpReqs /\ req'.told = req.told /\ req'.mislaid = req.mislaid + 1 /\ req'.hits = req.hits /\ req'.settled = req.settled
    BY <1>1, <1>3 DEF Np!DrainFails, NpReqs
  <2>7. NpSteps /\ bridge'.pending = b.pending /\ bridge'.dropped = b.dropped
    BY <2>1, <2>3, <2>4, <2>5, <2>6, NpFailed
  <2>8. Np!NpHitsKept'
    BY <1>1, <2>2, <2>4, <2>5, <2>6, <2>7 DEF Np!NpHitsKept, NpCores, NpBridges, NpReqs
  <2> QED BY <2>7, <2>8 DEF NpSteps, NpInv
<1> QED BY <1>2, <1>3

\* An advance starts, or the core fails: neither touches the hits.
LEMMA NpAdvances ==
    ASSUME NpFree, wire.cmd \in NpOps, Np!Advance(wire.cmd) \/ Np!CoreFails(wire.cmd)
    PROVE  NpInv'
<1>1. /\ bridge \in NpBridges /\ bridge.keys = bridge.held /\ NpInv /\ wire.queued /\ bridge.doing = "none"
      /\ native \in NpCores /\ req \in NpReqs /\ wire \in NpWires
      /\ NpOneCommand /\ NpFrozen /\ Np!NpHitsKept /\ UNCHANGED <<native, req>>
  BY NpFreeFacts DEF NpFree, Np!OwnerFree, NpInv, Np!Advance, Np!CoreFails
<1>2. req.told # "frozen"
  BY <1>1 DEF NpFrozen
<1>3. CASE Np!Advance(wire.cmd)
  <2>1. PICK was \in BOOLEAN, frozen \in BOOLEAN, keys \in BOOLEAN, effects \in BOOLEAN :
          /\ (frozen => was)
          /\ bridge' = [bridge EXCEPT !.doing = wire.cmd, !.was = was, !.frozen = frozen, !.keys = keys,
                                      !.effects = effects]
    <3>1. PICK was \in BOOLEAN, frozen \in BOOLEAN, keys \in BOOLEAN, effects \in BOOLEAN :
            /\ was = (bridge.was \/ bridge.frozen \/ wire.cmd # "press")
            /\ frozen = (bridge.frozen \/ wire.cmd # "press")
            /\ keys = (bridge.keys \/ wire.cmd = "press")
            /\ effects = (bridge.effects \/ wire.cmd = "pstep")
      OBVIOUS
    <3>2. frozen => was
      BY <3>1
    <3>3. bridge' = [bridge EXCEPT !.doing = wire.cmd, !.was = was, !.frozen = frozen, !.keys = keys,
                                   !.effects = effects]
      BY <1>3, <3>1 DEF Np!Advance
    <3> QED BY <3>2, <3>3
  <2>2. wire.cmd \in Np!Advances /\ wire.cmd # "none"
    BY <1>3 DEF Np!Advance, Np!Advances
  <2>3. /\ bridge' \in NpBridges /\ bridge'.doing = wire.cmd /\ (bridge'.frozen => bridge'.was)
        /\ bridge'.pending = bridge.pending /\ bridge'.dropped = bridge.dropped
    BY <1>1, <2>1, <2>2, ZenonT(60) DEF NpBridges
  <2>4. /\ wire' \in NpWires /\ ~wire'.queued /\ wire'.cmd = wire.cmd /\ wire'.waiting = wire.waiting
        /\ wire'.reply = wire.reply
    BY <1>1, <1>3 DEF Np!Advance, NpWires
  <2>5. NpOneCommand' /\ NpFrozen' /\ NpKeys'
    BY <1>1, <1>2, <2>2, <2>3, <2>4 DEF NpOneCommand, NpFrozen, NpKeys
  <2> QED BY <1>1, <2>3, <2>4, <2>5 DEF NpInv, NpTypeOK, Np!NpHitsKept
<1>4. CASE Np!CoreFails(wire.cmd)
  <2>1. PICK frozen \in BOOLEAN : frozen = (bridge.frozen \/ wire.cmd \in {"step", "pstep"})
    OBVIOUS
  <2>2. PICK b : b = [bridge EXCEPT !.frozen = frozen]
    OBVIOUS
  <2>3. Np!Fails(wire.cmd, b)
    BY <1>4, <2>1, <2>2 DEF Np!CoreFails
  <2>4. /\ b \in NpBridges /\ b.doing = "none" /\ b.keys = b.held
        /\ b.pending = bridge.pending /\ b.dropped = bridge.dropped
    BY <1>1, <2>2 DEF NpBridges
  <2>5. native' \in NpCores /\ req' \in NpReqs /\ req'.told = req.told
    BY <1>1
  <2>6. NpSteps /\ bridge'.pending = b.pending /\ bridge'.dropped = b.dropped
    BY <2>3, <2>4, <2>5, NpFailed
  <2> QED BY <1>1, <2>4, <2>6 DEF NpSteps, NpInv, Np!NpHitsKept
<1> QED BY <1>3, <1>4

LEMMA NpTakes ==
    ASSUME MaxPendingEvents \in Nat, NpInv, Np!TakesCommand
    PROVE  NpInv'
<1>1. NpFree /\ wire.cmd \in NpOps /\ Np!Processes(wire.cmd)
  BY DEF NpFree, Np!TakesCommand, NpInv, NpTypeOK, NpWires, NpOneCommand
<1> QED BY <1>1, NpHostCommands, NpInputs, NpDrains, NpDrainsFail, NpRuns, NpAdvances DEF Np!Processes

\* A frame outside of any command.
LEMMA NpScheduled ==
    ASSUME NpInv, Np!ScheduledFrame
    PROVE  NpInv'
<1>1. /\ bridge \in NpBridges /\ wire \in NpWires /\ NpTypeOK /\ UNCHANGED wire
      /\ NpOneCommand /\ NpFrozen /\ NpKeys /\ bridge.doing = "none" /\ ~bridge.frozen
  BY DEF NpInv, NpTypeOK, Np!ScheduledFrame, Np!OwnerFree
<1>2. /\ Np!FrameDone \/ Np!FrameStopped
      /\ bridge' = bridge \/ bridge' = [bridge EXCEPT !.frozen = TRUE]
  BY DEF Np!ScheduledFrame
<1>3. /\ bridge' \in NpBridges /\ bridge'.doing = "none" /\ bridge'.keys = bridge.keys
      /\ bridge'.held = bridge.held /\ bridge'.over = bridge.over
      /\ bridge'.pending = bridge.pending /\ bridge'.dropped = bridge.dropped
  BY <1>1, <1>2 DEF NpBridges
<1>4. native' \in NpCores /\ req' \in NpReqs /\ req'.told = req.told /\ Np!NpHitsKept'
  BY <1>2, <1>3, NpRan
<1>5. NpOneCommand' /\ NpFrozen' /\ NpKeys'
  BY <1>1, <1>3, <1>4 DEF NpOneCommand, NpFrozen, NpKeys
<1> QED BY <1>1, <1>3, <1>4, <1>5 DEF NpInv, NpTypeOK

\* The end of an advance gives the buttons back and answers with what the machine does.
LEMMA NpEnds ==
    ASSUME NpInv, bridge.doing # "none", NEW stopped \in BOOLEAN, Np!EndsAdvance(stopped),
           Np!FrameDone \/ Np!FrameStopped
    PROVE  NpInv'
<1>1. bridge \in NpBridges /\ NpTypeOK
  BY DEF NpInv, NpTypeOK
<1>2. PICK frozen \in BOOLEAN : frozen = (bridge.was \/ stopped)
  OBVIOUS
<1> DEFINE b == [bridge EXCEPT !.frozen = frozen, !.was = FALSE, !.keys = bridge.held]
<1>3. Np!Answer(b, Np!Running(b))
  BY <1>2 DEF Np!EndsAdvance
<1>4. /\ b \in NpBridges /\ b.keys = b.held /\ b.pending = bridge.pending /\ b.dropped = bridge.dropped
  BY <1>1 DEF NpBridges
<1> HIDE DEF b
<1>5. Np!Running(b) \in NpAnswers \ {"none"} /\ (Np!Running(b) = "frozen" => b.frozen)
  BY DEF Np!Running, NpAnswers
<1>6. native' \in NpCores /\ req' \in NpReqs /\ req'.told = req.told
  BY <1>1, NpStopped DEF Np!FrameDone, NpTypeOK
<1>7. NpSteps /\ bridge'.pending = bridge.pending /\ bridge'.dropped = bridge.dropped
  BY <1>3, <1>4, <1>5, <1>6, NpAnswered
<1>8. Np!NpHitsKept'
  BY <1>7, NpRan DEF NpSteps, NpTypeOK
<1> QED BY <1>7, <1>8 DEF NpSteps, NpInv

LEMMA NpFrames ==
    ASSUME NpInv, Np!AdvanceFrame \/ Np!AdvanceEnds
    PROVE  NpInv'
<1>1. CASE Np!FrameDone /\ UNCHANGED <<bridge, wire>>
  BY <1>1 DEF Np!FrameDone, NpInv, NpTypeOK, NpOneCommand, NpFrozen, NpKeys, Np!NpHitsKept
<1>2. CASE bridge.doing # "none" /\ Np!FrameStopped /\ Np!EndsAdvance(TRUE)
  BY <1>2, NpEnds
<1>3. CASE Np!AdvanceEnds
  BY <1>3, NpEnds DEF Np!AdvanceEnds, Np!FrameDone
<1> QED BY <1>1, <1>2, <1>3 DEF Np!AdvanceFrame

\* The server thread.
LEMMA NpServer ==
    ASSUME NpInv,
           (\E op \in NpOps : Np!Send(op)) \/ Np!CancelStep \/ Np!TakesReply \/ Np!GivesUp
    PROVE  NpInv'
<1>1. /\ bridge \in NpBridges /\ native \in NpCores /\ wire \in NpWires /\ req \in NpReqs
      /\ NpOneCommand /\ NpFrozen /\ NpKeys /\ Np!NpHitsKept /\ UNCHANGED <<native, bridge>>
  BY DEF NpInv, NpTypeOK, Np!Send, Np!CancelStep, Np!TakesReply, Np!GivesUp
<1>2. SUFFICES wire' \in NpWires /\ req' \in NpReqs /\ req'.hits = req.hits /\ req'.settled = req.settled /\ req'.mislaid = req.mislaid
               /\ NpOneCommand' /\ NpFrozen'
  BY <1>1, <1>2 DEF NpInv, NpTypeOK, NpKeys, Np!NpHitsKept
<1>3. ASSUME NEW op \in NpOps, Np!Send(op)
      PROVE  wire' \in NpWires /\ req' \in NpReqs /\ req'.hits = req.hits /\ req'.settled = req.settled /\ req'.mislaid = req.mislaid
             /\ NpOneCommand' /\ NpFrozen'
  <2>1. op # "none" /\ wire = Np!Idle
    BY <1>3 DEF NpOps, Np!PlainOps, Np!ParentOps, Np!ReadOps, Np!Send
  <2>2. /\ wire' \in NpWires /\ wire'.cmd = op /\ wire'.queued /\ wire'.waiting /\ wire'.reply = "none"
    BY <1>3 DEF Np!Send, Np!Idle, NpWires, NpAnswers
  <2>3. req' \in NpReqs /\ req'.hits = req.hits /\ req'.settled = req.settled /\ req'.mislaid = req.mislaid /\ req'.told = "unknown"
    <3>1. PICK n \in Nat : n = req.count + 1
      BY <1>1 DEF NpReqs
    <3>2. req' = [req EXCEPT !.count = n, !.told = "unknown"]
      BY <1>3, <3>1 DEF Np!Send
    <3> QED BY <1>1, <3>2 DEF NpReqs, NpAnswers
  <2>4. bridge.doing = "none"
    BY <1>1, <2>1 DEF NpOneCommand, Np!Idle
  <2> QED BY <1>1, <2>1, <2>2, <2>3, <2>4 DEF NpOneCommand, NpFrozen
<1>4. CASE Np!CancelStep
  <2>1. /\ wire' \in NpWires /\ wire'.cmd = wire.cmd /\ wire'.queued = wire.queued
        /\ wire'.waiting = wire.waiting /\ wire'.reply = wire.reply /\ UNCHANGED req
    BY <1>1, <1>4 DEF Np!CancelStep, NpWires
  <2> QED BY <1>1, <2>1 DEF NpOneCommand, NpFrozen
<1>5. CASE Np!TakesReply
  <2>1. /\ wire' \in NpWires /\ wire'.cmd = "none" /\ ~wire'.queued /\ ~wire'.waiting /\ wire'.reply = "none"
    BY <1>5 DEF Np!TakesReply, Np!Idle, NpWires, NpAnswers
  <2>2. /\ req' \in NpReqs /\ req'.hits = req.hits /\ req'.settled = req.settled /\ req'.mislaid = req.mislaid /\ req'.told = wire.reply
    BY <1>1, <1>5 DEF Np!TakesReply, NpReqs, NpWires
  <2>3. bridge.doing = "none"
    BY <1>1, <1>5 DEF Np!TakesReply, NpOneCommand
  <2> QED BY <1>1, <2>1, <2>2, <2>3 DEF NpOneCommand, NpFrozen
<1>6. CASE Np!GivesUp
  <2>1. /\ wire' \in NpWires /\ wire'.cmd = wire.cmd /\ wire'.queued = wire.queued
        /\ ~wire'.waiting /\ wire'.reply = "none" /\ wire.waiting
    BY <1>1, <1>6 DEF Np!GivesUp, NpWires, NpAnswers
  <2>2. /\ req' \in NpReqs /\ req'.hits = req.hits /\ req'.settled = req.settled /\ req'.mislaid = req.mislaid /\ req'.told = req.told
    BY <1>1, <1>6 DEF Np!GivesUp, NpReqs
  <2> QED BY <1>1, <2>1, <2>2 DEF NpOneCommand, NpFrozen
<1> QED BY <1>3, <1>4, <1>5, <1>6

LEMMA NpNextInv == ASSUME MaxPendingEvents \in Nat, NpInv, [Np!NpNext]_(Np!npVars) PROVE NpInv'
<1>1. CASE UNCHANGED Np!npVars
  BY <1>1 DEF Np!npVars, NpInv, NpTypeOK, NpOneCommand, NpFrozen, NpKeys, Np!NpHitsKept
<1> QED BY <1>1, NpTakes, NpScheduled, NpFrames, NpServer DEF Np!NpNext, Np!OwnerLoop, NpOps

\* While the agent believes the machine of the NP2kai host frozen it is, whatever was
\* cancelled or answered too late; and between commands the core sees the buttons that
\* are held and no others (bin/emucap-np2kai.rs, np2kai_adapter/operations.rs).
THEOREM NpHaltIsAlwaysReal ==
    ASSUME MaxPendingEvents \in Nat
    PROVE  Np!NpSpec => []Np!NpHaltIsReal
<1>1. NpInv /\ [Np!NpNext]_(Np!npVars) => NpInv'
  BY NpNextInv
<1>2. NpInv => Np!NpHaltIsReal
  BY DEF NpInv, NpFrozen, NpKeys, Np!NpHaltIsReal
<1> QED BY <1>1, <1>2, NpStarts, PTL DEF Np!NpSpec

\* However small the event queues of the core and of the host and however many hits,
\* every one is queued, delivered or counted as dropped (np2kai_adapter/debug.rs).
THEOREM NpHitsAreKept ==
    ASSUME MaxPendingEvents \in Nat
    PROVE  Np!NpSpec => []Np!NpHitsKept
<1>1. NpInv /\ [Np!NpNext]_(Np!npVars) => NpInv'
  BY NpNextInv
<1>2. NpInv => Np!NpHitsKept
  BY DEF NpInv
<1> QED BY <1>1, <1>2, NpStarts, PTL DEF Np!NpSpec

-----------------------------------------------------------------------------
(* Sequences *)

LEMMA ConsFacts ==
    ASSUME NEW S, NEW c \in S, NEW s \in Seq(S)
    PROVE  <<c>> \o s \in Seq(S) /\ Head(<<c>> \o s) = c /\ Tail(<<c>> \o s) = s /\ <<c>> \o s # <<>> /\ <<>> \o s = s
<1>1. <<c>> \in Seq(S) /\ Len(<<c>>) = 1 /\ <<c>>[1] = c
  OBVIOUS
<1>2. /\ <<c>> \o s \in Seq(S) /\ Len(<<c>> \o s) = 1 + Len(s) /\ Len(s) \in Nat
      /\ \A i \in 1 .. 1 + Len(s) : (<<c>> \o s)[i] = IF i <= 1 THEN <<c>>[i] ELSE s[i - 1]
  BY <1>1, ConcatProperties, LenProperties
<1>3. <<c>> \o s # <<>>
  BY <1>2
<1>4. Head(<<c>> \o s) = c
  BY <1>1, <1>2, <1>3
<1>5. /\ Tail(<<c>> \o s) \in Seq(S) /\ Len(Tail(<<c>> \o s)) = Len(s)
      /\ \A i \in 1 .. Len(s) : Tail(<<c>> \o s)[i] = s[i]
  BY <1>2, <1>3, HeadTailProperties
<1>6. Tail(<<c>> \o s) = s
  BY <1>5, SeqEqual
<1> QED BY <1>2, <1>3, <1>4, <1>6, ConcatEmptySeq

LEMMA Unfolded ==
    ASSUME NEW S, NEW s \in Seq(S), s # <<>>
    PROVE  s = <<Head(s)>> \o Tail(s)
<1>1. Len(s) \in Nat /\ Len(s) >= 1 /\ Head(s) = s[1] /\ Head(s) \in S
  BY LenProperties, EmptySeq, HeadTailProperties
<1>2. SubSeq(s, 1, Len(s)) = <<s[1]>> \o SubSeq(s, 1 + 1, Len(s))
  BY <1>1, SubSeqRecursiveFirst
<1> QED BY <1>1, <1>2, TailIsSubSeq, SubSeqFull

\* Explicit sequences.
LEMMA Tuple1 ==
    ASSUME NEW S, NEW a \in S
    PROVE  <<a>> \in Seq(S) /\ <<a>> # <<>> /\ Head(<<a>>) = a /\ Tail(<<a>>) = <<>>
<1>1. <<a>> \in Seq(S)
  OBVIOUS
<1>2. <<a>> # <<>> /\ Head(<<a>>) = a /\ Tail(<<a>>) = <<>>
  OBVIOUS
<1> QED BY <1>1, <1>2

LEMMA Tuple2 ==
    ASSUME NEW S, NEW a \in S, NEW b \in S
    PROVE  <<a, b>> \in Seq(S) /\ <<a, b>> # <<>> /\ Head(<<a, b>>) = a /\ Tail(<<a, b>>) = <<b>>
<1>1. <<a, b>> \in Seq(S)
  OBVIOUS
<1>2. <<a, b>> # <<>> /\ Head(<<a, b>>) = a /\ Tail(<<a, b>>) = <<b>>
  OBVIOUS
<1> QED BY <1>1, <1>2

LEMMA Tuple3 ==
    ASSUME NEW S, NEW a \in S, NEW b \in S, NEW c \in S
    PROVE  <<a, b, c>> \in Seq(S) /\ <<a, b, c>> # <<>> /\ Head(<<a, b, c>>) = a /\ Tail(<<a, b, c>>) = <<b, c>>
<1>1. <<a, b, c>> \in Seq(S)
  OBVIOUS
<1>2. <<a, b, c>> # <<>> /\ Head(<<a, b, c>>) = a /\ Tail(<<a, b, c>>) = <<b, c>>
  OBVIOUS
<1> QED BY <1>1, <1>2

LEMMA Tuple4 ==
    ASSUME NEW S, NEW a \in S, NEW b \in S, NEW c \in S, NEW d \in S
    PROVE  <<a, b, c, d>> \in Seq(S) /\ <<a, b, c, d>> # <<>> /\ Head(<<a, b, c, d>>) = a /\ Tail(<<a, b, c, d>>) = <<b, c, d>>
<1>1. <<a, b, c, d>> \in Seq(S)
  OBVIOUS
<1>2. <<a, b, c, d>> # <<>> /\ Head(<<a, b, c, d>>) = a /\ Tail(<<a, b, c, d>>) = <<b, c, d>>
  OBVIOUS
<1> QED BY <1>1, <1>2

\* Sequences as chains, in the form in which the scripts are joined.
LEMMA Spread2 ==
    ASSUME NEW S, NEW a \in S, NEW b \in S, NEW t \in Seq(S), NEW x, x = <<a, b>>
    PROVE  x \o t = <<a>> \o (<<b>> \o t)
<1>1. /\ <<a, b>> \in Seq(S) /\ <<a, b>> # <<>> /\ Head(<<a, b>>) = a /\ Tail(<<a, b>>) = <<b>>
      /\ <<a>> \in Seq(S) /\ <<b>> \in Seq(S)
  BY Tuple1, Tuple2
<1>2. <<a, b>> = <<a>> \o <<b>>
  BY <1>1, Unfolded
<1>3. (<<a>> \o <<b>>) \o t = <<a>> \o (<<b>> \o t)
  BY <1>1, ConcatAssociative
<1> QED BY <1>2, <1>3

LEMMA Spread4 ==
    ASSUME NEW S, NEW a \in S, NEW b \in S, NEW c \in S, NEW d \in S, NEW t \in Seq(S), NEW x, x = <<a, b, c, d>>
    PROVE  x \o t = <<a>> \o (<<b>> \o (<<c>> \o (<<d>> \o t)))
<1>1. /\ <<a>> \in Seq(S) /\ <<c>> \in Seq(S) /\ <<d>> \in Seq(S)
      /\ <<a, b>> \in Seq(S) /\ <<c, d>> \in Seq(S) /\ <<b, c, d>> \in Seq(S)
  BY Tuple1, Tuple2, Tuple3
<1>2. <<a, b, c, d>> = <<a>> \o <<b, c, d>>
  <2>1. /\ <<a, b, c, d>> \in Seq(S) /\ <<a, b, c, d>> # <<>> /\ Head(<<a, b, c, d>>) = a
        /\ Tail(<<a, b, c, d>>) = <<b, c, d>>
    BY Tuple4
  <2> QED BY <2>1, Unfolded
<1>3. <<b, c, d>> = <<b>> \o <<c, d>> /\ <<b>> \in Seq(S)
  <2>1. <<b, c, d>> # <<>> /\ Head(<<b, c, d>>) = b /\ Tail(<<b, c, d>>) = <<c, d>>
    BY Tuple3
  <2> QED BY <1>1, <2>1, Unfolded, Tuple1
<1>4. <<c, d>> \o t = <<c>> \o (<<d>> \o t)
  <2>1. <<c, d>> # <<>> /\ Head(<<c, d>>) = c /\ Tail(<<c, d>>) = <<d>>
    BY Tuple2
  <2>2. <<c, d>> = <<c>> \o <<d>>
    BY <1>1, <2>1, Unfolded
  <2>3. (<<c>> \o <<d>>) \o t = <<c>> \o (<<d>> \o t)
    BY <1>1, ConcatAssociative
  <2> QED BY <2>2, <2>3
<1>5. <<b, c, d>> \o t = <<b>> \o (<<c, d>> \o t)
  BY <1>1, <1>3, ConcatAssociative, SMTT(40)
<1>6. (<<a>> \o <<b, c, d>>) \o t = <<a>> \o (<<b, c, d>> \o t)
  BY <1>1, ConcatAssociative
<1> QED BY <1>2, <1>4, <1>5, <1>6

-----------------------------------------------------------------------------
(* The PlayStation 2 bridge *)

PsWords ==
    Ps2!Commands \cup {"admit", "terminal?", "finish", "frozen!", "idle!", "released!", "changed!", "halt_if_running",
                       "as_it_was", "added", "removed", "release_ports", "close"}

PsOps == [id : Nat, kind : {"none", "pause", "frames"}, phase : {"admitted", "running", "terminal", "finishing", "finished"},
          reason : {"completed", "stop", "cancelled", "host_deadline"}, cancel : BOOLEAN]
PsNatives == [run : BOOLEAN, op : PsOps, point : BOOLEAN, hits : Nat, events : Nat, keys : BOOLEAN,
              card : Cards \cup {"none"}, busy : BOOLEAN]
PsBridges == [terminal : BOOLEAN, last : Nat, bp : BOOLEAN, told : Nat, parent : {"none", "open"}, effects : BOOLEAN,
              port : BOOLEAN, stop : {"none", "set", "past"}, due : {"none", "set", "past"}, reqs : Nat]
PsReplies == {"none", "running", "frozen", "admitted", "terminal", "finishing", "finished", "ok", "engaged", "native", "busy",
              "completed", "rolled_back", "rollback_failed"}
PsReqs == [m : Ps2!Methods \cup {"idle", "finish", "failed"}, todo : Seq(PsWords), reply : PsReplies, was : PsReplies, id : Nat,
           card : Cards \cup {"none"}, cancelled : BOOLEAN, asked : BOOLEAN,
           answer : {"none", "error", "ok", "frozen", "clean", "changed"}]

PsTypeOK == native \in PsNatives /\ bridge \in PsBridges /\ req \in PsReqs

\* What follows an operation that is to be awaited, and the part of a probe after its pause.
PsWait(t) == <<"terminal?">> \o (<<"finish">> \o t)
PsProbeStep == <<"BEGIN">> \o (<<"admit">> \o PsWait(<<"read">>))
PsProbeLoad == <<"load">> \o PsProbeStep
PsProbeAsked == <<"frozen!">> \o PsProbeLoad
PsProbe == <<"status">> \o PsProbeAsked

\* What is still to do where the CPU is known to be stopped.
PsHaltTodos(m) ==
    CASE m \in {"pause", "step", "reset"} -> {<<>>}
      [] m = "probe" -> {PsProbe, PsProbeAsked, PsProbeLoad, PsProbeStep, <<"read">>, <<>>}
      [] m = "load" -> {<<"load">>, <<>>}
      [] m = "save" -> {<<"save">>, <<>>}
      [] m = "call_stack" -> {<<"read">>, <<>>}
      [] m = "batch" -> {<<"batch">>, <<>>}
      [] m = "media" -> {<<"cards", "idle!", "change_card", "changed!">>, <<"idle!", "change_card", "changed!">>,
                         <<"change_card", "changed!">>, <<"changed!">>, <<>>}
      [] m = "finish" -> {<<"release_ports", "close">>, <<"release", "input", "close">>, <<"input", "close">>}
      [] OTHER -> {}

\* Where a request goes on when its native operation is finished.
PsReturns(m) ==
    CASE m \in {"pause", "step"} -> {<<>>}
      [] m = "probe" -> {PsProbe, <<"read">>}
      [] m = "finish" -> {<<"release_ports", "close">>}
      [] OTHER -> {}

\* The places a request r can be at, each with what is known of PCSX2 (n) and the bridge (b) there.
PsOpen(n) == n.op.phase # "finished"
PsAt(r, c) == r.todo # <<>> /\ Head(r.todo) = c

PsResting(n, b, r) ==
    /\ r.m = "idle" /\ r.todo = <<>> /\ ~PsOpen(n)
    /\ r.answer \in {"frozen", "clean", "changed"} => ~n.run
    /\ r.answer = "clean" /\ b.port => ~n.keys
PsAdmitted(n) ==
    /\ n.op.phase \in {"admitted", "running", "terminal"}
    /\ n.op.phase = "terminal" => ~n.run
PsFinishing(n, r) ==
    \/ r.reply = "terminal" /\ n.op.phase = "terminal"
    \/ r.reply = "finishing" /\ n.op.phase \in {"finishing", "finished"}
    \/ r.reply = "finished" /\ n.op.phase = "finished"
PsOwning(n, r, t) ==
    \/ r.todo \in {<<"PAUSE">> \o (<<"admit">> \o PsWait(t)), <<"BEGIN">> \o (<<"admit">> \o PsWait(t))} /\ ~PsOpen(n)
    \/ r.todo = <<"admit">> \o PsWait(t) /\ PsAdmitted(n) /\ r.reply = "admitted"
    \/ r.todo \in {<<"POLL">> \o PsWait(t), <<"CANCEL">> \o PsWait(t)} /\ PsAdmitted(n)
    \/ r.todo = PsWait(t) /\ PsAdmitted(n) /\ (r.reply = "terminal" => n.op.phase = "terminal")
    \/ r.todo = <<"finish">> \o t /\ ~n.run /\ PsFinishing(n, r)
    \/ r.todo = <<"FINISH">> \o (<<"finish">> \o t) /\ ~n.run /\ n.op.phase = "terminal"
    \/ r.todo = <<"POLL">> \o (<<"finish">> \o t) /\ ~n.run /\ n.op.phase \in {"finishing", "finished"}
PsHalted(n, r) ==
    /\ r.todo \in PsHaltTodos(r.m) /\ ~PsOpen(n) /\ ~n.run
    /\ r.todo = <<"input", "close">> => ~n.keys
PsAsking(n, r, t) ==
    /\ r.m \in {"load", "save", "call_stack", "batch", "media"} /\ ~PsOpen(n)
    /\ \/ r.todo = <<"status">> \o (<<"frozen!">> \o t)
       \/ r.todo = <<"frozen!">> \o t /\ (r.reply = "frozen" => ~n.run)
PsPulsing(n, r) ==
    /\ r.m \in {"press", "speed"} /\ ~PsOpen(n)
    /\ \/ r.m = "speed" /\ r.todo = <<>> /\ (r.reply = "frozen" => ~n.run)
       \/ r.m = "press" /\ r.todo \in {<<"input", "released!">>, <<"released!">>, <<>>} /\ (r.was = "frozen" => ~n.run)
       \/ r.m = "speed" /\ r.todo \in {<<"read", "rate", "status">>, <<"rate", "status">>, <<"status">>}
       \/ r.m = "press" /\ r.todo \in {<<"press", "pulse", "input", "released!">>, <<"pulse", "input", "released!">>}
PsResetting(n, r) == r.m = "reset" /\ r.todo = <<"reset">> /\ ~PsOpen(n)
PsPointing(n, r) ==
    /\ ~PsOpen(n)
    /\ \/ r.m = "set_breakpoint" /\ r.todo \in {<<"set_point", "added">>, <<"added">>, <<>>}
       \/ r.m = "clear_breakpoint" /\ r.todo \in {<<"clear_point", "removed">>, <<"removed">>, <<>>}
PsClosing(n, b, r) ==
    /\ r.m = "finish" /\ r.todo = <<"close">> /\ ~PsOpen(n)
    /\ b.effects => ~n.run /\ (b.port /\ r.reply = "native" => ~n.keys)
PsPlain == {"status", "halt_if_running", "pause_cpu", "scan", "as_it_was", "resume", "read", "input", "cards", "hold", "events"}
PsRoaming(n, r) ==
    /\ r.m \in {"find_pattern", "failed", "status", "resume", "read", "set_input", "poll"}
    /\ r.todo \in Seq(PsPlain) /\ ~PsOpen(n)

PsWhere(n, b, r) ==
    \/ PsResting(n, b, r)
    \/ \E t \in PsReturns(r.m) : PsOwning(n, r, t)
    \/ PsHalted(n, r)
    \/ \E t \in PsHaltTodos(r.m) : PsAsking(n, r, t)
    \/ PsPulsing(n, r) \/ PsResetting(n, r) \/ PsPointing(n, r) \/ PsClosing(n, b, r) \/ PsRoaming(n, r)

\* The breakpoint is armed as the bridge lists it, but while the bridge has to note a change of it.
PsArmed(n, b, r) ==
    /\ PsAt(r, "added") => n.point
    /\ PsAt(r, "removed") => ~n.point
    /\ ~PsAt(r, "added") /\ ~PsAt(r, "removed") => n.point = b.bp

\* A retired stream has answered with an error and serves nothing any more.
PsAlive(n, b, r) ==
    IF b.terminal THEN r = Ps2!Idle("error")
    ELSE PsWhere(n, b, r) /\ PsArmed(n, b, r) /\ n.hits = b.told + n.events

PsAnswers(r) == r.m # "idle" => r.answer = "none"
PsBudget(b, r) == b.stop = b.due /\ (r.answer = "clean" => b.due = "none")

PsGood(n, b, r) == PsAlive(n, b, r) /\ PsAnswers(r) /\ PsBudget(b, r)
PsInv == PsTypeOK /\ PsGood(native, bridge, req)

\* The short scripts, place by place.
LEMMA PsLiterals ==
    /\ <<"load">> \in Seq(PsWords) /\ <<"load">> # <<>> /\ Head(<<"load">>) = "load" /\ Tail(<<"load">>) = <<>>
    /\ <<"save">> \in Seq(PsWords) /\ <<"save">> # <<>> /\ Head(<<"save">>) = "save" /\ Tail(<<"save">>) = <<>>
    /\ <<"read">> \in Seq(PsWords) /\ <<"read">> # <<>> /\ Head(<<"read">>) = "read" /\ Tail(<<"read">>) = <<>>
    /\ <<"batch">> \in Seq(PsWords) /\ <<"batch">> # <<>> /\ Head(<<"batch">>) = "batch" /\ Tail(<<"batch">>) = <<>>
    /\ <<"reset">> \in Seq(PsWords) /\ <<"reset">> # <<>> /\ Head(<<"reset">>) = "reset" /\ Tail(<<"reset">>) = <<>>
    /\ <<"status">> \in Seq(PsWords) /\ <<"status">> # <<>> /\ Head(<<"status">>) = "status" /\ Tail(<<"status">>) = <<>>
    /\ <<"added">> \in Seq(PsWords) /\ <<"added">> # <<>> /\ Head(<<"added">>) = "added" /\ Tail(<<"added">>) = <<>>
    /\ <<"removed">> \in Seq(PsWords) /\ <<"removed">> # <<>> /\ Head(<<"removed">>) = "removed"
       /\ Tail(<<"removed">>) = <<>>
    /\ <<"close">> \in Seq(PsWords) /\ <<"close">> # <<>> /\ Head(<<"close">>) = "close" /\ Tail(<<"close">>) = <<>>
    /\ <<"changed!">> \in Seq(PsWords) /\ <<"changed!">> # <<>> /\ Head(<<"changed!">>) = "changed!"
       /\ Tail(<<"changed!">>) = <<>>
    /\ <<"cards", "idle!", "change_card", "changed!">> \in Seq(PsWords)
       /\ <<"cards", "idle!", "change_card", "changed!">> # <<>>
       /\ Head(<<"cards", "idle!", "change_card", "changed!">>) = "cards"
       /\ Tail(<<"cards", "idle!", "change_card", "changed!">>) = <<"idle!", "change_card", "changed!">>
    /\ <<"idle!", "change_card", "changed!">> \in Seq(PsWords) /\ <<"idle!", "change_card", "changed!">> # <<>>
       /\ Head(<<"idle!", "change_card", "changed!">>) = "idle!"
       /\ Tail(<<"idle!", "change_card", "changed!">>) = <<"change_card", "changed!">>
    /\ <<"change_card", "changed!">> \in Seq(PsWords) /\ <<"change_card", "changed!">> # <<>>
       /\ Head(<<"change_card", "changed!">>) = "change_card" /\ Tail(<<"change_card", "changed!">>) = <<"changed!">>
    /\ <<"release_ports", "close">> \in Seq(PsWords) /\ <<"release_ports", "close">> # <<>>
       /\ Head(<<"release_ports", "close">>) = "release_ports" /\ Tail(<<"release_ports", "close">>) = <<"close">>
    /\ <<"release", "input", "close">> \in Seq(PsWords) /\ <<"release", "input", "close">> # <<>>
       /\ Head(<<"release", "input", "close">>) = "release" /\ Tail(<<"release", "input", "close">>) = <<"input", "close">>
    /\ <<"input", "close">> \in Seq(PsWords) /\ <<"input", "close">> # <<>> /\ Head(<<"input", "close">>) = "input"
       /\ Tail(<<"input", "close">>) = <<"close">>
    /\ <<"press", "pulse", "input", "released!">> \in Seq(PsWords) /\ <<"press", "pulse", "input", "released!">> # <<>>
       /\ Head(<<"press", "pulse", "input", "released!">>) = "press" /\ Tail(<<"press", "pulse", "input", "released!">>) = <<"pulse", "input", "released!">>
    /\ <<"pulse", "input", "released!">> \in Seq(PsWords) /\ <<"pulse", "input", "released!">> # <<>>
       /\ Head(<<"pulse", "input", "released!">>) = "pulse" /\ Tail(<<"pulse", "input", "released!">>) = <<"input", "released!">>
    /\ <<"input", "released!">> \in Seq(PsWords) /\ <<"input", "released!">> # <<>>
       /\ Head(<<"input", "released!">>) = "input" /\ Tail(<<"input", "released!">>) = <<"released!">>
    /\ <<"released!">> \in Seq(PsWords) /\ <<"released!">> # <<>>
       /\ Head(<<"released!">>) = "released!" /\ Tail(<<"released!">>) = <<>>
    /\ <<"read", "rate", "status">> \in Seq(PsWords) /\ <<"read", "rate", "status">> # <<>>
       /\ Head(<<"read", "rate", "status">>) = "read" /\ Tail(<<"read", "rate", "status">>) = <<"rate", "status">>
    /\ <<"rate", "status">> \in Seq(PsWords) /\ <<"rate", "status">> # <<>> /\ Head(<<"rate", "status">>) = "rate"
       /\ Tail(<<"rate", "status">>) = <<"status">>
    /\ <<"set_point", "added">> \in Seq(PsWords) /\ <<"set_point", "added">> # <<>>
       /\ Head(<<"set_point", "added">>) = "set_point" /\ Tail(<<"set_point", "added">>) = <<"added">>
    /\ <<"clear_point", "removed">> \in Seq(PsWords) /\ <<"clear_point", "removed">> # <<>>
       /\ Head(<<"clear_point", "removed">>) = "clear_point" /\ Tail(<<"clear_point", "removed">>) = <<"removed">>
<1>1. <<"load">> \in Seq(PsWords) /\ <<"load">> # <<>> /\ Head(<<"load">>) = "load" /\ Tail(<<"load">>) = <<>>
  <2>1. "load" \in PsWords
    BY DEF PsWords, Ps2!Commands
  <2>2. <<"load">> \in Seq(PsWords)
    BY <2>1
  <2> QED BY <2>2
<1>2. <<"save">> \in Seq(PsWords) /\ <<"save">> # <<>> /\ Head(<<"save">>) = "save" /\ Tail(<<"save">>) = <<>>
  <2>1. "save" \in PsWords
    BY DEF PsWords, Ps2!Commands
  <2>2. <<"save">> \in Seq(PsWords)
    BY <2>1
  <2> QED BY <2>2
<1>3. <<"read">> \in Seq(PsWords) /\ <<"read">> # <<>> /\ Head(<<"read">>) = "read" /\ Tail(<<"read">>) = <<>>
  <2>1. "read" \in PsWords
    BY DEF PsWords, Ps2!Commands
  <2>2. <<"read">> \in Seq(PsWords)
    BY <2>1
  <2> QED BY <2>2
<1>4. <<"batch">> \in Seq(PsWords) /\ <<"batch">> # <<>> /\ Head(<<"batch">>) = "batch" /\ Tail(<<"batch">>) = <<>>
  <2>1. "batch" \in PsWords
    BY DEF PsWords, Ps2!Commands
  <2>2. <<"batch">> \in Seq(PsWords)
    BY <2>1
  <2> QED BY <2>2
<1>5. <<"reset">> \in Seq(PsWords) /\ <<"reset">> # <<>> /\ Head(<<"reset">>) = "reset" /\ Tail(<<"reset">>) = <<>>
  <2>1. "reset" \in PsWords
    BY DEF PsWords, Ps2!Commands
  <2>2. <<"reset">> \in Seq(PsWords)
    BY <2>1
  <2> QED BY <2>2
<1>6. <<"status">> \in Seq(PsWords) /\ <<"status">> # <<>> /\ Head(<<"status">>) = "status" /\ Tail(<<"status">>) = <<>>
  <2>1. "status" \in PsWords
    BY DEF PsWords, Ps2!Commands
  <2>2. <<"status">> \in Seq(PsWords)
    BY <2>1
  <2> QED BY <2>2
<1>7. <<"added">> \in Seq(PsWords) /\ <<"added">> # <<>> /\ Head(<<"added">>) = "added" /\ Tail(<<"added">>) = <<>>
  <2>1. "added" \in PsWords
    BY DEF PsWords, Ps2!Commands
  <2>2. <<"added">> \in Seq(PsWords)
    BY <2>1
  <2> QED BY <2>2
<1>8. <<"removed">> \in Seq(PsWords) /\ <<"removed">> # <<>> /\ Head(<<"removed">>) = "removed" /\ Tail(<<"removed">>) = <<>>
  <2>1. "removed" \in PsWords
    BY DEF PsWords, Ps2!Commands
  <2>2. <<"removed">> \in Seq(PsWords)
    BY <2>1
  <2> QED BY <2>2
<1>9. <<"close">> \in Seq(PsWords) /\ <<"close">> # <<>> /\ Head(<<"close">>) = "close" /\ Tail(<<"close">>) = <<>>
  <2>1. "close" \in PsWords
    BY DEF PsWords, Ps2!Commands
  <2>2. <<"close">> \in Seq(PsWords)
    BY <2>1
  <2> QED BY <2>2
<1>10. <<"changed!">> \in Seq(PsWords) /\ <<"changed!">> # <<>> /\ Head(<<"changed!">>) = "changed!"
       /\ Tail(<<"changed!">>) = <<>>
  <2>1. "changed!" \in PsWords
    BY DEF PsWords, Ps2!Commands
  <2>2. <<"changed!">> \in Seq(PsWords)
    BY <2>1
  <2> QED BY <2>2
<1>11. <<"cards", "idle!", "change_card", "changed!">> \in Seq(PsWords)
       /\ <<"cards", "idle!", "change_card", "changed!">> # <<>>
       /\ Head(<<"cards", "idle!", "change_card", "changed!">>) = "cards"
       /\ Tail(<<"cards", "idle!", "change_card", "changed!">>) = <<"idle!", "change_card", "changed!">>
  <2>1. "cards" \in PsWords /\ "idle!" \in PsWords /\ "change_card" \in PsWords /\ "changed!" \in PsWords
    BY DEF PsWords, Ps2!Commands
  <2>2. <<"cards", "idle!", "change_card", "changed!">> \in Seq(PsWords)
    BY <2>1
  <2> QED BY <2>2
<1>12. <<"idle!", "change_card", "changed!">> \in Seq(PsWords) /\ <<"idle!", "change_card", "changed!">> # <<>>
       /\ Head(<<"idle!", "change_card", "changed!">>) = "idle!"
       /\ Tail(<<"idle!", "change_card", "changed!">>) = <<"change_card", "changed!">>
  <2>1. "idle!" \in PsWords /\ "change_card" \in PsWords /\ "changed!" \in PsWords
    BY DEF PsWords, Ps2!Commands
  <2>2. <<"idle!", "change_card", "changed!">> \in Seq(PsWords)
    BY <2>1
  <2> QED BY <2>2
<1>13. <<"change_card", "changed!">> \in Seq(PsWords) /\ <<"change_card", "changed!">> # <<>>
       /\ Head(<<"change_card", "changed!">>) = "change_card" /\ Tail(<<"change_card", "changed!">>) = <<"changed!">>
  <2>1. "change_card" \in PsWords /\ "changed!" \in PsWords
    BY DEF PsWords, Ps2!Commands
  <2>2. <<"change_card", "changed!">> \in Seq(PsWords)
    BY <2>1
  <2> QED BY <2>2
<1>14. <<"release_ports", "close">> \in Seq(PsWords) /\ <<"release_ports", "close">> # <<>>
       /\ Head(<<"release_ports", "close">>) = "release_ports" /\ Tail(<<"release_ports", "close">>) = <<"close">>
  <2>1. "release_ports" \in PsWords /\ "close" \in PsWords
    BY DEF PsWords, Ps2!Commands
  <2>2. <<"release_ports", "close">> \in Seq(PsWords)
    BY <2>1
  <2> QED BY <2>2
<1>15. <<"release", "input", "close">> \in Seq(PsWords) /\ <<"release", "input", "close">> # <<>>
       /\ Head(<<"release", "input", "close">>) = "release" /\ Tail(<<"release", "input", "close">>) = <<"input", "close">>
  <2>1. "release" \in PsWords /\ "input" \in PsWords /\ "close" \in PsWords
    BY DEF PsWords, Ps2!Commands
  <2>2. <<"release", "input", "close">> \in Seq(PsWords)
    BY <2>1
  <2> QED BY <2>2
<1>16. <<"input", "close">> \in Seq(PsWords) /\ <<"input", "close">> # <<>> /\ Head(<<"input", "close">>) = "input"
       /\ Tail(<<"input", "close">>) = <<"close">>
  <2>1. "input" \in PsWords /\ "close" \in PsWords
    BY DEF PsWords, Ps2!Commands
  <2>2. <<"input", "close">> \in Seq(PsWords)
    BY <2>1
  <2> QED BY <2>2
<1>17. <<"press", "pulse", "input", "released!">> \in Seq(PsWords) /\ <<"press", "pulse", "input", "released!">> # <<>>
       /\ Head(<<"press", "pulse", "input", "released!">>) = "press" /\ Tail(<<"press", "pulse", "input", "released!">>) = <<"pulse", "input", "released!">>
  <2>1. "press" \in PsWords /\ "pulse" \in PsWords /\ "input" \in PsWords /\ "released!" \in PsWords
    BY DEF PsWords, Ps2!Commands
  <2>2. <<"press", "pulse", "input", "released!">> \in Seq(PsWords)
    BY <2>1
  <2> QED BY <2>2
<1>18. <<"pulse", "input", "released!">> \in Seq(PsWords) /\ <<"pulse", "input", "released!">> # <<>>
       /\ Head(<<"pulse", "input", "released!">>) = "pulse" /\ Tail(<<"pulse", "input", "released!">>) = <<"input", "released!">>
  <2>1. "pulse" \in PsWords /\ "input" \in PsWords /\ "released!" \in PsWords
    BY DEF PsWords, Ps2!Commands
  <2>2. <<"pulse", "input", "released!">> \in Seq(PsWords)
    BY <2>1
  <2> QED BY <2>2
<1>19. <<"input", "released!">> \in Seq(PsWords) /\ <<"input", "released!">> # <<>>
       /\ Head(<<"input", "released!">>) = "input" /\ Tail(<<"input", "released!">>) = <<"released!">>
  <2>1. "input" \in PsWords /\ "released!" \in PsWords
    BY DEF PsWords, Ps2!Commands
  <2>2. <<"input", "released!">> \in Seq(PsWords)
    BY <2>1
  <2> QED BY <2>2
<1>24. <<"released!">> \in Seq(PsWords) /\ <<"released!">> # <<>>
       /\ Head(<<"released!">>) = "released!" /\ Tail(<<"released!">>) = <<>>
  <2>1. "released!" \in PsWords
    BY DEF PsWords, Ps2!Commands
  <2>2. <<"released!">> \in Seq(PsWords)
    BY <2>1
  <2> QED BY <2>2
<1>20. <<"read", "rate", "status">> \in Seq(PsWords) /\ <<"read", "rate", "status">> # <<>>
       /\ Head(<<"read", "rate", "status">>) = "read" /\ Tail(<<"read", "rate", "status">>) = <<"rate", "status">>
  <2>1. "read" \in PsWords /\ "rate" \in PsWords /\ "status" \in PsWords
    BY DEF PsWords, Ps2!Commands
  <2>2. <<"read", "rate", "status">> \in Seq(PsWords)
    BY <2>1
  <2> QED BY <2>2
<1>21. <<"rate", "status">> \in Seq(PsWords) /\ <<"rate", "status">> # <<>> /\ Head(<<"rate", "status">>) = "rate"
       /\ Tail(<<"rate", "status">>) = <<"status">>
  <2>1. "rate" \in PsWords /\ "status" \in PsWords
    BY DEF PsWords, Ps2!Commands
  <2>2. <<"rate", "status">> \in Seq(PsWords)
    BY <2>1
  <2> QED BY <2>2
<1>22. <<"set_point", "added">> \in Seq(PsWords) /\ <<"set_point", "added">> # <<>>
       /\ Head(<<"set_point", "added">>) = "set_point" /\ Tail(<<"set_point", "added">>) = <<"added">>
  <2>1. "set_point" \in PsWords /\ "added" \in PsWords
    BY DEF PsWords, Ps2!Commands
  <2>2. <<"set_point", "added">> \in Seq(PsWords)
    BY <2>1
  <2> QED BY <2>2
<1>23. <<"clear_point", "removed">> \in Seq(PsWords) /\ <<"clear_point", "removed">> # <<>>
       /\ Head(<<"clear_point", "removed">>) = "clear_point" /\ Tail(<<"clear_point", "removed">>) = <<"removed">>
  <2>1. "clear_point" \in PsWords /\ "removed" \in PsWords
    BY DEF PsWords, Ps2!Commands
  <2>2. <<"clear_point", "removed">> \in Seq(PsWords)
    BY <2>1
  <2> QED BY <2>2
<1> QED BY <1>1, <1>2, <1>3, <1>4, <1>5, <1>6, <1>7, <1>8, <1>9, <1>10, <1>11, <1>12, <1>13, <1>14, <1>15, <1>16, <1>17, <1>18, <1>19, <1>20, <1>21, <1>22, <1>23, <1>24

LEMMA PsWordTypes ==
    /\ \A c \in PsWords, s \in Seq(PsWords) :
          /\ <<c>> \o s \in Seq(PsWords) /\ <<c>> \o s # <<>>
          /\ Head(<<c>> \o s) = c /\ Tail(<<c>> \o s) = s /\ <<>> \o s = s
    /\ <<>> \in Seq(PsWords)
    /\ \A c \in PsWords : <<c>> = <<c>> \o <<>> /\ <<c>> \in Seq(PsWords)
<1>1. \A c \in PsWords, s \in Seq(PsWords) :
          /\ <<c>> \o s \in Seq(PsWords) /\ <<c>> \o s # <<>>
          /\ Head(<<c>> \o s) = c /\ Tail(<<c>> \o s) = s /\ <<>> \o s = s
  BY ConsFacts
<1>2. <<>> \in Seq(PsWords)
  BY EmptySeq
<1>3. \A c \in PsWords : <<c>> \in Seq(PsWords)
  OBVIOUS
<1>4. \A c \in PsWords : <<c>> = <<c>> \o <<>>
  BY <1>3, ConcatEmptySeq
<1> QED BY <1>1, <1>2, <1>3, <1>4

LEMMA PsWaits ==
    ASSUME NEW t \in Seq(PsWords)
    PROVE  /\ <<"finish">> \o t \in Seq(PsWords) /\ <<"finish">> \o t # <<>>
           /\ Head(<<"finish">> \o t) = "finish" /\ Tail(<<"finish">> \o t) = t
           /\ PsWait(t) \in Seq(PsWords) /\ PsWait(t) # <<>>
           /\ Head(PsWait(t)) = "terminal?" /\ Tail(PsWait(t)) = <<"finish">> \o t
           /\ <<"admit">> \o PsWait(t) \in Seq(PsWords) /\ <<"admit">> \o PsWait(t) # <<>>
           /\ Head(<<"admit">> \o PsWait(t)) = "admit" /\ Tail(<<"admit">> \o PsWait(t)) = PsWait(t)
<1>1. {"finish", "terminal?", "admit"} \subseteq PsWords
  BY DEF PsWords
<1>2. <<"finish">> \o t \in Seq(PsWords)
  BY <1>1, PsWordTypes
<1>3. PsWait(t) \in Seq(PsWords)
  BY <1>1, <1>2, PsWordTypes DEF PsWait
<1> QED BY <1>1, <1>2, <1>3, PsWordTypes DEF PsWait

\* The rest of a probe, place by place.
LEMMA PsProbes ==
    /\ {PsProbeStep, PsProbeLoad, PsProbeAsked, PsProbe, <<"read">>} \subseteq Seq(PsWords)
    /\ <<>> \notin {PsProbeStep, PsProbeLoad, PsProbeAsked, PsProbe, <<"read">>}
    /\ Head(PsProbeStep) = "BEGIN" /\ Tail(PsProbeStep) = <<"admit">> \o PsWait(<<"read">>)
    /\ Head(PsProbeLoad) = "load" /\ Tail(PsProbeLoad) = PsProbeStep
    /\ Head(PsProbeAsked) = "frozen!" /\ Tail(PsProbeAsked) = PsProbeLoad
    /\ Head(PsProbe) = "status" /\ Tail(PsProbe) = PsProbeAsked
<1>1. {"BEGIN", "load", "frozen!", "status", "read"} \subseteq PsWords
  BY DEF PsWords, Ps2!Commands
<1>2. <<"read">> \in Seq(PsWords) /\ <<"read">> # <<>>
  BY <1>1
<1>3. <<"admit">> \o PsWait(<<"read">>) \in Seq(PsWords)
  BY <1>2, PsWaits
<1>4. /\ PsProbeStep \in Seq(PsWords) /\ PsProbeStep # <<>>
      /\ Head(PsProbeStep) = "BEGIN" /\ Tail(PsProbeStep) = <<"admit">> \o PsWait(<<"read">>)
  BY <1>1, <1>3, PsWordTypes DEF PsProbeStep
<1>5. /\ PsProbeLoad \in Seq(PsWords) /\ PsProbeLoad # <<>> /\ Head(PsProbeLoad) = "load" /\ Tail(PsProbeLoad) = PsProbeStep
  BY <1>1, <1>4, PsWordTypes DEF PsProbeLoad
<1>6. /\ PsProbeAsked \in Seq(PsWords) /\ PsProbeAsked # <<>>
      /\ Head(PsProbeAsked) = "frozen!" /\ Tail(PsProbeAsked) = PsProbeLoad
  BY <1>1, <1>5, PsWordTypes DEF PsProbeAsked
<1>7. /\ PsProbe \in Seq(PsWords) /\ PsProbe # <<>> /\ Head(PsProbe) = "status" /\ Tail(PsProbe) = PsProbeAsked
  BY <1>1, <1>6, PsWordTypes DEF PsProbe
<1> QED BY <1>2, <1>4, <1>5, <1>6, <1>7

\* The rest of a request whose CPU is stopped.
LEMMA PsHaltPaths ==
    ASSUME NEW m, NEW t \in PsHaltTodos(m)
    PROVE  /\ t \in Seq(PsWords)
           /\ m \notin {"set_breakpoint", "clear_breakpoint", "idle"}
           /\ t = <<"input", "close">> => m = "finish"
           /\ \/ t = <<>> /\ m # "finish"
              \/ t = PsProbeStep /\ m = "probe"
              \/ t \in {<<"release_ports", "close">>, <<"input", "close">>} /\ m = "finish"
              \/ /\ t # <<>> /\ Tail(t) \in PsHaltTodos(m)
                 /\ Head(t) \in {"status", "frozen!", "load", "save", "read", "batch", "cards", "idle!", "change_card",
                                 "changed!", "release"}
                 /\ Tail(t) = <<"input", "close">> => Head(t) = "release"
<1>0. /\ <<>> \in Seq(PsWords) /\ <<>> # <<"input", "close">>
      /\ Head(<<"input", "close">>) = "input" /\ <<"input", "close">> \in Seq(PsWords)
  BY PsWordTypes, PsLiterals
<1>1. CASE m \in {"pause", "step", "reset"}
  <2>1. t = <<>> BY <1>1 DEF PsHaltTodos
  <2> QED BY <1>0, <1>1, <2>1
<1>2. CASE m = "probe"
  <2>1. PsHaltTodos(m) = {PsProbe, PsProbeAsked, PsProbeLoad, PsProbeStep, <<"read">>, <<>>} BY <1>2 DEF PsHaltTodos
  <2>2. /\ Head(<<"read">>) = "read" /\ Tail(<<"read">>) = <<>> /\ <<"read">> # <<>> /\ <<"read">> \in Seq(PsWords)
    BY PsLiterals
  <2>3. <<"input", "close">> \notin {PsProbeAsked, PsProbeLoad, PsProbeStep, <<>>}
    BY <1>0, PsProbes
  <2>4. CASE t \in {PsProbe, PsProbeAsked, PsProbeLoad}
    <3>1. t \in Seq(PsWords) /\ t # <<>> /\ t # <<"input", "close">> BY <1>0, <2>4, PsProbes
    <3>2. Tail(t) \in {PsProbeAsked, PsProbeLoad, PsProbeStep} /\ Head(t) \in {"status", "frozen!", "load"}
      BY <2>4, PsProbes
    <3> QED BY <1>2, <2>1, <2>3, <3>1, <3>2
  <2>5. CASE t = PsProbeStep BY <1>2, <2>5, PsProbes
  <2>6. CASE t = <<"read">> BY <1>0, <1>2, <2>1, <2>2, <2>6
  <2>7. CASE t = <<>> BY <1>0, <1>2, <2>7
  <2> QED BY <2>1, <2>4, <2>5, <2>6, <2>7
<1>3. CASE m = "load"
  <2>1. PsHaltTodos(m) = {<<"load">>, <<>>} BY <1>3 DEF PsHaltTodos
  <2> QED BY <1>0, <1>3, <2>1, PsLiterals
<1>4. CASE m = "save"
  <2>1. PsHaltTodos(m) = {<<"save">>, <<>>} BY <1>4 DEF PsHaltTodos
  <2> QED BY <1>0, <1>4, <2>1, PsLiterals
<1>5. CASE m = "call_stack"
  <2>1. PsHaltTodos(m) = {<<"read">>, <<>>} BY <1>5 DEF PsHaltTodos
  <2> QED BY <1>0, <1>5, <2>1, PsLiterals
<1>6. CASE m = "batch"
  <2>1. PsHaltTodos(m) = {<<"batch">>, <<>>} BY <1>6 DEF PsHaltTodos
  <2> QED BY <1>0, <1>6, <2>1, PsLiterals
<1>7. CASE m = "media"
  <2>1. PsHaltTodos(m) = {<<"cards", "idle!", "change_card", "changed!">>, <<"idle!", "change_card", "changed!">>,
                          <<"change_card", "changed!">>, <<"changed!">>, <<>>}
    BY <1>7 DEF PsHaltTodos
  <2>2. CASE t = <<"cards", "idle!", "change_card", "changed!">> BY <1>0, <1>7, <2>1, <2>2, PsLiterals
  <2>3. CASE t = <<"idle!", "change_card", "changed!">> BY <1>0, <1>7, <2>1, <2>3, PsLiterals
  <2>4. CASE t = <<"change_card", "changed!">> BY <1>0, <1>7, <2>1, <2>4, PsLiterals
  <2>5. CASE t = <<"changed!">> BY <1>0, <1>7, <2>1, <2>5, PsLiterals
  <2> QED BY <1>0, <1>7, <2>1, <2>2, <2>3, <2>4, <2>5
<1>8. CASE m = "finish"
  <2>1. PsHaltTodos(m) = {<<"release_ports", "close">>, <<"release", "input", "close">>, <<"input", "close">>}
    BY <1>8 DEF PsHaltTodos
  <2>2. CASE t = <<"release", "input", "close">> BY <1>8, <2>1, <2>2, PsLiterals
  <2>3. CASE t \in {<<"release_ports", "close">>, <<"input", "close">>} BY <1>8, <2>3, PsLiterals
  <2> QED BY <2>1, <2>2, <2>3
<1> QED BY <1>1, <1>2, <1>3, <1>4, <1>5, <1>6, <1>7, <1>8 DEF PsHaltTodos

LEMMA PsReturning ==
    ASSUME NEW m, NEW t \in PsReturns(m)
    PROVE  t \in PsHaltTodos(m) /\ t \in Seq(PsWords) /\ t # <<"input", "close">> /\ m \in {"pause", "step", "probe", "finish"}
<1>1. t \in PsHaltTodos(m) /\ m \in {"pause", "step", "probe", "finish"}
  BY DEF PsReturns, PsHaltTodos
<1>2. t # <<"input", "close">>
  <2>1. t = <<>> \/ t = PsProbe \/ t = <<"read">> \/ t = <<"release_ports", "close">>
    BY DEF PsReturns
  <2> QED BY <2>1, PsLiterals, PsProbes
<1> QED BY <1>1, <1>2, PsHaltPaths

-----------------------------------------------------------------------------
(* What PCSX2 does *)

LEMMA PsStopped ==
    ASSUME NEW n \in PsNatives, NEW why \in {"completed", "stop", "cancelled", "host_deadline"}
    PROVE  LET o == Ps2!Stopped(n, why) IN
           /\ o \in PsNatives /\ ~o.run
           /\ o.op.phase = IF n.op.phase = "running" THEN "terminal" ELSE n.op.phase
           /\ o.point = n.point /\ o.hits = n.hits /\ o.events = n.events /\ o.keys = n.keys
<1>1. n.op \in PsOps
  BY DEF PsNatives
<1>2. CASE n.op.phase = "running"
  <2>1. PICK p \in PsOps : p = [n.op EXCEPT !.phase = "terminal", !.reason = why] /\ p.phase = "terminal"
    <3>1. [n.op EXCEPT !.phase = "terminal", !.reason = why] \in PsOps /\ [n.op EXCEPT !.phase = "terminal", !.reason = why].phase = "terminal"
      BY <1>1 DEF PsOps
    <3> QED BY <3>1
  <2>2. Ps2!Stopped(n, why) = [n EXCEPT !.run = FALSE, !.op = p]
    BY <1>2, <2>1 DEF Ps2!Stopped, PsNatives
  <2> QED BY <1>2, <2>1, <2>2 DEF PsNatives
<1>3. CASE n.op.phase # "running"
  <2>1. Ps2!Stopped(n, why) = [n EXCEPT !.run = FALSE]
    BY <1>3 DEF Ps2!Stopped, PsNatives
  <2> QED BY <1>3, <2>1 DEF PsNatives
<1> QED BY <1>2, <1>3

\* What PCSX2 may do by itself: an operation that is over stays so, and nothing starts a stopped CPU.
PsDrift(n, o) ==
    /\ ~PsOpen(n) => ~PsOpen(o)
    /\ n.op.phase \in {"terminal", "finishing", "finished"} /\ ~n.run =>
          ~o.run /\ (o.op.phase = n.op.phase \/ (n.op.phase = "finishing" /\ o.op.phase = "finished"))
    /\ PsAdmitted(n) => PsAdmitted(o)
    /\ o.keys = n.keys /\ o.point = n.point
    /\ o.hits + n.events = n.hits + o.events

LEMMA PsEmulates ==
    ASSUME PsTypeOK, Ps2!Emulate
    PROVE  native' \in PsNatives /\ PsDrift(native, native')
<1>1. /\ native \in PsNatives /\ native.op \in PsOps /\ native.hits \in Nat /\ native.events \in Nat
      /\ native.op.phase \in {"admitted", "running", "terminal", "finishing", "finished"}
  BY DEF PsTypeOK, PsNatives, PsOps
<1>2. CASE Ps2!Hit
  <2>1. PICK o \in PsNatives : /\ o = Ps2!Stopped(native, "stop") /\ ~o.run /\ o.keys = native.keys /\ o.point = native.point
                               /\ o.op.phase = (IF native.op.phase = "running" THEN "terminal" ELSE native.op.phase)
                               /\ o.hits = native.hits /\ o.events = native.events
    BY <1>1, PsStopped
  <2>2. native' = [o EXCEPT !.hits = @ + 1, !.events = @ + 1] /\ native.run
    BY <1>2, <2>1 DEF Ps2!Hit
  <2>3. /\ native' \in PsNatives /\ ~native'.run /\ native'.keys = native.keys /\ native'.point = native.point
        /\ native'.op.phase = (IF native.op.phase = "running" THEN "terminal" ELSE native.op.phase)
        /\ native'.hits = native.hits + 1 /\ native'.events = native.events + 1
    <3>1. PICK h \in Nat, e \in Nat : h = native.hits + 1 /\ e = native.events + 1
      BY <1>1
    <3>2. native' = [o EXCEPT !.hits = h, !.events = e]
      BY <2>1, <2>2, <3>1 DEF PsNatives
    <3>3. [o EXCEPT !.hits = h, !.events = e] \in PsNatives
      BY DEF PsNatives
    <3> QED BY <2>1, <3>1, <3>2, <3>3 DEF PsNatives
  <2> QED BY <1>1, <2>2, <2>3 DEF PsDrift, PsOpen, PsAdmitted
<1>3. CASE Ps2!ExternalPause \/ Ps2!OpEnds
  <2>1. PICK why \in {"completed", "stop", "cancelled", "host_deadline"} : native' = Ps2!Stopped(native, why)
    BY <1>3 DEF Ps2!ExternalPause, Ps2!OpEnds
  <2>2. /\ native' \in PsNatives /\ ~native'.run /\ native'.keys = native.keys /\ native'.point = native.point
        /\ native'.op.phase = (IF native.op.phase = "running" THEN "terminal" ELSE native.op.phase)
        /\ native'.hits = native.hits /\ native'.events = native.events
    BY <1>1, <2>1, PsStopped
  <2>3. native'.hits + native.events = native.hits + native'.events
    BY <1>1, <2>2
  <2>4. /\ native.op.phase # "running" => native'.op.phase = native.op.phase
        /\ native.op.phase = "running" => native'.op.phase = "terminal"
    BY <2>2
  <2> QED BY <1>1, <2>2, <2>3, <2>4 DEF PsDrift, PsOpen, PsAdmitted
<1>4. CASE Ps2!OpStarts
  <2>1. PICK p \in PsOps, run \in BOOLEAN : /\ native' = [native EXCEPT !.op = p, !.run = run]
                                            /\ \/ p.phase = "running"
                                               \/ p.phase = "terminal" /\ ~run
    <3>1. CASE native' = [native EXCEPT !.op.phase = "running", !.run = TRUE]
      <4>1. PICK p \in PsOps : p = [native.op EXCEPT !.phase = "running"] /\ p.phase = "running"
        <5>1. [native.op EXCEPT !.phase = "running"] \in PsOps /\ [native.op EXCEPT !.phase = "running"].phase = "running"
          BY <1>1 DEF PsOps
        <5> QED BY <5>1
      <4>2. native' = [native EXCEPT !.op = p, !.run = TRUE]
        BY <1>1, <3>1, <4>1 DEF PsNatives
      <4> QED BY <4>1, <4>2
    <3>2. ASSUME NEW why \in {"completed", "cancelled", "host_deadline"},
                 native' = [native EXCEPT !.op.phase = "terminal", !.run = FALSE, !.op.reason = why]
          PROVE  \E p \in PsOps : native' = [native EXCEPT !.op = p, !.run = FALSE] /\ p.phase = "terminal"
      <4>2. PICK p \in PsOps : p = [native.op EXCEPT !.phase = "terminal", !.reason = why] /\ p.phase = "terminal"
        <5>1. [native.op EXCEPT !.phase = "terminal", !.reason = why] \in PsOps /\ [native.op EXCEPT !.phase = "terminal", !.reason = why].phase = "terminal"
          BY <1>1 DEF PsOps
        <5> QED BY <5>1
      <4>3. native' = [native EXCEPT !.op = p, !.run = FALSE]
        BY <1>1, <3>2, <4>2 DEF PsNatives
      <4> QED BY <4>2, <4>3
    <3> QED BY <1>4, <3>1, <3>2 DEF Ps2!OpStarts
  <2>2. /\ native' \in PsNatives /\ native'.keys = native.keys /\ native'.point = native.point
        /\ native'.op.phase = p.phase /\ native'.run = run
        /\ native'.hits = native.hits /\ native'.events = native.events
    BY <1>1, <2>1 DEF PsNatives
  <2>3. native.op.phase = "admitted"
    BY <1>4 DEF Ps2!OpStarts
  <2> QED BY <1>1, <2>1, <2>2, <2>3 DEF PsDrift, PsOpen, PsAdmitted
<1>5. CASE Ps2!OpUnwinds
  <2>1. PICK p \in PsOps : p = [native.op EXCEPT !.phase = "finished"] /\ p.phase = "finished"
    <3>1. [native.op EXCEPT !.phase = "finished"] \in PsOps /\ [native.op EXCEPT !.phase = "finished"].phase = "finished"
      BY <1>1 DEF PsOps
    <3> QED BY <3>1
  <2>2. native' = [native EXCEPT !.op = p] /\ native.op.phase = "finishing"
    BY <1>1, <1>5, <2>1 DEF Ps2!OpUnwinds, PsNatives
  <2>3. /\ native' \in PsNatives /\ native'.keys = native.keys /\ native'.point = native.point
        /\ native'.op.phase = "finished" /\ native'.run = native.run
        /\ native'.hits = native.hits /\ native'.events = native.events
    BY <1>1, <2>1, <2>2 DEF PsNatives
  <2> QED BY <1>1, <2>2, <2>3 DEF PsDrift, PsOpen, PsAdmitted
<1>6. CASE Ps2!CardSettles
  <2>1. /\ native' \in PsNatives /\ native'.keys = native.keys /\ native'.point = native.point
        /\ native'.op = native.op /\ native'.run = native.run
        /\ native'.hits = native.hits /\ native'.events = native.events
    BY <1>1, <1>6 DEF Ps2!CardSettles, PsNatives
  <2>2. native'.hits + native.events = native.hits + native'.events
    BY <1>1, <2>1
  <2>3. /\ ~PsOpen(native) => ~PsOpen(native')
        /\ PsAdmitted(native) => PsAdmitted(native')
    BY <2>1 DEF PsOpen, PsAdmitted
  <2>4. ~native.run => ~native'.run /\ native'.op.phase = native.op.phase
    BY <2>1
  <2> QED BY <2>1, <2>2, <2>3, <2>4 DEF PsDrift
<1> QED BY <1>2, <1>3, <1>4, <1>5, <1>6 DEF Ps2!Emulate

\* What a command with reply a leads to.
PsEffect(q, n, o, a) ==
    /\ a = "rejected" /\ q # "pulse" => o = n
    /\ o.hits = n.hits /\ o.events = IF q = "events" /\ a # "rejected" THEN 0 ELSE n.events
    /\ q \notin {"set_point", "clear_point"} => o.point = n.point
    /\ q \in {"set_point", "clear_point"} /\ a # "rejected" => o.point = (q = "set_point")
    /\ q \notin {"PAUSE", "BEGIN", "FINISH"} /\ ~PsOpen(n) => ~PsOpen(o)
    /\ q \notin {"resume", "press"} /\ ~n.run => ~o.run
    /\ q \notin {"hold", "release", "press", "pulse"} => o.keys = n.keys
    /\ q = "release" /\ a # "rejected" => ~o.keys
    /\ q = "reset" /\ a # "rejected" => ~o.run
    /\ q = "status" => o = n /\ (a = "frozen" => ~n.run)
    /\ q = "pulse" => (a = "frozen" => ~o.run)
    /\ q = "input" /\ a = "native" => ~n.keys
    /\ q \in {"PAUSE", "BEGIN"} /\ a # "rejected" => o.op.phase = "admitted" /\ a = "admitted"
    /\ q \in {"POLL", "CANCEL"} => a = n.op.phase /\ o.op.phase = n.op.phase /\ o.run = n.run
    /\ q = "FINISH" => a \in {"finishing", "finished"} /\ o.op.phase = a

LEMMA PsEffects ==
    ASSUME PsTypeOK, NEW q \in Ps2!Commands, NEW r \in Ps2!Replies(q)
    PROVE  r[1] \in PsNatives /\ r[2] \in PsReplies \cup {"rejected"} /\ PsEffect(q, native, r[1], r[2])
<1>0. /\ native \in PsNatives /\ native.op \in PsOps /\ native.hits \in Nat /\ native.events \in Nat
      /\ native.op.phase \in {"admitted", "running", "terminal", "finishing", "finished"}
      /\ native.run \in BOOLEAN /\ native.keys \in BOOLEAN
      /\ req.card \in Cards \cup {"none"} /\ bridge.last \in Nat
  BY DEF PsTypeOK, PsNatives, PsOps, PsBridges, PsReqs
<1> DEFINE Fine(o, a) == o \in PsNatives /\ a \in PsReplies \cup {"rejected"} /\ PsEffect(q, native, o, a)
<1>1. ASSUME q \notin {"POLL", "CANCEL", "FINISH"} PROVE Fine(native, "rejected")
  BY <1>0, <1>1 DEF PsEffect, PsReplies
<1>2. CASE Ps2!OpOpen /\ q \notin Ps2!ServedWhileOpen
  <2>1. r = <<native, "rejected">>
    BY <1>2 DEF Ps2!Replies
  <2>2. q \notin {"POLL", "CANCEL", "FINISH"}
    BY <1>2 DEF Ps2!ServedWhileOpen
  <2> QED BY <1>1, <2>1, <2>2
<1>3. CASE ~(Ps2!OpOpen /\ q \notin Ps2!ServedWhileOpen)
  <2>1. CASE q = "status"
    <3>1. r = <<native, IF native.run THEN "running" ELSE "frozen">>
      BY <1>3, <2>1 DEF Ps2!Replies, Ps2!RunState
    <3> QED BY <1>0, <2>1, <3>1 DEF PsEffect, PsReplies
  <2>2. CASE q \in {"PAUSE", "BEGIN"}
    <3>1. \/ r = <<native, "rejected">>
          \/ \E kind \in {"pause", "frames"} : r = <<[native EXCEPT !.op = Ps2!Admits(kind)], "admitted">>
      BY <1>3, <2>2 DEF Ps2!Replies
    <3>2. ASSUME NEW kind \in {"pause", "frames"} PROVE Ps2!Admits(kind) \in PsOps /\ Ps2!Admits(kind).phase = "admitted"
      BY <1>0 DEF Ps2!Admits, PsOps
    <3>3. ASSUME NEW p \in PsOps, p.phase = "admitted" PROVE Fine([native EXCEPT !.op = p], "admitted")
      <4>1. PICK o \in PsNatives : /\ o = [native EXCEPT !.op = p] /\ o.op = p /\ o.run = native.run /\ o.keys = native.keys
                                   /\ o.point = native.point /\ o.hits = native.hits /\ o.events = native.events
        <5>1. [native EXCEPT !.op = p] \in PsNatives
          BY <1>0 DEF PsNatives
        <5> QED BY <1>0, <5>1 DEF PsNatives
      <4> QED BY <1>0, <2>2, <3>3, <4>1 DEF PsEffect, PsReplies
    <3> QED BY <1>1, <2>2, <3>1, <3>2, <3>3
  <2>3. CASE q = "POLL"
    <3>1. r = <<native, native.op.phase>>
      BY <1>3, <2>3 DEF Ps2!Replies
    <3> QED BY <1>0, <2>3, <3>1 DEF PsEffect, PsReplies
  <2>4. CASE q = "CANCEL"
    <3>1. r = <<[native EXCEPT !.op.cancel = TRUE], native.op.phase>>
      BY <1>3, <2>4 DEF Ps2!Replies
    <3>2. PICK p \in PsOps : p = [native.op EXCEPT !.cancel = TRUE] /\ p.phase = native.op.phase
      <4>1. [native.op EXCEPT !.cancel = TRUE] \in PsOps /\ [native.op EXCEPT !.cancel = TRUE].phase = native.op.phase
        BY <1>0 DEF PsOps
      <4> QED BY <4>1
    <3>3. PICK o \in PsNatives : /\ o = [native EXCEPT !.op = p] /\ o.op = p /\ o.run = native.run /\ o.keys = native.keys
                                 /\ o.point = native.point /\ o.hits = native.hits /\ o.events = native.events
      <4>1. [native EXCEPT !.op = p] \in PsNatives
        BY <1>0 DEF PsNatives
      <4> QED BY <1>0, <4>1 DEF PsNatives
    <3>4. r = <<o, native.op.phase>>
      BY <1>0, <3>1, <3>2, <3>3 DEF PsNatives
    <3> QED BY <1>0, <2>4, <3>2, <3>3, <3>4 DEF PsEffect, PsReplies, PsOpen
  <2>5. CASE q = "FINISH"
    <3>1. PICK a \in {"finishing", "finished"} : r = <<[native EXCEPT !.op.phase = a], a>>
      BY <1>3, <2>5 DEF Ps2!Replies
    <3>2. PICK p \in PsOps : p = [native.op EXCEPT !.phase = a] /\ p.phase = a
      <4>1. [native.op EXCEPT !.phase = a] \in PsOps /\ [native.op EXCEPT !.phase = a].phase = a
        BY <1>0 DEF PsOps
      <4> QED BY <4>1
    <3>3. PICK o \in PsNatives : /\ o = [native EXCEPT !.op = p] /\ o.op = p /\ o.run = native.run /\ o.keys = native.keys
                                 /\ o.point = native.point /\ o.hits = native.hits /\ o.events = native.events
      <4>1. [native EXCEPT !.op = p] \in PsNatives
        BY <1>0 DEF PsNatives
      <4> QED BY <1>0, <4>1 DEF PsNatives
    <3>4. r = <<o, a>>
      BY <1>0, <3>1, <3>2, <3>3 DEF PsNatives
    <3> QED BY <1>0, <2>5, <3>2, <3>3, <3>4 DEF PsEffect, PsReplies
  <2>6. CASE q \in {"resume", "reset"}
    <3>1. r = <<[native EXCEPT !.run = (q = "resume")], "ok">>
      BY <1>3, <2>6 DEF Ps2!Replies
    <3>2. PICK o \in PsNatives : /\ o = [native EXCEPT !.run = (q = "resume")] /\ o.op = native.op /\ o.run = (q = "resume")
                                 /\ o.keys = native.keys
                                 /\ o.point = native.point /\ o.hits = native.hits /\ o.events = native.events
      <4>1. [native EXCEPT !.run = (q = "resume")] \in PsNatives
        BY <1>0 DEF PsNatives
      <4> QED BY <1>0, <4>1 DEF PsNatives
    <3> QED BY <1>0, <2>6, <3>1, <3>2 DEF PsEffect, PsReplies, PsOpen
  <2>7. CASE q = "pause_cpu"
    <3>1. r = <<Ps2!Stopped(native, "stop"), "ok">> BY <1>3, <2>7 DEF Ps2!Replies
    <3>2. PICK o \in PsNatives : /\ o = Ps2!Stopped(native, "stop") /\ ~o.run /\ o.keys = native.keys /\ o.point = native.point
                                 /\ o.op.phase = (IF native.op.phase = "running" THEN "terminal" ELSE native.op.phase)
                                 /\ o.hits = native.hits /\ o.events = native.events
      BY <1>0, PsStopped
    <3> QED BY <1>0, <2>7, <3>1, <3>2 DEF PsEffect, PsReplies, PsOpen
  <2>15. CASE q = "press"
    <3>1. r = <<[native EXCEPT !.run = TRUE, !.keys = TRUE], IF native.run THEN "running" ELSE "frozen">>
      BY <1>3, <2>15 DEF Ps2!Replies, Ps2!PulseStarts, Ps2!RunState
    <3>2. PICK o \in PsNatives : /\ o = [native EXCEPT !.run = TRUE, !.keys = TRUE] /\ o.op = native.op
                                 /\ o.point = native.point /\ o.hits = native.hits /\ o.events = native.events
      <4>1. [native EXCEPT !.run = TRUE, !.keys = TRUE] \in PsNatives
        BY <1>0 DEF PsNatives
      <4> QED BY <1>0, <4>1 DEF PsNatives
    <3>3. PICK a \in {"running", "frozen"} : r = <<o, a>> BY <3>1, <3>2
    <3>4. PsEffect(q, native, o, a) /\ a \in PsReplies BY <2>15, <3>2, <3>3 DEF PsEffect, PsReplies, PsOpen
    <3> QED BY <3>2, <3>3, <3>4
  <2>16. CASE q = "pulse"
    <3>1. PICK m \in PsNatives : /\ m = IF req.was = "frozen" THEN Ps2!Stopped(native, "stop") ELSE native
                                 /\ m.op.phase \in {native.op.phase, "terminal"} /\ m.point = native.point
                                 /\ native.op.phase # "running" => m.op.phase = native.op.phase
                                 /\ m.hits = native.hits /\ m.events = native.events /\ (~native.run => ~m.run)
      <4>1. CASE req.was = "frozen"
        <5>1. PICK m \in PsNatives : /\ m = Ps2!Stopped(native, "stop") /\ ~m.run /\ m.point = native.point
                                     /\ m.op.phase = (IF native.op.phase = "running" THEN "terminal" ELSE native.op.phase)
                                     /\ m.hits = native.hits /\ m.events = native.events
          BY <1>0, PsStopped
        <5> QED BY <4>1, <5>1
      <4>2. CASE req.was # "frozen" BY <1>0, <4>2
      <4> QED BY <4>1, <4>2
    <3>2. PICK o \in PsNatives : /\ o = [m EXCEPT !.keys = FALSE] /\ o.op = m.op /\ o.run = m.run
                                 /\ o.point = m.point /\ o.hits = m.hits /\ o.events = m.events
      <4>1. [m EXCEPT !.keys = FALSE] \in PsNatives
        BY <3>1 DEF PsNatives
      <4> QED BY <3>1, <4>1 DEF PsNatives
    <3>3. o = Ps2!PulseEnds BY <3>1, <3>2 DEF Ps2!PulseEnds
    <3>4. r = <<o, Ps2!RunState(o)>> \/ r = <<o, "rejected">> BY <1>3, <2>16, <3>3 DEF Ps2!Replies
    <3>5. PICK a \in {"running", "frozen", "rejected"} : r = <<o, a>> /\ (a = "frozen" => ~o.run)
      BY <3>4 DEF Ps2!RunState
    <3>6. PsEffect(q, native, o, a) /\ a \in PsReplies \cup {"rejected"}
      BY <1>0, <2>16, <3>1, <3>2, <3>5 DEF PsEffect, PsReplies, PsOpen
    <3> QED BY <3>5, <3>6
  <2>8. CASE q \in {"hold", "release"}
    <3>1. r = <<[native EXCEPT !.keys = (q = "hold")], "ok">>
      BY <1>3, <2>8 DEF Ps2!Replies
    <3>2. PICK o \in PsNatives : /\ o = [native EXCEPT !.keys = (q = "hold")] /\ o.op = native.op /\ o.run = native.run
                                 /\ o.keys = (q = "hold")
                                 /\ o.point = native.point /\ o.hits = native.hits /\ o.events = native.events
      <4>1. [native EXCEPT !.keys = (q = "hold")] \in PsNatives
        BY <1>0 DEF PsNatives
      <4> QED BY <1>0, <4>1 DEF PsNatives
    <3> QED BY <1>0, <2>8, <3>1, <3>2 DEF PsEffect, PsReplies, PsOpen
  <2>9. CASE q = "input"
    <3>1. r = <<native, IF native.keys THEN "engaged" ELSE "native">>
      BY <1>3, <2>9 DEF Ps2!Replies
    <3> QED BY <1>0, <2>9, <3>1 DEF PsEffect, PsReplies
  <2>10. CASE q \in {"set_point", "clear_point"}
    <3>1. r = <<[native EXCEPT !.point = (q = "set_point")], "ok">> \/ r = <<native, "rejected">>
      BY <1>3, <2>10 DEF Ps2!Replies
    <3>2. PICK o \in PsNatives : /\ o = [native EXCEPT !.point = (q = "set_point")] /\ o.op = native.op /\ o.run = native.run
                                 /\ o.keys = native.keys
                                 /\ o.point = (q = "set_point") /\ o.hits = native.hits /\ o.events = native.events
      <4>1. [native EXCEPT !.point = (q = "set_point")] \in PsNatives
        BY <1>0 DEF PsNatives
      <4> QED BY <1>0, <4>1 DEF PsNatives
    <3>3. PsEffect(q, native, o, "ok") /\ "ok" \in PsReplies
      BY <2>10, <3>2 DEF PsEffect, PsReplies, PsOpen
    <3> QED BY <1>1, <2>10, <3>1, <3>2, <3>3
  <2>11. CASE q = "events"
    <3>1. r = <<[native EXCEPT !.events = 0], "ok">>
      BY <1>3, <2>11 DEF Ps2!Replies
    <3>2. PICK o \in PsNatives : /\ o = [native EXCEPT !.events = 0] /\ o.op = native.op /\ o.run = native.run
                                 /\ o.keys = native.keys
                                 /\ o.point = native.point /\ o.hits = native.hits /\ o.events = 0
      <4>1. [native EXCEPT !.events = 0] \in PsNatives
        BY <1>0 DEF PsNatives
      <4> QED BY <1>0, <4>1 DEF PsNatives
    <3> QED BY <1>0, <2>11, <3>1, <3>2 DEF PsEffect, PsReplies, PsOpen
  <2>12. CASE q = "cards"
    <3>1. r = <<native, IF native.busy THEN "busy" ELSE "ok">>
      BY <1>3, <2>12 DEF Ps2!Replies
    <3> QED BY <1>0, <2>12, <3>1 DEF PsEffect, PsReplies
  <2>13. CASE q = "change_card"
    <3>1. \E card \in Cards \cup {"none"}, busy \in BOOLEAN, a \in {"completed", "rolled_back", "rollback_failed"} :
            r = <<[native EXCEPT !.card = card, !.busy = busy], a>>
      <4>1. \/ r = <<[native EXCEPT !.card = req.card, !.busy = TRUE], "completed">>
            \/ r = <<native, "rolled_back">>
            \/ r = <<[native EXCEPT !.card = "none"], "rollback_failed">>
        BY <1>3, <2>13 DEF Ps2!Replies
      <4>2. /\ native = [native EXCEPT !.card = native.card, !.busy = native.busy]
            /\ [native EXCEPT !.card = "none"] = [native EXCEPT !.card = "none", !.busy = native.busy]
            /\ native.card \in Cards \cup {"none"} /\ native.busy \in BOOLEAN
        BY <1>0 DEF PsNatives
      <4>3. CASE r = <<[native EXCEPT !.card = req.card, !.busy = TRUE], "completed">> BY <1>0, <4>3
      <4>4. CASE r = <<native, "rolled_back">>
        <5>1. r = <<[native EXCEPT !.card = native.card, !.busy = native.busy], "rolled_back">> BY <4>2, <4>4
        <5> QED BY <4>2, <5>1
      <4>5. CASE r = <<[native EXCEPT !.card = "none"], "rollback_failed">>
        <5>1. r = <<[native EXCEPT !.card = "none", !.busy = native.busy], "rollback_failed">> BY <4>2, <4>5
        <5> QED BY <4>2, <5>1
      <4> QED BY <4>1, <4>3, <4>4, <4>5
    <3>2. PICK card \in Cards \cup {"none"}, busy \in BOOLEAN, a \in {"completed", "rolled_back", "rollback_failed"} :
            r = <<[native EXCEPT !.card = card, !.busy = busy], a>>
      BY <3>1
    <3>3. PICK o \in PsNatives : /\ o = [native EXCEPT !.card = card, !.busy = busy] /\ o.op = native.op /\ o.run = native.run
                                 /\ o.keys = native.keys
                                 /\ o.point = native.point /\ o.hits = native.hits /\ o.events = native.events
      <4>1. [native EXCEPT !.card = card, !.busy = busy] \in PsNatives
        BY <1>0 DEF PsNatives
      <4> QED BY <1>0, <4>1 DEF PsNatives
    <3> QED BY <1>0, <2>13, <3>2, <3>3 DEF PsEffect, PsReplies, PsOpen
  <2>14. CASE q \in {"load", "save", "read", "scan", "rate", "batch"}
    <3>1. r = <<native, "ok">> \/ r = <<native, "rejected">>
      BY <1>3, <2>14 DEF Ps2!Replies
    <3> QED BY <1>0, <1>1, <2>14, <3>1 DEF PsEffect, PsReplies
  <2> QED BY <2>1, <2>2, <2>3, <2>4, <2>5, <2>6, <2>7, <2>8, <2>9, <2>10, <2>11, <2>12, <2>13, <2>14, <2>15, <2>16 DEF Ps2!Commands
<1> QED BY <1>2, <1>3

-----------------------------------------------------------------------------
(* Where a request can be *)

LEMMA PsKept ==
    ASSUME NEW n, NEW o, NEW b, NEW c, NEW r, NEW s, PsWhere(n, b, r),
           o.run = n.run, o.op.phase = n.op.phase, o.keys = n.keys, c.port = b.port, c.effects = b.effects,
           s.m = r.m, s.todo = r.todo, s.reply = r.reply, s.was = r.was, s.answer = r.answer
    PROVE  PsWhere(o, c, s)
<1>1. CASE PsResting(n, b, r) BY <1>1 DEF PsWhere, PsResting, PsOpen
<1>2. ASSUME NEW t \in PsReturns(r.m), PsOwning(n, r, t) PROVE PsWhere(o, c, s)
  <2>1. PsOwning(o, s, t) BY <1>2 DEF PsOwning, PsOpen, PsAdmitted, PsFinishing
  <2> QED BY <2>1 DEF PsWhere
<1>3. CASE PsHalted(n, r) BY <1>3 DEF PsWhere, PsHalted, PsOpen
<1>4. ASSUME NEW t \in PsHaltTodos(r.m), PsAsking(n, r, t) PROVE PsWhere(o, c, s)
  <2>1. PsAsking(o, s, t) BY <1>4 DEF PsAsking, PsOpen
  <2> QED BY <2>1 DEF PsWhere
<1>5. CASE PsPulsing(n, r) BY <1>5 DEF PsWhere, PsPulsing, PsOpen
<1>6. CASE PsResetting(n, r) BY <1>6 DEF PsWhere, PsResetting, PsOpen
<1>7. CASE PsPointing(n, r) BY <1>7 DEF PsWhere, PsPointing, PsOpen
<1>8. CASE PsClosing(n, b, r) BY <1>8 DEF PsWhere, PsClosing, PsOpen
<1>9. CASE PsRoaming(n, r) BY <1>9 DEF PsWhere, PsRoaming, PsOpen
<1> QED BY <1>1, <1>2, <1>3, <1>4, <1>5, <1>6, <1>7, <1>8, <1>9 DEF PsWhere

\* PCSX2 goes on while a request is where it is.
LEMMA PsDrifts ==
    ASSUME NEW n, NEW o, NEW b, NEW r, PsWhere(n, b, r), PsDrift(n, o)
    PROVE  PsWhere(o, b, r)
<1>0. /\ ~PsOpen(n) => ~PsOpen(o) /\ (~n.run => ~o.run)
      /\ o.keys = n.keys
  BY DEF PsDrift, PsOpen
<1>1. CASE PsResting(n, b, r) BY <1>0, <1>1 DEF PsWhere, PsResting
<1>2. ASSUME NEW t \in PsReturns(r.m), PsOwning(n, r, t) PROVE PsWhere(o, b, r)
  <2>1. PsAdmitted(n) => PsAdmitted(o) /\ (n.op.phase = "terminal" => o.op.phase = "terminal")
    BY DEF PsDrift, PsAdmitted
  <2>2. ~n.run /\ n.op.phase = "terminal" => ~o.run /\ o.op.phase = "terminal"
    BY DEF PsDrift
  <2>3. ~n.run /\ n.op.phase \in {"finishing", "finished"} => ~o.run /\ o.op.phase \in {"finishing", "finished"}
    BY DEF PsDrift
  <2>4. ~n.run /\ n.op.phase = "finished" => o.op.phase = "finished"
    BY DEF PsDrift
  <2>5. PsOwning(o, r, t)
    BY <1>0, <1>2, <2>1, <2>2, <2>3, <2>4 DEF PsOwning, PsFinishing
  <2> QED BY <2>5 DEF PsWhere
<1>3. CASE PsHalted(n, r) BY <1>0, <1>3 DEF PsWhere, PsHalted
<1>4. ASSUME NEW t \in PsHaltTodos(r.m), PsAsking(n, r, t) PROVE PsWhere(o, b, r)
  <2>1. PsAsking(o, r, t) BY <1>0, <1>4 DEF PsAsking
  <2> QED BY <2>1 DEF PsWhere
<1>5. CASE PsPulsing(n, r) BY <1>0, <1>5 DEF PsWhere, PsPulsing
<1>6. CASE PsResetting(n, r) BY <1>0, <1>6 DEF PsWhere, PsResetting
<1>7. CASE PsPointing(n, r) BY <1>0, <1>7 DEF PsWhere, PsPointing
<1>8. CASE PsClosing(n, b, r) BY <1>0, <1>8 DEF PsWhere, PsClosing
<1>9. CASE PsRoaming(n, r) BY <1>0, <1>9, SMTT(40) DEF PsWhere, PsRoaming
<1> QED BY <1>1, <1>2, <1>3, <1>4, <1>5, <1>6, <1>7, <1>8, <1>9 DEF PsWhere

\* The places in the wait for a native operation, by what is to do next.
LEMMA PsOwnHeads ==
    ASSUME NEW t \in Seq(PsWords), NEW n, NEW r, PsOwning(n, r, t)
    PROVE  /\ r.todo # <<>>
           /\ \/ Head(r.todo) \in {"PAUSE", "BEGIN"} /\ Tail(r.todo) = <<"admit">> \o PsWait(t) /\ ~PsOpen(n)
              \/ Head(r.todo) = "admit" /\ Tail(r.todo) = PsWait(t) /\ PsAdmitted(n) /\ r.reply = "admitted"
              \/ Head(r.todo) \in {"POLL", "CANCEL"} /\ Tail(r.todo) = PsWait(t) /\ PsAdmitted(n)
              \/ /\ Head(r.todo) = "terminal?" /\ r.todo = PsWait(t) /\ Tail(r.todo) = <<"finish">> \o t /\ PsAdmitted(n)
                 /\ (r.reply = "terminal" => n.op.phase = "terminal")
              \/ Head(r.todo) = "finish" /\ r.todo = <<"finish">> \o t /\ Tail(r.todo) = t /\ ~n.run /\ PsFinishing(n, r)
              \/ Head(r.todo) = "FINISH" /\ Tail(r.todo) = <<"finish">> \o t /\ ~n.run /\ n.op.phase = "terminal"
              \/ /\ Head(r.todo) = "POLL" /\ Tail(r.todo) = <<"finish">> \o t /\ ~n.run
                 /\ n.op.phase \in {"finishing", "finished"}
<1>1. {"PAUSE", "BEGIN", "POLL", "CANCEL", "FINISH"} \subseteq PsWords
  BY DEF PsWords, Ps2!Commands
<1>2. \A c \in {"PAUSE", "BEGIN", "POLL", "CANCEL", "FINISH"} :
         /\ <<c>> \o (<<"admit">> \o PsWait(t)) # <<>> /\ Head(<<c>> \o (<<"admit">> \o PsWait(t))) = c
         /\ Tail(<<c>> \o (<<"admit">> \o PsWait(t))) = <<"admit">> \o PsWait(t)
         /\ <<c>> \o PsWait(t) # <<>> /\ Head(<<c>> \o PsWait(t)) = c /\ Tail(<<c>> \o PsWait(t)) = PsWait(t)
         /\ <<c>> \o (<<"finish">> \o t) # <<>> /\ Head(<<c>> \o (<<"finish">> \o t)) = c
         /\ Tail(<<c>> \o (<<"finish">> \o t)) = <<"finish">> \o t
  BY <1>1, PsWordTypes, PsWaits
<1>3. CASE r.todo \in {<<"PAUSE">> \o (<<"admit">> \o PsWait(t)), <<"BEGIN">> \o (<<"admit">> \o PsWait(t))} /\ ~PsOpen(n)
  BY <1>2, <1>3
<1>4. CASE r.todo = <<"admit">> \o PsWait(t) /\ PsAdmitted(n) /\ r.reply = "admitted"
  BY <1>4, PsWaits
<1>5. CASE r.todo \in {<<"POLL">> \o PsWait(t), <<"CANCEL">> \o PsWait(t)} /\ PsAdmitted(n)
  BY <1>2, <1>5
<1>6. CASE r.todo = PsWait(t) /\ PsAdmitted(n) /\ (r.reply = "terminal" => n.op.phase = "terminal")
  BY <1>6, PsWaits
<1>7. CASE r.todo = <<"finish">> \o t /\ ~n.run /\ PsFinishing(n, r)
  BY <1>7, PsWaits
<1>8. CASE r.todo = <<"FINISH">> \o (<<"finish">> \o t) /\ ~n.run /\ n.op.phase = "terminal"
  BY <1>2, <1>8, SMTT(40)
<1>9. CASE r.todo = <<"POLL">> \o (<<"finish">> \o t) /\ ~n.run /\ n.op.phase \in {"finishing", "finished"}
  BY <1>2, <1>9, ZenonT(60)
<1> QED BY <1>3, <1>4, <1>5, <1>6, <1>7, <1>8, <1>9, ZenonT(60) DEF PsOwning

PsOwnWords == {"PAUSE", "BEGIN", "admit", "POLL", "CANCEL", "terminal?", "finish", "FINISH"}
PsHaltWords == {"BEGIN", "status", "frozen!", "load", "save", "read", "batch", "cards", "idle!", "change_card", "changed!",
                "release", "release_ports", "input"}

LEMMA PsAskHeads ==
    ASSUME NEW m, NEW t \in PsHaltTodos(m), NEW n, NEW r, PsAsking(n, r, t)
    PROVE  /\ r.todo # <<>>
           /\ \/ Head(r.todo) = "status" /\ Tail(r.todo) = <<"frozen!">> \o t
              \/ Head(r.todo) = "frozen!" /\ Tail(r.todo) = t /\ (r.reply = "frozen" => ~n.run)
<1>1. t \in Seq(PsWords) /\ {"status", "frozen!"} \subseteq PsWords
  BY PsHaltPaths DEF PsWords, Ps2!Commands
<1>2. /\ <<"frozen!">> \o t \in Seq(PsWords) /\ <<"frozen!">> \o t # <<>>
      /\ Head(<<"frozen!">> \o t) = "frozen!" /\ Tail(<<"frozen!">> \o t) = t
  BY <1>1, PsWordTypes
<1>3. /\ <<"status">> \o (<<"frozen!">> \o t) # <<>> /\ Head(<<"status">> \o (<<"frozen!">> \o t)) = "status"
      /\ Tail(<<"status">> \o (<<"frozen!">> \o t)) = <<"frozen!">> \o t
  BY <1>1, <1>2, PsWordTypes
<1> QED BY <1>2, <1>3 DEF PsAsking

\* What is to do next tells where a request is.
LEMMA PsHeads ==
    ASSUME NEW n, NEW b, NEW r, PsWhere(n, b, r), r.todo # <<>>
    PROVE  \/ (\E t \in PsReturns(r.m) : PsOwning(n, r, t)) /\ Head(r.todo) \in PsOwnWords
           \/ PsHalted(n, r) /\ Head(r.todo) \in PsHaltWords
           \/ (\E t \in PsHaltTodos(r.m) : PsAsking(n, r, t)) /\ Head(r.todo) \in {"status", "frozen!"}
           \/ PsPulsing(n, r) /\ Head(r.todo) \in {"press", "pulse", "input", "released!", "status", "read", "rate"}
           \/ PsResetting(n, r) /\ Head(r.todo) = "reset"
           \/ PsPointing(n, r) /\ Head(r.todo) \in {"set_point", "added", "clear_point", "removed"}
           \/ PsClosing(n, b, r) /\ Head(r.todo) = "close"
           \/ PsRoaming(n, r) /\ Head(r.todo) \in PsPlain
<1>1. ~PsResting(n, b, r) BY DEF PsResting
<1>2. ASSUME NEW t \in PsReturns(r.m), PsOwning(n, r, t) PROVE Head(r.todo) \in PsOwnWords
  BY <1>2, PsReturning, PsOwnHeads DEF PsOwnWords
<1>3. CASE PsHalted(n, r)
  <2>1. r.todo \in PsHaltTodos(r.m) BY <1>3 DEF PsHalted
  <2>2. Head(r.todo) \in PsHaltWords
    <3>1. CASE r.todo = PsProbeStep BY <3>1, PsProbes DEF PsHaltWords
    <3>2. CASE r.todo \in {<<"release_ports", "close">>, <<"input", "close">>} BY <3>2, PsLiterals DEF PsHaltWords
    <3>3. CASE Head(r.todo) \in {"status", "frozen!", "load", "save", "read", "batch", "cards", "idle!", "change_card",
                                 "changed!", "release"}
      BY <3>3 DEF PsHaltWords
    <3> QED BY <2>1, <3>1, <3>2, <3>3, PsHaltPaths
  <2> QED BY <1>3, <2>2
<1>4. ASSUME NEW t \in PsHaltTodos(r.m), PsAsking(n, r, t) PROVE Head(r.todo) \in {"status", "frozen!"}
  BY <1>4, PsAskHeads
<1>5. CASE PsPulsing(n, r)
  <2>1. r.todo \in {<<"press", "pulse", "input", "released!">>, <<"pulse", "input", "released!">>, <<"input", "released!">>, <<"released!">>,
                    <<"status">>, <<"read", "rate", "status">>, <<"rate", "status">>}
    BY <1>5 DEF PsPulsing
  <2> QED BY <1>5, <2>1, PsLiterals
<1>6. CASE PsResetting(n, r) BY <1>6, PsLiterals DEF PsResetting
<1>7. CASE PsPointing(n, r)
  <2>1. r.todo \in {<<"set_point", "added">>, <<"added">>, <<"clear_point", "removed">>, <<"removed">>}
    BY <1>7 DEF PsPointing
  <2> QED BY <1>7, <2>1, PsLiterals
<1>8. CASE PsClosing(n, b, r) BY <1>8, PsLiterals DEF PsClosing
<1>9. CASE PsRoaming(n, r)
  <2>1. r.todo \in Seq(PsPlain) BY <1>9 DEF PsRoaming
  <2>2. Head(r.todo) \in PsPlain BY <2>1, HeadTailProperties
  <2> QED BY <1>9, <2>2
<1> QED BY <1>1, <1>2, <1>3, <1>4, <1>5, <1>6, <1>7, <1>8, <1>9 DEF PsWhere

\* Only requests that set or clear the breakpoint have to note it.
LEMMA PsUnnoted ==
    ASSUME NEW n, NEW b, NEW r, PsWhere(n, b, r), r.m \notin {"set_breakpoint", "clear_breakpoint"}
    PROVE  ~PsAt(r, "added") /\ ~PsAt(r, "removed")
<1>1. ~PsPointing(n, r) BY DEF PsPointing
<1>2. r.todo # <<>> => Head(r.todo) \notin {"added", "removed"}
  BY <1>1, PsHeads DEF PsOwnWords, PsHaltWords, PsPlain
<1> QED BY <1>2 DEF PsAt

LEMMA PsIsPointing ==
    ASSUME NEW n, NEW b, NEW r, PsWhere(n, b, r), r.m \in {"set_breakpoint", "clear_breakpoint"}
    PROVE  PsPointing(n, r)
<1>1. PsReturns(r.m) = {} /\ PsHaltTodos(r.m) = {}
  BY PsReturning, PsHaltPaths
<1> QED BY <1>1 DEF PsWhere, PsResting, PsHalted, PsPulsing, PsResetting, PsClosing, PsRoaming

LEMMA PsArmedStill ==
    ASSUME NEW n, NEW o, NEW b, NEW c, NEW r, NEW s, PsWhere(n, b, r), PsWhere(o, c, s), PsArmed(n, b, r),
           {r.m, s.m} \cap {"set_breakpoint", "clear_breakpoint"} = {}, o.point = n.point, c.bp = b.bp
    PROVE  PsArmed(o, c, s)
<1>1. ~PsAt(r, "added") /\ ~PsAt(r, "removed") BY PsUnnoted
<1>2. ~PsAt(s, "added") /\ ~PsAt(s, "removed") BY PsUnnoted
<1> QED BY <1>1, <1>2 DEF PsArmed

\* A request that is not about an operation finds none.
LEMMA PsQuiet ==
    ASSUME NEW n, NEW b, NEW r, PsWhere(n, b, r), r.todo # <<>> => Head(r.todo) \notin PsOwnWords
    PROVE  ~PsOpen(n)
<1>1. ASSUME NEW t \in PsReturns(r.m), PsOwning(n, r, t) PROVE FALSE
  <2>1. r.todo # <<>> /\ Head(r.todo) \in PsOwnWords
    BY <1>1, PsReturning, PsOwnHeads DEF PsOwnWords
  <2> QED BY <2>1
<1> QED BY <1>1 DEF PsWhere, PsResting, PsHalted, PsAsking, PsPulsing, PsResetting, PsPointing, PsClosing, PsRoaming

\* A command that is answered takes the request to its next place.
LEMMA PsReplied ==
    ASSUME NEW n, NEW o, NEW b, NEW r, NEW s, NEW a, PsWhere(n, b, r), r.todo # <<>>, Head(r.todo) \in Ps2!Commands,
           PsEffect(Head(r.todo), n, o, a), a # "rejected",
           s.m = r.m, s.todo = Tail(r.todo), s.reply = a, s.answer = r.answer,
           s.was = IF Head(r.todo) \in {"press", "pulse"} THEN a ELSE r.was
    PROVE  PsWhere(o, b, s)
<1> DEFINE q == Head(r.todo)
<1>0. q \in Ps2!Commands OBVIOUS
<1>1. ASSUME NEW t \in PsReturns(r.m), PsOwning(n, r, t) PROVE PsWhere(o, b, s)
  <2>1. t \in Seq(PsWords) BY PsReturning
  <2>2. q \notin {"admit", "terminal?", "finish"} BY <1>0 DEF Ps2!Commands
  <2>3. CASE q \in {"PAUSE", "BEGIN"} /\ Tail(r.todo) = <<"admit">> \o PsWait(t)
    <3>1. o.op.phase = "admitted" /\ a = "admitted" BY <2>3 DEF PsEffect
    <3>2. PsOwning(o, s, t) BY <2>3, <3>1 DEF PsOwning, PsAdmitted
    <3> QED BY <3>2 DEF PsWhere
  <2>4. CASE q \in {"POLL", "CANCEL"} /\ Tail(r.todo) = PsWait(t) /\ PsAdmitted(n)
    <3>1. a = n.op.phase /\ o.op.phase = n.op.phase /\ o.run = n.run BY <2>4 DEF PsEffect
    <3>2. PsOwning(o, s, t) BY <2>4, <3>1 DEF PsOwning, PsAdmitted
    <3> QED BY <3>2 DEF PsWhere
  <2>5. CASE q = "FINISH" /\ Tail(r.todo) = <<"finish">> \o t /\ ~n.run
    <3>1. a \in {"finishing", "finished"} /\ o.op.phase = a /\ ~o.run BY <2>5 DEF PsEffect
    <3>2. PsOwning(o, s, t) BY <2>5, <3>1 DEF PsOwning, PsFinishing
    <3> QED BY <3>2 DEF PsWhere
  <2>6. CASE q = "POLL" /\ Tail(r.todo) = <<"finish">> \o t /\ ~n.run /\ n.op.phase \in {"finishing", "finished"}
    <3>1. a = n.op.phase /\ o.op.phase = n.op.phase /\ o.run = n.run BY <2>6 DEF PsEffect
    <3>2. PsOwning(o, s, t) BY <2>6, <3>1 DEF PsOwning, PsFinishing
    <3> QED BY <3>2 DEF PsWhere
  <2> QED BY <1>1, <2>1, <2>2, <2>3, <2>4, <2>5, <2>6, PsOwnHeads
<1>2. CASE PsHalted(n, r)
  <2>1. r.todo \in PsHaltTodos(r.m) /\ ~PsOpen(n) /\ ~n.run /\ (r.todo = <<"input", "close">> => ~n.keys)
    BY <1>2 DEF PsHalted
  <2>2. CASE r.todo = PsProbeStep /\ r.m = "probe"
    <3>1. q = "BEGIN" /\ Tail(r.todo) = <<"admit">> \o PsWait(<<"read">>) BY <2>2, PsProbes
    <3>2. o.op.phase = "admitted" /\ a = "admitted" BY <3>1 DEF PsEffect
    <3>3. PsOwning(o, s, <<"read">>) BY <3>1, <3>2 DEF PsOwning, PsAdmitted
    <3>4. <<"read">> \in PsReturns(s.m) BY <2>2 DEF PsReturns
    <3> QED BY <3>3, <3>4 DEF PsWhere
  <2>3. CASE r.todo = <<"release_ports", "close">>
    BY <1>0, <2>3, PsLiterals DEF Ps2!Commands
  <2>4. CASE r.todo = <<"input", "close">> /\ r.m = "finish"
    <3>1. q = "input" /\ Tail(r.todo) = <<"close">> BY <2>4, PsLiterals
    <3>2. ~PsOpen(o) /\ ~o.run /\ ~o.keys BY <2>1, <2>4, <3>1 DEF PsEffect
    <3>3. PsClosing(o, b, s) BY <2>4, <3>1, <3>2 DEF PsClosing
    <3> QED BY <3>3 DEF PsWhere
  <2>5. CASE /\ Tail(r.todo) \in PsHaltTodos(r.m)
             /\ q \in {"status", "frozen!", "load", "save", "read", "batch", "cards", "idle!", "change_card", "changed!", "release"}
             /\ Tail(r.todo) = <<"input", "close">> => q = "release"
    <3>1. ~PsOpen(o) /\ ~o.run /\ (q = "release" => ~o.keys) BY <2>1, <2>5 DEF PsEffect
    <3>2. PsHalted(o, s) BY <2>5, <3>1 DEF PsHalted
    <3> QED BY <3>2 DEF PsWhere
  <2> QED BY <2>1, <2>2, <2>3, <2>4, <2>5, PsHaltPaths
<1>3. ASSUME NEW t \in PsHaltTodos(r.m), PsAsking(n, r, t) PROVE PsWhere(o, b, s)
  <2>1. q = "status" /\ Tail(r.todo) = <<"frozen!">> \o t
    BY <1>0, <1>3, PsAskHeads DEF Ps2!Commands
  <2>2. o = n /\ (a = "frozen" => ~n.run) BY <2>1 DEF PsEffect
  <2>3. PsAsking(o, s, t) BY <1>3, <2>1, <2>2 DEF PsAsking
  <2> QED BY <2>3 DEF PsWhere
<1>4. CASE PsPulsing(n, r)
  <2>0. ~PsOpen(n) /\ s.m = r.m BY <1>4 DEF PsPulsing
  <2>1. CASE r.m = "speed" /\ r.todo = <<"status">>
    <3>1. q = "status" /\ s.todo = <<>> BY <2>1, PsLiterals
    <3>2. o = n /\ (a = "frozen" => ~n.run) BY <3>1 DEF PsEffect
    <3>3. PsPulsing(o, s) BY <2>0, <2>1, <3>1, <3>2 DEF PsPulsing
    <3> QED BY <3>3 DEF PsWhere
  <2>2. CASE r.m = "speed" /\ r.todo \in {<<"read", "rate", "status">>, <<"rate", "status">>}
    <3>1. s.todo \in {<<"rate", "status">>, <<"status">>} /\ q \in {"read", "rate"} BY <2>2, PsLiterals
    <3>2. ~PsOpen(o) BY <2>0, <3>1 DEF PsEffect
    <3>3. PsPulsing(o, s) BY <2>0, <2>2, <3>1, <3>2 DEF PsPulsing
    <3> QED BY <3>3 DEF PsWhere
  <2>3. CASE r.m = "press" /\ r.todo = <<"press", "pulse", "input", "released!">>
    <3>1. s.todo = <<"pulse", "input", "released!">> /\ q = "press" BY <2>3, PsLiterals
    <3>2. ~PsOpen(o) BY <2>0, <3>1 DEF PsEffect
    <3>3. PsPulsing(o, s) BY <2>0, <2>3, <3>1, <3>2 DEF PsPulsing
    <3> QED BY <3>3 DEF PsWhere
  <2>4. CASE r.m = "press" /\ r.todo = <<"pulse", "input", "released!">>
    <3>1. s.todo = <<"input", "released!">> /\ q = "pulse" BY <2>4, PsLiterals
    <3>2. ~PsOpen(o) /\ (s.was = "frozen" => ~o.run) BY <2>0, <3>1 DEF PsEffect
    <3>3. PsPulsing(o, s) BY <2>0, <2>4, <3>1, <3>2 DEF PsPulsing
    <3> QED BY <3>3 DEF PsWhere
  <2>5. CASE r.m = "press" /\ r.todo = <<"input", "released!">> /\ (r.was = "frozen" => ~n.run)
    <3>1. s.todo = <<"released!">> /\ q = "input" BY <2>5, PsLiterals
    <3>2. ~PsOpen(o) /\ (s.was = "frozen" => ~o.run) BY <2>0, <2>5, <3>1 DEF PsEffect
    <3>3. PsPulsing(o, s) BY <2>0, <2>5, <3>1, <3>2 DEF PsPulsing
    <3> QED BY <3>3 DEF PsWhere
  <2>6. r.todo # <<"released!">>
    <3>1. "released!" \notin Ps2!Commands BY DEF Ps2!Commands
    <3> QED BY <1>0, <3>1, PsLiterals
  <2> QED BY <1>4, <2>1, <2>2, <2>3, <2>4, <2>5, <2>6 DEF PsPulsing
<1>5. CASE PsResetting(n, r)
  <2>1. q = "reset" /\ s.todo = <<>> /\ s.m = "reset" BY <1>5, PsLiterals DEF PsResetting
  <2>2. ~PsOpen(o) /\ ~o.run BY <1>5, <2>1 DEF PsEffect, PsResetting
  <2>3. <<>> \in PsHaltTodos("reset") /\ <<>> # <<"input", "close">> BY PsLiterals DEF PsHaltTodos
  <2>4. PsHalted(o, s) BY <2>1, <2>2, <2>3 DEF PsHalted
  <2> QED BY <2>4 DEF PsWhere
<1>6. CASE PsPointing(n, r)
  <2>1. ~PsOpen(n) /\ q \notin {"added", "removed"} BY <1>0, <1>6 DEF PsPointing, Ps2!Commands
  <2>2. \/ r.m = "set_breakpoint" /\ q = "set_point" /\ s.todo = <<"added">>
        \/ r.m = "clear_breakpoint" /\ q = "clear_point" /\ s.todo = <<"removed">>
    BY <1>6, <2>1, PsLiterals DEF PsPointing
  <2>3. ~PsOpen(o) BY <2>1, <2>2 DEF PsEffect
  <2>4. PsPointing(o, s) BY <2>2, <2>3 DEF PsPointing
  <2> QED BY <2>4 DEF PsWhere
<1>7. CASE PsClosing(n, b, r)
  BY <1>0, <1>7, PsLiterals DEF PsClosing, Ps2!Commands
<1>8. CASE PsRoaming(n, r)
  <2>1. r.todo \in Seq(PsPlain) /\ ~PsOpen(n) BY <1>8 DEF PsRoaming
  <2>2. q \in PsPlain /\ s.todo \in Seq(PsPlain) BY <2>1, HeadTailProperties
  <2>3. ~PsOpen(o) BY <2>1, <2>2 DEF PsEffect, PsPlain
  <2>4. PsRoaming(o, s) BY <1>8, <2>2, <2>3 DEF PsRoaming
  <2> QED BY <2>4 DEF PsWhere
<1> QED BY <1>1, <1>2, <1>3, <1>4, <1>5, <1>6, <1>7, <1>8, PsHeads

-----------------------------------------------------------------------------
(* Where a request begins *)

\* The scripts that wait for an operation.
LEMMA PsOwnedForms ==
    ASSUME NEW t \in Seq(PsWords)
    PROVE  /\ Ps2!VerifyOwnedPause \o t = <<"PAUSE">> \o (<<"admit">> \o PsWait(t))
           /\ Ps2!OwnedFrameStep \o t = <<"BEGIN">> \o (<<"admit">> \o PsWait(t))
           /\ Ps2!RequireFrozen \o t = <<"status">> \o (<<"frozen!">> \o t)
           /\ Ps2!VerifyOwnedPause \in Seq(PsWords) /\ Ps2!OwnedFrameStep \in Seq(PsWords) /\ Ps2!RequireFrozen \in Seq(PsWords)
<1>1. /\ "PAUSE" \in PsWords /\ "BEGIN" \in PsWords /\ "admit" \in PsWords /\ "terminal?" \in PsWords
      /\ "finish" \in PsWords /\ "status" \in PsWords /\ "frozen!" \in PsWords
  BY DEF PsWords, Ps2!Commands
<1>2. \A x : x = <<"PAUSE", "admit", "terminal?", "finish">> =>
               x \o t = <<"PAUSE">> \o (<<"admit">> \o (<<"terminal?">> \o (<<"finish">> \o t)))
  BY <1>1, Spread4, SMTT(40)
<1>3. \A x : x = <<"BEGIN", "admit", "terminal?", "finish">> =>
               x \o t = <<"BEGIN">> \o (<<"admit">> \o (<<"terminal?">> \o (<<"finish">> \o t)))
  BY <1>1, Spread4, SMTT(40)
<1>4. \A x : x = <<"status", "frozen!">> => x \o t = <<"status">> \o (<<"frozen!">> \o t)
  BY <1>1, Spread2, SMT
<1>5. /\ <<"PAUSE", "admit", "terminal?", "finish">> \in Seq(PsWords)
  BY <1>1
<1>6. /\ <<"BEGIN", "admit", "terminal?", "finish">> \in Seq(PsWords)
  BY <1>1
<1>7. <<"status", "frozen!">> \in Seq(PsWords)
  BY <1>1
<1> QED BY <1>2, <1>3, <1>4, <1>5, <1>6, <1>7 DEF Ps2!VerifyOwnedPause, Ps2!OwnedFrameStep, Ps2!RequireFrozen, PsWait

LEMMA PsProbeForm == Ps2!Probe = <<"PAUSE">> \o (<<"admit">> \o PsWait(PsProbe))
<1> DEFINE V == Ps2!VerifyOwnedPause
           R == Ps2!RequireFrozen
           O == Ps2!OwnedFrameStep
           L == <<"load">>
           E == <<"read">>
<1>1. V \in Seq(PsWords) /\ R \in Seq(PsWords) /\ O \in Seq(PsWords) /\ L \in Seq(PsWords) /\ E \in Seq(PsWords)
  BY PsOwnedForms, PsLiterals
<1>2. /\ O \o E \in Seq(PsWords) /\ L \o (O \o E) \in Seq(PsWords) /\ R \o (L \o (O \o E)) \in Seq(PsWords)
  <2>1. O \o E \in Seq(PsWords) BY <1>1, ConcatProperties
  <2>2. L \o (O \o E) \in Seq(PsWords) BY <1>1, <2>1, ConcatProperties
  <2> QED BY <1>1, <2>1, <2>2, ConcatProperties
<1>3. V \o R \in Seq(PsWords) /\ (V \o R) \o L \in Seq(PsWords)
  <2>1. V \o R \in Seq(PsWords) BY <1>1, ConcatProperties
  <2> QED BY <1>1, <2>1, ConcatProperties
<1>4. (((V \o R) \o L) \o O) \o E = V \o (R \o (L \o (O \o E)))
  <2>1. (((V \o R) \o L) \o O) \o E = ((V \o R) \o L) \o (O \o E) BY <1>1, <1>3, ConcatAssociative, SMTT(40)
  <2>2. ((V \o R) \o L) \o (O \o E) = (V \o R) \o (L \o (O \o E)) BY <1>1, <1>2, <1>3, ConcatAssociative, SMTT(40)
  <2>3. (V \o R) \o (L \o (O \o E)) = V \o (R \o (L \o (O \o E))) BY <1>1, <1>2, ConcatAssociative, SMTT(40)
  <2> QED BY <2>1, <2>2, <2>3
<1>5. O \o E = PsProbeStep BY <1>1, PsOwnedForms DEF PsProbeStep
<1>6. L \o (O \o E) = PsProbeLoad BY <1>5 DEF PsProbeLoad
<1>7. R \o (L \o (O \o E)) = PsProbe
  <2>1. R \o PsProbeLoad = <<"status">> \o (<<"frozen!">> \o PsProbeLoad) BY PsProbes, PsOwnedForms
  <2> QED BY <1>6, <2>1 DEF PsProbe, PsProbeAsked
<1>8. V \o PsProbe = <<"PAUSE">> \o (<<"admit">> \o PsWait(PsProbe)) BY PsProbes, PsOwnedForms
<1>9. Ps2!Probe = (((V \o R) \o L) \o O) \o E BY DEF Ps2!Probe
<1> QED BY <1>4, <1>7, <1>8, <1>9

LEMMA PsBegins ==
    ASSUME NEW m \in Ps2!Methods, NEW n, NEW b, NEW r, ~PsOpen(n), r.m = m, r.todo = Ps2!Script(m)
    PROVE  PsWhere(n, b, r) /\ r.todo \in Seq(PsWords)
<1>0. \A t \in Seq(PsWords) : /\ <<"PAUSE">> \o (<<"admit">> \o PsWait(t)) \in Seq(PsWords)
                              /\ <<"BEGIN">> \o (<<"admit">> \o PsWait(t)) \in Seq(PsWords)
                              /\ <<"status">> \o (<<"frozen!">> \o t) \in Seq(PsWords)
  <2>1. {"PAUSE", "BEGIN", "status", "frozen!"} \subseteq PsWords BY DEF PsWords, Ps2!Commands
  <2> QED BY <2>1, PsWordTypes, PsWaits
<1>1. ASSUME NEW t \in PsReturns(m), r.todo \in {<<"PAUSE">> \o (<<"admit">> \o PsWait(t)), <<"BEGIN">> \o (<<"admit">> \o PsWait(t))}
      PROVE  PsWhere(n, b, r) /\ r.todo \in Seq(PsWords)
  <2>1. PsOwning(n, r, t) BY <1>1 DEF PsOwning
  <2> QED BY <1>0, <1>1, <2>1, PsReturning DEF PsWhere
<1>2. ASSUME NEW t \in PsHaltTodos(m), r.todo = <<"status">> \o (<<"frozen!">> \o t),
             m \in {"load", "save", "call_stack", "batch", "media"}
      PROVE  PsWhere(n, b, r) /\ r.todo \in Seq(PsWords)
  <2>1. PsAsking(n, r, t) BY <1>2 DEF PsAsking
  <2>2. t \in Seq(PsWords) BY PsHaltPaths
  <2>3. r.todo \in Seq(PsWords) BY <1>0, <1>2, <2>2
  <2> QED BY <2>1, <2>3 DEF PsWhere
<1>3. CASE m \in {"pause", "step"}
  <2>1. <<>> \in PsReturns(m) /\ <<>> \in Seq(PsWords) BY <1>3, EmptySeq DEF PsReturns
  <2>2. Ps2!VerifyOwnedPause \in Seq(PsWords) /\ Ps2!OwnedFrameStep \in Seq(PsWords) BY <2>1, PsOwnedForms
  <2>3. Ps2!VerifyOwnedPause = Ps2!VerifyOwnedPause \o <<>> /\ Ps2!OwnedFrameStep = Ps2!OwnedFrameStep \o <<>>
    BY <2>2, ConcatEmptySeq
  <2>4. r.todo = Ps2!VerifyOwnedPause \/ r.todo = Ps2!OwnedFrameStep BY <1>3 DEF Ps2!Script
  <2> QED BY <1>1, <2>1, <2>3, <2>4, PsOwnedForms
<1>4. CASE m = "probe"
  <2>1. r.todo = Ps2!Probe /\ PsProbe \in PsReturns(m) BY <1>4 DEF Ps2!Script, PsReturns
  <2> QED BY <1>1, <2>1, PsProbeForm
<1>5. CASE m \in {"load", "save", "call_stack", "batch", "media"}
  <2>1. PICK t \in PsHaltTodos(m) : r.todo = Ps2!RequireFrozen \o t
    BY <1>5 DEF Ps2!Script, Ps2!ReadMemoryBatch, Ps2!ChangeMedia, PsHaltTodos
  <2>2. t \in Seq(PsWords) BY PsHaltPaths
  <2> QED BY <1>2, <1>5, <2>1, <2>2, PsOwnedForms
<1>6. CASE m \in {"press", "speed"}
  <2>1. \/ m = "press" /\ r.todo = <<"press", "pulse", "input", "released!">>
        \/ m = "speed" /\ r.todo = <<"read", "rate", "status">>
    BY <1>6 DEF Ps2!Script, Ps2!PressButtons, Ps2!ExecutionSpeed
  <2>2. PsPulsing(n, r) BY <1>6, <2>1 DEF PsPulsing
  <2> QED BY <2>1, <2>2, PsLiterals DEF PsWhere
<1>7. CASE m = "reset"
  <2>1. r.todo = <<"reset">> BY <1>7 DEF Ps2!Script
  <2> QED BY <1>7, <2>1, PsLiterals DEF PsWhere, PsResetting
<1>8. CASE m = "set_breakpoint"
  <2>1. r.todo = <<"set_point", "added">> BY <1>8 DEF Ps2!Script, Ps2!SetBreakpoint
  <2>2. PsPointing(n, r) BY <1>8, <2>1 DEF PsPointing
  <2> QED BY <2>1, <2>2, PsLiterals DEF PsWhere
<1>9. CASE m = "clear_breakpoint"
  <2>1. r.todo = <<"clear_point", "removed">> BY <1>9 DEF Ps2!Script, Ps2!ClearBreakpoint
  <2>2. PsPointing(n, r) BY <1>9, <2>1 DEF PsPointing
  <2> QED BY <2>1, <2>2, PsLiterals DEF PsWhere
<1>10. CASE m \in {"find_pattern", "status", "resume", "read", "set_input", "poll"}
  <2>1. r.todo \in Seq(PsPlain)
    <3>1. /\ "status" \in PsPlain /\ "halt_if_running" \in PsPlain /\ "scan" \in PsPlain /\ "as_it_was" \in PsPlain
          /\ "resume" \in PsPlain /\ "read" \in PsPlain /\ "input" \in PsPlain /\ "cards" \in PsPlain
          /\ "hold" \in PsPlain /\ "events" \in PsPlain
      BY DEF PsPlain
    <3>2. CASE m = "find_pattern"
      <4>1. r.todo = <<"status", "halt_if_running", "scan", "as_it_was">> BY <3>2 DEF Ps2!Script, Ps2!FindPattern
      <4> QED BY <3>1, <4>1
    <3>3. CASE m = "status"
      <4>1. r.todo = <<"status", "read", "input", "cards", "read">> BY <3>3 DEF Ps2!Script, Ps2!Status
      <4> QED BY <3>1, <4>1
    <3>4. CASE m \in {"resume", "read", "set_input", "poll"}
      <4>1. PICK c \in PsPlain : r.todo = <<c>> BY <3>1, <3>4 DEF Ps2!Script
      <4> QED BY <4>1, SMTT(40)
    <3> QED BY <1>10, <3>2, <3>3, <3>4
  <2>2. PsRoaming(n, r) BY <1>10, <2>1 DEF PsRoaming
  <2>3. PsPlain \subseteq PsWords BY DEF PsPlain, PsWords, Ps2!Commands
  <2> QED BY <2>1, <2>2, <2>3, SeqMonotonic DEF PsWhere
<1> QED BY <1>3, <1>4, <1>5, <1>6, <1>7, <1>8, <1>9, <1>10 DEF Ps2!Methods, Ps2!ParentMethods, Ps2!Reads

-----------------------------------------------------------------------------
(* The steps of the bridge *)

LEMMA PsAtRest ==
    ASSUME NEW n, NEW b, NEW r, PsWhere(n, b, r), r.m = "idle"
    PROVE  PsResting(n, b, r)
<1>1. PsReturns(r.m) = {} /\ PsHaltTodos(r.m) = {}
  BY PsReturning, PsHaltPaths
<1> QED BY <1>1 DEF PsWhere, PsHalted, PsPulsing, PsResetting, PsPointing, PsClosing, PsRoaming

\* What the invariant says of a stream that is not retired.
LEMMA PsLive ==
    ASSUME PsInv, ~bridge.terminal
    PROVE  /\ native \in PsNatives /\ bridge \in PsBridges /\ req \in PsReqs
           /\ PsWhere(native, bridge, req) /\ PsArmed(native, bridge, req)
           /\ native.hits \in Nat /\ native.events \in Nat /\ bridge.told \in Nat /\ native.hits = bridge.told + native.events
           /\ bridge.stop = bridge.due /\ bridge.due \in {"none", "set", "past"} /\ req.reply \in PsReplies
           /\ req.todo \in Seq(PsWords) /\ (req.m # "idle" => req.answer = "none") /\ (req.answer = "clean" => bridge.due = "none")
<1>1. native \in PsNatives /\ bridge \in PsBridges /\ req \in PsReqs
  BY DEF PsInv, PsTypeOK
<1> QED BY <1>1 DEF PsInv, PsGood, PsAlive, PsAnswers, PsBudget, PsNatives, PsBridges, PsReqs

LEMMA PsStays ==
    ASSUME native' \in PsNatives, bridge' \in PsBridges, req' \in PsReqs, ~bridge'.terminal,
           PsWhere(native', bridge', req'), PsArmed(native', bridge', req'), native'.hits = bridge'.told + native'.events,
           req'.m # "idle" => req'.answer = "none", bridge'.stop = bridge'.due, req'.answer = "clean" => bridge'.due = "none"
    PROVE  PsInv'
BY DEF PsInv, PsTypeOK, PsGood, PsAlive, PsAnswers, PsBudget

LEMMA PsRetires ==
    ASSUME PsInv, native' \in PsNatives, Ps2!Retired
    PROVE  PsInv'
<1>1. bridge \in PsBridges /\ bridge.stop = bridge.due
  BY DEF PsInv, PsTypeOK, PsGood, PsBudget
<1>2. bridge' \in PsBridges /\ bridge'.terminal /\ bridge'.stop = bridge'.due
  BY <1>1 DEF Ps2!Retired, PsBridges
<1>3. req' = Ps2!Idle("error")
  BY DEF Ps2!Retired, Ps2!Answer
<1>4. req' \in PsReqs /\ req'.m = "idle" /\ req'.answer = "error"
  <2>1. <<>> \in Seq(PsWords) BY PsWordTypes
  <2> QED BY <1>3, <2>1 DEF Ps2!Idle, PsReqs, PsReplies
<1> QED BY <1>2, <1>3, <1>4 DEF PsInv, PsTypeOK, PsGood, PsAlive, PsAnswers, PsBudget

LEMMA PsIdles ==
    ASSUME NEW a \in {"none", "error", "ok", "frozen", "clean", "changed"}
    PROVE  LET i == Ps2!Idle(a) IN i \in PsReqs /\ i.m = "idle" /\ i.todo = <<>> /\ i.answer = a
<1>1. <<>> \in Seq(PsWords) BY PsWordTypes
<1> QED BY <1>1 DEF Ps2!Idle, PsReqs, PsReplies

\* The bridge answers and nothing else changes.
LEMMA PsAnswered ==
    ASSUME PsInv, ~bridge.terminal, UNCHANGED bridge, NEW a \in {"error", "ok", "frozen", "changed"}, Ps2!Answer(a),
           native' \in PsNatives, native'.point = native.point, native'.hits = native.hits, native'.events = native.events,
           ~PsOpen(native'), a \in {"frozen", "changed"} => ~native'.run, ~PsAt(req, "added"), ~PsAt(req, "removed")
    PROVE  PsInv'
<1>1. req' \in PsReqs /\ req'.m = "idle" /\ req'.todo = <<>> /\ req'.answer = a
  BY PsIdles DEF Ps2!Answer
<1>2. PsWhere(native', bridge', req')
  <2>1. PsResting(native', bridge', req') BY <1>1 DEF PsResting
  <2> QED BY <2>1 DEF PsWhere
<1>3. PsArmed(native', bridge', req')
  BY <1>1, PsLive DEF PsArmed, PsAt
<1> QED BY <1>1, <1>2, <1>3, PsLive, PsStays

\* A request that has no operation goes on.
LEMMA PsGoesOn ==
    ASSUME PsInv, ~bridge.terminal, UNCHANGED <<native, bridge>>, req.m \notin {"idle", "set_breakpoint", "clear_breakpoint"},
           req'.m = req.m, req'.answer = req.answer, req' \in PsReqs, PsWhere(native, bridge, req')
    PROVE  PsInv'
<1>1. PsWhere(native', bridge', req') OBVIOUS
<1>2. PsArmed(native', bridge', req')
  BY <1>1, PsLive, PsArmedStill
<1> QED BY <1>1, <1>2, PsLive, PsStays

LEMMA PsDue ==
    ASSUME NEW b \in PsBridges, b.stop = b.due
    PROVE  LET c == Ps2!Due(Ps2!FirstBudget(b)) IN
           /\ c \in PsBridges /\ c.stop = c.due /\ c.terminal = b.terminal /\ c.port = b.port /\ c.effects = b.effects
           /\ c.bp = b.bp /\ c.told = b.told
<1>1. b.stop \in {"none", "set", "past"} /\ b.due \in {"none", "set", "past"} BY DEF PsBridges
<1>2. PICK s \in {"none", "set", "past"} : s = IF b.stop = "none" THEN "set" ELSE b.stop BY <1>1
<1>3. Ps2!FirstBudget(b) = [b EXCEPT !.stop = s]
  BY <1>2 DEF Ps2!FirstBudget, PsBridges
<1>4. Ps2!Due(Ps2!FirstBudget(b)) = [b EXCEPT !.stop = s, !.due = s]
  BY <1>2, <1>3 DEF Ps2!Due, PsBridges
<1> QED BY <1>4 DEF PsBridges

LEMMA PsBegin ==
    ASSUME PsInv, NEW m \in Ps2!Methods, NEW k \in Cards \cup {"none"}, Ps2!Begin(m, k)
    PROVE  PsInv'
<1>0. req.m = "idle" /\ ~bridge.terminal /\ native' = native
  BY DEF Ps2!Begin
<1>1. ~PsOpen(native) /\ req.todo = <<>>
  BY <1>0, PsLive, PsAtRest DEF PsResting
<1>2. /\ bridge' \in PsBridges /\ ~bridge'.terminal /\ bridge'.stop = bridge.stop /\ bridge'.due = bridge.due
      /\ bridge'.bp = bridge.bp /\ bridge'.told = bridge.told
  <2>1. bridge \in PsBridges /\ bridge.reqs + 1 \in Nat BY <1>0, PsLive DEF PsBridges
  <2>2. PICK q \in Nat, e \in BOOLEAN, p \in BOOLEAN : bridge' = [bridge EXCEPT !.reqs = q, !.effects = e, !.port = p]
    BY <2>1 DEF Ps2!Begin, PsBridges
  <2> QED BY <1>0, <2>1, <2>2 DEF PsBridges
<1>3. req'.m = m /\ req'.todo = Ps2!Script(m) /\ req'.answer = "none"
  BY DEF Ps2!Begin, Ps2!Idle
<1>4. PsWhere(native', bridge', req') /\ req'.todo \in Seq(PsWords)
  BY <1>0, <1>1, <1>3, PsBegins
<1>5. req' \in PsReqs
  <2>1. PICK s \in Seq(PsWords) : s = Ps2!Script(m) BY <1>3, <1>4
  <2>2. req' = [Ps2!Idle("none") EXCEPT !.m = m, !.todo = s, !.card = k] BY <2>1 DEF Ps2!Begin
  <2> QED BY <2>2, PsIdles DEF PsReqs
<1>6. ~PsAt(req', "added") /\ ~PsAt(req', "removed")
  <2>1. CASE m = "set_breakpoint"
    BY <1>3, <2>1, PsLiterals DEF PsAt, Ps2!Script, Ps2!SetBreakpoint
  <2>2. CASE m = "clear_breakpoint"
    BY <1>3, <2>2, PsLiterals DEF PsAt, Ps2!Script, Ps2!ClearBreakpoint
  <2> QED BY <1>3, <1>4, <2>1, <2>2, PsUnnoted
<1>7. PsArmed(native', bridge', req')
  BY <1>0, <1>1, <1>2, <1>6, PsLive DEF PsArmed, PsAt
<1> QED BY <1>0, <1>2, <1>3, <1>4, <1>5, <1>7, PsLive, PsStays

LEMMA PsBeginParent ==
    ASSUME PsInv, Ps2!BeginParent
    PROVE  PsInv'
<1>0. req.m = "idle" /\ ~bridge.terminal /\ native' = native /\ req' = req
  BY DEF Ps2!BeginParent
<1>1. PsResting(native, bridge, req) /\ req.todo = <<>>
  BY <1>0, PsLive, PsAtRest DEF PsResting
<1>2. /\ bridge' \in PsBridges /\ ~bridge'.terminal /\ bridge'.stop = "none" /\ bridge'.due = "none"
      /\ bridge'.bp = bridge.bp /\ bridge'.told = bridge.told /\ ~bridge'.port
  <2>1. bridge \in PsBridges /\ bridge.reqs + 1 \in Nat BY <1>0, PsLive DEF PsBridges
  <2> QED BY <1>0, <2>1 DEF PsBridges, Ps2!BeginParent
<1>3. PsWhere(native', bridge', req')
  <2>1. PsResting(native', bridge', req') BY <1>0, <1>1, <1>2 DEF PsResting
  <2> QED BY <2>1 DEF PsWhere
<1>4. PsArmed(native', bridge', req')
  BY <1>0, <1>1, <1>2, PsLive DEF PsArmed, PsAt
<1> QED BY <1>0, <1>2, <1>3, <1>4, PsLive, PsStays

LEMMA PsFinishParent ==
    ASSUME PsInv, Ps2!FinishParent
    PROVE  PsInv'
<1>0. req.m = "idle" /\ ~bridge.terminal /\ native' = native /\ bridge' = Ps2!Due(Ps2!FirstBudget(bridge))
  BY DEF Ps2!FinishParent
<1>1. ~PsOpen(native) /\ req.todo = <<>>
  BY <1>0, PsLive, PsAtRest DEF PsResting
<1>2. /\ bridge' \in PsBridges /\ ~bridge'.terminal /\ bridge'.stop = bridge'.due /\ bridge'.effects = bridge.effects
      /\ bridge'.bp = bridge.bp /\ bridge'.told = bridge.told
  BY <1>0, PsLive, PsDue
<1>3. /\ req'.m = "finish" /\ req'.answer = "none"
      /\ req'.todo = IF bridge.effects THEN Ps2!CleanParent ELSE <<"close">>
  BY DEF Ps2!FinishParent, Ps2!Idle
<1>4. req'.todo \in Seq(PsWords) /\ PsWhere(native', bridge', req')
  <2>1. CASE ~bridge.effects
    <3>1. req'.todo = <<"close">> BY <1>3, <2>1
    <3>2. PsClosing(native', bridge', req') BY <1>0, <1>1, <1>2, <1>3, <2>1, <3>1 DEF PsClosing
    <3> QED BY <3>1, <3>2, PsLiterals DEF PsWhere
  <2>2. CASE bridge.effects
    <3>1. PICK t \in Seq(PsWords) : t = <<"release_ports", "close">> BY PsLiterals
    <3>2. req'.todo = <<"PAUSE">> \o (<<"admit">> \o PsWait(t)) BY <1>3, <2>2, <3>1, PsOwnedForms DEF Ps2!CleanParent
    <3>3. PsOwning(native', req', t) BY <1>0, <1>1, <3>2 DEF PsOwning
    <3>4. t \in PsReturns(req'.m) BY <1>3, <3>1 DEF PsReturns
    <3>5. "PAUSE" \in PsWords BY DEF PsWords, Ps2!Commands
    <3>6. req'.todo \in Seq(PsWords) BY <3>2, <3>5, PsWaits, PsWordTypes
    <3> QED BY <3>3, <3>4, <3>6 DEF PsWhere
  <2> QED BY <2>1, <2>2
<1>5. req' \in PsReqs
  <2>1. PICK s \in Seq(PsWords) : s = IF bridge.effects THEN Ps2!CleanParent ELSE <<"close">> BY <1>3, <1>4
  <2>2. req' = [Ps2!Idle("none") EXCEPT !.m = "finish", !.todo = s] BY <2>1 DEF Ps2!FinishParent
  <2> QED BY <2>2, PsIdles DEF PsReqs
<1>6. ~PsAt(req', "added") /\ ~PsAt(req', "removed")
  BY <1>3, <1>4, PsUnnoted
<1>7. PsArmed(native', bridge', req')
  BY <1>0, <1>1, <1>2, <1>6, PsLive DEF PsArmed, PsAt
<1> QED BY <1>0, <1>2, <1>3, <1>4, <1>5, <1>7, PsLive, PsStays

LEMMA PsCancel ==
    ASSUME PsInv, ~bridge.terminal, Ps2!Cancel
    PROVE  PsInv'
<1>1. /\ bridge' = Ps2!Due(Ps2!FirstBudget(bridge)) /\ native' = native /\ req' = [req EXCEPT !.cancelled = TRUE]
      /\ req.m # "idle"
  BY DEF Ps2!Cancel
<1>2. /\ bridge' \in PsBridges /\ ~bridge'.terminal /\ bridge'.stop = bridge'.due /\ bridge'.effects = bridge.effects
      /\ bridge'.bp = bridge.bp /\ bridge'.told = bridge.told /\ bridge'.port = bridge.port
  BY <1>1, PsLive, PsDue
<1>3. /\ req' \in PsReqs /\ req'.m = req.m /\ req'.todo = req.todo /\ req'.reply = req.reply /\ req'.answer = req.answer
      /\ req'.was = req.was
  BY <1>1, PsLive DEF PsReqs
<1>4. PsWhere(native', bridge', req')
  BY <1>1, <1>2, <1>3, PsLive, PsKept
<1>5. PsArmed(native', bridge', req')
  BY <1>1, <1>2, <1>3, PsLive DEF PsArmed, PsAt
<1> QED BY <1>1, <1>2, <1>3, <1>4, <1>5, PsLive, PsStays

LEMMA PsBudgetPasses ==
    ASSUME PsInv, Ps2!BudgetPasses
    PROVE  PsInv'
<1>1. native' = native /\ req' = req
  BY DEF Ps2!BudgetPasses
<1>2. bridge \in PsBridges /\ bridge.stop = bridge.due /\ (req.answer = "clean" => bridge.due = "none")
  BY DEF PsInv, PsTypeOK, PsGood, PsBudget
<1>3. /\ bridge' \in PsBridges /\ bridge'.terminal = bridge.terminal /\ bridge'.stop = bridge'.due
      /\ bridge'.effects = bridge.effects /\ bridge.due = "set"
      /\ bridge'.bp = bridge.bp /\ bridge'.told = bridge.told /\ bridge'.port = bridge.port
  <2>1. bridge.stop = "set" /\ bridge.due = "set" BY <1>2 DEF Ps2!BudgetPasses
  <2>2. bridge' = [bridge EXCEPT !.stop = "past", !.due = "past"] BY <1>2, <2>1 DEF Ps2!BudgetPasses, PsBridges
  <2> QED BY <1>2, <2>1, <2>2 DEF PsBridges
<1>4. CASE bridge.terminal
  BY <1>1, <1>2, <1>3, <1>4 DEF PsInv, PsTypeOK, PsGood, PsAlive, PsAnswers, PsBudget
<1>5. CASE ~bridge.terminal
  <2>1. PsWhere(native', bridge', req')
    BY <1>1, <1>3, <1>5, PsLive, PsKept
  <2>2. PsArmed(native', bridge', req')
    BY <1>1, <1>3, <1>5, PsLive DEF PsArmed, PsAt
  <2> QED BY <1>1, <1>2, <1>3, <1>5, <2>1, <2>2, PsLive, PsStays
<1> QED BY <1>4, <1>5

LEMMA PsEmulate ==
    ASSUME PsInv, Ps2!Emulate, UNCHANGED <<bridge, req>>
    PROVE  PsInv'
<1>1. native' \in PsNatives /\ PsDrift(native, native')
  BY PsEmulates DEF PsInv
<1>2. CASE bridge.terminal
  BY <1>1, <1>2 DEF PsInv, PsTypeOK, PsGood, PsAlive, PsAnswers, PsBudget
<1>3. CASE ~bridge.terminal
  <2>1. PsWhere(native', bridge', req')
    BY <1>1, <1>3, PsLive, PsDrifts
  <2>2. PsArmed(native', bridge', req')
    BY <1>1, <1>3, PsLive DEF PsArmed, PsDrift
  <2>3. native'.hits = bridge'.told + native'.events
    <3>1. native'.hits \in Nat /\ native'.events \in Nat BY <1>1 DEF PsNatives
    <3>2. native'.hits + native.events = native.hits + native'.events BY <1>1 DEF PsDrift
    <3> QED BY <1>3, <3>1, <3>2, PsLive
  <2> QED BY <1>1, <1>3, <2>1, <2>2, <2>3, PsLive, PsStays
<1> QED BY <1>2, <1>3

\* A command that is rejected.
LEMMA PsRejected ==
    ASSUME PsInv, ~bridge.terminal, native' \in PsNatives, req.todo # <<>>, Head(req.todo) \in Ps2!Commands, Ps2!Rejected,
           PsEffect(Head(req.todo), native, native', "rejected")
    PROVE  PsInv'
<1> DEFINE q == Head(req.todo)
<1>0. q \in Ps2!Commands /\ q \notin {"admit", "terminal?", "finish", "added", "removed"} BY DEF Ps2!Commands
<1>1. CASE Ps2!Retired
  BY <1>1, PsRetires, PsLive
<1>2. CASE ~Ps2!Retired
  <2>1. q \notin {"PAUSE", "BEGIN", "POLL", "CANCEL", "FINISH"} /\ bridge' = bridge
    BY <1>2 DEF Ps2!Rejected
  <2>2. ~PsOpen(native')
    <3>1. ~PsOpen(native) BY <1>0, <2>1, PsLive, PsQuiet DEF PsOwnWords
    <3> QED BY <2>1, <3>1 DEF PsEffect
  <2>3. CASE q = "scan"
    <3>0. native' = native BY <2>3 DEF PsEffect
    <3>1. PsRoaming(native, req) BY <2>3, PsLive, PsHeads DEF PsOwnWords, PsHaltWords
    <3>2. req' = [req EXCEPT !.todo = Tail(req.todo), !.m = "failed"] BY <1>2, <2>3 DEF Ps2!Rejected, Ps2!Rest
    <3>3. Tail(req.todo) \in Seq(PsPlain) /\ Tail(req.todo) \in Seq(PsWords)
      BY <3>1, PsLive, HeadTailProperties DEF PsRoaming
    <3>4. req' \in PsReqs /\ req'.m = "failed" /\ req'.todo = Tail(req.todo) /\ req'.answer = req.answer
      BY <3>2, <3>3, PsLive DEF PsReqs
    <3>5. PsRoaming(native', req') BY <2>2, <3>0, <3>3, <3>4 DEF PsRoaming
    <3>6. PsWhere(native', bridge', req') BY <3>5 DEF PsWhere
    <3>7. req.m # "idle" /\ req.m \notin {"set_breakpoint", "clear_breakpoint"} BY <3>1 DEF PsRoaming
    <3>8. PsArmed(native', bridge', req') BY <2>1, <3>0, <3>4, <3>6, <3>7, PsLive, PsArmedStill
    <3> QED BY <2>1, <3>0, <3>4, <3>6, <3>7, <3>8, PsLive, PsStays
  <2>4. CASE q # "scan"
    <3>1. Ps2!Answer("error") BY <1>2, <2>4 DEF Ps2!Rejected
    <3>2. ~PsAt(req, "added") /\ ~PsAt(req, "removed") BY <1>0 DEF PsAt
    <3>3. native'.hits = native.hits /\ native'.events = native.events BY DEF PsEffect
    <3>4. native'.point = native.point
      <4>1. CASE q \in {"set_point", "clear_point"} BY <4>1 DEF PsEffect
      <4>2. CASE q \notin {"set_point", "clear_point"} BY <4>2 DEF PsEffect
      <4> QED BY <4>1, <4>2
    <3> QED BY <2>1, <2>2, <3>1, <3>2, <3>3, <3>4, PsAnswered
  <2> QED BY <2>3, <2>4
<1> QED BY <1>1, <1>2

LEMMA PsExchange ==
    ASSUME PsInv, ~bridge.terminal, Ps2!Exchange
    PROVE  PsInv'
<1> DEFINE q == Head(req.todo)
<1>0. /\ req.todo # <<>> /\ q \in Ps2!Commands /\ q \notin {"added", "removed"}
      /\ req.m # "idle"
  <2>1. req.todo # <<>> /\ q \in Ps2!Commands BY DEF Ps2!Exchange
  <2>2. req.m # "idle" BY <2>1, PsLive, PsAtRest DEF PsResting
  <2> QED BY <2>1, <2>2 DEF Ps2!Commands
<1>1. CASE bridge.stop = "past"
  <2>1. Ps2!Retired /\ native' = native BY <1>1 DEF Ps2!Exchange
  <2> QED BY <2>1, PsRetires, PsLive
<1>2. CASE bridge.stop # "past"
  <2>1. PICK r \in Ps2!Replies(q) :
           \/ /\ native' = r[1]
              /\ IF r[2] = "rejected" THEN Ps2!Rejected
                 ELSE /\ req' = [req EXCEPT !.todo = Tail(req.todo), !.reply = r[2],
                                             !.was = IF q \in {"press", "pulse"} THEN r[2] ELSE @]
                      /\ bridge' = IF q = "events" THEN [bridge EXCEPT !.told = @ + native.events] ELSE bridge
           \/ native' \in {native, r[1]} /\ Ps2!Retired
    BY <1>2 DEF Ps2!Exchange, Ps2!Rest
  <2>2. r[1] \in PsNatives /\ r[2] \in PsReplies \cup {"rejected"} /\ PsEffect(q, native, r[1], r[2])
    BY <1>0, PsEffects DEF PsInv
  <2>3. CASE native' \in {native, r[1]} /\ Ps2!Retired
    BY <2>2, <2>3, PsRetires, PsLive
  <2>4. CASE native' = r[1] /\ r[2] = "rejected" /\ Ps2!Rejected
    <3>1. native' \in PsNatives /\ PsEffect(q, native, native', "rejected") BY <2>2, <2>4
    <3> QED BY <1>0, <2>4, <3>1, PsRejected
  <2>5. CASE /\ native' = r[1] /\ r[2] # "rejected"
             /\ req' = [req EXCEPT !.todo = Tail(req.todo), !.reply = r[2], !.was = IF q \in {"press", "pulse"} THEN r[2] ELSE @]
             /\ bridge' = IF q = "events" THEN [bridge EXCEPT !.told = @ + native.events] ELSE bridge
    <3> DEFINE a == r[2]
    <3>0. a \in PsReplies /\ a # "rejected" /\ native' \in PsNatives /\ PsEffect(q, native, native', a) BY <2>2, <2>5
    <3> HIDE DEF a
    <3>1. Tail(req.todo) \in Seq(PsWords) BY <1>0, PsLive, HeadTailProperties
    <3>2. /\ req' \in PsReqs /\ req'.m = req.m /\ req'.todo = Tail(req.todo) /\ req'.reply = a /\ req'.answer = req.answer
          /\ req'.was = IF q \in {"press", "pulse"} THEN a ELSE req.was
      <4>0. PICK w \in PsReplies : w = IF q \in {"press", "pulse"} THEN a ELSE req.was
        <5>1. req.was \in PsReplies BY PsLive DEF PsReqs
        <5> QED BY <3>0, <5>1
      <4>1. req' = [req EXCEPT !.todo = Tail(req.todo), !.reply = a, !.was = w] BY <2>5, <4>0, PsLive DEF a, PsReqs
      <4> QED BY <3>0, <3>1, <4>0, <4>1, PsLive DEF PsReqs
    <3>3. /\ bridge' \in PsBridges /\ ~bridge'.terminal /\ bridge'.stop = bridge.stop /\ bridge'.due = bridge.due
          /\ bridge'.bp = bridge.bp /\ bridge'.port = bridge.port /\ bridge'.effects = bridge.effects
          /\ bridge'.told = IF q = "events" THEN bridge.told + native.events ELSE bridge.told
      <4>1. CASE q = "events"
        <5>1. PICK k \in Nat : k = bridge.told + native.events BY PsLive
        <5>2. bridge' = [bridge EXCEPT !.told = k] BY <2>5, <4>1, <5>1, PsLive DEF PsBridges
        <5> QED BY <4>1, <5>1, <5>2, PsLive DEF PsBridges
      <4>2. CASE q # "events" BY <2>5, <4>2, PsLive
      <4> QED BY <4>1, <4>2
    <3>4. PsWhere(native', bridge, req')
      BY <1>0, <3>0, <3>2, PsLive, PsReplied
    <3>5. PsWhere(native', bridge', req')
      BY <3>3, <3>4, PsKept
    <3>6. native'.hits = bridge'.told + native'.events
      <4>1. native'.hits = native.hits /\ native'.events = IF q = "events" THEN 0 ELSE native.events
        BY <3>0 DEF PsEffect
      <4> QED BY <3>3, <4>1, PsLive
    <3>7. PsArmed(native', bridge', req')
      <4>1. CASE req.m \in {"set_breakpoint", "clear_breakpoint"}
        <5>1. PsPointing(native, req) BY <4>1, PsLive, PsIsPointing
        <5>2. \/ q = "set_point" /\ req'.todo = <<"added">>
              \/ q = "clear_point" /\ req'.todo = <<"removed">>
          BY <1>0, <3>2, <5>1, PsLiterals, ZenonT(60) DEF PsPointing
        <5>3. native'.point = (q = "set_point") BY <3>0, <5>2 DEF PsEffect
        <5>0. /\ <<"added">> # <<>> /\ Head(<<"added">>) = "added"
              /\ <<"removed">> # <<>> /\ Head(<<"removed">>) = "removed"
          BY PsLiterals
        <5>4. CASE q = "set_point"
          <6>1. req'.todo # <<>> /\ Head(req'.todo) = "added" /\ native'.point BY <5>0, <5>2, <5>3, <5>4
          <6> QED BY <6>1 DEF PsArmed, PsAt
        <5>5. CASE q = "clear_point"
          <6>1. req'.todo # <<>> /\ Head(req'.todo) = "removed" /\ ~native'.point BY <5>0, <5>2, <5>3, <5>5
          <6> QED BY <6>1 DEF PsArmed, PsAt
        <5> QED BY <5>2, <5>4, <5>5
      <4>2. CASE req.m \notin {"set_breakpoint", "clear_breakpoint"}
        <5>1. ~PsPointing(native, req) BY <4>2 DEF PsPointing
        <5>2. q \notin {"set_point", "clear_point"} BY <1>0, <5>1, PsLive, PsHeads DEF PsOwnWords, PsHaltWords, PsPlain
        <5>3. native'.point = native.point BY <3>0, <5>2 DEF PsEffect
        <5> QED BY <3>2, <3>3, <3>5, <4>2, <5>3, PsLive, PsArmedStill
      <4> QED BY <4>1, <4>2
    <3> QED BY <1>0, <3>0, <3>2, <3>3, <3>5, <3>6, <3>7, PsLive, PsStays
  <2> QED BY <2>1, <2>3, <2>4, <2>5
<1> QED BY <1>1, <1>2

LEMMA PsStepCancelled ==
    ASSUME PsInv, ~bridge.terminal, Ps2!StepCancelled
    PROVE  PsInv'
<1>1. /\ req.todo # <<>> /\ Head(req.todo) = "BEGIN" /\ Ps2!Answer("error") /\ native' = native /\ bridge' = bridge
  BY DEF Ps2!StepCancelled, Ps2!Do
<1>2. ~PsOpen(native)
  <2>1. \/ \E t \in PsReturns(req.m) : PsOwning(native, req, t)
        \/ PsHalted(native, req)
    BY <1>1, PsLive, PsHeads DEF PsPlain
  <2>2. ASSUME NEW t \in PsReturns(req.m), PsOwning(native, req, t) PROVE ~PsOpen(native)
    <3>1. t \in Seq(PsWords) BY PsReturning
    <3> QED BY <1>1, <2>2, <3>1, PsOwnHeads
  <2> QED BY <2>1, <2>2 DEF PsHalted
<1>3. ~PsAt(req, "added") /\ ~PsAt(req, "removed") BY <1>1 DEF PsAt
<1> QED BY <1>1, <1>2, <1>3, PsLive, PsAnswered

\* A request that waits for its operation, and where it is in the wait.
LEMMA PsWaiting ==
    ASSUME PsInv, ~bridge.terminal, req.todo # <<>>, Head(req.todo) \in {"admit", "terminal?", "finish"}
    PROVE  /\ req.m \notin {"idle", "set_breakpoint", "clear_breakpoint"}
           /\ \E t \in PsReturns(req.m) : t \in Seq(PsWords) /\ PsOwning(native, req, t)
<1>1. PICK t \in PsReturns(req.m) : PsOwning(native, req, t)
  BY PsLive, PsHeads DEF PsHaltWords, PsPlain
<1>2. t \in Seq(PsWords) /\ req.m \in {"pause", "step", "probe", "finish"}
  BY PsReturning
<1> QED BY <1>1, <1>2

LEMMA PsAdmit ==
    ASSUME PsInv, ~bridge.terminal, Ps2!Admit
    PROVE  PsInv'
<1>1. req.todo # <<>> /\ Head(req.todo) = "admit" /\ native' = native BY DEF Ps2!Admit, Ps2!Do
<1>2. req.m \notin {"idle", "set_breakpoint", "clear_breakpoint"} BY <1>1, PsWaiting
<1>3. PICK t \in PsReturns(req.m) : t \in Seq(PsWords) /\ PsOwning(native, req, t) BY <1>1, PsWaiting
<1>4. Tail(req.todo) = PsWait(t) /\ PsAdmitted(native) /\ req.reply = "admitted" BY <1>1, <1>3, PsOwnHeads
<1>5. native.op.id \in Nat BY PsLive DEF PsNatives, PsOps
<1>6. /\ bridge' \in PsBridges /\ ~bridge'.terminal /\ bridge'.stop = bridge.stop /\ bridge'.due = bridge.due
      /\ bridge'.bp = bridge.bp /\ bridge'.told = bridge.told
  BY <1>5, PsLive DEF Ps2!Admit, PsBridges
<1>7. req' \in PsReqs /\ req'.m = req.m /\ req'.todo = PsWait(t) /\ req'.reply = "admitted" /\ req'.answer = req.answer
  <2>1. PICK s \in Seq(PsWords), i \in Nat : s = PsWait(t) /\ i = native.op.id BY <1>3, <1>5, PsWaits
  <2>2. req' = [req EXCEPT !.todo = s, !.id = i, !.asked = FALSE] BY <1>4, <2>1 DEF Ps2!Admit, Ps2!Rest
  <2> QED BY <1>4, <2>1, <2>2, PsLive DEF PsReqs
<1>8. PsWhere(native', bridge', req')
  <2>1. PsOwning(native', req', t) BY <1>1, <1>4, <1>7 DEF PsOwning
  <2> QED BY <1>7, <2>1 DEF PsWhere
<1>9. PsArmed(native', bridge', req') BY <1>1, <1>2, <1>6, <1>7, <1>8, PsLive, PsArmedStill
<1> QED BY <1>1, <1>2, <1>6, <1>7, <1>8, <1>9, PsLive, PsStays

LEMMA PsAwaitTerminal ==
    ASSUME PsInv, ~bridge.terminal, Ps2!AwaitTerminal
    PROVE  PsInv'
<1>1. req.todo # <<>> /\ Head(req.todo) = "terminal?" /\ native' = native BY DEF Ps2!AwaitTerminal, Ps2!Do
<1>2. req.m \notin {"idle", "set_breakpoint", "clear_breakpoint"} BY <1>1, PsWaiting
<1>3. PICK t \in PsReturns(req.m) : t \in Seq(PsWords) /\ PsOwning(native, req, t) BY <1>1, PsWaiting
<1>4. /\ req.todo = PsWait(t) /\ Tail(req.todo) = <<"finish">> \o t /\ PsAdmitted(native)
      /\ (req.reply = "terminal" => native.op.phase = "terminal")
  BY <1>1, <1>3, PsOwnHeads
<1>5. CASE Ps2!Retired BY <1>1, <1>5, PsRetires, PsLive
<1>6. CASE req.reply = "terminal" /\ Ps2!Then(<<>>) /\ bridge' = bridge
  <2>1. PICK s \in Seq(PsWords) : s = <<"finish">> \o t /\ <<>> \o s = s BY <1>3, PsWaits, PsWordTypes, ConcatEmptySeq, ZenonT(60)
  <2>2. req' = [req EXCEPT !.todo = s] BY <1>4, <1>6, <2>1 DEF Ps2!Then, Ps2!Rest
  <2>3. req' \in PsReqs /\ req'.m = req.m /\ req'.todo = s /\ req'.reply = "terminal" /\ req'.answer = req.answer
    BY <1>6, <2>2, PsLive DEF PsReqs
  <2>4. PsOwning(native, req', t) BY <1>4, <1>6, <2>1, <2>3 DEF PsOwning, PsFinishing, PsAdmitted
  <2>5. PsWhere(native, bridge, req') BY <2>3, <2>4 DEF PsWhere
  <2> QED BY <1>1, <1>2, <1>6, <2>3, <2>5, PsGoesOn
<1>7. ASSUME NEW c \in {"CANCEL", "POLL"}, NEW k \in BOOLEAN, bridge' \in {bridge, Ps2!Due(Ps2!FirstBudget(bridge))},
             req' = [req EXCEPT !.todo = <<c>> \o req.todo, !.asked = k]
      PROVE  PsInv'
  <2>1. c \in PsWords BY DEF PsWords, Ps2!Commands
  <2>2. PICK s \in Seq(PsWords) : s = <<c>> \o PsWait(t) BY <1>3, <2>1, PsWaits, PsWordTypes
  <2>3. req' = [req EXCEPT !.todo = s, !.asked = k] BY <1>4, <1>7, <2>2
  <2>4. req' \in PsReqs /\ req'.m = req.m /\ req'.todo = s /\ req'.reply = req.reply /\ req'.answer = req.answer
    BY <2>3, PsLive DEF PsReqs
  <2>5. PsOwning(native', req', t) BY <1>1, <1>4, <2>2, <2>4 DEF PsOwning
  <2>6. PsWhere(native', bridge', req') BY <2>4, <2>5 DEF PsWhere
  <2>7. /\ bridge' \in PsBridges /\ ~bridge'.terminal /\ bridge'.stop = bridge'.due
        /\ bridge'.bp = bridge.bp /\ bridge'.told = bridge.told
    BY <1>7, PsLive, PsDue
  <2>8. PsArmed(native', bridge', req') BY <1>1, <1>2, <2>4, <2>6, <2>7, PsLive, PsArmedStill
  <2> QED BY <1>1, <1>2, <2>4, <2>6, <2>7, <2>8, PsLive, PsStays
<1>8. CASE req' = [req EXCEPT !.todo = <<"CANCEL">> \o req.todo, !.asked = TRUE] /\ bridge' = bridge
  BY <1>7, <1>8
<1>9. CASE req' = [req EXCEPT !.todo = <<"POLL">> \o req.todo] /\ bridge' = bridge
  <2>1. PICK k \in BOOLEAN : k = req.asked BY PsLive DEF PsReqs
  <2>2. req' = [req EXCEPT !.todo = <<"POLL">> \o req.todo, !.asked = k] BY <1>9, <2>1, PsLive DEF PsReqs
  <2> QED BY <1>7, <1>9, <2>2
<1>10. CASE req' = [req EXCEPT !.todo = <<"CANCEL">> \o req.todo, !.asked = TRUE] /\ bridge' = Ps2!Due(Ps2!FirstBudget(bridge))
  BY <1>7, <1>10
<1> QED BY <1>5, <1>6, <1>8, <1>9, <1>10 DEF Ps2!AwaitTerminal

LEMMA PsFinishNative ==
    ASSUME PsInv, ~bridge.terminal, Ps2!FinishNative
    PROVE  PsInv'
<1>1. req.todo # <<>> /\ Head(req.todo) = "finish" /\ native' = native /\ bridge' = bridge BY DEF Ps2!FinishNative, Ps2!Do
<1>2. req.m \notin {"idle", "set_breakpoint", "clear_breakpoint"} BY <1>1, PsWaiting
<1>3. PICK t \in PsReturns(req.m) : t \in Seq(PsWords) /\ PsOwning(native, req, t) BY <1>1, PsWaiting
<1>4. req.todo = <<"finish">> \o t /\ Tail(req.todo) = t /\ ~native.run /\ PsFinishing(native, req)
  BY <1>1, <1>3, PsOwnHeads
<1>5. ASSUME NEW s \in Seq(PsWords), req' = [req EXCEPT !.todo = s]
      PROVE  req' \in PsReqs /\ req'.m = req.m /\ req'.todo = s /\ req'.reply = req.reply /\ req'.answer = req.answer
  BY <1>5, PsLive DEF PsReqs
<1>6. {"FINISH", "POLL"} \subseteq PsWords BY DEF PsWords, Ps2!Commands
<1>7. CASE req.reply = "terminal"
  <2>1. PICK s \in Seq(PsWords) : s = <<"FINISH">> \o (<<"finish">> \o t) BY <1>3, <1>6, PsWaits, PsWordTypes
  <2>2. req' = [req EXCEPT !.todo = s] BY <1>4, <1>7, <2>1 DEF Ps2!FinishNative
  <2>3. PsOwning(native, req', t) BY <1>4, <1>5, <1>7, <2>1, <2>2 DEF PsOwning, PsFinishing
  <2>4. PsWhere(native, bridge, req') BY <1>5, <2>2, <2>3 DEF PsWhere
  <2> QED BY <1>1, <1>2, <1>5, <2>2, <2>4, PsGoesOn
<1>8. CASE req.reply = "finished"
  <2>1. req' = [req EXCEPT !.todo = t] BY <1>4, <1>8 DEF Ps2!FinishNative, Ps2!ReleasedByFinish, Ps2!Rest
  <2>2. PsHalted(native, req')
    <3>1. t \in PsHaltTodos(req.m) /\ t # <<"input", "close">> BY <1>3, PsReturning
    <3>2. ~PsOpen(native) BY <1>4, <1>8 DEF PsFinishing, PsOpen
    <3> QED BY <1>3, <1>4, <1>5, <2>1, <3>1, <3>2 DEF PsHalted
  <2>3. PsWhere(native, bridge, req') BY <2>2 DEF PsWhere
  <2> QED BY <1>1, <1>2, <1>3, <1>5, <2>1, <2>3, PsGoesOn
<1>9. CASE req.reply \notin {"terminal", "finished"}
  <2>1. PICK s \in Seq(PsWords) : s = <<"POLL">> \o (<<"finish">> \o t) BY <1>3, <1>6, PsWaits, PsWordTypes
  <2>2. req' = [req EXCEPT !.todo = s] BY <1>4, <1>9, <2>1 DEF Ps2!FinishNative, Ps2!ReleasedByFinish
  <2>3. PsOwning(native, req', t) BY <1>4, <1>5, <1>9, <2>1, <2>2 DEF PsOwning, PsFinishing
  <2>4. PsWhere(native, bridge, req') BY <1>5, <2>2, <2>3 DEF PsWhere
  <2> QED BY <1>1, <1>2, <1>5, <2>2, <2>4, PsGoesOn
<1> QED BY <1>7, <1>8, <1>9

\* A check of the last reply: the request goes on with the CPU stopped, or answers with an error.
LEMMA PsChecked ==
    ASSUME PsInv, ~bridge.terminal, UNCHANGED <<native, bridge>>, req.todo # <<>>,
           Head(req.todo) \in {"frozen!", "idle!", "changed!"},
           \/ Ps2!Answer("error")
           \/ Ps2!Then(<<>>) /\ (Head(req.todo) = "frozen!" => req.reply = "frozen")
    PROVE  PsInv'
<1> DEFINE q == Head(req.todo)
           t == Tail(req.todo)
<1>1. \/ PsHalted(native, req)
      \/ q = "frozen!" /\ \E u \in PsHaltTodos(req.m) : PsAsking(native, req, u)
  BY PsLive, PsHeads DEF PsOwnWords, PsPlain
<1>2. ~PsOpen(native) /\ ~PsAt(req, "added") /\ ~PsAt(req, "removed")
  BY <1>1 DEF PsHalted, PsAsking, PsAt
<1>3. CASE Ps2!Answer("error") BY <1>2, <1>3, PsLive, PsAnswered
<1>4. CASE Ps2!Then(<<>>) /\ (q = "frozen!" => req.reply = "frozen")
  <2>1. t \in PsHaltTodos(req.m) /\ t # <<"input", "close">> /\ ~native.run
    <3>1. CASE PsHalted(native, req)
      <4>1. req.todo \in PsHaltTodos(req.m) /\ ~native.run BY <3>1 DEF PsHalted
      <4>2. req.todo \notin {PsProbeStep, <<"release_ports", "close">>, <<"input", "close">>}
        BY PsLiterals, PsProbes
      <4> QED BY <4>1, <4>2, PsHaltPaths
    <3>2. ASSUME NEW u \in PsHaltTodos(req.m), PsAsking(native, req, u), q = "frozen!"
          PROVE  t \in PsHaltTodos(req.m) /\ t # <<"input", "close">> /\ ~native.run
      <4>1. t = u /\ (req.reply = "frozen" => ~native.run) BY <3>2, PsAskHeads
      <4>2. req.m # "finish" BY <3>2 DEF PsAsking
      <4>3. u = <<"input", "close">> => req.m = "finish" BY PsHaltPaths
      <4> QED BY <1>4, <3>2, <4>1, <4>2, <4>3
    <3> QED BY <1>1, <3>1, <3>2
  <2>2. PICK s \in Seq(PsWords) : s = t /\ <<>> \o s = s
    <3>1. t \in Seq(PsWords) BY PsLive, HeadTailProperties
    <3> QED BY <3>1, ConcatEmptySeq
  <2>3. req' = [req EXCEPT !.todo = s] BY <1>4, <2>2 DEF Ps2!Then, Ps2!Rest
  <2>4. req' \in PsReqs /\ req'.m = req.m /\ req'.todo = s /\ req'.answer = req.answer BY <2>3, PsLive DEF PsReqs
  <2>5. PsHalted(native, req') BY <1>2, <2>1, <2>2, <2>4 DEF PsHalted
  <2>6. PsWhere(native, bridge, req') BY <2>5 DEF PsWhere
  <2>7. req.m \notin {"idle", "set_breakpoint", "clear_breakpoint"} BY <2>1, PsHaltPaths, ZenonT(60)
  <2> QED BY <2>4, <2>6, <2>7, PsGoesOn
<1> QED BY <1>3, <1>4

\* The checks and notes between the commands.
LEMMA PsStep ==
    ASSUME PsInv, ~bridge.terminal, Ps2!Step, native' = native
    PROVE  PsInv'
<1> DEFINE q == Head(req.todo)
<1>0. req.todo # <<>> /\ Tail(req.todo) \in Seq(PsWords) /\ <<>> \o Tail(req.todo) = Tail(req.todo)
  <2>1. req.todo # <<>> BY DEF Ps2!Step, Ps2!Do
  <2>2. Tail(req.todo) \in Seq(PsWords) BY <2>1, PsLive, HeadTailProperties
  <2> QED BY <2>1, <2>2, ConcatEmptySeq
<1>1. ASSUME NEW s \in Seq(PsWords), req' = [req EXCEPT !.todo = s]
      PROVE  /\ req' \in PsReqs /\ req'.m = req.m /\ req'.todo = s /\ req'.reply = req.reply /\ req'.answer = req.answer
             /\ req'.was = req.was
  BY <1>1, PsLive DEF PsReqs
<1>2. CASE /\ q \in {"frozen!", "idle!", "changed!"} /\ bridge' = bridge
           /\ \/ Ps2!Answer("error")
              \/ Ps2!Then(<<>>) /\ (q = "frozen!" => req.reply = "frozen")
  BY <1>0, <1>2, PsChecked
<1>3. CASE q = "released!" /\ bridge' = bridge /\ (Ps2!Then(<<>>) \/ Ps2!Answer("error"))
  <2>1. PsPulsing(native, req) BY <1>0, <1>3, PsLive, PsHeads DEF PsOwnWords, PsHaltWords, PsPlain
  <2>2. req.todo = <<"released!">> /\ req.m = "press" /\ ~PsOpen(native) /\ (req.was = "frozen" => ~native.run)
    BY <1>0, <1>3, <2>1, PsLiterals DEF PsPulsing
  <2>3. CASE Ps2!Answer("error")
    <3>1. ~PsAt(req, "added") /\ ~PsAt(req, "removed") BY <1>3 DEF PsAt
    <3> QED BY <1>3, <2>2, <2>3, <3>1, PsLive, PsAnswered
  <2>4. CASE Ps2!Then(<<>>)
    <3>1. PICK s \in Seq(PsWords) : s = <<>> /\ s = Tail(req.todo) BY <1>0, <2>2, PsLiterals
    <3>2. req' = [req EXCEPT !.todo = s] BY <1>0, <2>4, <3>1 DEF Ps2!Then, Ps2!Rest
    <3>3. PsPulsing(native, req') BY <1>1, <2>1, <2>2, <3>1, <3>2 DEF PsPulsing
    <3>4. PsWhere(native, bridge, req') BY <3>3 DEF PsWhere
    <3>5. req.m \notin {"idle", "set_breakpoint", "clear_breakpoint"} BY <2>1 DEF PsPulsing
    <3> QED BY <1>1, <1>3, <3>2, <3>4, <3>5, PsGoesOn
  <2> QED BY <1>3, <2>3, <2>4
<1>4. ASSUME q \in {"halt_if_running", "as_it_was"}, bridge' = bridge, NEW c \in PsPlain, NEW w \in PsReplies,
             \/ req' = [req EXCEPT !.todo = <<c>> \o Tail(req.todo), !.was = w]
             \/ req' = [req EXCEPT !.todo = <<>> \o Tail(req.todo), !.was = w]
      PROVE  PsInv'
  <2>1. PsRoaming(native, req) BY <1>0, <1>4, PsLive, PsHeads DEF PsOwnWords, PsHaltWords
  <2>2. Tail(req.todo) \in Seq(PsPlain) BY <1>0, <2>1, HeadTailProperties DEF PsRoaming
  <2>3. <<c>> \o Tail(req.todo) \in Seq(PsPlain) BY <2>2, ConsFacts
  <2>4. PsPlain \subseteq PsWords BY DEF PsPlain, PsWords, Ps2!Commands
  <2>5. PICK s \in Seq(PsPlain) : req' = [req EXCEPT !.todo = s, !.was = w] BY <1>0, <1>4, <2>2, <2>3
  <2>6. s \in Seq(PsWords) BY <2>4, SeqMonotonic
  <2>7. req' \in PsReqs /\ req'.m = req.m /\ req'.todo = s /\ req'.answer = req.answer BY <2>5, <2>6, PsLive DEF PsReqs
  <2>8. PsRoaming(native, req') BY <2>1, <2>7 DEF PsRoaming
  <2>9. PsWhere(native, bridge, req') BY <2>8 DEF PsWhere
  <2>10. req.m \notin {"idle", "set_breakpoint", "clear_breakpoint"} BY <2>1 DEF PsRoaming
  <2> QED BY <1>4, <2>7, <2>9, <2>10, PsGoesOn
<1>5. CASE /\ q = "halt_if_running" /\ bridge' = bridge
           /\ req' = [req EXCEPT !.todo = (IF req.reply = "running" THEN <<"pause_cpu">> ELSE <<>>) \o Tail(req.todo), !.was = req.reply]
  <2>1. "pause_cpu" \in PsPlain /\ req.reply \in PsReplies BY PsLive DEF PsPlain
  <2> QED BY <1>4, <1>5, <2>1
<1>6. CASE /\ q = "as_it_was" /\ bridge' = bridge
           /\ req' = [req EXCEPT !.todo = (IF req.was = "running" THEN <<"resume">> ELSE <<>>) \o Tail(req.todo)]
  <2>1. "resume" \in PsPlain BY DEF PsPlain
  <2>2. PICK w \in PsReplies : w = req.was BY PsLive DEF PsReqs
  <2>3. \/ req' = [req EXCEPT !.todo = <<"resume">> \o Tail(req.todo), !.was = w]
        \/ req' = [req EXCEPT !.todo = <<>> \o Tail(req.todo), !.was = w]
    BY <1>6, <2>2, PsLive DEF PsReqs
  <2> QED BY <1>4, <1>6, <2>1, <2>3
<1>7. ASSUME NEW v \in BOOLEAN, q = IF v THEN "added" ELSE "removed", Ps2!Then(<<>>), bridge' = [bridge EXCEPT !.bp = v]
      PROVE  PsInv'
  <2>1. PsPointing(native, req) BY <1>0, <1>7, PsLive, PsHeads DEF PsOwnWords, PsHaltWords, PsPlain
  <2>2. Tail(req.todo) = <<>> /\ ~PsOpen(native) /\ req.m # "idle" BY <1>0, <1>7, <2>1, PsLiterals DEF PsPointing
  <2>3. PICK s \in Seq(PsWords) : s = <<>> /\ s = Tail(req.todo) BY <1>0, <2>2
  <2>4. req' = [req EXCEPT !.todo = s] BY <1>0, <1>7, <2>3 DEF Ps2!Then, Ps2!Rest
  <2>5. PsPointing(native', req') BY <1>1, <2>1, <2>2, <2>3, <2>4 DEF PsPointing
  <2>6. PsWhere(native', bridge', req') BY <2>5 DEF PsWhere
  <2>7. /\ bridge' \in PsBridges /\ ~bridge'.terminal /\ bridge'.stop = bridge.stop /\ bridge'.due = bridge.due
        /\ bridge'.bp = v /\ bridge'.told = bridge.told
    BY <1>7, PsLive DEF PsBridges
  <2>8. native.point = v BY <1>0, <1>7, PsLive DEF PsArmed, PsAt, PsNatives
  <2>9. PsArmed(native', bridge', req') BY <1>1, <2>3, <2>4, <2>7, <2>8 DEF PsArmed, PsAt
  <2> QED BY <1>1, <2>2, <2>4, <2>6, <2>7, <2>9, PsLive, PsStays
<1>8. CASE /\ q = "release_ports" /\ bridge' = bridge
           /\ req' = [req EXCEPT !.todo = (IF bridge.port THEN <<"release", "input">> ELSE <<>>) \o Tail(req.todo)]
  <2>1. PsHalted(native, req) BY <1>0, <1>8, PsLive, PsHeads DEF PsOwnWords, PsPlain
  <2>2. req.todo = <<"release_ports", "close">> /\ req.m = "finish" /\ ~PsOpen(native) /\ ~native.run
    <3>1. req.todo \in PsHaltTodos(req.m) /\ ~PsOpen(native) /\ ~native.run BY <2>1 DEF PsHalted
    <3>2. req.todo \notin {PsProbeStep, <<"input", "close">>} BY <1>8, PsLiterals, PsProbes
    <3> QED BY <1>0, <1>8, <3>1, <3>2, PsHaltPaths
  <2>3. Tail(req.todo) = <<"close">> BY <2>2, PsLiterals
  <2>4. CASE bridge.port
    <3>1. {"release", "input", "close"} \subseteq PsWords BY DEF PsWords, Ps2!Commands
    <3>2. <<"release", "input">> \o <<"close">> = <<"release", "input", "close">>
      <4>1. \A x : x = <<"release", "input">> => x \o <<"close">> = <<"release">> \o (<<"input">> \o <<"close">>)
        <5>1. "release" \in PsWords /\ "input" \in PsWords /\ <<"close">> \in Seq(PsWords) BY <3>1, PsLiterals
        <5> QED BY <5>1, Spread2, SMT
      <4>2. <<"input", "close">> = <<"input">> \o <<"close">> BY PsLiterals, Unfolded
      <4>3. <<"release", "input", "close">> = <<"release">> \o <<"input", "close">> BY PsLiterals, Unfolded
      <4> QED BY <4>1, <4>2, <4>3
    <3>3. PICK s \in Seq(PsWords) : s = <<"release", "input", "close">> BY PsLiterals
    <3>4. req' = [req EXCEPT !.todo = s] BY <1>8, <2>3, <2>4, <3>2, <3>3
    <3>5. s \in PsHaltTodos("finish") /\ s # <<"input", "close">> BY <3>3, PsLiterals DEF PsHaltTodos
    <3>6. PsHalted(native, req') BY <1>1, <2>2, <3>4, <3>5 DEF PsHalted
    <3>7. PsWhere(native, bridge, req') BY <3>6 DEF PsWhere
    <3> QED BY <1>1, <1>8, <2>2, <3>4, <3>7, PsGoesOn
  <2>5. CASE ~bridge.port
    <3>1. PICK s \in Seq(PsWords) : s = <<"close">> BY PsLiterals
    <3>2. req' = [req EXCEPT !.todo = s] BY <1>0, <1>8, <2>3, <2>5, <3>1
    <3>3. PsClosing(native, bridge, req') BY <1>1, <2>2, <2>5, <3>1, <3>2 DEF PsClosing
    <3>4. PsWhere(native, bridge, req') BY <3>3 DEF PsWhere
    <3> QED BY <1>1, <1>8, <2>2, <3>2, <3>4, PsGoesOn
  <2> QED BY <2>4, <2>5
<1>9. CASE /\ q = "close" /\ bridge.stop # "past" /\ ~(bridge.effects /\ bridge.port /\ req.reply # "native")
           /\ bridge' = [bridge EXCEPT !.parent = "none", !.stop = "none", !.due = IF @ = "set" THEN "none" ELSE @]
           /\ Ps2!Answer(IF bridge.effects THEN "clean" ELSE "ok")
  <2>1. PsClosing(native, bridge, req) BY <1>0, <1>9, PsLive, PsHeads DEF PsOwnWords, PsHaltWords, PsPlain
  <2>2. /\ bridge' \in PsBridges /\ ~bridge'.terminal /\ bridge'.stop = "none" /\ bridge'.due = "none"
        /\ bridge'.bp = bridge.bp /\ bridge'.told = bridge.told /\ bridge'.port = bridge.port
    <3>1. bridge.due \in {"none", "set"} BY <1>9, PsLive
    <3>2. bridge' = [bridge EXCEPT !.parent = "none", !.stop = "none", !.due = "none"] BY <1>9, <3>1, PsLive DEF PsBridges
    <3> QED BY <3>2, PsLive DEF PsBridges
  <2>3. req' \in PsReqs /\ req'.m = "idle" /\ req'.todo = <<>> /\ req'.answer = IF bridge.effects THEN "clean" ELSE "ok"
    BY <1>9, PsIdles DEF Ps2!Answer
  <2>4. PsResting(native', bridge', req') BY <1>9, <2>1, <2>2, <2>3 DEF PsResting, PsClosing
  <2>5. PsWhere(native', bridge', req') BY <2>4 DEF PsWhere
  <2>6. PsArmed(native', bridge', req') BY <1>9, <2>2, <2>3, PsLive DEF PsArmed, PsAt
  <2> QED BY <2>2, <2>3, <2>5, <2>6, PsLive, PsStays
<1>10. CASE Ps2!Retired BY <1>10, PsRetires, PsLive
<1> QED BY <1>2, <1>3, <1>5, <1>6, <1>7, <1>8, <1>9, <1>10 DEF Ps2!Step, Ps2!Do, Ps2!Then, Ps2!Rest

LEMMA PsFinish ==
    ASSUME PsInv, ~bridge.terminal, Ps2!Finish
    PROVE  PsInv'
<1>1. req.m # "idle" /\ req.todo = <<>> /\ native' = native /\ bridge' = bridge BY DEF Ps2!Finish
<1>2. ~PsAt(req, "added") /\ ~PsAt(req, "removed") BY <1>1 DEF PsAt
<1>3. ~PsOpen(native) BY <1>1, PsLive, PsQuiet
<1>4. \/ PsHalted(native, req) \/ PsPulsing(native, req) \/ PsPointing(native, req) \/ PsRoaming(native, req)
  <2>1. ASSUME NEW t \in PsReturns(req.m), PsOwning(native, req, t) PROVE FALSE
    BY <1>1, <2>1, PsReturning, PsOwnHeads
  <2>2. ASSUME NEW t \in PsHaltTodos(req.m), PsAsking(native, req, t) PROVE FALSE
    BY <1>1, <2>2, PsAskHeads
  <2>3. ~PsResetting(native, req) /\ ~PsClosing(native, bridge, req) /\ ~PsResting(native, bridge, req)
    BY <1>1, PsLiterals DEF PsResetting, PsClosing, PsResting
  <2> QED BY <2>1, <2>2, <2>3, PsLive DEF PsWhere
<1>5. req.m = "media" \/ Ps2!SaysFrozen => ~native.run
  BY <1>1, <1>4, PsLiterals DEF Ps2!SaysFrozen, PsHalted, PsPulsing, PsPointing, PsRoaming
<1>6. PICK a \in {"error", "ok", "frozen", "changed"} : Ps2!Answer(a) /\ (a \in {"frozen", "changed"} => ~native.run)
  <2>1. CASE req.m = "failed" BY <2>1 DEF Ps2!Finish
  <2>2. CASE req.m = "media" BY <1>5, <2>2 DEF Ps2!Finish
  <2>3. CASE req.m \notin {"failed", "media"} /\ Ps2!SaysFrozen BY <1>5, <2>3 DEF Ps2!Finish
  <2>4. CASE req.m \notin {"failed", "media"} /\ ~Ps2!SaysFrozen BY <2>4 DEF Ps2!Finish
  <2> QED BY <2>1, <2>2, <2>3, <2>4
<1> QED BY <1>1, <1>2, <1>3, <1>6, PsLive, PsAnswered

-----------------------------------------------------------------------------

LEMMA PsInit == Ps2!Pcsx2Init => PsInv
<1> SUFFICES ASSUME Ps2!Pcsx2Init PROVE PsInv OBVIOUS
<1>1. native \in PsNatives /\ ~PsOpen(native) /\ native.point = FALSE /\ native.hits = 0 /\ native.events = 0
  <2>1. PICK p \in PsOps : p = Ps2!NoOp
    <3>1. Ps2!NoOp \in PsOps BY DEF Ps2!NoOp, PsOps
    <3> QED BY <3>1
  <2>2. p.phase = "finished" BY <2>1 DEF Ps2!NoOp
  <2>3. native = [run |-> TRUE, op |-> p, point |-> FALSE, hits |-> 0, events |-> 0, keys |-> FALSE, card |-> "none", busy |-> FALSE]
    BY <2>1 DEF Ps2!Pcsx2Init
  <2> QED BY <2>2, <2>3 DEF PsNatives, PsOpen
<1>2. /\ bridge \in PsBridges /\ ~bridge.terminal /\ bridge.bp = FALSE /\ bridge.told = 0
      /\ bridge.stop = "none" /\ bridge.due = "none"
  BY DEF Ps2!Pcsx2Init, PsBridges
<1>3. req \in PsReqs /\ req.m = "idle" /\ req.todo = <<>> /\ req.answer = "none"
  BY PsIdles DEF Ps2!Pcsx2Init
<1>4. PsWhere(native, bridge, req)
  <2>1. PsResting(native, bridge, req) BY <1>1, <1>3 DEF PsResting
  <2> QED BY <2>1 DEF PsWhere
<1>5. PsArmed(native, bridge, req) BY <1>1, <1>2, <1>3 DEF PsArmed, PsAt
<1>6. native.hits = bridge.told + native.events BY <1>1, <1>2
<1> QED BY <1>1, <1>2, <1>3, <1>4, <1>5, <1>6 DEF PsInv, PsTypeOK, PsGood, PsAlive, PsAnswers, PsBudget

LEMMA PsNext == PsInv /\ [Ps2!Pcsx2Next]_(Ps2!pcsxVars) => PsInv'
<1> SUFFICES ASSUME PsInv, [Ps2!Pcsx2Next]_(Ps2!pcsxVars) PROVE PsInv' OBVIOUS
<1>1. CASE UNCHANGED Ps2!pcsxVars
  BY <1>1 DEF Ps2!pcsxVars, PsInv, PsTypeOK, PsGood, PsAlive, PsAnswers, PsBudget
<1>2. ASSUME NEW m \in Ps2!Methods, NEW c \in Cards \cup {"none"}, Ps2!Begin(m, c) PROVE PsInv'
  BY <1>2, PsBegin
<1>3. CASE Ps2!BeginParent BY <1>3, PsBeginParent
<1>4. CASE Ps2!FinishParent BY <1>4, PsFinishParent
<1>5. CASE Ps2!BudgetPasses BY <1>5, PsBudgetPasses
<1>6. CASE Ps2!Emulate /\ UNCHANGED <<bridge, req>> BY <1>6, PsEmulate
<1>7. CASE bridge.terminal /\ (\/ Ps2!Cancel \/ Ps2!Exchange \/ Ps2!StepCancelled \/ Ps2!Admit \/ Ps2!AwaitTerminal \/ Ps2!FinishNative
                               \/ Ps2!Step \/ Ps2!Finish)
  <2>1. req.m = "idle" /\ req.todo = <<>>
    BY <1>7 DEF PsInv, PsGood, PsAlive, Ps2!Idle
  <2> QED BY <1>7, <2>1 DEF Ps2!Cancel, Ps2!Exchange, Ps2!Admit, Ps2!AwaitTerminal, Ps2!FinishNative, Ps2!Step, Ps2!Finish, Ps2!Do,
                                Ps2!StepCancelled
<1>8. CASE ~bridge.terminal /\ (\/ Ps2!Cancel \/ Ps2!Exchange \/ Ps2!StepCancelled \/ Ps2!Admit \/ Ps2!AwaitTerminal \/ Ps2!FinishNative
                                \/ (Ps2!Step /\ UNCHANGED native) \/ Ps2!Finish)
  BY <1>8, PsCancel, PsExchange, PsStepCancelled, PsAdmit, PsAwaitTerminal, PsFinishNative, PsStep, PsFinish
<1> QED BY <1>1, <1>2, <1>3, <1>4, <1>5, <1>6, <1>7, <1>8 DEF Ps2!Pcsx2Next

\* Where a request of the bridge can be, with what holds of PCSX2 there, is an invariant.
LEMMA PsInvariant == Ps2!Pcsx2Spec => []PsInv
BY PsInit, PsNext, PTL DEF Ps2!Pcsx2Spec

\* An answer that says the machine is frozen finds the CPU stopped and no operation open, whatever hit, user
\* pause, cancellation or retirement met the request, and a clean parent holds no button (verify_owned_pause,
\* owned_frame_step, clean_parent).
THEOREM PsHaltIsAlwaysReal == Ps2!Pcsx2Spec => []Ps2!Pcsx2HaltIsReal
<1>1. PsInv => Ps2!Pcsx2HaltIsReal
  <2> SUFFICES ASSUME PsInv PROVE Ps2!Pcsx2HaltIsReal OBVIOUS
  <2>1. CASE bridge.terminal
    <3>1. req.answer = "error" BY <2>1 DEF PsInv, PsGood, PsAlive, Ps2!Idle
    <3> QED BY <3>1 DEF Ps2!Pcsx2HaltIsReal
  <2>2. CASE ~bridge.terminal /\ req.m # "idle"
    <3>1. req.answer = "none" BY <2>2, PsLive
    <3> QED BY <3>1 DEF Ps2!Pcsx2HaltIsReal
  <2>3. CASE ~bridge.terminal /\ req.m = "idle"
    <3>1. PsResting(native, bridge, req) BY <2>3, PsLive, PsAtRest
    <3> QED BY <3>1 DEF Ps2!Pcsx2HaltIsReal, Ps2!OpOpen, PsResting, PsOpen
  <2> QED BY <2>1, <2>2, <2>3
<1> QED BY <1>1, PsInvariant, PTL

\* While the stream lives every breakpoint hit is told or waits in PCSX2, and between requests the breakpoint
\* that the bridge lists is the one armed (poll_events, set_breakpoint, clear_breakpoint).
THEOREM PsHitsAreKept == Ps2!Pcsx2Spec => []Ps2!Pcsx2HitsKept
<1>1. PsInv => Ps2!Pcsx2HitsKept
  <2> SUFFICES ASSUME PsInv, ~bridge.terminal
               PROVE  native.hits = bridge.told + native.events /\ (req.m = "idle" => native.point = bridge.bp)
    BY DEF Ps2!Pcsx2HitsKept
  <2>1. ASSUME req.m = "idle" PROVE native.point = bridge.bp
    <3>1. req.todo = <<>> BY <2>1, PsLive, PsAtRest DEF PsResting
    <3> QED BY <3>1, PsLive DEF PsArmed, PsAt
  <2> QED BY <2>1, PsLive
<1> QED BY <1>1, PsInvariant, PTL

\* A cleanup that answers clean came within the stop budget of the first cancellation (remember_cancel_deadline,
\* cleanup_deadline).
THEOREM PsStopsInBudget == Ps2!Pcsx2Spec => []Ps2!Pcsx2StopInBudget
<1>1. PsInv => Ps2!Pcsx2StopInBudget
  BY DEF PsInv, PsGood, PsBudget, Ps2!Pcsx2StopInBudget
<1> QED BY <1>1, PsInvariant, PTL

-----------------------------------------------------------------------------
(* The MSX bridge *)

MxName(s, i) == s[i][1]
MxHas(s, names) == \E i \in 1 .. Len(s) : MxName(s, i) \in names

MxHits == Nat \X MsxPoints
MxNatives == [pause : BOOLEAN, breaked : BOOLEAN, due : BOOLEAN, target : BOOLEAN, seq : Nat, queue : Seq(MxHits),
              dropped : Nat, points : SUBSET MsxPoints, keys : BOOLEAN, machine : {"old", "new"}]
MxBridges == [frozen : BOOLEAN, fatal : BOOLEAN, dead : BOOLEAN, seen : BOOLEAN, events : Seq(MsxPoints), last : Nat,
              kept : Nat, told : Nat, mute : Nat, bps : SUBSET MsxPoints, used : SUBSET MsxPoints, keys : BOOLEAN,
              parent : BOOLEAN, effects : BOOLEAN, port : BOOLEAN, reqs : Nat]
MxPlainNames ==
    {"frozen?", "prepare", "ident", "media", "drain", "refresh", "input", "frame", "policy", "reg", "read", "write", "deliver",
     "pause_on", "break", "stop!", "cont", "wait", "stepped", "unbroken", "step", "keys_down", "keys_up", "keys_back", "keys_off",
     "keys_again", "spec", "create", "inv", "remove", "store", "probe", "restore", "activate",
     "activate_old", "delete", "reset", "disk", "apply", "released",
     "hit?", "count?", "pause_off", "running!"}
MxHardNames == MxPlainNames \cup {"cancel_frame"}
MxPressNames == {"running->pause", "resume?"}
MxNames == MxHardNames \cup MxPressNames \cup {"next_frame", "resumed", "frozen->frame"}
MxPolicies == {"soft", "hard", "unpause", "step", "release", "arm", "back", "media", "pulse", "unarmed", "stop"}
MxItems == MxNames \X MxPolicies
MxReqs == [m : Msx!Methods \cup {"idle", "cleanup"}, todo : Seq(MxItems),
           answer : {"none", "error", "load_failed", "clean", "closed", "frozen", "ok"}, arg : MsxPoints \cup {"none"},
           was : BOOLEAN, held : BOOLEAN, err : BOOLEAN, cut : BOOLEAN]
MxTypeOK == native \in MxNatives /\ wire \in Seq(BOOLEAN) /\ bridge \in MxBridges /\ req \in MxReqs

\* What every list of steps looks like: a frame is started right after the three steps that verify the stop, and
\* awaited next; a decision on the stop comes right after it was read; a release ends its request.
MxFrameShape(s) ==
    \A i \in 1 .. Len(s) : MxName(s, i) = "next_frame" =>
        /\ i + 1 \in 1 .. Len(s) /\ MxName(s, i + 1) = "wait"
        /\ i >= 2 => MxName(s, i - 1) = "frame"
        /\ i >= 3 => MxName(s, i - 2) = "prepare"
        /\ i >= 4 => MxName(s, i - 3) = "frozen?"
MxReadShape(s) ==
    \A i \in 1 .. Len(s) : MxName(s, i) \in {"resumed", "frozen->frame"} /\ i >= 2 => MxName(s, i - 1) = "refresh"
MxReleaseShape(s) ==
    \A i, j \in 1 .. Len(s) : s[i][2] = "release" /\ i <= j => MxName(s, j) \in {"keys_back", "resume?"}
MxCancelShape(s) == \A i \in 1 .. Len(s) : MxName(s, i) = "cancel_frame" => s[i][2] \in {"hard", "stop"}
MxShape(s) == MxFrameShape(s) /\ MxReadShape(s) /\ MxReleaseShape(s) /\ MxCancelShape(s)

\* Every step that may set the machine going, or depends on whether it goes, is followed by one that verifies its stop.
MxMoving == {"cont", "pause_off", "step", "next_frame", "activate", "running->pause"}
MxStopping == {"stop!", "stepped"}
MxStops(s) ==
    \A i \in 1 .. Len(s) : MxName(s, i) \in MxMoving => \E j \in 1 .. Len(s) : j > i /\ MxName(s, j) \in MxStopping

MxHaltMethods == {"pause", "step", "step_instructions", "load", "reset", "media", "cleanup", "press"}
\* The request will say that the machine is frozen unless something fails.
MxWillSay ==
    ~req.err /\ (\/ req.m \in MxHaltMethods /\ (req.m = "press" => ~req.was \/ req.cut)
                 \/ req.m = "resume" /\ req.cut)

MxLive == ~bridge.fatal /\ ~bridge.dead
MxHalted == native.pause /\ native.breaked
MxStill == MxHalted /\ ~native.due
MxAt(c) == req.todo # <<>> /\ MxName(req.todo, 1) = c

\* A frame that is due is awaited, or about to be cancelled; until it starts the machine is paused and no update comes.
MxDue ==
    /\ native.due => MxAt("wait") \/ MxAt("cancel_frame")
    /\ native.due /\ MxAt("wait") => native.pause /\ wire = <<>> /\ ~bridge.seen
\* Steps that only some methods have.
MxResumeNames == {"cont", "refresh", "resumed", "drain", "hit?"}
MxOwned(m, s) ==
    /\ m # "press" => ~MxHas(s, MxPressNames)
    /\ m = "resume" => \A i \in 1 .. Len(s) : MxName(s, i) \in MxResumeNames
\* Where the stop was verified.
MxVerified ==
    /\ \A i \in 1 .. Len(req.todo) : MxName(req.todo, i) = "next_frame" /\ i <= 3 => MxHalted
    /\ MxAt("resumed") \/ MxAt("frozen->frame") => (bridge.frozen => MxHalted)
    /\ MxWillSay => MxStops(req.todo)
    /\ req.m = "press" /\ ~req.err /\ MxHas(req.todo, MxStopping \cup {"running->pause"}) => MxStops(req.todo)
    /\ MxWillSay /\ ~MxHas(req.todo, MxStopping) => MxStill
    /\ ~req.err => MxOwned(req.m, req.todo) /\ (req.was => req.m = "press")
MxCleanNames == {"cancel_frame", "pause_on", "break", "stop!", "keys_up", "released"}
MxCleanShape(s) ==
    /\ \A i \in 1 .. Len(s) : MxName(s, i) \in MxCleanNames /\ s[i][2] \in {"hard", "stop"}
    /\ \A i \in 1 .. Len(s) : MxName(s, i) = "keys_up" => \E j \in 1 .. Len(s) : j > i /\ MxName(s, j) = "released"
MxCleaned ==
    req.m = "cleanup" =>
      /\ ~MxHas(req.todo, {"cancel_frame"}) => ~native.due /\ ~native.target
      /\ bridge.port /\ ~MxHas(req.todo, {"released"}) => ~native.keys
      /\ MxCleanShape(req.todo)
\* A request that says so is over with the machine stopped, and a cleanup with nothing left.
MxAnswered ==
    /\ req.answer \in {"frozen", "clean"} => req.m = "idle" /\ MxStill
    /\ req.answer = "clean" => ~native.target /\ (bridge.port => ~native.keys)

MxInv ==
    /\ MxTypeOK /\ Msx!MsxHitsKept /\ MxAnswered
    /\ req.m = "idle" => req.todo = <<>>
    /\ req.m # "idle" => req.arg \in MsxPoints
    /\ bridge.dead => req.m = "idle"
    /\ MxLive => MxShape(req.todo) /\ MxDue /\ (req.m # "idle" => MxVerified /\ MxCleaned)

LEMMA MxTail ==
    ASSUME NEW s \in Seq(MxItems), s # <<>>
    PROVE  /\ Tail(s) \in Seq(MxItems) /\ Len(s) \in Nat /\ Len(s) >= 1 /\ Len(Tail(s)) = Len(s) - 1 /\ Head(s) = s[1]
           /\ \A i \in 1 .. Len(s) - 1 : Tail(s)[i] = s[i + 1]
BY HeadTailProperties, LenProperties, EmptySeq

LEMMA MxConcat ==
    ASSUME NEW s \in Seq(MxItems), NEW t \in Seq(MxItems)
    PROVE  /\ s \o t \in Seq(MxItems) /\ Len(s) \in Nat /\ Len(t) \in Nat /\ Len(s \o t) = Len(s) + Len(t)
           /\ \A i \in 1 .. Len(s) : (s \o t)[i] = s[i]
           /\ \A i \in 1 .. Len(t) : (s \o t)[Len(s) + i] = t[i]
<1>1. /\ s \o t \in Seq(MxItems) /\ Len(s) \in Nat /\ Len(t) \in Nat /\ Len(s \o t) = Len(s) + Len(t)
      /\ \A i \in 1 .. Len(s) + Len(t) : (s \o t)[i] = IF i <= Len(s) THEN s[i] ELSE t[i - Len(s)]
  BY ConcatProperties, LenProperties
<1> QED BY <1>1

LEMMA MxShapeTail ==
    ASSUME NEW s \in Seq(MxItems), s # <<>>, MxShape(s)
    PROVE  MxShape(Tail(s))
<1>1. /\ Len(s) \in Nat /\ Len(s) >= 1 /\ Len(Tail(s)) = Len(s) - 1
      /\ \A i \in 1 .. Len(s) - 1 : Tail(s)[i] = s[i + 1]
  BY MxTail
<1>2. MxFrameShape(Tail(s))
  BY <1>1 DEF MxShape, MxFrameShape, MxName
<1>3. MxReadShape(Tail(s))
  BY <1>1 DEF MxShape, MxReadShape, MxName
<1>4. MxReleaseShape(Tail(s)) /\ MxCancelShape(Tail(s))
  BY <1>1 DEF MxShape, MxReleaseShape, MxCancelShape, MxName
<1> QED BY <1>2, <1>3, <1>4 DEF MxShape

LEMMA MxStopsTail ==
    ASSUME NEW s \in Seq(MxItems), s # <<>>, MxStops(s)
    PROVE  MxStops(Tail(s))
<1>1. /\ Len(s) \in Nat /\ Len(s) >= 1 /\ Len(Tail(s)) = Len(s) - 1
      /\ \A i \in 1 .. Len(s) - 1 : Tail(s)[i] = s[i + 1]
  BY MxTail
<1>2. SUFFICES ASSUME NEW i \in 1 .. Len(Tail(s)), MxName(Tail(s), i) \in MxMoving
               PROVE  \E j \in 1 .. Len(Tail(s)) : j > i /\ MxName(Tail(s), j) \in MxStopping
  BY DEF MxStops
<1>3. PICK j \in 1 .. Len(s) : j > i + 1 /\ MxName(s, j) \in MxStopping
  BY <1>1, <1>2 DEF MxStops, MxName
<1>4. j - 1 \in 1 .. Len(Tail(s)) /\ j - 1 > i /\ (j - 1) + 1 = j
  BY <1>1, <1>3
<1>5. MxName(Tail(s), j - 1) = MxName(s, j)
  BY <1>1, <1>4 DEF MxName
<1> QED BY <1>3, <1>4, <1>5

LEMMA MxStopsConcat ==
    ASSUME NEW s \in Seq(MxItems), NEW t \in Seq(MxItems), MxStops(t), MxStops(s) \/ MxHas(t, MxStopping)
    PROVE  MxStops(s \o t)
<1>1. /\ Len(s) \in Nat /\ Len(t) \in Nat /\ Len(s \o t) = Len(s) + Len(t)
      /\ \A i \in 1 .. Len(s) : (s \o t)[i] = s[i]
      /\ \A i \in 1 .. Len(t) : (s \o t)[Len(s) + i] = t[i]
  BY MxConcat
<1>2. SUFFICES ASSUME NEW i \in 1 .. Len(s \o t), MxName(s \o t, i) \in MxMoving
               PROVE  \E j \in 1 .. Len(s \o t) : j > i /\ MxName(s \o t, j) \in MxStopping
  BY DEF MxStops
<1>3. CASE i > Len(s)
  <2>1. i - Len(s) \in 1 .. Len(t) /\ MxName(t, i - Len(s)) \in MxMoving
    BY <1>1, <1>2, <1>3 DEF MxName
  <2>2. PICK j \in 1 .. Len(t) : j > i - Len(s) /\ MxName(t, j) \in MxStopping
    BY <2>1 DEF MxStops
  <2>3. Len(s) + j \in 1 .. Len(s \o t) /\ Len(s) + j > i /\ MxName(s \o t, Len(s) + j) \in MxStopping
    BY <1>1, <2>2 DEF MxName
  <2> QED BY <2>3
<1>4. CASE i <= Len(s) /\ MxStops(s)
  <2>1. i \in 1 .. Len(s) /\ MxName(s, i) \in MxMoving
    BY <1>1, <1>2, <1>4 DEF MxName
  <2>2. PICK j \in 1 .. Len(s) : j > i /\ MxName(s, j) \in MxStopping
    BY <1>4, <2>1 DEF MxStops
  <2> QED BY <1>1, <2>2 DEF MxName
<1>5. CASE i <= Len(s) /\ MxHas(t, MxStopping)
  <2>1. PICK j \in 1 .. Len(t) : MxName(t, j) \in MxStopping
    BY <1>5 DEF MxHas
  <2>2. Len(s) + j \in 1 .. Len(s \o t) /\ Len(s) + j > i /\ MxName(s \o t, Len(s) + j) \in MxStopping
    BY <1>1, <1>5, <2>1 DEF MxName
  <2> QED BY <2>2
<1> QED BY <1>1, <1>2, <1>3, <1>4, <1>5

\* Lists that can stand behind others: nothing at their start depends on what came before.
MxBehind(s) ==
    /\ \A i \in 1 .. Len(s) : MxName(s, i) = "next_frame" => i >= 4
    /\ Len(s) >= 1 => MxName(s, 1) \notin {"resumed", "frozen->frame"}

LEMMA MxShapeConcat ==
    ASSUME NEW s \in Seq(MxItems), NEW t \in Seq(MxItems), MxShape(s), MxShape(t), MxBehind(t),
           \A i \in 1 .. Len(s) : s[i][2] # "release"
    PROVE  MxShape(s \o t)
<1>1. /\ Len(s) \in Nat /\ Len(t) \in Nat /\ Len(s \o t) = Len(s) + Len(t)
      /\ \A i \in 1 .. Len(s) : (s \o t)[i] = s[i]
      /\ \A i \in 1 .. Len(t) : (s \o t)[Len(s) + i] = t[i]
  BY MxConcat
<1>2. \A i \in 1 .. Len(s \o t) : i \in 1 .. Len(s) \/ (i - Len(s) \in 1 .. Len(t) /\ (s \o t)[i] = t[i - Len(s)])
  <2>1. SUFFICES ASSUME NEW i \in 1 .. Len(s \o t), i \notin 1 .. Len(s)
                 PROVE  i - Len(s) \in 1 .. Len(t) /\ (s \o t)[i] = t[i - Len(s)]
    OBVIOUS
  <2>2. i - Len(s) \in 1 .. Len(t) /\ Len(s) + (i - Len(s)) = i
    BY <1>1, <2>1
  <2> QED BY <1>1, <2>2
<1>3. MxFrameShape(s \o t)
  <2>1. SUFFICES ASSUME NEW i \in 1 .. Len(s \o t), MxName(s \o t, i) = "next_frame"
                 PROVE  /\ i + 1 \in 1 .. Len(s \o t) /\ MxName(s \o t, i + 1) = "wait"
                        /\ i >= 2 => MxName(s \o t, i - 1) = "frame"
                        /\ i >= 3 => MxName(s \o t, i - 2) = "prepare"
                        /\ i >= 4 => MxName(s \o t, i - 3) = "frozen?"
    BY DEF MxFrameShape
  <2>2. CASE i \in 1 .. Len(s)
    BY <1>1, <2>1, <2>2 DEF MxShape, MxFrameShape, MxName
  <2>3. CASE i \notin 1 .. Len(s)
    <3> DEFINE k == i - Len(s)
    <3>1. k \in 1 .. Len(t) /\ k >= 4 /\ i = Len(s) + k
      BY <1>1, <1>2, <2>1, <2>3 DEF MxBehind, MxName
    <3>2. /\ k + 1 \in 1 .. Len(t) /\ MxName(t, k + 1) = "wait" /\ MxName(t, k - 1) = "frame"
          /\ MxName(t, k - 2) = "prepare" /\ MxName(t, k - 3) = "frozen?"
      <4>1. MxName(t, k) = "next_frame"
        BY <1>1, <2>1, <3>1 DEF MxName
      <4>2. k >= 2 /\ k >= 3
        BY <3>1
      <4> HIDE DEF k
      <4> QED BY <3>1, <4>1, <4>2 DEF MxShape, MxFrameShape
    <3>3. /\ (s \o t)[Len(s) + (k + 1)] = t[k + 1] /\ (s \o t)[Len(s) + (k - 1)] = t[k - 1]
          /\ (s \o t)[Len(s) + (k - 2)] = t[k - 2] /\ (s \o t)[Len(s) + (k - 3)] = t[k - 3]
      BY <1>1, <3>1, <3>2, SMTT(40)
    <3>4. i + 1 = Len(s) + (k + 1) /\ i - 1 = Len(s) + (k - 1) /\ i - 2 = Len(s) + (k - 2) /\ i - 3 = Len(s) + (k - 3)
      BY <1>1, <3>1
    <3>5. i + 1 \in 1 .. Len(s \o t)
      BY <1>1, <3>1, <3>2, SMTT(40)
    <3> HIDE DEF k
    <3> QED BY <3>2, <3>3, <3>4, <3>5 DEF MxName
  <2> QED BY <2>2, <2>3
<1>4. MxReadShape(s \o t)
  <2>1. SUFFICES ASSUME NEW i \in 1 .. Len(s \o t), MxName(s \o t, i) \in {"resumed", "frozen->frame"}, i >= 2
                 PROVE  MxName(s \o t, i - 1) = "refresh"
    BY DEF MxReadShape
  <2>2. CASE i \in 1 .. Len(s)
    BY <1>1, <2>1, <2>2 DEF MxShape, MxReadShape, MxName
  <2>3. CASE i \notin 1 .. Len(s)
    <3> DEFINE k == i - Len(s)
    <3>1. k \in 1 .. Len(t) /\ i = Len(s) + k /\ MxName(t, k) \in {"resumed", "frozen->frame"}
      BY <1>1, <1>2, <2>1, <2>3 DEF MxName
    <3>2. k >= 2 /\ MxName(t, k - 1) = "refresh"
      BY <1>1, <3>1 DEF MxBehind, MxShape, MxReadShape
    <3>3. (s \o t)[Len(s) + (k - 1)] = t[k - 1] /\ i - 1 = Len(s) + (k - 1)
      BY <1>1, <3>1, <3>2
    <3> QED BY <3>2, <3>3 DEF MxName
  <2> QED BY <2>2, <2>3
<1>5. MxReleaseShape(s \o t)
  BY <1>1, <1>2, SMTT(40) DEF MxShape, MxReleaseShape, MxName
<1>6. MxCancelShape(s \o t)
  BY <1>1, <1>2 DEF MxShape, MxCancelShape, MxName
<1> QED BY <1>3, <1>4, <1>5, <1>6 DEF MxShape

\* Blocks of steps with one policy.
LEMMA MxBlock ==
    ASSUME NEW p \in MxPolicies, NEW N \in SUBSET MxNames, NEW c \in Seq(N)
    PROVE  /\ Msx!Policy(p, c) \in Seq(MxItems) /\ Msx!Policy(p, c) \in Seq(N \X {p})
           /\ Len(Msx!Policy(p, c)) = Len(c) /\ Len(c) \in Nat
           /\ \A i \in 1 .. Len(c) : Msx!Policy(p, c)[i] = <<c[i], p>>
<1>1. Len(c) \in Nat /\ DOMAIN c = 1 .. Len(c) /\ \A i \in 1 .. Len(c) : c[i] \in N
  BY LenProperties, ElementOfSeq
<1>2. Msx!Policy(p, c) = [i \in 1 .. Len(c) |-> <<c[i], p>>]
  BY <1>1 DEF Msx!Policy
<1>3. \A i \in 1 .. Len(c) : <<c[i], p>> \in N \X {p} /\ <<c[i], p>> \in MxItems
  BY <1>1 DEF MxItems
<1>4. Msx!Policy(p, c) \in Seq(N \X {p}) /\ Msx!Policy(p, c) \in Seq(MxItems)
  BY <1>1, <1>2, <1>3, IsASeq
<1>5. Len(Msx!Policy(p, c)) = Len(c)
  BY <1>1, <1>2, <1>4, LenProperties
<1> QED BY <1>1, <1>2, <1>4, <1>5

\* Lists of steps that need nothing of what comes before them, and lists that set nothing going.
MxPlain(s) ==
    /\ s \in Seq(MxItems)
    /\ \A i \in 1 .. Len(s) : /\ MxName(s, i) \notin MxPressNames \cup {"next_frame", "resumed", "frozen->frame"} /\ s[i][2] # "release"
                              /\ MxName(s, i) = "cancel_frame" => s[i][2] \in {"hard", "stop"}
MxCalm(s) == \A i \in 1 .. Len(s) : MxName(s, i) \notin MxMoving

LEMMA MxPlainFacts ==
    ASSUME NEW s, MxPlain(s)
    PROVE  /\ s \in Seq(MxItems) /\ MxShape(s) /\ MxBehind(s) /\ (\A i \in 1 .. Len(s) : s[i][2] # "release")
           /\ ~MxHas(s, MxPressNames)
<1>1. s \in Seq(MxItems) /\ Len(s) \in Nat
  BY LenProperties DEF MxPlain
<1> QED BY <1>1 DEF MxPlain, MxShape, MxFrameShape, MxReadShape, MxReleaseShape, MxCancelShape, MxBehind, MxName, MxHas

LEMMA MxPlainConcat ==
    ASSUME NEW s, NEW t, MxPlain(s), MxPlain(t)
    PROVE  MxPlain(s \o t) /\ (MxCalm(s) /\ MxCalm(t) => MxCalm(s \o t))
<1>1. s \in Seq(MxItems) /\ t \in Seq(MxItems)
  BY DEF MxPlain
<1>2. /\ s \o t \in Seq(MxItems) /\ Len(s) \in Nat /\ Len(t) \in Nat /\ Len(s \o t) = Len(s) + Len(t)
      /\ \A i \in 1 .. Len(s) : (s \o t)[i] = s[i]
      /\ \A i \in 1 .. Len(t) : (s \o t)[Len(s) + i] = t[i]
  BY <1>1, MxConcat
<1>3. \A i \in 1 .. Len(s \o t) : i \in 1 .. Len(s) \/ (i - Len(s) \in 1 .. Len(t) /\ (s \o t)[i] = t[i - Len(s)])
  <2>1. SUFFICES ASSUME NEW i \in 1 .. Len(s \o t), i \notin 1 .. Len(s)
                 PROVE  i - Len(s) \in 1 .. Len(t) /\ (s \o t)[i] = t[i - Len(s)]
    OBVIOUS
  <2>2. i - Len(s) \in 1 .. Len(t) /\ Len(s) + (i - Len(s)) = i
    BY <1>2, <2>1
  <2> QED BY <1>2, <2>2
<1>4. MxPlain(s \o t)
  BY <1>2, <1>3 DEF MxPlain, MxName
<1>5. MxCalm(s) /\ MxCalm(t) => MxCalm(s \o t)
  BY <1>2, <1>3 DEF MxCalm, MxName
<1> QED BY <1>4, <1>5

LEMMA MxHasConcat ==
    ASSUME NEW s \in Seq(MxItems), NEW t \in Seq(MxItems), NEW N, MxHas(s, N) \/ MxHas(t, N)
    PROVE  MxHas(s \o t, N)
<1>2. /\ s \o t \in Seq(MxItems) /\ Len(s) \in Nat /\ Len(t) \in Nat /\ Len(s \o t) = Len(s) + Len(t)
      /\ \A i \in 1 .. Len(s) : (s \o t)[i] = s[i]
      /\ \A i \in 1 .. Len(t) : (s \o t)[Len(s) + i] = t[i]
  BY MxConcat
<1>3. CASE MxHas(s, N)
  BY <1>2, <1>3 DEF MxHas, MxName
<1>4. CASE MxHas(t, N)
  <2>1. PICK i \in 1 .. Len(t) : MxName(t, i) \in N
    BY <1>4 DEF MxHas
  <2>2. Len(s) + i \in 1 .. Len(s \o t) /\ MxName(s \o t, Len(s) + i) \in N
    BY <1>2, <2>1 DEF MxName
  <2> QED BY <2>2 DEF MxHas
<1> QED BY <1>3, <1>4


LEMMA MxPlainBlock ==
    ASSUME NEW p \in MxPolicies \ {"release"}, NEW c, c \in Seq(MxPlainNames) \/ (p \in {"hard", "stop"} /\ c \in Seq(MxHardNames))
    PROVE  MxPlain(Msx!Policy(p, c)) /\ (c \in Seq(MxNames \ MxMoving) => MxCalm(Msx!Policy(p, c)))
<1>0. MxPlainNames \in SUBSET MxNames /\ MxHardNames \in SUBSET MxNames /\ MxNames \ MxMoving \in SUBSET MxNames
  BY DEF MxNames, MxHardNames
<1>1. PICK N \in {MxPlainNames, MxHardNames} : c \in Seq(N) /\ (N = MxHardNames => p \in {"hard", "stop"})
  <2>1. CASE c \in Seq(MxPlainNames)
    <3>1. "cancel_frame" \notin MxPlainNames /\ "cancel_frame" \in MxHardNames
      BY DEF MxPlainNames, MxHardNames
    <3> QED BY <2>1, <3>1
  <2>2. CASE p \in {"hard", "stop"} /\ c \in Seq(MxHardNames)
    BY <2>2
  <2> QED BY <2>1, <2>2
<1>2. /\ Msx!Policy(p, c) \in Seq(MxItems) /\ Len(Msx!Policy(p, c)) = Len(c) /\ Len(c) \in Nat
      /\ \A i \in 1 .. Len(c) : Msx!Policy(p, c)[i] = <<c[i], p>>
  BY <1>0, <1>1, MxBlock
<1>3. \A i \in 1 .. Len(c) : c[i] \in N
  BY <1>1, ElementOfSeq
<1>4. MxPlain(Msx!Policy(p, c))
  <2> DEFINE Out == MxPressNames \cup {"next_frame", "resumed", "frozen->frame"}
  <2>1. \A x \in N : x \notin Out /\ (x = "cancel_frame" => N = MxHardNames)
    BY <1>1 DEF MxPlainNames, MxHardNames, MxPressNames
  <2>2. \A i \in 1 .. Len(c) : /\ MxName(Msx!Policy(p, c), i) = c[i] /\ Msx!Policy(p, c)[i][2] = p
                               /\ c[i] \in N
    BY <1>2, <1>3 DEF MxName
  <2>3. p # "release"
    OBVIOUS
  <2>4. SUFFICES ASSUME NEW i \in 1 .. Len(c)
                 PROVE  /\ MxName(Msx!Policy(p, c), i) \notin MxPressNames \cup {"next_frame", "resumed", "frozen->frame"}
                        /\ Msx!Policy(p, c)[i][2] # "release"
                        /\ MxName(Msx!Policy(p, c), i) = "cancel_frame" => Msx!Policy(p, c)[i][2] \in {"hard", "stop"}
    BY <1>2 DEF MxPlain
  <2> HIDE DEF Out
  <2>a. PICK z : z = c[i] /\ z \in N
    BY <2>2
  <2>b. MxName(Msx!Policy(p, c), i) = z /\ Msx!Policy(p, c)[i][2] = p
    BY <2>2, <2>a
  <2>c. z \notin Out /\ (z = "cancel_frame" => N = MxHardNames)
    BY <2>1, <2>a, Zenon
  <2>5. MxName(Msx!Policy(p, c), i) \notin MxPressNames \cup {"next_frame", "resumed", "frozen->frame"}
    <3>1. z \notin MxPressNames \cup {"next_frame", "resumed", "frozen->frame"}
      BY <2>c DEF Out
    <3> QED BY <2>b, <3>1, Zenon
  <2>6. MxName(Msx!Policy(p, c), i) = "cancel_frame" => Msx!Policy(p, c)[i][2] \in {"hard", "stop"}
    <3>1. z = "cancel_frame" => p \in {"hard", "stop"}
      BY <1>1, <2>c, Zenon
    <3> QED BY <2>b, <3>1, Zenon
  <2> QED BY <2>2, <2>3, <2>5, <2>6
<1>5. c \in Seq(MxNames \ MxMoving) => MxCalm(Msx!Policy(p, c))
  <2>1. HAVE c \in Seq(MxNames \ MxMoving)
  <2>2. \A i \in 1 .. Len(c) : c[i] \in MxNames \ MxMoving
    BY <2>1, ElementOfSeq
  <2> QED BY <1>2, <2>2 DEF MxCalm, MxName
<1> QED BY <1>4, <1>5

\* What a request starts from.
MxScriptOK(s) == s \in Seq(MxItems) /\ MxShape(s) /\ MxBehind(s)

LEMMA MxPlainScripts ==
    ASSUME NEW m \in Msx!Methods \ {"pause", "resume", "step", "press"}
    PROVE  MxPlain(Msx!Script(m))
<1> USE DEF Msx!Soft, Msx!Hard
<1> DEFINE P(p, c) == Msx!Policy(p, c)
<1>1. \A c : c \in Seq(MxPlainNames) => MxPlain(P("soft", c)) /\ MxPlain(P("hard", c)) /\ MxPlain(P("arm", c))
                                        /\ MxPlain(P("back", c)) /\ MxPlain(P("media", c)) /\ MxPlain(P("unarmed", c))
  BY MxPlainBlock DEF MxPolicies
<1>3. \A s, t : MxPlain(s) /\ MxPlain(t) => MxPlain(s \o t)
  BY MxPlainConcat
<1>4. MxPlain(Msx!RequireFrozen) /\ MxPlain(Msx!PrepareTemporal)
  <2>1. <<"frozen?">> \in Seq(MxPlainNames) /\ <<"prepare">> \in Seq(MxPlainNames)
    BY DEF MxPlainNames
  <2> QED BY <1>1, <2>1 DEF Msx!RequireFrozen, Msx!PrepareTemporal
<1>5. Msx!RequireRuntimeIdentity \in Seq(MxPlainNames)
  BY DEF Msx!RequireRuntimeIdentity, MxPlainNames
<1>6. \A c, d : c \in Seq(MxPlainNames) /\ d \in Seq(MxPlainNames) => c \o d \in Seq(MxPlainNames)
  BY ConcatProperties
<1> HIDE DEF P
<1>7. CASE m = "status"
  <2>1. <<"drain", "refresh", "input", "frame", "media", "policy">> \in Seq(MxPlainNames)
    BY DEF MxPlainNames
  <2> QED BY <1>1, <1>3, <1>4, <1>5, <1>6, <1>7, <2>1 DEF P, Msx!Script, Msx!Status
<1>8. CASE m = "get_state"
  <2>1. <<"reg", "frame">> \in Seq(MxPlainNames)
    BY DEF MxPlainNames
  <2> QED BY <1>1, <1>3, <1>4, <1>5, <1>6, <1>8, <2>1 DEF P, Msx!Script, Msx!GetState
<1>9. CASE m = "read"
  <2>1. <<"read">> \in Seq(MxPlainNames)
    BY DEF MxPlainNames
  <2> QED BY <1>1, <1>3, <1>4, <1>5, <1>6, <1>9, <2>1 DEF P, Msx!Script, Msx!ReadMemory
<1>10. CASE m = "batch"
  <2>1. <<"read">> \in Seq(MxPlainNames)
    BY DEF MxPlainNames
  <2> QED BY <1>1, <1>3, <1>4, <1>5, <1>6, <1>10, <2>1 DEF P, Msx!Script, Msx!ReadMemoryBatch
<1>11. CASE m = "write"
  <2>1. <<"write">> \in Seq(MxPlainNames)
    BY DEF MxPlainNames
  <2> QED BY <1>1, <1>3, <1>4, <1>5, <1>6, <1>11, <2>1 DEF P, Msx!Script, Msx!WriteMemory
<1>12. CASE m = "disassemble"
  <2>1. <<"read">> \in Seq(MxPlainNames)
    BY DEF MxPlainNames
  <2> QED BY <1>1, <1>3, <1>4, <1>5, <1>6, <1>12, <2>1 DEF P, Msx!Script, Msx!Disassemble
<1>13. CASE m = "screenshot"
  <2>1. <<"read", "frame">> \in Seq(MxPlainNames)
    BY DEF MxPlainNames
  <2> QED BY <1>1, <1>3, <1>4, <1>5, <1>6, <1>13, <2>1 DEF P, Msx!Script, Msx!Screenshot
<1>14. CASE m = "poll"
  <2>1. <<"drain", "deliver">> \in Seq(MxPlainNames)
    BY DEF MxPlainNames
  <2> QED BY <1>1, <1>3, <1>4, <1>5, <1>6, <1>14, <2>1 DEF P, Msx!Script, Msx!PollEvents
<1>15. CASE m = "step_instructions"
  <2>1. <<"reg", "step", "pause_on", "drain", "reg", "pause_on", "stop!", "reg", "frame">> \in Seq(MxPlainNames)
    BY DEF MxPlainNames
  <2> QED BY <1>1, <1>3, <1>4, <1>5, <1>6, <1>15, <2>1 DEF P, Msx!Script, Msx!InstructionStep
<1>16. CASE m = "hold"
  <2>1. <<"keys_down">> \in Seq(MxPlainNames)
    BY DEF MxPlainNames
  <2> QED BY <1>1, <1>3, <1>4, <1>5, <1>6, <1>16, <2>1 DEF P, Msx!Script, Msx!SetInput, Msx!ApplyButtons
<1>17. CASE m = "free"
  <2>1. <<"keys_up">> \in Seq(MxPlainNames)
    BY DEF MxPlainNames
  <2> QED BY <1>1, <1>3, <1>4, <1>5, <1>6, <1>17, <2>1 DEF P, Msx!Script, Msx!SetInput, Msx!ApplyButtons
<1>18. CASE m = "set_breakpoint"
  <2>1. <<"spec">> \in Seq(MxPlainNames) /\ <<"create">> \in Seq(MxPlainNames) /\ <<"inv">> \in Seq(MxPlainNames)
    BY DEF MxPlainNames
  <2> QED BY <1>1, <1>3, <1>4, <1>5, <1>6, <1>18, <2>1 DEF P, Msx!Script, Msx!SetBreakpoint
<1>19. CASE m = "clear_breakpoint"
  <2>1. <<"remove">> \in Seq(MxPlainNames) /\ <<"inv", "spec">> \in Seq(MxPlainNames)
    BY DEF MxPlainNames
  <2> QED BY <1>1, <1>3, <1>4, <1>5, <1>6, <1>19, <2>1 DEF P, Msx!Script, Msx!ClearBreakpoint
<1>20. CASE m = "save"
  <2>1. <<"store">> \in Seq(MxPlainNames)
    BY DEF MxPlainNames
  <2> QED BY <1>1, <1>3, <1>4, <1>5, <1>6, <1>20, <2>1 DEF P, Msx!Script, Msx!SaveState
<1>21. CASE m = "load"
  <2>1. <<"inv">> \in Seq(MxPlainNames) /\ <<"probe", "media", "restore">> \in Seq(MxPlainNames) /\ <<"activate", "break", "stop!">> \in Seq(MxPlainNames) /\ <<"keys_again", "inv", "probe", "frame">> \in Seq(MxPlainNames) /\ <<"delete">> \in Seq(MxPlainNames)
    BY DEF MxPlainNames
  <2> QED BY <1>1, <1>3, <1>4, <1>5, <1>6, <1>21, <2>1 DEF P, Msx!Script, Msx!LoadState
<1>22. CASE m = "reset"
  <2>1. <<"keys_off", "reset", "break", "pause_on", "stop!">> \in Seq(MxPlainNames) /\ <<"keys_again">> \in Seq(MxPlainNames) /\ <<"inv", "probe">> \in Seq(MxPlainNames) /\ <<"frame">> \in Seq(MxPlainNames)
    BY DEF MxPlainNames
  <2> QED BY <1>1, <1>3, <1>4, <1>5, <1>6, <1>22, <2>1 DEF P, Msx!Script, Msx!Reset
<1>23. CASE m = "media"
  <2>1. <<"media", "frame">> \in Seq(MxPlainNames) /\ <<"disk">> \in Seq(MxPlainNames) /\ <<"stop!">> \in Seq(MxPlainNames) /\ <<"frame">> \in Seq(MxPlainNames)
    BY DEF MxPlainNames
  <2> QED BY <1>1, <1>3, <1>4, <1>5, <1>6, <1>23, <2>1 DEF P, Msx!Script, Msx!ChangeMedia
<1>24. CASE m = "speed"
  <2>1. <<"drain", "refresh", "policy">> \in Seq(MxPlainNames) /\ <<"apply", "refresh">> \in Seq(MxPlainNames)
    BY DEF MxPlainNames
  <2> QED BY <1>1, <1>3, <1>4, <1>5, <1>6, <1>24, <2>1 DEF P, Msx!Script, Msx!ExecutionSpeed
<1> QED BY <1>7, <1>8, <1>9, <1>10, <1>11, <1>12, <1>13, <1>14, <1>15, <1>16, <1>17, <1>18, <1>19, <1>20, <1>21, <1>22, <1>23, <1>24
    DEF Msx!Methods, Msx!Reads, Msx!ParentMethods

LEMMA MxCalmStops == ASSUME NEW s, MxCalm(s) PROVE MxStops(s)
BY DEF MxCalm, MxStops

\* A block of literal steps, position by position.
LEMMA MxNamed ==
    ASSUME NEW p \in MxPolicies, NEW c \in Seq(MxNames)
    PROVE  /\ Msx!Policy(p, c) \in Seq(MxItems) /\ Len(Msx!Policy(p, c)) = Len(c) /\ Len(c) \in Nat
           /\ \A i \in 1 .. Len(c) : MxName(Msx!Policy(p, c), i) = c[i] /\ Msx!Policy(p, c)[i][2] = p
<1>1. MxNames \in SUBSET MxNames
  OBVIOUS
<1>2. /\ Msx!Policy(p, c) \in Seq(MxItems) /\ Len(Msx!Policy(p, c)) = Len(c) /\ Len(c) \in Nat
      /\ \A i \in 1 .. Len(c) : Msx!Policy(p, c)[i] = <<c[i], p>>
  BY <1>1, MxBlock
<1> QED BY <1>2 DEF MxName

LEMMA MxAssoc ==
    ASSUME NEW a \in Seq(MxItems), NEW b \in Seq(MxItems), NEW c \in Seq(MxItems)
    PROVE  (a \o b) \o c = a \o (b \o c)
BY ConcatAssociative

\* Lists of a pause and of a resume.
LEMMA MxPauseScript ==
    /\ MxScriptOK(Msx!Pause) /\ MxCalm(Msx!Pause) /\ MxHas(Msx!Pause, MxStopping)
    /\ \A i \in 1 .. Len(Msx!Pause) : Msx!Pause[i][2] # "release"
    /\ ~MxHas(Msx!Pause, MxPressNames)
<1> DEFINE A == Msx!Policy("soft", <<"refresh", "frozen->frame", "pause_on">>)
           B == Msx!Policy("unpause", <<"break">>)
           C == Msx!Policy("hard", <<"stop!">>)
           D == Msx!Policy("soft", <<"frame">>)
<1>1. Msx!Pause = ((A \o B) \o C) \o D
  BY DEF Msx!Pause, Msx!Soft, Msx!Hard
<1>2. /\ A \in Seq(MxItems) /\ Len(A) = 3 /\ MxName(A, 1) = "refresh" /\ MxName(A, 2) = "frozen->frame" /\ MxName(A, 3) = "pause_on"
      /\ A[1][2] = "soft" /\ A[2][2] = "soft" /\ A[3][2] = "soft"
  <2>1. PICK c : c = <<"refresh", "frozen->frame", "pause_on">>
    OBVIOUS
  <2>2. c \in Seq(MxNames) /\ Len(c) = 3 /\ c[1] = "refresh" /\ c[2] = "frozen->frame" /\ c[3] = "pause_on"
    BY <2>1 DEF MxNames, MxHardNames, MxPlainNames, MxPressNames
  <2>3. A = Msx!Policy("soft", c)
    BY <2>1
  <2> HIDE DEF A
  <2> QED BY <2>2, <2>3, MxNamed DEF MxPolicies
<1>3. MxPlain(B) /\ MxPlain(C) /\ MxPlain(D) /\ MxCalm(B) /\ MxCalm(C) /\ MxCalm(D)
  <2>1. /\ <<"break">> \in Seq(MxPlainNames) /\ <<"stop!">> \in Seq(MxPlainNames) /\ <<"frame">> \in Seq(MxPlainNames)
        /\ <<"break">> \in Seq(MxNames \ MxMoving) /\ <<"stop!">> \in Seq(MxNames \ MxMoving)
        /\ <<"frame">> \in Seq(MxNames \ MxMoving)
    BY DEF MxNames, MxHardNames, MxPlainNames, MxPressNames, MxMoving
  <2> QED BY <2>1, MxPlainBlock DEF MxPolicies
<1>4. MxHas(C, MxStopping)
  <2>1. PICK c : c = <<"stop!">>
    OBVIOUS
  <2>2. c \in Seq(MxNames) /\ Len(c) = 1 /\ c[1] = "stop!" /\ C = Msx!Policy("hard", c)
    BY <2>1 DEF MxNames, MxHardNames, MxPlainNames, MxPressNames
  <2> HIDE DEF C
  <2>3. Len(C) = 1 /\ MxName(C, 1) = "stop!"
    <3>1. "hard" \in MxPolicies
      BY DEF MxPolicies
    <3>2. Len(C) = Len(c) /\ \A i \in 1 .. Len(c) : MxName(C, i) = c[i]
      BY <2>2, <3>1, MxNamed
    <3> QED BY <2>2, <3>2
  <2> QED BY <2>3 DEF MxHas, MxStopping
<1> HIDE DEF A, B, C, D
<1>5. MxShape(A) /\ MxBehind(A) /\ MxCalm(A) /\ \A i \in 1 .. Len(A) : A[i][2] # "release"
  BY <1>2 DEF MxShape, MxFrameShape, MxReadShape, MxReleaseShape, MxCancelShape, MxBehind, MxCalm, MxMoving
<1>6. MxPlain((B \o C) \o D) /\ MxCalm((B \o C) \o D) /\ MxHas((B \o C) \o D, MxStopping)
  BY <1>3, <1>4, MxPlainConcat, MxHasConcat, MxPlainFacts
<1> DEFINE E == (B \o C) \o D
<1>7. Msx!Pause = A \o E
  <2>1. B \in Seq(MxItems) /\ C \in Seq(MxItems) /\ D \in Seq(MxItems)
    BY <1>3 DEF MxPlain
  <2>2. (A \o B) \o C = A \o (B \o C) /\ B \o C \in Seq(MxItems)
    BY <1>2, <2>1, MxAssoc, ConcatProperties
  <2>3. (A \o (B \o C)) \o D = A \o ((B \o C) \o D)
    BY <1>2, <2>1, <2>2, MxAssoc, ZenonT(60)
  <2> QED BY <1>1, <2>2, <2>3
<1> HIDE DEF E
<1>8. MxPlain(E) /\ MxCalm(E) /\ MxHas(E, MxStopping)
  BY <1>6 DEF E
<1>9. E \in Seq(MxItems) /\ MxShape(E) /\ MxBehind(E) /\ (\A i \in 1 .. Len(E) : E[i][2] # "release")
  BY <1>8, MxPlainFacts
<1>10. MxShape(A \o E)
  BY <1>2, <1>5, <1>9, MxShapeConcat
<1>11. /\ A \o E \in Seq(MxItems) /\ Len(E) \in Nat /\ Len(A \o E) = 3 + Len(E)
       /\ \A i \in 1 .. 3 : (A \o E)[i] = A[i]
       /\ \A i \in 1 .. Len(E) : (A \o E)[3 + i] = E[i]
  <2>1. /\ A \o E \in Seq(MxItems) /\ Len(E) \in Nat /\ Len(A \o E) = Len(A) + Len(E)
        /\ \A i \in 1 .. Len(A) : (A \o E)[i] = A[i]
        /\ \A i \in 1 .. Len(E) : (A \o E)[Len(A) + i] = E[i]
    BY <1>2, <1>9, MxConcat
  <2> QED BY <1>2, <2>1
<1>12. \A i \in 1 .. Len(A \o E) : i \in 1 .. 3 \/ (i - 3 \in 1 .. Len(E) /\ (A \o E)[i] = E[i - 3])
  <2>1. SUFFICES ASSUME NEW i \in 1 .. Len(A \o E), i \notin 1 .. 3
                 PROVE  i - 3 \in 1 .. Len(E) /\ (A \o E)[i] = E[i - 3]
    OBVIOUS
  <2>2. i - 3 \in 1 .. Len(E) /\ 3 + (i - 3) = i
    BY <1>11, <2>1
  <2> QED BY <1>11, <2>2
<1>13. MxBehind(A \o E)
  BY <1>2, <1>5, <1>8, <1>11, <1>12 DEF MxBehind, MxPlain, MxName
<1>14. MxCalm(A \o E) /\ \A i \in 1 .. Len(A \o E) : (A \o E)[i][2] # "release"
  BY <1>2, <1>5, <1>8, <1>9, <1>11, <1>12 DEF MxCalm, MxName
<1>15. MxHas(A \o E, MxStopping)
  BY <1>2, <1>8, <1>9, MxHasConcat
<1>16. ~MxHas(A \o E, MxPressNames)
  <2>1. \A i \in 1 .. 3 : MxName(A, i) \notin MxPressNames
    BY <1>2 DEF MxPressNames
  <2>2. \A i \in 1 .. Len(E) : MxName(E, i) \notin MxPressNames
    BY <1>8 DEF MxPlain
  <2> QED BY <1>11, <1>12, <2>1, <2>2 DEF MxHas, MxName
<1> QED BY <1>7, <1>10, <1>11, <1>13, <1>14, <1>15, <1>16 DEF MxScriptOK

LEMMA MxResumeScript ==
    /\ MxScriptOK(Msx!Resume) /\ Len(Msx!Resume) = 3 /\ MxName(Msx!Resume, 1) = "cont"
    /\ \A i \in 1 .. Len(Msx!Resume) : MxName(Msx!Resume, i) \in MxResumeNames
<1>0. PICK c : c = <<"cont", "refresh", "resumed">>
  OBVIOUS
<1>1. c \in Seq(MxNames) /\ Len(c) = 3 /\ c[1] = "cont" /\ c[2] = "refresh" /\ c[3] = "resumed"
  BY <1>0 DEF MxNames, MxHardNames, MxPlainNames, MxPressNames
<1>2. Msx!Resume = Msx!Policy("soft", c)
  BY <1>0 DEF Msx!Resume, Msx!Soft
<1>3. /\ Msx!Resume \in Seq(MxItems) /\ Len(Msx!Resume) = 3
      /\ \A i \in 1 .. 3 : MxName(Msx!Resume, i) = c[i] /\ Msx!Resume[i][2] = "soft"
  BY <1>1, <1>2, MxNamed DEF MxPolicies
<1>4. /\ MxName(Msx!Resume, 1) = "cont" /\ MxName(Msx!Resume, 2) = "refresh" /\ MxName(Msx!Resume, 3) = "resumed"
      /\ \A i \in 1 .. 3 : Msx!Resume[i][2] = "soft"
  BY <1>1, <1>3
<1>5. \A i \in 1 .. Len(Msx!Resume) : MxName(Msx!Resume, i) \in MxResumeNames
  BY <1>3, <1>4 DEF MxResumeNames
<1> QED BY <1>3, <1>4, <1>5 DEF MxScriptOK, MxShape, MxFrameShape, MxReadShape, MxReleaseShape, MxCancelShape, MxBehind

\* Positions behind the first n of a list.
LEMMA MxSplit ==
    ASSUME NEW s \in Seq(MxItems), NEW t \in Seq(MxItems), NEW i \in 1 .. Len(s \o t)
    PROVE  \/ i \in 1 .. Len(s) /\ (s \o t)[i] = s[i]
           \/ i - Len(s) \in 1 .. Len(t) /\ i > Len(s) /\ (s \o t)[i] = t[i - Len(s)]
<1>1. /\ Len(s) \in Nat /\ Len(t) \in Nat /\ Len(s \o t) = Len(s) + Len(t)
      /\ \A k \in 1 .. Len(s) : (s \o t)[k] = s[k]
      /\ \A k \in 1 .. Len(t) : (s \o t)[Len(s) + k] = t[k]
  BY MxConcat
<1>2. CASE i \in 1 .. Len(s)
  BY <1>1, <1>2
<1>3. CASE i \notin 1 .. Len(s)
  <2>1. i - Len(s) \in 1 .. Len(t) /\ Len(s) + (i - Len(s)) = i /\ i > Len(s)
    BY <1>1, <1>3
  <2> QED BY <1>1, <2>1
<1> QED BY <1>2, <1>3

LEMMA MxLacksConcat ==
    ASSUME NEW s \in Seq(MxItems), NEW t \in Seq(MxItems), NEW N, ~MxHas(s, N), ~MxHas(t, N)
    PROVE  ~MxHas(s \o t, N)
<1>1. SUFFICES ASSUME NEW i \in 1 .. Len(s \o t), MxName(s \o t, i) \in N PROVE FALSE
  BY DEF MxHas
<1> QED BY <1>1, MxSplit DEF MxHas, MxName

\* The advance by frames.
LEMMA MxFrameScript ==
    /\ MxScriptOK(Msx!FrameStep) /\ MxStops(Msx!FrameStep) /\ MxHas(Msx!FrameStep, MxStopping)
    /\ \A i \in 1 .. Len(Msx!FrameStep) : Msx!FrameStep[i][2] # "release"
    /\ ~MxHas(Msx!FrameStep, MxPressNames)
<1> DEFINE A == Msx!Policy("soft", <<"frozen?">>)
           B == Msx!Policy("soft", <<"prepare">>)
           C == Msx!Policy("soft", <<"frame">>)
           D == Msx!Policy("step", <<"next_frame", "wait">>)
           E == Msx!Policy("soft", <<"frame", "drain", "stepped">>)
           AB == A \o B
           ABC == AB \o C
           F == ABC \o D
<1>1. Msx!FrameStep = F \o E
  BY DEF Msx!FrameStep, Msx!RequireFrozen, Msx!PrepareTemporal, Msx!Soft
<1>2. PICK a, b, c, d, e : a = <<"frozen?">> /\ b = <<"prepare">> /\ c = <<"frame">> /\ d = <<"next_frame", "wait">>
                           /\ e = <<"frame", "drain", "stepped">>
  OBVIOUS
<1>3. /\ a \in Seq(MxNames) /\ Len(a) = 1 /\ a[1] = "frozen?" /\ b \in Seq(MxNames) /\ Len(b) = 1 /\ b[1] = "prepare"
      /\ c \in Seq(MxNames) /\ Len(c) = 1 /\ c[1] = "frame"
  BY <1>2 DEF MxNames, MxHardNames, MxPlainNames, MxPressNames
<1>4. d \in Seq(MxNames) /\ Len(d) = 2 /\ d[1] = "next_frame" /\ d[2] = "wait"
  BY <1>2 DEF MxNames, MxHardNames, MxPlainNames, MxPressNames
<1>5. /\ e \in Seq(MxNames) /\ e \in Seq(MxPlainNames) /\ e \in Seq(MxNames \ MxMoving)
      /\ Len(e) = 3 /\ e[1] = "frame" /\ e[2] = "drain" /\ e[3] = "stepped"
  BY <1>2 DEF MxNames, MxHardNames, MxPlainNames, MxPressNames, MxMoving
<1>6. A = Msx!Policy("soft", a) /\ B = Msx!Policy("soft", b) /\ C = Msx!Policy("soft", c) /\ D = Msx!Policy("step", d)
      /\ E = Msx!Policy("soft", e)
  BY <1>2
<1> HIDE DEF A, B, C, D, E
<1>7. /\ A \in Seq(MxItems) /\ Len(A) = 1 /\ MxName(A, 1) = "frozen?" /\ A[1][2] = "soft"
      /\ B \in Seq(MxItems) /\ Len(B) = 1 /\ MxName(B, 1) = "prepare" /\ B[1][2] = "soft"
      /\ C \in Seq(MxItems) /\ Len(C) = 1 /\ MxName(C, 1) = "frame" /\ C[1][2] = "soft"
  BY <1>3, <1>6, MxNamed DEF MxPolicies
<1>8. /\ D \in Seq(MxItems) /\ Len(D) = 2 /\ MxName(D, 1) = "next_frame" /\ MxName(D, 2) = "wait"
      /\ D[1][2] = "step" /\ D[2][2] = "step"
  BY <1>4, <1>6, MxNamed DEF MxPolicies
<1>9. MxPlain(E) /\ MxCalm(E)
  BY <1>5, <1>6, MxPlainBlock DEF MxPolicies
<1>10. MxHas(E, MxStopping)
  <2>a. e \in Seq(MxNames) /\ "soft" \in MxPolicies
    BY <1>5 DEF MxPolicies
  <2>0. Len(E) = Len(e) /\ \A i \in 1 .. Len(e) : MxName(E, i) = e[i]
    BY <1>6, <2>a, MxNamed
  <2>1. Len(E) = 3 /\ MxName(E, 3) = "stepped"
    BY <1>5, <2>0
  <2> QED BY <2>1 DEF MxHas, MxStopping
<1>11. /\ AB \in Seq(MxItems) /\ Len(AB) = 2 /\ MxName(AB, 1) = "frozen?" /\ MxName(AB, 2) = "prepare"
       /\ AB[1][2] = "soft" /\ AB[2][2] = "soft"
  BY <1>7, MxConcat DEF MxName
<1> HIDE DEF AB
<1>12. /\ ABC \in Seq(MxItems) /\ Len(ABC) = 3 /\ MxName(ABC, 1) = "frozen?" /\ MxName(ABC, 2) = "prepare" /\ MxName(ABC, 3) = "frame"
       /\ ABC[1][2] = "soft" /\ ABC[2][2] = "soft" /\ ABC[3][2] = "soft"
  BY <1>7, <1>11, MxConcat DEF MxName
<1> HIDE DEF ABC
<1>13. /\ F \in Seq(MxItems) /\ Len(F) = 5 /\ MxName(F, 1) = "frozen?" /\ MxName(F, 2) = "prepare" /\ MxName(F, 3) = "frame"
       /\ MxName(F, 4) = "next_frame" /\ MxName(F, 5) = "wait"
       /\ F[1][2] = "soft" /\ F[2][2] = "soft" /\ F[3][2] = "soft" /\ F[4][2] = "step" /\ F[5][2] = "step"
  <2>1. /\ F \in Seq(MxItems) /\ Len(F) = Len(ABC) + Len(D)
        /\ \A i \in 1 .. Len(ABC) : F[i] = ABC[i]
        /\ \A i \in 1 .. Len(D) : F[Len(ABC) + i] = D[i]
    BY <1>8, <1>12, MxConcat
  <2> HIDE DEF F
  <2>2. Len(F) = 5 /\ F[1] = ABC[1] /\ F[2] = ABC[2] /\ F[3] = ABC[3] /\ F[4] = D[1] /\ F[5] = D[2]
    BY <1>8, <1>12, <2>1
  <2> QED BY <1>8, <1>12, <2>1, <2>2 DEF MxName
<1> HIDE DEF F
<1>14. MxShape(F) /\ MxBehind(F) /\ \A i \in 1 .. Len(F) : F[i][2] # "release"
  BY <1>13 DEF MxShape, MxFrameShape, MxReadShape, MxReleaseShape, MxCancelShape, MxBehind
<1>15. E \in Seq(MxItems) /\ MxShape(E) /\ MxBehind(E) /\ \A i \in 1 .. Len(E) : E[i][2] # "release"
  BY <1>9, MxPlainFacts
<1>16. F \o E \in Seq(MxItems) /\ MxShape(F \o E) /\ MxStops(F \o E) /\ MxHas(F \o E, MxStopping)
  BY <1>9, <1>10, <1>13, <1>14, <1>15, MxConcat, MxShapeConcat, MxStopsConcat, MxHasConcat, MxCalmStops
<1>17. \A i \in 1 .. Len(F \o E) : (F \o E)[i][2] # "release"
  BY <1>13, <1>14, <1>15, MxSplit
<1>18. MxBehind(F \o E)
  <2>1. \A i \in 1 .. Len(F \o E) : MxName(F \o E, i) = "next_frame" => i >= 4
    BY <1>9, <1>13, <1>14, <1>15, MxSplit DEF MxBehind, MxPlain, MxName
  <2>2. MxName(F \o E, 1) = "frozen?"
    <3>1. 1 \in 1 .. Len(F)
      BY <1>13
    <3>2. (F \o E)[1] = F[1]
      BY <1>13, <1>15, <3>1, MxConcat
    <3> QED BY <1>13, <3>2 DEF MxName
  <2> QED BY <2>1, <2>2 DEF MxBehind
<1>19. ~MxHas(F \o E, MxPressNames)
  <2>1. ~MxHas(F, MxPressNames)
    BY <1>13 DEF MxHas, MxPressNames
  <2> QED BY <1>9, <1>13, <1>15, <2>1, MxPlainFacts, MxLacksConcat
<1> QED BY <1>1, <1>16, <1>17, <1>18, <1>19 DEF MxScriptOK

LEMMA MxPressScript ==
    MxScriptOK(Msx!PressButtons) /\ MxStops(Msx!PressButtons) /\ MxHas(Msx!PressButtons, MxStopping)
<1> DEFINE A == Msx!Policy("soft", <<"refresh", "running->pause">>)
           B == Msx!Policy("pulse", <<"keys_down">>)
           R == Msx!Policy("release", <<"keys_back">>)
           Z == Msx!Policy("soft", <<"resume?">>)
           F == Msx!FrameStep
           AB == A \o B
           G == AB \o F
           Y == R \o Z
<1>1. Msx!PressButtons = (G \o R) \o Z
  BY DEF Msx!PressButtons, Msx!Soft
<1>a. PICK a, b : a = <<"refresh", "running->pause">> /\ b = <<"keys_down">>
  OBVIOUS
<1>b. /\ a \in Seq(MxNames) /\ Len(a) = 2 /\ a[1] = "refresh" /\ a[2] = "running->pause"
      /\ b \in Seq(MxNames) /\ Len(b) = 1 /\ b[1] = "keys_down"
  BY <1>a DEF MxNames, MxHardNames, MxPlainNames, MxPressNames
<1>c. A = Msx!Policy("soft", a) /\ B = Msx!Policy("pulse", b)
  BY <1>a
<1>d. "soft" \in MxPolicies /\ "pulse" \in MxPolicies
  BY DEF MxPolicies
<1>3. PICK r, z : r = <<"keys_back">> /\ z = <<"resume?">>
  OBVIOUS
<1>4. r \in Seq(MxNames) /\ Len(r) = 1 /\ r[1] = "keys_back" /\ z \in Seq(MxNames) /\ Len(z) = 1 /\ z[1] = "resume?"
  BY <1>3 DEF MxNames, MxHardNames, MxPlainNames, MxPressNames
<1>5. R = Msx!Policy("release", r) /\ Z = Msx!Policy("soft", z)
  BY <1>3
<1> HIDE DEF A, B, R, Z, F
<1>6. /\ R \in Seq(MxItems) /\ Len(R) = 1 /\ MxName(R, 1) = "keys_back" /\ R[1][2] = "release"
      /\ Z \in Seq(MxItems) /\ Len(Z) = 1 /\ MxName(Z, 1) = "resume?" /\ Z[1][2] = "soft"
  BY <1>4, <1>5, MxNamed DEF MxPolicies
<1>7. /\ Y \in Seq(MxItems) /\ Len(Y) = 2 /\ MxName(Y, 1) = "keys_back" /\ MxName(Y, 2) = "resume?"
      /\ Y[1][2] = "release" /\ Y[2][2] = "soft"
  BY <1>6, MxConcat DEF MxName
<1> HIDE DEF Y
<1>8. MxShape(Y) /\ MxBehind(Y) /\ MxStops(Y)
  BY <1>7 DEF MxShape, MxFrameShape, MxReadShape, MxReleaseShape, MxCancelShape, MxBehind, MxStops, MxMoving
<1>9. /\ F \in Seq(MxItems) /\ MxShape(F) /\ MxBehind(F) /\ MxStops(F) /\ MxHas(F, MxStopping)
      /\ \A i \in 1 .. Len(F) : F[i][2] # "release"
  BY MxFrameScript DEF F, MxScriptOK
<1>e. /\ A \in Seq(MxItems) /\ Len(A) = Len(a) /\ (\A i \in 1 .. Len(a) : MxName(A, i) = a[i] /\ A[i][2] = "soft")
      /\ B \in Seq(MxItems) /\ Len(B) = Len(b) /\ (\A i \in 1 .. Len(b) : MxName(B, i) = b[i] /\ B[i][2] = "pulse")
  BY <1>b, <1>c, <1>d, MxNamed
<1>f. /\ Len(A) = 2 /\ MxName(A, 1) = "refresh" /\ MxName(A, 2) = "running->pause" /\ A[1][2] = "soft" /\ A[2][2] = "soft"
      /\ Len(B) = 1 /\ MxName(B, 1) = "keys_down" /\ B[1][2] = "pulse"
  BY <1>b, <1>e
<1>g. AB \in Seq(MxItems) /\ Len(AB) = Len(A) + Len(B) /\ (\A i \in 1 .. Len(A) : AB[i] = A[i])
      /\ \A i \in 1 .. Len(B) : AB[Len(A) + i] = B[i]
  BY <1>e, MxConcat, ZenonT(60)
<1>h. /\ AB \in Seq(MxItems) /\ Len(AB) = 3 /\ MxName(AB, 1) = "refresh" /\ MxName(AB, 2) = "running->pause" /\ MxName(AB, 3) = "keys_down"
      /\ AB[1][2] = "soft" /\ AB[2][2] = "soft" /\ AB[3][2] = "pulse"
  <2>1. Len(AB) = 3 /\ AB[1] = A[1] /\ AB[2] = A[2] /\ AB[3] = B[1]
    BY <1>f, <1>g
  <2> HIDE DEF AB
  <2> QED BY <1>f, <1>g, <2>1 DEF MxName
<1> HIDE DEF AB
<1>11. MxShape(AB) /\ MxBehind(AB) /\ (\A i \in 1 .. Len(AB) : AB[i][2] # "release")
  BY <1>h DEF MxShape, MxFrameShape, MxReadShape, MxReleaseShape, MxCancelShape, MxBehind
<1>12. G \in Seq(MxItems) /\ MxShape(G) /\ MxStops(G) /\ MxHas(G, MxStopping)
  BY <1>9, <1>11, <1>h, MxConcat, MxShapeConcat, MxStopsConcat, MxHasConcat
<1>13. \A i \in 1 .. Len(G) : G[i][2] # "release" /\ (MxName(G, i) = "next_frame" => i >= 4)
  <2>1. Len(AB) \in Nat
    BY <1>h
  <2>2. \A i \in 1 .. Len(AB) : MxName(AB, i) # "next_frame"
    BY <1>h
  <2>3. SUFFICES ASSUME NEW i \in 1 .. Len(G)
                 PROVE  G[i][2] # "release" /\ (MxName(G, i) = "next_frame" => i >= 4)
    OBVIOUS
  <2>4. \/ i \in 1 .. Len(AB) /\ G[i] = AB[i]
        \/ i - Len(AB) \in 1 .. Len(F) /\ i > Len(AB) /\ G[i] = F[i - Len(AB)]
    BY <1>9, <1>h, <2>3, MxSplit
  <2>5. CASE i \in 1 .. Len(AB) /\ G[i] = AB[i]
    BY <1>11, <2>2, <2>5 DEF MxName
  <2>6. CASE i - Len(AB) \in 1 .. Len(F) /\ i > Len(AB) /\ G[i] = F[i - Len(AB)]
    <3>1. F[i - Len(AB)][2] # "release" /\ (MxName(F, i - Len(AB)) = "next_frame" => i - Len(AB) >= 4)
      BY <1>9, <2>6 DEF MxBehind
    <3> QED BY <2>1, <2>3, <2>6, <3>1 DEF MxName
  <2> QED BY <2>4, <2>5, <2>6
<1>14. Len(G) >= 1 /\ Len(G) \in Nat /\ MxName(G, 1) \notin {"resumed", "frozen->frame"}
  <2>1. AB \in Seq(MxItems) /\ Len(AB) = 3 /\ MxName(AB, 1) = "refresh"
    BY <1>h
  <2> QED BY <1>9, <2>1, MxConcat DEF MxName
<1> HIDE DEF G
<1>15. Msx!PressButtons = G \o Y
  BY <1>1, <1>6, <1>12, MxAssoc, ZenonT(60) DEF Y
<1>16. G \o Y \in Seq(MxItems) /\ MxShape(G \o Y) /\ MxStops(G \o Y) /\ MxHas(G \o Y, MxStopping)
  BY <1>7, <1>8, <1>12, <1>13, MxConcat, MxShapeConcat, MxStopsConcat, MxHasConcat
<1>17. MxBehind(G \o Y)
  <2>1. \A i \in 1 .. Len(Y) : MxName(Y, i) # "next_frame"
    BY <1>7
  <2>2. \A i \in 1 .. Len(G \o Y) : MxName(G \o Y, i) = "next_frame" => i >= 4
    BY <1>7, <1>12, <1>13, <2>1, MxSplit DEF MxName
  <2>3. MxName(G \o Y, 1) = MxName(G, 1)
    BY <1>7, <1>12, <1>14, MxConcat DEF MxName
  <2> QED BY <1>14, <2>2, <2>3 DEF MxBehind
<1> QED BY <1>15, <1>16, <1>17 DEF MxScriptOK

\* A moving step whose stop is in the same block.
LEMMA MxStopsBlock ==
    ASSUME NEW p \in MxPolicies, NEW c \in Seq(MxNames), NEW k \in 1 .. Len(c), c[k] \in MxStopping,
           \A i \in 1 .. Len(c) : c[i] \in MxMoving => i < k
    PROVE  MxStops(Msx!Policy(p, c)) /\ MxHas(Msx!Policy(p, c), MxStopping)
<1>1. /\ Len(Msx!Policy(p, c)) = Len(c)
      /\ \A i \in 1 .. Len(c) : MxName(Msx!Policy(p, c), i) = c[i]
  BY MxNamed
<1> QED BY <1>1 DEF MxStops, MxHas

\* Lists behind which a stop is verified.
MxSafe(s) == MxPlain(s) /\ MxStops(s)
LEMMA MxSafeConcat ==
    ASSUME NEW s, NEW t, MxPlain(s), MxSafe(t), MxStops(s) \/ MxHas(t, MxStopping)
    PROVE  MxSafe(s \o t) /\ (MxHas(s, MxStopping) \/ MxHas(t, MxStopping) => MxHas(s \o t, MxStopping))
<1>1. s \in Seq(MxItems) /\ t \in Seq(MxItems)
  BY DEF MxPlain, MxSafe
<1> QED BY <1>1, MxPlainConcat, MxStopsConcat, MxHasConcat DEF MxSafe

LEMMA MxSafeBlock ==
    ASSUME NEW p \in MxPolicies \ {"release"}, NEW c \in Seq(MxPlainNames \ MxMoving)
    PROVE  MxSafe(Msx!Policy(p, c)) /\ ((\E i \in 1 .. Len(c) : c[i] \in MxStopping) => MxHas(Msx!Policy(p, c), MxStopping))
<1>1. c \in Seq(MxPlainNames) /\ c \in Seq(MxNames \ MxMoving) /\ c \in Seq(MxNames)
  BY SeqMonotonic DEF MxNames, MxHardNames
<1>2. MxPlain(Msx!Policy(p, c)) /\ MxCalm(Msx!Policy(p, c))
  BY <1>1, MxPlainBlock
<1>3. Len(Msx!Policy(p, c)) = Len(c) /\ \A i \in 1 .. Len(c) : MxName(Msx!Policy(p, c), i) = c[i]
  BY <1>1, MxNamed
<1> QED BY <1>2, <1>3, MxCalmStops DEF MxSafe, MxHas

LEMMA MxSafeScripts ==
    ASSUME NEW m \in {"step_instructions", "load", "reset", "media"}
    PROVE  MxStops(Msx!Script(m)) /\ MxHas(Msx!Script(m), MxStopping)
<1> USE DEF Msx!Soft, Msx!Hard
<1>1. \A p \in MxPolicies \ {"release"}, c \in Seq(MxPlainNames \ MxMoving) : MxSafe(Msx!Policy(p, c))
  BY MxSafeBlock
<1>2. \A s, t : MxSafe(s) /\ MxSafe(t) =>
         MxSafe(s \o t) /\ (MxHas(s, MxStopping) \/ MxHas(t, MxStopping) => MxHas(s \o t, MxStopping))
  BY MxSafeConcat DEF MxSafe
<1>3. Msx!RequireRuntimeIdentity \in Seq(MxPlainNames \ MxMoving)
  BY DEF Msx!RequireRuntimeIdentity, MxPlainNames, MxMoving
<1>4. \A c, d : c \in Seq(MxPlainNames \ MxMoving) /\ d \in Seq(MxPlainNames \ MxMoving) => c \o d \in Seq(MxPlainNames \ MxMoving)
  BY ConcatProperties
<1>5. MxSafe(Msx!RequireFrozen) /\ MxSafe(Msx!PrepareTemporal)
  <2>1. <<"frozen?">> \in Seq(MxPlainNames \ MxMoving) /\ <<"prepare">> \in Seq(MxPlainNames \ MxMoving)
    BY DEF MxPlainNames, MxMoving
  <2> QED BY <1>1, <2>1 DEF Msx!RequireFrozen, Msx!PrepareTemporal, MxPolicies
<1>6. CASE m = "step_instructions"
  <2>1. PICK c : c = <<"reg", "step", "pause_on", "drain", "reg", "pause_on", "stop!", "reg", "frame">>
    OBVIOUS
  <2>2. c \in Seq(MxPlainNames) /\ c \in Seq(MxNames) /\ Len(c) = 9
    BY <2>1 DEF MxNames, MxHardNames, MxPlainNames, MxPressNames
  <2>3. /\ c[1] = "reg" /\ c[2] = "step" /\ c[3] = "pause_on" /\ c[4] = "drain" /\ c[5] = "reg" /\ c[6] = "pause_on"
        /\ c[7] = "stop!" /\ c[8] = "reg" /\ c[9] = "frame"
    BY <2>1
  <2>4. 7 \in 1 .. Len(c) /\ c[7] \in MxStopping /\ \A i \in 1 .. Len(c) : c[i] \in MxMoving => i < 7
    BY <2>2, <2>3 DEF MxStopping, MxMoving
  <2>5. MxStops(Msx!Policy("soft", c)) /\ MxHas(Msx!Policy("soft", c), MxStopping) /\ MxPlain(Msx!Policy("soft", c))
    BY <2>2, <2>4, MxStopsBlock, MxPlainBlock DEF MxPolicies
  <2>6. Msx!Script(m) = (Msx!RequireFrozen \o Msx!PrepareTemporal) \o Msx!Policy("soft", c)
    BY <1>6, <2>1 DEF Msx!Script, Msx!InstructionStep
  <2> QED BY <1>2, <1>5, <2>5, <2>6 DEF MxSafe
<1>7. CASE m = "load"
  <2>1. PICK c : c = <<"activate", "break", "stop!">>
    OBVIOUS
  <2>2. c \in Seq(MxPlainNames) /\ c \in Seq(MxNames) /\ Len(c) = 3 /\ c[1] = "activate" /\ c[2] = "break" /\ c[3] = "stop!"
    BY <2>1 DEF MxNames, MxHardNames, MxPlainNames, MxPressNames
  <2>3. PICK d : d = Msx!RequireRuntimeIdentity
    OBVIOUS
  <2>4. PICK e : e = <<"keys_again", "inv", "probe", "frame">>
    OBVIOUS
  <2>5. d \in Seq(MxPlainNames \ MxMoving) /\ e \in Seq(MxPlainNames \ MxMoving)
    BY <1>3, <2>3, <2>4 DEF MxPlainNames, MxMoving
  <2>6. d \in Seq(MxPlainNames) /\ e \in Seq(MxPlainNames)
    BY <2>5, SeqMonotonic
  <2> DEFINE f == (c \o d) \o e
  <2>7. /\ f \in Seq(MxPlainNames) /\ Len(f) >= 3 /\ Len(f) \in Nat /\ f[3] = "stop!"
        /\ \A i \in 1 .. Len(f) : f[i] \in MxMoving => i < 3
    <3>1. /\ c \o d \in Seq(MxPlainNames) /\ Len(d) \in Nat /\ Len(c \o d) = 3 + Len(d)
          /\ \A i \in 1 .. 3 + Len(d) : (c \o d)[i] = IF i <= 3 THEN c[i] ELSE d[i - 3]
      <4>1. /\ c \o d \in Seq(MxPlainNames) /\ Len(d) \in Nat /\ Len(c \o d) = Len(c) + Len(d)
            /\ \A i \in 1 .. Len(c) + Len(d) : (c \o d)[i] = IF i <= Len(c) THEN c[i] ELSE d[i - Len(c)]
        BY <2>2, <2>6, ConcatProperties, LenProperties
      <4> QED BY <2>2, <4>1
    <3>2. \A i \in 1 .. Len(d) : d[i] \notin MxMoving
      BY <2>5, ElementOfSeq
    <3>3. (c \o d)[3] = "stop!" /\ \A i \in 1 .. Len(c \o d) : (c \o d)[i] \in MxMoving => i < 3
      BY <2>2, <3>1, <3>2 DEF MxMoving
    <3> HIDE DEF f
    <3>4. PICK x : x = c \o d
      OBVIOUS
    <3>5. x \in Seq(MxPlainNames) /\ Len(x) \in Nat /\ Len(x) >= 3 /\ x[3] = "stop!" /\ \A i \in 1 .. Len(x) : x[i] \in MxMoving => i < 3
      BY <3>1, <3>3, <3>4
    <3>6. /\ x \o e \in Seq(MxPlainNames) /\ Len(e) \in Nat /\ Len(x \o e) = Len(x) + Len(e)
          /\ \A i \in 1 .. Len(x) + Len(e) : (x \o e)[i] = IF i <= Len(x) THEN x[i] ELSE e[i - Len(x)]
      BY <2>6, <3>5, ConcatProperties, LenProperties
    <3>7. \A i \in 1 .. Len(e) : e[i] \notin MxMoving
      BY <2>5, ElementOfSeq
    <3> QED BY <3>4, <3>5, <3>6, <3>7 DEF f
  <2>8. f \in Seq(MxNames)
    BY <2>7, SeqMonotonic DEF MxNames, MxHardNames
  <2> HIDE DEF f
  <2>9. MxStops(Msx!Policy("back", f)) /\ MxHas(Msx!Policy("back", f), MxStopping) /\ MxPlain(Msx!Policy("back", f))
    <3>1. 3 \in 1 .. Len(f) /\ f[3] \in MxStopping
      BY <2>7 DEF MxStopping
    <3> QED BY <2>7, <2>8, <3>1, MxStopsBlock, MxPlainBlock DEF MxPolicies
  <2>10. MxSafe(Msx!Policy("hard", Msx!RequireRuntimeIdentity \o <<"inv">>)) /\ MxSafe(Msx!Policy("soft", <<"probe", "media", "restore">>))
         /\ MxSafe(Msx!Policy("hard", <<"delete">>))
    <3>1. <<"inv">> \in Seq(MxPlainNames \ MxMoving) /\ <<"probe", "media", "restore">> \in Seq(MxPlainNames \ MxMoving)
          /\ <<"delete">> \in Seq(MxPlainNames \ MxMoving)
      BY DEF MxPlainNames, MxMoving
    <3> QED BY <1>1, <1>3, <1>4, <3>1 DEF MxPolicies
  <2>11. Msx!Script(m) = (((Msx!RequireFrozen \o Msx!Policy("hard", Msx!RequireRuntimeIdentity \o <<"inv">>))
                            \o Msx!Policy("soft", <<"probe", "media", "restore">>)) \o Msx!Policy("back", f)) \o Msx!Policy("hard", <<"delete">>)
    BY <1>7, <2>1, <2>3, <2>4 DEF f, Msx!Script, Msx!LoadState
  <2> QED BY <1>2, <1>5, <2>9, <2>10, <2>11 DEF MxSafe
<1>8. CASE m = "reset"
  <2>1. PICK c, d : c = <<"keys_off", "reset", "break", "pause_on", "stop!">> /\ d = Msx!RequireRuntimeIdentity
    OBVIOUS
  <2>2. c \in Seq(MxPlainNames \ MxMoving) /\ Len(c) = 5 /\ c[5] \in MxStopping
    BY <2>1 DEF MxPlainNames, MxMoving, MxStopping
  <2>3. MxSafe(Msx!Policy("soft", c)) /\ MxHas(Msx!Policy("soft", c), MxStopping)
    BY <2>2, MxSafeBlock DEF MxPolicies
  <2>4. /\ <<"keys_again">> \in Seq(MxPlainNames \ MxMoving) /\ <<"inv", "probe">> \in Seq(MxPlainNames \ MxMoving)
        /\ <<"frame">> \in Seq(MxPlainNames \ MxMoving)
    BY DEF MxPlainNames, MxMoving
  <2>5. MxSafe(Msx!Policy("hard", d)) /\ MxSafe(Msx!Policy("soft", <<"keys_again">>)) /\ MxSafe(Msx!Policy("hard", <<"inv", "probe">>))
        /\ MxSafe(Msx!Policy("soft", <<"frame">>))
    BY <1>1, <1>3, <2>1, <2>4 DEF MxPolicies
  <2>6. Msx!Script(m) = (((Msx!Policy("soft", c) \o Msx!Policy("hard", d)) \o Msx!Policy("soft", <<"keys_again">>))
                          \o Msx!Policy("hard", <<"inv", "probe">>)) \o Msx!Policy("soft", <<"frame">>)
    BY <1>8, <2>1 DEF Msx!Script, Msx!Reset
  <2> QED BY <1>2, <2>3, <2>5, <2>6 DEF MxSafe
<1>9. CASE m = "media"
  <2> DEFINE I == Msx!RequireRuntimeIdentity
             u == I \o <<"media", "frame">>
             w == (<<"stop!">> \o I) \o <<"frame">>
  <2>1. /\ <<"stop!">> \in Seq(MxPlainNames \ MxMoving) /\ <<"media", "frame">> \in Seq(MxPlainNames \ MxMoving)
        /\ <<"frame">> \in Seq(MxPlainNames \ MxMoving) /\ <<"disk">> \in Seq(MxPlainNames \ MxMoving)
    BY DEF MxPlainNames, MxMoving
  <2>2. u \in Seq(MxPlainNames \ MxMoving) /\ w \in Seq(MxPlainNames \ MxMoving)
    BY <1>3, <1>4, <2>1
  <2>3. 1 \in 1 .. Len(w) /\ w[1] = "stop!"
    <3>1. PICK a, b, f : a = <<"stop!">> /\ b = I /\ f = <<"frame">>
      OBVIOUS
    <3>2. a \in Seq(MxPlainNames) /\ Len(a) = 1 /\ a[1] = "stop!" /\ b \in Seq(MxPlainNames) /\ f \in Seq(MxPlainNames)
      BY <1>3, <2>1, <3>1, SeqMonotonic
    <3>3. a \o b \in Seq(MxPlainNames) /\ Len(b) \in Nat /\ Len(a \o b) = 1 + Len(b) /\ (a \o b)[1] = "stop!"
      <4>1. /\ a \o b \in Seq(MxPlainNames) /\ Len(b) \in Nat /\ Len(a \o b) = Len(a) + Len(b)
            /\ \A i \in 1 .. Len(a) + Len(b) : (a \o b)[i] = IF i <= Len(a) THEN a[i] ELSE b[i - Len(a)]
        BY <3>2, ConcatProperties, LenProperties
      <4> QED BY <3>2, <4>1
    <3>4. PICK x : x = a \o b
      OBVIOUS
    <3>5. Len(f) \in Nat /\ Len(x) \in Nat /\ Len(x) >= 1 /\ Len(x \o f) = Len(x) + Len(f) /\ (x \o f)[1] = "stop!"
      BY <3>2, <3>3, <3>4, ConcatProperties, LenProperties
    <3> QED BY <3>1, <3>4, <3>5
  <2> HIDE DEF I, u, w
  <2>4. MxSafe(Msx!Policy("soft", u)) /\ MxSafe(Msx!Policy("media", <<"disk">>)) /\ MxSafe(Msx!Policy("hard", w))
        /\ MxHas(Msx!Policy("hard", w), MxStopping)
    BY <2>1, <2>2, <2>3, MxSafeBlock DEF MxPolicies, MxStopping
  <2>5. Msx!Script(m) = ((Msx!RequireFrozen \o Msx!Policy("soft", u)) \o Msx!Policy("media", <<"disk">>)) \o Msx!Policy("hard", w)
    BY <1>9 DEF I, u, w, Msx!Script, Msx!ChangeMedia
  <2> QED BY <1>2, <1>5, <2>4, <2>5 DEF MxSafe
<1> QED BY <1>6, <1>7, <1>8, <1>9

LEMMA MxScripts ==
    ASSUME NEW m \in Msx!Methods
    PROVE  /\ MxScriptOK(Msx!Script(m))
           /\ m \in MxHaltMethods => MxStops(Msx!Script(m)) /\ MxHas(Msx!Script(m), MxStopping)
           /\ MxOwned(m, Msx!Script(m))
<1>1. CASE m = "pause"
  <2>1. Msx!Script(m) = Msx!Pause
    BY <1>1 DEF Msx!Script
  <2> QED BY <1>1, <2>1, MxPauseScript, MxCalmStops DEF MxOwned
<1>2. CASE m = "resume"
  <2>1. Msx!Script(m) = Msx!Resume
    BY <1>2 DEF Msx!Script
  <2>2. ~MxHas(Msx!Resume, MxPressNames)
    BY MxResumeScript DEF MxHas, MxResumeNames, MxPressNames
  <2> QED BY <1>2, <2>1, <2>2, MxResumeScript DEF MxHaltMethods, MxOwned
<1>3. CASE m = "step"
  <2>1. Msx!Script(m) = Msx!FrameStep
    BY <1>3 DEF Msx!Script
  <2> QED BY <1>3, <2>1, MxFrameScript DEF MxOwned
<1>4. CASE m = "press"
  <2>1. Msx!Script(m) = Msx!PressButtons
    BY <1>4 DEF Msx!Script
  <2> QED BY <1>4, <2>1, MxPressScript DEF MxOwned
<1>5. CASE m \notin {"pause", "resume", "step", "press"}
  <2>1. MxPlain(Msx!Script(m))
    BY <1>5, MxPlainScripts
  <2>2. m \in MxHaltMethods => MxStops(Msx!Script(m)) /\ MxHas(Msx!Script(m), MxStopping)
    <3>1. m # "cleanup"
      BY DEF Msx!Methods, Msx!Reads, Msx!ParentMethods
    <3> QED BY <1>5, <3>1, MxSafeScripts DEF MxHaltMethods
  <2> QED BY <1>5, <2>1, <2>2, MxPlainFacts DEF MxScriptOK, MxOwned
<1> QED BY <1>1, <1>2, <1>3, <1>4, <1>5

\* The releases of a cleanup, and the whole of it.
LEMMA MxPortScript ==
    ASSUME NEW port \in BOOLEAN
    PROVE  LET u == Msx!ReleasePorts(port)
           IN /\ MxPlain(u) /\ MxCalm(u) /\ MxCleanShape(u) /\ Len(u) \in Nat
              /\ port => MxHas(u, {"released"})
<1>1. CASE port
  <2>1. PICK c : c = <<"keys_up", "released">>
    OBVIOUS
  <2>2. c \in Seq(MxNames) /\ c \in Seq(MxPlainNames) /\ Len(c) = 2 /\ c[1] = "keys_up" /\ c[2] = "released"
    BY <2>1 DEF MxNames, MxHardNames, MxPlainNames, MxPressNames
  <2>3. PICK u : u = Msx!Policy("hard", c)
    OBVIOUS
  <2>4. u = Msx!ReleasePorts(port)
    BY <1>1, <2>1, <2>3 DEF Msx!ReleasePorts, Msx!Hard
  <2>5. Len(u) = 2 /\ MxName(u, 1) = "keys_up" /\ MxName(u, 2) = "released" /\ u[1][2] = "hard" /\ u[2][2] = "hard"
    BY <2>2, <2>3, MxNamed DEF MxPolicies
  <2>6. MxPlain(u)
    BY <2>2, <2>3, MxPlainBlock DEF MxPolicies
  <2>7. MxCalm(u) /\ MxCleanShape(u) /\ MxHas(u, {"released"})
    BY <2>5 DEF MxCalm, MxMoving, MxCleanShape, MxCleanNames, MxHas
  <2> QED BY <2>4, <2>5, <2>6, <2>7
<1>2. CASE ~port
  <2>1. PICK u : u = Msx!ReleasePorts(port)
    OBVIOUS
  <2>2. u = <<>>
    BY <1>2, <2>1 DEF Msx!ReleasePorts
  <2>3. u \in Seq(MxItems) /\ Len(u) = 0
    BY <2>2, EmptySeq
  <2> QED BY <1>2, <2>1, <2>3 DEF MxPlain, MxCalm, MxCleanShape
<1> QED BY <1>1, <1>2

LEMMA MxCleanScript ==
    ASSUME NEW port \in BOOLEAN
    PROVE  LET s == Msx!CleanParent(port)
           IN /\ MxScriptOK(s) /\ MxStops(s) /\ MxHas(s, MxStopping) /\ MxOwned("cleanup", s)
              /\ MxCleanShape(s) /\ MxHas(s, {"cancel_frame"}) /\ (port => MxHas(s, {"released"}))
<1>1. PICK c : c = <<"cancel_frame", "pause_on", "break", "stop!">>
  OBVIOUS
<1>2. /\ c \in Seq(MxNames) /\ c \in Seq(MxHardNames) /\ Len(c) = 4
      /\ c[1] = "cancel_frame" /\ c[2] = "pause_on" /\ c[3] = "break" /\ c[4] = "stop!"
  BY <1>1 DEF MxNames, MxHardNames, MxPlainNames, MxPressNames
<1>3. PICK a, u : a = Msx!Policy("stop", c) /\ u = Msx!ReleasePorts(port)
  OBVIOUS
<1>4. PICK s : s = a \o u
  OBVIOUS
<1>5. Msx!CleanParent(port) = s
  BY <1>1, <1>3, <1>4 DEF Msx!CleanParent
<1>6. /\ Len(a) = 4 /\ MxName(a, 1) = "cancel_frame" /\ MxName(a, 2) = "pause_on" /\ MxName(a, 3) = "break"
      /\ MxName(a, 4) = "stop!" /\ \A i \in 1 .. 4 : a[i][2] = "stop"
  BY <1>2, <1>3, MxNamed DEF MxPolicies
<1>7. MxPlain(a)
  BY <1>2, <1>3, MxPlainBlock DEF MxPolicies
<1>8. MxCalm(a) /\ MxHas(a, MxStopping) /\ MxHas(a, {"cancel_frame"}) /\ MxCleanShape(a)
  BY <1>6 DEF MxCalm, MxMoving, MxHas, MxStopping, MxCleanShape, MxCleanNames
<1>9. MxPlain(u) /\ MxCalm(u) /\ MxCleanShape(u) /\ (port => MxHas(u, {"released"}))
  BY <1>3, MxPortScript
<1>10. a \in Seq(MxItems) /\ u \in Seq(MxItems)
  BY <1>7, <1>9 DEF MxPlain
<1>11. MxPlain(s) /\ MxCalm(s)
  BY <1>4, <1>7, <1>8, <1>9, MxPlainConcat
<1>12. MxHas(s, MxStopping) /\ MxHas(s, {"cancel_frame"}) /\ (port => MxHas(s, {"released"}))
  BY <1>4, <1>8, <1>9, <1>10, MxHasConcat
<1>13. MxCleanShape(s)
  <2>1. /\ Len(a) \in Nat /\ Len(u) \in Nat /\ Len(s) = Len(a) + Len(u)
        /\ \A i \in 1 .. Len(a) : s[i] = a[i]
        /\ \A i \in 1 .. Len(u) : s[Len(a) + i] = u[i]
    BY <1>4, <1>10, MxConcat
  <2>2. \A i \in 1 .. Len(s) : \/ i \in 1 .. Len(a) /\ s[i] = a[i]
                               \/ i - Len(a) \in 1 .. Len(u) /\ i > Len(a) /\ s[i] = u[i - Len(a)]
    BY <1>4, <1>10, MxSplit
  <2>3. \A i \in 1 .. Len(s) : MxName(s, i) \in MxCleanNames /\ s[i][2] \in {"hard", "stop"}
    BY <1>8, <1>9, <2>2 DEF MxCleanShape, MxName
  <2>4. ASSUME NEW i \in 1 .. Len(s), MxName(s, i) = "keys_up"
        PROVE  \E j \in 1 .. Len(s) : j > i /\ MxName(s, j) = "released"
    <3>1. i - Len(a) \in 1 .. Len(u) /\ MxName(u, i - Len(a)) = "keys_up"
      BY <1>6, <2>2, <2>4 DEF MxName
    <3>2. PICK j \in 1 .. Len(u) : j > i - Len(a) /\ MxName(u, j) = "released"
      BY <1>9, <3>1 DEF MxCleanShape
    <3>3. Len(a) + j \in 1 .. Len(s) /\ Len(a) + j > i /\ MxName(s, Len(a) + j) = "released"
      BY <2>1, <2>4, <3>2 DEF MxName
    <3> QED BY <3>3
  <2> QED BY <2>3, <2>4 DEF MxCleanShape
<1>14. MxScriptOK(s) /\ ~MxHas(s, MxPressNames) /\ MxStops(s)
  BY <1>11, MxPlainFacts, MxCalmStops DEF MxScriptOK
<1> QED BY <1>5, <1>12, <1>13, <1>14 DEF MxOwned

\* Lists that stand for what is left of a request.
MxList(s) == MxPlain(s) /\ MxCalm(s)
LEMMA MxLists ==
    /\ MxList(Msx!Soft(<<"frame">>)) /\ MxList(Msx!Soft(<<"drain", "hit?">>)) /\ MxList(Msx!Hard(<<"spec">>)) /\ MxList(Msx!Soft(<<"stop!", "reg", "frame">>))
    /\ MxList(Msx!StepCompleted) /\ MxList(Msx!StepBroken) /\ MxList(Msx!StepInterrupted) /\ MxList(Msx!StepFailed)
    /\ MxList(Msx!LoadRollback) /\ MxList(Msx!MediaRejected) /\ MxList(Msx!Hard(<<"remove", "spec", "inv">>))
    /\ MxPlain(Msx!Hard(<<"cont", "pause_off", "running!">>))
    /\ MxHas(Msx!Soft(<<"stop!", "reg", "frame">>), MxStopping)
    /\ MxHas(Msx!StepCompleted, MxStopping) /\ MxHas(Msx!StepBroken, MxStopping) /\ MxHas(Msx!StepInterrupted, MxStopping)
<1> USE DEF Msx!Soft, Msx!Hard
<1>1. \A p \in MxPolicies \ {"release"}, c \in Seq(MxPlainNames \ MxMoving) : MxList(Msx!Policy(p, c))
  <2>1. SUFFICES ASSUME NEW p \in MxPolicies \ {"release"}, NEW c \in Seq(MxPlainNames \ MxMoving)
                 PROVE  MxList(Msx!Policy(p, c))
    OBVIOUS
  <2>2. c \in Seq(MxPlainNames) /\ c \in Seq(MxNames \ MxMoving)
    BY <2>1, SeqMonotonic DEF MxNames, MxHardNames
  <2> QED BY <2>2, MxPlainBlock DEF MxList
<1>2. \A c \in Seq(MxHardNames \ MxMoving) : MxList(Msx!Policy("hard", c))
  <2>1. SUFFICES ASSUME NEW c \in Seq(MxHardNames \ MxMoving)
                 PROVE  MxList(Msx!Policy("hard", c))
    OBVIOUS
  <2>2. c \in Seq(MxHardNames) /\ c \in Seq(MxNames \ MxMoving)
    BY <2>1, SeqMonotonic DEF MxNames
  <2> QED BY <2>2, MxPlainBlock DEF MxList, MxPolicies
<1>3. \A s, t : MxList(s) /\ MxList(t) => MxList(s \o t)
  BY MxPlainConcat DEF MxList
<1>4. MxList(Msx!Soft(<<"frame">>)) /\ MxList(Msx!Soft(<<"drain", "hit?">>)) /\ MxList(Msx!Hard(<<"spec">>)) /\ MxList(Msx!Soft(<<"stop!", "reg", "frame">>))
      /\ MxList(Msx!Hard(<<"remove", "spec", "inv">>))
  <2>1. /\ <<"frame">> \in Seq(MxPlainNames \ MxMoving) /\ <<"drain", "hit?">> \in Seq(MxPlainNames \ MxMoving)
        /\ <<"spec">> \in Seq(MxPlainNames \ MxMoving)
        /\ <<"stop!", "reg", "frame">> \in Seq(MxPlainNames \ MxMoving) /\ <<"remove", "spec", "inv">> \in Seq(MxPlainNames \ MxMoving)
    BY DEF MxPlainNames, MxMoving
  <2> QED BY <1>1, <2>1 DEF MxPolicies
<1>5. MxPlain(Msx!Hard(<<"cont", "pause_off", "running!">>))
  <2>1. <<"cont", "pause_off", "running!">> \in Seq(MxPlainNames)
    BY DEF MxPlainNames
  <2> QED BY <2>1, MxPlainBlock DEF MxPolicies
<1>6. MxHas(Msx!Soft(<<"stop!", "reg", "frame">>), MxStopping)
  <2>1. PICK c : c = <<"stop!", "reg", "frame">>
    OBVIOUS
  <2>2. c \in Seq(MxNames) /\ Len(c) = 3 /\ c[1] = "stop!" /\ Msx!Soft(<<"stop!", "reg", "frame">>) = Msx!Policy("soft", c)
    BY <2>1 DEF MxNames, MxHardNames, MxPlainNames, MxPressNames
  <2>3. Len(Msx!Policy("soft", c)) = 3 /\ MxName(Msx!Policy("soft", c), 1) = "stop!"
    <3>1. "soft" \in MxPolicies
      BY DEF MxPolicies
    <3>2. Len(Msx!Policy("soft", c)) = Len(c) /\ \A i \in 1 .. Len(c) : MxName(Msx!Policy("soft", c), i) = c[i]
      BY <2>2, <3>1, MxNamed
    <3> QED BY <2>2, <3>2
  <2> QED BY <2>2, <2>3 DEF MxHas, MxStopping
<1>7. MxList(Msx!StepCompleted) /\ MxHas(Msx!StepCompleted, MxStopping)
  <2>1. PICK c, d : c = <<"unbroken">> /\ d = <<"break", "pause_on", "stop!", "count?">>
    OBVIOUS
  <2>2. c \in Seq(MxPlainNames \ MxMoving) /\ d \in Seq(MxPlainNames \ MxMoving)
    BY <2>1 DEF MxPlainNames, MxMoving
  <2>3. MxList(Msx!Policy("soft", c)) /\ MxList(Msx!Policy("soft", d))
    BY <1>1, <2>2 DEF MxPolicies
  <2>4. d \in Seq(MxNames) /\ Len(d) = 4 /\ d[3] = "stop!"
    BY <2>1 DEF MxNames, MxHardNames, MxPlainNames, MxPressNames
  <2>5. MxHas(Msx!Policy("soft", d), MxStopping)
    <3>a. "soft" \in MxPolicies
      BY DEF MxPolicies
    <3>0. Len(Msx!Policy("soft", d)) = Len(d) /\ \A i \in 1 .. Len(d) : MxName(Msx!Policy("soft", d), i) = d[i]
      BY <2>4, <3>a, MxNamed
    <3>1. Len(Msx!Policy("soft", d)) = 4 /\ MxName(Msx!Policy("soft", d), 3) = "stop!"
      BY <2>4, <3>0
    <3> QED BY <3>1 DEF MxHas, MxStopping
  <2>6. Msx!StepCompleted = Msx!Policy("soft", c) \o Msx!Policy("soft", d)
    BY <2>1 DEF Msx!StepCompleted
  <2> QED BY <1>3, <2>3, <2>5, <2>6, MxHasConcat DEF MxList, MxPlain
<1>8. MxList(Msx!StepBroken) /\ MxHas(Msx!StepBroken, MxStopping)
  <2>1. PICK c, d : c = <<"cancel_frame">> /\ d = <<"stop!">>
    OBVIOUS
  <2>2. c \in Seq(MxHardNames \ MxMoving) /\ d \in Seq(MxPlainNames \ MxMoving)
    BY <2>1 DEF MxHardNames, MxPlainNames, MxMoving
  <2>3. MxList(Msx!Policy("hard", c)) /\ MxList(Msx!Policy("soft", d))
    BY <1>1, <1>2, <2>2 DEF MxPolicies
  <2>4. d \in Seq(MxNames) /\ Len(d) = 1 /\ d[1] = "stop!"
    BY <2>1 DEF MxNames, MxHardNames, MxPlainNames, MxPressNames
  <2>5. MxHas(Msx!Policy("soft", d), MxStopping)
    <3>a. "soft" \in MxPolicies
      BY DEF MxPolicies
    <3>0. Len(Msx!Policy("soft", d)) = Len(d) /\ \A i \in 1 .. Len(d) : MxName(Msx!Policy("soft", d), i) = d[i]
      BY <2>4, <3>a, MxNamed
    <3>1. Len(Msx!Policy("soft", d)) = 1 /\ MxName(Msx!Policy("soft", d), 1) = "stop!"
      BY <2>4, <3>0
    <3> QED BY <3>1 DEF MxHas, MxStopping
  <2>6. Msx!StepBroken = Msx!Policy("hard", c) \o Msx!Policy("soft", d)
    BY <2>1 DEF Msx!StepBroken
  <2> QED BY <1>3, <2>3, <2>5, <2>6, MxHasConcat, SMTT(40) DEF MxList, MxPlain
<1>9. MxList(Msx!StepInterrupted) /\ MxHas(Msx!StepInterrupted, MxStopping)
  <2>1. PICK c : c = <<"cancel_frame", "pause_on", "break", "stop!", "frame", "drain">>
    OBVIOUS
  <2>2. c \in Seq(MxHardNames \ MxMoving)
    BY <2>1 DEF MxHardNames, MxPlainNames, MxMoving
  <2>3. MxList(Msx!Policy("hard", c))
    BY <1>2, <2>2
  <2>4. c \in Seq(MxNames) /\ Len(c) = 6 /\ c[4] = "stop!"
    BY <2>1 DEF MxNames, MxHardNames, MxPlainNames, MxPressNames
  <2>5. MxHas(Msx!Policy("hard", c), MxStopping)
    <3>a. "hard" \in MxPolicies
      BY DEF MxPolicies
    <3>0. Len(Msx!Policy("hard", c)) = Len(c) /\ \A i \in 1 .. Len(c) : MxName(Msx!Policy("hard", c), i) = c[i]
      BY <2>4, <3>a, MxNamed
    <3>1. Len(Msx!Policy("hard", c)) = 6 /\ MxName(Msx!Policy("hard", c), 4) = "stop!"
      BY <2>4, <3>0
    <3> QED BY <3>1 DEF MxHas, MxStopping
  <2> QED BY <2>1, <2>3, <2>5 DEF Msx!StepInterrupted
<1>10. MxList(Msx!StepFailed)
  <2>1. <<"cancel_frame", "pause_on", "break", "stop!">> \in Seq(MxHardNames \ MxMoving)
    BY DEF MxHardNames, MxPlainNames, MxMoving
  <2> QED BY <1>2, <2>1 DEF Msx!StepFailed
<1>11. MxList(Msx!LoadRollback) /\ MxList(Msx!MediaRejected)
  <2>1. /\ <<"activate_old", "stop!">> \in Seq(MxPlainNames \ MxMoving) /\ <<"stop!">> \in Seq(MxPlainNames \ MxMoving)
        /\ <<"keys_again", "inv", "probe", "delete">> \in Seq(MxPlainNames \ MxMoving) /\ <<"frame">> \in Seq(MxPlainNames \ MxMoving)
        /\ Msx!RequireRuntimeIdentity \in Seq(MxPlainNames \ MxMoving)
    BY DEF MxPlainNames, MxMoving, Msx!RequireRuntimeIdentity
  <2>2. \A c, d : c \in Seq(MxPlainNames \ MxMoving) /\ d \in Seq(MxPlainNames \ MxMoving) => c \o d \in Seq(MxPlainNames \ MxMoving)
    BY ConcatProperties
  <2> QED BY <1>1, <2>1, <2>2 DEF MxPolicies, Msx!LoadRollback, Msx!MediaRejected
<1> QED BY <1>4, <1>5, <1>6, <1>7, <1>8, <1>9, <1>10, <1>11

LEMMA MxInterruptedFirst ==
    /\ Msx!StepInterrupted # <<>> /\ MxName(Msx!StepInterrupted, 1) = "cancel_frame" /\ Len(Msx!StepInterrupted) = 6
    /\ \A i \in 1 .. Len(Msx!StepInterrupted) : Msx!StepInterrupted[i][2] = "hard"
<1>1. PICK c : c = <<"cancel_frame", "pause_on", "break", "stop!", "frame", "drain">>
  OBVIOUS
<1>2. c \in Seq(MxNames) /\ Len(c) = 6 /\ c[1] = "cancel_frame" /\ Msx!StepInterrupted = Msx!Policy("hard", c)
  BY <1>1 DEF MxNames, MxHardNames, MxPlainNames, MxPressNames, Msx!StepInterrupted, Msx!Hard
<1>3. /\ Len(Msx!StepInterrupted) = 6 /\ MxName(Msx!StepInterrupted, 1) = "cancel_frame" /\ Msx!StepInterrupted \in Seq(MxItems)
      /\ \A i \in 1 .. 6 : Msx!StepInterrupted[i][2] = "hard"
  BY <1>2, MxNamed DEF MxPolicies
<1>4. Msx!StepInterrupted # <<>>
  BY <1>3, SMTT(40)
<1> QED BY <1>3, <1>4

\* What is left to release.
LEMMA MxReleaseTyped ==
    ASSUME req.todo \in Seq(MxItems)
    PROVE  Msx!ReleaseTail \in Seq(MxItems)
<1> DEFINE tails == {i \in DOMAIN req.todo : req.todo[i][2] = "release" /\ \A j \in DOMAIN req.todo : req.todo[j][2] # "pulse"}
<1>1. CASE tails = {}
  <2>1. Msx!ReleaseTail = <<>>
    BY <1>1 DEF Msx!ReleaseTail
  <2> QED BY <2>1
<1>2. CASE tails # {}
  <2>1. PICK k : k = CHOOSE i \in tails : TRUE
    OBVIOUS
  <2>2. k \in 1 .. Len(req.todo) /\ Len(req.todo) \in Nat
    BY <1>2, <2>1, LenProperties
  <2>3. Msx!ReleaseTail = SubSeq(req.todo, k, Len(req.todo))
    BY <1>2, <2>1 DEF Msx!ReleaseTail
  <2> QED BY <2>2, <2>3, SubSeqProperties
<1> QED BY <1>1, <1>2

LEMMA MxReleases ==
    ASSUME req.todo \in Seq(MxItems), MxShape(req.todo)
    PROVE  /\ Msx!ReleaseTail \in Seq(MxItems) /\ MxShape(Msx!ReleaseTail) /\ MxBehind(Msx!ReleaseTail)
           /\ \A i \in 1 .. Len(Msx!ReleaseTail) : MxName(Msx!ReleaseTail, i) \in {"keys_back", "resume?"}
           /\ \A N : MxHas(Msx!ReleaseTail, N) => MxHas(req.todo, N)
<1> DEFINE tails == {i \in DOMAIN req.todo : req.todo[i][2] = "release" /\ \A j \in DOMAIN req.todo : req.todo[j][2] # "pulse"}
           R == Msx!ReleaseTail
<1>1. /\ R \in Seq(MxItems) /\ (\A i \in 1 .. Len(R) : MxName(R, i) \in {"keys_back", "resume?"})
      /\ \A N : MxHas(R, N) => MxHas(req.todo, N)
  <2>1. CASE tails = {}
    <3>1. R = <<>>
      BY <2>1 DEF Msx!ReleaseTail
    <3> QED BY <3>1 DEF MxHas
  <2>2. CASE tails # {}
    <3>1. PICK k : k = CHOOSE i \in tails : TRUE
      OBVIOUS
    <3>2. k \in 1 .. Len(req.todo) /\ req.todo[k][2] = "release" /\ Len(req.todo) \in Nat
      BY <2>2, <3>1, LenProperties
    <3>3. R = SubSeq(req.todo, k, Len(req.todo))
      BY <2>2, <3>1 DEF Msx!ReleaseTail
    <3>4. /\ R \in Seq(MxItems) /\ Len(R) = Len(req.todo) - k + 1
          /\ \A i \in 1 .. Len(req.todo) - k + 1 : R[i] = req.todo[k + i - 1]
      BY <3>2, <3>3, SubSeqProperties, SMTT(40)
    <3>5. \A i \in 1 .. Len(R) : k + i - 1 \in 1 .. Len(req.todo) /\ k <= k + i - 1
      BY <3>2, <3>4
    <3> HIDE DEF R, tails
    <3>6. \A i \in 1 .. Len(R) : MxName(R, i) \in {"keys_back", "resume?"}
      BY <3>2, <3>4, <3>5 DEF MxShape, MxReleaseShape, MxName
    <3>7. \A i \in 1 .. Len(R) : MxName(R, i) = MxName(req.todo, k + i - 1)
      BY <3>4 DEF MxName
    <3>8. \A N : MxHas(R, N) => MxHas(req.todo, N)
      BY <3>5, <3>7 DEF MxHas
    <3> QED BY <3>4, <3>6, <3>8
  <2> QED BY <2>1, <2>2
<1>2. Len(R) \in Nat
  BY <1>1, LenProperties
<1> HIDE DEF R
<1>3. MxShape(R) /\ MxBehind(R)
  BY <1>1, <1>2 DEF MxShape, MxFrameShape, MxReadShape, MxReleaseShape, MxCancelShape, MxBehind
<1> QED BY <1>1, <1>3 DEF R

-----------------------------------------------------------------------------
(* The steps *)

\* What a step of the bridge has to show when no request is over by it.
MxServing == MxShape(req.todo) /\ MxDue /\ MxVerified /\ MxCleaned

LEMMA MxStarts == Msx!MsxInit => MxInv
<1> SUFFICES ASSUME Msx!MsxInit PROVE MxInv
  OBVIOUS
<1>1. MxTypeOK
  BY EmptySeq DEF Msx!MsxInit, Msx!Idle, MxTypeOK, MxNatives, MxBridges, MxReqs
<1>2. Msx!MsxHitsKept /\ MxAnswered
  BY EmptySeq DEF Msx!MsxInit, Msx!Idle, Msx!MsxHitsKept, MxAnswered
<1>3. req.todo = <<>> /\ ~native.due /\ ~bridge.dead /\ req.m = "idle"
  BY DEF Msx!MsxInit, Msx!Idle
<1>4. MxShape(req.todo) /\ MxDue
  BY <1>3 DEF MxShape, MxFrameShape, MxReadShape, MxReleaseShape, MxCancelShape, MxDue
<1> QED BY <1>1, <1>2, <1>3, <1>4 DEF MxInv

\* A hit adds one to what was queued and dropped.
LEMMA MxRecords ==
    ASSUME MaxQueue \in Nat \ {0}, NEW n \in MxNatives, NEW p \in MsxPoints
    PROVE  LET h == Msx!HitRecord(n, p)
           IN /\ h \in MxNatives /\ h.seq = n.seq + 1 /\ Len(h.queue) + h.dropped = Len(n.queue) + n.dropped + 1
              /\ h.pause /\ h.breaked /\ h.due = n.due /\ h.target = n.target /\ h.keys = n.keys
<1> DEFINE q == n.queue
           r == IF Len(q) >= MaxQueue THEN Tail(q) ELSE q
           e == <<n.seq + 1, p>>
           h == Msx!HitRecord(n, p)
<1>1. q \in Seq(MxHits) /\ Len(q) \in Nat /\ n.seq \in Nat /\ n.dropped \in Nat /\ e \in MxHits
  BY LenProperties DEF MxNatives, MxHits
<1>2. r \in Seq(MxHits) /\ Len(r) = IF Len(q) >= MaxQueue THEN Len(q) - 1 ELSE Len(q)
  <2>1. CASE Len(q) >= MaxQueue
    <3>1. q # <<>>
      BY <1>1, <2>1, EmptySeq
    <3>2. Tail(q) \in Seq(MxHits) /\ Len(Tail(q)) = Len(q) - 1
      BY <1>1, <3>1, HeadTailProperties
    <3> QED BY <2>1, <3>2
  <2>2. CASE ~(Len(q) >= MaxQueue)
    BY <1>1, <2>2
  <2> QED BY <2>1, <2>2
<1> HIDE DEF r, e
<1>3. Append(r, e) \in Seq(MxHits) /\ Len(Append(r, e)) = Len(r) + 1
  BY <1>1, <1>2, AppendProperties
<1>a. PICK x, d : x = Append(r, e) /\ d = n.dropped + (IF Len(q) >= MaxQueue THEN 1 ELSE 0)
  OBVIOUS
<1>4. h = [n EXCEPT !.seq = n.seq + 1, !.pause = TRUE, !.breaked = TRUE, !.queue = x, !.dropped = d]
  BY <1>a DEF Msx!HitRecord, r, e, MxNatives
<1>b. x \in Seq(MxHits) /\ d \in Nat /\ Len(x) + d = Len(q) + n.dropped + 1
  <2>1. x \in Seq(MxHits) /\ Len(x) = Len(r) + 1
    BY <1>3, <1>a
  <2>2. CASE Len(q) >= MaxQueue
    <3>1. Len(r) = Len(q) - 1 /\ d = n.dropped + 1
      BY <1>2, <1>a, <2>2
    <3> HIDE DEF q
    <3> QED BY <1>1, <2>1, <3>1
  <2>3. CASE ~(Len(q) >= MaxQueue)
    <3>1. Len(r) = Len(q) /\ d = n.dropped
      BY <1>1, <1>2, <1>a, <2>3
    <3> HIDE DEF q
    <3> QED BY <1>1, <2>1, <3>1
  <2> QED BY <2>2, <2>3
<1> HIDE DEF h, q
<1>5. h \in MxNatives /\ h.seq = n.seq + 1 /\ h.queue = x /\ h.dropped = d
      /\ h.pause /\ h.breaked /\ h.due = n.due /\ h.target = n.target /\ h.keys = n.keys
  <2>1. n.seq + 1 \in Nat
    BY <1>1
  <2> QED BY <1>4, <1>b, <2>1 DEF MxNatives
<1>6. Len(h.queue) + h.dropped = Len(q) + n.dropped + 1
  BY <1>5, <1>b
<1> QED BY <1>5, <1>6 DEF h, q

\* The machine moves on its own.
LEMMA MxMoves ==
    ASSUME MaxQueue \in Nat \ {0}, MxInv, Msx!StartFrame \/ Msx!FrameTick \/ (\E p \in MsxPoints : Msx!Hit(p)),
           UNCHANGED <<bridge, req>>
    PROVE  MxInv'
<1>0. MxTypeOK /\ Msx!MsxHitsKept /\ MxAnswered
  BY DEF MxInv
<1>1. MxTypeOK' /\ Msx!MsxHitsKept'
  <2>1. CASE Msx!StartFrame
    <3>a. wire' = wire \/ wire' = Append(wire, FALSE)
      BY <2>1 DEF Msx!StartFrame, Msx!Updates
    <3>b. wire' \in Seq(BOOLEAN)
      BY <1>0, <3>a, AppendProperties, ZenonT(60) DEF MxTypeOK
    <3>1. MxTypeOK'
      BY <1>0, <2>1, <3>b DEF MxTypeOK, MxNatives, Msx!StartFrame
    <3> QED BY <1>0, <2>1, <3>1 DEF MxTypeOK, MxNatives, Msx!StartFrame, Msx!MsxHitsKept
  <2>2. CASE Msx!FrameTick
    <3>1. MxTypeOK'
      BY <1>0, <2>2, AppendProperties DEF MxTypeOK, MxNatives, Msx!FrameTick, Msx!Updates
    <3> QED BY <1>0, <2>2, <3>1 DEF MxTypeOK, MxNatives, Msx!FrameTick, Msx!MsxHitsKept
  <2>3. CASE \E p \in MsxPoints : Msx!Hit(p)
    <3>1. PICK p \in MsxPoints : Msx!Hit(p)
      BY <2>3
    <3>2. wire' \in Seq(BOOLEAN)
      BY <1>0, <3>1, AppendProperties DEF MxTypeOK, Msx!Hit, Msx!Updates
    <3>3. /\ Msx!HitRecord(native, p) \in MxNatives
          /\ LET h == Msx!HitRecord(native, p)
             IN h.seq = native.seq + 1 /\ Len(h.queue) + h.dropped = Len(native.queue) + native.dropped + 1
      BY <1>0, <3>1, MxRecords DEF MxTypeOK
    <3>4. native' = Msx!HitRecord(native, p)
      BY <3>1 DEF Msx!Hit
    <3>5. MxTypeOK'
      BY <1>0, <3>2, <3>3, <3>4 DEF MxTypeOK
    <3>6. Len(native.queue) \in Nat /\ native.dropped \in Nat /\ native.seq \in Nat /\ bridge.last \in Nat
      BY <1>0, LenProperties DEF MxTypeOK, MxNatives, MxBridges
    <3>7. Len(native'.queue) \in Nat /\ native'.dropped \in Nat
      BY <3>5, LenProperties DEF MxTypeOK, MxNatives
    <3>8. native'.seq = native.seq + 1 /\ Len(native'.queue) + native'.dropped = Len(native.queue) + native.dropped + 1
      BY <3>3, <3>4
    <3>9. bridge' = bridge
      OBVIOUS
    <3>10. ~bridge.fatal => native'.seq = bridge.last + Len(native'.queue) + native'.dropped
      <4>1. HAVE ~bridge.fatal
      <4>2. native.seq = bridge.last + Len(native.queue) + native.dropped
        BY <1>0, <4>1 DEF Msx!MsxHitsKept
      <4>3. native'.seq = bridge.last + (Len(native.queue) + native.dropped + 1)
        BY <3>6, <3>8, <4>2
      <4>4. native'.seq = bridge.last + (Len(native'.queue) + native'.dropped)
        BY <3>8, <4>3
      <4> QED BY <3>6, <3>7, <4>4
    <3>11. ~bridge.fatal => bridge.last = bridge.kept + bridge.told + bridge.mute
      BY <1>0 DEF Msx!MsxHitsKept
    <3> QED BY <3>5, <3>9, <3>10, <3>11 DEF Msx!MsxHitsKept
  <2> QED BY <2>1, <2>2, <2>3
<1>2. ~MxStill
  BY DEF MxStill, MxHalted, Msx!StartFrame, Msx!FrameTick, Msx!Hit, Msx!Moves
<1>3. /\ native'.due => native.due /\ ~native.pause
      /\ native'.keys = native.keys
      /\ native'.target => native.target \/ native.due
  BY <1>0 DEF MxTypeOK, MxNatives, Msx!StartFrame, Msx!FrameTick, Msx!Hit, Msx!Moves, Msx!HitRecord
<1>4. MxAnswered'
  BY <1>0, <1>2 DEF MxAnswered
<1>5. ASSUME MxLive PROVE MxDue'
  BY <1>3, <1>5 DEF MxInv, MxDue, MxAt
<1>6. ASSUME MxLive, req.m # "idle" PROVE MxVerified'
  <2>1. MxShape(req.todo) /\ MxDue /\ MxVerified /\ Len(req.todo) \in Nat /\ req.todo \in Seq(MxItems)
    BY <1>0, <1>6, LenProperties DEF MxInv, MxTypeOK, MxReqs
  <2>2. ASSUME MxHalted PROVE MxAt("wait") \/ MxAt("cancel_frame")
    BY <1>2, <2>1, <2>2 DEF MxDue, MxStill
  <2>3. \A i \in 1 .. Len(req.todo) : ~(MxName(req.todo, i) = "next_frame" /\ i <= 3)
    <3>1. SUFFICES ASSUME NEW i \in 1 .. Len(req.todo), MxName(req.todo, i) = "next_frame", i <= 3 PROVE FALSE
      OBVIOUS
    <3>2. MxName(req.todo, 1) \in {"next_frame", "frame", "prepare"}
      BY <2>1, <3>1 DEF MxShape, MxFrameShape
    <3>3. MxHalted
      BY <2>1, <3>1 DEF MxVerified
    <3> QED BY <2>2, <3>2, <3>3 DEF MxAt
  <2>4. (MxAt("resumed") \/ MxAt("frozen->frame")) => ~bridge.frozen
    BY <2>1, <2>2 DEF MxVerified, MxAt
  <2>5. ~(MxWillSay /\ ~MxHas(req.todo, MxStopping))
    BY <1>2, <2>1 DEF MxVerified
  <2> QED BY <2>1, <2>3, <2>4, <2>5 DEF MxVerified, MxWillSay, MxAt, MxHas
<1>7. ASSUME MxLive, req.m # "idle" PROVE MxCleaned'
  BY <1>0, <1>3, <1>7 DEF MxInv, MxCleaned, MxHas, MxTypeOK, MxNatives
<1> QED BY <1>0, <1>1, <1>4, <1>5, <1>6, <1>7 DEF MxInv, MxLive, MxShape, MxFrameShape, MxReadShape, MxReleaseShape, MxCancelShape

\* A request is over.
LEMMA MxOver ==
    ASSUME MxTypeOK', Msx!MsxHitsKept', NEW a, req' = Msx!Idle(a),
           a \in {"frozen", "clean"} => MxStill', a = "clean" => ~native'.target /\ (bridge'.port => ~native'.keys),
           MxLive' => ~native'.due
    PROVE  MxInv'
<1>1. req'.todo = <<>> /\ req'.m = "idle" /\ req'.answer = a
  BY DEF Msx!Idle
<1>2. Len(req'.todo) = 0
  BY <1>1, EmptySeq
<1>3. MxShape(req.todo)'
  BY <1>2 DEF MxShape, MxFrameShape, MxReadShape, MxReleaseShape, MxCancelShape
<1>4. MxAnswered'
  BY <1>1 DEF MxAnswered
<1>5. MxLive' => MxDue'
  BY DEF MxDue
<1> QED BY <1>1, <1>3, <1>4, <1>5 DEF MxInv

\* A request goes on.
LEMMA MxOn ==
    ASSUME MxTypeOK', Msx!MsxHitsKept', req'.m # "idle", req'.answer \notin {"frozen", "clean"}, req'.arg \in MsxPoints, ~bridge'.dead,
           MxLive' => MxShape(req.todo)' /\ MxDue' /\ MxVerified' /\ MxCleaned'
    PROVE  MxInv'
BY DEF MxInv, MxAnswered

\* What holds of a request that is being served.
LEMMA MxServed ==
    ASSUME MxInv, req.todo # <<>>
    PROVE  /\ req.m # "idle" /\ req.m \in Msx!Methods \cup {"cleanup"} /\ req.answer \notin {"frozen", "clean"} /\ req.arg \in MsxPoints /\ ~bridge.dead
           /\ req.todo \in Seq(MxItems) /\ Len(req.todo) \in Nat /\ Len(req.todo) >= 1 /\ Head(req.todo) = req.todo[1]
           /\ Msx!Current = MxName(req.todo, 1) /\ req.todo[1][2] \in MxPolicies
           /\ ~bridge.fatal => MxLive /\ MxShape(req.todo) /\ MxDue /\ MxVerified /\ MxCleaned
           /\ Len(Tail(req.todo)) = Len(req.todo) - 1 /\ Tail(req.todo) \in Seq(MxItems)
           /\ \A i \in 1 .. Len(req.todo) - 1 : Tail(req.todo)[i] = req.todo[i + 1]
<1>1. req.m # "idle" /\ req.answer \notin {"frozen", "clean"} /\ req.arg \in MsxPoints /\ ~bridge.dead
  BY DEF MxInv, MxAnswered
<1>2. req.todo \in Seq(MxItems) /\ req.m \in Msx!Methods \cup {"cleanup"}
  BY <1>1 DEF MxInv, MxTypeOK, MxReqs
<1>3. /\ Tail(req.todo) \in Seq(MxItems) /\ Len(req.todo) \in Nat /\ Len(req.todo) >= 1 /\ Len(Tail(req.todo)) = Len(req.todo) - 1
      /\ Head(req.todo) = req.todo[1] /\ \A i \in 1 .. Len(req.todo) - 1 : Tail(req.todo)[i] = req.todo[i + 1]
  BY <1>2, MxTail
<1>4. Msx!Current = MxName(req.todo, 1)
  BY <1>3 DEF Msx!Current, Msx!Name, MxName
<1>5. req.todo[1] \in MxItems
  BY <1>2, <1>3, ElementOfSeq
<1>6. req.todo[1][2] \in MxPolicies
  BY <1>5 DEF MxItems
<1>7. ~bridge.fatal => MxLive /\ MxShape(req.todo) /\ MxDue /\ MxVerified /\ MxCleaned
  BY <1>1 DEF MxInv, MxLive
<1> QED BY <1>1, <1>2, <1>3, <1>4, <1>6, <1>7

\* What openMSX makes of a command.
LEMMA MxEffects ==
    ASSUME MxInv, req.arg \in MsxPoints, NEW c
    PROVE  LET e == Msx!Effect(native, c)
           IN /\ e \in MxNatives /\ e.seq = native.seq
              /\ c \in {"drain", "prepare"} => e.queue = <<>> /\ e.dropped = 0
              /\ c \notin {"drain", "prepare"} => e.queue = native.queue /\ e.dropped = native.dropped
              /\ e.due = IF c = "next_frame" THEN TRUE ELSE IF c = "cancel_frame" THEN FALSE ELSE native.due
              /\ e.target = IF c = "cancel_frame" THEN FALSE ELSE native.target
              /\ c \notin MxMoving /\ native.pause /\ native.breaked => e.pause /\ e.breaked
              /\ c \in {"frame", "prepare", "frozen?", "stop!", "refresh", "next_frame", "rejected"} =>
                    e.pause = native.pause /\ e.breaked = native.breaked
              /\ c \in MxCleanNames \ {"keys_up"} => e.keys = native.keys
<1>1. native \in MxNatives /\ bridge.keys \in BOOLEAN /\ req.held \in BOOLEAN /\ native.points \in SUBSET MsxPoints
  BY DEF MxInv, MxTypeOK, MxBridges, MxNatives, MxReqs
<1>2. <<>> \in Seq(MxHits)
  BY EmptySeq
<1>3. native.points \cup {req.arg} \in SUBSET MsxPoints /\ native.points \ {req.arg} \in SUBSET MsxPoints
  BY <1>1
<1> USE DEF MxMoving, MxCleanNames
<1>4. CASE c \in {"pause_on", "pause_off", "break"}
  BY <1>1, <1>4 DEF Msx!Effect, MxNatives
<1>12. CASE c \in {"cont", "step", "reset"}
  BY <1>1, <1>12, ZenonT(60) DEF Msx!Effect, MxNatives
<1>5. CASE c \in {"next_frame", "cancel_frame"}
  BY <1>1, <1>5 DEF Msx!Effect, Msx!CancelFrame, MxNatives
<1>6. CASE c = "create"
  BY <1>1, <1>3, <1>6 DEF Msx!Effect, MxNatives
<1>7. CASE c = "remove"
  BY <1>1, <1>3, <1>7 DEF Msx!Effect, MxNatives
<1>8. CASE c \in {"keys_down", "keys_up", "keys_off", "keys_back", "keys_again"}
  BY <1>1, <1>8, ZenonT(60) DEF Msx!Effect, MxNatives
<1>9. CASE c \in {"activate", "activate_old", "delete"}
  BY <1>1, <1>9, ZenonT(60) DEF Msx!Effect, MxNatives
<1>10. CASE c \in {"drain", "prepare"}
  BY <1>1, <1>2, <1>10 DEF Msx!Effect, MxNatives
<1>11. CASE c \notin {"pause_on", "pause_off", "break", "cont", "step", "reset", "next_frame", "cancel_frame", "create", "remove", "keys_down", "keys_up",
                      "keys_off", "keys_back", "keys_again", "activate", "activate_old", "delete", "drain", "prepare"}
  <2>1. Msx!Effect(native, c) = native
    BY <1>11 DEF Msx!Effect
  <2> QED BY <1>1, <1>11, <2>1 DEF MxNatives
<1> QED BY <1>4, <1>5, <1>6, <1>7, <1>8, <1>9, <1>10, <1>11, <1>12

\* What the bridge takes from an accepted command.
LEMMA MxNotes ==
    ASSUME MxInv, NEW c, NEW g \in BOOLEAN
    PROVE  LET b == Msx!Noted(bridge, c, g)
           IN /\ b \in MxBridges /\ b.dead = bridge.dead /\ (bridge.fatal => b.fatal) /\ b.port = bridge.port
              /\ b.seen = IF c = "next_frame" THEN FALSE ELSE bridge.seen
              /\ c \notin {"drain", "prepare"} => b.fatal = bridge.fatal /\ b.last = bridge.last
              /\ c \in {"drain", "prepare"} /\ ~b.fatal => b.last = bridge.last + (Len(native.queue) + native.dropped)
              /\ ~b.fatal => b.last = b.kept + b.told + b.mute
              /\ c \in {"stop!", "refresh", "frozen?"} => b.frozen = (native.pause /\ native.breaked)
<1>1. native \in MxNatives /\ bridge \in MxBridges /\ req \in MxReqs
  BY DEF MxInv, MxTypeOK
<1>0. ~bridge.fatal => bridge.last = bridge.kept + bridge.told + bridge.mute
  BY DEF MxInv, Msx!MsxHitsKept
<1>2. CASE c \in {"drain", "prepare"} /\ (g \/ Msx!Unreadable(bridge))
  <2>1. Msx!Noted(bridge, c, g) = [bridge EXCEPT !.fatal = TRUE]
    BY <1>2 DEF Msx!Noted, Msx!Drained
  <2> QED BY <1>1, <1>2, <2>1 DEF MxBridges
<1>3. CASE c \in {"drain", "prepare"} /\ ~(g \/ Msx!Unreadable(bridge))
  <2> DEFINE q == native.queue
             last == IF q = <<>> THEN bridge.last ELSE q[Len(q)][1]
             evs == bridge.events \o [i \in DOMAIN q |-> q[i][2]]
  <2>1. /\ q \in Seq(MxHits) /\ Len(q) \in Nat /\ DOMAIN q = 1 .. Len(q) /\ bridge.last \in Nat /\ native.dropped \in Nat
        /\ bridge.kept \in Nat /\ bridge.told \in Nat /\ bridge.mute \in Nat /\ (q = <<>> => Len(q) = 0)
    BY <1>1, LenProperties, EmptySeq DEF MxNatives, MxBridges
  <2>2. \A i \in 1 .. Len(q) : q[i][1] \in Nat /\ q[i][2] \in MsxPoints
    <3>1. \A i \in 1 .. Len(q) : q[i] \in MxHits
      BY <2>1, ElementOfSeq
    <3> QED BY <3>1 DEF MxHits
  <2>3. last \in Nat /\ last = bridge.last + (Len(q) + native.dropped)
    <3>1. CASE q = <<>>
      <4>1. native.dropped = 0
        BY <1>3, <3>1 DEF Msx!Unreadable
      <4> QED BY <2>1, <3>1, <4>1
    <3>2. CASE q # <<>>
      <4>1. Len(q) >= 1
        BY <2>1, <3>2, EmptySeq
      <4>2. last \in Nat /\ last - bridge.last = Len(q) + native.dropped
        BY <1>3, <2>1, <2>2, <3>2, <4>1 DEF Msx!Unreadable
      <4>3. \A x, y, z, w \in Nat : x - y = z + w => x = y + (z + w)
        OBVIOUS
      <4> QED BY <2>1, <4>2, <4>3
    <3> QED BY <3>1, <3>2
  <2>4. evs \in Seq(MsxPoints)
    <3>1. [i \in 1 .. Len(q) |-> q[i][2]] \in Seq(MsxPoints)
      BY <2>1, <2>2, IsASeq
    <3>2. bridge.events \in Seq(MsxPoints)
      BY <1>1 DEF MxBridges
    <3> QED BY <2>1, <3>1, <3>2, ConcatProperties
  <2>5. PICK l, ev, k, x, y : l = last /\ ev = evs /\ k = bridge.kept + Len(q)
                              /\ x = bridge.told + (IF req.m = "poll" THEN native.dropped ELSE 0)
                              /\ y = bridge.mute + (IF req.m = "poll" THEN 0 ELSE native.dropped)
    OBVIOUS
  <2>6. Msx!Noted(bridge, c, g) = [bridge EXCEPT !.events = ev, !.last = l, !.kept = k, !.told = x, !.mute = y]
    BY <1>1, <1>3, <2>5 DEF Msx!Noted, Msx!Drained, MxBridges
  <2> HIDE DEF q, last, evs
  <2>7. l \in Nat /\ ev \in Seq(MsxPoints) /\ k \in Nat /\ x \in Nat /\ y \in Nat
    <3>1. PICK n \in Nat, d \in Nat : n = Len(q) /\ d = native.dropped
      BY <2>1
    <3>2. k \in Nat
      BY <2>1, <2>5, <3>1
    <3>3. x \in Nat /\ y \in Nat
      <4>1. CASE req.m = "poll"
        BY <2>1, <2>5, <3>1, <4>1
      <4>2. CASE req.m # "poll"
        BY <2>1, <2>5, <3>1, <4>2
      <4> QED BY <4>1, <4>2
    <3>4. l \in Nat /\ ev \in Seq(MsxPoints)
      BY <2>3, <2>4, <2>5
    <3> QED BY <3>2, <3>3, <3>4
  <2>8. ~bridge.fatal => l = k + x + y
    <3>1. HAVE ~bridge.fatal
    <3>2. bridge.last = bridge.kept + bridge.told + bridge.mute /\ l = bridge.last + (Len(q) + native.dropped)
      BY <1>0, <2>3, <2>5, <3>1
    <3>a. PICK a, b, e, n, d \in Nat : a = bridge.kept /\ b = bridge.told /\ e = bridge.mute /\ n = Len(q) /\ d = native.dropped
      BY <2>1
    <3>3. l = (a + b + e) + (n + d)
      BY <3>2, <3>a, Zenon
    <3>4. CASE req.m = "poll"
      <4>1. k = bridge.kept + Len(q) /\ x = bridge.told + native.dropped /\ y = bridge.mute + 0
        BY <2>5, <3>4
      <4>2. k = a + n /\ x = b + d /\ y = e + 0
        BY <3>a, <4>1, Zenon
      <4> QED BY <3>3, <4>2
    <3>5. CASE req.m # "poll"
      <4>1. k = bridge.kept + Len(q) /\ x = bridge.told + 0 /\ y = bridge.mute + native.dropped
        BY <2>5, <3>5
      <4>2. k = a + n /\ x = b + 0 /\ y = e + d
        BY <3>a, <4>1, Zenon
      <4> QED BY <3>3, <4>2
    <3> QED BY <3>4, <3>5
  <2>9. l = bridge.last + (Len(q) + native.dropped)
    BY <2>3, <2>5
  <2> QED BY <1>1, <1>3, <2>6, <2>7, <2>8, <2>9 DEF MxBridges, q
<1>4. CASE c \notin {"drain", "prepare"}
  <2>1. PICK b : b = Msx!Noted(bridge, c, g)
    OBVIOUS
  <2>2. /\ b \in MxBridges /\ b.dead = bridge.dead /\ b.port = bridge.port
        /\ b.seen = IF c = "next_frame" THEN FALSE ELSE bridge.seen
        /\ b.fatal = bridge.fatal /\ b.last = bridge.last /\ b.kept = bridge.kept /\ b.told = bridge.told /\ b.mute = bridge.mute
        /\ c \in {"stop!", "refresh", "frozen?"} => b.frozen = (native.pause /\ native.breaked)
    BY <1>1, <1>4, <2>1, ZenonT(60) DEF Msx!Noted, MxBridges, MxReqs, MxNatives
  <2> QED BY <1>0, <1>4, <2>1, <2>2
<1> QED BY <1>2, <1>3, <1>4

LEMMA MxBegins ==
    ASSUME MxInv, NEW m \in Msx!Methods, NEW p \in MsxPoints, Msx!Begin(m, p)
    PROVE  MxInv'
<1> DEFINE s == Msx!Script(m)
<1>1. /\ req.m = "idle" /\ ~bridge.fatal /\ ~bridge.dead /\ native' = native /\ wire' = wire
      /\ req' = [Msx!Idle("none") EXCEPT !.m = m, !.todo = s, !.arg = p, !.held = bridge.keys]
  BY DEF Msx!Begin
<1>b. PICK x \in BOOLEAN, y \in BOOLEAN : bridge' = [bridge EXCEPT !.reqs = @ + 1, !.effects = x, !.port = y]
  <2>1. bridge \in MxBridges /\ bridge.effects \in BOOLEAN /\ bridge.parent \in BOOLEAN /\ bridge.port \in BOOLEAN
    BY DEF MxInv, MxTypeOK, MxBridges
  <2>2. PICK x, y : x = (bridge.effects \/ (bridge.parent /\ m \in Msx!ParentMethods))
                    /\ y = (bridge.port \/ (bridge.parent /\ m \in {"hold", "free"}))
    OBVIOUS
  <2>3. bridge' = [bridge EXCEPT !.reqs = @ + 1, !.effects = x, !.port = y]
    BY <2>1, <2>2 DEF Msx!Begin, MxBridges
  <2> QED BY <2>1, <2>2, <2>3
<1>2. /\ s \in Seq(MxItems) /\ MxShape(s) /\ MxBehind(s)
      /\ m \in MxHaltMethods => MxStops(s) /\ MxHas(s, MxStopping)
  BY MxScripts DEF MxScriptOK
<1> HIDE DEF s
<1>k. bridge.keys \in BOOLEAN
  BY DEF MxInv, MxTypeOK, MxBridges
<1>3. /\ req'.m = m /\ req'.todo = s /\ req'.arg = p /\ req'.answer = "none" /\ ~req'.err /\ ~req'.cut /\ ~req'.was
      /\ req' \in MxReqs
  BY <1>1, <1>2, <1>k DEF Msx!Idle, MxReqs
<1>4. /\ bridge' \in MxBridges /\ ~bridge'.fatal /\ ~bridge'.dead /\ bridge'.last = bridge.last
      /\ bridge'.kept = bridge.kept /\ bridge'.told = bridge.told /\ bridge'.mute = bridge.mute
  <2>1. bridge \in MxBridges /\ bridge.reqs \in Nat
    BY DEF MxInv, MxTypeOK, MxBridges
  <2>2. PICK r \in Nat : bridge' = [bridge EXCEPT !.reqs = r, !.effects = x, !.port = y]
    <3>1. bridge.reqs + 1 \in Nat
      BY <2>1
    <3> QED BY <1>b, <3>1, Zenon
  <2> QED BY <1>1, <2>1, <2>2, ZenonT(40) DEF MxBridges
<1>5. MxTypeOK' /\ Msx!MsxHitsKept'
  BY <1>1, <1>3, <1>4 DEF MxInv, MxTypeOK, Msx!MsxHitsKept
<1>6. m # "idle" /\ m # "cleanup"
  BY DEF Msx!Methods, Msx!Reads, Msx!ParentMethods
<1>7. ~native.due
  BY <1>1 DEF MxInv, MxLive, MxDue, MxAt
<1>8. MxDue'
  BY <1>1, <1>7 DEF MxDue
<1>9. MxVerified'
  <2>1. \A i \in 1 .. Len(s) : MxName(s, i) = "next_frame" => i >= 4
    BY <1>2 DEF MxBehind
  <2>2. s # <<>> => MxName(s, 1) \notin {"resumed", "frozen->frame"}
    BY <1>2, LenProperties, EmptySeq DEF MxBehind
  <2>3. /\ MxWillSay' => MxStops(s) /\ MxHas(s, MxStopping)
        /\ m = "press" => MxStops(s)
    BY <1>2, <1>3 DEF MxWillSay, MxHaltMethods
  <2>4. MxOwned(m, s)
    BY MxScripts DEF s
  <2>5. MxOwned(req.m, req.todo)'
    BY <1>3, <2>4 DEF MxOwned, MxHas
  <2> QED BY <1>3, <2>1, <2>2, <2>3, <2>5 DEF MxVerified, MxAt
<1>10. MxCleaned'
  BY <1>3, <1>6 DEF MxCleaned
<1>11. MxShape(req.todo)'
  <2>1. req'.todo = s
    BY <1>3
  <2> QED BY <1>2, <2>1 DEF MxShape, MxFrameShape, MxReadShape, MxReleaseShape, MxCancelShape
<1> QED BY <1>3, <1>4, <1>5, <1>6, <1>8, <1>9, <1>10, <1>11, MxOn

LEMMA MxIdleOK ==
    ASSUME NEW a \in {"none", "error", "load_failed", "clean", "closed", "frozen", "ok"}
    PROVE  Msx!Idle(a) \in MxReqs
<1>1. <<>> \in Seq(MxItems)
  BY EmptySeq
<1>2. Msx!Idle(a) = [m |-> "idle", todo |-> <<>>, answer |-> a, arg |-> "none", was |-> FALSE, held |-> FALSE, err |-> FALSE,
                     cut |-> FALSE]
  BY DEF Msx!Idle
<1> QED BY <1>1, <1>2 DEF MxReqs

LEMMA MxBeginsParent ==
    ASSUME MxInv, Msx!BeginParent
    PROVE  MxInv'
<1>1. /\ bridge' = [bridge EXCEPT !.reqs = @ + 1, !.parent = TRUE, !.effects = FALSE, !.port = FALSE]
      /\ req' = Msx!Idle("ok") /\ native' = native /\ wire' = wire /\ req.m = "idle" /\ ~bridge.fatal /\ ~bridge.dead
  BY DEF Msx!BeginParent
<1>a. bridge \in MxBridges /\ bridge.reqs \in Nat
  BY DEF MxInv, MxTypeOK, MxBridges
<1>b. PICK r \in Nat : bridge' = [bridge EXCEPT !.reqs = r, !.parent = TRUE, !.effects = FALSE, !.port = FALSE]
  <2>1. bridge.reqs + 1 \in Nat
    BY <1>a
  <2> QED BY <1>1, <2>1, Zenon
<1>c. /\ bridge' \in MxBridges /\ ~bridge'.fatal /\ ~bridge'.dead /\ bridge'.last = bridge.last
      /\ bridge'.kept = bridge.kept /\ bridge'.told = bridge.told /\ bridge'.mute = bridge.mute
  BY <1>1, <1>a, <1>b, ZenonT(40) DEF MxBridges
<1>2. MxTypeOK' /\ Msx!MsxHitsKept'
  <2>1. req' \in MxReqs
    BY <1>1, MxIdleOK
  <2> QED BY <1>1, <1>c, <2>1 DEF MxInv, MxTypeOK, Msx!MsxHitsKept
<1>3. ~native.due
  BY <1>1 DEF MxInv, MxLive, MxDue, MxAt
<1> QED BY <1>1, <1>2, <1>3, MxOver

LEMMA MxFinishesParent ==
    ASSUME MxInv, Msx!FinishParent
    PROVE  MxInv'
<1> DEFINE s == Msx!CleanParent(bridge.port)
<1>1. PICK p \in MsxPoints :
        /\ req.m = "idle" /\ ~bridge.fatal /\ ~bridge.dead /\ native' = native /\ wire' = wire
        /\ bridge' = [bridge EXCEPT !.parent = bridge.effects]
        /\ req' = IF bridge.effects THEN [Msx!Idle("none") EXCEPT !.m = "cleanup", !.todo = s, !.arg = p] ELSE Msx!Idle("closed")
  BY DEF Msx!FinishParent
<1>t. bridge \in MxBridges /\ bridge.effects \in BOOLEAN /\ bridge.port \in BOOLEAN
  BY DEF MxInv, MxTypeOK, MxBridges
<1>2. /\ bridge' \in MxBridges /\ ~bridge'.fatal /\ ~bridge'.dead /\ bridge'.last = bridge.last /\ bridge'.port = bridge.port
      /\ bridge'.kept = bridge.kept /\ bridge'.told = bridge.told /\ bridge'.mute = bridge.mute
  BY <1>1, <1>t DEF MxBridges
<1>3. Msx!MsxHitsKept'
  BY <1>1, <1>2 DEF MxInv, Msx!MsxHitsKept
<1>4. ~native.due
  BY <1>1 DEF MxInv, MxLive, MxDue, MxAt
<1>5. CASE ~bridge.effects
  <2>1. req' = Msx!Idle("closed")
    BY <1>1, <1>5
  <2>2. MxTypeOK'
    <3>1. req' \in MxReqs
      BY <2>1, MxIdleOK
    <3> QED BY <1>1, <1>2, <3>1 DEF MxInv, MxTypeOK
  <2> QED BY <1>1, <1>3, <1>4, <2>1, <2>2, MxOver
<1>6. CASE bridge.effects
  <2>1. /\ s \in Seq(MxItems) /\ MxShape(s) /\ MxBehind(s) /\ MxStops(s) /\ MxHas(s, MxStopping) /\ MxOwned("cleanup", s)
        /\ MxCleanShape(s) /\ MxHas(s, {"cancel_frame"}) /\ (bridge.port => MxHas(s, {"released"}))
    BY <1>t, MxCleanScript DEF MxScriptOK
  <2> HIDE DEF s
  <2>2. /\ req'.m = "cleanup" /\ req'.todo = s /\ req'.arg = p /\ req'.answer = "none" /\ ~req'.err /\ ~req'.cut /\ ~req'.was
        /\ req' \in MxReqs
    BY <1>1, <1>6, <2>1 DEF Msx!Idle, MxReqs
  <2>3. MxTypeOK'
    BY <1>1, <1>2, <2>2 DEF MxInv, MxTypeOK
  <2>4. MxDue'
    BY <1>1, <1>4 DEF MxDue
  <2>5. MxShape(req.todo)'
    <3>1. MxShape(req'.todo)
      BY <2>1, <2>2
    <3> QED BY <3>1 DEF MxShape, MxFrameShape, MxReadShape, MxReleaseShape, MxCancelShape
  <2>6. MxVerified'
    <3>1. \A i \in 1 .. Len(s) : ~(MxName(s, i) = "next_frame" /\ i <= 3)
      BY <2>1 DEF MxCleanShape, MxCleanNames
    <3>2. s # <<>> => MxName(s, 1) \notin {"resumed", "frozen->frame"}
      BY <2>1, LenProperties, EmptySeq DEF MxBehind
    <3>3. MxOwned(req.m, req.todo)'
      BY <2>1, <2>2 DEF MxOwned, MxHas
    <3> QED BY <2>1, <2>2, <3>1, <3>2, <3>3 DEF MxVerified, MxAt
  <2>7. MxCleaned'
    BY <1>2, <2>1, <2>2 DEF MxCleaned
  <2> QED BY <1>2, <1>3, <2>2, <2>3, <2>4, <2>5, <2>6, <2>7, MxOn
<1> QED BY <1>5, <1>6

LEMMA MxDies ==
    ASSUME MxInv, Msx!Dies
    PROVE  MxInv'
<1>1. bridge' = [bridge EXCEPT !.dead = TRUE] /\ req' = Msx!Idle("error") /\ native' = native /\ wire' = wire
  BY DEF Msx!Dies
<1>2. MxTypeOK' /\ Msx!MsxHitsKept' /\ bridge'.dead
  BY <1>1, EmptySeq DEF MxInv, MxTypeOK, MxBridges, MxReqs, Msx!Idle, Msx!MsxHitsKept
<1> QED BY <1>1, <1>2, MxOver DEF MxLive

LEMMA MxCleanTail ==
    ASSUME NEW s \in Seq(MxItems), s # <<>>, MxCleanShape(s)
    PROVE  MxCleanShape(Tail(s))
<1>1. /\ Len(s) \in Nat /\ Len(s) >= 1 /\ Len(Tail(s)) = Len(s) - 1
      /\ \A i \in 1 .. Len(s) - 1 : Tail(s)[i] = s[i + 1]
  BY MxTail
<1>2. \A i \in 1 .. Len(Tail(s)) : MxName(Tail(s), i) \in MxCleanNames /\ Tail(s)[i][2] \in {"hard", "stop"}
  BY <1>1 DEF MxCleanShape, MxName
<1>3. ASSUME NEW i \in 1 .. Len(Tail(s)), MxName(Tail(s), i) = "keys_up"
      PROVE  \E j \in 1 .. Len(Tail(s)) : j > i /\ MxName(Tail(s), j) = "released"
  <2>1. PICK j \in 1 .. Len(s) : j > i + 1 /\ MxName(s, j) = "released"
    BY <1>1, <1>3 DEF MxCleanShape, MxName
  <2> QED BY <1>1, <2>1 DEF MxName
<1> QED BY <1>2, <1>3 DEF MxCleanShape

LEMMA MxHasTail ==
    ASSUME NEW s \in Seq(MxItems), s # <<>>, NEW N
    PROVE  (MxHas(s, N) => MxHas(Tail(s), N) \/ MxName(s, 1) \in N) /\ (MxHas(Tail(s), N) => MxHas(s, N))
<1>1. /\ Len(s) \in Nat /\ Len(s) >= 1 /\ Len(Tail(s)) = Len(s) - 1
      /\ \A i \in 1 .. Len(s) - 1 : Tail(s)[i] = s[i + 1]
  BY MxTail
<1>2. ASSUME MxHas(s, N), MxName(s, 1) \notin N PROVE MxHas(Tail(s), N)
  <2>1. PICK i \in 1 .. Len(s) : MxName(s, i) \in N
    BY <1>2 DEF MxHas
  <2>2. i - 1 \in 1 .. Len(Tail(s)) /\ (i - 1) + 1 = i
    BY <1>1, <1>2, <2>1
  <2>3. MxName(Tail(s), i - 1) \in N
    BY <1>1, <2>1, <2>2 DEF MxName
  <2> QED BY <2>2, <2>3 DEF MxHas
<1>3. ASSUME MxHas(Tail(s), N) PROVE MxHas(s, N)
  <2>1. PICK i \in 1 .. Len(Tail(s)) : MxName(Tail(s), i) \in N
    BY <1>3 DEF MxHas
  <2>2. i + 1 \in 1 .. Len(s) /\ MxName(s, i + 1) \in N
    BY <1>1, <2>1 DEF MxName
  <2> QED BY <2>2 DEF MxHas
<1> QED BY <1>2, <1>3

LEMMA MxOwnedTail ==
    ASSUME NEW m, NEW s \in Seq(MxItems), s # <<>>, MxOwned(m, s)
    PROVE  MxOwned(m, Tail(s))
<1>1. /\ Len(s) \in Nat /\ Len(s) >= 1 /\ Len(Tail(s)) = Len(s) - 1
      /\ \A i \in 1 .. Len(s) - 1 : Tail(s)[i] = s[i + 1]
  BY MxTail
<1>2. m = "resume" => \A i \in 1 .. Len(Tail(s)) : MxName(Tail(s), i) \in MxResumeNames
  BY <1>1 DEF MxOwned, MxName
<1>3. m # "press" => ~MxHas(Tail(s), MxPressNames)
  BY MxHasTail DEF MxOwned
<1> QED BY <1>2, <1>3 DEF MxOwned

\* A step that no cleanup has.
LEMMA MxNoCleanup ==
    ASSUME MxInv, req.todo # <<>>, ~bridge.fatal, MxName(req.todo, 1) \notin MxCleanNames
    PROVE  req.m # "cleanup"
<1>1. SUFFICES ASSUME req.m = "cleanup" PROVE FALSE
  OBVIOUS
<1>2. MxCleanShape(req.todo) /\ 1 \in 1 .. Len(req.todo)
  BY <1>1, MxServed DEF MxCleaned
<1> QED BY <1>2 DEF MxCleanShape

\* The first step is taken off the list, and neither it nor what it did to the machine was a move or a verified stop.
LEMMA MxAdvances ==
    ASSUME MxInv, req.todo # <<>>, ~bridge.fatal, req' = [req EXCEPT !.todo = Tail(@)],
           native' = native, ~native.due, bridge'.port = bridge.port,
           MxName(req.todo, 1) \notin MxStopping \cup {"refresh", "frozen?", "cancel_frame", "released"}
    PROVE  MxShape(req.todo)' /\ MxDue' /\ MxVerified' /\ MxCleaned'
<1> DEFINE s == req.todo
           t == Tail(req.todo)
<1>1. /\ req.todo \in Seq(MxItems) /\ Len(s) \in Nat /\ Len(s) >= 1 /\ MxShape(s) /\ MxDue /\ MxVerified /\ MxCleaned
      /\ Len(t) = Len(s) - 1 /\ t \in Seq(MxItems) /\ \A i \in 1 .. Len(s) - 1 : t[i] = s[i + 1]
  BY MxServed
<1>2. MxShape(t) /\ (MxStops(s) => MxStops(t))
  BY <1>1, MxShapeTail, MxStopsTail
<1>3. req'.todo = t /\ req'.m = req.m /\ req'.err = req.err /\ req'.was = req.was /\ req'.cut = req.cut
  BY DEF MxInv, MxTypeOK, MxReqs
<1>4. \A N : MxHas(s, N) => MxHas(t, N) \/ MxName(s, 1) \in N
  BY <1>1, MxHasTail
<1> HIDE DEF s, t
<1>5. MxShape(req.todo)'
  <2>1. req'.todo = t
    BY <1>3
  <2>2. MxShape(req'.todo)
    BY <1>2, <2>1
  <2> QED BY <2>2 DEF MxShape, MxFrameShape, MxReadShape, MxReleaseShape, MxCancelShape
<1>6. MxDue'
  BY DEF MxDue
<1>7. MxVerified'
  <2>1. \A i \in 1 .. Len(t) : MxName(t, i) = "next_frame" /\ i <= 3 => MxHalted
    <3>1. SUFFICES ASSUME NEW i \in 1 .. Len(t), MxName(t, i) = "next_frame", i <= 3 PROVE MxHalted
      OBVIOUS
    <3>2. i + 1 \in 1 .. Len(s) /\ MxName(s, i + 1) = "next_frame"
      BY <1>1, <3>1 DEF MxName
    <3>3. i + 1 = 4 => MxName(s, 1) = "frozen?"
      BY <1>1, <3>2 DEF MxShape, MxFrameShape
    <3>4. i + 1 <= 3
      BY <3>1, <3>3 DEF s
    <3> QED BY <1>1, <3>2, <3>4 DEF MxVerified, s
  <2>2. t # <<>> => MxName(t, 1) \notin {"resumed", "frozen->frame"}
    <3>1. SUFFICES ASSUME t # <<>>, MxName(t, 1) \in {"resumed", "frozen->frame"} PROVE FALSE
      OBVIOUS
    <3>2. Len(t) >= 1
      BY <1>1, <3>1, EmptySeq
    <3>3. 2 \in 1 .. Len(s) /\ MxName(s, 2) = MxName(t, 1)
      BY <1>1, <3>2 DEF MxName
    <3>4. MxName(s, 1) = "refresh"
      BY <1>1, <3>1, <3>3 DEF MxShape, MxReadShape
    <3> QED BY <3>4 DEF s
  <2>7. req.m = "press" /\ ~req.err /\ MxHas(t, MxStopping \cup {"running->pause"}) => MxStops(t)
    BY <1>1, <1>2, MxHasTail DEF MxVerified, s, t
  <2>3. MxWillSay' = MxWillSay
    BY <1>3 DEF MxWillSay
  <2>4. MxHas(s, MxStopping) => MxHas(t, MxStopping)
    BY <1>4 DEF s
  <2>8. ~req.err => MxOwned(req.m, t) /\ (req.was => req.m = "press")
    <3>1. ~req.err => MxOwned(req.m, s) /\ (req.was => req.m = "press")
      BY <1>1 DEF MxVerified, s
    <3>2. MxOwned(req.m, s) => MxOwned(req.m, t)
      BY <1>1, MxOwnedTail DEF s, t
    <3> QED BY <3>1, <3>2
  <2>9. (~req.err => MxOwned(req.m, req.todo) /\ (req.was => req.m = "press"))'
    BY <1>3, <2>8 DEF MxOwned, MxHas
  <2>5. MxHalted' = MxHalted /\ MxStill' = MxStill
    BY DEF MxHalted, MxStill
  <2>6. MxWillSay => MxStops(t) /\ (~MxHas(t, MxStopping) => MxStill)
    BY <1>1, <1>2, <2>4 DEF MxVerified, s
  <2> QED BY <1>3, <2>1, <2>2, <2>3, <2>5, <2>6, <2>7, <2>9 DEF MxVerified, MxAt
<1>8. MxCleaned'
  <2>1. SUFFICES ASSUME req.m = "cleanup"
                 PROVE  /\ ~MxHas(t, {"cancel_frame"}) => ~native.due /\ ~native.target
                        /\ bridge.port /\ ~MxHas(t, {"released"}) => ~native.keys
                        /\ MxCleanShape(t)
    BY <1>3 DEF MxCleaned
  <2>2. /\ ~MxHas(s, {"cancel_frame"}) => ~native.due /\ ~native.target
        /\ bridge.port /\ ~MxHas(s, {"released"}) => ~native.keys
        /\ MxCleanShape(s)
    BY <1>1, <2>1 DEF MxCleaned, s
  <2>3. MxCleanShape(t)
    BY <1>1, <2>2, MxCleanTail DEF s, t
  <2> QED BY <1>4, <2>2, <2>3 DEF s
<1> QED BY <1>5, <1>6, <1>7, <1>8

\* A list behind a step that starts no frame and reads no stop depends on nothing before it.
LEMMA MxBehindTail ==
    ASSUME NEW s \in Seq(MxItems), s # <<>>, MxShape(s), MxName(s, 1) \notin {"frame", "prepare", "frozen?", "refresh"}
    PROVE  MxBehind(Tail(s))
<1>1. /\ Len(s) \in Nat /\ Len(s) >= 1 /\ Len(Tail(s)) = Len(s) - 1
      /\ \A i \in 1 .. Len(s) - 1 : Tail(s)[i] = s[i + 1]
  BY MxTail
<1>2. ASSUME NEW i \in 1 .. Len(Tail(s)), MxName(Tail(s), i) = "next_frame" PROVE i >= 4
  <2>1. i + 1 \in 1 .. Len(s) /\ MxName(s, i + 1) = "next_frame"
    BY <1>1, <1>2 DEF MxName
  <2>2. /\ MxName(s, (i + 1) - 1) = "frame"
        /\ i + 1 >= 3 => MxName(s, (i + 1) - 2) = "prepare"
        /\ i + 1 >= 4 => MxName(s, (i + 1) - 3) = "frozen?"
    BY <2>1 DEF MxShape, MxFrameShape
  <2>3. i # 1 /\ i # 2 /\ i # 3
    BY <2>2
  <2> QED BY <2>3
<1>3. ASSUME Len(Tail(s)) >= 1 PROVE MxName(Tail(s), 1) \notin {"resumed", "frozen->frame"}
  <2>1. 2 \in 1 .. Len(s) /\ MxName(Tail(s), 1) = MxName(s, 2)
    BY <1>1, <1>3 DEF MxName
  <2>2. MxName(s, 2) \in {"resumed", "frozen->frame"} => MxName(s, 1) = "refresh"
    BY <2>1 DEF MxShape, MxReadShape
  <2> QED BY <2>1, <2>2
<1> QED BY <1>2, <1>3 DEF MxBehind

\* The rest of the request is another list.
LEMMA MxJumps ==
    ASSUME NEW t \in Seq(MxItems), MxShape(t), req'.todo = t, req'.m # "cleanup",
           ~native'.due \/ (t # <<>> /\ MxName(t, 1) = "cancel_frame"), MxBehind(t) \/ MxHalted',
           req'.m = "press" /\ ~req'.err /\ MxHas(t, MxStopping \cup {"running->pause"}) => MxStops(t),
           MxWillSay' => MxStops(t) /\ (MxHas(t, MxStopping) \/ MxStill'),
           ~req'.err => MxOwned(req'.m, t) /\ (req'.was => req'.m = "press")
    PROVE  MxShape(req.todo)' /\ MxDue' /\ MxVerified' /\ MxCleaned'
<1>1. MxShape(req.todo)'
  <2>1. MxShape(req'.todo)
    OBVIOUS
  <2> QED BY <2>1 DEF MxShape, MxFrameShape, MxReadShape, MxReleaseShape, MxCancelShape
<1>2. MxDue'
  BY DEF MxDue, MxAt
<1>3. MxVerified'
  <2>1. \A i \in 1 .. Len(t) : MxName(t, i) = "next_frame" /\ i <= 3 => MxHalted'
    BY DEF MxBehind
  <2>2. t # <<>> /\ MxName(t, 1) \in {"resumed", "frozen->frame"} => MxHalted'
    BY LenProperties, EmptySeq DEF MxBehind
  <2>3. (~req.err => MxOwned(req.m, req.todo) /\ (req.was => req.m = "press"))'
    BY DEF MxOwned, MxHas
  <2> QED BY <2>1, <2>2, <2>3 DEF MxVerified, MxAt
<1>4. MxCleaned'
  BY DEF MxCleaned
<1> QED BY <1>1, <1>2, <1>3, <1>4

\* Only a request that owns the step is being served: its record keeps all but what is named.
LEMMA MxRequests ==
    ASSUME MxInv, NEW t \in Seq(MxItems), NEW w \in BOOLEAN, NEW e \in BOOLEAN, NEW c \in BOOLEAN,
           req' = [req EXCEPT !.todo = t, !.was = w, !.err = e, !.cut = c]
    PROVE  /\ req' \in MxReqs /\ req'.m = req.m /\ req'.answer = req.answer /\ req'.arg = req.arg
           /\ req'.todo = t /\ req'.was = w /\ req'.err = e /\ req'.cut = c
BY DEF MxInv, MxTypeOK, MxReqs

LEMMA MxUpdatesRead ==
    ASSUME MxInv, Msx!ReadUpdate
    PROVE  MxInv'
<1>1. /\ req.todo # <<>> /\ wire # <<>> /\ bridge' = [bridge EXCEPT !.seen = Head(wire)] /\ wire' = Tail(wire)
      /\ native' = native /\ req' = req /\ Msx!Current = "wait"
  BY DEF Msx!ReadUpdate
<1>2. wire \in Seq(BOOLEAN)
  BY DEF MxInv, MxTypeOK
<1>3. Head(wire) \in BOOLEAN /\ Tail(wire) \in Seq(BOOLEAN)
  BY <1>1, <1>2, HeadTailProperties
<1>4. bridge' \in MxBridges /\ bridge'.fatal = bridge.fatal /\ bridge'.dead = bridge.dead /\ bridge'.frozen = bridge.frozen
      /\ bridge'.last = bridge.last /\ bridge'.kept = bridge.kept /\ bridge'.told = bridge.told /\ bridge'.mute = bridge.mute
      /\ bridge'.port = bridge.port
  BY <1>1, <1>3 DEF MxInv, MxTypeOK, MxBridges
<1>5. MxTypeOK' /\ Msx!MsxHitsKept'
  BY <1>1, <1>3, <1>4 DEF MxInv, MxTypeOK, Msx!MsxHitsKept
<1>6. ~bridge.fatal => ~native.due
  BY <1>1, MxServed DEF MxDue, MxAt
<1>7. MxLive' = MxLive
  BY <1>4 DEF MxLive
<1>8. MxLive => MxDue' /\ MxShape(req.todo)' /\ MxVerified' /\ MxCleaned'
  <2>1. HAVE MxLive
  <2>2. MxShape(req.todo) /\ MxDue /\ MxVerified /\ MxCleaned
    BY <1>1, <2>1, MxServed DEF MxLive
  <2>3. MxDue'
    BY <1>1, <1>6, <2>1 DEF MxDue, MxLive
  <2>4. MxShape(req.todo)'
    BY <1>1, <2>2 DEF MxShape, MxFrameShape, MxReadShape, MxReleaseShape, MxCancelShape
  <2>5. MxVerified' /\ MxCleaned'
    BY <1>1, <1>4, <2>2 DEF MxVerified, MxCleaned, MxWillSay, MxHalted, MxStill, MxAt
  <2> QED BY <2>3, <2>4, <2>5
<1>9. req'.m # "idle" /\ req'.answer \notin {"frozen", "clean"} /\ req'.arg \in MsxPoints /\ ~bridge'.dead
  BY <1>1, <1>4, MxServed
<1> QED BY <1>5, <1>7, <1>8, <1>9, MxOn

LEMMA MxWaitsEnd ==
    ASSUME MxInv, Msx!WaitEnds
    PROVE  MxInv'
<1> DEFINE R == Msx!ReleaseTail
           I == Msx!StepInterrupted
<1>1. /\ req.todo # <<>> /\ Msx!Current = "wait" /\ native' = native /\ wire' = wire /\ bridge' = bridge
      /\ \/ bridge.seen /\ req' = [req EXCEPT !.todo = Tail(@)]
         \/ ~bridge.seen /\ req' = [req EXCEPT !.cut = TRUE, !.todo = I \o R]
  BY DEF Msx!WaitEnds, Msx!Advance
<1>2. /\ req.m # "idle" /\ req.answer \notin {"frozen", "clean"} /\ req.arg \in MsxPoints /\ ~bridge.dead
      /\ req.todo \in Seq(MxItems) /\ Tail(req.todo) \in Seq(MxItems) /\ MxName(req.todo, 1) = "wait"
      /\ ~bridge.fatal => MxLive /\ MxShape(req.todo) /\ MxDue /\ MxVerified /\ MxCleaned
  BY <1>1, MxServed
<1>3. Msx!MsxHitsKept'
  BY <1>1 DEF MxInv, Msx!MsxHitsKept
<1>4. CASE bridge.seen /\ req' = [req EXCEPT !.todo = Tail(@)]
  <2>1. req' \in MxReqs /\ req'.m = req.m /\ req'.answer = req.answer /\ req'.arg = req.arg
    BY <1>2, <1>4 DEF MxInv, MxTypeOK, MxReqs
  <2>2. MxTypeOK'
    BY <1>1, <2>1 DEF MxInv, MxTypeOK
  <2>3. ~bridge.fatal => MxShape(req.todo)' /\ MxDue' /\ MxVerified' /\ MxCleaned'
    <3>1. HAVE ~bridge.fatal
    <3>2. ~native.due
      BY <1>1, <1>2, <1>4, <3>1 DEF MxDue, MxAt
    <3>3. MxName(req.todo, 1) \notin MxStopping \cup {"refresh", "frozen?", "cancel_frame", "released"}
      BY <1>2 DEF MxStopping
    <3> QED BY <1>1, <1>4, <3>1, <3>2, <3>3, MxAdvances
  <2> QED BY <1>1, <1>2, <1>3, <2>1, <2>2, <2>3, MxOn DEF MxLive
<1>5. CASE ~bridge.seen /\ req' = [req EXCEPT !.cut = TRUE, !.todo = I \o R]
  <2>0. /\ MxPlain(I) /\ MxCalm(I) /\ MxHas(I, MxStopping) /\ Len(I) = 6 /\ MxName(I, 1) = "cancel_frame"
    BY MxLists, MxInterruptedFirst DEF MxList
  <2>1. /\ I \in Seq(MxItems) /\ MxShape(I) /\ (\A i \in 1 .. Len(I) : I[i][2] # "release")
    BY <2>0, MxPlainFacts
  <2>2. R \in Seq(MxItems)
    BY <1>2, MxReleaseTyped
  <2> HIDE DEF R, I
  <2>3. I \o R \in Seq(MxItems) /\ (I \o R)[1] = I[1] /\ Len(I \o R) >= 1
    BY <2>0, <2>1, <2>2, MxConcat
  <2>4. req' \in MxReqs /\ req'.m = req.m /\ req'.answer = req.answer /\ req'.arg = req.arg /\ req'.todo = I \o R
    BY <1>5, <2>3 DEF MxInv, MxTypeOK, MxReqs
  <2>5. MxTypeOK'
    BY <1>1, <2>4 DEF MxInv, MxTypeOK
  <2>6. ~bridge.fatal => MxShape(req.todo)' /\ MxDue' /\ MxVerified' /\ MxCleaned'
    <3>1. HAVE ~bridge.fatal
    <3>2. /\ MxShape(R) /\ MxBehind(R)
          /\ \A i \in 1 .. Len(R) : MxName(R, i) \in {"keys_back", "resume?"}
      BY <1>2, <3>1, MxReleases DEF R
    <3>3. MxStops(R) /\ MxStops(I)
      BY <2>0, <3>2, MxCalmStops DEF MxStops, MxMoving
    <3>4. MxShape(I \o R) /\ MxStops(I \o R) /\ MxHas(I \o R, MxStopping)
      BY <2>0, <2>1, <2>2, <3>2, <3>3, MxShapeConcat, MxStopsConcat, MxHasConcat
    <3>5. MxName(I \o R, 1) = "cancel_frame" /\ I \o R # <<>>
      BY <2>0, <2>3, EmptySeq DEF MxName
    <3>6. MxBehind(I \o R)
      <4>1. \A i \in 1 .. Len(I \o R) : MxName(I \o R, i) # "next_frame"
        <5>1. \A i \in 1 .. Len(I) : MxName(I, i) # "next_frame"
          BY <2>0 DEF MxPlain
        <5>2. \A i \in 1 .. Len(R) : MxName(R, i) # "next_frame"
          BY <3>2
        <5> QED BY <2>1, <2>2, <5>1, <5>2, MxSplit DEF MxName
      <4> QED BY <3>5, <4>1 DEF MxBehind
    <3>7. req.m # "cleanup"
      BY <1>1, <1>2, <3>1, MxNoCleanup DEF MxCleanNames
    <3>8. ~req.err => MxOwned(req.m, I \o R) /\ (req.was => req.m = "press")
      <4>1. HAVE ~req.err
      <4>2. MxOwned(req.m, req.todo) /\ (req.was => req.m = "press")
        BY <1>2, <3>1, <4>1 DEF MxVerified
      <4>3. req.m # "resume"
        <5>1. 1 \in 1 .. Len(req.todo)
          BY <1>1, MxServed
        <5> QED BY <1>2, <4>2, <5>1 DEF MxOwned, MxResumeNames
      <4>4. req.m # "press" => ~MxHas(I, MxPressNames) /\ ~MxHas(R, MxPressNames)
        BY <1>2, <2>0, <3>1, <4>2, MxPlainFacts, MxReleases DEF MxOwned, R
      <4> QED BY <2>1, <2>2, <4>2, <4>3, <4>4, MxLacksConcat DEF MxOwned
    <3>9. req'.err = req.err /\ req'.was = req.was
      BY <1>5 DEF MxInv, MxTypeOK, MxReqs
    <3> QED BY <2>3, <2>4, <3>4, <3>5, <3>6, <3>7, <3>8, <3>9, MxJumps
  <2> QED BY <1>1, <1>2, <1>3, <2>4, <2>5, <2>6, MxOn DEF MxLive
<1> QED BY <1>1, <1>4, <1>5

LEMMA MxDelivers ==
    ASSUME MxInv, Msx!Deliver
    PROVE  MxInv'
<1>1. PICK matching \in BOOLEAN :
        /\ req.todo # <<>> /\ Msx!Current = "deliver"
        /\ bridge' = [bridge EXCEPT !.events = IF matching THEN <<>> ELSE @]
        /\ req' = [req EXCEPT !.todo = Tail(@)] /\ native' = native /\ wire' = wire
  BY DEF Msx!Deliver, Msx!Advance
<1>2. /\ req.m # "idle" /\ req.answer \notin {"frozen", "clean"} /\ req.arg \in MsxPoints /\ ~bridge.dead
      /\ Tail(req.todo) \in Seq(MxItems) /\ MxName(req.todo, 1) = "deliver"
      /\ ~bridge.fatal => MxLive /\ MxShape(req.todo) /\ MxDue /\ MxVerified /\ MxCleaned
  BY <1>1, MxServed
<1>3. PICK ev : ev = IF matching THEN <<>> ELSE bridge.events
  OBVIOUS
<1>4. ev \in Seq(MsxPoints) /\ bridge' = [bridge EXCEPT !.events = ev]
  BY <1>1, <1>3, EmptySeq DEF MxInv, MxTypeOK, MxBridges
<1>5. /\ bridge' \in MxBridges /\ bridge'.fatal = bridge.fatal /\ bridge'.dead = bridge.dead /\ bridge'.last = bridge.last
      /\ bridge'.kept = bridge.kept /\ bridge'.told = bridge.told /\ bridge'.mute = bridge.mute /\ bridge'.port = bridge.port
  BY <1>4 DEF MxInv, MxTypeOK, MxBridges
<1>6. req' \in MxReqs /\ req'.m = req.m /\ req'.answer = req.answer /\ req'.arg = req.arg
  BY <1>1, <1>2 DEF MxInv, MxTypeOK, MxReqs
<1>7. MxTypeOK' /\ Msx!MsxHitsKept'
  BY <1>1, <1>5, <1>6 DEF MxInv, MxTypeOK, Msx!MsxHitsKept
<1>8. ~bridge.fatal => MxShape(req.todo)' /\ MxDue' /\ MxVerified' /\ MxCleaned'
  <2>1. HAVE ~bridge.fatal
  <2>2. ~native.due
    BY <1>1, <1>2, <2>1 DEF MxDue, MxAt
  <2>3. MxName(req.todo, 1) \notin MxStopping \cup {"refresh", "frozen?", "cancel_frame", "released"}
    BY <1>2 DEF MxStopping
  <2> QED BY <1>1, <1>5, <2>1, <2>2, <2>3, MxAdvances
<1> QED BY <1>2, <1>5, <1>6, <1>7, <1>8, MxOn DEF MxLive

LEMMA MxFinishes ==
    ASSUME MxInv, Msx!Finish
    PROVE  MxInv'
<1>1. req.m # "idle" /\ req.todo = <<>> /\ native' = native /\ wire' = wire
  BY DEF Msx!Finish
<1>2. PICK a : a = IF bridge.fatal THEN "error"
                   ELSE IF req.err THEN IF req.m = "load" THEN "load_failed" ELSE "error"
                   ELSE IF req.m = "cleanup" THEN "clean" ELSE IF Msx!SaysFrozen THEN "frozen" ELSE "ok"
  OBVIOUS
<1>3. req' = Msx!Idle(a)
  BY <1>2 DEF Msx!Finish
<1>4. PICK bps, u, pa : bridge' = [bridge EXCEPT !.bps = bps, !.used = u, !.parent = pa]
                         /\ bps \in SUBSET MsxPoints /\ u \in SUBSET MsxPoints /\ pa \in BOOLEAN
  <2>1. /\ bridge.bps \in SUBSET MsxPoints /\ bridge.used \in SUBSET MsxPoints /\ req.arg \in MsxPoints /\ bridge \in MxBridges
        /\ bridge.parent \in BOOLEAN
    BY <1>1 DEF MxInv, MxTypeOK, MxBridges
  <2>2. CASE req.err \/ bridge.fatal
    <3>1. bridge' = [bridge EXCEPT !.bps = bridge.bps, !.used = bridge.used, !.parent = bridge.parent]
      BY <2>1, <2>2 DEF Msx!Finish, MxBridges
    <3> QED BY <2>1, <3>1
  <2>3. CASE ~(req.err \/ bridge.fatal)
    <3>1. PICK n, u, pa : /\ n = CASE req.m = "set_breakpoint" -> bridge.bps \cup {req.arg}
                                   [] req.m = "clear_breakpoint" -> bridge.bps \ {req.arg} [] OTHER -> bridge.bps
                          /\ u = IF req.m = "set_breakpoint" THEN bridge.used \cup {req.arg} ELSE bridge.used
                          /\ pa = (bridge.parent /\ req.m # "cleanup")
      OBVIOUS
    <3>2. n \in SUBSET MsxPoints /\ u \in SUBSET MsxPoints /\ pa \in BOOLEAN
      BY <2>1, <3>1
    <3>3. bridge' = [bridge EXCEPT !.bps = n, !.used = u, !.parent = pa]
      BY <2>1, <2>3, <3>1 DEF Msx!Finish, MxBridges
    <3> QED BY <3>2, <3>3
  <2> QED BY <2>2, <2>3
<1>5. /\ bridge' \in MxBridges /\ bridge'.fatal = bridge.fatal /\ bridge'.dead = bridge.dead /\ bridge'.last = bridge.last
      /\ bridge'.kept = bridge.kept /\ bridge'.told = bridge.told /\ bridge'.mute = bridge.mute /\ bridge'.port = bridge.port
  BY <1>4 DEF MxInv, MxTypeOK, MxBridges
<1>6. req' \in MxReqs
  BY <1>2, <1>3, EmptySeq DEF MxReqs, Msx!Idle
<1>7. MxTypeOK' /\ Msx!MsxHitsKept'
  BY <1>1, <1>5, <1>6 DEF MxInv, MxTypeOK, Msx!MsxHitsKept
<1>8. MxLive' = MxLive
  BY <1>5 DEF MxLive
<1>9. MxLive => ~native.due
  BY <1>1 DEF MxInv, MxDue, MxAt
<1>10. a \in {"frozen", "clean"} => MxLive /\ ~req.err /\ (Msx!SaysFrozen \/ req.m = "cleanup")
  BY <1>1, <1>2 DEF MxInv, MxLive
<1>11. a \in {"frozen", "clean"} => MxWillSay
  <2>0. HAVE a \in {"frozen", "clean"}
  <2>1. ~req.err /\ (Msx!SaysFrozen \/ req.m = "cleanup")
    BY <1>10, <2>0
  <2>2. req.m \in {"pause", "step", "step_instructions", "load", "reset", "media", "cleanup"} =>
          req.m \in MxHaltMethods /\ req.m # "press"
    BY DEF MxHaltMethods
  <2>3. "press" \in MxHaltMethods
    BY DEF MxHaltMethods
  <2> QED BY <2>1, <2>2, <2>3 DEF MxWillSay, Msx!SaysFrozen
<1>12. \A N : ~MxHas(req.todo, N)
  BY <1>1 DEF MxHas
<1>13. a \in {"frozen", "clean"} => MxStill'
  <2>1. HAVE a \in {"frozen", "clean"}
  <2>2. MxVerified
    BY <1>1, <1>10, <2>1 DEF MxInv
  <2>3. MxStill
    BY <1>11, <1>12, <2>1, <2>2 DEF MxVerified
  <2> QED BY <1>1, <2>3 DEF MxStill, MxHalted
<1>14. a = "clean" => ~native'.target /\ (bridge'.port => ~native'.keys)
  <2>1. HAVE a = "clean"
  <2>2. req.m = "cleanup" /\ MxCleaned
    BY <1>1, <1>2, <1>10, <2>1 DEF MxInv
  <2> QED BY <1>1, <1>5, <1>12, <2>2 DEF MxCleaned
<1> QED BY <1>1, <1>3, <1>7, <1>8, <1>9, <1>13, <1>14, MxOver

\* A decision that goes on with the rest of the list.
LEMMA MxRests ==
    ASSUME MxInv, req.todo # <<>>, ~bridge.fatal, native' = native, ~native.due, req'.todo = Tail(req.todo), req'.m = req.m,
           MxName(req.todo, 1) \notin MxStopping \cup MxCleanNames \cup {"frame", "prepare", "frozen?", "refresh"},
           MxWillSay' => MxWillSay, ~req'.err => ~req.err /\ (req'.was => req'.m = "press")
    PROVE  MxShape(req.todo)' /\ MxDue' /\ MxVerified' /\ MxCleaned'
<1> DEFINE t == Tail(req.todo)
<1>1. /\ req.todo \in Seq(MxItems) /\ MxShape(req.todo) /\ MxVerified /\ t \in Seq(MxItems)
  BY MxServed
<1>2. MxShape(t) /\ MxBehind(t) /\ (MxStops(req.todo) => MxStops(t))
  BY <1>1, MxShapeTail, MxBehindTail, MxStopsTail
<1>3. req.m # "cleanup"
  BY MxNoCleanup
<1>4. /\ MxHas(req.todo, MxStopping) => MxHas(t, MxStopping)
      /\ MxHas(t, MxStopping \cup {"running->pause"}) => MxHas(req.todo, MxStopping \cup {"running->pause"})
  BY <1>1, MxHasTail
<1>5. req'.m = "press" /\ ~req'.err /\ MxHas(t, MxStopping \cup {"running->pause"}) => MxStops(t)
  BY <1>1, <1>2, <1>4 DEF MxVerified
<1>6. MxWillSay' => MxStops(t) /\ (MxHas(t, MxStopping) \/ MxStill')
  BY <1>1, <1>2, <1>4 DEF MxVerified, MxStill, MxHalted
<1>7. ~req'.err => MxOwned(req'.m, t) /\ (req'.was => req'.m = "press")
  BY <1>1, MxOwnedTail DEF MxVerified
<1> HIDE DEF t
<1>8. req'.todo = t
  BY DEF t
<1> QED BY <1>1, <1>2, <1>3, <1>5, <1>6, <1>7, <1>8, MxJumps

\* The end of a list is as good as the list.
LEMMA MxSuffix ==
    ASSUME NEW s \in Seq(MxItems), NEW k \in Nat, k >= 1, MxShape(s)
    PROVE  LET u == SubSeq(s, k, Len(s))
           IN /\ u \in Seq(MxItems) /\ MxShape(u) /\ (MxStops(s) => MxStops(u))
              /\ \A N : MxHas(u, N) => MxHas(s, N)
              /\ \A m : MxOwned(m, s) => MxOwned(m, u)
<1> DEFINE u == SubSeq(s, k, Len(s))
<1>1. Len(s) \in Nat
  BY LenProperties
<1>2. CASE k > Len(s)
  <2>1. u = <<>>
    <3>1. u \in Seq(MxItems) /\ Len(u) = 0
      BY <1>1, <1>2, SubSeqProperties
    <3> QED BY <3>1, EmptySeq
  <2>2. Len(u) = 0 /\ u \in Seq(MxItems)
    BY <2>1, EmptySeq
  <2> HIDE DEF u
  <2> QED BY <2>2 DEF u, MxShape, MxFrameShape, MxReadShape, MxReleaseShape, MxCancelShape, MxStops, MxHas, MxOwned
<1>3. CASE k <= Len(s)
  <2>1. /\ u \in Seq(MxItems) /\ Len(u) = Len(s) - k + 1 /\ \A i \in 1 .. Len(s) - k + 1 : u[i] = s[k + i - 1]
    BY <1>1, <1>3, SubSeqProperties
  <2> HIDE DEF u
  <2> DEFINE d == k - 1
  <2>2. /\ d \in Nat /\ Len(u) \in Nat /\ Len(s) = Len(u) + d /\ \A i \in 1 .. Len(u) : i + d \in 1 .. Len(s) /\ u[i] = s[i + d]
    <3>1. \A i \in 1 .. Len(u) : k + i - 1 = i + d /\ i + d \in 1 .. Len(s)
      BY <1>1, <1>3, <2>1
    <3>2. d \in Nat /\ Len(u) \in Nat /\ Len(s) = Len(u) + d
      BY <1>1, <1>3, <2>1
    <3>3. \A i \in 1 .. Len(u) : u[i] = s[k + i - 1]
      BY <2>1
    <3> HIDE DEF d
    <3> QED BY <3>1, <3>2, <3>3
  <2> HIDE DEF d
  <2>3. MxFrameShape(u)
    <3>1. SUFFICES ASSUME NEW i \in 1 .. Len(u), MxName(u, i) = "next_frame"
                   PROVE  /\ i + 1 \in 1 .. Len(u) /\ MxName(u, i + 1) = "wait"
                          /\ i >= 2 => MxName(u, i - 1) = "frame"
                          /\ i >= 3 => MxName(u, i - 2) = "prepare"
                          /\ i >= 4 => MxName(u, i - 3) = "frozen?"
      BY DEF MxFrameShape
    <3> DEFINE j == i + d
    <3>2. j \in 1 .. Len(s) /\ MxName(s, j) = "next_frame"
      BY <2>2, <3>1 DEF MxName
    <3>3. /\ j + 1 \in 1 .. Len(s) /\ MxName(s, j + 1) = "wait"
          /\ j >= 2 => MxName(s, j - 1) = "frame"
          /\ j >= 3 => MxName(s, j - 2) = "prepare"
          /\ j >= 4 => MxName(s, j - 3) = "frozen?"
      BY <3>2 DEF MxShape, MxFrameShape
    <3>4. /\ i + 1 \in 1 .. Len(u) /\ (i + 1) + d = j + 1 /\ (i - 1) + d = j - 1 /\ (i - 2) + d = j - 2 /\ (i - 3) + d = j - 3
          /\ (i >= 2 => i - 1 \in 1 .. Len(u) /\ j >= 2) /\ (i >= 3 => i - 2 \in 1 .. Len(u) /\ j >= 3)
          /\ (i >= 4 => i - 3 \in 1 .. Len(u) /\ j >= 4)
      BY <2>2, <3>1, <3>3
    <3> HIDE DEF j
    <3>5. \A n \in 1 .. Len(u) : MxName(u, n) = MxName(s, n + d)
      BY <2>2 DEF MxName
    <3> QED BY <3>3, <3>4, <3>5
  <2>4. MxReadShape(u)
    <3>1. SUFFICES ASSUME NEW i \in 1 .. Len(u), MxName(u, i) \in {"resumed", "frozen->frame"}, i >= 2
                   PROVE  MxName(u, i - 1) = "refresh"
      BY DEF MxReadShape
    <3>2. i + d \in 1 .. Len(s) /\ i + d >= 2 /\ i - 1 \in 1 .. Len(u) /\ (i - 1) + d = (i + d) - 1
      BY <2>2, <3>1
    <3>3. MxName(s, i + d) \in {"resumed", "frozen->frame"}
      BY <2>2, <3>1 DEF MxName
    <3>4. MxName(s, (i + d) - 1) = "refresh"
      BY <3>2, <3>3 DEF MxShape, MxReadShape
    <3> QED BY <2>2, <3>2, <3>4 DEF MxName
  <2>5. MxReleaseShape(u)
    <3>1. SUFFICES ASSUME NEW i \in 1 .. Len(u), NEW j \in 1 .. Len(u), u[i][2] = "release", i <= j
                   PROVE  MxName(u, j) \in {"keys_back", "resume?"}
      BY DEF MxReleaseShape
    <3>2. i + d \in 1 .. Len(s) /\ j + d \in 1 .. Len(s) /\ i + d <= j + d /\ s[i + d][2] = "release"
      BY <2>2, <3>1
    <3>3. MxName(s, j + d) \in {"keys_back", "resume?"}
      BY <3>2 DEF MxShape, MxReleaseShape
    <3> QED BY <2>2, <3>3 DEF MxName
  <2>6. MxCancelShape(u)
    BY <2>2 DEF MxShape, MxCancelShape, MxName
  <2>7. MxStops(s) => MxStops(u)
    <3>1. SUFFICES ASSUME MxStops(s), NEW i \in 1 .. Len(u), MxName(u, i) \in MxMoving
                   PROVE  \E j \in 1 .. Len(u) : j > i /\ MxName(u, j) \in MxStopping
      BY DEF MxStops
    <3>2. i + d \in 1 .. Len(s) /\ MxName(s, i + d) \in MxMoving
      BY <2>2, <3>1 DEF MxName
    <3>3. PICK j \in 1 .. Len(s) : j > i + d /\ MxName(s, j) \in MxStopping
      BY <3>1, <3>2 DEF MxStops
    <3>4. j - d \in 1 .. Len(u) /\ j - d > i /\ (j - d) + d = j
      BY <2>2, <3>1, <3>3
    <3>5. MxName(u, j - d) \in MxStopping
      BY <2>2, <3>3, <3>4 DEF MxName
    <3> QED BY <3>4, <3>5
  <2>8. \A N : MxHas(u, N) => MxHas(s, N)
    BY <2>2 DEF MxHas, MxName
  <2>9. \A m : MxOwned(m, s) => MxOwned(m, u)
    BY <2>2, <2>8 DEF MxOwned, MxName
  <2> QED BY <2>1, <2>3, <2>4, <2>5, <2>6, <2>7, <2>8, <2>9 DEF u, MxShape
<1> QED BY <1>1, <1>2, <1>3

LEMMA MxHitList ==
    \A i \in 1 .. Len(Msx!Soft(<<"drain", "hit?">>)) : MxName(Msx!Soft(<<"drain", "hit?">>), i) \in MxResumeNames
<1>1. PICK c : c = <<"drain", "hit?">>
  OBVIOUS
<1>2. c \in Seq(MxNames) /\ Len(c) = 2 /\ c[1] = "drain" /\ c[2] = "hit?"
  BY <1>1 DEF MxNames, MxHardNames, MxPlainNames
<1>3. "soft" \in MxPolicies
  BY DEF MxPolicies
<1>4. PICK s : s = Msx!Policy("soft", c)
  OBVIOUS
<1>5. Len(s) = Len(c) /\ \A i \in 1 .. Len(c) : MxName(s, i) = c[i]
  BY <1>2, <1>3, <1>4, MxNamed
<1>6. \A i \in 1 .. Len(s) : MxName(s, i) \in MxResumeNames
  BY <1>2, <1>5 DEF MxResumeNames
<1> QED BY <1>1, <1>4, <1>6 DEF Msx!Soft

\* What a decision has to show.
LEMMA MxDecision ==
    ASSUME MxInv, req.todo # <<>>, native' = native, wire' = wire, bridge' = bridge,
           NEW t \in Seq(MxItems), NEW w \in BOOLEAN, NEW e \in BOOLEAN, NEW c \in BOOLEAN,
           req' = [req EXCEPT !.todo = t, !.was = w, !.err = e, !.cut = c],
           ~bridge.fatal => MxShape(req.todo)' /\ MxDue' /\ MxVerified' /\ MxCleaned'
    PROVE  MxInv'
<1>1. /\ req' \in MxReqs /\ req'.m = req.m /\ req'.answer = req.answer /\ req'.arg = req.arg
  BY MxRequests
<1>2. MxTypeOK' /\ Msx!MsxHitsKept'
  BY <1>1 DEF MxInv, MxTypeOK, Msx!MsxHitsKept
<1>3. req.m # "idle" /\ req.answer \notin {"frozen", "clean"} /\ req.arg \in MsxPoints /\ ~bridge.dead
  BY MxServed
<1> QED BY <1>1, <1>2, <1>3, MxOn DEF MxLive

MxDecisions == {"stepped", "frozen->frame", "running->pause", "resume?", "resumed", "hit?", "count?"}
LEMMA MxAtDecision ==
    ASSUME MxInv, req.todo # <<>>, ~bridge.fatal, Msx!Current \in MxDecisions
    PROVE  /\ ~native.due /\ req.m # "cleanup" /\ MxName(req.todo, 1) = Msx!Current
           /\ req.todo \in Seq(MxItems) /\ Tail(req.todo) \in Seq(MxItems) /\ 1 \in 1 .. Len(req.todo)
           /\ MxShape(req.todo) /\ MxShape(Tail(req.todo)) /\ MxBehind(Tail(req.todo))
           /\ MxStops(req.todo) => MxStops(Tail(req.todo))
           /\ MxVerified
           /\ Msx!Current # "stepped" =>
                MxName(req.todo, 1) \notin MxStopping \cup MxCleanNames \cup {"frame", "prepare", "frozen?", "refresh"}
<1>1. /\ req.todo \in Seq(MxItems) /\ Tail(req.todo) \in Seq(MxItems) /\ Len(req.todo) \in Nat /\ Len(req.todo) >= 1
      /\ MxName(req.todo, 1) = Msx!Current /\ MxShape(req.todo) /\ MxDue /\ MxVerified
  BY MxServed
<1>2. ~native.due
  BY <1>1 DEF MxDue, MxAt, MxDecisions
<1>3. MxName(req.todo, 1) \notin MxCleanNames /\ MxName(req.todo, 1) \notin {"frame", "prepare", "frozen?", "refresh"}
  BY <1>1 DEF MxDecisions, MxCleanNames
<1>4. req.m # "cleanup"
  BY <1>3, MxNoCleanup
<1>5. MxShape(Tail(req.todo)) /\ MxBehind(Tail(req.todo)) /\ (MxStops(req.todo) => MxStops(Tail(req.todo)))
  BY <1>1, <1>3, MxShapeTail, MxBehindTail, MxStopsTail
<1>6. Msx!Current # "stepped" => MxName(req.todo, 1) \notin MxStopping
  BY <1>1 DEF MxDecisions, MxStopping
<1> QED BY <1>1, <1>2, <1>3, <1>4, <1>5, <1>6

LEMMA MxStepDecided ==
    ASSUME MxInv, req.todo # <<>>, Msx!Current = "stepped", native' = native, wire' = wire, bridge' = bridge,
           NEW X \in {Msx!StepBroken, Msx!StepCompleted}, NEW c \in BOOLEAN,
           req' = [req EXCEPT !.cut = c, !.todo = X \o Tail(req.todo)]
    PROVE  MxInv'
<1> DEFINE r == Tail(req.todo)
           t == X \o r
<1>1. MxPlain(X) /\ MxCalm(X) /\ MxHas(X, MxStopping)
  BY MxLists DEF MxList
<1>2. X \in Seq(MxItems) /\ MxShape(X) /\ MxBehind(X) /\ (\A i \in 1 .. Len(X) : X[i][2] # "release") /\ ~MxHas(X, MxPressNames) /\ MxStops(X)
  BY <1>1, MxPlainFacts, MxCalmStops
<1>3. r \in Seq(MxItems)
  BY MxServed
<1>4. t \in Seq(MxItems)
  BY <1>2, <1>3, MxConcat
<1>5. req.was \in BOOLEAN /\ req.err \in BOOLEAN /\ req' = [req EXCEPT !.todo = t, !.was = req.was, !.err = req.err, !.cut = c]
  BY DEF MxInv, MxTypeOK, MxReqs
<1>6. req'.m = req.m /\ req'.todo = t /\ req'.was = req.was /\ req'.err = req.err /\ req'.cut = c
  BY <1>4, <1>5, MxRequests, ZenonT(60)
<1>7. ~bridge.fatal => MxShape(req.todo)' /\ MxDue' /\ MxVerified' /\ MxCleaned'
  <2>1. HAVE ~bridge.fatal
  <2>2. /\ ~native.due /\ req.m # "cleanup" /\ MxName(req.todo, 1) = "stepped" /\ req.todo \in Seq(MxItems)
        /\ MxShape(r) /\ MxBehind(r) /\ (MxStops(req.todo) => MxStops(r)) /\ MxVerified /\ 1 \in 1 .. Len(req.todo)
    BY <2>1, MxAtDecision DEF MxDecisions
  <2>3. MxHas(req.todo, MxStopping) /\ MxHas(req.todo, MxStopping \cup {"running->pause"})
    BY <2>2 DEF MxHas, MxStopping
  <2>4. ~req.err => MxOwned(req.m, req.todo) /\ (req.was => req.m = "press")
    BY <2>2 DEF MxVerified
  <2>5. ~req.err => req.m # "resume"
    BY <2>2, <2>4 DEF MxOwned, MxResumeNames
  <2>6. MxWillSay' => MxStops(req.todo)
    <3>1. HAVE MxWillSay'
    <3>2. ~req.err /\ req.m \in MxHaltMethods
      BY <1>6, <2>5, <3>1 DEF MxWillSay
    <3>3. CASE req.m = "press"
      BY <2>2, <2>3, <3>2, <3>3 DEF MxVerified
    <3>4. CASE req.m # "press"
      BY <2>2, <3>2, <3>4 DEF MxVerified, MxWillSay
    <3> QED BY <3>3, <3>4
  <2>7. MxShape(t) /\ MxHas(t, MxStopping)
    BY <1>1, <1>2, <1>3, <2>2, MxShapeConcat, MxHasConcat
  <2>8. MxStops(req.todo) => MxStops(t)
    BY <1>2, <1>3, <2>2, MxStopsConcat
  <2>9. MxBehind(t)
    <3>1. \A i \in 1 .. Len(X) : MxName(X, i) # "next_frame"
      BY <1>1 DEF MxPlain
    <3>2. Len(X) \in Nat /\ Len(X) >= 1
      BY <1>1, <1>2, LenProperties DEF MxHas
    <3>3. ASSUME NEW i \in 1 .. Len(t), MxName(t, i) = "next_frame" PROVE i >= 4
      <4>1. \/ i \in 1 .. Len(X) /\ t[i] = X[i]
            \/ i - Len(X) \in 1 .. Len(r) /\ i > Len(X) /\ t[i] = r[i - Len(X)]
        BY <1>2, <1>3, <3>3, MxSplit
      <4>2. i - Len(X) \in 1 .. Len(r) /\ i > Len(X) /\ MxName(r, i - Len(X)) = "next_frame"
        BY <3>1, <3>3, <4>1 DEF MxName
      <4>3. i - Len(X) >= 4
        BY <2>2, <4>2 DEF MxBehind
      <4> QED BY <3>2, <3>3, <4>3
    <3>4. MxName(t, 1) \notin {"resumed", "frozen->frame"}
      <4>1. t[1] = X[1]
        BY <1>2, <1>3, <3>2, MxConcat
      <4> QED BY <1>1, <3>2, <4>1 DEF MxPlain, MxName
    <3> QED BY <3>3, <3>4 DEF MxBehind
  <2>10. ~req.err => MxOwned(req.m, t)
    <3>1. HAVE ~req.err
    <3>2. req.m # "press" => ~MxHas(r, MxPressNames)
      BY <2>2, <2>4, <3>1, MxHasTail DEF MxOwned
    <3> QED BY <1>2, <1>3, <2>5, <3>1, <3>2, MxLacksConcat DEF MxOwned
  <2>11. req.m = "press" /\ ~req.err => MxStops(t)
    BY <2>2, <2>3, <2>8 DEF MxVerified
  <2> HIDE DEF t, r
  <2> QED BY <1>4, <1>6, <2>2, <2>4, <2>6, <2>7, <2>8, <2>9, <2>10, <2>11, MxJumps
<1> QED BY <1>4, <1>5, <1>7, MxDecision

\* A decision that leaves the rest as it is.
LEMMA MxRestDecided ==
    ASSUME MxInv, req.todo # <<>>, Msx!Current \in MxDecisions \ {"stepped"}, native' = native, wire' = wire, bridge' = bridge,
           NEW w \in BOOLEAN, NEW e \in BOOLEAN, NEW c \in BOOLEAN,
           req' = [req EXCEPT !.todo = Tail(req.todo), !.was = w, !.err = e, !.cut = c],
           ~bridge.fatal => (MxWillSay' => MxWillSay), ~bridge.fatal /\ ~e => ~req.err /\ (w => req.m = "press")
    PROVE  MxInv'
<1>1. Tail(req.todo) \in Seq(MxItems)
  BY MxServed
<1>2. req'.m = req.m /\ req'.todo = Tail(req.todo) /\ req'.was = w /\ req'.err = e /\ req'.cut = c
  BY <1>1, MxRequests
<1>3. ~bridge.fatal => MxShape(req.todo)' /\ MxDue' /\ MxVerified' /\ MxCleaned'
  <2>1. HAVE ~bridge.fatal
  <2>2. /\ ~native.due
        /\ MxName(req.todo, 1) \notin MxStopping \cup MxCleanNames \cup {"frame", "prepare", "frozen?", "refresh"}
    BY <2>1, MxAtDecision
  <2> QED BY <1>2, <2>1, <2>2, MxRests
<1> QED BY <1>1, <1>3, MxDecision

\* A decision taken where the machine is known to be stopped.
LEMMA MxStoppedDecided ==
    ASSUME MxInv, req.todo # <<>>, Msx!Current \in {"resumed", "frozen->frame"}, bridge.frozen,
           native' = native, wire' = wire, bridge' = bridge,
           NEW t \in Seq(MxItems), NEW c \in BOOLEAN, req' = [req EXCEPT !.todo = t, !.cut = c],
           ~bridge.fatal => /\ MxShape(t) /\ (~req.err => MxOwned(req.m, t))
                            /\ req.m = "press" /\ ~req.err /\ MxHas(t, MxStopping \cup {"running->pause"}) => MxStops(t)
                            /\ MxWillSay' => MxStops(t)
    PROVE  MxInv'
<1>1. req.was \in BOOLEAN /\ req.err \in BOOLEAN /\ req' = [req EXCEPT !.todo = t, !.was = req.was, !.err = req.err, !.cut = c]
  BY DEF MxInv, MxTypeOK, MxReqs
<1>2. req'.m = req.m /\ req'.todo = t /\ req'.was = req.was /\ req'.err = req.err /\ req'.cut = c
  BY <1>1, MxRequests, ZenonT(60)
<1>3. ~bridge.fatal => MxShape(req.todo)' /\ MxDue' /\ MxVerified' /\ MxCleaned'
  <2>1. HAVE ~bridge.fatal
  <2>2. ~native.due /\ req.m # "cleanup" /\ MxVerified /\ MxName(req.todo, 1) = Msx!Current
    BY <2>1, MxAtDecision DEF MxDecisions
  <2>3. MxHalted
    BY <2>2 DEF MxVerified, MxAt
  <2>4. MxHalted' /\ MxStill' /\ ~native'.due
    BY <2>2, <2>3 DEF MxHalted, MxStill
  <2>5. ~req.err => (req.was => req.m = "press")
    BY <2>2 DEF MxVerified
  <2> QED BY <1>2, <2>1, <2>2, <2>4, <2>5, MxJumps
<1> QED BY <1>1, <1>3, MxDecision

LEMMA MxPressDecided ==
    ASSUME MxInv, req.todo # <<>>, Msx!Current = "running->pause", ~bridge.frozen, native' = native, wire' = wire, bridge' = bridge,
           req' = [req EXCEPT !.was = TRUE, !.todo = Msx!Pause \o Tail(req.todo)]
    PROVE  MxInv'
<1> DEFINE X == Msx!Pause
           r == Tail(req.todo)
           t == X \o r
<1>2. /\ X \in Seq(MxItems) /\ MxShape(X) /\ MxBehind(X) /\ (\A i \in 1 .. Len(X) : X[i][2] # "release") /\ ~MxHas(X, MxPressNames)
      /\ MxStops(X) /\ MxHas(X, MxStopping)
  BY MxPauseScript, MxCalmStops DEF MxScriptOK
<1>3. r \in Seq(MxItems)
  BY MxServed
<1> HIDE DEF X
<1>4. t \in Seq(MxItems)
  BY <1>2, <1>3, MxConcat
<1>5. req.cut \in BOOLEAN /\ req.err \in BOOLEAN /\ req' = [req EXCEPT !.todo = t, !.was = TRUE, !.err = req.err, !.cut = req.cut]
  BY DEF MxInv, MxTypeOK, MxReqs, X
<1>6. req'.m = req.m /\ req'.todo = t /\ req'.was = TRUE /\ req'.err = req.err /\ req'.cut = req.cut
  BY <1>4, <1>5, MxRequests, ZenonT(60)
<1>7. ~bridge.fatal => MxShape(req.todo)' /\ MxDue' /\ MxVerified' /\ MxCleaned'
  <2>1. HAVE ~bridge.fatal
  <2>2. /\ ~native.due /\ req.m # "cleanup" /\ MxName(req.todo, 1) = "running->pause" /\ req.todo \in Seq(MxItems)
        /\ MxShape(r) /\ MxBehind(r) /\ (MxStops(req.todo) => MxStops(r)) /\ MxVerified /\ 1 \in 1 .. Len(req.todo)
    BY <2>1, MxAtDecision DEF MxDecisions
  <2>3. MxHas(req.todo, MxStopping \cup {"running->pause"}) /\ MxHas(req.todo, MxPressNames)
    BY <2>2 DEF MxHas, MxPressNames
  <2>4. ~req.err => req.m = "press" /\ MxOwned(req.m, req.todo)
    BY <2>2, <2>3 DEF MxVerified, MxOwned
  <2>5. ~req.err => MxStops(r)
    BY <2>2, <2>3, <2>4 DEF MxVerified
  <2>6. MxShape(t) /\ MxHas(t, MxStopping)
    BY <1>2, <1>3, <2>2, MxShapeConcat, MxHasConcat
  <2>7. ~req.err => MxStops(t)
    BY <1>2, <1>3, <2>5, MxStopsConcat
  <2>8. MxBehind(t)
    <3>2. Len(X) \in Nat /\ Len(X) >= 1
      BY <1>2, LenProperties DEF MxHas
    <3>3. ASSUME NEW i \in 1 .. Len(t), MxName(t, i) = "next_frame" PROVE i >= 4
      <4>1. \/ i \in 1 .. Len(X) /\ t[i] = X[i]
            \/ i - Len(X) \in 1 .. Len(r) /\ i > Len(X) /\ t[i] = r[i - Len(X)]
        BY <1>2, <1>3, <3>3, MxSplit
      <4>2. CASE i \in 1 .. Len(X) /\ t[i] = X[i]
        BY <1>2, <3>3, <4>2 DEF MxName, MxBehind
      <4>3. CASE i - Len(X) \in 1 .. Len(r) /\ i > Len(X) /\ t[i] = r[i - Len(X)]
        <5>1. i - Len(X) >= 4
          BY <2>2, <3>3, <4>3 DEF MxBehind, MxName
        <5> QED BY <3>2, <3>3, <5>1
      <4> QED BY <4>1, <4>2, <4>3
    <3>4. MxName(t, 1) \notin {"resumed", "frozen->frame"}
      <4>1. t[1] = X[1]
        BY <1>2, <1>3, <3>2, MxConcat
      <4> QED BY <1>2, <3>2, <4>1 DEF MxBehind, MxName
    <3> QED BY <3>3, <3>4 DEF MxBehind
  <2>9. ~req.err => MxOwned(req.m, t)
    BY <2>4 DEF MxOwned
  <2>10. MxWillSay' => ~req.err
    BY <1>6 DEF MxWillSay
  <2> HIDE DEF t, r
  <2> QED BY <1>4, <1>6, <2>2, <2>4, <2>6, <2>7, <2>8, <2>9, <2>10, MxJumps
<1> QED BY <1>4, <1>5, <1>7, MxDecision

LEMMA MxResumeDecided ==
    ASSUME MxInv, req.todo # <<>>, Msx!Current = "resume?", req.was, ~req.cut, native' = native, wire' = wire, bridge' = bridge,
           req' = [req EXCEPT !.todo = Msx!Resume]
    PROVE  MxInv'
<1> DEFINE t == Msx!Resume
<1>1. /\ t \in Seq(MxItems) /\ MxShape(t) /\ MxBehind(t) /\ \A i \in 1 .. Len(t) : MxName(t, i) \in MxResumeNames
  BY MxResumeScript DEF MxScriptOK
<1> HIDE DEF t
<1>2. ~MxHas(t, MxStopping \cup {"running->pause"}) /\ ~MxHas(t, MxPressNames)
  BY <1>1 DEF MxHas, MxResumeNames, MxStopping, MxPressNames
<1>5. req.cut \in BOOLEAN /\ req.was \in BOOLEAN /\ req.err \in BOOLEAN
      /\ req' = [req EXCEPT !.todo = t, !.was = req.was, !.err = req.err, !.cut = req.cut]
  BY DEF MxInv, MxTypeOK, MxReqs, t
<1>6. req'.m = req.m /\ req'.todo = t /\ req'.was = req.was /\ req'.err = req.err /\ req'.cut = req.cut
  BY <1>1, <1>5, MxRequests
<1>7. ~bridge.fatal => MxShape(req.todo)' /\ MxDue' /\ MxVerified' /\ MxCleaned'
  <2>1. HAVE ~bridge.fatal
  <2>2. /\ ~native.due /\ req.m # "cleanup" /\ MxVerified
    BY <2>1, MxAtDecision DEF MxDecisions
  <2>3. ~req.err => req.m = "press"
    BY <2>2 DEF MxVerified
  <2>4. ~MxWillSay'
    BY <1>6, <2>3 DEF MxWillSay
  <2>5. MxOwned(req.m, t)
    BY <1>1, <1>2 DEF MxOwned
  <2> QED BY <1>1, <1>2, <1>6, <2>2, <2>3, <2>4, <2>5, MxJumps
<1> QED BY <1>1, <1>5, <1>7, MxDecision

LEMMA MxDecides ==
    ASSUME MxInv, Msx!Decide
    PROVE  MxInv'
<1> DEFINE r == Tail(req.todo)
<1>1. req.todo # <<>> /\ native' = native /\ wire' = wire /\ bridge' = bridge
  BY DEF Msx!Decide
<1>2. /\ r \in Seq(MxItems) /\ req.todo \in Seq(MxItems) /\ req.was \in BOOLEAN /\ req.err \in BOOLEAN /\ req.cut \in BOOLEAN
      /\ bridge.frozen \in BOOLEAN
  BY <1>1, MxServed DEF MxInv, MxTypeOK, MxReqs, MxBridges
<1>3. ~bridge.fatal /\ ~req.err => (req.was => req.m = "press")
  BY <1>1, MxServed DEF MxVerified
<1>4. CASE /\ Msx!Current = "stepped"
           /\ req' = [req EXCEPT !.cut = bridge.events # <<>>,
                        !.todo = (IF bridge.events # <<>> THEN Msx!StepBroken ELSE Msx!StepCompleted) \o r]
  BY <1>1, <1>4, MxStepDecided
<1>5. CASE /\ Msx!Current = "frozen->frame"
           /\ req' = [req EXCEPT !.todo = IF bridge.frozen THEN SubSeq(r, 4, Len(r)) ELSE r]
  <2>1. CASE bridge.frozen
    <3> DEFINE t == SubSeq(r, 4, Len(r))
    <3>0. t \in Seq(MxItems)
      BY <1>2, LenProperties, SubSeqProperties
    <3>1. req' = [req EXCEPT !.todo = t, !.cut = req.cut]
      BY <1>5, <2>1 DEF MxInv, MxTypeOK, MxReqs
    <3>2. req'.m = req.m /\ req'.was = req.was /\ req'.err = req.err /\ req'.cut = req.cut
      BY <3>0, <3>1, <1>2 DEF MxInv, MxTypeOK, MxReqs
    <3>3. ASSUME ~bridge.fatal
          PROVE  /\ MxShape(t) /\ (~req.err => MxOwned(req.m, t))
                 /\ req.m = "press" /\ ~req.err /\ MxHas(t, MxStopping \cup {"running->pause"}) => MxStops(t)
                 /\ MxWillSay' => MxStops(t)
      <4>1. MxShape(r) /\ (MxStops(req.todo) => MxStops(r)) /\ MxVerified
        BY <1>1, <1>5, <3>3, MxAtDecision DEF MxDecisions
      <4>2. /\ MxShape(t) /\ (MxStops(r) => MxStops(t))
            /\ \A N : MxHas(t, N) => MxHas(r, N)
            /\ \A m : MxOwned(m, r) => MxOwned(m, t)
        <5>1. 4 \in Nat /\ 4 >= 1
          OBVIOUS
        <5> HIDE DEF r
        <5> QED BY <1>2, <4>1, <5>1, MxSuffix
      <4>3. \A N : MxHas(r, N) => MxHas(req.todo, N)
        BY <1>1, <1>2, MxHasTail
      <4>4. \A m : MxOwned(m, req.todo) => MxOwned(m, r)
        BY <1>1, <1>2, MxOwnedTail
      <4>5. MxWillSay' = MxWillSay
        BY <3>2 DEF MxWillSay
      <4> HIDE DEF t, r
      <4> QED BY <4>1, <4>2, <4>3, <4>4, <4>5 DEF MxVerified
    <3> HIDE DEF t
    <3> QED BY <1>1, <1>2, <1>5, <2>1, <3>0, <3>1, <3>3, MxStoppedDecided
  <2>2. CASE ~bridge.frozen
    <3>1. req' = [req EXCEPT !.todo = r, !.was = req.was, !.err = req.err, !.cut = req.cut]
      BY <1>5, <2>2 DEF MxInv, MxTypeOK, MxReqs
    <3>2. req'.m = req.m /\ req'.was = req.was /\ req'.err = req.err /\ req'.cut = req.cut
      BY <1>2, <3>1, MxRequests
    <3>3. MxWillSay' = MxWillSay
      BY <3>2 DEF MxWillSay
    <3> QED BY <1>1, <1>2, <1>3, <1>5, <3>1, <3>3, MxRestDecided DEF MxDecisions
  <2> QED BY <2>1, <2>2
<1>6. CASE /\ Msx!Current = "running->pause"
           /\ req' = [req EXCEPT !.was = ~bridge.frozen, !.todo = IF bridge.frozen THEN r ELSE Msx!Pause \o r]
  <2>1. CASE bridge.frozen
    <3>1. req' = [req EXCEPT !.todo = r, !.was = FALSE, !.err = req.err, !.cut = req.cut]
      BY <1>6, <2>1 DEF MxInv, MxTypeOK, MxReqs
    <3>2. req'.m = req.m /\ req'.was = FALSE /\ req'.err = req.err /\ req'.cut = req.cut /\ req'.todo = r
      BY <1>2, <3>1, MxRequests
    <3>3. ~bridge.fatal => MxShape(req.todo)' /\ MxDue' /\ MxVerified' /\ MxCleaned'
      <4>1. HAVE ~bridge.fatal
      <4>2. /\ ~native.due /\ req.m # "cleanup" /\ MxName(req.todo, 1) = "running->pause" /\ req.todo \in Seq(MxItems)
            /\ MxShape(r) /\ MxBehind(r) /\ (MxStops(req.todo) => MxStops(r)) /\ MxVerified /\ 1 \in 1 .. Len(req.todo)
        BY <1>1, <1>6, <4>1, MxAtDecision DEF MxDecisions
      <4>3. MxHas(req.todo, MxStopping \cup {"running->pause"}) /\ MxHas(req.todo, MxPressNames)
        BY <4>2 DEF MxHas, MxPressNames
      <4>4. ~req.err => req.m = "press" /\ MxOwned(req.m, req.todo)
        BY <4>2, <4>3 DEF MxVerified, MxOwned
      <4>5. ~req.err => MxStops(req.todo)
        BY <4>2, <4>3, <4>4 DEF MxVerified
      <4>6. MxStops(req.todo) => MxHas(r, MxStopping)
        <5>1. HAVE MxStops(req.todo)
        <5>2. MxHas(req.todo, MxStopping)
          BY <4>2, <5>1 DEF MxStops, MxMoving, MxHas
        <5>3. MxName(req.todo, 1) \notin MxStopping
          BY <4>2 DEF MxStopping
        <5> QED BY <1>1, <4>2, <5>2, <5>3, MxHasTail
      <4>7. ~req.err => MxOwned(req.m, r)
        BY <1>1, <4>2, <4>4, MxOwnedTail
      <4>8. MxWillSay' => ~req.err
        BY <3>2 DEF MxWillSay
      <4> HIDE DEF r
      <4> QED BY <1>1, <1>2, <3>2, <4>2, <4>4, <4>5, <4>6, <4>7, <4>8, MxJumps
    <3> QED BY <1>1, <1>2, <3>1, <3>3, MxDecision
  <2>2. CASE ~bridge.frozen
    <3>1. req' = [req EXCEPT !.was = TRUE, !.todo = Msx!Pause \o r]
      BY <1>6, <2>2
    <3> QED BY <1>1, <1>6, <2>2, <3>1, MxPressDecided
  <2> QED BY <2>1, <2>2
<1>7. CASE /\ Msx!Current = "resume?"
           /\ req' = [req EXCEPT !.todo = IF req.was /\ ~req.cut THEN Msx!Resume ELSE r]
  <2>1. CASE req.was /\ ~req.cut
    BY <1>1, <1>7, <2>1, MxResumeDecided
  <2>2. CASE ~(req.was /\ ~req.cut)
    <3>1. req' = [req EXCEPT !.todo = r, !.was = req.was, !.err = req.err, !.cut = req.cut]
      BY <1>7, <2>2 DEF MxInv, MxTypeOK, MxReqs
    <3>2. req'.m = req.m /\ req'.was = req.was /\ req'.err = req.err /\ req'.cut = req.cut
      BY <1>2, <3>1, MxRequests
    <3>3. MxWillSay' = MxWillSay
      BY <3>2 DEF MxWillSay
    <3> QED BY <1>1, <1>2, <1>3, <1>7, <3>1, <3>3, MxRestDecided DEF MxDecisions
  <2> QED BY <2>1, <2>2
<1>8. CASE /\ Msx!Current = "resumed"
           /\ req' = [req EXCEPT !.todo = IF bridge.frozen THEN Msx!Soft(<<"drain", "hit?">>) ELSE r,
                        !.cut = IF req.m = "resume" THEN bridge.frozen ELSE @]
  <2>0. PICK c : c = IF req.m = "resume" THEN bridge.frozen ELSE req.cut
    OBVIOUS
  <2>a. c \in BOOLEAN
    BY <1>2, <2>0
  <2>1. CASE bridge.frozen
    <3>1. PICK t : t = Msx!Soft(<<"drain", "hit?">>)
      OBVIOUS
    <3>2. MxPlain(t) /\ MxCalm(t) /\ \A i \in 1 .. Len(t) : MxName(t, i) \in MxResumeNames
      BY <3>1, MxLists, MxHitList DEF MxList
    <3>3. t \in Seq(MxItems) /\ MxShape(t) /\ ~MxHas(t, MxPressNames) /\ MxStops(t)
      BY <3>2, MxPlainFacts, MxCalmStops
    <3>4. req' = [req EXCEPT !.todo = t, !.cut = c]
      BY <1>8, <2>0, <2>1, <3>1 DEF MxInv, MxTypeOK, MxReqs
    <3>5. MxOwned(req.m, t)
      BY <3>2, <3>3 DEF MxOwned
    <3> QED BY <1>1, <1>8, <2>a, <2>1, <3>3, <3>4, <3>5, MxStoppedDecided
  <2>2. CASE ~bridge.frozen
    <3>1. req' = [req EXCEPT !.todo = r, !.was = req.was, !.err = req.err, !.cut = c]
      BY <1>8, <2>0, <2>2 DEF MxInv, MxTypeOK, MxReqs
    <3>2. req'.m = req.m /\ req'.was = req.was /\ req'.err = req.err /\ req'.cut = c
      BY <1>2, <2>a, <3>1, MxRequests
    <3>3. MxWillSay' => MxWillSay
      BY <2>0, <2>2, <3>2 DEF MxWillSay
    <3>4. Msx!Current \in MxDecisions \ {"stepped"}
      BY <1>8 DEF MxDecisions
    <3>5. ~bridge.fatal => (MxWillSay' => MxWillSay)
      BY <3>3
    <3>6. ~bridge.fatal /\ ~req.err => ~req.err /\ (req.was => req.m = "press")
      BY <1>3
    <3>7. req.was \in BOOLEAN /\ req.err \in BOOLEAN
      BY <1>2
    <3> HIDE <2>0
    <3> QED BY <1>1, <2>a, <3>1, <3>4, <3>5, <3>6, <3>7, MxRestDecided
  <2> QED BY <2>1, <2>2
<1>9. CASE /\ Msx!Current = "hit?"
           /\ req' = [req EXCEPT !.todo = r, !.err = @ \/ bridge.events = <<>>]
  <2>0. PICK e : e = (req.err \/ bridge.events = <<>>)
    OBVIOUS
  <2>a. e \in BOOLEAN /\ (~e => ~req.err)
    BY <1>2, <2>0
  <2>1. req' = [req EXCEPT !.todo = r, !.was = req.was, !.err = e, !.cut = req.cut]
    BY <1>9, <2>0 DEF MxInv, MxTypeOK, MxReqs
  <2>2. req'.m = req.m /\ req'.was = req.was /\ req'.err = e /\ req'.cut = req.cut
    BY <1>2, <2>a, <2>1, MxRequests
  <2>3. MxWillSay' => MxWillSay
    BY <2>a, <2>2 DEF MxWillSay
  <2> QED BY <1>1, <1>2, <1>3, <1>9, <2>a, <2>1, <2>3, MxRestDecided DEF MxDecisions
<1>10. CASE Msx!Current = "count?" /\ \E wrong \in BOOLEAN : req' = [req EXCEPT !.todo = r, !.err = @ \/ wrong]
  <2>0. PICK wrong \in BOOLEAN : req' = [req EXCEPT !.todo = r, !.err = @ \/ wrong]
    BY <1>10
  <2>b. PICK e : e = (req.err \/ wrong)
    OBVIOUS
  <2>a. e \in BOOLEAN /\ (~e => ~req.err)
    BY <1>2, <2>b
  <2>1. req' = [req EXCEPT !.todo = r, !.was = req.was, !.err = e, !.cut = req.cut]
    BY <2>0, <2>b DEF MxInv, MxTypeOK, MxReqs
  <2>2. req'.m = req.m /\ req'.was = req.was /\ req'.err = e /\ req'.cut = req.cut
    BY <1>2, <2>a, <2>1, MxRequests
  <2>3. MxWillSay' => MxWillSay
    BY <2>a, <2>2 DEF MxWillSay
  <2> QED BY <1>1, <1>2, <1>3, <1>10, <2>a, <2>1, <2>3, MxRestDecided DEF MxDecisions
<1> QED BY <1>4, <1>5, <1>6, <1>7, <1>8, <1>9, <1>10 DEF Msx!Decide

\* An accepted command: what it leaves of the list is right for what it did to the machine.
LEMMA MxAccepted ==
    ASSUME MxInv, req.todo # <<>>, ~bridge.fatal, NEW c, c = Msx!Current, ~Msx!IsLocal(c), Msx!Holds(c), wire' = <<>>,
           native'.due = IF c = "next_frame" THEN TRUE ELSE IF c = "cancel_frame" THEN FALSE ELSE native.due,
           c # "step" => native' = Msx!Effect(native, c), NEW g \in BOOLEAN, bridge' = Msx!Noted(bridge, c, g),
           req' = [req EXCEPT !.todo = Tail(@)]
    PROVE  MxShape(req.todo)' /\ MxDue' /\ MxVerified' /\ MxCleaned'
<1> DEFINE s == req.todo
           t == Tail(req.todo)
           e == Msx!Effect(native, c)
<1>1. /\ s \in Seq(MxItems) /\ Len(s) \in Nat /\ Len(s) >= 1 /\ MxShape(s) /\ MxDue /\ MxVerified /\ MxCleaned
      /\ Len(t) = Len(s) - 1 /\ t \in Seq(MxItems) /\ (\A i \in 1 .. Len(s) - 1 : t[i] = s[i + 1])
      /\ MxName(s, 1) = c /\ req.arg \in MsxPoints
  BY MxServed
<1>2. MxShape(t) /\ (MxStops(s) => MxStops(t)) /\ (\A m : MxOwned(m, s) => MxOwned(m, t))
      /\ \A N : (MxHas(s, N) => MxHas(t, N) \/ c \in N) /\ (MxHas(t, N) => MxHas(s, N))
  BY <1>1, MxShapeTail, MxStopsTail, MxOwnedTail, MxHasTail
<1>3. req'.todo = t /\ req'.m = req.m /\ req'.err = req.err /\ req'.was = req.was /\ req'.cut = req.cut
  BY DEF MxInv, MxTypeOK, MxReqs
<1>4. /\ e.due = IF c = "next_frame" THEN TRUE ELSE IF c = "cancel_frame" THEN FALSE ELSE native.due
      /\ e.target = IF c = "cancel_frame" THEN FALSE ELSE native.target
      /\ c \notin MxMoving /\ native.pause /\ native.breaked => e.pause /\ e.breaked
      /\ c \in {"frame", "prepare", "frozen?", "stop!", "refresh", "next_frame", "rejected"} =>
             e.pause = native.pause /\ e.breaked = native.breaked
      /\ c \in MxCleanNames \ {"keys_up"} => e.keys = native.keys
  BY <1>1, MxEffects
<1>5. /\ c = "next_frame" => ~bridge'.seen
      /\ c \in {"stop!", "refresh", "frozen?"} => bridge'.frozen = (native.pause /\ native.breaked)
      /\ bridge'.port = bridge.port
  BY MxNotes
<1>6. c # "wait" /\ c # "stepped"
  BY DEF Msx!IsLocal
<1>7. native.due => c = "cancel_frame"
  BY <1>1, <1>6 DEF MxDue, MxAt
<1> HIDE DEF s, t, e
<1>8. MxShape(req.todo)'
  <2>1. MxShape(req'.todo)
    BY <1>2, <1>3
  <2> QED BY <2>1 DEF MxShape, MxFrameShape, MxReadShape, MxReleaseShape, MxCancelShape
<1>9. c = "next_frame" => MxHalted /\ t # <<>> /\ MxName(t, 1) = "wait"
  <2>1. HAVE c = "next_frame"
  <2>2. 1 \in 1 .. Len(s) /\ MxName(s, 1) = "next_frame"
    BY <1>1, <2>1
  <2>3. MxHalted
    BY <1>1, <2>2 DEF MxVerified, s
  <2>4. 1 + 1 \in 1 .. Len(s) /\ MxName(s, 1 + 1) = "wait"
    BY <1>1, <2>2 DEF MxShape, MxFrameShape
  <2>5. 1 \in 1 .. Len(s) - 1 /\ Len(t) # 0
    BY <1>1, <2>4
  <2>6. t # <<>>
    BY <2>5, EmptySeq
  <2> QED BY <1>1, <2>3, <2>4, <2>5, <2>6 DEF MxName
<1>10. MxDue'
  <2>1. CASE c = "next_frame"
    <3>1. native'.pause
      BY <1>4, <1>9, <2>1 DEF MxHalted, e
    <3> QED BY <1>3, <1>5, <1>9, <2>1, <3>1 DEF MxDue, MxAt
  <2>2. CASE c # "next_frame"
    <3>1. ~native'.due
      BY <1>7, <2>2
    <3> QED BY <3>1 DEF MxDue
  <2> QED BY <2>1, <2>2
<1>11. c \in {"stop!", "frozen?"} => MxHalted
  BY DEF Msx!Holds, MxHalted
<1>12. MxHalted /\ c \notin MxMoving => MxHalted'
  <2>1. HAVE MxHalted /\ c \notin MxMoving
  <2>2. native' = e
    BY <2>1 DEF MxMoving, e
  <2> QED BY <1>4, <2>1, <2>2 DEF MxHalted
<1>13. MxVerified'
  <2>1. \A i \in 1 .. Len(t) : MxName(t, i) = "next_frame" /\ i <= 3 => MxHalted'
    <3>1. SUFFICES ASSUME NEW i \in 1 .. Len(t), MxName(t, i) = "next_frame", i <= 3 PROVE MxHalted'
      OBVIOUS
    <3>2. i + 1 \in 1 .. Len(s) /\ MxName(s, i + 1) = "next_frame"
      BY <1>1, <3>1 DEF MxName
    <3>3. /\ MxName(s, (i + 1) - 1) = "frame"
          /\ i + 1 >= 3 => MxName(s, (i + 1) - 2) = "prepare"
          /\ i + 1 >= 4 => MxName(s, (i + 1) - 3) = "frozen?"
      BY <1>1, <3>2 DEF MxShape, MxFrameShape
    <3>4. (i = 1 /\ c = "frame") \/ (i = 2 /\ c = "prepare") \/ (i = 3 /\ c = "frozen?")
      BY <1>1, <3>1, <3>3
    <3>5. MxHalted
      <4>1. CASE i = 3
        BY <1>11, <3>4, <4>1
      <4>2. CASE i # 3
        <5>1. i + 1 <= 3
          BY <3>1, <4>2
        <5> QED BY <1>1, <3>2, <5>1 DEF MxVerified, s
      <4> QED BY <4>1, <4>2
    <3>6. c \notin MxMoving
      BY <3>4 DEF MxMoving
    <3> QED BY <1>12, <3>5, <3>6
  <2>2. t # <<>> /\ MxName(t, 1) \in {"resumed", "frozen->frame"} => (bridge'.frozen => MxHalted')
    <3>1. SUFFICES ASSUME t # <<>>, MxName(t, 1) \in {"resumed", "frozen->frame"}, bridge'.frozen PROVE MxHalted'
      OBVIOUS
    <3>2. Len(t) >= 1
      BY <1>1, <3>1, EmptySeq
    <3>3. 2 \in 1 .. Len(s) /\ MxName(s, 2) = MxName(t, 1)
      BY <1>1, <3>2 DEF MxName
    <3>4. c = "refresh"
      BY <1>1, <3>1, <3>3 DEF MxShape, MxReadShape
    <3>5. MxHalted
      BY <1>5, <3>1, <3>4 DEF MxHalted
    <3>6. c \notin MxMoving
      BY <3>4 DEF MxMoving
    <3> QED BY <1>12, <3>5, <3>6
  <2>3. MxWillSay' = MxWillSay
    BY <1>3 DEF MxWillSay
  <2>4. MxWillSay => MxStops(t)
    BY <1>1, <1>2 DEF MxVerified, s
  <2>5. req.m = "press" /\ ~req.err /\ MxHas(t, MxStopping \cup {"running->pause"}) => MxStops(t)
    BY <1>1, <1>2 DEF MxVerified, s
  <2>6. ASSUME MxWillSay, ~MxHas(t, MxStopping) PROVE MxStill'
    <3>1. CASE MxHas(s, MxStopping)
      <4>1. c = "stop!"
        BY <1>2, <1>6, <2>6, <3>1 DEF MxStopping
      <4>2. MxHalted /\ c \notin MxMoving /\ c # "next_frame" /\ c # "cancel_frame"
        BY <1>11, <4>1 DEF MxMoving
      <4> QED BY <1>7, <1>12, <4>2 DEF MxStill, MxHalted
    <3>2. CASE ~MxHas(s, MxStopping)
      <4>1. MxStill /\ MxStops(s)
        BY <1>1, <2>6, <3>2 DEF MxVerified, s
      <4>2. c \notin MxMoving
        BY <1>1, <3>2, <4>1 DEF MxStops, MxHas
      <4>3. c # "next_frame"
        BY <4>2 DEF MxMoving
      <4> QED BY <1>7, <1>12, <4>1, <4>2, <4>3 DEF MxStill, MxHalted
    <3> QED BY <3>1, <3>2
  <2>7. ~req.err => MxOwned(req.m, t) /\ (req.was => req.m = "press")
    BY <1>1, <1>2 DEF MxVerified, s
  <2>8. (~req.err => MxOwned(req.m, req.todo) /\ (req.was => req.m = "press"))'
    BY <1>3, <2>7 DEF MxOwned, MxHas
  <2>9. MxVerified' = (/\ \A i \in 1 .. Len(t) : MxName(t, i) = "next_frame" /\ i <= 3 => MxHalted'
                       /\ (t # <<>> /\ MxName(t, 1) = "resumed") \/ (t # <<>> /\ MxName(t, 1) = "frozen->frame") => (bridge'.frozen => MxHalted')
                       /\ MxWillSay' => MxStops(t)
                       /\ req.m = "press" /\ ~req.err /\ MxHas(t, MxStopping \cup {"running->pause"}) => MxStops(t)
                       /\ MxWillSay' /\ ~MxHas(t, MxStopping) => MxStill'
                       /\ (~req.err => MxOwned(req.m, req.todo) /\ (req.was => req.m = "press"))')
    BY <1>3 DEF MxVerified, MxAt
  <2> QED BY <2>1, <2>2, <2>3, <2>4, <2>5, <2>6, <2>8, <2>9
<1>14. MxCleaned'
  <2>1. SUFFICES ASSUME req.m = "cleanup"
                 PROVE  /\ ~MxHas(t, {"cancel_frame"}) => ~native'.due /\ ~native'.target
                        /\ bridge.port /\ ~MxHas(t, {"released"}) => ~native'.keys
                        /\ MxCleanShape(t)
    BY <1>3, <1>5 DEF MxCleaned
  <2>2. /\ ~MxHas(s, {"cancel_frame"}) => ~native.due /\ ~native.target
        /\ bridge.port /\ ~MxHas(s, {"released"}) => ~native.keys
        /\ MxCleanShape(s)
    BY <1>1, <2>1 DEF MxCleaned, s
  <2>3. MxCleanShape(t)
    BY <1>1, <2>2, MxCleanTail DEF s, t
  <2>4. c \in MxCleanNames /\ 1 \in 1 .. Len(s)
    BY <1>1, <2>2 DEF MxCleanShape
  <2>5. native' = e /\ c # "next_frame"
    BY <2>4 DEF MxCleanNames, e
  <2>6. ~MxHas(t, {"cancel_frame"}) => ~native'.due /\ ~native'.target
    BY <1>2, <1>4, <2>2, <2>5
  <2>7. bridge.port /\ ~MxHas(t, {"released"}) => ~native'.keys
    <3>1. HAVE bridge.port /\ ~MxHas(t, {"released"})
    <3>2. c # "keys_up"
      <4>1. SUFFICES ASSUME c = "keys_up" PROVE FALSE
        OBVIOUS
      <4>2. MxHas(s, {"released"})
        BY <1>1, <2>2, <2>4, <4>1 DEF MxCleanShape, MxHas
      <4> QED BY <1>2, <3>1, <4>1, <4>2
    <3>3. e.keys = native.keys
      BY <1>4, <2>4, <3>2
    <3>4. c = "released" => ~native.keys
      BY DEF Msx!Holds
    <3> QED BY <1>2, <2>2, <2>5, <3>1, <3>3, <3>4
  <2> QED BY <2>3, <2>6, <2>7
<1> QED BY <1>8, <1>10, <1>13, <1>14

\* The records stay countable: what a command queued, dropped or drained.
LEMMA MxCounted ==
    ASSUME MxInv, NEW n \in MxNatives, NEW b \in MxBridges, NEW c, NEW k \in {0, 1}, ~b.fatal => ~bridge.fatal,
           n.seq = native.seq + k,
           c \in {"drain", "prepare"} => Len(n.queue) + n.dropped = k,
           c \notin {"drain", "prepare"} => Len(n.queue) + n.dropped = Len(native.queue) + native.dropped + k,
           c \notin {"drain", "prepare"} => b.last = bridge.last,
           c \in {"drain", "prepare"} /\ ~b.fatal => b.last = bridge.last + (Len(native.queue) + native.dropped)
    PROVE  ~b.fatal => n.seq = b.last + Len(n.queue) + n.dropped
<1>1. HAVE ~b.fatal
<1>2. /\ native.queue \in Seq(MxHits) /\ n.queue \in Seq(MxHits) /\ native.seq \in Nat /\ native.dropped \in Nat /\ n.dropped \in Nat
      /\ bridge.last \in Nat /\ b.last \in Nat
  BY DEF MxInv, MxTypeOK, MxNatives, MxBridges
<1>3. Len(native.queue) \in Nat /\ Len(n.queue) \in Nat
  BY <1>2, LenProperties
<1>4. native.seq = bridge.last + Len(native.queue) + native.dropped
  BY <1>1 DEF MxInv, Msx!MsxHitsKept
<1>5. PICK lq, ln, d, dn, l, lb, s \in Nat : lq = Len(native.queue) /\ ln = Len(n.queue) /\ d = native.dropped /\ dn = n.dropped
                                            /\ l = bridge.last /\ lb = b.last /\ s = native.seq
  BY <1>2, <1>3
<1>6. s = l + lq + d
  BY <1>4, <1>5
<1>7. CASE c \in {"drain", "prepare"}
  <2>1. ln + dn = k /\ lb = l + (lq + d)
    BY <1>1, <1>5, <1>7
  <2>2. s + k = lb + ln + dn
    BY <1>6, <2>1
  <2> QED BY <1>5, <2>2
<1>8. CASE c \notin {"drain", "prepare"}
  <2>1. ln + dn = lq + d + k /\ lb = l
    BY <1>5, <1>8
  <2>2. s + k = lb + ln + dn
    BY <1>6, <2>1
  <2> QED BY <1>5, <2>2
<1> QED BY <1>7, <1>8

\* The lists that a failure leaves.
LEMMA MxResumeList ==
    LET t == Msx!Soft(<<"resume?">>) IN t \in Seq(MxItems) /\ MxShape(t) /\ MxBehind(t)
<1>1. PICK c : c = <<"resume?">>
  OBVIOUS
<1>2. c \in Seq(MxNames) /\ Len(c) = 1 /\ c[1] = "resume?"
  BY <1>1 DEF MxNames, MxHardNames, MxPressNames
<1>3. "soft" \in MxPolicies
  BY DEF MxPolicies
<1>4. PICK t : t = Msx!Policy("soft", c)
  OBVIOUS
<1>5. t \in Seq(MxItems) /\ Len(t) = 1 /\ MxName(t, 1) = "resume?" /\ t[1][2] = "soft"
  BY <1>2, <1>3, <1>4, MxNamed
<1>6. MxShape(t) /\ MxBehind(t)
  BY <1>5 DEF MxShape, MxFrameShape, MxReadShape, MxReleaseShape, MxCancelShape, MxBehind
<1> QED BY <1>1, <1>4, <1>5, <1>6 DEF Msx!Soft

MxAfter(p) ==
    \E t \in Seq(MxItems), k \in BOOLEAN :
        /\ Msx!AfterFailure(p) = [req EXCEPT !.todo = t, !.was = req.was, !.err = TRUE, !.cut = k]
        /\ ~bridge.fatal => MxShape(t) /\ MxBehind(t)
LEMMA MxFailed ==
    ASSUME MxInv, req.todo # <<>>, NEW p, p = req.todo[1][2]
    PROVE  MxAfter(p)
<1> DEFINE R == Msx!ReleaseTail
           F == Msx!StepFailed
           L == Tail(req.todo)
           Good(t) == t \in Seq(MxItems) /\ MxShape(t) /\ MxBehind(t)
<1>1. /\ req.todo \in Seq(MxItems) /\ L \in Seq(MxItems) /\ 1 \in 1 .. Len(req.todo)
      /\ ~bridge.fatal => MxShape(req.todo)
  BY MxServed
<1>2. req.was \in BOOLEAN /\ req.err \in BOOLEAN /\ req.cut \in BOOLEAN /\ req \in MxReqs /\ <<>> \in Seq(MxItems)
  BY EmptySeq DEF MxInv, MxTypeOK, MxReqs
<1>3. \A t : MxPlain(t) => Good(t)
  BY MxPlainFacts
<1>4. R \in Seq(MxItems)
  BY <1>1, MxReleaseTyped
<1>5. ~bridge.fatal => Good(R)
  BY <1>1, MxReleases
<1>6. MxPlain(F)
  BY MxLists DEF MxList
<1>7. F \in Seq(MxItems) /\ MxShape(F) /\ \A i \in 1 .. Len(F) : F[i][2] # "release"
  BY <1>6, MxPlainFacts
<1>8. F \o R \in Seq(MxItems)
  BY <1>4, <1>7, MxConcat
<1>9. ~bridge.fatal => Good(F \o R)
  <2>1. HAVE ~bridge.fatal
  <2>2. Good(R) /\ \A i \in 1 .. Len(R) : MxName(R, i) \in {"keys_back", "resume?"}
    BY <1>1, <1>5, <2>1, MxReleases
  <2> HIDE DEF F, R
  <2>3. MxShape(F \o R)
    BY <1>7, <2>2, MxShapeConcat
  <2>4. \A i \in 1 .. Len(F \o R) : MxName(F \o R, i) \notin {"next_frame", "resumed", "frozen->frame"}
    <3>1. \A i \in 1 .. Len(F) : MxName(F, i) \notin {"next_frame", "resumed", "frozen->frame"}
      BY <1>6 DEF MxPlain
    <3>2. \A i \in 1 .. Len(R) : MxName(R, i) \notin {"next_frame", "resumed", "frozen->frame"}
      BY <2>2
    <3> QED BY <1>4, <1>7, <3>1, <3>2, MxSplit DEF MxName
  <2>5. Len(F \o R) \in Nat
    BY <1>8, LenProperties
  <2>6. MxBehind(F \o R)
    BY <2>4, <2>5 DEF MxBehind
  <2> QED BY <1>8, <2>3, <2>6
<1>10. p = "release" /\ ~bridge.fatal => Good(L)
  <2>1. HAVE p = "release" /\ ~bridge.fatal
  <2>2. MxName(req.todo, 1) \in {"keys_back", "resume?"}
    <3>1. MxReleaseShape(req.todo) /\ req.todo[1][2] = "release" /\ 1 <= 1
      BY <1>1, <2>1 DEF MxShape
    <3> QED BY <1>1, <3>1 DEF MxReleaseShape
  <2>3. MxShape(L) /\ MxBehind(L)
    BY <1>1, <2>1, <2>2, MxShapeTail, MxBehindTail
  <2> QED BY <1>1, <2>3
<1>11. MxPlain(Msx!LoadRollback) /\ MxPlain(Msx!Hard(<<"remove", "spec", "inv">>)) /\ MxPlain(Msx!MediaRejected)
       /\ MxPlain(Msx!Hard(<<"spec">>)) /\ MxPlain(Msx!Hard(<<"cont", "pause_off", "running!">>))
  BY MxLists DEF MxList
<1>12. Good(Msx!Soft(<<"resume?">>))
  BY MxResumeList
<1> DEFINE Rec(t, e, c) == [req EXCEPT !.todo = t, !.was = req.was, !.err = e, !.cut = c]
<1>13. SUFFICES \E t \in Seq(MxItems), k \in BOOLEAN : Msx!AfterFailure(p) = Rec(t, TRUE, k) /\ (~bridge.fatal => Good(t))
  BY DEF MxAfter
<1>14. \A t : /\ [req EXCEPT !.todo = t, !.err = TRUE] = Rec(t, TRUE, req.cut)
              /\ [req EXCEPT !.err = TRUE, !.todo = t] = Rec(t, TRUE, req.cut)
              /\ [req EXCEPT !.err = TRUE, !.cut = FALSE, !.todo = t] = Rec(t, TRUE, FALSE)
  BY <1>2 DEF MxReqs
<1> HIDE DEF Rec, Good, R, F, L
<1>15. MxPlain(Msx!ReleasePorts(bridge.port))
  <2>1. bridge.port \in BOOLEAN
    BY DEF MxInv, MxTypeOK, MxBridges
  <2> QED BY <2>1, MxPortScript
<1>16. CASE p \in {"stop", "back", "arm", "media", "unarmed", "unpause", "pulse"}
  <2>1. PICK t : Good(t) /\ Msx!AfterFailure(p) = [req EXCEPT !.todo = t, !.err = TRUE]
    BY <1>3, <1>11, <1>12, <1>15, <1>16 DEF Msx!AfterFailure
  <2>2. t \in Seq(MxItems)
    BY <2>1 DEF Good
  <2> QED BY <1>2, <1>14, <2>1, <2>2
<1>17. CASE p = "release"
  <2>1. Msx!AfterFailure(p) = [req EXCEPT !.todo = L, !.err = TRUE]
    BY <1>17 DEF Msx!AfterFailure, L
  <2>2. Msx!AfterFailure(p) = Rec(L, TRUE, req.cut)
    BY <1>14, <2>1
  <2> QED BY <1>1, <1>2, <1>10, <1>17, <2>2
<1>18. CASE p = "step"
  <2>1. Msx!AfterFailure(p) = [req EXCEPT !.err = TRUE, !.todo = F \o R]
    BY <1>18 DEF Msx!AfterFailure, F, R
  <2>2. Msx!AfterFailure(p) = Rec(F \o R, TRUE, req.cut)
    BY <1>14, <2>1
  <2> QED BY <1>2, <1>8, <1>9, <2>2
<1>19. CASE p \notin {"stop", "back", "arm", "media", "unarmed", "unpause", "pulse", "release", "step"}
  <2>1. Msx!AfterFailure(p) = [req EXCEPT !.err = TRUE, !.cut = FALSE, !.todo = R]
    BY <1>19 DEF Msx!AfterFailure, R
  <2>2. Msx!AfterFailure(p) = Rec(R, TRUE, FALSE)
    BY <1>14, <2>1
  <2> QED BY <1>2, <1>4, <1>5, <2>2
<1> QED BY <1>16, <1>17, <1>18, <1>19

LEMMA MxCommands ==
    ASSUME MaxQueue \in Nat \ {0}, MxInv, Msx!Command
    PROVE  MxInv'
<1>0. PICK c : c = Msx!Current
  OBVIOUS
<1> DEFINE e == Msx!Effect(native, c)
<1>1. /\ req.todo # <<>> /\ ~Msx!IsLocal(c) /\ Msx!Holds(c) /\ wire' = <<>>
  BY <1>0 DEF Msx!Command
<1>g. PICK g \in BOOLEAN : bridge' = Msx!Noted(bridge, c, g)
  BY <1>0 DEF Msx!Command, Msx!Damaged
<1>2. PICK hit \in {{}} \cup (IF c = "step" THEN {{p} : p \in native.points} ELSE {}) :
        native' = IF hit = {} THEN e ELSE Msx!HitRecord(e, CHOOSE p \in hit : TRUE)
  BY <1>0 DEF Msx!Command
<1>3. \/ bridge'.fatal /\ req' = Msx!AfterFailure(Head(req.todo)[2])
      \/ c = "drain" /\ req.m = "step_instructions" /\ req' = [req EXCEPT !.todo = Msx!Soft(<<"stop!", "reg", "frame">>)]
      \/ req' = [req EXCEPT !.todo = Tail(@)]
  BY <1>0 DEF Msx!Command, Msx!Advance
<1>4. /\ req.m # "idle" /\ req.answer \notin {"frozen", "clean"} /\ req.arg \in MsxPoints /\ ~bridge.dead
      /\ Tail(req.todo) \in Seq(MxItems) /\ MxName(req.todo, 1) = c /\ Len(req.todo) >= 1 /\ Len(req.todo) \in Nat
      /\ Head(req.todo) = req.todo[1]
      /\ ~bridge.fatal => MxLive /\ MxShape(req.todo) /\ MxDue /\ MxVerified /\ MxCleaned
  BY <1>0, <1>1, MxServed
<1>5. /\ bridge' \in MxBridges /\ ~bridge'.dead /\ (bridge.fatal => bridge'.fatal)
      /\ c \notin {"drain", "prepare"} => bridge'.last = bridge.last
      /\ c \in {"drain", "prepare"} /\ ~bridge'.fatal => bridge'.last = bridge.last + (Len(native.queue) + native.dropped)
      /\ ~bridge'.fatal => bridge'.last = bridge'.kept + bridge'.told + bridge'.mute
  BY <1>g, <1>4, MxNotes
<1>6. /\ e \in MxNatives /\ e.seq = native.seq
      /\ c \in {"drain", "prepare"} => e.queue = <<>> /\ e.dropped = 0
      /\ c \notin {"drain", "prepare"} => e.queue = native.queue /\ e.dropped = native.dropped
      /\ e.due = IF c = "next_frame" THEN TRUE ELSE IF c = "cancel_frame" THEN FALSE ELSE native.due
  BY <1>4, MxEffects
<1> HIDE DEF e
<1>q. /\ native.seq \in Nat /\ native.dropped \in Nat /\ Len(native.queue) \in Nat /\ Len(<<>>) = 0 /\ native.points \in SUBSET MsxPoints
  BY LenProperties, EmptySeq DEF MxInv, MxTypeOK, MxNatives
<1>7. /\ native' \in MxNatives /\ native'.due = e.due /\ (c # "step" => native' = e)
      /\ ~bridge'.fatal => native'.seq = bridge'.last + Len(native'.queue) + native'.dropped
  <2>1. CASE hit = {}
    <3>1. native' = e
      BY <1>2, <2>1
    <3>2. /\ c \in {"drain", "prepare"} => Len(e.queue) + e.dropped = 0
          /\ c \notin {"drain", "prepare"} => Len(e.queue) + e.dropped = Len(native.queue) + native.dropped + 0
          /\ e.seq = native.seq + 0
      BY <1>6, <1>q
    <3>3. ~bridge'.fatal => e.seq = bridge'.last + Len(e.queue) + e.dropped
      <4>1. PICK b : b = bridge'
        OBVIOUS
      <4> QED BY <1>5, <1>6, <3>2, <4>1, MxCounted
    <3> QED BY <1>6, <3>1, <3>3
  <2>2. CASE hit # {}
    <3>1. c = "step" /\ \E p \in native.points : hit = {p}
      BY <1>2, <2>2
    <3>2. PICK p : p \in MsxPoints /\ native' = Msx!HitRecord(e, p)
      <4>1. (CHOOSE p \in hit : TRUE) \in MsxPoints
        BY <1>q, <3>1
      <4> QED BY <1>2, <2>2, <4>1
    <3>3. /\ native' \in MxNatives /\ native'.seq = e.seq + 1 /\ Len(native'.queue) + native'.dropped = Len(e.queue) + e.dropped + 1
          /\ native'.due = e.due
      BY <1>6, <3>2, MxRecords
    <3>4. ~bridge'.fatal => native'.seq = bridge'.last + Len(native'.queue) + native'.dropped
      <4>1. PICK b, n : b = bridge' /\ n = native'
        OBVIOUS
      <4>2. /\ n.seq = native.seq + 1 /\ c \notin {"drain", "prepare"}
            /\ Len(n.queue) + n.dropped = Len(native.queue) + native.dropped + 1
        BY <1>6, <3>1, <3>3, <4>1
      <4> QED BY <1>5, <3>3, <4>1, <4>2, MxCounted
    <3> QED BY <3>1, <3>3, <3>4
  <2> QED BY <2>1, <2>2
<1>8. Msx!MsxHitsKept'
  BY <1>5, <1>7 DEF Msx!MsxHitsKept
<1>w. wire' \in Seq(BOOLEAN)
  BY <1>1, EmptySeq
<1>9. CASE bridge'.fatal /\ req' = Msx!AfterFailure(Head(req.todo)[2])
  <2>1. MxAfter(req.todo[1][2])
    BY <1>1, MxFailed
  <2>2. PICK t \in Seq(MxItems), k \in BOOLEAN : req' = [req EXCEPT !.todo = t, !.was = req.was, !.err = TRUE, !.cut = k]
    BY <1>4, <1>9, <2>1 DEF MxAfter
  <2>3. req.was \in BOOLEAN
    BY DEF MxInv, MxTypeOK, MxReqs
  <2>4. req' \in MxReqs /\ req'.m = req.m /\ req'.answer = req.answer /\ req'.arg = req.arg
    BY <2>2, <2>3, MxRequests
  <2>5. MxTypeOK'
    BY <1>5, <1>7, <1>w, <2>4 DEF MxTypeOK
  <2> QED BY <1>4, <1>5, <1>8, <1>9, <2>4, <2>5, MxOn DEF MxLive
<1>10. CASE c = "drain" /\ req.m = "step_instructions" /\ req' = [req EXCEPT !.todo = Msx!Soft(<<"stop!", "reg", "frame">>)]
  <2>1. PICK t : t = Msx!Soft(<<"stop!", "reg", "frame">>)
    OBVIOUS
  <2>2. MxPlain(t) /\ MxCalm(t) /\ MxHas(t, MxStopping)
    BY <2>1, MxLists DEF MxList
  <2>3. t \in Seq(MxItems) /\ MxShape(t) /\ MxBehind(t) /\ ~MxHas(t, MxPressNames) /\ MxStops(t)
    BY <2>2, MxPlainFacts, MxCalmStops
  <2>4. req' = [req EXCEPT !.todo = t]
    BY <1>10, <2>1
  <2>5. req' \in MxReqs /\ req'.todo = t /\ req'.m = "step_instructions" /\ req'.answer = req.answer /\ req'.arg = req.arg
        /\ req'.was = req.was /\ req'.err = req.err
    BY <1>10, <2>3, <2>4 DEF MxInv, MxTypeOK, MxReqs
  <2>6. MxTypeOK'
    BY <1>5, <1>7, <1>w, <2>5 DEF MxTypeOK
  <2>7. ~bridge'.fatal => ~native'.due
    BY <1>4, <1>5, <1>6, <1>7, <1>10 DEF MxDue, MxAt
  <2>8. ~bridge'.fatal => (~req.err => ~req.was)
    BY <1>4, <1>5, <1>10 DEF MxVerified
  <2>9. MxOwned(req'.m, t)
    BY <2>3, <2>5 DEF MxOwned
  <2>10. ~bridge'.fatal => MxShape(req.todo)' /\ MxDue' /\ MxVerified' /\ MxCleaned'
    BY <2>2, <2>3, <2>5, <2>7, <2>8, <2>9, MxJumps
  <2> QED BY <1>4, <1>5, <1>8, <2>5, <2>6, <2>10, MxOn DEF MxLive
<1>11. CASE req' = [req EXCEPT !.todo = Tail(@)]
  <2>1. req' \in MxReqs /\ req'.m = req.m /\ req'.answer = req.answer /\ req'.arg = req.arg
    BY <1>4, <1>11 DEF MxInv, MxTypeOK, MxReqs
  <2>2. MxTypeOK'
    BY <1>5, <1>7, <1>w, <2>1 DEF MxTypeOK
  <2>3. ~bridge'.fatal => MxShape(req.todo)' /\ MxDue' /\ MxVerified' /\ MxCleaned'
    BY <1>0, <1>1, <1>g, <1>5, <1>6, <1>7, <1>11, MxAccepted DEF e
  <2> QED BY <1>4, <1>5, <1>8, <2>1, <2>2, <2>3, MxOn DEF MxLive
<1> QED BY <1>3, <1>9, <1>10, <1>11

LEMMA MxRefusals ==
    ASSUME MxInv, Msx!Refused
    PROVE  MxInv'
<1>0. PICK c, p : c = Msx!Current /\ p = req.todo[1][2]
  OBVIOUS
<1>1. /\ req.m # "idle" /\ req.answer \notin {"frozen", "clean"} /\ req.arg \in MsxPoints /\ ~bridge.dead
      /\ req.todo # <<>> /\ req.todo \in Seq(MxItems) /\ 1 \in 1 .. Len(req.todo) /\ MxName(req.todo, 1) = c /\ Head(req.todo) = req.todo[1]
      /\ ~bridge.fatal => MxLive /\ MxShape(req.todo) /\ MxDue /\ MxVerified /\ MxCleaned
  <2>1. req.todo # <<>>
    BY DEF Msx!Refused
  <2> QED BY <1>0, <2>1, MxServed
<1> DEFINE d == IF Msx!Holds(c) THEN "rejected" ELSE c
<1>g. PICK g \in BOOLEAN :
        bridge' = [Msx!Noted(bridge, d, g) EXCEPT
                    !.fatal = @ \/ p \in {"hard", "stop"} \/ (c = "unbroken" /\ ~Msx!Holds(c)),
                    !.frozen = @ /\ ~(c \in {"refresh", "frozen?"} /\ ~Msx!Holds(c) /\ native.pause # native.breaked)]
  BY <1>0, <1>1 DEF Msx!Refused, Msx!Damaged
<1> DEFINE b == Msx!Noted(bridge, d, g)
<1>2. PICK f : f = (b.fatal \/ p \in {"hard", "stop"} \/ (c = "unbroken" /\ ~Msx!Holds(c)))
  OBVIOUS
<1>3. PICK z : z = (b.frozen /\ ~(c \in {"refresh", "frozen?"} /\ ~Msx!Holds(c) /\ native.pause # native.breaked))
  OBVIOUS
<1>4. /\ bridge' = [b EXCEPT !.fatal = f, !.frozen = z] /\ wire' = <<>> /\ ~Msx!IsLocal(c)
      /\ req' = Msx!AfterFailure(p)
  <2>1. wire' = <<>> /\ ~Msx!IsLocal(c) /\ req' = Msx!AfterFailure(p)
    BY <1>0, <1>1 DEF Msx!Refused
  <2>2. bridge' = [b EXCEPT !.fatal = @ \/ p \in {"hard", "stop"} \/ (c = "unbroken" /\ ~Msx!Holds(c)),
                            !.frozen = @ /\ ~(c \in {"refresh", "frozen?"} /\ ~Msx!Holds(c) /\ native.pause # native.breaked)]
    BY <1>g
  <2> HIDE DEF b
  <2> QED BY <1>2, <1>3, <2>1, <2>2
<1>5. \/ d = "rejected" /\ native' = native
      \/ d = c /\ native' = IF c = "prepare" THEN Msx!Effect(native, c) ELSE native
  BY <1>0 DEF Msx!Refused
<1>6. d = "drain" => FALSE
  BY DEF Msx!Holds
<1>7. /\ b \in MxBridges /\ b.dead = bridge.dead /\ (bridge.fatal => b.fatal)
      /\ d \notin {"drain", "prepare"} => b.fatal = bridge.fatal /\ b.last = bridge.last
      /\ d \in {"drain", "prepare"} /\ ~b.fatal => b.last = bridge.last + (Len(native.queue) + native.dropped)
      /\ ~b.fatal => b.last = b.kept + b.told + b.mute
  BY MxNotes
<1> HIDE DEF b
<1>8. f \in BOOLEAN /\ z \in BOOLEAN /\ (b.fatal => f)
  BY <1>2, <1>3, <1>7 DEF MxBridges
<1>9. /\ bridge' \in MxBridges /\ bridge'.fatal = f /\ bridge'.last = b.last /\ ~bridge'.dead
      /\ bridge'.kept = b.kept /\ bridge'.told = b.told /\ bridge'.mute = b.mute
  BY <1>1, <1>4, <1>7, <1>8 DEF MxBridges
<1> HIDE DEF d
<1>q. native \in MxNatives /\ native.dropped \in Nat /\ Len(native.queue) \in Nat /\ Len(<<>>) = 0 /\ native.seq \in Nat
  BY LenProperties, EmptySeq DEF MxInv, MxTypeOK, MxNatives
<1>10. /\ native' \in MxNatives /\ native'.seq = native.seq + 0 /\ native'.due = native.due
       /\ d \in {"drain", "prepare"} => Len(native'.queue) + native'.dropped = 0
       /\ d \notin {"drain", "prepare"} => Len(native'.queue) + native'.dropped = Len(native.queue) + native.dropped + 0
  <2>1. CASE d = "prepare"
    <3>1. native' = Msx!Effect(native, "prepare")
      BY <1>5, <2>1
    <3>2. /\ native' \in MxNatives /\ native'.seq = native.seq /\ native'.queue = <<>> /\ native'.dropped = 0 /\ native'.due = native.due
      BY <1>1, <3>1, MxEffects
    <3> QED BY <1>q, <2>1, <3>2
  <2>2. CASE d # "prepare"
    <3>1. native' = native
      BY <1>5, <2>2
    <3> QED BY <1>6, <1>q, <2>2, <3>1
  <2> QED BY <2>1, <2>2
<1>11. Msx!MsxHitsKept'
  <2>1. PICK n, h : n = native' /\ h = bridge'
    OBVIOUS
  <2>2. ~h.fatal => n.seq = h.last + Len(n.queue) + n.dropped
    <3>1. /\ n \in MxNatives /\ h \in MxBridges /\ (~h.fatal => ~b.fatal /\ ~bridge.fatal) /\ n.seq = native.seq + 0
          /\ d \in {"drain", "prepare"} => Len(n.queue) + n.dropped = 0
          /\ d \notin {"drain", "prepare"} => Len(n.queue) + n.dropped = Len(native.queue) + native.dropped + 0
          /\ d \notin {"drain", "prepare"} => h.last = bridge.last
          /\ d \in {"drain", "prepare"} /\ ~h.fatal => h.last = bridge.last + (Len(native.queue) + native.dropped)
      BY <1>7, <1>8, <1>9, <1>10, <2>1
    <3> QED BY <3>1, MxCounted
  <2>3. ~bridge'.fatal => bridge'.last = bridge'.kept + bridge'.told + bridge'.mute
    BY <1>7, <1>8, <1>9
  <2> QED BY <2>1, <2>2, <2>3 DEF Msx!MsxHitsKept
<1>12. PICK t \in Seq(MxItems), k \in BOOLEAN :
         /\ req' = [req EXCEPT !.todo = t, !.was = req.was, !.err = TRUE, !.cut = k]
         /\ ~bridge.fatal => MxShape(t) /\ MxBehind(t)
  <2>1. MxAfter(p)
    BY <1>0, <1>1, MxFailed
  <2> QED BY <1>4, <2>1 DEF MxAfter
<1>13. req.was \in BOOLEAN
  BY DEF MxInv, MxTypeOK, MxReqs
<1>14. /\ req' \in MxReqs /\ req'.m = req.m /\ req'.answer = req.answer /\ req'.arg = req.arg
       /\ req'.todo = t /\ req'.was = req.was /\ req'.err /\ req'.cut = k
  BY <1>12, <1>13, MxRequests
<1>15. MxTypeOK'
  BY <1>4, <1>9, <1>10, <1>14, EmptySeq DEF MxTypeOK
<1>16. ~bridge'.fatal => MxShape(req.todo)' /\ MxDue' /\ MxVerified' /\ MxCleaned'
  <2>1. HAVE ~bridge'.fatal
  <2>2. /\ ~bridge.fatal /\ p \notin {"hard", "stop"} /\ MxShape(t) /\ MxBehind(t)
    BY <1>2, <1>7, <1>9, <1>12, <2>1
  <2>3. req.m # "cleanup"
    BY <1>0, <1>1, <2>2 DEF MxCleaned, MxCleanShape
  <2>4. ~native'.due
    <3>1. c # "cancel_frame"
      BY <1>0, <1>1, <2>2 DEF MxShape, MxCancelShape
    <3>2. c # "wait"
      BY <1>4 DEF Msx!IsLocal
    <3> QED BY <1>1, <1>10, <2>2, <3>1, <3>2 DEF MxDue, MxAt
  <2>5. req'.err /\ ~MxWillSay'
    BY <1>14, <2>2 DEF MxWillSay
  <2> QED BY <1>14, <2>2, <2>3, <2>4, <2>5, MxJumps
<1> QED BY <1>1, <1>9, <1>11, <1>14, <1>15, <1>16, MxOn DEF MxLive

\* Every step keeps what is known of the bridge, its request and the machine.
LEMMA MxNext ==
    ASSUME MaxQueue \in Nat \ {0}, MxInv, [Msx!MsxNext]_Msx!msxVars
    PROVE  MxInv'
<1>1. CASE UNCHANGED Msx!msxVars
  BY <1>1 DEF Msx!msxVars, MxInv, MxTypeOK, Msx!MsxHitsKept, MxAnswered, MxLive, MxShape, MxFrameShape, MxReadShape, MxReleaseShape,
              MxCancelShape, MxDue, MxAt, MxVerified, MxCleaned, MxStill, MxHalted, MxWillSay
<1>2. CASE Msx!MsxNext
  BY <1>2, MxBegins, MxBeginsParent, MxFinishesParent, MxCommands, MxRefusals, MxDies, MxUpdatesRead, MxWaitsEnd, MxDecides, MxDelivers, MxFinishes, MxMoves
  DEF Msx!MsxNext
<1> QED BY <1>1, <1>2

\* Of the MSX bridge, for any breakpoints, queue length and number of requests: an answer that says frozen left openMSX paused
\* and in its debugger with no delayed start of a frame pending; the cleanup of a parent with effects also left no frame target,
\* and no key down if the parent recorded an input port (openmsx_bridge.rs: require_stop_conjunction after every step that can
\* move the machine; temporal_owner.rs: clean_parent).
THEOREM MsxHaltIsAlwaysReal ==
    ASSUME MaxQueue \in Nat \ {0}
    PROVE  Msx!MsxSpec => []Msx!MsxHaltIsReal
<1>1. MxInv => Msx!MsxHaltIsReal
  BY DEF MxInv, MxAnswered, MxStill, MxHalted, Msx!MsxHaltIsReal
<1> QED BY <1>1, MxStarts, MxNext, PTL DEF Msx!MsxSpec

\* Of the MSX bridge, unless control was retired: every breakpoint hit waits in the Tcl queue, became an event of the bridge,
\* or was dropped and leaves a gap in hit_seq; the gaps are the drops still counted in openMSX, those poll_events told and
\* those whose count another drain threw away (drain_debug_events, with the failures of parse_hit_record).
THEOREM MsxHitsAreAlwaysKept ==
    ASSUME MaxQueue \in Nat \ {0}
    PROVE  Msx!MsxSpec => []Msx!MsxHitsKept
<1>1. MxInv => Msx!MsxHitsKept
  BY DEF MxInv
<1> QED BY <1>1, MxStarts, MxNext, PTL DEF Msx!MsxSpec
==============================================================================
