---------------------------- MODULE Generations ----------------------------
(***************************************************************************)
(* The runtime generations of one listener port and the leases on them:    *)
(* the files of the runtime store (src/live/runtime.rs), the link wrapper  *)
(* that claims the lease around every call (src/live/continuity.rs), the   *)
(* capture capsule (src/live/capture_capsule.rs, recording.rs), and the    *)
(* tools that replace or end a generation (src/bin/emucap-mcp/launch/      *)
(* run.rs, stop.rs, live/task_entry.rs, live/runtime/termination.rs).      *)
(*                                                                         *)
(* A controller is an emucap process.  It runs one tool at a time, behind  *)
(* the mutex of its link; several controllers share the files of the port. *)
(* One step is one access to those files, a section under a file lock, or  *)
(* one exchange with an emulator or with the operating system.  A          *)
(* controller may exit between any two steps; its successor is another     *)
(* controller.                                                             *)
(*                                                                         *)
(* A file that is missing reads as the blank record: no operation of the   *)
(* code treats the two differently.                                        *)
(***************************************************************************)
CONSTANTS
    Controllers,  \* processes, each of which lives once
    Relayed,      \* the controllers whose link is a broker's: they own no port
    Gens,         \* bound: the launch ids that are ever drawn
    None,
    Tools,        \* the tools that the controllers use
    Shapes,       \* the process sets that a launcher may start
    Survivors     \* the processes that a termination may fail to end

AllTools == {"read", "mutate", "temporal", "launch", "replace", "stop",
             "record", "reattach"}

ASSUME GenerationsAssumption ==
    /\ None \notin Controllers
    /\ None \notin Gens
    /\ Relayed \subseteq Controllers
    /\ Tools \subseteq AllTools
    /\ Shapes \subseteq {{"emulator"}, {"emulator", "bridge"}}
    /\ Survivors \subseteq {"emulator", "bridge"}

VARIABLES
    current,      \* current.json: the launch id of the port, or None
    generations,  \* the generation directories, each with its auth file
    link,         \* link.json of each: the lease and the temporal operation
    capture,      \* capture.json of each: its owner and state
    termination,  \* termination.json of each
    currentLock,  \* the holder of .current.lock between two steps
    owned,        \* the processes that each generation's launcher started
    procs,        \*     and those that still run
    strays,       \* launches left running unpublished: their launcher exited, or
                  \*     failed to end them (history)
    alive,        \* the controllers that run
    peer,         \* the launch id that each controller's link has seen, or None
    temporal,     \* the generation of the operation it is in, or None
    run           \* the tool each controller runs, and how far it is

files == <<current, generations, link, capture, termination, currentLock>>
host == <<owned, procs, strays>>
session == <<alive, peer, temporal>>

vars == <<files, host, session, run>>

Idle == [pc |-> "idle", tool |-> "none", gen |-> None, new |-> None,
         expected |-> None]
NoLink == [lease |-> None, owner |-> None, state |-> "None"]
NoCapture == [by |-> None, state |-> "None"]

-----------------------------------------------------------------------------
(* What a controller sees.                                                  *)

\* process_state of a process that is up or not: its start identity may be
\* unreadable.
ProcessState(up) == IF up THEN {"Alive", "Unknown"} ELSE {"Exited", "Unknown"}

\* process_state and bridge_process_state of the manifest of g.
Sightings(g) ==
    [emulator : ProcessState("emulator" \in procs[g]),
     bridge : IF "bridge" \in owned[g] THEN ProcessState("bridge" \in procs[g])
              ELSE {"None"}]

\* Mutant: a holder that cannot be identified is taken to have exited.
LeaseViewGuess(c, g) ==
    LET holder == link[g].lease
    IN  CASE holder = None -> {"Absent"}
          [] holder = c -> {"Held"}
          [] OTHER -> {"Occupied", "Available"}

\* lease_view, and observe_runtime where there is no lease.
LeaseView(c, g) ==
    LET holder == link[g].lease
    IN  CASE holder = None -> {"Absent"}
          [] holder = c -> {"Held"}
          [] holder # None /\ holder # c /\ alive[holder] ->
                 {"Occupied", "Unknown"}
          [] OTHER -> {"Available", "Unknown"}

\* runtime_binding: the live launch id is the one of current.json.
Bound(c) == current # None /\ peer[c] = current

\* Mutant: a generation that is not current counts as unmanaged.
LookupNeverFails(c) == FALSE

\* require_runtime_lookup after current_for_launch: a broker's controller
\* finds the generation of its peer, but it is not current.
LookupFails(c) ==
    c \in Relayed /\ peer[c] # current /\ peer[c] \in generations

\* has_exclusive_control.
Exclusive(c) == c \notin Relayed \/ peer[c] # None

\* generation_mutation_blocker.
CaptureBlocks(g) == capture[g].state \notin {"None", "Safe"}

-----------------------------------------------------------------------------
(* The lease.                                                               *)

\* Mutant: a new holder starts a new record.
ClaimLeaseAfresh(c, g) ==
    /\ currentLock = None
    /\ current = g
    /\ LeaseView(c, g) \cap {"Absent", "Held", "Available"} # {}
    /\ link' = [link EXCEPT ![g] = IF @.lease = c THEN @
                                   ELSE [NoLink EXCEPT !.lease = c]]
    /\ generations' = generations \cup {g}
    /\ UNCHANGED <<current, capture, termination, currentLock>>

\* claim_generation_lease, under both locks: the lease is free, its own, or
\* the one of a process that is known to have exited.
ClaimLease(c, g) ==
    /\ currentLock = None
    /\ current = g
    /\ LeaseView(c, g) \cap {"Absent", "Held", "Available"} # {}
    /\ link' = [link EXCEPT ![g].lease = c]
    /\ generations' = generations \cup {g}
    /\ UNCHANGED <<current, capture, termination, currentLock>>

\* The claim returns an error: a lock is busy to its deadline, the generation
\* has changed, the holder lives or cannot be identified, a file cannot be read
\* or written.  The last of these may come when the record is in its place and
\* only its directory cannot be synced.
ClaimFails(c, g) == ClaimLease(c, g) \/ UNCHANGED files

Goto(c, label) == run' = [run EXCEPT ![c].pc = label]
GotoWith(c, label, g) ==
    run' = [run EXCEPT ![c] = [@ EXCEPT !.pc = label, !.gen = g]]
Return(c) == run' = [run EXCEPT ![c] = Idle]

At(c, label) == alive[c] /\ run[c].pc = label

\* A tool starts with generation g in hand.
Start(c, tool, label, g) ==
    /\ At(c, "idle")
    /\ tool \in Tools
    /\ run' = [run EXCEPT ![c] = [Idle EXCEPT !.pc = label, !.tool = tool,
                                              !.gen = g]]
    /\ UNCHANGED <<files, host, session>>

-----------------------------------------------------------------------------
(* A call through the observed link.                                        *)

\* call with a read-only method: no lease is needed to send it.
StartRead(c) == Start(c, "read", "wire", None)

\* ensure_mutation_lease, as far as claim_lease's refresh.  A link that is
\* not bound to the current generation may still be exclusive: the call
\* proceeds without a lease.
StartMutation(c) ==
    /\ ~LookupFails(c)
    /\ \/ Bound(c) /\ Start(c, "mutate", "claim", current)
       \/ ~Bound(c) /\ Exclusive(c) /\ Start(c, "mutate", "wire", None)

\* begin_temporal_control: only for a bound runtime.
StartTemporal(c) ==
    /\ ~LookupFails(c)
    /\ Bound(c)
    /\ temporal[c] = None
    /\ Start(c, "temporal", "claim", current)

\* The call was refused before it was sent.  A recording goes on to close its
\* capsule.
Refused(c) == IF run[c].tool = "record" THEN Goto(c, "close") ELSE Return(c)

\* ensure_mutation_lease: claim_lease_for.
Claim(c) ==
    /\ At(c, "claim")
    /\ \/ ClaimLease(c, run[c].gen) /\ Goto(c, "check")
       \/ ClaimFails(c, run[c].gen) /\ Refused(c)
    /\ UNCHANGED <<host, session>>

\* The temporal operation of the record is this controller's own, active, and
\* named by the call.
OwnOperation(c, g) ==
    /\ link[g].state = "Active"
    /\ link[g].owner = c
    /\ run[c].tool = "mutate"
    /\ temporal[c] = g

\* The one mutation that a nonterminal capture admits: its own dispatch.
OwnedArming(c, g) ==
    /\ run[c].tool = "record"
    /\ capture[g] = [by |-> c, state |-> "Arming"]

\* Mutant: an operation without verified cleanup blocks its generation for the
\* others only.
CheckOthers(c) ==
    LET g == run[c].gen
        admitted == /\ link[g].state = "None" \/ link[g].owner = c
                    /\ ~CaptureBlocks(g) \/ OwnedArming(c, g)
    IN  /\ At(c, "check")
        /\ IF ~admitted THEN Refused(c)
           ELSE Goto(c, IF run[c].tool = "temporal" THEN "persist" ELSE "wire")
        /\ UNCHANGED <<files, host, session>>

\* ensure_mutation_lease: the quarantine by a temporal operation, then the
\* one by a capture.
Check(c) ==
    LET g == run[c].gen
        admitted == /\ link[g].state = "None" \/ OwnOperation(c, g)
                    /\ ~CaptureBlocks(g) \/ OwnedArming(c, g)
    IN  /\ At(c, "check")
        /\ IF ~admitted THEN Refused(c)
           ELSE Goto(c, IF run[c].tool = "temporal" THEN "persist" ELSE "wire")
        /\ UNCHANGED <<files, host, session>>

\* begin_temporal_control: persist the active operation for the holder.
Persist(c) ==
    LET g == run[c].gen
    IN  /\ At(c, "persist")
        /\ \/ /\ currentLock = None /\ current = g
              /\ link[g].lease = c /\ link[g].state = "None"
              /\ link' = [link EXCEPT ![g].owner = c, ![g].state = "Active"]
              /\ generations' = generations \cup {g}
              /\ \/ temporal' = [temporal EXCEPT ![c] = g]
                 \/ UNCHANGED temporal   \* in its place, with an error
           \/ UNCHANGED <<link, generations, temporal>>
        /\ Return(c)
        /\ UNCHANGED <<current, capture, termination, currentLock, host, alive,
                       peer>>

\* finish_temporal_control: with verified cleanup the operation is cleared,
\* which the link's peer must bear out; without, it is marked.  An error
\* leaves the record as it is, and the tool ends all the same.
FinishTemporal(c, verified) ==
    LET g == temporal[c]
        may == /\ currentLock = None /\ current = g /\ link[g].lease = c
               /\ link[g].owner = c /\ link[g].state = "Active"
               /\ verified => peer[c] = g
    IN  /\ At(c, "idle")
        /\ g # None
        /\ \/ /\ may
              /\ link' = [link EXCEPT
                           ![g].owner = IF verified THEN None ELSE c,
                           ![g].state = IF verified THEN "None"
                                        ELSE "Unverified"]
           \/ UNCHANGED link
        /\ temporal' = [temporal EXCEPT ![c] = None]
        /\ UNCHANGED <<current, generations, capture, termination, currentLock,
                       host, alive, peer, run>>

\* The inner call: it succeeds or fails, with or without the connection.  The
\* first progress of a recording opens its capsule.
Wire(c) ==
    /\ At(c, "wire")
    /\ \E keep \in BOOLEAN :
          peer' = [peer EXCEPT ![c] = IF keep THEN @ ELSE None]
    /\ \/ UNCHANGED capture
       \/ /\ run[c].tool = "record"
          /\ capture[run[c].gen] = [by |-> c, state |-> "Arming"]
          /\ capture' = [capture EXCEPT ![run[c].gen].state = "Open"]
    /\ Goto(c, "outcome")
    /\ UNCHANGED <<current, generations, link, termination, currentLock, host,
                   alive, temporal>>

\* What follows the recorded call in its tool.  The status tool goes on to
\* reconcile_connected_recording.
Resume(c) ==
    \/ run[c].tool \in {"launch", "replace"} /\ Goto(c, "admit")
    \/ run[c].tool = "record" /\ Goto(c, "close")
    \/ run[c].tool \in {"read", "mutate", "reattach"} /\ Return(c)
    \/ /\ run[c].tool = "read" /\ c \notin Relayed /\ Bound(c)
       /\ GotoWith(c, "reconcile", current)

\* Mutant: the outcome is recorded for whoever is bound.
OutcomeUnclaimed(c) ==
    /\ At(c, "outcome")
    /\ \/ /\ Bound(c)
          /\ GotoWith(c, "note", current)
       \/ Resume(c)
    /\ UNCHANGED <<files, host, session>>

\* record_success and record_failure: refresh, and claim the lease of a bound
\* generation; without it, or for an error of the link itself, nothing is
\* recorded.
Outcome(c) ==
    /\ At(c, "outcome")
    /\ \/ /\ Bound(c)
          /\ ClaimLease(c, current)
          /\ GotoWith(c, "note", current)
       \/ UNCHANGED files /\ Resume(c)
    /\ UNCHANGED <<host, session>>

\* record_success and record_failure: update_link_json, which takes the lock
\* of the record only, and makes the directory if it is gone.
Note(c) ==
    /\ At(c, "note")
    /\ generations' = generations \cup {run[c].gen}
    /\ Resume(c)
    /\ UNCHANGED <<current, link, capture, termination, currentLock, host,
                   session>>

-----------------------------------------------------------------------------
(* reattach: a controller takes a generation over whose lease was returned. *)

StartReattach(c, g) ==
    /\ c \notin Relayed
    /\ peer[c] \in {None, g}
    /\ current = g
    /\ "Alive" \in ProcessState("emulator" \in procs[g])
    /\ "bridge" \in owned[g] => "Alive" \in ProcessState("bridge" \in procs[g])
    /\ g \in generations
    /\ LeaseView(c, g) \cap {"Held", "Available"} # {}
    /\ Start(c, "reattach", "reattach", g)

\* returned_generation claims the lease, then make_reattach asks for the
\* status of the emulator that connects.
Reattach(c) ==
    /\ At(c, "reattach")
    /\ \/ ClaimLease(c, run[c].gen) /\ Goto(c, "wire")
       \/ ClaimFails(c, run[c].gen) /\ Return(c)
    /\ \E keep \in BOOLEAN :
          peer' = [peer EXCEPT ![c] = IF keep THEN @ ELSE None]
    /\ UNCHANGED <<host, alive, temporal>>

-----------------------------------------------------------------------------
(* launch, with replace or without.                                         *)

\* make_launch: observe_control_state first asks for the status.
StartLaunch(c, tool) ==
    /\ c \notin Relayed
    /\ Start(c, tool, "wire", None)

\* admit_generation_transition over classify_entry, for what is seen of the
\* processes and of the lease of the current generation.
Admission(c, seen, lease) ==
    IF \/ seen.emulator = "Unknown" \/ seen.bridge = "Unknown"
       \/ /\ seen.emulator = "Alive"
          /\ \/ run[c].tool = "launch"
             \/ peer[c] = None /\ seen.bridge = "Exited"
       \/ lease \in {"Occupied", "Unknown"}
    THEN "Rejected"
    ELSE IF lease = "Held" THEN "Allowed" ELSE "AcquireLease"

Admissions(c) ==
    IF current = None THEN IF peer[c] = None THEN {"Allowed"} ELSE {"Rejected"}
    ELSE {Admission(c, seen, lease) :
             seen \in Sightings(current), lease \in LeaseView(c, current)}

\* make_launch may return for reasons of its own (arguments, binaries, media,
\* preserved failures, files that cannot be read or written) before it has
\* changed anything.
GiveUp(c) ==
    /\ \E label \in {"admit", "previous", "previousFree", "recheck", "expect",
                     "prepare"} : At(c, label)
    /\ Return(c)
    /\ UNCHANGED <<files, host, session>>

\* The first observation, of the generation that is current now.  The binding
\* it uses is the one of the last refresh, and may be out of date.
Admit(c) ==
    /\ At(c, "admit")
    /\ \/ "Allowed" \in Admissions(c) /\ Goto(c, "previous")
       \/ "AcquireLease" \in Admissions(c) /\ Goto(c, "previousFree")
    /\ UNCHANGED <<files, host, session>>

\* The generation to be replaced is read again.
Previous(c) ==
    /\ \/ At(c, "previous")
          /\ GotoWith(c, "reconcile", current)
       \/ At(c, "previousFree")
          /\ IF current = None THEN Return(c)
             ELSE GotoWith(c, "acquire", current)
    /\ UNCHANGED <<files, host, session>>

\* acquire_control_lease, for make_launch and for record_window.
Acquire(c) ==
    /\ At(c, "acquire")
    /\ \/ ClaimLease(c, run[c].gen) /\ Goto(c, "reconcile")
       \/ ClaimFails(c, run[c].gen) /\ Return(c)
    /\ UNCHANGED <<host, session>>

\* What follows the reconciliation of an abandoned capture.
Reconciled(c) ==
    \/ run[c].tool = "record" /\ Goto(c, "create")
    \/ run[c].tool \in {"launch", "replace"} /\ Goto(c, "recheck")
    \/ run[c].tool = "read" /\ Return(c)

\* reconcile_abandoned_capture: only a nonterminal capture needs the lease.
Reconcile(c) ==
    LET g == run[c].gen
    IN  /\ At(c, "reconcile")
        /\ IF g = None \/ capture[g].state \in {"None", "Safe", "Unsafe"}
           THEN UNCHANGED files /\ Reconciled(c)
           ELSE \/ ClaimLease(c, g) /\ Goto(c, "resolve")
                \/ ClaimFails(c, g) /\ Return(c)
        /\ UNCHANGED <<host, session>>

\* Mutant: whoever holds the lease may end a capture.
ResolveByHolder(c) ==
    LET g == run[c].gen
    IN  /\ At(c, "resolve")
        /\ \/ /\ current = g /\ link[g].lease = c
              /\ \E end \in {"Safe", "Unsafe"} :
                    capture' = [capture EXCEPT ![g].state = end]
              /\ Reconciled(c)
           \/ UNCHANGED capture /\ Return(c)
        /\ UNCHANGED <<current, generations, link, termination, currentLock,
                       host, session>>

\* reconcile: the capture's owner has exited; its bundle, its adapter or the
\* end of its emulator tells how it ended.  Asking the adapter may lose the
\* connection.
Resolve(c) ==
    LET g == run[c].gen
        eligible == /\ ~alive[capture[g].by]
                    /\ current = g /\ link[g].lease = c
    IN  /\ At(c, "resolve")
        /\ \/ /\ eligible
              /\ peer' \in {peer, [peer EXCEPT ![c] = None]}
              /\ \E end \in {"Safe", "Unsafe"} :
                    capture' = [capture EXCEPT ![g].state = end]
              /\ Reconciled(c)
           \/ UNCHANGED <<capture, peer>> /\ Return(c)
        /\ UNCHANGED <<current, generations, link, termination, currentLock,
                       host, alive, temporal>>

\* The generation must still be the one, and the lease now be held.
Recheck(c) ==
    /\ At(c, "recheck")
    /\ current = run[c].gen
    /\ peer[c] \in {None, current}
    /\ "Allowed" \in Admissions(c)
    /\ Goto(c, "expect")
    /\ UNCHANGED <<files, host, session>>

\* prepare: the launch id that the new generation will have to replace.
Expect(c) ==
    /\ At(c, "expect")
    /\ run' = [run EXCEPT ![c] = [@ EXCEPT !.pc = "prepare", !.expected = current]]
    /\ UNCHANGED <<files, host, session>>

\* prepare: draw a launch id that was never used, and make its directory and
\* auth file.
Prepare(c, g) ==
    /\ At(c, "prepare")
    /\ g \notin generations /\ owned[g] = {} /\ g # current
    /\ \A d \in Controllers : run[d].new # g
    /\ generations' = generations \cup {g}
    /\ run' = [run EXCEPT ![c] = [@ EXCEPT !.pc = "beforeSignal", !.new = g]]
    /\ UNCHANGED <<current, link, capture, termination, currentLock, host,
                   session>>

\* The files of a directory go with it.
Remove(dirs) ==
    /\ generations' = generations \ dirs
    /\ link' = [g \in Gens |-> IF g \in dirs THEN NoLink ELSE link[g]]
    /\ capture' = [g \in Gens |-> IF g \in dirs THEN NoCapture ELSE capture[g]]
    /\ termination' = [g \in Gens |-> IF g \in dirs THEN "None"
                                      ELSE termination[g]]

\* Mutant: a failed launch removes its directory whatever is current.
AbortAnyway(c) ==
    /\ Remove({run[c].new})
    /\ Return(c)
    /\ UNCHANGED <<current, currentLock>>

\* abort, which does not touch the current generation and may fail, and the
\* tool returns.
Abort(c) ==
    /\ \/ current # run[c].new /\ Remove({run[c].new})
       \/ UNCHANGED <<generations, link, capture, termination>>
    /\ Return(c)
    /\ UNCHANGED <<current, currentLock>>

\* Mutant: the current generation is not read again.
BeforeSignalBlind(c) ==
    /\ At(c, "beforeSignal")
    /\ \/ UNCHANGED files /\ Goto(c, "signal")
       \/ Abort(c)
    /\ UNCHANGED <<host, session>>

\* The last look before a process is signalled; or the media cannot be bound
\* to the new generation, or an identity is unknown.
BeforeSignal(c) ==
    LET g == run[c].gen
    IN  /\ At(c, "beforeSignal")
        /\ \/ current = g /\ UNCHANGED files /\ Goto(c, "signal")
           \/ Abort(c)
        /\ UNCHANGED <<host, session>>

\* terminate_owned_processes: some of the processes may survive, or all, as
\* when a start identity is unreadable and nothing is signalled.
Terminate(g, left) ==
    /\ left \subseteq Survivors
    /\ procs' = [procs EXCEPT ![g] = left]

\* The launch that c leaves with these processes running.
Stray(c, left) ==
    {g \in Gens : g = run[c].new /\ g # current /\ left # {}}

\* The replaced generation must be seen to have exited as a whole.
Signal(c) ==
    LET g == run[c].gen
    IN  /\ At(c, "signal")
        /\ \/ g = None /\ UNCHANGED <<procs, files>> /\ Goto(c, "spawn")
           \/ /\ g # None
              /\ \E left \in SUBSET procs[g] :
                    /\ Terminate(g, left)
                    /\ \/ left = {} /\ UNCHANGED files /\ Goto(c, "spawn")
                       \/ Abort(c)
        /\ UNCHANGED <<owned, strays, session>>

\* The new token is staged, which drops the connection, and the processes of
\* the generation are started; or that fails.
Spawn(c) ==
    LET g == run[c].new
    IN  /\ At(c, "spawn")
        /\ peer' = [peer EXCEPT ![c] = None]
        /\ \/ /\ \E shape \in Shapes :
                    /\ owned' = [owned EXCEPT ![g] = shape]
                    /\ procs' = [procs EXCEPT ![g] = shape]
              /\ UNCHANGED <<strays, files>> /\ Goto(c, "ready")
           \/ UNCHANGED host /\ Abort(c)
        /\ UNCHANGED <<alive, temporal>>

\* wait_for_adapter_ready, while every process is seen to live.
Ready(c) ==
    /\ At(c, "ready")
    /\ peer[c] = run[c].new
    /\ procs[run[c].new] = owned[run[c].new]
    /\ Goto(c, "commit")
    /\ UNCHANGED <<files, host, session>>

\* Mutant: a launch that fails late leaves its processes behind.
UndoLeaves(c) ==
    /\ \E label \in {"ready", "undo"} : At(c, label)
    /\ Abort(c)
    /\ peer' = [peer EXCEPT ![c] = None]
    /\ UNCHANGED <<host, alive, temporal>>

\* The launched generation is not ready, or could not be published: its
\* processes are terminated, whatever comes of it, and its directory is removed.
Undo(c) ==
    /\ \E label \in {"ready", "undo"} : At(c, label)
    /\ \E left \in SUBSET procs[run[c].new] :
          /\ Terminate(run[c].new, left)
          /\ strays' = strays \cup Stray(c, left)
    /\ Abort(c)
    /\ peer' = [peer EXCEPT ![c] = None]
    /\ UNCHANGED <<owned, alive, temporal>>

\* generation_capture_blocker lets the replacement of g pass.
CaptureReleases(g) == ~CaptureBlocks(g) \/ procs[g] = {}

\* commit, under the lock: publish the generation if the one before it is
\* still current.  The manifest may be in its place, with an error.
Commit(c) ==
    LET old == run[c].expected
        may == /\ currentLock = None /\ current = old
               /\ old # None => CaptureReleases(old)
    IN  /\ At(c, "commit")
        /\ \/ may /\ current' = run[c].new /\ currentLock' = c /\ Goto(c, "clean")
           \/ may /\ current' = run[c].new /\ UNCHANGED currentLock
              /\ Goto(c, "undo")
           \/ UNCHANGED <<current, currentLock>> /\ Goto(c, "undo")
        /\ UNCHANGED <<generations, link, capture, termination, host, session>>

\* commit: cleanup_other_generations, as far as it gets, and the unlock.
Clean(c) ==
    /\ At(c, "clean")
    /\ \E dirs \in SUBSET (generations \ {run[c].new}) : Remove(dirs)
    /\ currentLock' = None
    /\ Return(c)
    /\ UNCHANGED <<current, host, session>>

-----------------------------------------------------------------------------
(* stop.                                                                    *)

StartStop(c) ==
    /\ c \notin Relayed
    /\ current # None
    /\ Start(c, "stop", "stopLease", current)

\* Mutant: the launch id that the caller names is enough.
StopLeaseByName(c) ==
    /\ At(c, "stopLease")
    /\ Goto(c, "stopIntent")
    /\ UNCHANGED <<files, host, session>>

\* acquire_control_lease.
StopLease(c) ==
    /\ At(c, "stopLease")
    /\ \/ ClaimLease(c, run[c].gen) /\ Goto(c, "stopIntent")
       \/ ClaimFails(c, run[c].gen) /\ Return(c)
    /\ UNCHANGED <<host, session>>

\* write_current_termination, under the lock of the current generation.
WriteTermination(c, state) ==
    /\ currentLock = None /\ current = run[c].gen
    /\ generations' = generations \cup {current}
    /\ termination' = [termination EXCEPT ![current] = state]
    /\ UNCHANGED <<current, link, capture, currentLock>>

\* The generation is read again and its processes are identified, and the
\* intent is recorded; or nothing is signalled.
StopIntent(c) ==
    /\ At(c, "stopIntent")
    /\ \/ WriteTermination(c, "Requested") /\ (Goto(c, "stopSignal") \/ Return(c))
       \/ UNCHANGED files /\ Return(c)
    /\ UNCHANGED <<host, session>>

StopSignal(c) ==
    /\ At(c, "stopSignal")
    /\ \E left \in SUBSET procs[run[c].gen] : Terminate(run[c].gen, left)
    /\ Goto(c, "stopRecord")
    /\ UNCHANGED <<files, owned, strays, session>>

\* Mutant: the result is recorded as it was hoped for.
StopRecordHoped(c) ==
    /\ At(c, "stopRecord")
    /\ WriteTermination(c, "Completed") \/ UNCHANGED files
    /\ Return(c)
    /\ UNCHANGED <<host, session>>

\* The terminal record; a completed one must agree with what the host shows.
StopRecord(c) ==
    /\ At(c, "stopRecord")
    /\ \/ procs[run[c].gen] = {} /\ WriteTermination(c, "Completed")
       \/ WriteTermination(c, "Failed")
       \/ UNCHANGED files
    /\ Return(c)
    /\ UNCHANGED <<host, session>>

-----------------------------------------------------------------------------
(* record_window.                                                           *)

StartRecord(c) ==
    /\ c \notin Relayed
    /\ Bound(c)
    /\ "Alive" \in ProcessState("emulator" \in procs[current])
    /\ Start(c, "record", "acquire", current)

\* verify_generation_and_lease.
CapsuleOwned(c) == current = run[c].gen /\ link[run[c].gen].lease = c

\* The capsule of this controller's recording moves on to the given state.
Capsule(c, state) ==
    /\ CapsuleOwned(c)
    /\ capture' = [capture EXCEPT ![run[c].gen] = [by |-> c, state |-> state]]

\* create.
Create(c) ==
    /\ At(c, "create")
    /\ \/ /\ "Alive" \in ProcessState("emulator" \in procs[run[c].gen])
          /\ ~CaptureBlocks(run[c].gen)
          /\ Capsule(c, "Prepared")
          /\ Goto(c, "arm")
       \/ UNCHANGED capture /\ Return(c)
    /\ UNCHANGED <<current, generations, link, termination, currentLock, host,
                   session>>

\* The transition to Arming, or terminalize_setup_failure, which may fail too.
Arm(c) ==
    /\ At(c, "arm")
    /\ \/ Capsule(c, "Arming") /\ Goto(c, "dispatch")
       \/ Capsule(c, "Safe") /\ Return(c)
       \/ UNCHANGED capture /\ Return(c)
    /\ UNCHANGED <<current, generations, link, termination, currentLock, host,
                   session>>

\* The sinks are opened and the window is dispatched like any mutation, or
\* the setup fails before that.
Dispatch(c) ==
    /\ At(c, "dispatch")
    /\ \/ UNCHANGED capture /\ Goto(c, IF Bound(c) THEN "claim" ELSE "wire")
       \/ Capsule(c, "Safe") /\ Return(c)
       \/ UNCHANGED capture /\ Return(c)
    /\ UNCHANGED <<current, generations, link, termination, currentLock, host,
                   session>>

\* Closing, readout, finalizing and the terminal state, which tells whether
\* the adapter's hooks, inputs and sink are released; or one of the
\* transitions fails, and the capsule stays where it is.  Open stands for all
\* of the states between Arming and the terminal ones.
Close(c) ==
    /\ At(c, "close")
    /\ \/ /\ capture[run[c].gen].by = c
          /\ capture[run[c].gen].state \in {"Arming", "Open"}
          /\ \E end \in {"Open", "Safe", "Unsafe"} : Capsule(c, end)
       \/ UNCHANGED capture
    /\ Return(c)
    /\ UNCHANGED <<current, generations, link, termination, currentLock, host,
                   session>>

-----------------------------------------------------------------------------
(* The environment.                                                         *)

\* An emulator connects to a listener, or its controller attaches to it
\* through a broker.  While a launch has staged its token, only the launched
\* generation is let in.
Connect(c, g) ==
    /\ \E label \in {"idle", "wire", "ready"} : At(c, label)
    /\ peer[c] = None
    /\ procs[g] # {}
    /\ run[c].pc = "ready" => g = run[c].new
    /\ peer' = [peer EXCEPT ![c] = g]
    /\ UNCHANGED <<files, host, alive, temporal, run>>

\* A generation's process exits by itself.
ProcessExits(g, p) ==
    /\ p \in procs[g]
    /\ procs' = [procs EXCEPT ![g] = @ \ {p}]
    /\ strays' = IF procs'[g] = {} THEN strays \ {g} ELSE strays
    /\ UNCHANGED <<files, owned, session, run>>

\* A controller exits; the system drops its locks and its connection.
Exit(c) ==
    /\ alive[c]
    /\ alive' = [alive EXCEPT ![c] = FALSE]
    /\ peer' = [peer EXCEPT ![c] = None]
    /\ temporal' = [temporal EXCEPT ![c] = None]
    /\ run' = [run EXCEPT ![c] = Idle]
    /\ currentLock' = IF currentLock = c THEN None ELSE currentLock
    /\ strays' = strays \cup {g \in Gens : g \in Stray(c, procs[g])}
    /\ UNCHANGED <<current, generations, link, capture, termination, owned, procs>>

-----------------------------------------------------------------------------

Init ==
    /\ current = None
    /\ generations = {}
    /\ link = [g \in Gens |-> NoLink]
    /\ capture = [g \in Gens |-> NoCapture]
    /\ termination = [g \in Gens |-> "None"]
    /\ currentLock = None
    /\ owned = [g \in Gens |-> {}]
    /\ procs = [g \in Gens |-> {}]
    /\ strays = {}
    /\ alive = [c \in Controllers |-> TRUE]
    /\ peer = [c \in Controllers |-> None]
    /\ temporal = [c \in Controllers |-> None]
    /\ run = [c \in Controllers |-> Idle]

Call(c) ==
    \/ StartRead(c) \/ StartMutation(c) \/ StartTemporal(c)
    \/ \E verified \in BOOLEAN : FinishTemporal(c, verified)

Other(c) ==
    \/ \E g \in Gens : StartReattach(c, g)
    \/ \E tool \in {"launch", "replace"} : StartLaunch(c, tool)
    \/ StartStop(c) \/ StartRecord(c)

\* A step of the tool that the controller runs.
Step(c) ==
    \/ Claim(c) \/ Check(c) \/ Persist(c) \/ Wire(c) \/ Outcome(c) \/ Note(c)
    \/ Reattach(c)
    \/ GiveUp(c) \/ Admit(c) \/ Previous(c) \/ Acquire(c) \/ Reconcile(c)
    \/ Resolve(c) \/ Recheck(c) \/ Expect(c)
    \/ \E g \in Gens : Prepare(c, g)
    \/ BeforeSignal(c) \/ Signal(c) \/ Spawn(c) \/ Ready(c) \/ Undo(c)
    \/ Commit(c) \/ Clean(c)
    \/ StopLease(c) \/ StopIntent(c) \/ StopSignal(c) \/ StopRecord(c)
    \/ Create(c) \/ Arm(c) \/ Dispatch(c) \/ Close(c)

Environment ==
    \/ \E c \in Controllers : Exit(c) \/ \E g \in Gens : Connect(c, g)
    \/ \E g \in Gens : \E p \in procs[g] : ProcessExits(g, p)

Next ==
    \/ \E c \in Controllers : Call(c) \/ Other(c) \/ Step(c)
    \/ Environment

Spec == Init /\ [][Next]_vars

\* A tool goes on while its controller runs: every call to an emulator has a
\* deadline, and so has every wait for a lock.
LiveSpec == Spec /\ \A c \in Controllers : WF_vars(Step(c))

-----------------------------------------------------------------------------
(* Properties.                                                              *)

Labels == {"idle", "claim", "check", "persist", "wire", "outcome", "note",
           "reattach", "admit", "previous", "previousFree", "acquire",
           "reconcile", "resolve", "recheck", "expect", "prepare",
           "beforeSignal", "signal", "spawn", "ready", "commit", "undo",
           "clean", "stopLease", "stopIntent", "stopSignal", "stopRecord",
           "create", "arm", "dispatch", "close"}

TypeOK ==
    /\ current \in Gens \cup {None}
    /\ generations \subseteq Gens
    /\ link \in [Gens -> [lease : Controllers \cup {None},
                         owner : Controllers \cup {None},
                         state : {"None", "Active", "Unverified"}]]
    /\ capture \in [Gens -> [by : Controllers \cup {None},
                            state : {"None", "Prepared", "Arming", "Open",
                                     "Safe", "Unsafe"}]]
    /\ termination \in [Gens -> {"None", "Requested", "Completed", "Failed"}]
    /\ currentLock \in Controllers \cup {None}
    /\ owned \in [Gens -> SUBSET {"emulator", "bridge"}]
    /\ procs \in [Gens -> SUBSET {"emulator", "bridge"}]
    /\ strays \subseteq Gens
    /\ alive \in [Controllers -> BOOLEAN]
    /\ peer \in [Controllers -> Gens \cup {None}]
    /\ temporal \in [Controllers -> Gens \cup {None}]
    /\ run \in [Controllers -> [pc : Labels, tool : AllTools \cup {"none"},
                               gen : Gens \cup {None},
                               new : Gens \cup {None},
                               expected : Gens \cup {None}]]

\* The steps that a tool takes under the lease of its generation.
Leased(c) ==
    /\ run[c].gen # None
    /\ \/ run[c].pc \in {"check", "persist", "wire", "outcome", "note",
                         "resolve", "expect", "prepare", "beforeSignal",
                         "signal", "spawn", "ready", "commit", "stopIntent",
                         "stopSignal", "stopRecord", "create", "arm",
                         "dispatch", "close"}
       \/ run[c].pc \in {"claim", "reconcile"} /\ run[c].tool = "record"

\* From the claim to the end of what it was claimed for the lease is the
\* controller's and the generation is current, although no lock is held in
\* between: not across a call to the emulator, not while processes are killed
\* and started, not while another controller launches, stops or takes over.
\* "All durable writes are scoped to the current launch generation"
\* (continuity.rs) rests on this: update_link_json does not look at
\* current.json.
LeaseKept ==
    \A c \in Controllers :
        Leased(c) => current = run[c].gen /\ link[run[c].gen].lease = c

\* The controllers that are sending a mutation to generation g.
Mutators(g) ==
    {c \in Controllers : /\ run[c].pc = "wire" /\ run[c].gen = g
                         /\ run[c].tool \in {"mutate", "record"}}

\* A mutation that was admitted has its generation to itself until it is
\* answered: no other controller mutates it, it is under no temporal operation
\* but the controller's own, and no capture is unfinished or unsafe but the
\* one that is dispatched (ensure_mutation_lease read all three before).  A
\* recording that has lost its connection is dispatched unread.
MutationAlone ==
    \A g \in Gens : \A c \in Mutators(g) :
        /\ Mutators(g) = {c}
        /\ run[c].tool = "mutate" /\ link[g].state # "None" =>
               link[g].state = "Active" /\ link[g].owner = c
        /\ CaptureBlocks(g) => run[c].tool = "record" /\ capture[g].by = c

\* "That exact owner/capture pair is the only mutation admitted while a
\* nonterminal capture exists; every other request must wait for its terminal"
\* (ensure_mutation_lease): no other mutation goes out to the emulator of the
\* current generation while its capture is unfinished, be it that the call
\* itself made the connection.
WaitsForTerminal ==
    \A c \in Controllers \ Relayed :
        (/\ run[c].pc = "wire" /\ run[c].tool = "mutate"
         /\ current # None /\ peer[c] = current)
        => capture[current].state \notin {"Prepared", "Arming", "Open"}

\* A broker's controller does not send a mutation to a generation that the
\* store still keeps and that is not the current one: such an emulator is left
\* from a launch that failed or was replaced, and no lease guards it.
HistoryUntouched ==
    \A c \in Relayed :
        run[c].pc = "wire" /\ run[c].tool = "mutate" /\ run[c].gen = None
            => peer[c] \notin generations

\* A process is signalled for the generation that is current and leased to the
\* one who signals (make_launch and make_stop; the first case of
\* LIFE.TERMINATE.1).  A mere kill by launch id would hit a generation that
\* another controller has taken over.
TerminatesUnderLease ==
    [][\A g \in Gens, p \in {"emulator", "bridge"}, c \in Controllers :
          (/\ p \in procs[g] /\ p \notin procs'[g]
           /\ run[c].pc \in {"signal", "stopSignal"} /\ run'[c] # run[c])
          => run[c].gen = g /\ current = g /\ link[g].lease = c]_vars

\* What is torn down after a failed launch was never published (the second
\* case of LIFE.TERMINATE.1).
TearsDownUnpublished ==
    \A c \in Controllers : run[c].pc = "undo" => current # run[c].new

\* A generation is published by the launcher that holds the lease of the one
\* before it, once that one has no processes left: no emulator of a replaced
\* generation runs on beside its successor (commit compares launch ids only).
PublishesOverExited ==
    [][current' # current =>
          \E c \in Controllers :
              /\ run[c].pc = "commit" /\ run[c].new = current'
              /\ current # None => procs[current] = {} /\ link[current].lease = c]_vars

\* The directory of the current generation, with its auth file, is there: no
\* launch that fails and no cleanup after a publication has removed it.
CurrentIntact == current # None => current \in generations

\* A directory that appears is the one of a generation that never ran: no
\* late record of a call brings a replaced one back (update_link_json makes
\* the directory if it is missing).
NoRevival == [][\A g \in generations' \ generations : owned[g] = {}]_vars

\* A generation whose stop is recorded as completed has no process left.
StopCompletes ==
    \A g \in Gens : termination[g] = "Completed" => procs[g] = {}

\* The record of a temporal operation whose cleanup nobody has verified stays
\* for as long as its generation is the current one, whoever comes to hold the
\* lease: it ends by its own controller, or with the generation.
QuarantineHolds ==
    [][\A g \in Gens :
          link[g].state # "None" /\ link'[g] # link[g] /\ current' = g
          => /\ link'[g].owner = link[g].owner \/ alive[link[g].owner]
             /\ link[g].state = "Unverified" =>
                    link'[g].state = "Unverified"
                    /\ link'[g].owner = link[g].owner]_vars

\* A capture is ended by its owner, or by another once the owner has exited;
\* nobody starts one over an unfinished or unsafe one.
CaptureEnds ==
    [][\A g \in Gens :
          CaptureBlocks(g) /\ capture'[g] # capture[g] /\ g \in generations'
          => /\ capture'[g].by = capture[g].by
             /\ capture[g].state # "Unsafe"
             /\ \/ ~alive[capture[g].by]
                \/ run[capture[g].by].gen = g /\ run[capture[g].by].tool = "record"]_vars

\* The processes that a launch has started end up in the current generation,
\* or they end; what else is left of a launch is left by an exit of its
\* launcher, or it has tried to end it and could not (run.rs ignores what
\* terminate_owned_processes returns: nobody tries again, and no manifest
\* names such a process).
OrphansAreReaped ==
    \A c \in Controllers, g \in Gens :
        (run[c].new = g /\ procs[g] # {})
            ~> (current = g \/ procs[g] = {} \/ g \in strays)
=============================================================================
