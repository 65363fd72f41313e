------------------------------ MODULE Recording ------------------------------
(* One recording, from record_window (live/recording.rs) through its event   *)
(* sink (live/recording_sink.rs), the frozen readout (recording_snapshot.rs) *)
(* and the publication of its bundle (bundle/publish.rs, bundle/recording.rs)*)
(* to the capture capsule that says how it ended (live/capture_capsule.rs).  *)
(* The controller may die at any step and another one reconciles what it     *)
(* left.  The window has one event per frame and no warm-up; the producer    *)
(* counts what it sends and may claim anything of it.                        *)
EXTENDS Naturals, Sequences

CONSTANTS RecFrames     \* frames of the window

ASSUME RecAssumption == RecFrames \in Nat

VARIABLES rec,       \* where the controller's record_window is
          capsule,   \* capture.json: state, and cleanup once terminal
          staging,   \* the staging directory: its members, or absent
          dest,      \* the bundle at the destination, or absent
          strays,    \* a bundle that could not be moved away from the destination
          sink,      \* the sink thread: what it wrote and how it ended
          pipe,      \* the producer's sink connection: frames not yet read
          prod,      \* the producer's recording
          clock,     \* the frame the machine is at
          answer     \* the answer of the record_window call

recVars == <<rec, capsule, staging, dest, strays, sink, pipe, prod, clock, answer>>

NoDir == [records |-> <<>>, owner |-> FALSE, manifest |-> FALSE, here |-> FALSE]
NoBundle == [here |-> FALSE]
NoAnswer == [kind |-> "none"]
Window == [i \in 1 .. RecFrames |-> i]

RecInit ==
  /\ rec \in {[step |-> "prepare", snapshot |-> s, report |-> NoAnswer, read |-> 0] : s \in BOOLEAN}
  /\ capsule = [state |-> "none", safe |-> FALSE]
  /\ staging = NoDir /\ dest = NoBundle /\ strays = FALSE
  /\ sink = [step |-> "none", lines |-> <<>>, truncated |-> FALSE, error |-> FALSE]
  /\ pipe = [lines |-> <<>>, open |-> FALSE, partial |-> FALSE]
  /\ prod = [step |-> "idle", dropped |-> 0, sent |-> 0, clean |-> TRUE]
  /\ clock = 0
  /\ answer = NoAnswer

RecAt(step) == rec.step = step
RecGo(step) == rec' = [rec EXCEPT !.step = step]
Ends(state, safe) == capsule' = [state |-> state, safe |-> safe]
RecQuiet == UNCHANGED <<dest, strays, sink, pipe, prod, clock, answer>>

-----------------------------------------------------------------------------
(* What a recording is worth: bundle/recording.rs *)

\* validate_recording: a producer that claims completion must be exact in
\* scope, counters and cleanup; anything less is lossy, or proves nothing.
Validate(records, r) ==
  LET complete == /\ r.outcome = "completed" /\ r.claimed = "complete"
                  /\ r.frames = RecFrames /\ r.final = RecFrames
                  /\ r.dropped = 0 /\ ~r.truncated
                  /\ r.events = Len(records) /\ Len(records) = r.frames
                  /\ r.clean /\ r.frozen
  IN IF complete THEN "complete"
     ELSE IF r.outcome = "completed" THEN "error"
     ELSE IF r.events # Len(records) \/ r.claimed = "unverifiable" \/ r.truncated \/ ~r.clean
          THEN "unverifiable" ELSE "lossy"

\* build_manifest: the counters of the bundle are those of its stream.
Manifest(records, r, snapshot) ==
  [here |-> TRUE, records |-> records, integrity |-> Validate(records, r), snapshot |-> snapshot,
   report |-> [r EXCEPT !.events = Len(records)]]

\* verify_published_recording_checked: the manifest is validated again with its
\* own integrity as the claim.
VerifiedBundle(b) ==
  /\ Validate(b.records, [b.report EXCEPT !.claimed = b.integrity]) = b.integrity
  /\ b.report.events = Len(b.records)

-----------------------------------------------------------------------------
(* The controller: live/recording.rs *)

\* Quarantine moves the staging directory, or what it has become; an error of it is ignored.
Quarantined == staging' \in {NoDir, staging}

\* RecordingStaging::prepare, the capsule with its owner marker, Arming.
Prepares ==
  /\ RecAt("prepare")
  /\ staging' = [NoDir EXCEPT !.here = TRUE, !.owner = TRUE]
  /\ Ends("arming", FALSE)
  /\ RecGo("arming")
  /\ RecQuiet

\* terminalize_setup_failure: nothing was dispatched, nothing is acquired.
SetupFails ==
  /\ rec.step \in {"arming", "armed"}
  /\ Ends("publication_failed", TRUE)
  /\ Quarantined
  /\ RecGo("done")
  /\ sink' = [sink EXCEPT !.step = "none"]
  /\ UNCHANGED <<dest, strays, pipe, prod, clock, answer>>

\* The event writer and the sink listener.
OpensSink ==
  /\ RecAt("arming")
  /\ sink' = [sink EXCEPT !.step = "reading"]
  /\ RecGo("armed")
  /\ UNCHANGED <<capsule, staging, dest, strays, pipe, prod, clock, answer>>

\* record_window is sent; the producer refuses it before it arms, or records.
Dispatches ==
  /\ RecAt("armed")
  /\ \/ answer' = [kind |-> "rejected"] /\ UNCHANGED <<prod, pipe>>
     \/ /\ prod' = [prod EXCEPT !.step = "recording", !.clean = FALSE]
        /\ pipe' = [pipe EXCEPT !.open = TRUE]
        /\ UNCHANGED answer
  /\ RecGo("calling")
  /\ UNCHANGED <<capsule, staging, dest, strays, sink, clock>>

\* The first progress arms the capsule; a progress of the recording phase
\* makes it recording.
Observes ==
  /\ RecAt("calling") /\ prod.step = "recording"
  /\ \/ capsule.state = "arming" /\ Ends("armed", FALSE)
     \/ capsule.state = "armed" /\ Ends("recording", FALSE)
  /\ UNCHANGED <<rec, staging>> /\ RecQuiet

\* The call returns: with the terminal, with the rejection, or because the
\* link failed, timed out or was cancelled, whatever the producer is doing.
CallEnds ==
  /\ RecAt("calling")
  /\ \/ answer # NoAnswer /\ UNCHANGED answer
     \/ answer' = [kind |-> "error"]
  /\ RecGo("closing")
  /\ UNCHANGED <<capsule, staging, dest, strays, sink, pipe, prod, clock>>

\* inferred_validation: without a terminal only a rejection before arming or
\* an exit of the emulator leaves nothing behind.
InferredClean(untouched) == (answer.kind = "rejected" /\ untouched) \/ prod.step = "exited"

Inferred ==
  [outcome |-> "failed", claimed |-> "unverifiable", frames |-> RecFrames,
   final |-> Len(sink.lines), dropped |-> RecFrames - Len(sink.lines), truncated |-> sink.truncated,
   events |-> Len(sink.lines), frozen |-> prod.step = "exited",
   clean |-> InferredClean(sink.lines = <<>> /\ ~sink.truncated)]

\* apply_sink_outcome.
Applied(r, outcome) ==
  IF ~outcome.truncated /\ ~outcome.error THEN r
  ELSE [r EXCEPT !.outcome = "failed", !.claimed = "unverifiable", !.truncated = r.truncated \/ outcome.truncated,
                 !.clean = r.clean /\ ~outcome.error]

\* SinkServer::finish or cancel_unarmed, then terminal_validation or what is
\* inferred, and Closing.  A sink that has not ended by its deadline is an
\* error; cancel_unarmed clears the error of a sink that received nothing.
Closes ==
  /\ RecAt("closing")
  /\ LET late == sink.step = "reading"
         outcome == [truncated |-> sink.truncated,
                     error |-> IF answer.kind = "rejected" THEN sink.error /\ sink.lines # <<>>
                               ELSE sink.error \/ late]
         report == IF answer.kind = "terminal" THEN answer.report ELSE Inferred IN
     /\ rec' = [rec EXCEPT !.step = IF rec.snapshot THEN "readout" ELSE "finalizing",
                           !.report = Applied(report, outcome)]
     /\ sink' = [sink EXCEPT !.step = "ended"]
  /\ Ends(IF rec.snapshot THEN "frozen_readout" ELSE "finalizing", FALSE)
  /\ UNCHANGED <<staging, dest, strays, pipe, prod, clock, answer>>

RecFails(safe) ==
  /\ Ends("publication_failed", safe)
  /\ Quarantined
  /\ RecGo("done")

CleanupSafe(r) == r.clean /\ (r.frozen \/ answer.kind = "rejected")

\* verify_terminal_snapshot_boundary.
BoundaryHolds == prod.step = "ended" /\ clock = rec.report.final

\* The readout asks for a complete frozen recording first.
StartsReadout ==
  /\ RecAt("readout")
  /\ IF /\ answer.kind = "terminal" /\ sink.lines # <<>> /\ rec.report.outcome = "completed"
        /\ rec.report.claimed = "complete" /\ rec.report.frozen /\ BoundaryHolds
     THEN RecGo("reading") /\ UNCHANGED <<capsule, staging>>
     ELSE RecFails(CleanupSafe(rec.report))
  /\ RecQuiet

\* read_memory, while a person may resume the machine.
ReadsMemory ==
  /\ RecAt("reading")
  /\ rec' = [rec EXCEPT !.step = "recheck", !.read = clock]
  /\ UNCHANGED <<capsule, staging>> /\ RecQuiet

RechecksNothing ==
  /\ RecAt("recheck")
  /\ RecGo("finalizing") /\ Ends("finalizing", FALSE) /\ UNCHANGED staging
  /\ RecQuiet

Rechecks ==
  /\ RecAt("recheck")
  /\ IF BoundaryHolds THEN RecGo("finalizing") /\ Ends("finalizing", FALSE) /\ UNCHANGED staging
     ELSE RecFails(CleanupSafe(rec.report))
  /\ RecQuiet

Publishable == ~dest.here /\ Validate(sink.lines, rec.report) # "error"

\* A recording with no frame is not published; try_publish validates the
\* members and writes the manifest, or fails and quarantines.
WritesManifest ==
  /\ RecAt("finalizing")
  /\ \/ /\ sink.lines # <<>> /\ Publishable
        /\ staging' = [staging EXCEPT !.manifest = TRUE, !.records = sink.lines]
        /\ RecGo("manifest") /\ UNCHANGED capsule
     \/ RecFails(CleanupSafe(rec.report))
  /\ RecQuiet

\* The owner marker is no member of the bundle: it goes before the rename.
Unmarks ==
  /\ RecAt("manifest")
  /\ \/ /\ staging' = [staging EXCEPT !.owner = FALSE]
        /\ RecGo("unmarked") /\ UNCHANGED capsule
     \/ RecFails(CleanupSafe(rec.report))
  /\ RecQuiet

Renames ==
  /\ RecAt("unmarked")
  /\ \/ /\ ~dest.here
        /\ dest' = Manifest(staging.records, rec.report, rec.read)
        /\ staging' = NoDir
        /\ RecGo("renamed") /\ UNCHANGED capsule
     \/ RecFails(CleanupSafe(rec.report)) /\ UNCHANGED dest
  /\ UNCHANGED <<strays, sink, pipe, prod, clock, answer>>

\* The sync of the output root.  When it fails the bundle, already at its
\* destination, is moved away again, if that can be done.
Syncs ==
  /\ RecAt("renamed")
  /\ \/ RecGo("published") /\ UNCHANGED <<capsule, dest, strays>>
     \/ /\ \/ dest' = NoBundle /\ UNCHANGED strays
           \/ strays' = TRUE /\ UNCHANGED dest
        /\ Ends("publication_failed", CleanupSafe(rec.report)) /\ RecGo("done")
  /\ UNCHANGED <<staging, sink, pipe, prod, clock, answer>>

\* finish_published.
FinishesPublished ==
  /\ RecAt("published")
  /\ Ends("published", CleanupSafe(dest.report))
  /\ RecGo("done")
  /\ UNCHANGED staging /\ RecQuiet

\* The controller dies; its sink dies with it.
RecorderDies ==
  /\ rec.step \notin {"prepare", "done"}
  /\ RecGo("dead")
  /\ sink' = [sink EXCEPT !.step = "ended"]
  /\ UNCHANGED <<capsule, staging, dest, strays, pipe, prod, clock, answer>>

\* reconcile_abandoned_capture, by the next holder of the lease: a verified
\* bundle is published; else the adapter's cleanup or the exit of the
\* generation must be proven, and a staging directory must carry its marker.
Reconciles ==
  /\ RecAt("dead")
  /\ \/ /\ dest.here /\ VerifiedBundle(dest)
        /\ Ends("published", CleanupSafe(dest.report))
        /\ UNCHANGED staging
     \/ /\ ~dest.here
        /\ prod.step \in {"ended", "exited"}
        /\ prod.clean \/ prod.step = "exited"
        /\ staging.here => staging.owner
        /\ Ends("publication_failed", TRUE)
        /\ staging' = NoDir
  /\ RecGo("done")
  /\ RecQuiet

-----------------------------------------------------------------------------
(* The sink thread: live/recording_sink.rs *)

SinkReads ==
  /\ sink.step = "reading" /\ pipe.lines # <<>>
  /\ pipe' = [pipe EXCEPT !.lines = Tail(@)]
  /\ sink' \in {[sink EXCEPT !.lines = Append(@, Head(pipe.lines))],
                [sink EXCEPT !.step = "ended", !.error = TRUE]}
  /\ UNCHANGED <<rec, capsule, staging, dest, strays, prod, clock, answer>>

SinkEof ==
  /\ sink.step = "reading" /\ prod.step # "idle" /\ ~pipe.open /\ pipe.lines = <<>>
  /\ sink' = [sink EXCEPT !.step = "ended", !.truncated = pipe.partial]
  /\ UNCHANGED <<rec, capsule, staging, dest, strays, pipe, prod, clock, answer>>

-----------------------------------------------------------------------------
(* The producer, external: it counts exactly what it wrote, answers once its *)
(* hooks are released, and never answers an error after it has armed.        *)

ProdFrame ==
  /\ prod.step = "recording" /\ clock < RecFrames
  /\ clock' = clock + 1
  /\ \/ /\ pipe.open
        /\ pipe' = [pipe EXCEPT !.lines = Append(@, clock + 1)]
        /\ prod' = [prod EXCEPT !.sent = @ + 1]
     \/ prod' = [prod EXCEPT !.dropped = @ + 1] /\ UNCHANGED pipe
     \/ /\ pipe.open
        /\ pipe' = [pipe EXCEPT !.open = FALSE, !.partial = TRUE]
        /\ prod' = [prod EXCEPT !.sent = @ + 1]
  /\ UNCHANGED <<rec, capsule, staging, dest, strays, sink, answer>>

ProdEnds ==
  /\ prod.step = "recording"
  /\ prod' = [prod EXCEPT !.step = "ended", !.clean = TRUE]
  /\ pipe' = [pipe EXCEPT !.open = FALSE]
  /\ \E outcome \in {"completed", "failed"}, claimed \in {"complete", "lossy"} :
       answer' = [kind |-> "terminal",
                  report |-> [outcome |-> outcome, claimed |-> claimed, frames |-> clock, final |-> clock,
                              dropped |-> prod.dropped, truncated |-> FALSE, events |-> prod.sent,
                              frozen |-> TRUE, clean |-> TRUE]]
  /\ UNCHANGED <<rec, capsule, staging, dest, strays, sink, clock>>

EmulatorExits ==
  /\ prod.step \in {"recording", "ended"}
  /\ prod' = [prod EXCEPT !.step = "exited"]
  /\ pipe' = [pipe EXCEPT !.open = FALSE]
  /\ UNCHANGED <<rec, capsule, staging, dest, strays, sink, clock, answer>>

\* Someone resumes the frozen machine.
Resumes ==
  /\ prod.step = "ended" /\ clock <= RecFrames
  /\ clock' = clock + 1
  /\ UNCHANGED <<rec, capsule, staging, dest, strays, sink, pipe, prod, answer>>

RecNext ==
  \/ Prepares \/ SetupFails \/ OpensSink \/ Dispatches \/ Observes \/ CallEnds \/ Closes
  \/ StartsReadout \/ ReadsMemory \/ Rechecks \/ WritesManifest \/ Unmarks \/ Renames \/ Syncs
  \/ FinishesPublished \/ RecorderDies \/ Reconciles \/ SinkReads \/ SinkEof
  \/ ProdFrame \/ ProdEnds \/ EmulatorExits \/ Resumes

RecSpec == RecInit /\ [][RecNext]_recVars

-----------------------------------------------------------------------------
\* A bundle at the destination verifies, so a later reconciliation accepts it;
\* one that is complete holds every frame of the window in order, whatever the
\* producer claimed and however the connection ended (bundle/recording.rs:330),
\* and its memory snapshot was read at the boundary where the window ended.
RecordingHonest ==
  dest.here => /\ VerifiedBundle(dest)
               /\ dest.integrity = "complete" =>
                    /\ dest.records = Window
                    /\ rec.snapshot => dest.snapshot = RecFrames

\* A capsule that says published has its bundle, one that says the publication
\* failed has none, unless it could not be moved away; and a capsule that
\* lets the generation be changed again (generation_mutation_blocker) is only
\* written once the producer no longer records.
CapsuleHonest ==
  /\ capsule.state = "published" => dest.here
  /\ capsule.state = "publication_failed" => ~dest.here \/ strays
  /\ capsule.state \in {"published", "publication_failed"} /\ capsule.safe => prod.step # "recording"

\* What a recording answers, and what its capsule says of cleanup, is true of the
\* bundle and of the producer (record_window, bundle/publish.rs, capture_capsule).
RecordingSound == RecordingHonest /\ CapsuleHonest
=============================================================================
