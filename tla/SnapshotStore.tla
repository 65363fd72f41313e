--------------------------- MODULE SnapshotStore ---------------------------
(* One key of the snapshot store (live/snapshot_store.rs) and the tools that *)
(* save under it and verify it (live/snapshot.rs): the key's directory is    *)
(* created once, locked while it is used, and every outcome that a caller is *)
(* told is derived from what is on the disk.  Savers may die at any step.    *)
EXTENDS Naturals

CONSTANTS Savers,      \* calls of save_state with this key
          MaxMoves     \* bound: times the machine leaves its halt

ASSUME SnapAssumption == "free" \notin Savers

VARIABLES snapDir,     \* the key's directory exists
          snapLock,    \* the saver that holds its lock file, or "free"
          snapReq,     \* request.json
          snapStage,   \* the staging directory
          snapPub,     \* the published directory
          snapTerm,    \* terminal.json: receipt_issued of the outcome written
          snapCopy,    \* destination -> the exported bytes
          saver,       \* saver -> its step, its arguments and what it captured
          snapHalt,    \* the halt the producer is at, which a person may leave
          serialized,  \* number of native serializations under this key
          told         \* values of receipt_issued that callers were given

snapVars == <<snapDir, snapLock, snapReq, snapStage, snapPub, snapTerm, snapCopy, saver,
              snapHalt, serialized, told>>

NoSnap == [id |-> "none"]
Destinations == {"here", "there"}

SnapInit ==
  /\ snapDir = FALSE /\ snapLock = "free"
  /\ snapReq = NoSnap /\ snapStage = NoSnap /\ snapPub = NoSnap
  /\ snapTerm = "none"
  /\ snapCopy = [d \in Destinations |-> NoSnap]
  /\ saver \in [Savers -> {[step |-> "open", to |-> d, fresh |-> FALSE, got |-> NoSnap, answer |-> "none"] :
                           d \in Destinations}]
  /\ snapHalt = 0
  /\ serialized = 0
  /\ told = {}

SnapAt(s, step) == saver[s].step = step
SnapStep(s, step) == saver' = [saver EXCEPT ![s].step = step]
SnapTell(s, answer) == /\ saver' = [saver EXCEPT ![s].step = "done", ![s].answer = answer]
                   /\ told' = told \cup {answer}
SnapFiles == <<snapDir, snapReq, snapStage, snapPub, snapTerm, snapCopy>>

\* try_lock_exclusive on the key's lock file.
LockFree == snapLock = "free"

\* Store::acquire: what is published, provided it is for the reserved request.
Acquires == snapPub # NoSnap /\ snapReq # NoSnap /\ snapPub.id = snapReq.id

\* observe(): what a caller that holds the lock is told of the key.
Observed ==
  IF snapReq = NoSnap THEN "unknown"
  ELSE IF snapPub = NoSnap THEN IF snapTerm # "none" THEN snapTerm ELSE "unissued"
  ELSE IF Acquires THEN "issued" ELSE "error"

-----------------------------------------------------------------------------
(* save_with_cancellation *)

\* The existing key is observed, never written again; a request for another
\* destination conflicts with it.
ObserveExisting(s) ==
  SnapTell(s, IF snapReq = NoSnap \/ snapReq.to # saver[s].to THEN "error" ELSE Observed)

\* Store::open(create = false).
SaveOpens(s) ==
  /\ SnapAt(s, "open")
  /\ IF ~snapDir THEN SnapStep(s, "prepared") /\ UNCHANGED told
     ELSE IF LockFree THEN ObserveExisting(s) ELSE SnapTell(s, "error")
  /\ UNCHANGED <<SnapFiles, snapLock, snapHalt, serialized>>

\* Export::prepare, then the directory, which only one saver creates.
SaveCreates(s) ==
  /\ SnapAt(s, "prepared")
  /\ \/ /\ saver' = [saver EXCEPT ![s].step = "locking", ![s].fresh = ~snapDir]
        /\ snapDir' = TRUE
        /\ UNCHANGED told
     \/ SnapTell(s, "error") /\ UNCHANGED snapDir
  /\ UNCHANGED <<snapLock, snapReq, snapStage, snapPub, snapTerm, snapCopy, snapHalt, serialized>>

SaveLocksAnyway(s) ==
  /\ SnapAt(s, "locking")
  /\ IF LockFree THEN snapLock' = s /\ SnapStep(s, "locked") /\ UNCHANGED told
     ELSE SnapTell(s, "error") /\ UNCHANGED snapLock
  /\ UNCHANGED <<SnapFiles, snapHalt, serialized>>

SaveLocks(s) ==
  /\ SnapAt(s, "locking")
  /\ IF ~LockFree THEN SnapTell(s, "error") /\ UNCHANGED snapLock
     ELSE IF ~saver[s].fresh THEN ObserveExisting(s) /\ UNCHANGED snapLock
     ELSE snapLock' = s /\ SnapStep(s, "locked") /\ UNCHANGED told
  /\ UNCHANGED <<SnapFiles, snapHalt, serialized>>

\* The request is on the disk before the producer is asked to serialize.
SaveReserves(s) ==
  /\ SnapAt(s, "locked")
  /\ snapReq' = [id |-> s, to |-> saver[s].to]
  /\ SnapStep(s, "reserved")
  /\ UNCHANGED <<snapDir, snapLock, snapStage, snapPub, snapTerm, snapCopy, snapHalt, serialized, told>>

\* get_rom_info and capture_snapshot; budget.check and the link fail anywhere.
SaveCaptures(s) ==
  /\ SnapAt(s, "reserved")
  /\ \/ /\ saver' = [saver EXCEPT ![s].step = "captured", ![s].got = [id |-> s, halt |-> snapHalt]]
        /\ serialized' = serialized + 1
     \/ /\ SnapStep(s, "failed")
        /\ serialized' \in {serialized, serialized + 1}
  /\ UNCHANGED <<SnapFiles, snapLock, snapHalt, told>>

\* check_boundary: the producer is still at the halt of the receipt.
CheckBoundary(s, then) ==
  \/ snapHalt = saver[s].got.halt /\ SnapStep(s, then)
  \/ SnapStep(s, "failed")

SaveChecks(s) ==
  /\ SnapAt(s, "captured")
  /\ CheckBoundary(s, "checked")
  /\ UNCHANGED <<SnapFiles, snapLock, snapHalt, serialized, told>>

\* Store::publish, up to the rename.  A staging directory that a dead saver
\* left makes it fail; so may any write, which removes the directory again.
SaveStages(s) ==
  /\ SnapAt(s, "checked")
  /\ \/ snapStage = NoSnap /\ snapStage' = saver[s].got /\ SnapStep(s, "staged")
     \/ SnapStep(s, "failed") /\ UNCHANGED snapStage
  /\ UNCHANGED <<snapDir, snapLock, snapReq, snapPub, snapTerm, snapCopy, snapHalt, serialized, told>>

\* The rename and the sync of the parent, whose failure takes nothing back.
SaveRenames(s) ==
  /\ SnapAt(s, "staged")
  /\ \/ snapPub' = snapStage /\ saver' \in {[saver EXCEPT ![s].step = x] : x \in {"published", "failed"}}
     \/ snapPub' = snapPub /\ SnapStep(s, "failed")
  /\ snapStage' = NoSnap
  /\ UNCHANGED <<snapDir, snapLock, snapReq, snapTerm, snapCopy, snapHalt, serialized, told>>

\* Export::publish through the retained parent.
SaveExports(s) ==
  /\ SnapAt(s, "published")
  /\ \/ snapCopy' = [snapCopy EXCEPT ![saver[s].to] = saver[s].got] /\ SnapStep(s, "exported")
     \/ SnapStep(s, "failed") /\ UNCHANGED snapCopy
  /\ UNCHANGED <<snapDir, snapLock, snapReq, snapStage, snapPub, snapTerm, snapHalt, serialized, told>>

SaveRechecks(s) ==
  /\ SnapAt(s, "exported")
  /\ CheckBoundary(s, "completed")
  /\ UNCHANGED <<SnapFiles, snapLock, snapHalt, serialized, told>>

\* receipt_issued of a failed save is read back from the store; the outcome is
\* written last, and a save whose outcome cannot be written answers an error.
SaveTerminates(s) ==
  /\ saver[s].step \in {"completed", "failed"}
  /\ LET issued == IF SnapAt(s, "completed") \/ Acquires THEN "issued"
                   ELSE IF snapPub # NoSnap THEN "unknown" ELSE "unissued" IN
     \/ snapTerm' = issued /\ SnapTell(s, issued)
     \/ SnapTell(s, "error") /\ UNCHANGED snapTerm
  /\ snapLock' = "free"
  /\ UNCHANGED <<snapDir, snapReq, snapStage, snapPub, snapCopy, snapHalt, serialized>>

\* The process dies; the system drops its lock and keeps its files.
SaverDies(s) ==
  /\ ~SnapAt(s, "done")
  /\ SnapStep(s, "done")
  /\ snapLock' = IF snapLock = s THEN "free" ELSE snapLock
  /\ UNCHANGED <<SnapFiles, snapHalt, serialized, told>>

\* verify_in_store: snapshot_receipt.
Verify ==
  /\ snapDir /\ LockFree
  /\ told' = told \cup {Observed}
  /\ UNCHANGED <<SnapFiles, snapLock, saver, snapHalt, serialized>>

MachineMoves ==
  /\ snapHalt < MaxMoves
  /\ snapHalt' = snapHalt + 1
  /\ UNCHANGED <<SnapFiles, snapLock, saver, serialized, told>>

SnapNext ==
  \/ \E s \in Savers : \/ SaveOpens(s) \/ SaveCreates(s) \/ SaveLocks(s) \/ SaveReserves(s)
                       \/ SaveCaptures(s) \/ SaveChecks(s) \/ SaveStages(s) \/ SaveRenames(s)
                       \/ SaveExports(s) \/ SaveRechecks(s) \/ SaveTerminates(s) \/ SaverDies(s)
  \/ Verify
  \/ MachineMoves

SnapSpec == SnapInit /\ [][SnapNext]_snapVars

-----------------------------------------------------------------------------
\* A key is serialized at most once, whichever savers race for it or die, and
\* what callers were told of it stays true: no receipt appears after one was
\* told that none was issued (snapshot.rs:169), none disappears, and what was
\* exported is what was published.
SnapshotKept ==
  /\ serialized <= 1
  /\ "unissued" \in told => snapPub = NoSnap
  /\ "issued" \in told => Acquires
  /\ \A d \in Destinations : snapCopy[d] # NoSnap => snapCopy[d] = snapPub /\ snapReq.to = d
=============================================================================
