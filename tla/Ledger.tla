-------------------------------- MODULE Ledger --------------------------------
(***************************************************************************)
(* The tracking ledger (emucap-track-mcp): experiment runs kept as one     *)
(* run.json each, read, changed and rewritten whole by every logging tool. *)
(*                                                                         *)
(* One server process owns the ledger; its tools take transaction_gate, so *)
(* a tool is one step here, except log_artifact, whose hashing worker runs *)
(* beside the cancelled request.  A write may fail, the process may die    *)
(* after the rename and before the answer, and a record may be damaged.    *)
(* A run is named by its position in creation order, the order its ULID    *)
(* and its started_at give it.                                             *)
(***************************************************************************)
EXTENDS Integers, Sequences, FiniteSets, FiniteSetsExt

CONSTANTS Roms, Conns,          \* rom_sha1 and connection_ref values
          MaxRuns, MaxItems,    \* bounds: runs created, things logged
          MaxLedFaults,         \* bound: failed writes and damaged records
          ScanLimit             \* MAX_SCAN_RECORDS: runs a scan admits

ASSUME LedAssumption == MaxRuns \in Nat /\ "none" \notin Conns

VARIABLES ledRuns,      \* run.json of every run, in creation order
          ledFindings,  \* the ids that have a findings/<id>.json
          ledServer,    \* the server process: active_run, gate, hash worker
          ledAcked,     \* history: what the agent was told is stored
          ledEnded,     \* history: the status the agent last gave a run
          ledNext,      \* the next id
          ledFaults     \* faults so far

ledVars == <<ledRuns, ledFindings, ledServer, ledAcked, ledEnded, ledNext, ledFaults>>

NoRun == 0
NoWorker == [run |-> NoRun]
Down == [up |-> FALSE, active |-> NoRun, gate |-> "free", worker |-> NoWorker]
Up == [Down EXCEPT !.up = TRUE]
Ids == DOMAIN ledRuns
EndStatuses == {"done", "aborted"}      \* "error" differs in its name only

LedInit ==
    /\ ledRuns = <<>>
    /\ ledFindings = {}
    /\ ledServer = Up
    /\ ledAcked = {}
    /\ ledEnded = [r \in 1..MaxRuns |-> "none"]
    /\ ledNext = 1
    /\ ledFaults = 0

(***************************************************************************)
(* The store.                                                              *)
(***************************************************************************)
\* The replay status a run's interventions leave it.
DeriveStatus(items) ==
    IF \E i \in items : i.kind = "load_state" THEN "savestate_only"
    ELSE "replayable_with_interventions"

NewRun(rom, conn) ==
    [sound |-> TRUE, rom |-> rom, conn |-> conn, status |-> "running",
     items |-> {}, repro |-> DeriveStatus({})]

\* A record that does not read back tells nothing about its run.
Unreadable == [NewRun("none", "none") EXCEPT !.sound = FALSE]

\* A record that reads back: regular file, JSON, the identity its path gives.
Readable(r) == ledRuns[r].sound

\* The scans.  The strict one fails on the first unreadable record.
ScanAdmitted == Len(ledRuns) <= ScanLimit
WalkRuns == IF \A r \in Ids : Readable(r) THEN Ids ELSE {}
WalkRunsLenient == {r \in Ids : Readable(r)}

RunningOf(scan, conn) ==
    {r \in scan : ledRuns[r].status = "running" /\ ledRuns[r].conn = conn}

\* finish_run on every run of the set whose record can be read.
RunFinished(set, status) ==
    [r \in Ids |-> IF r \in set /\ Readable(r)
                   THEN [ledRuns[r] EXCEPT !.status = status] ELSE ledRuns[r]]

\* A failed temporary write, sync or rename: the record stays as it was.
WriteFails == ledFaults < MaxLedFaults /\ ledFaults' = ledFaults + 1
NoFault == UNCHANGED ledFaults

(***************************************************************************)
(* Logging on the active run.                                              *)
(***************************************************************************)
GateFree == ledServer.up /\ ledServer.gate = "free"

Kinds == {"metric", "load_state", "base"}

\* set_reproduction replaces what it set before; everything else appends.
WithItem(run, item) ==
    LET kept == IF item.kind = "base" THEN {i \in run.items : i.kind # "base"} ELSE run.items
        all == kept \union {item}
    IN [run EXCEPT !.items = all,
                   !.repro = IF item.kind \in {"load_state", "base"} THEN DeriveStatus(all) ELSE @]

Acked(r, item) ==
    {a \in ledAcked : ~(a.run = r /\ a.item.kind = "base" /\ item.kind = "base")}
        \union {[run |-> r, item |-> item]}

\* Load, push, save; the answer, or the death of the process before it.
LogItem(kind) ==
    /\ GateFree /\ ledServer.active # NoRun /\ ledNext <= MaxItems
    /\ LET r == ledServer.active
           item == [id |-> ledNext, kind |-> kind]
       IN /\ Readable(r)
          /\ ledNext' = ledNext + 1
          /\ \/ /\ ledRuns' = [ledRuns EXCEPT ![r] = WithItem(@, item)]
                /\ NoFault
                /\ \/ ledAcked' = Acked(r, item) /\ UNCHANGED ledServer
                   \/ ledServer' = Down
                      /\ ledAcked' = IF kind = "base" THEN Acked(r, item) \ {[run |-> r, item |-> item]}
                                     ELSE ledAcked
             \/ WriteFails /\ UNCHANGED <<ledRuns, ledAcked, ledServer>>
    /\ UNCHANGED <<ledFindings, ledEnded>>

\* A finding has a file of its own, under an id nobody used.
LogFinding ==
    /\ GateFree /\ ledNext <= MaxItems
    /\ ledNext' = ledNext + 1
    /\ \/ /\ ledFindings' = ledFindings \union {ledNext}
          /\ ledAcked' = ledAcked \union {[run |-> NoRun, item |-> [id |-> ledNext, kind |-> "finding"]]}
          /\ NoFault
       \/ WriteFails /\ UNCHANGED <<ledFindings, ledAcked>>
    /\ UNCHANGED <<ledRuns, ledServer, ledEnded>>

\* log_artifact: the record is read first, the file is hashed by a worker that
\* owns the gate, and the record read before the hash is pushed to and saved.
ArtifactStart ==
    /\ GateFree /\ ledServer.active # NoRun /\ ledNext <= MaxItems
    /\ Readable(ledServer.active)
    /\ ledServer' = [ledServer EXCEPT !.gate = "held",
           !.worker = [run |-> ledServer.active, copy |-> ledRuns[ledServer.active],
                       id |-> ledNext, asked |-> TRUE]]
    /\ ledNext' = ledNext + 1
    /\ UNCHANGED <<ledRuns, ledFindings, ledAcked, ledEnded, ledFaults>>

\* The request is cancelled: the worker keeps the gate it owns.
CancelledGateUnlocks(server) == [server EXCEPT !.worker.asked = FALSE, !.gate = "free"]

CancelledGate(server) == [server EXCEPT !.worker.asked = FALSE]

ArtifactCancel ==
    /\ ledServer.worker.run # NoRun /\ ledServer.worker.asked
    /\ ledServer' = CancelledGate(ledServer)
    /\ UNCHANGED <<ledRuns, ledFindings, ledAcked, ledEnded, ledNext, ledFaults>>

ArtifactEnd ==
    /\ ledServer.worker.run # NoRun
    /\ LET w == ledServer.worker
           item == [id |-> w.id, kind |-> "artifact"]
       IN \/ /\ ledRuns' = [ledRuns EXCEPT ![w.run] = WithItem(w.copy, item)]
             /\ ledAcked' = IF w.asked THEN Acked(w.run, item) ELSE ledAcked
             /\ NoFault
          \/ WriteFails /\ UNCHANGED <<ledRuns, ledAcked>>
    /\ ledServer' = [ledServer EXCEPT !.gate = "free", !.worker = NoWorker]
    /\ UNCHANGED <<ledFindings, ledEnded, ledNext>>

(***************************************************************************)
(* The life of a run.                                                      *)
(***************************************************************************)
\* Another active run is superseded; a failure to say so on disk is ignored.
Rebind(r) ==
    LET prev == ledServer.active
    IN /\ \/ /\ ledRuns' = RunFinished(IF prev \in {NoRun, r} THEN {} ELSE {prev}, "aborted")
             /\ NoFault
          \/ prev \notin {NoRun, r} /\ WriteFails /\ UNCHANGED ledRuns
       /\ ledServer' = [ledServer EXCEPT !.active = r]
       /\ UNCHANGED <<ledFindings, ledAcked, ledEnded, ledNext>>

\* find_resumable_run: the newest running run of the connection and the ROM.
Resumable(rom, conn) ==
    {r \in RunningOf(WalkRunsLenient, conn) : ledRuns[r].rom = rom}

StartResumes(rom, conn) ==
    /\ GateFree /\ conn # "none" /\ ScanAdmitted
    /\ Resumable(rom, conn) # {}
    /\ Rebind(Max(Resumable(rom, conn)))

\* The runs prepare_start_run finds to supersede.
Stale(conn) == IF conn = "none" THEN {} ELSE RunningOf(WalkRuns, conn)

\* What a new run ends first.
Superseded(conn) == ({ledServer.active} \ {NoRun}) \union Stale(conn)

\* A new run: the active run is let go and aborted, then the stale ones up to
\* the first failure, then the record is created.  Any of the writes may fail.
StartCreates(rom, conn) ==
    /\ GateFree /\ Len(ledRuns) < MaxRuns
    /\ conn # "none" => ScanAdmitted /\ Resumable(rom, conn) = {}
    /\ \/ /\ ledRuns' = Append(RunFinished(Superseded(conn), "aborted"), NewRun(rom, conn))
          /\ NoFault
          /\ \/ ledServer' = [ledServer EXCEPT !.active = Len(ledRuns) + 1]
             \/ ledServer' = Down
       \/ /\ WriteFails
          /\ \E closed \in SUBSET Superseded(conn) :
               \/ /\ ledRuns' = Append(RunFinished(closed, "aborted"), NewRun(rom, conn))
                  /\ ledServer' = [ledServer EXCEPT !.active = Len(ledRuns) + 1]
               \/ /\ ledRuns' = RunFinished(closed, "aborted")
                  /\ ledServer' = [ledServer EXCEPT !.active = NoRun]
    /\ UNCHANGED <<ledFindings, ledAcked, ledEnded, ledNext>>

RunResume(r) ==
    /\ GateFree /\ Readable(r) /\ ledRuns[r].status = "running"
    /\ Rebind(r)

\* run_finish: by id whatever its status, or the active run; an active run that
\* is finished is let go of.
LetGo(active, r) == IF active = r THEN NoRun ELSE active

RunFinish(r, status) ==
    /\ GateFree /\ Readable(r)
    /\ \/ /\ ledRuns' = RunFinished({r}, status)
          /\ NoFault
          /\ \/ /\ ledServer' = [ledServer EXCEPT !.active = LetGo(@, r)]
                /\ ledEnded' = [ledEnded EXCEPT ![r] = status]
             \/ ledServer' = Down /\ ledEnded' = [ledEnded EXCEPT ![r] = "none"]
       \/ WriteFails /\ UNCHANGED <<ledRuns, ledServer, ledEnded>>
    /\ UNCHANGED <<ledFindings, ledAcked, ledNext>>

(***************************************************************************)
(* The environment.                                                        *)
(***************************************************************************)
ServerDies ==
    /\ ledServer.up
    /\ ledServer' = Down
    /\ UNCHANGED <<ledRuns, ledFindings, ledAcked, ledEnded, ledNext, ledFaults>>

ServerStarts ==
    /\ ~ledServer.up
    /\ ledServer' = Up
    /\ UNCHANGED <<ledRuns, ledFindings, ledAcked, ledEnded, ledNext, ledFaults>>

\* Somebody edits or truncates a run.json.
Damage(r) ==
    /\ Readable(r) /\ WriteFails
    /\ ledRuns' = [ledRuns EXCEPT ![r] = Unreadable]
    /\ UNCHANGED <<ledFindings, ledServer, ledAcked, ledEnded, ledNext>>

LedNext ==
    \/ \E kind \in Kinds : LogItem(kind)
    \/ LogFinding
    \/ ArtifactStart \/ ArtifactCancel \/ ArtifactEnd
    \/ \E rom \in Roms, conn \in Conns \union {"none"} :
          StartResumes(rom, conn) \/ StartCreates(rom, conn)
    \/ \E r \in Ids : RunResume(r) \/ Damage(r)
    \/ \E r \in Ids, status \in EndStatuses : RunFinish(r, status)
    \/ ServerDies \/ ServerStarts

LedSpec == LedInit /\ [][LedNext]_ledVars

(***************************************************************************)
(* Properties.                                                             *)
(***************************************************************************)
\* Whatever the agent was told is stored stays in the ledger: every answered
\* log call is in its run's record (or has its finding file), a load_state it
\* reported keeps the run from being called replayable, and a status it gave a
\* run is never replaced by a later supersession.
LedgerKept ==
    /\ \A a \in ledAcked :
          IF a.run = NoRun THEN a.item.id \in ledFindings
          ELSE Readable(a.run) =>
                 /\ a.item \in ledRuns[a.run].items
                 /\ a.item.kind = "load_state" => ledRuns[a.run].repro = "savestate_only"
    /\ \A r \in Ids : ledEnded[r] # "none" /\ Readable(r) => ledRuns[r].status = ledEnded[r]

\* The run that log calls go to is one the ledger still calls running, and as
\* long as no write failed and no record was damaged a connection has one
\* running run at most.
ActiveIsRunning ==
    /\ ledServer.active # NoRun /\ Readable(ledServer.active)
         => ledRuns[ledServer.active].status = "running"
    /\ ledFaults = 0 =>
         \A c \in Conns : Cardinality(RunningOf(Ids, c)) <= 1

\* Nothing the agent was told is stored gets lost, and the active run is a running
\* one (emucap-track-mcp, track/ops.rs).
LedgerSound == LedgerKept /\ ActiveIsRunning
===============================================================================
