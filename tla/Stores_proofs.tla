---------------------------- MODULE Stores_proofs ----------------------------
(***************************************************************************)
(* Proofs about what the host keeps on disk: a key of the snapshot store,  *)
(* a recording with its bundle and its capsule, and the tracking ledger.   *)
(***************************************************************************)
EXTENDS SnapshotStore, Recording, Ledger, FiniteSetTheorems, SequenceTheorems, WellFoundedInduction,
        TLAPS

-----------------------------------------------------------------------------
(* The snapshot store *)

SnapSteps == {"open", "prepared", "locking", "locked", "reserved", "captured", "checked", "staged",
              "published", "exported", "completed", "failed", "done"}

\* The steps of a saver that holds the lock of the key, and those at which it has
\* what it captured.
Holding == {"locked", "reserved", "captured", "checked", "staged", "published", "exported",
            "completed", "failed"}
WithCapture == {"captured", "checked", "staged", "published", "exported", "completed"}

Snaps == {NoSnap} \cup [id : Savers, halt : Nat]

SnapTypeOK ==
    /\ snapDir \in BOOLEAN /\ snapLock \in Savers \cup {"free"}
    /\ snapReq \in {NoSnap} \cup [id : Savers, to : Destinations]
    /\ snapStage \in Snaps /\ snapPub \in Snaps
    /\ snapTerm \in {"none", "issued", "unissued", "unknown"}
    /\ snapCopy \in [Destinations -> Snaps]
    /\ saver \in [Savers -> [step : SnapSteps, to : Destinations, fresh : BOOLEAN, got : Snaps,
                             answer : {"none", "error", "issued", "unissued", "unknown"}]]
    /\ snapHalt \in Nat /\ serialized \in Nat

\* The saver that created the directory and has not come to an end yet is the only
\* one that writes under the key.
Writing(s) == saver[s].fresh /\ saver[s].step \in Holding \cup {"locking"}

OneCreator == \A s, t \in Savers : saver[s].fresh /\ saver[t].fresh => s = t

\* Nobody was told of a receipt, or of the lack of one.
NothingTold == {"issued", "unissued"} \cap told = {}

SaverOK(s) ==
    /\ saver[s].step \in {"open", "prepared"} => ~saver[s].fresh
    /\ saver[s].fresh => snapDir
    /\ saver[s].step \in Holding => saver[s].fresh
    /\ (saver[s].step \in Holding) <=> (snapLock = s)
    /\ Writing(s) => NothingTold /\ snapTerm = "none"
    /\ Writing(s) /\ saver[s].step \in {"locking", "locked"} => snapReq = NoSnap
    /\ saver[s].step \in Holding \ {"locked"} => snapReq = [id |-> s, to |-> saver[s].to]
    /\ saver[s].step = "reserved" => serialized = 0
    /\ saver[s].step \in WithCapture => saver[s].got # NoSnap /\ saver[s].got.id = s
    /\ saver[s].step \in {"reserved", "captured", "checked", "staged"} => snapPub = NoSnap
    /\ saver[s].step = "staged" => snapStage = saver[s].got
    /\ saver[s].step \in {"published", "exported", "completed"} => snapPub = saver[s].got

KeyOK ==
    /\ ~snapDir => snapReq = NoSnap
    /\ snapReq = NoSnap => snapPub = NoSnap /\ serialized = 0 /\ NothingTold /\ snapTerm = "none"
    /\ snapPub # NoSnap => Acquires
    /\ serialized <= 1
    /\ snapTerm = "unissued" => snapPub = NoSnap
    /\ snapTerm = "issued" => snapPub # NoSnap
    /\ "unissued" \in told => snapPub = NoSnap
    /\ "issued" \in told => snapPub # NoSnap
    /\ \A d \in Destinations : snapCopy[d] # NoSnap => snapCopy[d] = snapPub /\ snapReq.to = d

SnapInv == SnapTypeOK /\ OneCreator /\ KeyOK /\ \A s \in Savers : SaverOK(s)

SaverRecord == [step : SnapSteps, to : Destinations, fresh : BOOLEAN, got : Snaps,
                answer : {"none", "error", "issued", "unissued", "unknown"}]

\* A request and a capture are something.
LEMMA SomethingSnapped ==
    ASSUME NEW s, NEW x
    PROVE  [id |-> s, to |-> x] # NoSnap /\ [id |-> s, halt |-> x] # NoSnap
<1>1. "to" \in DOMAIN [id |-> s, to |-> x] OBVIOUS
<1>2. "halt" \in DOMAIN [id |-> s, halt |-> x] OBVIOUS
<1>3. "to" \notin DOMAIN NoSnap /\ "halt" \notin DOMAIN NoSnap BY DEF NoSnap
<1> QED BY <1>1, <1>2, <1>3

LEMMA SnapStarts == SnapInit => SnapInv
<1> SUFFICES ASSUME SnapInit PROVE SnapInv
  OBVIOUS
<1>1. ASSUME NEW s \in Savers
      PROVE  saver[s].step = "open" /\ saver[s].fresh = FALSE /\ saver[s] \in SaverRecord
  <2>1. PICK d \in Destinations :
          saver[s] = [step |-> "open", to |-> d, fresh |-> FALSE, got |-> NoSnap, answer |-> "none"]
    BY DEF SnapInit
  <2> QED BY <2>1 DEF SaverRecord, SnapSteps, Snaps
<1>2. SnapTypeOK
  <2>1. saver \in [Savers -> SaverRecord] BY <1>1 DEF SnapInit
  <2> QED BY <2>1 DEF SnapInit, SnapTypeOK, Snaps, SaverRecord
<1>3. KeyOK BY DEF SnapInit, KeyOK, NothingTold
<1>4. \A s \in Savers : SaverOK(s)
  BY <1>1, SnapAssumption DEF SnapInit, SaverOK, Writing, Holding, WithCapture
<1> QED BY <1>1, <1>2, <1>3, <1>4 DEF SnapInv, OneCreator

\* What SnapStep and SnapTell change.
LEMMA StepFields ==
    ASSUME SnapTypeOK, NEW s \in Savers, NEW x \in SnapSteps, saver' = [saver EXCEPT ![s].step = x]
    PROVE  /\ saver' \in [Savers -> SaverRecord]
           /\ saver'[s].step = x /\ saver'[s].fresh = saver[s].fresh
           /\ saver'[s].to = saver[s].to /\ saver'[s].got = saver[s].got
           /\ \A t \in Savers : t # s => saver'[t] = saver[t]
<1>1. saver \in [Savers -> SaverRecord] BY DEF SnapTypeOK, SaverRecord
<1>2. saver'[s] = [saver[s] EXCEPT !.step = x] /\ \A t \in Savers : t # s => saver'[t] = saver[t]
  BY <1>1
<1>3. saver'[s] \in SaverRecord BY <1>1, <1>2 DEF SaverRecord
<1>4. saver' \in [Savers -> SaverRecord] BY <1>1, <1>2, <1>3
<1> QED BY <1>1, <1>2, <1>4 DEF SaverRecord

LEMMA TellFields ==
    ASSUME SnapTypeOK, NEW s \in Savers, NEW a \in {"error", "issued", "unissued", "unknown"}, SnapTell(s, a)
    PROVE  /\ saver' \in [Savers -> SaverRecord]
           /\ saver'[s].step = "done" /\ saver'[s].fresh = saver[s].fresh
           /\ \A t \in Savers : t # s => saver'[t] = saver[t]
           /\ told' = told \cup {a}
<1>1. saver \in [Savers -> SaverRecord] BY DEF SnapTypeOK, SaverRecord
<1>2. saver'[s] = [saver[s] EXCEPT !.step = "done", !.answer = a] /\ \A t \in Savers : t # s => saver'[t] = saver[t]
  BY <1>1 DEF SnapTell
<1>3. saver'[s] \in SaverRecord BY <1>1, <1>2 DEF SaverRecord, SnapSteps
<1>4. saver' \in [Savers -> SaverRecord] BY <1>1, <1>2, <1>3 DEF SnapTell
<1> QED BY <1>1, <1>2, <1>4 DEF SaverRecord, SnapTell

\* What a caller is told of a key that nobody is writing to.
LEMMA ObservedIsTrue ==
    ASSUME SnapTypeOK, KeyOK
    PROVE  /\ Observed \in {"error", "issued", "unissued", "unknown"}
           /\ Observed = "issued" => snapPub # NoSnap
           /\ Observed = "unissued" => snapPub = NoSnap
           /\ snapReq = NoSnap => Observed = "unknown"
BY DEF Observed, SnapTypeOK, KeyOK, Acquires

\* A step of a caller that is told something and writes nothing.
LEMMA ReaderKeeps ==
    ASSUME SnapInv, UNCHANGED <<SnapFiles, snapLock, serialized>>, snapHalt' \in Nat,
           NEW a \in {"error", "issued", "unissued", "unknown"}, told' \in {told, told \cup {a}},
           a \in {"error", "unknown"} \/ (a = Observed /\ LockFree),
           saver' \in [Savers -> SaverRecord],
           \A t \in Savers : \/ saver'[t] = saver[t]
                             \/ /\ saver'[t].fresh = saver[t].fresh /\ saver[t].step \notin Holding
                                /\ \/ saver'[t].step = "done"
                                   \/ saver'[t].step \in {"prepared", "locking"} /\ ~saver[t].fresh
    PROVE  SnapInv'
<1>1. SnapTypeOK' BY DEF SnapInv, SnapTypeOK, SnapFiles, SaverRecord
<1>2. OneCreator'
  <2>1. \A t \in Savers : saver'[t].fresh = saver[t].fresh OBVIOUS
  <2> QED BY <2>1 DEF SnapInv, OneCreator
<1>3. /\ a = "issued" => snapPub # NoSnap /\ a = Observed /\ LockFree
      /\ a = "unissued" => snapPub = NoSnap /\ a = Observed /\ LockFree
      /\ a \in {"issued", "unissued"} => snapReq # NoSnap
  BY ObservedIsTrue DEF SnapInv
<1>4. KeyOK' BY <1>3 DEF SnapInv, KeyOK, SnapFiles, Acquires, NothingTold
<1>5. ASSUME NEW t \in Savers, Writing(t)' PROVE NothingTold'
  <2>1. saver'[t] = saver[t] /\ Writing(t) BY <1>5 DEF Writing, Holding
  <2>2. NothingTold BY <2>1 DEF SnapInv, SaverOK
  <2>3. CASE a \in {"error", "unknown"} BY <2>2, <2>3 DEF NothingTold
  <2>4. CASE a \in {"issued", "unissued"}
    <3>1. LockFree /\ snapReq # NoSnap BY <1>3, <2>4
    <3>2. snapLock # t BY <3>1, SnapAssumption DEF LockFree
    <3>3. saver[t].step \notin Holding BY <3>2 DEF SnapInv, SaverOK
    <3>4. saver[t].step = "locking" BY <2>1, <3>3 DEF Writing
    <3> QED BY <2>1, <3>1, <3>4 DEF SnapInv, SaverOK
  <2> QED BY <2>3, <2>4
<1>6. ASSUME NEW t \in Savers PROVE SaverOK(t)'
  <2>1. CASE saver'[t] = saver[t]
    BY <1>5, <2>1 DEF SnapInv, SaverOK, SnapFiles, Writing
  <2>2. CASE /\ saver'[t].fresh = saver[t].fresh /\ saver[t].step \notin Holding
             /\ \/ saver'[t].step = "done"
                \/ saver'[t].step \in {"prepared", "locking"} /\ ~saver[t].fresh
    <3>1. saver'[t].step \notin Holding /\ saver'[t].step \notin WithCapture BY <2>2 DEF Holding, WithCapture
    <3>2. snapLock # t BY <2>2 DEF SnapInv, SaverOK
    <3>3. ~Writing(t)' BY <2>2, <3>1 DEF Writing
    <3>4. saver'[t].fresh => snapDir' BY <2>2 DEF SnapInv, SaverOK, SnapFiles
    <3>5. saver'[t].step \in {"open", "prepared"} => ~saver'[t].fresh BY <2>2
    <3>6. snapLock' # t BY <3>2
    <3> QED BY <3>1, <3>3, <3>4, <3>5, <3>6 DEF SaverOK, Holding
  <2> QED BY <2>1, <2>2
<1> QED BY <1>1, <1>2, <1>4, <1>6 DEF SnapInv

LEMMA SaveOpensKeeps ==
    ASSUME SnapInv, NEW s \in Savers, SaveOpens(s)
    PROVE  SnapInv'
<1>1. /\ saver[s].step = "open" /\ UNCHANGED <<SnapFiles, snapLock, serialized>> /\ snapHalt' \in Nat
      /\ ~saver[s].fresh /\ saver[s].step \notin Holding
  BY DEF SaveOpens, SnapInv, SnapTypeOK, SnapAt, SaverOK, Holding
<1>2. SnapTypeOK /\ KeyOK BY DEF SnapInv
<1>3. CASE ~snapDir
  <2>1. saver' = [saver EXCEPT ![s].step = "prepared"] /\ told' = told BY <1>3 DEF SaveOpens, SnapStep
  <2>2. "prepared" \in SnapSteps BY DEF SnapSteps
  <2> QED BY ZenonT(60), <1>1, <1>2, <2>1, <2>2, StepFields, ReaderKeeps
<1>4. ASSUME NEW a \in {"error", "issued", "unissued", "unknown"}, SnapTell(s, a),
             a \in {"error", "unknown"} \/ (a = Observed /\ LockFree)
      PROVE  SnapInv'
  BY <1>1, <1>2, <1>4, TellFields, ReaderKeeps
<1>5. CASE snapDir /\ ~LockFree BY <1>4, <1>5 DEF SaveOpens
<1>6. CASE snapDir /\ LockFree
  BY <1>2, <1>4, <1>6, ObservedIsTrue DEF SaveOpens, ObserveExisting
<1> QED BY <1>3, <1>5, <1>6

LEMMA VerifyKeeps == SnapInv /\ Verify => SnapInv'
<1> SUFFICES ASSUME SnapInv, Verify PROVE SnapInv'
  OBVIOUS
<1>1. Observed \in {"error", "issued", "unissued", "unknown"} BY ObservedIsTrue DEF SnapInv
<1>2. saver' \in [Savers -> SaverRecord] /\ saver' = saver BY DEF Verify, SnapInv, SnapTypeOK, SaverRecord
<1>3. UNCHANGED <<SnapFiles, snapLock, serialized>> /\ snapHalt' \in Nat /\ LockFree /\ told' = told \cup {Observed}
  BY DEF Verify, SnapInv, SnapTypeOK
<1> QED BY <1>1, <1>2, <1>3, ReaderKeeps

LEMMA MachineMovesKeeps == SnapInv /\ MachineMoves => SnapInv'
<1> SUFFICES ASSUME SnapInv, MachineMoves PROVE SnapInv'
  OBVIOUS
<1>1. saver' \in [Savers -> SaverRecord] /\ saver' = saver BY DEF MachineMoves, SnapInv, SnapTypeOK, SaverRecord
<1>2. UNCHANGED <<SnapFiles, snapLock, serialized>> /\ snapHalt' \in Nat /\ told' = told
  BY DEF MachineMoves, SnapInv, SnapTypeOK
<1> QED BY <1>1, <1>2, ReaderKeeps

\* While the creator writes, the other savers wait, are done, or have not begun.
LEMMA OthersWait ==
    ASSUME SnapInv, NEW s \in Savers, saver[s].fresh, snapLock \in {s, "free"}, snapDir', snapLock' \in {s, "free"},
           NEW t \in Savers, t # s, saver'[t] = saver[t]
    PROVE  SaverOK(t)'
<1>1. ~saver[t].fresh BY DEF SnapInv, OneCreator
<1>2. saver[t].step \notin Holding BY <1>1 DEF SnapInv, SaverOK
<1>3. saver[t].step \notin WithCapture BY <1>2 DEF Holding, WithCapture
<1>4. snapLock' # t BY SnapAssumption
<1>5. ~Writing(t)' BY <1>1 DEF Writing
<1> QED BY <1>1, <1>2, <1>3, <1>4, <1>5 DEF SaverOK, Holding

\* The same, of a step of the saver that holds the lock.
LEMMA HolderKeeps ==
    ASSUME SnapInv, NEW s \in Savers, saver[s].step \in Holding,
           snapDir' = snapDir, snapLock' \in {s, "free"},
           \A t \in Savers : t # s => saver'[t] = saver[t], saver'[s].fresh = saver[s].fresh,
           SnapTypeOK', KeyOK', SaverOK(s)'
    PROVE  SnapInv'
<1>1. saver[s].fresh /\ snapDir /\ snapLock = s BY DEF SnapInv, SaverOK
<1>2. \A t \in Savers : t # s => SaverOK(t)' BY <1>1, OthersWait
<1>3. \A t \in Savers : saver'[t].fresh = saver[t].fresh OBVIOUS
<1>4. OneCreator' BY <1>3 DEF SnapInv, OneCreator
<1> QED BY <1>2, <1>4 DEF SnapInv

LEMMA SaveReservesKeeps ==
    ASSUME SnapInv, NEW s \in Savers, SaveReserves(s)
    PROVE  SnapInv'
<1>1. /\ saver[s].step = "locked" /\ snapReq' = [id |-> s, to |-> saver[s].to]
      /\ saver' = [saver EXCEPT ![s].step = "reserved"]
      /\ UNCHANGED <<snapDir, snapLock, snapStage, snapPub, snapTerm, snapCopy, snapHalt, serialized, told>>
  BY DEF SaveReserves, SnapAt, SnapStep
<1>2. SnapTypeOK /\ "reserved" \in SnapSteps /\ saver[s].step \in Holding /\ saver[s].to \in Destinations
  BY <1>1 DEF SnapInv, SnapTypeOK, SnapSteps, Holding
<1>3. /\ saver' \in [Savers -> SaverRecord] /\ saver'[s].step = "reserved" /\ saver'[s].fresh = saver[s].fresh
      /\ saver'[s].to = saver[s].to /\ \A t \in Savers : t # s => saver'[t] = saver[t]
  BY <1>1, <1>2, StepFields
<1>4. snapReq' # NoSnap BY <1>1, SomethingSnapped
<1>5. /\ saver[s].fresh /\ snapDir /\ snapLock = s /\ snapReq = NoSnap /\ NothingTold /\ snapTerm = "none"
      /\ snapPub = NoSnap /\ serialized = 0
  BY <1>1, <1>2 DEF SnapInv, SaverOK, KeyOK, Writing
<1>6. SnapTypeOK' BY <1>1, <1>2, <1>3 DEF SnapTypeOK, SaverRecord
<1>7. KeyOK'
  <2>1. \A d \in Destinations : snapCopy[d] = NoSnap BY <1>5 DEF SnapInv, KeyOK
  <2> QED BY <1>1, <1>4, <1>5, <2>1 DEF SnapInv, KeyOK, NothingTold
<1>8. SaverOK(s)' BY <1>1, <1>3, <1>5 DEF SaverOK, Writing, Holding, WithCapture, NothingTold
<1> QED BY <1>1, <1>2, <1>3, <1>6, <1>7, <1>8, <1>5, HolderKeeps

\* A step of the holder that changes no file of the key.
LEMMA HolderSteps ==
    ASSUME SnapInv, NEW s \in Savers, saver[s].step \in Holding \ {"locked"},
           NEW x \in Holding \ {"locked", "reserved"}, saver' = [saver EXCEPT ![s].step = x],
           x \in WithCapture => saver[s].step \in WithCapture,
           x \in {"captured", "checked", "staged"} => saver[s].step \in {"captured", "checked", "staged"},
           x = "staged" => saver[s].step = "staged",
           x \in {"published", "exported", "completed"} => saver[s].step \in {"published", "exported", "completed"},
           UNCHANGED <<SnapFiles, snapLock, snapHalt, told>>,
           serialized' \in Nat, serialized' <= 1
    PROVE  SnapInv'
<1>1. SnapTypeOK /\ x \in SnapSteps BY DEF SnapInv, SnapSteps, Holding
<1>2. /\ saver' \in [Savers -> SaverRecord] /\ saver'[s].step = x /\ saver'[s].fresh = saver[s].fresh
      /\ saver'[s].to = saver[s].to /\ saver'[s].got = saver[s].got
      /\ \A t \in Savers : t # s => saver'[t] = saver[t]
  BY <1>1, StepFields
<1>3. SnapTypeOK' BY <1>1, <1>2 DEF SnapTypeOK, SaverRecord, SnapFiles
<1>4. snapReq = [id |-> s, to |-> saver[s].to] /\ snapLock = s /\ SaverOK(s) BY DEF SnapInv, SaverOK
<1>5. snapReq # NoSnap BY <1>4, SomethingSnapped
<1>6. KeyOK' BY <1>5 DEF SnapInv, KeyOK, SnapFiles, NothingTold, Acquires
<1>7. SaverOK(s)' BY <1>2, <1>4 DEF SaverOK, Writing, Holding, SnapFiles, NothingTold
<1> QED BY <1>2, <1>3, <1>4, <1>6, <1>7, HolderKeeps DEF SnapFiles

LEMMA SaveChecksKeeps ==
    ASSUME SnapInv, NEW s \in Savers, SaveChecks(s) \/ SaveRechecks(s)
    PROVE  SnapInv'
<1>1. UNCHANGED <<SnapFiles, snapLock, snapHalt, serialized, told>> BY DEF SaveChecks, SaveRechecks
<1>2. serialized' \in Nat /\ serialized' <= 1 BY <1>1 DEF SnapInv, SnapTypeOK, KeyOK
<1>3. CASE saver[s].step = "captured" /\ SnapStep(s, "checked")
  BY <1>1, <1>2, <1>3, HolderSteps DEF SnapStep, Holding, WithCapture
<1>4. CASE saver[s].step = "exported" /\ SnapStep(s, "completed")
  BY <1>1, <1>2, <1>4, HolderSteps DEF SnapStep, Holding, WithCapture
<1>5. CASE saver[s].step \in {"captured", "exported"} /\ SnapStep(s, "failed")
  BY <1>1, <1>2, <1>5, HolderSteps DEF SnapStep, Holding, WithCapture
<1> QED BY <1>3, <1>4, <1>5 DEF SaveChecks, SaveRechecks, SnapAt, CheckBoundary

LEMMA SaveCapturesKeeps ==
    ASSUME SnapInv, NEW s \in Savers, SaveCaptures(s)
    PROVE  SnapInv'
<1>1. saver[s].step = "reserved" /\ UNCHANGED <<SnapFiles, snapLock, snapHalt, told>> BY DEF SaveCaptures, SnapAt
<1>2. SnapTypeOK /\ saver[s].step \in Holding BY <1>1 DEF SnapInv, Holding
<1>3. /\ serialized = 0 /\ snapReq = [id |-> s, to |-> saver[s].to] /\ saver[s].fresh /\ snapDir /\ snapLock = s
      /\ NothingTold /\ snapTerm = "none" /\ snapPub = NoSnap
  BY <1>1, <1>2 DEF SnapInv, SaverOK, Writing, Holding
<1>4. snapReq # NoSnap BY <1>3, SomethingSnapped
<1>5. CASE SnapStep(s, "failed") /\ serialized' \in {serialized, serialized + 1}
  <2>1. serialized' \in Nat /\ serialized' <= 1 BY <1>3, <1>5
  <2> QED BY <1>1, <1>5, <2>1, HolderSteps DEF SnapStep, Holding, WithCapture
<1>6. CASE /\ saver' = [saver EXCEPT ![s].step = "captured", ![s].got = [id |-> s, halt |-> snapHalt]]
           /\ serialized' = serialized + 1
  <2>1. saver \in [Savers -> SaverRecord] BY <1>2 DEF SnapTypeOK, SaverRecord
  <2> DEFINE got == [id |-> s, halt |-> snapHalt]
  <2>2. /\ saver'[s] = [saver[s] EXCEPT !.step = "captured", !.got = got]
        /\ \A t \in Savers : t # s => saver'[t] = saver[t]
    BY <1>6, <2>1
  <2>3. got \in Snaps /\ got # NoSnap /\ got.id = s BY <1>2, SomethingSnapped DEF Snaps, SnapTypeOK
  <2> HIDE DEF got
  <2>4. saver'[s] \in SaverRecord BY <2>1, <2>2, <2>3 DEF SaverRecord, SnapSteps
  <2>5. saver' \in [Savers -> SaverRecord] BY <1>6, <2>1, <2>2, <2>4
  <2>6. saver'[s].step = "captured" /\ saver'[s].fresh = saver[s].fresh /\ saver'[s].to = saver[s].to
        /\ saver'[s].got = got
    BY <2>1, <2>2 DEF SaverRecord
  <2>7. SnapTypeOK' BY <1>1, <1>2, <1>3, <1>6, <2>5 DEF SnapTypeOK, SaverRecord, SnapFiles
  <2>8. KeyOK' BY <1>1, <1>3, <1>4, <1>6 DEF SnapInv, KeyOK, SnapFiles, NothingTold, Acquires
  <2>9. SaverOK(s)'
    BY <1>1, <1>3, <2>3, <2>6 DEF SaverOK, Writing, Holding, WithCapture, SnapFiles, NothingTold
  <2> QED BY <1>1, <1>2, <1>3, <2>2, <2>6, <2>7, <2>8, <2>9, HolderKeeps DEF SnapFiles
<1> QED BY <1>5, <1>6 DEF SaveCaptures

\* What holds of the key while the saver s holds its lock.
LEMMA HolderFacts ==
    ASSUME SnapInv, NEW s \in Savers, saver[s].step \in Holding \ {"locked"}
    PROVE  /\ SnapTypeOK /\ saver[s].fresh /\ snapDir /\ snapLock = s
           /\ snapReq = [id |-> s, to |-> saver[s].to] /\ snapReq # NoSnap /\ snapReq.to = saver[s].to
           /\ saver[s].to \in Destinations /\ saver[s].got \in Snaps
           /\ NothingTold /\ snapTerm = "none" /\ serialized \in Nat /\ serialized <= 1
           /\ saver[s].step \in WithCapture => saver[s].got # NoSnap /\ saver[s].got.id = s
<1>1. SnapTypeOK /\ serialized \in Nat /\ serialized <= 1 /\ saver[s].to \in Destinations /\ saver[s].got \in Snaps
  BY DEF SnapInv, SnapTypeOK, KeyOK
<1>2. saver[s].fresh /\ snapDir /\ snapLock = s /\ snapReq = [id |-> s, to |-> saver[s].to]
  BY DEF SnapInv, SaverOK
<1>3. NothingTold /\ snapTerm = "none" BY <1>2 DEF SnapInv, SaverOK, Writing
<1>4. saver[s].step \in WithCapture => saver[s].got # NoSnap /\ saver[s].got.id = s BY DEF SnapInv, SaverOK
<1>5. snapReq # NoSnap /\ snapReq.to = saver[s].to BY <1>2, SomethingSnapped
<1> QED BY <1>1, <1>2, <1>3, <1>4, <1>5

LEMMA SaveStagesKeeps ==
    ASSUME SnapInv, NEW s \in Savers, SaveStages(s)
    PROVE  SnapInv'
<1>1. /\ saver[s].step = "checked"
      /\ UNCHANGED <<snapDir, snapLock, snapReq, snapPub, snapTerm, snapCopy, snapHalt, serialized, told>>
  BY DEF SaveStages, SnapAt
<1>2. saver[s].step \in Holding \ {"locked"} /\ saver[s].step \in WithCapture BY <1>1 DEF Holding, WithCapture
<1>3. serialized' \in Nat /\ serialized' <= 1 BY <1>1, <1>2, HolderFacts
<1>4. CASE SnapStep(s, "failed") /\ UNCHANGED snapStage
  BY <1>1, <1>2, <1>3, <1>4, HolderSteps DEF SnapStep, Holding, WithCapture, SnapFiles
<1>5. CASE snapStage' = saver[s].got /\ SnapStep(s, "staged")
  <2>1. "staged" \in SnapSteps BY DEF SnapSteps
  <2>2. /\ saver' \in [Savers -> SaverRecord] /\ saver'[s].step = "staged" /\ saver'[s].fresh = saver[s].fresh
        /\ saver'[s].to = saver[s].to /\ saver'[s].got = saver[s].got
        /\ \A t \in Savers : t # s => saver'[t] = saver[t]
    BY <1>2, <1>5, <2>1, HolderFacts, StepFields DEF SnapStep
  <2>3. SnapTypeOK' BY <1>1, <1>2, <1>5, <2>2, HolderFacts DEF SnapTypeOK, SaverRecord
  <2>4. KeyOK' BY <1>1 DEF SnapInv, KeyOK, NothingTold, Acquires
  <2>5. snapPub = NoSnap BY <1>1 DEF SnapInv, SaverOK
  <2>6. SaverOK(s)'
    BY <1>1, <1>2, <1>5, <2>2, <2>5, HolderFacts DEF SaverOK, Writing, Holding, WithCapture, NothingTold
  <2> QED BY <1>1, <1>2, <2>2, <2>3, <2>4, <2>6, HolderFacts, HolderKeeps
<1> QED BY <1>4, <1>5 DEF SaveStages

\* The rename is what issues the receipt: from now on the key is acquired.
LEMMA SaveRenamesKeeps ==
    ASSUME SnapInv, NEW s \in Savers, SaveRenames(s)
    PROVE  SnapInv'
<1>1. /\ saver[s].step = "staged" /\ snapStage' = NoSnap
      /\ UNCHANGED <<snapDir, snapLock, snapReq, snapTerm, snapCopy, snapHalt, serialized, told>>
  BY DEF SaveRenames, SnapAt
<1>2. saver[s].step \in Holding \ {"locked"} /\ saver[s].step \in WithCapture BY <1>1 DEF Holding, WithCapture
<1>3. snapPub = NoSnap /\ snapStage = saver[s].got BY <1>1 DEF SnapInv, SaverOK
<1>4. PICK x \in {"published", "failed"} :
        /\ saver' = [saver EXCEPT ![s].step = x]
        /\ snapPub' \in {snapPub, saver[s].got}
        /\ x = "published" => snapPub' = saver[s].got
  BY <1>3 DEF SaveRenames, SnapStep
<1>5. x \in SnapSteps BY DEF SnapSteps
<1>6. /\ saver' \in [Savers -> SaverRecord] /\ saver'[s].step = x /\ saver'[s].fresh = saver[s].fresh
      /\ saver'[s].to = saver[s].to /\ saver'[s].got = saver[s].got
      /\ \A t \in Savers : t # s => saver'[t] = saver[t]
  BY <1>2, <1>4, <1>5, HolderFacts, StepFields
<1> DEFINE got == saver[s].got
<1>7. /\ SnapTypeOK /\ saver[s].fresh /\ snapDir /\ snapLock = s
      /\ snapReq = [id |-> s, to |-> saver[s].to] /\ snapReq # NoSnap
      /\ got \in Snaps /\ got # NoSnap /\ got.id = s
      /\ NothingTold /\ snapTerm = "none" /\ serialized <= 1
  BY <1>2, HolderFacts
<1>8. snapPub' \in {NoSnap, got} /\ (x = "published" => snapPub' = got) BY <1>3, <1>4
<1> HIDE DEF got
<1>9. SnapTypeOK'
  <2>1. NoSnap \in Snaps BY DEF Snaps
  <2> QED BY <1>1, <1>7, <1>8, <1>6, <2>1 DEF SnapTypeOK, SaverRecord
<1>10. KeyOK'
  <2>1. snapPub' # NoSnap => Acquires' BY <1>1, <1>7, <1>8 DEF Acquires
  <2>2. \A d \in Destinations : snapCopy[d] = NoSnap BY <1>3 DEF SnapInv, KeyOK
  <2>3. "issued" \notin told /\ "unissued" \notin told /\ snapReq # NoSnap /\ snapTerm = "none" /\ snapDir
        /\ serialized <= 1
    BY <1>7 DEF NothingTold
  <2> QED BY <1>1, <2>1, <2>2, <2>3 DEF KeyOK, NothingTold
<1>11. SaverOK(s)'
  <2>1. saver'[s].got = got BY <1>6 DEF got
  <2> QED BY <1>1, <1>7, <1>8, <1>6, <2>1 DEF SaverOK, Writing, Holding, WithCapture, NothingTold
<1> QED BY <1>1, <1>2, <1>6, <1>9, <1>10, <1>11, HolderFacts, HolderKeeps

LEMMA SaveExportsKeeps ==
    ASSUME SnapInv, NEW s \in Savers, SaveExports(s)
    PROVE  SnapInv'
<1>1. /\ saver[s].step = "published"
      /\ UNCHANGED <<snapDir, snapLock, snapReq, snapStage, snapPub, snapTerm, snapHalt, serialized, told>>
  BY DEF SaveExports, SnapAt
<1>2. saver[s].step \in Holding \ {"locked"} /\ saver[s].step \in WithCapture BY <1>1 DEF Holding, WithCapture
<1>3. serialized' \in Nat /\ serialized' <= 1 /\ snapPub = saver[s].got
  BY <1>1, <1>2, HolderFacts DEF SnapInv, SaverOK
<1>4. CASE SnapStep(s, "failed") /\ UNCHANGED snapCopy
  BY <1>1, <1>2, <1>3, <1>4, HolderSteps DEF SnapStep, Holding, WithCapture, SnapFiles
<1>5. CASE snapCopy' = [snapCopy EXCEPT ![saver[s].to] = saver[s].got] /\ SnapStep(s, "exported")
  <2>1. "exported" \in SnapSteps BY DEF SnapSteps
  <2>2. /\ saver' \in [Savers -> SaverRecord] /\ saver'[s].step = "exported" /\ saver'[s].fresh = saver[s].fresh
        /\ saver'[s].to = saver[s].to /\ saver'[s].got = saver[s].got
        /\ \A t \in Savers : t # s => saver'[t] = saver[t]
    BY <1>2, <1>5, <2>1, HolderFacts, StepFields DEF SnapStep
  <2>3. snapCopy \in [Destinations -> Snaps] BY <1>2, HolderFacts DEF SnapTypeOK
  <2>4. /\ snapCopy' \in [Destinations -> Snaps] /\ snapCopy'[saver[s].to] = saver[s].got
        /\ \A d \in Destinations : d # saver[s].to => snapCopy'[d] = snapCopy[d]
    BY <1>2, <1>5, <2>3, HolderFacts
  <2>5. SnapTypeOK' BY <1>1, <1>2, <2>2, <2>4, HolderFacts DEF SnapTypeOK, SaverRecord
  <2>6. KeyOK'
    <3>1. \A d \in Destinations : snapCopy'[d] # NoSnap => snapCopy'[d] = snapPub' /\ snapReq'.to = d
      BY <1>1, <1>2, <1>3, <2>4, HolderFacts DEF SnapInv, KeyOK
    <3> QED BY <1>1, <3>1 DEF SnapInv, KeyOK, NothingTold, Acquires
  <2>7. SaverOK(s)'
    BY <1>1, <1>2, <1>3, <2>2, HolderFacts DEF SaverOK, Writing, Holding, WithCapture, NothingTold
  <2> QED BY <1>1, <1>2, <2>2, <2>5, <2>6, <2>7, HolderFacts, HolderKeeps
<1> QED BY <1>4, <1>5 DEF SaveExports

\* The outcome that is written and told is what is on the disk.
LEMMA SaveTerminatesKeeps ==
    ASSUME SnapInv, NEW s \in Savers, SaveTerminates(s)
    PROVE  SnapInv'
<1>1. /\ saver[s].step \in {"completed", "failed"} /\ snapLock' = "free"
      /\ UNCHANGED <<snapDir, snapReq, snapStage, snapPub, snapCopy, snapHalt, serialized>>
  BY DEF SaveTerminates
<1>2. saver[s].step \in Holding \ {"locked"} BY <1>1 DEF Holding
<1>3. saver[s].step = "completed" => snapPub # NoSnap
  BY <1>2, HolderFacts DEF SnapInv, SaverOK, WithCapture
<1>4. snapPub # NoSnap => Acquires BY DEF SnapInv, KeyOK
<1> DEFINE issued == IF SnapAt(s, "completed") \/ Acquires THEN "issued"
                     ELSE IF snapPub # NoSnap THEN "unknown" ELSE "unissued"
<1>5. issued = IF snapPub # NoSnap THEN "issued" ELSE "unissued"
  BY <1>1, <1>3, <1>4 DEF SnapAt, Acquires
<1>6. PICK a \in {issued, "error"} : SnapTell(s, a) /\ snapTerm' \in {snapTerm, issued}
  BY DEF SaveTerminates
<1>7. issued \in {"issued", "unissued"} BY <1>5
<1>8. /\ issued = "issued" <=> snapPub # NoSnap
      /\ issued = "unissued" <=> snapPub = NoSnap
  BY <1>5
<1> HIDE DEF issued
<1>9. /\ saver' \in [Savers -> SaverRecord] /\ saver'[s].step = "done" /\ saver'[s].fresh = saver[s].fresh
      /\ (\A t \in Savers : t # s => saver'[t] = saver[t]) /\ told' = told \cup {a}
  <2>1. a \in {"error", "issued", "unissued", "unknown"} BY <1>6, <1>7
  <2> QED BY <1>2, <1>6, <2>1, HolderFacts, TellFields
<1>10. SnapTypeOK' BY <1>1, <1>2, <1>6, <1>7, <1>9, HolderFacts DEF SnapTypeOK, SaverRecord
<1>11. KeyOK'
  <2>1. snapReq # NoSnap /\ snapDir /\ snapTerm = "none" /\ "issued" \notin told /\ "unissued" \notin told
    BY <1>2, HolderFacts DEF NothingTold
  <2>2. /\ "issued" \in told' => issued = "issued"
        /\ "unissued" \in told' => issued = "unissued"
        /\ snapTerm' = "issued" => issued = "issued"
        /\ snapTerm' = "unissued" => issued = "unissued"
    BY <1>6, <1>9, <2>1
  <2> QED BY <1>1, <1>8, <2>1, <2>2 DEF SnapInv, KeyOK, Acquires
<1>12. SaverOK(s)'
  <2>1. snapLock' # s BY <1>1, SnapAssumption
  <2> QED BY <1>1, <1>2, <1>9, <2>1, HolderFacts DEF SaverOK, Writing, Holding, WithCapture
<1> QED BY <1>1, <1>2, <1>9, <1>10, <1>11, <1>12, HolderKeeps

LEMMA SaveCreatesKeeps ==
    ASSUME SnapInv, NEW s \in Savers, SaveCreates(s)
    PROVE  SnapInv'
<1>1. /\ saver[s].step = "prepared"
      /\ UNCHANGED <<snapLock, snapReq, snapStage, snapPub, snapTerm, snapCopy, snapHalt, serialized>>
  BY DEF SaveCreates, SnapAt
<1>2. SnapTypeOK /\ ~saver[s].fresh /\ saver[s].step \notin Holding
  BY <1>1 DEF SnapInv, SaverOK, Holding
<1>3. CASE SnapTell(s, "error") /\ UNCHANGED snapDir
  <2>1. snapHalt' \in Nat BY <1>1, <1>2 DEF SnapTypeOK
  <2> QED BY <1>1, <1>2, <1>3, <2>1, TellFields, ReaderKeeps DEF SnapFiles
<1>4. CASE /\ saver' = [saver EXCEPT ![s].step = "locking", ![s].fresh = ~snapDir]
           /\ snapDir' = TRUE /\ UNCHANGED told
  <2>1. saver \in [Savers -> SaverRecord] /\ snapDir \in BOOLEAN BY <1>2 DEF SnapTypeOK, SaverRecord
  <2>2. /\ saver'[s] = [saver[s] EXCEPT !.step = "locking", !.fresh = ~snapDir]
        /\ \A t \in Savers : t # s => saver'[t] = saver[t]
    BY <1>4, <2>1
  <2>3. saver'[s] \in SaverRecord BY <2>1, <2>2 DEF SaverRecord, SnapSteps
  <2>4. saver' \in [Savers -> SaverRecord] BY <1>4, <2>1, <2>2, <2>3
  <2>5. saver'[s].step = "locking" /\ saver'[s].fresh = ~snapDir BY <2>1, <2>2 DEF SaverRecord
  <2>6. CASE snapDir
    <3>1. SnapFiles' = SnapFiles BY <1>1, <1>4, <2>6 DEF SnapFiles
    <3>2. snapHalt' \in Nat BY <1>1, <1>2 DEF SnapTypeOK
    <3>3. saver[s] \in SaverRecord BY <2>1
    <3>4. saver'[s].fresh = saver[s].fresh BY <1>2, <2>5, <2>6, <3>3 DEF SaverRecord
    <3>5. \A t \in Savers : \/ saver'[t] = saver[t]
                            \/ /\ saver'[t].fresh = saver[t].fresh /\ saver[t].step \notin Holding
                               /\ saver'[t].step \in {"prepared", "locking"} /\ ~saver[t].fresh
      BY <1>2, <2>2, <2>5, <3>4
    <3>6. UNCHANGED <<SnapFiles, snapLock, serialized>> /\ told' = told BY <1>1, <1>4, <3>1
    <3> HIDE DEF SnapFiles
    <3> QED BY <2>4, <3>2, <3>5, <3>6, ReaderKeeps
  <2>7. CASE ~snapDir
    <3>1. \A t \in Savers : ~saver[t].fresh BY <2>7 DEF SnapInv, SaverOK
    <3>2. OneCreator' BY <2>2, <3>1 DEF OneCreator
    <3>3. SnapTypeOK' BY <1>1, <1>2, <1>4, <2>4 DEF SnapTypeOK, SaverRecord
    <3>4. /\ snapReq = NoSnap /\ snapPub = NoSnap /\ NothingTold /\ snapTerm = "none"
      BY <2>7 DEF SnapInv, KeyOK
    <3>5. KeyOK' BY <1>1, <1>4, <3>4 DEF SnapInv, KeyOK, NothingTold, Acquires
    <3>6. SaverOK(s)'
      <4>1. snapLock # s BY <1>2 DEF SnapInv, SaverOK
      <4> QED BY <1>1, <1>4, <2>5, <3>4, <4>1 DEF SaverOK, Holding, WithCapture, Writing, NothingTold
    <3>7. ASSUME NEW t \in Savers, t # s PROVE SaverOK(t)'
      <4>1. ~saver[t].fresh /\ saver[t].step \notin Holding /\ snapLock # t BY <3>1 DEF SnapInv, SaverOK
      <4>2. saver'[t] = saver[t] /\ snapLock' # t BY <1>1, <2>2, <3>7, <4>1
      <4> QED BY <4>1, <4>2 DEF SaverOK, Holding, WithCapture, Writing
    <3> QED BY <3>2, <3>3, <3>5, <3>6, <3>7 DEF SnapInv
  <2> QED BY <2>1, <2>6, <2>7
<1> QED BY <1>3, <1>4 DEF SaveCreates

LEMMA SaveLocksKeeps ==
    ASSUME SnapInv, NEW s \in Savers, SaveLocks(s)
    PROVE  SnapInv'
<1>1. saver[s].step = "locking" /\ UNCHANGED <<SnapFiles, snapHalt, serialized>> BY DEF SaveLocks, SnapAt
<1>2. SnapTypeOK /\ KeyOK /\ saver[s].step \notin Holding /\ snapHalt' \in Nat
  BY <1>1 DEF SnapInv, Holding, SnapTypeOK
<1>3. ASSUME NEW a \in {"error", "issued", "unissued", "unknown"}, SnapTell(s, a), UNCHANGED snapLock,
             a \in {"error", "unknown"} \/ (a = Observed /\ LockFree)
      PROVE  SnapInv'
  BY <1>1, <1>2, <1>3, TellFields, ReaderKeeps
<1>4. CASE ~LockFree BY <1>3, <1>4 DEF SaveLocks
<1>5. CASE LockFree /\ ~saver[s].fresh
  BY <1>2, <1>3, <1>5, ObservedIsTrue DEF SaveLocks, ObserveExisting
<1>6. CASE LockFree /\ saver[s].fresh
  <2>1. snapLock' = s /\ SnapStep(s, "locked") /\ told' = told BY <1>6 DEF SaveLocks
  <2>2. "locked" \in SnapSteps BY DEF SnapSteps
  <2>3. /\ saver' \in [Savers -> SaverRecord] /\ saver'[s].step = "locked" /\ saver'[s].fresh = saver[s].fresh
        /\ \A t \in Savers : t # s => saver'[t] = saver[t]
    BY <1>2, <2>1, <2>2, StepFields DEF SnapStep
  <2>4. SnapTypeOK' BY <1>1, <1>2, <2>1, <2>3 DEF SnapTypeOK, SaverRecord, SnapFiles
  <2>5. KeyOK' BY <1>1, <1>2, <2>1 DEF KeyOK, SnapFiles, NothingTold, Acquires
  <2>6. Writing(s) /\ snapDir BY <1>1, <1>6 DEF Writing, SnapInv, SaverOK
  <2>7. SaverOK(s)'
    BY <1>1, <1>6, <2>1, <2>3, <2>6 DEF SnapInv, SaverOK, Writing, Holding, WithCapture, SnapFiles, NothingTold
  <2>8. \A t \in Savers : t # s => SaverOK(t)'
    BY <1>1, <1>6, <2>1, <2>3, <2>6, OthersWait DEF SnapFiles, LockFree
  <2>9. OneCreator'
    <3>1. \A t \in Savers : saver'[t].fresh = saver[t].fresh BY <2>3
    <3> QED BY <3>1 DEF SnapInv, OneCreator
  <2> QED BY <2>4, <2>5, <2>7, <2>8, <2>9 DEF SnapInv
<1> QED BY <1>2, <1>4, <1>5, <1>6

\* A saver that dies leaves its files, and what may be said of them.
LEMMA SaverDiesKeeps ==
    ASSUME SnapInv, NEW s \in Savers, SaverDies(s)
    PROVE  SnapInv'
<1>1. UNCHANGED <<SnapFiles, snapHalt, serialized, told>> /\ saver' = [saver EXCEPT ![s].step = "done"]
  BY DEF SaverDies, SnapStep
<1>2. SnapTypeOK /\ "done" \in SnapSteps /\ snapHalt' \in Nat BY <1>1 DEF SnapInv, SnapSteps, SnapTypeOK
<1>3. /\ saver' \in [Savers -> SaverRecord] /\ saver'[s].step = "done" /\ saver'[s].fresh = saver[s].fresh
      /\ \A t \in Savers : t # s => saver'[t] = saver[t]
  BY <1>1, <1>2, StepFields
<1>4. CASE saver[s].step \notin Holding
  <2>1. snapLock # s BY <1>4 DEF SnapInv, SaverOK
  <2>2. UNCHANGED snapLock BY <2>1 DEF SaverDies
  <2> QED BY <1>1, <1>2, <1>3, <1>4, <2>2, ReaderKeeps
<1>5. CASE saver[s].step \in Holding
  <2>1. snapLock = s /\ snapDir BY <1>5 DEF SnapInv, SaverOK
  <2>2. snapLock' = "free" BY <2>1 DEF SaverDies
  <2>3. SnapTypeOK' BY <1>1, <1>2, <1>3, <2>2 DEF SnapTypeOK, SaverRecord, SnapFiles
  <2>4. KeyOK' BY <1>1 DEF SnapInv, KeyOK, SnapFiles, NothingTold, Acquires
  <2>5. SaverOK(s)'
    <3>1. snapLock' # s BY <2>2, SnapAssumption
    <3> QED BY <1>1, <1>3, <2>1, <3>1 DEF SaverOK, Writing, Holding, WithCapture, SnapFiles
  <2> QED BY <1>1, <1>3, <1>5, <2>2, <2>3, <2>4, <2>5, HolderKeeps DEF SnapFiles
<1> QED BY <1>4, <1>5

LEMMA SnapInvariant == SnapSpec => []SnapInv
<1>1. SnapInit => SnapInv BY SnapStarts
<1>2. SnapInv /\ [SnapNext]_snapVars => SnapInv'
  <2> SUFFICES ASSUME SnapInv, [SnapNext]_snapVars PROVE SnapInv'
    OBVIOUS
  <2>1. CASE UNCHANGED snapVars
    <3>1. saver' \in [Savers -> SaverRecord] /\ saver' = saver /\ snapHalt' \in Nat
      BY <2>1 DEF snapVars, SnapInv, SnapTypeOK, SaverRecord
    <3> QED BY <2>1, <3>1, ReaderKeeps DEF snapVars, SnapFiles
  <2>2. ASSUME NEW s \in Savers,
               \/ SaveOpens(s) \/ SaveCreates(s) \/ SaveLocks(s) \/ SaveReserves(s) \/ SaveCaptures(s)
               \/ SaveChecks(s) \/ SaveStages(s) \/ SaveRenames(s) \/ SaveExports(s) \/ SaveRechecks(s)
               \/ SaveTerminates(s) \/ SaverDies(s)
        PROVE  SnapInv'
    BY <2>2, SaveOpensKeeps, SaveCreatesKeeps, SaveLocksKeeps, SaveReservesKeeps, SaveCapturesKeeps,
       SaveChecksKeeps, SaveStagesKeeps, SaveRenamesKeeps, SaveExportsKeeps, SaveTerminatesKeeps, SaverDiesKeeps
  <2> QED BY <2>1, <2>2, VerifyKeeps, MachineMovesKeeps DEF SnapNext
<1> QED BY <1>1, <1>2, PTL DEF SnapSpec

\* Whichever and however many savers race for a key of the snapshot store and
\* wherever they die, the key is serialized at most once, a receipt that was told is
\* there and stays, none appears after one was told that there is none, and what was
\* exported is what was published, where it was asked for.
THEOREM SnapshotIsKept == SnapSpec => []SnapshotKept
<1>1. SnapInv => SnapshotKept BY DEF SnapInv, KeyOK, SnapshotKept
<1> QED BY <1>1, SnapInvariant, PTL

-----------------------------------------------------------------------------
(* The recording *)

Reports == [outcome : {"completed", "failed"}, claimed : {"complete", "lossy", "unverifiable"},
            frames : Nat, final : Nat, dropped : Int, truncated : BOOLEAN, events : Nat,
            frozen : BOOLEAN, clean : BOOLEAN]

\* Before the producer is asked; and once it is known how the recording ended.
Unasked == {"prepare", "arming", "armed"}
Reported == {"readout", "reading", "recheck", "finalizing", "manifest", "unmarked", "renamed", "published"}

StagingDirs == [records : Seq(Nat), owner : BOOLEAN, manifest : BOOLEAN, here : BOOLEAN]

RecRecord ==
    [step : Unasked \cup Reported \cup {"calling", "closing", "done", "dead"}, snapshot : BOOLEAN,
     report : {NoAnswer} \cup Reports, read : Nat]

RecTypeOK ==
    /\ rec \in RecRecord /\ staging \in StagingDirs
    /\ sink \in [step : {"none", "reading", "ended"}, lines : Seq(Nat), truncated : BOOLEAN, error : BOOLEAN]
    /\ pipe \in [lines : Seq(Nat), open : BOOLEAN, partial : BOOLEAN]
    /\ prod \in [step : {"idle", "recording", "ended", "exited"}, dropped : Nat, sent : Nat, clean : BOOLEAN]
    /\ answer \in [kind : {"none", "rejected", "error"}] \cup [kind : {"terminal"}, report : Reports]
    /\ clock \in Nat

\* As long as the producer has dropped nothing, what the sink wrote is the window from
\* its start, and what is on its way continues it.
StreamOK ==
    /\ prod.step = "idle" => /\ clock = 0 /\ prod.dropped = 0 /\ ~pipe.open
                             /\ sink.lines = <<>> /\ pipe.lines = <<>>
    /\ pipe.open => prod.step = "recording"
    /\ prod.dropped = 0 =>
         /\ \A i \in 1 .. Len(sink.lines) : sink.lines[i] = i
         /\ sink.step # "ended" =>
              /\ \A i \in 1 .. Len(pipe.lines) : pipe.lines[i] = Len(sink.lines) + i
              /\ pipe.open => Len(sink.lines) + Len(pipe.lines) = clock

\* What the producer answered: nothing before it is asked, a rejection only if it
\* never recorded, a terminal with its own counters once it has ended.
AnswerOK ==
    /\ rec.step \in Unasked => prod.step = "idle" /\ answer.kind = "none"
    /\ answer.kind = "rejected" => prod.step = "idle"
    /\ answer.kind = "terminal" => /\ prod.step \in {"ended", "exited"}
                                   /\ answer.report.dropped = prod.dropped

\* A report that lets the generation go is of a producer that records no more, and
\* one of a completed window has the counters of the producer.
ReportOK ==
    rec.step \in Reported =>
        /\ rec.report \in Reports /\ sink.step = "ended"
        /\ CleanupSafe(rec.report) => prod.step # "recording"
        /\ rec.report.outcome = "completed" =>
             prod.step \in {"ended", "exited"} /\ rec.report.dropped = prod.dropped

\* The machine never goes back: what was read between two looks at the same frame was
\* read at that frame.
ReadOK ==
    /\ rec.step = "reading" => rec.report.final <= clock
    /\ rec.step = "recheck" => rec.report.final <= rec.read /\ rec.read <= clock
    /\ rec.snapshot /\ rec.step \in {"finalizing", "manifest", "unmarked"} => rec.read = rec.report.final

DestOK ==
    /\ rec.step \in {"manifest", "unmarked"} =>
         staging.records = sink.lines /\ Validate(sink.lines, rec.report) # "error"
    /\ rec.step \in {"renamed", "published"} => dest.here
    /\ dest.here => /\ rec.step \in {"renamed", "published", "done", "dead"}
                    /\ CleanupSafe(dest.report) => prod.step # "recording"

CapsuleOK == capsule.state \in {"published", "publication_failed"} => rec.step = "done"

RecInv ==
    RecTypeOK /\ StreamOK /\ AnswerOK /\ ReportOK /\ ReadOK /\ DestOK /\ CapsuleOK /\ RecordingHonest /\ CapsuleHonest

RecParts == <<sink, pipe, prod, clock, answer>>

LEMMA NoDirIsDir == NoDir \in StagingDirs
BY DEF NoDir, StagingDirs

LEMMA RecStarts == RecInit => RecInv
<1> SUFFICES ASSUME RecInit PROVE RecInv
  OBVIOUS
<1>1. PICK b \in BOOLEAN : rec = [step |-> "prepare", snapshot |-> b, report |-> NoAnswer, read |-> 0]
  BY DEF RecInit
<1>2. rec \in RecRecord /\ rec.step = "prepare" BY <1>1 DEF RecRecord, Unasked
<1>3. RecTypeOK BY <1>2, NoDirIsDir DEF RecInit, RecTypeOK, NoAnswer
<1>4. StreamOK /\ AnswerOK /\ CapsuleOK /\ CapsuleHonest
  BY DEF RecInit, StreamOK, AnswerOK, CapsuleOK, CapsuleHonest, NoAnswer
<1>5. ReportOK /\ ReadOK /\ DestOK /\ RecordingHonest
  BY <1>2 DEF RecInit, ReportOK, Reported, ReadOK, DestOK, RecordingHonest, NoBundle
<1> QED BY <1>3, <1>4, <1>5 DEF RecInv

LEMMA GoFields ==
    ASSUME RecTypeOK, NEW x \in Unasked \cup Reported \cup {"calling", "closing", "done", "dead"}, RecGo(x)
    PROVE  /\ rec' \in RecRecord /\ rec'.step = x
           /\ rec'.snapshot = rec.snapshot /\ rec'.report = rec.report /\ rec'.read = rec.read
BY DEF RecTypeOK, RecRecord, RecGo

\* A bundle is worth the same when it is verified as when it was made.
LEMMA ManifestVerifies ==
    ASSUME NEW records \in Seq(Nat), NEW r \in Reports, NEW snapshot, Validate(records, r) # "error"
    PROVE  /\ VerifiedBundle(Manifest(records, r, snapshot))
           /\ Manifest(records, r, snapshot).here = TRUE
           /\ Manifest(records, r, snapshot).records = records
           /\ Manifest(records, r, snapshot).snapshot = snapshot
           /\ Manifest(records, r, snapshot).integrity = Validate(records, r)
           /\ CleanupSafe(Manifest(records, r, snapshot).report) = CleanupSafe(r)
<1> DEFINE m == Manifest(records, r, snapshot)
           again == [m.report EXCEPT !.claimed = m.integrity]
<1>1. /\ m.here = TRUE /\ m.records = records /\ m.integrity = Validate(records, r)
      /\ m.snapshot = snapshot /\ m.report = [r EXCEPT !.events = Len(records)]
  BY DEF Manifest
<1>2. /\ m.report.events = Len(records) /\ m.report.clean = r.clean /\ m.report.frozen = r.frozen
  BY <1>1 DEF Reports
<1>3. /\ again.outcome = r.outcome /\ again.claimed = Validate(records, r)
      /\ again.frames = r.frames /\ again.final = r.final /\ again.dropped = r.dropped
      /\ again.truncated = r.truncated /\ again.events = Len(records) /\ again.clean = r.clean
      /\ again.frozen = r.frozen
  BY <1>1 DEF Reports
<1> HIDE DEF m, again
<1>4. Validate(records, again) = Validate(records, r)
  <2>1. CASE Validate(records, r) = "complete"
    <3>1. /\ r.outcome = "completed" /\ r.frames = RecFrames /\ r.final = RecFrames /\ r.dropped = 0
          /\ ~r.truncated /\ Len(records) = r.frames /\ r.clean /\ r.frozen
      BY <2>1 DEF Validate
    <3> QED BY <1>3, <2>1, <3>1 DEF Validate
  <2>2. CASE Validate(records, r) # "complete"
    <3>1. r.outcome # "completed" BY <2>2 DEF Validate
    <3>2. Validate(records, r) \in {"unverifiable", "lossy"} BY <2>2, <3>1 DEF Validate
    <3>3. Validate(records, again) =
            IF Validate(records, r) = "unverifiable" \/ r.truncated \/ ~r.clean THEN "unverifiable" ELSE "lossy"
      BY <1>3, <3>1 DEF Validate
    <3>4. r.truncated \/ ~r.clean => Validate(records, r) = "unverifiable" BY <3>1 DEF Validate
    <3> QED BY <3>2, <3>3, <3>4
  <2> QED BY <2>1, <2>2
<1>5. VerifiedBundle(m) BY <1>1, <1>2, <1>4 DEF VerifiedBundle, again
<1> QED BY <1>1, <1>2, <1>5 DEF m, CleanupSafe

\* A stream that is complete is the window.
LEMMA CompleteIsWindow ==
    ASSUME RecInv, rec.step \in Reported, Validate(sink.lines, rec.report) = "complete"
    PROVE  sink.lines = Window /\ rec.report.final = RecFrames
<1>1. /\ rec.report.outcome = "completed" /\ rec.report.final = RecFrames /\ rec.report.dropped = 0
      /\ Len(sink.lines) = RecFrames
  BY DEF Validate
<1>2. prod.dropped = 0 BY <1>1 DEF RecInv, ReportOK
<1>3. sink.lines \in Seq(Nat) /\ \A i \in 1 .. Len(sink.lines) : sink.lines[i] = i
  BY <1>2 DEF RecInv, RecTypeOK, StreamOK
<1> QED BY <1>1, <1>3, RecAssumption DEF Window

-----------------------------------------------------------------------------
(* Steps of the controller that leave the sink, the producer and its answer alone *)

LEMMA PartsKeep ==
    ASSUME RecInv, UNCHANGED RecParts, rec' \in RecRecord, staging' \in StagingDirs,
           rec'.step \in Unasked => rec.step \in Unasked
    PROVE  RecTypeOK' /\ StreamOK' /\ AnswerOK' /\ \A r : CleanupSafe(r)' = CleanupSafe(r)
<1>1. RecTypeOK' BY DEF RecInv, RecTypeOK, RecParts
<1>2. StreamOK' /\ AnswerOK' BY DEF RecInv, StreamOK, AnswerOK, RecParts
<1>3. \A r : CleanupSafe(r)' = CleanupSafe(r) BY DEF CleanupSafe, RecParts
<1> QED BY <1>1, <1>2, <1>3

\* A failure is recorded while there is no bundle.
LEMMA FailKeeps ==
    ASSUME RecInv, NEW safe, RecFails(safe), UNCHANGED <<RecParts, dest, strays>>,
           ~dest.here, safe => prod.step # "recording"
    PROVE  RecInv'
<1>1. /\ rec' \in RecRecord /\ rec'.step = "done"
  BY GoFields DEF RecInv, RecFails
<1>2. RecTypeOK' /\ StreamOK' /\ AnswerOK'
  <2>1. staging' \in StagingDirs BY NoDirIsDir DEF RecInv, RecTypeOK, RecFails, Quarantined
  <2> QED BY <1>1, <2>1, PartsKeep DEF Unasked
<1>3. ReportOK' /\ ReadOK' BY <1>1 DEF ReportOK, ReadOK, Reported
<1>4. DestOK' /\ RecordingHonest' BY <1>1 DEF DestOK, RecordingHonest
<1>5. CapsuleOK' BY <1>1 DEF CapsuleOK
<1>6. CapsuleHonest' BY DEF RecFails, Ends, CapsuleHonest, RecParts
<1> QED BY <1>2, <1>3, <1>4, <1>5, <1>6 DEF RecInv

\* The steps before the bundle is renamed, other than failures.
LEMMA AdvanceKeeps ==
    ASSUME RecInv, UNCHANGED <<RecParts, dest, strays>>,
           NEW x \in {"reading", "recheck", "finalizing", "manifest", "unmarked"},
           rec' \in RecRecord, staging' \in StagingDirs, rec'.step = x, rec'.report = rec.report, rec'.snapshot = rec.snapshot,
           rec.step \in Reported \ {"renamed", "published"},
           capsule' = capsule \/ Ends("finalizing", FALSE),
           ReadOK',
           x \in {"manifest", "unmarked"} => staging'.records = sink.lines /\ Validate(sink.lines, rec.report) # "error"
    PROVE  RecInv'
<1>1. RecTypeOK' /\ StreamOK' /\ AnswerOK' /\ \A r : CleanupSafe(r)' = CleanupSafe(r) BY PartsKeep DEF Unasked
<1>2. x \in Reported /\ x \notin {"renamed", "published"} BY DEF Reported
<1>3. ReportOK' BY <1>1, <1>2 DEF RecInv, ReportOK, RecParts
<1>4. ~dest.here BY DEF RecInv, DestOK, Reported
<1>5. DestOK' /\ RecordingHonest' BY <1>2, <1>4 DEF DestOK, RecordingHonest, RecParts
<1>6. capsule.state \notin {"published", "publication_failed"} BY DEF RecInv, CapsuleOK, Reported
<1>7. capsule'.state \notin {"published", "publication_failed"} BY <1>6 DEF Ends
<1>8. CapsuleOK' /\ CapsuleHonest' BY <1>7 DEF CapsuleOK, CapsuleHonest
<1> QED BY <1>1, <1>3, <1>5, <1>8 DEF RecInv

LEMMA ReportIsTyped ==
    ASSUME RecInv, rec.step \in Reported
    PROVE  /\ rec.report \in Reports /\ rec.report.final \in Nat /\ rec.read \in Nat /\ clock \in Nat
           /\ CleanupSafe(rec.report) => prod.step # "recording"
BY DEF RecInv, RecTypeOK, RecRecord, ReportOK, Reports

LEMMA StartsReadoutKeeps == RecInv /\ StartsReadout => RecInv'
<1> SUFFICES ASSUME RecInv, StartsReadout PROVE RecInv'
  OBVIOUS
<1>1. rec.step = "readout" /\ UNCHANGED <<RecParts, dest, strays>> /\ RecTypeOK
  BY DEF StartsReadout, RecAt, RecQuiet, RecParts, RecInv
<1>2. rec.step \in Reported \ {"renamed", "published"} /\ ~dest.here BY <1>1 DEF Reported, RecInv, DestOK
<1>3. CASE RecFails(CleanupSafe(rec.report)) BY <1>1, <1>2, <1>3, FailKeeps, ReportIsTyped
<1>4. CASE BoundaryHolds /\ RecGo("reading") /\ UNCHANGED <<capsule, staging>>
  <2>1. "reading" \in Reported BY DEF Reported
  <2>2. /\ rec' \in RecRecord /\ rec'.step = "reading"
        /\ rec'.snapshot = rec.snapshot /\ rec'.report = rec.report /\ rec'.read = rec.read
    BY <1>1, <1>4, <2>1, GoFields
  <2>3. ReadOK' BY <1>1, <1>2, <1>4, <2>2, ReportIsTyped DEF ReadOK, BoundaryHolds, RecParts
  <2> QED BY <1>1, <1>2, <1>4, <2>2, <2>3, AdvanceKeeps DEF RecTypeOK
<1> QED BY <1>3, <1>4 DEF StartsReadout

LEMMA ReadsMemoryKeeps == RecInv /\ ReadsMemory => RecInv'
<1> SUFFICES ASSUME RecInv, ReadsMemory PROVE RecInv'
  OBVIOUS
<1>1. /\ rec.step = "reading" /\ UNCHANGED <<RecParts, dest, strays, capsule, staging>> /\ RecTypeOK
      /\ rec' = [rec EXCEPT !.step = "recheck", !.read = clock]
  BY DEF ReadsMemory, RecAt, RecQuiet, RecParts, RecInv
<1>2. rec.step \in Reported \ {"renamed", "published"} BY <1>1 DEF Reported
<1>3. /\ rec' \in RecRecord /\ rec'.step = "recheck" /\ rec'.read = clock
      /\ rec'.snapshot = rec.snapshot /\ rec'.report = rec.report
  BY <1>1 DEF RecTypeOK, RecRecord, Reported
<1>4. ReadOK' BY <1>1, <1>2, <1>3, ReportIsTyped DEF RecInv, ReadOK, RecParts
<1> QED BY <1>1, <1>2, <1>3, <1>4, AdvanceKeeps DEF RecTypeOK

LEMMA RechecksKeeps == RecInv /\ Rechecks => RecInv'
<1> SUFFICES ASSUME RecInv, Rechecks PROVE RecInv'
  OBVIOUS
<1>1. rec.step = "recheck" /\ UNCHANGED <<RecParts, dest, strays>> /\ RecTypeOK
  BY DEF Rechecks, RecAt, RecQuiet, RecParts, RecInv
<1>2. rec.step \in Reported \ {"renamed", "published"} /\ ~dest.here BY <1>1 DEF Reported, RecInv, DestOK
<1>3. CASE RecFails(CleanupSafe(rec.report)) BY <1>1, <1>2, <1>3, FailKeeps, ReportIsTyped
<1>4. CASE BoundaryHolds /\ RecGo("finalizing") /\ Ends("finalizing", FALSE) /\ UNCHANGED staging
  <2>1. "finalizing" \in Reported BY DEF Reported
  <2>2. /\ rec' \in RecRecord /\ rec'.step = "finalizing"
        /\ rec'.snapshot = rec.snapshot /\ rec'.report = rec.report /\ rec'.read = rec.read
    BY <1>1, <1>4, <2>1, GoFields
  <2>3. rec.read = rec.report.final
    BY <1>1, <1>2, <1>4, ReportIsTyped DEF RecInv, ReadOK, BoundaryHolds
  <2>4. ReadOK' BY <2>2, <2>3 DEF ReadOK
  <2> QED BY <1>1, <1>2, <1>4, <2>2, <2>4, AdvanceKeeps DEF RecTypeOK
<1> QED BY <1>3, <1>4 DEF Rechecks

LEMMA WritesManifestKeeps == RecInv /\ WritesManifest => RecInv'
<1> SUFFICES ASSUME RecInv, WritesManifest PROVE RecInv'
  OBVIOUS
<1>1. rec.step = "finalizing" /\ UNCHANGED <<RecParts, dest, strays>> /\ RecTypeOK
  BY DEF WritesManifest, RecAt, RecQuiet, RecParts, RecInv
<1>2. rec.step \in Reported \ {"renamed", "published"} /\ ~dest.here BY <1>1 DEF Reported, RecInv, DestOK
<1>3. CASE RecFails(CleanupSafe(rec.report)) BY <1>1, <1>2, <1>3, FailKeeps, ReportIsTyped
<1>4. CASE /\ Publishable /\ staging' = [staging EXCEPT !.manifest = TRUE, !.records = sink.lines]
           /\ RecGo("manifest") /\ UNCHANGED capsule
  <2>1. "manifest" \in Reported BY DEF Reported
  <2>2. /\ rec' \in RecRecord /\ rec'.step = "manifest"
        /\ rec'.snapshot = rec.snapshot /\ rec'.report = rec.report /\ rec'.read = rec.read
    BY <1>1, <1>4, <2>1, GoFields
  <2>3. ReadOK' BY <1>1, <2>2 DEF RecInv, ReadOK
  <2>4. staging'.records = sink.lines /\ staging' \in StagingDirs BY <1>4, <1>1 DEF RecTypeOK, StagingDirs
  <2>5. Validate(sink.lines, rec.report) # "error" BY <1>4 DEF Publishable
  <2> QED BY <1>1, <1>2, <1>4, <2>2, <2>3, <2>4, <2>5, AdvanceKeeps
<1> QED BY <1>3, <1>4 DEF WritesManifest

LEMMA UnmarksKeeps == RecInv /\ Unmarks => RecInv'
<1> SUFFICES ASSUME RecInv, Unmarks PROVE RecInv'
  OBVIOUS
<1>1. rec.step = "manifest" /\ UNCHANGED <<RecParts, dest, strays>> /\ RecTypeOK
  BY DEF Unmarks, RecAt, RecQuiet, RecParts, RecInv
<1>2. rec.step \in Reported \ {"renamed", "published"} /\ ~dest.here BY <1>1 DEF Reported, RecInv, DestOK
<1>3. CASE RecFails(CleanupSafe(rec.report)) BY <1>1, <1>2, <1>3, FailKeeps, ReportIsTyped
<1>4. CASE staging' = [staging EXCEPT !.owner = FALSE] /\ RecGo("unmarked") /\ UNCHANGED capsule
  <2>1. "unmarked" \in Reported BY DEF Reported
  <2>2. /\ rec' \in RecRecord /\ rec'.step = "unmarked"
        /\ rec'.snapshot = rec.snapshot /\ rec'.report = rec.report /\ rec'.read = rec.read
    BY <1>1, <1>4, <2>1, GoFields
  <2>3. ReadOK' BY <1>1, <2>2 DEF RecInv, ReadOK
  <2>4. staging'.records = staging.records /\ staging' \in StagingDirs BY <1>4, <1>1 DEF RecTypeOK, StagingDirs
  <2>5. staging.records = sink.lines /\ Validate(sink.lines, rec.report) # "error"
    BY <1>1 DEF RecInv, DestOK
  <2> QED BY <1>1, <1>2, <1>4, <2>2, <2>3, <2>4, <2>5, AdvanceKeeps
<1> QED BY <1>3, <1>4 DEF Unmarks

\* The rename: what it puts at the destination was validated, and is complete only if
\* it is the window.
LEMMA RenamesKeeps == RecInv /\ Renames => RecInv'
<1> SUFFICES ASSUME RecInv, Renames PROVE RecInv'
  OBVIOUS
<1>1. rec.step = "unmarked" /\ UNCHANGED <<RecParts, strays>> /\ RecTypeOK
  BY DEF Renames, RecAt, RecParts, RecInv
<1>2. rec.step \in Reported \ {"renamed", "published"} /\ ~dest.here BY <1>1 DEF Reported, RecInv, DestOK
<1>3. CASE RecFails(CleanupSafe(rec.report)) /\ UNCHANGED dest
  BY <1>1, <1>2, <1>3, FailKeeps, ReportIsTyped
<1>4. CASE /\ dest' = Manifest(staging.records, rec.report, rec.read) /\ staging' = NoDir
           /\ RecGo("renamed") /\ UNCHANGED capsule
  <2>1. "renamed" \in Reported BY DEF Reported
  <2>2. /\ rec' \in RecRecord /\ rec'.step = "renamed"
        /\ rec'.snapshot = rec.snapshot /\ rec'.report = rec.report /\ rec'.read = rec.read
    BY <1>1, <1>4, <2>1, GoFields
  <2>3. RecTypeOK' /\ StreamOK' /\ AnswerOK' /\ \A r : CleanupSafe(r)' = CleanupSafe(r)
    BY <1>1, <1>4, <2>2, NoDirIsDir, PartsKeep DEF Unasked
  <2>4. ReportOK' BY <1>1, <1>2, <2>2, <2>3 DEF RecInv, ReportOK, RecParts
  <2>5. ReadOK' BY <2>2 DEF ReadOK
  <2>6. staging.records = sink.lines /\ Validate(sink.lines, rec.report) # "error" /\ sink.lines \in Seq(Nat)
    BY <1>1 DEF RecInv, DestOK, RecTypeOK
  <2>7. /\ VerifiedBundle(dest') /\ dest'.here = TRUE /\ dest'.records = sink.lines
        /\ dest'.snapshot = rec.read /\ dest'.integrity = Validate(sink.lines, rec.report)
        /\ CleanupSafe(dest'.report) = CleanupSafe(rec.report)
    <3>1. rec.report \in Reports BY <1>2, ReportIsTyped
    <3>2. dest' = Manifest(sink.lines, rec.report, rec.read) BY <1>4, <2>6
    <3> DEFINE m == Manifest(sink.lines, rec.report, rec.read)
    <3>3. /\ VerifiedBundle(m) /\ m.here = TRUE /\ m.records = sink.lines /\ m.snapshot = rec.read
          /\ m.integrity = Validate(sink.lines, rec.report) /\ CleanupSafe(m.report) = CleanupSafe(rec.report)
      <4>1. sink.lines \in Seq(Nat) BY <2>6
      <4>2. Validate(sink.lines, rec.report) # "error" BY <2>6
      <4>3. VerifiedBundle(m) BY ONLY <4>1, <4>2, <3>1, ManifestVerifies
      <4>4. /\ m.here = TRUE /\ m.records = sink.lines /\ m.snapshot = rec.read
            /\ m.integrity = Validate(sink.lines, rec.report)
            /\ m.report = [rec.report EXCEPT !.events = Len(sink.lines)]
        BY DEF Manifest
      <4>5. m.report.clean = rec.report.clean /\ m.report.frozen = rec.report.frozen BY <3>1, <4>4 DEF Reports
      <4>6. CleanupSafe(m.report) = CleanupSafe(rec.report) BY <4>5 DEF CleanupSafe
      <4> QED BY <4>3, <4>4, <4>6
    <3>4. dest' = m BY <3>2
    <3> HIDE DEF m
    <3> QED BY <3>3, <3>4 DEF VerifiedBundle, CleanupSafe
  <2>8. DestOK'
    <3>1. CleanupSafe(dest.report)' = CleanupSafe(dest'.report) BY <1>1 DEF CleanupSafe, RecParts
    <3> QED BY <1>1, <1>2, <2>2, <2>7, <3>1, ReportIsTyped DEF DestOK, RecParts
  <2>9. RecordingHonest'
    <3>1. dest'.integrity = "complete" => sink.lines = Window /\ rec.report.final = RecFrames
      BY <1>2, <2>7, CompleteIsWindow
    <3>2. rec.snapshot => rec.read = rec.report.final BY <1>1 DEF RecInv, ReadOK
    <3>3. VerifiedBundle(dest)' BY <2>7 DEF VerifiedBundle, Validate
    <3>4. Window' = Window BY DEF Window
    <3> QED BY <2>2, <2>7, <3>1, <3>2, <3>3, <3>4 DEF RecordingHonest
  <2>10. capsule.state \notin {"published", "publication_failed"} BY <1>2 DEF RecInv, CapsuleOK, Reported
  <2>11. CapsuleOK' /\ CapsuleHonest' BY <1>4, <2>10 DEF CapsuleOK, CapsuleHonest
  <2> QED BY <2>3, <2>4, <2>5, <2>8, <2>9, <2>11 DEF RecInv
<1> QED BY <1>3, <1>4 DEF Renames

\* What stays true of a bundle that is left where it is.
LEMMA DestStays ==
    ASSUME RecInv, UNCHANGED dest, rec'.snapshot = rec.snapshot
    PROVE  RecordingHonest'
BY DEF RecInv, RecordingHonest, VerifiedBundle, Validate, Window

LEMMA SyncsKeeps == RecInv /\ Syncs => RecInv'
<1> SUFFICES ASSUME RecInv, Syncs PROVE RecInv'
  OBVIOUS
<1>1. rec.step = "renamed" /\ UNCHANGED <<RecParts, staging>> /\ RecTypeOK
  BY DEF Syncs, RecAt, RecParts, RecInv
<1>2. rec.step \in Reported BY <1>1 DEF Reported
<1>3. CASE RecGo("published") /\ UNCHANGED <<capsule, dest, strays>>
  <2>1. "published" \in Reported BY DEF Reported
  <2>2. /\ rec' \in RecRecord /\ rec'.step = "published"
        /\ rec'.snapshot = rec.snapshot /\ rec'.report = rec.report /\ rec'.read = rec.read
    BY <1>1, <1>3, <2>1, GoFields
  <2>3. RecTypeOK' /\ StreamOK' /\ AnswerOK' /\ \A r : CleanupSafe(r)' = CleanupSafe(r)
    BY <1>1, <2>2, PartsKeep DEF Unasked, RecTypeOK
  <2>4. ReportOK' BY <1>1, <1>2, <2>2, <2>3 DEF RecInv, ReportOK, RecParts
  <2>5. ReadOK' BY <2>2 DEF ReadOK
  <2>6. DestOK'
    <3>1. CleanupSafe(dest.report)' = CleanupSafe(dest.report) BY <1>1, <1>3 DEF CleanupSafe, RecParts
    <3> QED BY <1>1, <1>3, <2>2, <3>1 DEF RecInv, DestOK, RecParts
  <2>7. RecordingHonest' BY <1>3, <2>2, DestStays
  <2>8. CapsuleOK' /\ CapsuleHonest' BY <1>1, <1>2, <1>3 DEF RecInv, CapsuleOK, CapsuleHonest, Reported
  <2> QED BY <2>3, <2>4, <2>5, <2>6, <2>7, <2>8 DEF RecInv
<1>4. CASE /\ (dest' = NoBundle /\ UNCHANGED strays) \/ (strays' = TRUE /\ UNCHANGED dest)
           /\ Ends("publication_failed", CleanupSafe(rec.report)) /\ RecGo("done")
  <2>1. rec' \in RecRecord /\ rec'.step = "done" /\ rec'.snapshot = rec.snapshot BY <1>1, <1>4, GoFields
  <2>2. RecTypeOK' /\ StreamOK' /\ AnswerOK'
    BY <1>1, <2>1, PartsKeep DEF Unasked, RecTypeOK
  <2>3. ReportOK' /\ ReadOK' BY <2>1 DEF ReportOK, ReadOK, Reported
  <2>4. CapsuleOK' BY <2>1 DEF CapsuleOK
  <2>5. CleanupSafe(rec.report) => prod.step # "recording" BY <1>2, ReportIsTyped
  <2>6. CASE dest' = NoBundle
    <3>1. ~dest'.here BY <2>6 DEF NoBundle
    <3> QED BY <1>1, <1>4, <2>1, <2>2, <2>3, <2>4, <2>5, <3>1
            DEF RecInv, DestOK, RecordingHonest, CapsuleHonest, Ends, RecParts
  <2>7. CASE strays' = TRUE /\ UNCHANGED dest
    <3>1. CleanupSafe(dest.report)' = CleanupSafe(dest.report) BY <1>1, <2>7 DEF CleanupSafe, RecParts
    <3>2. DestOK' BY <1>1, <2>1, <2>7, <3>1 DEF RecInv, DestOK, RecParts
    <3>3. RecordingHonest' BY <2>1, <2>7, DestStays
    <3>4. CapsuleHonest' BY <1>1, <1>4, <2>5, <2>7 DEF CapsuleHonest, Ends, RecParts
    <3> QED BY <2>2, <2>3, <2>4, <3>2, <3>3, <3>4 DEF RecInv
  <2> QED BY <1>4, <2>6, <2>7
<1> QED BY <1>3, <1>4 DEF Syncs

\* The capsule of a bundle that is there, by the controller that published it or by the
\* one that found it.
LEMMA PublishedKeeps ==
    ASSUME RecInv, UNCHANGED <<RecParts, dest, strays>>, staging' \in StagingDirs, dest.here,
           Ends("published", CleanupSafe(dest.report)), RecGo("done")
    PROVE  RecInv'
<1>1. rec' \in RecRecord /\ rec'.step = "done" /\ rec'.snapshot = rec.snapshot BY GoFields DEF RecInv
<1>2. RecTypeOK' /\ StreamOK' /\ AnswerOK' BY <1>1, PartsKeep DEF Unasked
<1>3. ReportOK' /\ ReadOK' BY <1>1 DEF ReportOK, ReadOK, Reported
<1>4. CleanupSafe(dest.report)' = CleanupSafe(dest.report) BY DEF CleanupSafe, RecParts
<1>5. CleanupSafe(dest.report) => prod.step # "recording" BY DEF RecInv, DestOK
<1>6. DestOK' BY <1>1, <1>4, <1>5 DEF DestOK, RecParts
<1>7. RecordingHonest' BY <1>1, DestStays
<1>8. CapsuleOK' /\ CapsuleHonest' BY <1>1, <1>5 DEF CapsuleOK, CapsuleHonest, Ends, RecParts
<1> QED BY <1>2, <1>3, <1>6, <1>7, <1>8 DEF RecInv

LEMMA FinishesPublishedKeeps == RecInv /\ FinishesPublished => RecInv'
<1> SUFFICES ASSUME RecInv, FinishesPublished PROVE RecInv'
  OBVIOUS
<1>1. dest.here BY DEF FinishesPublished, RecAt, RecInv, DestOK
<1>2. staging' \in StagingDirs BY DEF FinishesPublished, RecInv, RecTypeOK
<1> QED BY <1>1, <1>2, PublishedKeeps DEF FinishesPublished, RecQuiet, RecParts

LEMMA ReconcilesKeeps == RecInv /\ Reconciles => RecInv'
<1> SUFFICES ASSUME RecInv, Reconciles PROVE RecInv'
  OBVIOUS
<1>1. UNCHANGED <<RecParts, dest, strays>> /\ RecGo("done") /\ RecTypeOK
  BY DEF Reconciles, RecQuiet, RecParts, RecInv
<1>2. CASE dest.here /\ Ends("published", CleanupSafe(dest.report)) /\ UNCHANGED staging
  BY <1>1, <1>2, PublishedKeeps DEF RecTypeOK
<1>3. CASE /\ ~dest.here /\ prod.step \in {"ended", "exited"}
           /\ Ends("publication_failed", TRUE) /\ staging' = NoDir
  <2>1. RecFails(TRUE) BY <1>1, <1>3 DEF RecFails, Quarantined
  <2> QED BY <1>1, <1>3, <2>1, FailKeeps
<1> QED BY <1>2, <1>3 DEF Reconciles

-----------------------------------------------------------------------------
(* The steps up to the report *)

\* A step that neither starts the publication nor ends the recording.
LEMMA EarlyKeeps ==
    ASSUME RecInv, UNCHANGED <<dest, strays>>, RecTypeOK', StreamOK', AnswerOK',
           ~dest.here, rec'.step \notin Reported,
           capsule'.state \notin {"published", "publication_failed"}
    PROVE  RecInv'
<1>1. ReportOK' /\ ReadOK' BY DEF ReportOK, ReadOK, Reported
<1>2. DestOK' /\ RecordingHonest' BY DEF DestOK, RecordingHonest, Reported
<1>3. CapsuleOK' /\ CapsuleHonest' BY DEF CapsuleOK, CapsuleHonest
<1> QED BY <1>1, <1>2, <1>3 DEF RecInv

LEMMA PreparesKeeps == RecInv /\ Prepares => RecInv'
<1> SUFFICES ASSUME RecInv, Prepares PROVE RecInv'
  OBVIOUS
<1>1. /\ rec.step = "prepare" /\ UNCHANGED <<RecParts, dest, strays>> /\ RecTypeOK /\ Ends("arming", FALSE)
      /\ RecGo("arming") /\ staging' = [NoDir EXCEPT !.here = TRUE, !.owner = TRUE]
  BY DEF Prepares, RecAt, RecQuiet, RecParts, RecInv
<1>2. rec' \in RecRecord /\ rec'.step = "arming" BY <1>1, GoFields DEF Unasked
<1>3. staging' \in StagingDirs BY <1>1, NoDirIsDir DEF StagingDirs
<1>4. RecTypeOK' /\ StreamOK' /\ AnswerOK' BY <1>1, <1>2, <1>3, PartsKeep DEF Unasked
<1>5. ~dest.here BY <1>1 DEF RecInv, DestOK
<1> QED BY <1>1, <1>2, <1>4, <1>5, EarlyKeeps DEF Reported, Ends

LEMMA OpensSinkKeeps == RecInv /\ OpensSink => RecInv'
<1> SUFFICES ASSUME RecInv, OpensSink PROVE RecInv'
  OBVIOUS
<1>1. /\ rec.step = "arming" /\ sink' = [sink EXCEPT !.step = "reading"] /\ RecGo("armed") /\ RecTypeOK
      /\ UNCHANGED <<capsule, staging, dest, strays, pipe, prod, clock, answer>>
  BY DEF OpensSink, RecAt, RecInv
<1>2. rec' \in RecRecord /\ rec'.step = "armed" BY <1>1, GoFields DEF Unasked
<1>3. /\ sink' \in [step : {"none", "reading", "ended"}, lines : Seq(Nat), truncated : BOOLEAN, error : BOOLEAN]
      /\ sink'.lines = sink.lines /\ sink'.step = "reading"
  BY <1>1 DEF RecTypeOK
<1>4. RecTypeOK' BY <1>1, <1>2, <1>3 DEF RecTypeOK
<1>5. prod.step = "idle" /\ answer.kind = "none" BY <1>1 DEF RecInv, AnswerOK, Unasked
<1>6. StreamOK' BY <1>1, <1>3, <1>5 DEF RecInv, StreamOK
<1>7. AnswerOK' BY <1>1, <1>5 DEF AnswerOK
<1>8. ~dest.here /\ capsule.state \notin {"published", "publication_failed"}
  BY <1>1 DEF RecInv, DestOK, CapsuleOK
<1> QED BY <1>1, <1>2, <1>4, <1>6, <1>7, <1>8, EarlyKeeps DEF Reported

LEMMA DispatchesKeeps == RecInv /\ Dispatches => RecInv'
<1> SUFFICES ASSUME RecInv, Dispatches PROVE RecInv'
  OBVIOUS
<1>1. /\ rec.step = "armed" /\ RecGo("calling") /\ RecTypeOK
      /\ UNCHANGED <<capsule, staging, dest, strays, sink, clock>>
  BY DEF Dispatches, RecAt, RecInv
<1>2. rec' \in RecRecord /\ rec'.step = "calling" BY <1>1, GoFields
<1>3. /\ prod.step = "idle" /\ answer.kind = "none" /\ clock = 0 /\ prod.dropped = 0
      /\ sink.lines = <<>> /\ pipe.lines = <<>> /\ ~pipe.open
  BY <1>1 DEF RecInv, AnswerOK, Unasked, StreamOK
<1>4. ~dest.here /\ capsule.state \notin {"published", "publication_failed"}
  BY <1>1 DEF RecInv, DestOK, CapsuleOK
<1>5. CASE answer' = [kind |-> "rejected"] /\ UNCHANGED <<prod, pipe>>
  <2>1. RecTypeOK' BY <1>1, <1>2, <1>5 DEF RecTypeOK
  <2>2. StreamOK' BY <1>1, <1>5 DEF RecInv, StreamOK
  <2>3. AnswerOK' BY <1>2, <1>3, <1>5 DEF AnswerOK, Unasked
  <2> QED BY <1>1, <1>2, <1>4, <2>1, <2>2, <2>3, EarlyKeeps DEF Reported
<1>6. CASE /\ prod' = [prod EXCEPT !.step = "recording", !.clean = FALSE]
           /\ pipe' = [pipe EXCEPT !.open = TRUE] /\ UNCHANGED answer
  <2>1. /\ prod' \in [step : {"idle", "recording", "ended", "exited"}, dropped : Nat, sent : Nat, clean : BOOLEAN]
        /\ prod'.step = "recording" /\ prod'.dropped = 0
        /\ pipe' \in [lines : Seq(Nat), open : BOOLEAN, partial : BOOLEAN] /\ pipe'.lines = <<>>
    BY <1>1, <1>3, <1>6 DEF RecTypeOK
  <2>2. RecTypeOK' BY <1>1, <1>2, <1>6, <2>1 DEF RecTypeOK
  <2>3. StreamOK'
    <3>1. Len(sink'.lines) = 0 /\ Len(pipe'.lines) = 0 /\ clock' = 0 BY <1>1, <1>3, <2>1
    <3> QED BY <2>1, <3>1 DEF StreamOK
  <2>4. AnswerOK' BY <1>2, <1>3, <1>6 DEF AnswerOK, Unasked
  <2> QED BY <1>1, <1>2, <1>4, <2>2, <2>3, <2>4, EarlyKeeps DEF Reported
<1> QED BY <1>5, <1>6 DEF Dispatches

LEMMA ObservesKeeps == RecInv /\ Observes => RecInv'
<1> SUFFICES ASSUME RecInv, Observes PROVE RecInv'
  OBVIOUS
<1>1. /\ rec.step = "calling" /\ rec' = rec /\ UNCHANGED <<RecParts, dest, strays, staging>> /\ RecTypeOK
      /\ Ends("armed", FALSE) \/ Ends("recording", FALSE)
  BY DEF Observes, RecAt, RecQuiet, RecParts, RecInv
<1>2. RecTypeOK' /\ StreamOK' /\ AnswerOK' BY <1>1, PartsKeep DEF RecTypeOK
<1>3. ~dest.here BY <1>1 DEF RecInv, DestOK
<1>4. capsule'.state \notin {"published", "publication_failed"} BY <1>1 DEF Ends
<1> QED BY <1>1, <1>2, <1>3, <1>4, EarlyKeeps DEF Reported

LEMMA CallEndsKeeps == RecInv /\ CallEnds => RecInv'
<1> SUFFICES ASSUME RecInv, CallEnds PROVE RecInv'
  OBVIOUS
<1>1. /\ rec.step = "calling" /\ RecGo("closing") /\ RecTypeOK /\ answer' \in {answer, [kind |-> "error"]}
      /\ UNCHANGED <<capsule, staging, dest, strays, sink, pipe, prod, clock>>
  BY DEF CallEnds, RecAt, RecInv
<1>2. rec' \in RecRecord /\ rec'.step = "closing" BY <1>1, GoFields
<1>3. RecTypeOK' BY <1>1, <1>2 DEF RecTypeOK
<1>4. StreamOK' BY <1>1 DEF RecInv, StreamOK
<1>5. AnswerOK' BY <1>1, <1>2 DEF RecInv, AnswerOK, Unasked
<1>6. ~dest.here /\ capsule.state \notin {"published", "publication_failed"}
  BY <1>1 DEF RecInv, DestOK, CapsuleOK
<1> QED BY <1>1, <1>2, <1>3, <1>4, <1>5, <1>6, EarlyKeeps DEF Reported

\* Nothing was dispatched: there is nothing to clean up.
LEMMA SetupFailsKeeps == RecInv /\ SetupFails => RecInv'
<1> SUFFICES ASSUME RecInv, SetupFails PROVE RecInv'
  OBVIOUS
<1>1. /\ rec.step \in {"arming", "armed"} /\ Ends("publication_failed", TRUE) /\ Quarantined /\ RecGo("done")
      /\ sink' = [sink EXCEPT !.step = "none"] /\ RecTypeOK
      /\ UNCHANGED <<dest, strays, pipe, prod, clock, answer>>
  BY DEF SetupFails, RecInv
<1>2. rec' \in RecRecord /\ rec'.step = "done" BY <1>1, GoFields
<1>3. prod.step = "idle" /\ answer.kind = "none" /\ ~dest.here
  BY <1>1 DEF RecInv, AnswerOK, Unasked, DestOK
<1>4. /\ sink' \in [step : {"none", "reading", "ended"}, lines : Seq(Nat), truncated : BOOLEAN, error : BOOLEAN]
      /\ sink'.lines = sink.lines
  BY <1>1 DEF RecTypeOK
<1>5. staging' \in StagingDirs BY <1>1, NoDirIsDir DEF RecTypeOK, Quarantined
<1>6. RecTypeOK' BY <1>1, <1>2, <1>4, <1>5 DEF RecTypeOK
<1>7. StreamOK'
  <2>1. sink.lines = <<>> /\ pipe.lines = <<>> /\ ~pipe.open /\ clock = 0 BY <1>3 DEF RecInv, StreamOK
  <2> QED BY <1>1, <1>3, <1>4, <2>1 DEF RecInv, StreamOK
<1>8. AnswerOK' BY <1>1, <1>3 DEF AnswerOK
<1>9. ReportOK' /\ ReadOK' /\ DestOK' /\ RecordingHonest'
  BY <1>1, <1>2, <1>3 DEF ReportOK, ReadOK, DestOK, RecordingHonest, Reported
<1>10. CapsuleOK' /\ CapsuleHonest' BY <1>1, <1>2, <1>3 DEF CapsuleOK, CapsuleHonest, Ends
<1> QED BY <1>6, <1>7, <1>8, <1>9, <1>10 DEF RecInv

\* What is inferred without a terminal says that nothing is left behind only of a
\* producer that refused or has exited.
LEMMA ClosesKeeps == RecInv /\ Closes => RecInv'
<1> SUFFICES ASSUME RecInv, Closes PROVE RecInv'
  OBVIOUS
<1> DEFINE late == sink.step = "reading"
           sunk == [truncated |-> sink.truncated,
                    error |-> IF answer.kind = "rejected" THEN sink.error /\ sink.lines # <<>>
                              ELSE sink.error \/ late]
           report == IF answer.kind = "terminal" THEN answer.report ELSE Inferred
           x == IF rec.snapshot THEN "readout" ELSE "finalizing"
<1>1. /\ rec.step = "closing" /\ RecTypeOK
      /\ rec' = [rec EXCEPT !.step = x, !.report = Applied(report, sunk)]
      /\ sink' = [sink EXCEPT !.step = "ended"]
      /\ Ends(IF rec.snapshot THEN "frozen_readout" ELSE "finalizing", FALSE)
      /\ UNCHANGED <<staging, dest, strays, pipe, prod, clock, answer>>
  BY DEF Closes, RecAt, RecInv
<1>2. Len(sink.lines) \in Nat /\ sink.truncated \in BOOLEAN /\ sink.error \in BOOLEAN /\ clock \in Nat
  BY <1>1 DEF RecTypeOK
<1>3. Inferred \in Reports /\ Inferred.outcome = "failed"
      /\ (CleanupSafe(Inferred) => prod.step # "recording")
  <2>1. InferredClean(sink.lines = <<>> /\ ~sink.truncated) \in BOOLEAN BY DEF InferredClean
  <2>2. Inferred \in Reports BY <1>2, <2>1, RecAssumption DEF Inferred, Reports
  <2>3. Inferred.outcome = "failed" /\ Inferred.frozen = (prod.step = "exited") BY DEF Inferred
  <2>4. answer.kind = "rejected" => prod.step = "idle" BY DEF RecInv, AnswerOK
  <2> QED BY <2>2, <2>3, <2>4 DEF CleanupSafe
<1>4. /\ report \in Reports
      /\ CleanupSafe(report) => prod.step # "recording"
      /\ report.outcome = "completed" => prod.step \in {"ended", "exited"} /\ report.dropped = prod.dropped
  <2>1. CASE answer.kind = "terminal"
    <3>1. answer.report \in Reports BY <1>1, <2>1 DEF RecTypeOK
    <3>2. prod.step \in {"ended", "exited"} /\ answer.report.dropped = prod.dropped
      BY <2>1 DEF RecInv, AnswerOK
    <3> QED BY <2>1, <3>1, <3>2
  <2>2. CASE answer.kind # "terminal" BY <1>3, <2>2
  <2> QED BY <2>1, <2>2
<1>5. sunk.truncated \in BOOLEAN /\ sunk.error \in BOOLEAN BY <1>2
<1> HIDE DEF report, sunk
<1> DEFINE r == Applied(report, sunk)
<1>6. /\ r \in Reports /\ (r.clean => report.clean) /\ r.frozen = report.frozen
      /\ r.outcome = "completed" => r = report
  BY <1>4, <1>5 DEF Applied, Reports
<1>7. /\ CleanupSafe(r) => prod.step # "recording"
      /\ r.outcome = "completed" => prod.step \in {"ended", "exited"} /\ r.dropped = prod.dropped
  BY <1>4, <1>6 DEF CleanupSafe
<1> HIDE DEF r
<1>8. x \in Reported /\ x \in {"readout", "finalizing"} BY DEF Reported
<1>9. rec' \in RecRecord /\ rec'.step = x /\ rec'.report = r /\ rec'.snapshot = rec.snapshot
  <2>1. rec' = [rec EXCEPT !.step = x, !.report = r] BY <1>1 DEF r
  <2> HIDE DEF x
  <2> QED BY <1>1, <1>6, <1>8, <2>1 DEF RecTypeOK, RecRecord
<1>10. /\ sink' \in [step : {"none", "reading", "ended"}, lines : Seq(Nat), truncated : BOOLEAN, error : BOOLEAN]
       /\ sink'.lines = sink.lines /\ sink'.step = "ended"
  BY <1>1 DEF RecTypeOK
<1>11. RecTypeOK' BY <1>1, <1>9, <1>10 DEF RecTypeOK
<1>12. StreamOK' BY <1>1, <1>10 DEF RecInv, StreamOK
<1>13. AnswerOK' BY <1>1, <1>8, <1>9 DEF RecInv, AnswerOK, Unasked
<1>14. ReportOK'
  <2>1. CleanupSafe(rec.report)' = CleanupSafe(r) BY <1>1, <1>9 DEF CleanupSafe
  <2> QED BY <1>1, <1>6, <1>7, <1>9, <1>10, <2>1 DEF ReportOK
<1>15. ReadOK' BY <1>9 DEF ReadOK
<1>16. ~dest.here BY <1>1 DEF RecInv, DestOK
<1>17. DestOK' /\ RecordingHonest' BY <1>1, <1>8, <1>9, <1>16 DEF DestOK, RecordingHonest
<1>18. CapsuleOK' /\ CapsuleHonest' BY <1>1 DEF CapsuleOK, CapsuleHonest, Ends
<1> QED BY <1>11, <1>12, <1>13, <1>14, <1>15, <1>17, <1>18 DEF RecInv

LEMMA RecorderDiesKeeps == RecInv /\ RecorderDies => RecInv'
<1> SUFFICES ASSUME RecInv, RecorderDies PROVE RecInv'
  OBVIOUS
<1>1. /\ rec.step # "done" /\ RecGo("dead") /\ sink' = [sink EXCEPT !.step = "ended"] /\ RecTypeOK
      /\ UNCHANGED <<capsule, staging, dest, strays, pipe, prod, clock, answer>>
  BY DEF RecorderDies, RecInv
<1>2. rec' \in RecRecord /\ rec'.step = "dead" /\ rec'.snapshot = rec.snapshot BY <1>1, GoFields
<1>3. /\ sink' \in [step : {"none", "reading", "ended"}, lines : Seq(Nat), truncated : BOOLEAN, error : BOOLEAN]
      /\ sink'.lines = sink.lines /\ sink'.step = "ended"
  BY <1>1 DEF RecTypeOK
<1>4. RecTypeOK' BY <1>1, <1>2, <1>3 DEF RecTypeOK
<1>5. StreamOK' BY <1>1, <1>3 DEF RecInv, StreamOK
<1>6. AnswerOK' BY <1>1, <1>2 DEF RecInv, AnswerOK, Unasked
<1>7. ReportOK' /\ ReadOK' BY <1>2 DEF ReportOK, ReadOK, Reported
<1>8. DestOK'
  <2>1. CleanupSafe(dest.report)' = CleanupSafe(dest.report) BY <1>1 DEF CleanupSafe
  <2> QED BY <1>1, <1>2, <2>1 DEF RecInv, DestOK
<1>9. RecordingHonest' BY <1>1, <1>2, DestStays
<1>10. CapsuleOK' /\ CapsuleHonest' BY <1>1 DEF RecInv, CapsuleOK, CapsuleHonest
<1> QED BY <1>4, <1>5, <1>6, <1>7, <1>8, <1>9, <1>10 DEF RecInv

-----------------------------------------------------------------------------
(* The sink and the producer *)

\* A step that is none of the controller's keeps what the controller has done, provided
\* that a sink which has ended and a producer which has ended stay as they are.
LEMMA OutsideKeeps ==
    ASSUME RecInv, UNCHANGED <<rec, capsule, staging, dest, strays>>, RecTypeOK', StreamOK', AnswerOK',
           sink.step = "ended" => sink' = sink,
           prod'.step = "recording" => prod.step = "recording",
           prod.step \in {"ended", "exited"} => prod'.step \in {"ended", "exited"} /\ prod'.dropped = prod.dropped,
           clock' \in Nat, clock <= clock',
           answer' = answer \/ prod'.step # "recording"
    PROVE  RecInv'
<1>1. ASSUME NEW r, CleanupSafe(r) => prod.step # "recording" PROVE CleanupSafe(r)' => prod'.step # "recording"
  BY <1>1 DEF CleanupSafe
<1>2. ReportOK'
  <2> SUFFICES ASSUME rec.step \in Reported PROVE ReportOK'
    BY DEF ReportOK
  <2>1. CleanupSafe(rec.report)' => prod'.step # "recording" BY <1>1 DEF RecInv, ReportOK, CleanupSafe
  <2> QED BY <2>1 DEF RecInv, ReportOK
<1>3. ReadOK'
  <2>1. rec.read \in Nat /\ clock \in Nat BY DEF RecInv, RecTypeOK, RecRecord
  <2>2. rec.step \in {"reading", "recheck"} => rec.report.final \in Nat
    BY ReportIsTyped DEF Reported
  <2> QED BY <2>1, <2>2 DEF RecInv, ReadOK
<1>4. DestOK'
  <2>1. rec.step \in {"manifest", "unmarked"} => sink' = sink BY DEF RecInv, ReportOK, Reported
  <2>2. dest.here => (CleanupSafe(dest.report)' => prod'.step # "recording")
    BY <1>1 DEF RecInv, DestOK, CleanupSafe
  <2>3. Validate(sink.lines, rec.report)' = Validate(sink'.lines, rec.report) BY DEF Validate
  <2> QED BY <2>1, <2>2, <2>3 DEF RecInv, DestOK
<1>5. RecordingHonest' BY DestStays
<1>6. CapsuleOK' /\ CapsuleHonest' BY DEF RecInv, CapsuleOK, CapsuleHonest
<1> QED BY <1>2, <1>3, <1>4, <1>5, <1>6 DEF RecInv

\* Appending the next number to a run of consecutive numbers, and taking its first off.
LEMMA RunGrows ==
    ASSUME NEW s \in Seq(Nat), NEW b \in Nat, \A i \in 1 .. Len(s) : s[i] = b + i
    PROVE  /\ Append(s, b + Len(s) + 1) \in Seq(Nat)
           /\ Len(Append(s, b + Len(s) + 1)) = Len(s) + 1
           /\ \A i \in 1 .. Len(s) + 1 : Append(s, b + Len(s) + 1)[i] = b + i
<1> DEFINE t == Append(s, b + Len(s) + 1)
<1>1. Len(s) \in Nat /\ b + Len(s) + 1 \in Nat OBVIOUS
<1>2. t \in Seq(Nat) /\ Len(t) = Len(s) + 1 BY <1>1
<1>3. ASSUME NEW i \in 1 .. Len(s) + 1 PROVE t[i] = b + i
  <2>1. CASE i = Len(s) + 1
    <3>1. t[Len(s) + 1] = b + Len(s) + 1 BY <1>1
    <3> QED BY <1>1, <2>1, <3>1
  <2>2. CASE i \in 1 .. Len(s) BY <1>1, <2>2
  <2> QED BY <1>1, <2>1, <2>2
<1> QED BY <1>2, <1>3

LEMMA RunShrinks ==
    ASSUME NEW s \in Seq(Nat), s # <<>>, NEW b \in Nat, \A i \in 1 .. Len(s) : s[i] = b + i
    PROVE  /\ Tail(s) \in Seq(Nat) /\ Len(Tail(s)) = Len(s) - 1 /\ Head(s) = b + 1
           /\ \A i \in 1 .. Len(Tail(s)) : Tail(s)[i] = (b + 1) + i
<1>1. Len(s) \in Nat /\ 1 \in 1 .. Len(s) /\ Head(s) = s[1] OBVIOUS
<1>2. Tail(s) \in Seq(Nat) /\ Len(Tail(s)) = Len(s) - 1 BY <1>1
<1>3. ASSUME NEW i \in 1 .. Len(Tail(s)) PROVE Tail(s)[i] = (b + 1) + i
  <2>1. i + 1 \in 1 .. Len(s) /\ i \in Nat /\ Tail(s)[i] = s[i + 1] BY <1>1, <1>2
  <2>2. s[i + 1] = b + (i + 1) BY <2>1
  <2> QED BY <2>1, <2>2
<1> QED BY <1>1, <1>2, <1>3

LEMMA SinkReadsKeeps == RecInv /\ SinkReads => RecInv'
<1> SUFFICES ASSUME RecInv, SinkReads PROVE RecInv'
  OBVIOUS
<1>1. /\ sink.step = "reading" /\ pipe.lines # <<>> /\ pipe' = [pipe EXCEPT !.lines = Tail(@)] /\ RecTypeOK
      /\ UNCHANGED <<rec, capsule, staging, dest, strays, prod, clock, answer>>
  BY DEF SinkReads, RecInv
<1>2. /\ sink.lines \in Seq(Nat) /\ pipe.lines \in Seq(Nat) /\ Len(sink.lines) \in Nat /\ Len(pipe.lines) \in Nat
  BY <1>1 DEF RecTypeOK
<1>3. /\ Tail(pipe.lines) \in Seq(Nat) /\ Len(Tail(pipe.lines)) = Len(pipe.lines) - 1
      /\ Head(pipe.lines) = pipe.lines[1] /\ Head(pipe.lines) \in Nat /\ 1 \in 1 .. Len(pipe.lines)
      /\ \A i \in 1 .. Len(pipe.lines) - 1 : i + 1 \in 1 .. Len(pipe.lines) /\ Tail(pipe.lines)[i] = pipe.lines[i + 1]
  BY <1>1, <1>2
<1>4. /\ pipe' \in [lines : Seq(Nat), open : BOOLEAN, partial : BOOLEAN]
      /\ pipe'.lines = Tail(pipe.lines) /\ pipe'.open = pipe.open
  BY <1>1, <1>3 DEF RecTypeOK
<1>5. AnswerOK' BY <1>1 DEF RecInv, AnswerOK
<1>6. prod.step # "idle" BY <1>1 DEF RecInv, StreamOK
<1>7. CASE sink' = [sink EXCEPT !.lines = Append(@, Head(pipe.lines))]
  <2> DEFINE longer == Append(sink.lines, Head(pipe.lines))
  <2>1. /\ longer \in Seq(Nat) /\ Len(longer) = Len(sink.lines) + 1
        /\ longer[Len(sink.lines) + 1] = Head(pipe.lines)
        /\ \A i \in 1 .. Len(sink.lines) : longer[i] = sink.lines[i]
    BY <1>2, <1>3
  <2>2. /\ sink' \in [step : {"none", "reading", "ended"}, lines : Seq(Nat), truncated : BOOLEAN, error : BOOLEAN]
        /\ sink'.lines = longer /\ sink'.step = sink.step
    BY <1>1, <1>7, <2>1 DEF RecTypeOK
  <2> HIDE DEF longer
  <2>3. RecTypeOK' BY <1>1, <1>4, <2>2 DEF RecTypeOK
  <2>4. StreamOK'
    <3> SUFFICES ASSUME prod.dropped = 0
                 PROVE  /\ \A i \in 1 .. Len(longer) : longer[i] = i
                        /\ \A i \in 1 .. Len(Tail(pipe.lines)) : Tail(pipe.lines)[i] = Len(longer) + i
                        /\ pipe.open => Len(longer) + Len(Tail(pipe.lines)) = clock
      BY <1>1, <1>4, <1>6, <2>2 DEF RecInv, StreamOK
    <3>1. /\ \A i \in 1 .. Len(sink.lines) : sink.lines[i] = i
          /\ \A i \in 1 .. Len(pipe.lines) : pipe.lines[i] = Len(sink.lines) + i
          /\ pipe.open => Len(sink.lines) + Len(pipe.lines) = clock
      BY <1>1 DEF RecInv, StreamOK
    <3>5. Head(pipe.lines) = Len(sink.lines) + 1 BY <1>1, <1>2, <3>1, RunShrinks
    <3>6. longer = Append(sink.lines, 0 + Len(sink.lines) + 1) BY <1>2, <3>5 DEF longer
    <3>7. \A i \in 1 .. Len(sink.lines) : sink.lines[i] = 0 + i BY <1>2, <3>1
    <3>8. \A i \in 1 .. Len(sink.lines) + 1 : longer[i] = 0 + i
      BY ONLY <1>2, <3>6, <3>7, 0 \in Nat, RunGrows
    <3>2. \A i \in 1 .. Len(longer) : longer[i] = i BY <1>2, <2>1, <3>8
    <3>9. \A i \in 1 .. Len(Tail(pipe.lines)) : Tail(pipe.lines)[i] = (Len(sink.lines) + 1) + i
      BY <1>1, <1>2, <3>1, RunShrinks
    <3>3. \A i \in 1 .. Len(Tail(pipe.lines)) : Tail(pipe.lines)[i] = Len(longer) + i
      BY <2>1, <3>9
    <3>4. pipe.open => Len(longer) + Len(Tail(pipe.lines)) = clock
      <4>1. Len(longer) = Len(sink.lines) + 1 /\ Len(Tail(pipe.lines)) = Len(pipe.lines) - 1 BY <1>3, <2>1
      <4>2. Len(sink.lines) \in Nat /\ Len(pipe.lines) \in Nat BY <1>2
      <4>3. pipe.open => Len(sink.lines) + Len(pipe.lines) = clock BY <3>1
      <4>4. PICK a \in Nat, b \in Nat : Len(sink.lines) = a /\ Len(pipe.lines) = b BY <4>2
      <4>5. Len(longer) = a + 1 /\ Len(Tail(pipe.lines)) = b - 1 /\ (pipe.open => a + b = clock)
        BY <4>1, <4>3, <4>4
      <4>6. (a + 1) + (b - 1) = a + b OBVIOUS
      <4> QED BY <4>5, <4>6
    <3> QED BY <3>2, <3>3, <3>4
  <2>5. clock \in Nat BY <1>1 DEF RecTypeOK
  <2> QED BY <1>1, <1>5, <2>3, <2>4, <2>5, OutsideKeeps
<1>8. CASE sink' = [sink EXCEPT !.step = "ended", !.error = TRUE]
  <2>1. /\ sink' \in [step : {"none", "reading", "ended"}, lines : Seq(Nat), truncated : BOOLEAN, error : BOOLEAN]
        /\ sink'.lines = sink.lines /\ sink'.step = "ended"
    BY <1>1, <1>8 DEF RecTypeOK
  <2>2. RecTypeOK' BY <1>1, <1>4, <2>1 DEF RecTypeOK
  <2>3. StreamOK' BY <1>1, <1>4, <1>6, <2>1 DEF RecInv, StreamOK
  <2>4. clock \in Nat BY <1>1 DEF RecTypeOK
  <2> QED BY <1>1, <1>5, <2>2, <2>3, <2>4, OutsideKeeps
<1> QED BY <1>7, <1>8 DEF SinkReads

LEMMA SinkEofKeeps == RecInv /\ SinkEof => RecInv'
<1> SUFFICES ASSUME RecInv, SinkEof PROVE RecInv'
  OBVIOUS
<1>1. /\ sink.step = "reading" /\ sink' = [sink EXCEPT !.step = "ended", !.truncated = pipe.partial] /\ RecTypeOK
      /\ UNCHANGED <<rec, capsule, staging, dest, strays, pipe, prod, clock, answer>>
  BY DEF SinkEof, RecInv
<1>2. /\ sink' \in [step : {"none", "reading", "ended"}, lines : Seq(Nat), truncated : BOOLEAN, error : BOOLEAN]
      /\ sink'.lines = sink.lines /\ sink'.step = "ended"
  BY <1>1 DEF RecTypeOK
<1>3. RecTypeOK' BY <1>1, <1>2 DEF RecTypeOK
<1>4. StreamOK' BY <1>1, <1>2 DEF RecInv, StreamOK
<1>5. AnswerOK' BY <1>1 DEF RecInv, AnswerOK
<1>6. clock \in Nat BY <1>1 DEF RecTypeOK
<1> QED BY <1>1, <1>3, <1>4, <1>5, <1>6, OutsideKeeps

LEMMA ProdFrameKeeps == RecInv /\ ProdFrame => RecInv'
<1> SUFFICES ASSUME RecInv, ProdFrame PROVE RecInv'
  OBVIOUS
<1>1. /\ prod.step = "recording" /\ clock' = clock + 1 /\ RecTypeOK
      /\ UNCHANGED <<rec, capsule, staging, dest, strays, sink, answer>>
  BY DEF ProdFrame, RecInv
<1>2. clock \in Nat /\ clock' \in Nat /\ clock <= clock' BY <1>1 DEF RecTypeOK
<1>3. answer.kind \notin {"rejected", "terminal"} /\ rec.step \notin Unasked BY <1>1 DEF RecInv, AnswerOK
<1>8. /\ prod.sent \in Nat /\ prod.dropped \in Nat /\ prod.sent + 1 \in Nat /\ prod.dropped + 1 \in Nat
      /\ prod.dropped + 1 # 0
  BY <1>1 DEF RecTypeOK
<1>4. ASSUME /\ prod' \in [step : {"idle", "recording", "ended", "exited"}, dropped : Nat, sent : Nat, clean : BOOLEAN]
             /\ prod'.step = "recording",
             pipe' \in [lines : Seq(Nat), open : BOOLEAN, partial : BOOLEAN], StreamOK'
      PROVE  RecInv'
  <2>1. RecTypeOK' BY <1>1, <1>2, <1>4 DEF RecTypeOK
  <2>2. AnswerOK' BY <1>1, <1>3 DEF AnswerOK
  <2> QED BY <1>1, <1>2, <1>4, <2>1, <2>2, OutsideKeeps
<1>5. CASE /\ pipe.open /\ pipe' = [pipe EXCEPT !.lines = Append(@, clock + 1)]
           /\ prod' = [prod EXCEPT !.sent = @ + 1]
  <2> DEFINE longer == Append(pipe.lines, clock + 1)
  <2>1. /\ longer \in Seq(Nat) /\ Len(longer) = Len(pipe.lines) + 1 /\ longer[Len(pipe.lines) + 1] = clock + 1
        /\ Len(pipe.lines) \in Nat /\ Len(sink.lines) \in Nat
        /\ \A i \in 1 .. Len(pipe.lines) : longer[i] = pipe.lines[i]
    <3>1. pipe.lines \in Seq(Nat) /\ sink.lines \in Seq(Nat) BY <1>1 DEF RecTypeOK
    <3> QED BY <1>2, <3>1
  <2>2. /\ pipe' \in [lines : Seq(Nat), open : BOOLEAN, partial : BOOLEAN] /\ pipe'.lines = longer
        /\ pipe'.open = pipe.open
    BY <1>1, <1>5, <2>1 DEF RecTypeOK
  <2>3. /\ prod' \in [step : {"idle", "recording", "ended", "exited"}, dropped : Nat, sent : Nat, clean : BOOLEAN]
        /\ prod'.step = "recording" /\ prod'.dropped = prod.dropped
    BY <1>1, <1>5, <1>8 DEF RecTypeOK
  <2> HIDE DEF longer
  <2>4. StreamOK'
    <3>1. ASSUME prod.dropped = 0, sink.step # "ended"
          PROVE  /\ \A i \in 1 .. Len(longer) : longer[i] = Len(sink.lines) + i
                 /\ Len(sink.lines) + Len(longer) = clock + 1
      <4>1. /\ \A i \in 1 .. Len(pipe.lines) : pipe.lines[i] = Len(sink.lines) + i
            /\ Len(sink.lines) + Len(pipe.lines) = clock
        BY <1>5, <3>1 DEF RecInv, StreamOK
      <4>2. pipe.lines \in Seq(Nat) /\ clock + 1 = Len(sink.lines) + Len(pipe.lines) + 1
        BY <1>1, <1>2, <2>1, <4>1 DEF RecTypeOK
      <4>3. longer = Append(pipe.lines, Len(sink.lines) + Len(pipe.lines) + 1) BY <4>2 DEF longer
      <4>4. \A i \in 1 .. Len(pipe.lines) + 1 : longer[i] = Len(sink.lines) + i
        BY ONLY <2>1, <4>1, <4>2, <4>3, RunGrows
      <4>5. Len(longer) = Len(pipe.lines) + 1 BY <2>1
      <4>7. Len(sink.lines) \in Nat /\ Len(pipe.lines) \in Nat BY <2>1
      <4>8. clock + 1 = Len(sink.lines) + Len(pipe.lines) + 1 BY <4>2
      <4>9. PICK a \in Nat, b \in Nat : Len(sink.lines) = a /\ Len(pipe.lines) = b BY <4>7
      <4>6. Len(sink.lines) + Len(longer) = clock + 1
        <5>1. Len(longer) = b + 1 /\ Len(sink.lines) = a /\ clock + 1 = a + b + 1 BY <4>5, <4>8, <4>9
        <5> QED BY ONLY <5>1
      <4> QED BY <4>4, <4>5, <4>6
    <3> QED BY <1>1, <2>2, <2>3, <3>1 DEF RecInv, StreamOK
  <2> QED BY <1>4, <2>2, <2>3, <2>4
<1>6. CASE prod' = [prod EXCEPT !.dropped = @ + 1] /\ UNCHANGED pipe
  <2>1. /\ prod' \in [step : {"idle", "recording", "ended", "exited"}, dropped : Nat, sent : Nat, clean : BOOLEAN]
        /\ prod'.step = "recording" /\ prod'.dropped # 0
    BY <1>1, <1>6, <1>8 DEF RecTypeOK
  <2>2. StreamOK' BY <2>1 DEF StreamOK
  <2>3. pipe' \in [lines : Seq(Nat), open : BOOLEAN, partial : BOOLEAN] BY <1>1, <1>6 DEF RecTypeOK
  <2> QED BY <1>4, <2>1, <2>2, <2>3
<1>7. CASE /\ pipe' = [pipe EXCEPT !.open = FALSE, !.partial = TRUE] /\ prod' = [prod EXCEPT !.sent = @ + 1]
  <2>1. /\ prod' \in [step : {"idle", "recording", "ended", "exited"}, dropped : Nat, sent : Nat, clean : BOOLEAN]
        /\ prod'.step = "recording" /\ prod'.dropped = prod.dropped
    BY <1>1, <1>7, <1>8 DEF RecTypeOK
  <2>2. pipe' \in [lines : Seq(Nat), open : BOOLEAN, partial : BOOLEAN] /\ pipe'.lines = pipe.lines /\ ~pipe'.open
    BY <1>1, <1>7 DEF RecTypeOK
  <2>3. StreamOK' BY <1>1, <2>1, <2>2 DEF RecInv, StreamOK
  <2> QED BY <1>4, <2>1, <2>2, <2>3
<1> QED BY <1>5, <1>6, <1>7 DEF ProdFrame

LEMMA ProdEndsKeeps == RecInv /\ ProdEnds => RecInv'
<1> SUFFICES ASSUME RecInv, ProdEnds PROVE RecInv'
  OBVIOUS
<1>1. /\ prod.step = "recording" /\ prod' = [prod EXCEPT !.step = "ended", !.clean = TRUE]
      /\ pipe' = [pipe EXCEPT !.open = FALSE] /\ RecTypeOK
      /\ UNCHANGED <<rec, capsule, staging, dest, strays, sink, clock>>
  BY DEF ProdEnds, RecInv
<1>2. PICK o \in {"completed", "failed"}, c \in {"complete", "lossy"} :
        answer' = [kind |-> "terminal",
                   report |-> [outcome |-> o, claimed |-> c, frames |-> clock, final |-> clock,
                               dropped |-> prod.dropped, truncated |-> FALSE, events |-> prod.sent,
                               frozen |-> TRUE, clean |-> TRUE]]
  BY DEF ProdEnds
<1>3. /\ prod' \in [step : {"idle", "recording", "ended", "exited"}, dropped : Nat, sent : Nat, clean : BOOLEAN]
      /\ prod'.step = "ended" /\ prod'.dropped = prod.dropped /\ prod.dropped \in Nat /\ prod.sent \in Nat
      /\ pipe' \in [lines : Seq(Nat), open : BOOLEAN, partial : BOOLEAN] /\ pipe'.lines = pipe.lines /\ ~pipe'.open
      /\ clock \in Nat
  BY <1>1 DEF RecTypeOK
<1>4. /\ answer' \in [kind : {"terminal"}, report : Reports] /\ answer'.kind = "terminal"
      /\ answer'.report.dropped = prod.dropped
  BY <1>2, <1>3 DEF Reports
<1>5. RecTypeOK' BY <1>1, <1>3, <1>4 DEF RecTypeOK
<1>6. StreamOK' BY <1>1, <1>3 DEF RecInv, StreamOK
<1>7. AnswerOK'
  <2>1. rec.step \notin Unasked BY <1>1 DEF RecInv, AnswerOK
  <2> QED BY <1>1, <1>3, <1>4, <2>1 DEF AnswerOK
<1> QED BY <1>1, <1>3, <1>5, <1>6, <1>7, OutsideKeeps

LEMMA EmulatorExitsKeeps == RecInv /\ EmulatorExits => RecInv'
<1> SUFFICES ASSUME RecInv, EmulatorExits PROVE RecInv'
  OBVIOUS
<1>1. /\ prod.step \in {"recording", "ended"} /\ prod' = [prod EXCEPT !.step = "exited"]
      /\ pipe' = [pipe EXCEPT !.open = FALSE] /\ RecTypeOK
      /\ UNCHANGED <<rec, capsule, staging, dest, strays, sink, clock, answer>>
  BY DEF EmulatorExits, RecInv
<1>2. /\ prod' \in [step : {"idle", "recording", "ended", "exited"}, dropped : Nat, sent : Nat, clean : BOOLEAN]
      /\ prod'.step = "exited" /\ prod'.dropped = prod.dropped
      /\ pipe' \in [lines : Seq(Nat), open : BOOLEAN, partial : BOOLEAN] /\ pipe'.lines = pipe.lines /\ ~pipe'.open
      /\ clock \in Nat
  BY <1>1 DEF RecTypeOK
<1>3. RecTypeOK' BY <1>1, <1>2 DEF RecTypeOK
<1>4. StreamOK' BY <1>1, <1>2 DEF RecInv, StreamOK
<1>5. AnswerOK' BY <1>1, <1>2 DEF RecInv, AnswerOK
<1> QED BY <1>1, <1>2, <1>3, <1>4, <1>5, OutsideKeeps

LEMMA ResumesKeeps == RecInv /\ Resumes => RecInv'
<1> SUFFICES ASSUME RecInv, Resumes PROVE RecInv'
  OBVIOUS
<1>1. /\ prod.step = "ended" /\ clock' = clock + 1 /\ RecTypeOK
      /\ UNCHANGED <<rec, capsule, staging, dest, strays, sink, pipe, prod, answer>>
  BY DEF Resumes, RecInv
<1>2. clock \in Nat /\ clock' \in Nat /\ clock <= clock' BY <1>1 DEF RecTypeOK
<1>3. RecTypeOK' BY <1>1, <1>2 DEF RecTypeOK
<1>4. StreamOK' BY <1>1 DEF RecInv, StreamOK
<1>5. AnswerOK' BY <1>1 DEF RecInv, AnswerOK
<1> QED BY <1>1, <1>2, <1>3, <1>4, <1>5, OutsideKeeps

LEMMA RecInvariant == RecSpec => []RecInv
<1>1. RecInit => RecInv BY RecStarts
<1>2. RecInv /\ [RecNext]_recVars => RecInv'
  <2> SUFFICES ASSUME RecInv, [RecNext]_recVars PROVE RecInv'
    OBVIOUS
  <2>1. CASE UNCHANGED recVars
    <3>1. UNCHANGED <<rec, capsule, staging, dest, strays, sink, pipe, prod, clock, answer>> BY <2>1 DEF recVars
    <3>2. RecTypeOK' /\ StreamOK' /\ AnswerOK' BY <3>1 DEF RecInv, RecTypeOK, StreamOK, AnswerOK
    <3>3. clock \in Nat BY DEF RecInv, RecTypeOK
    <3> QED BY <3>1, <3>2, <3>3, OutsideKeeps
  <2>2. CASE RecNext
    BY <2>2, PreparesKeeps, SetupFailsKeeps, OpensSinkKeeps, DispatchesKeeps, ObservesKeeps, CallEndsKeeps,
       ClosesKeeps, StartsReadoutKeeps, ReadsMemoryKeeps, RechecksKeeps, WritesManifestKeeps, UnmarksKeeps,
       RenamesKeeps, SyncsKeeps, FinishesPublishedKeeps, RecorderDiesKeeps, ReconcilesKeeps, SinkReadsKeeps,
       SinkEofKeeps, ProdFrameKeeps, ProdEndsKeeps, EmulatorExitsKeeps, ResumesKeeps
       DEF RecNext
  <2> QED BY <2>1, <2>2
<1> QED BY <1>1, <1>2, PTL DEF RecSpec

\* For a window of any length: a bundle at its destination verifies again, one that is
\* called complete holds every frame of the window and a snapshot read at its end, and
\* a capsule that says how the recording ended is right about the bundle and about the
\* producer, whatever fails or dies on the way (record_window, publish.rs,
\* reconcile_abandoned_capture).
THEOREM RecordingIsSound == RecSpec => []RecordingSound
<1>1. RecInv => RecordingSound BY DEF RecInv, RecordingSound
<1> QED BY <1>1, RecInvariant, PTL

-----------------------------------------------------------------------------
(* The tracking ledger.                                                      *)

LedItems == [id : Nat, kind : Kinds \cup {"artifact", "finding"}]
RunRecs == [sound : BOOLEAN, rom : Roms \cup {"none"}, conn : Conns \cup {"none"},
            status : {"running"} \cup EndStatuses, items : SUBSET LedItems,
            repro : {"savestate_only", "replayable_with_interventions"}]
Workers == [run : Nat \ {0}, copy : RunRecs, id : Nat, asked : BOOLEAN]

LedTypeOK ==
    /\ ledRuns \in Seq(RunRecs) /\ Len(ledRuns) <= MaxRuns
    /\ ledServer \in [up : BOOLEAN, active : Nat, gate : {"free", "held"}, worker : {NoWorker} \cup Workers]
    /\ ledServer.active \in 0 .. Len(ledRuns)
    /\ ledEnded \in [1 .. MaxRuns -> {"none"} \cup EndStatuses]
    /\ ledNext \in Nat /\ ledFaults \in Nat
    /\ ledAcked \subseteq [run : Nat, item : LedItems]

\* What was told is about runs there are.
TellsOfRuns ==
    /\ \A a \in ledAcked : a.run <= Len(ledRuns)
    /\ \A r \in 1 .. MaxRuns : r > Len(ledRuns) => ledEnded[r] = "none"

\* A record that holds what the agent was told of run r.
Holds(run, r) ==
    \A a \in ledAcked : a.run = r =>
        a.item \in run.items /\ (a.item.kind = "load_state" => run.repro = "savestate_only")

\* The copy a hash worker will write back is the record as it is, or as it was before
\* somebody damaged it: nothing else writes while the worker owns the gate.
WorkerOK ==
    ledServer.worker # NoWorker =>
        LET w == ledServer.worker IN
        /\ ledServer.gate = "held" /\ w.run = ledServer.active
        /\ w.copy.sound /\ w.copy.status = "running" /\ ledEnded[w.run] = "none"
        /\ Readable(w.run) => w.copy = ledRuns[w.run]
        /\ Holds(w.copy, w.run)

ActiveRuns ==
    ledServer.active # NoRun /\ Readable(ledServer.active) => ledRuns[ledServer.active].status = "running"

\* Without a fault every record can be read and a connection has one running run.
OneRunning ==
    ledFaults = 0 =>
        /\ \A r \in Ids : Readable(r)
        /\ \A r, q \in Ids :
             /\ ledRuns[r].status = "running" /\ ledRuns[q].status = "running"
             /\ ledRuns[r].conn = ledRuns[q].conn /\ ledRuns[r].conn \in Conns
             => r = q

LedInv ==
    /\ LedTypeOK /\ TellsOfRuns /\ WorkerOK
    /\ LedgerKept /\ ActiveRuns /\ OneRunning

LEMMA LeastNumber ==
    ASSUME NEW T, T \subseteq Nat, T # {}
    PROVE  \E x \in T : \A y \in T : x <= y
<1> DEFINE R == OpToRel(<, Nat)
<1>1. IsWellFoundedOn(R, Nat) BY NatLessThanWellFounded
<1>2. \A x, y \in Nat : <<y, x>> \in R <=> y < x BY DEF OpToRel
<1> HIDE DEF R
<1>3. PICK x \in T : \A y \in T : ~ (<<y, x>> \in R) BY <1>1, WFMin
<1>4. ASSUME NEW y \in T PROVE x <= y
  <2>1. x \in Nat /\ y \in Nat /\ ~(y < x) BY <1>2, <1>3
  <2> QED BY <2>1
<1> QED BY <1>4

\* The newest of some runs is one of them.
LEMMA NewestIsOne ==
    ASSUME NEW n \in Nat, NEW S, S \subseteq 1 .. n, S # {}
    PROVE  Max(S) \in S
<1> DEFINE T == {k \in Nat : \E x \in S : x + k = n}
<1>1. T # {}
  <2>1. PICK x \in S : TRUE OBVIOUS
  <2>2. n - x \in Nat /\ x + (n - x) = n BY <2>1
  <2> QED BY <2>2
<1>2. PICK k \in T : \A y \in T : k <= y BY <1>1, LeastNumber
<1>3. PICK x \in S : x + k = n BY <1>2
<1>4. ASSUME NEW y \in S PROVE x >= y
  <2>1. n - y \in Nat /\ y + (n - y) = n OBVIOUS
  <2>2. k <= n - y BY <1>2, <2>1
  <2>3. x \in Int /\ y \in Int /\ k \in Int BY <1>2, <1>3
  <2> QED BY <1>3, <2>2, <2>3
<1> QED BY <1>3, <1>4 DEF Max

LEMMA IdsAreNumbers == ASSUME LedTypeOK PROVE Ids = 1 .. Len(ledRuns) /\ Len(ledRuns) \in Nat
  BY DEF LedTypeOK, Ids

LEMMA RunIsTyped == ASSUME LedTypeOK, NEW r \in Ids PROVE ledRuns[r] \in RunRecs
  BY IdsAreNumbers DEF LedTypeOK

LEMMA NewRunIsRun ==
    ASSUME NEW rom \in Roms \cup {"none"}, NEW conn \in Conns \cup {"none"}
    PROVE  /\ NewRun(rom, conn) \in RunRecs /\ NewRun(rom, conn).sound
           /\ NewRun(rom, conn).status = "running" /\ NewRun(rom, conn).conn = conn
           /\ NewRun(rom, conn).items = {}
  BY DEF NewRun, RunRecs, DeriveStatus, EndStatuses

LEMMA FinishedRuns ==
    ASSUME LedTypeOK, NEW set, NEW st \in EndStatuses
    PROVE  /\ RunFinished(set, st) \in Seq(RunRecs) /\ Len(RunFinished(set, st)) = Len(ledRuns)
           /\ \A r \in Ids :
                /\ RunFinished(set, st)[r].sound = ledRuns[r].sound
                /\ RunFinished(set, st)[r].items = ledRuns[r].items
                /\ RunFinished(set, st)[r].repro = ledRuns[r].repro
                /\ RunFinished(set, st)[r].conn = ledRuns[r].conn
                /\ RunFinished(set, st)[r].status = IF r \in set /\ Readable(r) THEN st ELSE ledRuns[r].status
<1> DEFINE f == RunFinished(set, st)
           n == Len(ledRuns)
<1>1. Ids = 1 .. n /\ n \in Nat BY IdsAreNumbers
<1>2. f = [r \in 1 .. n |-> IF r \in set /\ Readable(r) THEN [ledRuns[r] EXCEPT !.status = st] ELSE ledRuns[r]]
  BY <1>1 DEF RunFinished
<1>3. ASSUME NEW r \in 1 .. n
      PROVE  /\ f[r] \in RunRecs /\ f[r].sound = ledRuns[r].sound /\ f[r].items = ledRuns[r].items
             /\ f[r].repro = ledRuns[r].repro /\ f[r].conn = ledRuns[r].conn
             /\ f[r].status = IF r \in set /\ Readable(r) THEN st ELSE ledRuns[r].status
  <2>1. ledRuns[r] \in RunRecs BY <1>1, RunIsTyped
  <2>2. CASE r \in set /\ Readable(r)
    <3>1. f[r] = [ledRuns[r] EXCEPT !.status = st] BY <1>2, <2>2
    <3> HIDE DEF f
    <3> QED BY <2>1, <2>2, <3>1 DEF RunRecs
  <2>3. CASE ~(r \in set /\ Readable(r))
    <3>1. f[r] = ledRuns[r] BY <1>2, <2>3
    <3> HIDE DEF f
    <3> QED BY <2>1, <2>3, <3>1
  <2> QED BY <2>2, <2>3
<1>4. f \in [1 .. n -> RunRecs]
  <2>1. DOMAIN f = 1 .. n BY <1>2
  <2>2. f = [r \in 1 .. n |-> f[r]] BY <1>2
  <2> HIDE DEF f
  <2> QED BY <1>3, <2>1, <2>2
<1>5. f \in Seq(RunRecs) /\ Len(f) = n
  <2> HIDE DEF f, n
  <2> QED BY <1>1, <1>4, SeqDef, LenProperties
<1> HIDE DEF f
<1> QED BY <1>1, <1>3, <1>5 DEF f

\* A step that leaves what every record says of its items, and ends runs at most.
LEMMA RewritesKeep ==
    ASSUME LedInv, LedTypeOK', TellsOfRuns', WorkerOK', ActiveRuns', OneRunning',
           UNCHANGED <<ledFindings, ledAcked>>, Len(ledRuns) <= Len(ledRuns'),
           \A r \in Ids : /\ ledRuns'[r].sound = ledRuns[r].sound /\ ledRuns'[r].items = ledRuns[r].items
                          /\ ledRuns'[r].repro = ledRuns[r].repro,
           \A r \in Ids : Readable(r) /\ ledEnded'[r] # "none" => ledRuns'[r].status = ledEnded'[r],
           \A r \in Ids' : r > Len(ledRuns) => ledEnded'[r] = "none"
    PROVE  LedInv'
<1>1. /\ Ids = 1 .. Len(ledRuns) /\ Len(ledRuns) \in Nat
      /\ Ids' = 1 .. Len(ledRuns') /\ Len(ledRuns') \in Nat
  <2>1. LedTypeOK BY DEF LedInv
  <2>2. Ids = 1 .. Len(ledRuns) /\ Len(ledRuns) \in Nat BY <2>1, IdsAreNumbers
  <2>3. Ids' = 1 .. Len(ledRuns') /\ Len(ledRuns') \in Nat BY DEF LedTypeOK, Ids
  <2> QED BY <2>2, <2>3
<1>2. ASSUME NEW a \in ledAcked, a.run # NoRun, Readable(a.run)'
      PROVE  a.item \in ledRuns'[a.run].items /\ (a.item.kind = "load_state" => ledRuns'[a.run].repro = "savestate_only")
  <2>1. a.run \in Ids BY <1>1, <1>2 DEF LedInv, TellsOfRuns, LedTypeOK, NoRun
  <2>2. Readable(a.run) BY <1>2, <2>1 DEF Readable
  <2>3. a.item \in ledRuns[a.run].items /\ (a.item.kind = "load_state" => ledRuns[a.run].repro = "savestate_only")
    BY <1>2, <2>2 DEF LedInv, LedgerKept
  <2> QED BY <2>1, <2>3
<1>3. ASSUME NEW r \in Ids', ledEnded'[r] # "none", Readable(r)' PROVE ledRuns'[r].status = ledEnded'[r]
  <2>1. r \in Ids BY <1>1, <1>3
  <2>2. Readable(r) BY <1>3, <2>1 DEF Readable
  <2> QED BY <1>3, <2>1, <2>2
<1>4. \A a \in ledAcked : a.run = NoRun => a.item.id \in ledFindings BY DEF LedInv, LedgerKept
<1>5. LedgerKept' BY <1>2, <1>3, <1>4 DEF LedgerKept
<1> QED BY <1>5 DEF LedInv

Servers == [up : BOOLEAN, active : Nat, gate : {"free", "held"}, worker : {NoWorker} \cup Workers]

LEMMA ServersAreServers ==
    /\ Up \in Servers /\ Down \in Servers /\ Up.active = 0 /\ Down.active = 0
    /\ Up.worker = NoWorker /\ Down.worker = NoWorker
  BY DEF Up, Down, Servers, NoRun

LEMMA FreeGateNoWorker == ASSUME LedInv, GateFree PROVE ledServer.worker = NoWorker
  BY DEF LedInv, WorkerOK, GateFree

LEMMA WorkerIsThere ==
    ASSUME LedInv
    PROVE  (ledServer.worker.run # NoRun) <=> (ledServer.worker # NoWorker)
<1>1. ledServer.worker \in {NoWorker} \cup Workers BY DEF LedInv, LedTypeOK
<1>2. NoWorker.run = 0 BY DEF NoWorker, NoRun
<1>3. \A w \in Workers : w.run # 0 BY DEF Workers
<1> QED BY <1>1, <1>2, <1>3 DEF NoRun

\* A step that changes nothing on disk.
LEMMA StillKeeps ==
    ASSUME LedInv, UNCHANGED <<ledRuns, ledFindings, ledAcked, ledEnded>>, ledNext' \in Nat,
           ledServer' \in Servers, ledServer'.active \in 0 .. Len(ledRuns), WorkerOK', ActiveRuns',
           ledFaults' = ledFaults \/ ledFaults' = ledFaults + 1
    PROVE  LedInv'
<1>1. ledFaults \in Nat /\ ledFaults' \in Nat /\ (ledFaults' = 0 => ledFaults = 0) BY DEF LedInv, LedTypeOK
<1>2. LedTypeOK' BY <1>1 DEF LedInv, LedTypeOK, Servers
<1>3. TellsOfRuns' BY DEF LedInv, TellsOfRuns
<1>4. OneRunning' BY <1>1 DEF LedInv, OneRunning, Readable, Ids
<1>5. Len(ledRuns) <= Len(ledRuns')
  <2>1. Len(ledRuns) \in Nat BY IdsAreNumbers DEF LedInv
  <2> QED BY <2>1
<1>6. \A r \in Ids : Readable(r) /\ ledEnded'[r] # "none" => ledRuns'[r].status = ledEnded'[r]
  BY DEF LedInv, LedgerKept
<1>7. \A r \in Ids' : r > Len(ledRuns) => ledEnded'[r] = "none"
  <2>1. LedTypeOK BY DEF LedInv
  <2>2. Ids' = 1 .. Len(ledRuns) /\ Len(ledRuns) \in Nat BY <2>1, IdsAreNumbers DEF Ids
  <2> QED BY <2>2
<1> QED BY <1>2, <1>3, <1>4, <1>5, <1>6, <1>7, RewritesKeep

\* A step that ends running runs, and maybe rebinds the server to another one.
LEMMA SupersedeKeeps ==
    ASSUME LedInv, NEW set, \A r \in Ids : r \in set /\ Readable(r) => ledRuns[r].status = "running",
           ledRuns' = RunFinished(set, "aborted"), UNCHANGED <<ledFindings, ledAcked, ledEnded, ledNext>>,
           ledFaults' = ledFaults \/ ledFaults' = ledFaults + 1,
           ledServer' \in Servers, ledServer'.worker = NoWorker,
           ledServer'.active # 0 =>
              ledServer'.active \in Ids \ set /\ ledRuns[ledServer'.active].status = "running"
    PROVE  LedInv'
<1>1. LedTypeOK /\ Ids = 1 .. Len(ledRuns) /\ Len(ledRuns) \in Nat BY IdsAreNumbers DEF LedInv
<1>2. "aborted" \in EndStatuses BY DEF EndStatuses
<1>3. /\ ledRuns' \in Seq(RunRecs) /\ Len(ledRuns') = Len(ledRuns)
      /\ \A r \in Ids :
           /\ ledRuns'[r].sound = ledRuns[r].sound
           /\ ledRuns'[r].items = ledRuns[r].items
           /\ ledRuns'[r].repro = ledRuns[r].repro
           /\ ledRuns'[r].conn = ledRuns[r].conn
           /\ ledRuns'[r].status = IF r \in set /\ Readable(r) THEN "aborted" ELSE ledRuns[r].status
  BY <1>1, <1>2, FinishedRuns
<1>4. Ids' = Ids BY <1>1, <1>3 DEF Ids
<1>5. ledFaults \in Nat /\ ledFaults' \in Nat /\ (ledFaults' = 0 => ledFaults = 0) BY <1>1 DEF LedTypeOK
<1>6. LedTypeOK' BY <1>1, <1>3, <1>5 DEF LedTypeOK, Servers
<1>7. TellsOfRuns' BY <1>3 DEF LedInv, TellsOfRuns
<1>8. WorkerOK' BY DEF WorkerOK
<1>9. ActiveRuns'
  <2> SUFFICES ASSUME ledServer'.active # 0 PROVE ledRuns'[ledServer'.active].status = "running"
    BY DEF ActiveRuns, NoRun
  <2> QED BY <1>3
<1>10. OneRunning'
  <2> SUFFICES ASSUME ledFaults' = 0 PROVE OneRunning'
    BY DEF OneRunning
  <2>1. \A r \in Ids : Readable(r)' BY <1>3, <1>5 DEF LedInv, OneRunning, Readable
  <2>2. \A r \in Ids : ledRuns'[r].status = "running" => ledRuns[r].status = "running" BY <1>3
  <2> QED BY <1>3, <1>4, <1>5, <2>1, <2>2 DEF LedInv, OneRunning
<1>11. \A r \in Ids : Readable(r) /\ ledEnded'[r] # "none" => ledRuns'[r].status = ledEnded'[r]
  <2> SUFFICES ASSUME NEW r \in Ids, Readable(r), ledEnded[r] # "none" PROVE ledRuns'[r].status = ledEnded[r]
    OBVIOUS
  <2>1. ledRuns[r].status = ledEnded[r] BY DEF LedInv, LedgerKept
  <2>2. r \in 1 .. MaxRuns
    <3>1. Len(ledRuns) <= MaxRuns BY <1>1 DEF LedTypeOK
    <3> QED BY <1>1, <3>1, LedAssumption
  <2>3. ledEnded[r] # "running" BY <1>1, <2>2 DEF LedTypeOK, EndStatuses
  <2> QED BY <1>3, <2>1, <2>3
<1>12. \A r \in Ids' : r > Len(ledRuns) => ledEnded'[r] = "none" BY <1>1, <1>4
<1>13. Len(ledRuns) <= Len(ledRuns') BY <1>1, <1>3
<1>14. \A r \in Ids : /\ ledRuns'[r].sound = ledRuns[r].sound /\ ledRuns'[r].items = ledRuns[r].items
                      /\ ledRuns'[r].repro = ledRuns[r].repro
  BY <1>3
<1> QED BY <1>6, <1>7, <1>8, <1>9, <1>10, <1>11, <1>12, <1>13, <1>14, RewritesKeep

\* A step that creates a run, after it has ended others.
LEMMA CreateKeeps ==
    ASSUME LedInv, NEW set, \A r \in Ids : r \in set /\ Readable(r) => ledRuns[r].status = "running",
           NEW rom \in Roms, NEW conn \in Conns \cup {"none"}, Len(ledRuns) < MaxRuns,
           ledRuns' = Append(RunFinished(set, "aborted"), NewRun(rom, conn)),
           UNCHANGED <<ledFindings, ledAcked, ledEnded, ledNext>>,
           ledFaults' = ledFaults \/ ledFaults' = ledFaults + 1,
           ledFaults' = 0 => conn = "none" \/ RunningOf(Ids, conn) \subseteq set,
           ledServer' \in Servers, ledServer'.worker = NoWorker, ledServer'.active \in {0, Len(ledRuns) + 1}
    PROVE  LedInv'
<1> DEFINE f == RunFinished(set, "aborted")
           n == Len(ledRuns)
           new == NewRun(rom, conn)
<1>1. LedTypeOK /\ Ids = 1 .. n /\ n \in Nat BY IdsAreNumbers DEF LedInv
<1>2. "aborted" \in EndStatuses BY DEF EndStatuses
<1>3. /\ f \in Seq(RunRecs) /\ Len(f) = n
      /\ \A r \in Ids :
           /\ f[r].sound = ledRuns[r].sound
           /\ f[r].items = ledRuns[r].items
           /\ f[r].repro = ledRuns[r].repro
           /\ f[r].conn = ledRuns[r].conn
           /\ f[r].status = IF r \in set /\ Readable(r) THEN "aborted" ELSE ledRuns[r].status
  BY <1>1, <1>2, FinishedRuns
<1>4. new \in RunRecs /\ new.sound /\ new.status = "running" /\ new.conn = conn BY NewRunIsRun
<1> HIDE DEF f, new
<1>5. /\ ledRuns' \in Seq(RunRecs) /\ Len(ledRuns') = n + 1 /\ ledRuns'[n + 1] = new
      /\ \A r \in 1 .. n : ledRuns'[r] = f[r]
  <2>1. ledRuns' = Append(f, new) BY DEF f, new
  <2>2. f \in Seq(RunRecs) /\ Len(f) = n /\ n \in Nat /\ new \in RunRecs BY <1>1, <1>3, <1>4
  <2>3. /\ Append(f, new) \in Seq(RunRecs) /\ Len(Append(f, new)) = Len(f) + 1
        /\ \A r \in 1 .. Len(f) : Append(f, new)[r] = f[r]
        /\ Append(f, new)[Len(f) + 1] = new
    BY ONLY <2>2, AppendProperties
  <2> HIDE DEF n
  <2> QED BY ONLY <2>1, <2>2, <2>3
<1>6. Ids' = 1 .. n + 1 BY <1>5 DEF Ids
<1>7. ledFaults \in Nat /\ ledFaults' \in Nat /\ (ledFaults' = 0 => ledFaults = 0) BY <1>1 DEF LedTypeOK
<1>8. n + 1 <= MaxRuns BY <1>1, LedAssumption
<1>9. LedTypeOK'
  <2>1. ledServer'.active \in 0 .. n + 1 BY <1>1
  <2> QED BY <1>1, <1>5, <1>7, <1>8, <2>1 DEF LedTypeOK, Servers
<1>10. TellsOfRuns'
  <2>1. ASSUME NEW a \in ledAcked PROVE a.run <= n + 1
    <3>1. a.run \in Nat /\ a.run <= n BY <1>1 DEF LedInv, TellsOfRuns, LedTypeOK
    <3> QED BY <1>1, <3>1
  <2>2. ASSUME NEW r \in 1 .. MaxRuns, r > n + 1 PROVE ledEnded[r] = "none"
    <3>1. r > n BY <1>1, <2>2, LedAssumption
    <3> QED BY <3>1 DEF LedInv, TellsOfRuns
  <2> QED BY <1>5, <2>1, <2>2 DEF TellsOfRuns
<1>11. WorkerOK' BY DEF WorkerOK
<1>12. ActiveRuns' BY <1>4, <1>5 DEF ActiveRuns, NoRun
<1>13. OneRunning'
  <2> SUFFICES ASSUME ledFaults' = 0 PROVE OneRunning'
    BY DEF OneRunning
  <2>1. ASSUME NEW r \in 1 .. n + 1 PROVE Readable(r)'
    <3>1. CASE r = n + 1 BY <1>4, <1>5, <3>1 DEF Readable
    <3>2. CASE r \in 1 .. n BY <1>1, <1>3, <1>5, <1>7, <3>2 DEF LedInv, OneRunning, Readable
    <3> QED BY <1>1, <3>1, <3>2
  <2>2. ASSUME NEW r \in 1 .. n, ledRuns'[r].status = "running"
        PROVE  /\ ledRuns[r].status = "running" /\ ledRuns'[r].conn = ledRuns[r].conn
               /\ ledRuns[r].conn \in Conns => ledRuns[r].conn # conn
    <3>1. Readable(r) /\ r \notin set /\ ledRuns[r].status = "running" /\ ledRuns'[r].conn = ledRuns[r].conn
      BY <1>1, <1>3, <1>5, <1>7, <2>2 DEF LedInv, OneRunning
    <3>2. ledRuns[r].conn = conn => r \in RunningOf(Ids, conn) BY <1>1, <3>1 DEF RunningOf
    <3> QED BY <3>1, <3>2, LedAssumption
  <2>3. ASSUME NEW r \in 1 .. n + 1, NEW q \in 1 .. n + 1,
               ledRuns'[r].status = "running", ledRuns'[q].status = "running",
               ledRuns'[r].conn = ledRuns'[q].conn, ledRuns'[r].conn \in Conns
        PROVE  r = q
    <3>1. CASE r \in 1 .. n /\ q \in 1 .. n
      BY <1>1, <1>7, <2>2, <2>3, <3>1 DEF LedInv, OneRunning
    <3>2. CASE r = n + 1 /\ q \in 1 .. n BY <1>4, <1>5, <2>2, <2>3, <3>2
    <3>3. CASE q = n + 1 /\ r \in 1 .. n BY <1>4, <1>5, <2>2, <2>3, <3>3
    <3>4. CASE q = n + 1 /\ r = n + 1 BY <3>4
    <3>5. (r = n + 1 \/ r \in 1 .. n) /\ (q = n + 1 \/ q \in 1 .. n) BY <1>1
    <3> QED BY <3>1, <3>2, <3>3, <3>4, <3>5
  <2> QED BY <1>6, <2>1, <2>3 DEF OneRunning
<1>14. \A r \in Ids : Readable(r) /\ ledEnded'[r] # "none" => ledRuns'[r].status = ledEnded'[r]
  <2> SUFFICES ASSUME NEW r \in Ids, Readable(r), ledEnded[r] # "none" PROVE ledRuns'[r].status = ledEnded[r]
    OBVIOUS
  <2>1. ledRuns[r].status = ledEnded[r] BY DEF LedInv, LedgerKept
  <2>2. r \in 1 .. MaxRuns BY <1>1, <1>8, LedAssumption
  <2>3. ledEnded[r] # "running" BY <1>1, <2>2 DEF LedTypeOK, EndStatuses
  <2> QED BY <1>1, <1>3, <1>5, <2>1, <2>3
<1>15. \A r \in Ids' : r > Len(ledRuns) => ledEnded'[r] = "none"
  <2>1. \A r \in 1 .. n + 1 : r \in 1 .. MaxRuns BY <1>1, <1>8, LedAssumption
  <2> QED BY <1>6, <2>1 DEF LedInv, TellsOfRuns
<1>16. Len(ledRuns) <= Len(ledRuns') BY <1>1, <1>5
<1>17. \A r \in Ids : /\ ledRuns'[r].sound = ledRuns[r].sound /\ ledRuns'[r].items = ledRuns[r].items
                      /\ ledRuns'[r].repro = ledRuns[r].repro
  BY <1>1, <1>3, <1>5
<1> QED BY <1>9, <1>10, <1>11, <1>12, <1>13, <1>14, <1>15, <1>16, <1>17, RewritesKeep

\* What a log call leaves in a record.
LEMMA ItemIsAdded ==
    ASSUME NEW run \in RunRecs, NEW item \in LedItems
    PROVE  /\ WithItem(run, item) \in RunRecs
           /\ WithItem(run, item).sound = run.sound /\ WithItem(run, item).status = run.status
           /\ WithItem(run, item).conn = run.conn /\ item \in WithItem(run, item).items
           /\ \A i \in run.items : i.kind # "base" \/ item.kind # "base" => i \in WithItem(run, item).items
           /\ item.kind = "load_state" => WithItem(run, item).repro = "savestate_only"
           /\ \A i \in run.items :
                i.kind = "load_state" /\ run.repro = "savestate_only" => WithItem(run, item).repro = "savestate_only"
<1> DEFINE kept == IF item.kind = "base" THEN {i \in run.items : i.kind # "base"} ELSE run.items
           all == kept \union {item}
           repro == IF item.kind \in {"load_state", "base"} THEN DeriveStatus(all) ELSE run.repro
<1>1. WithItem(run, item) = [run EXCEPT !.items = all, !.repro = repro] BY DEF WithItem
<1>2. all \subseteq LedItems BY DEF RunRecs
<1>3. DeriveStatus(all) \in {"savestate_only", "replayable_with_interventions"} BY DEF DeriveStatus
<1>4. repro \in {"savestate_only", "replayable_with_interventions"} BY <1>3 DEF RunRecs
<1>5. item \in all /\ \A i \in run.items : i.kind # "base" \/ item.kind # "base" => i \in all OBVIOUS
<1>6. \A i \in all : i.kind = "load_state" => DeriveStatus(all) = "savestate_only" BY DEF DeriveStatus
<1>7. item.kind = "load_state" => repro = "savestate_only" BY <1>5, <1>6
<1>8. \A i \in run.items : i.kind = "load_state" /\ run.repro = "savestate_only" => repro = "savestate_only"
  BY <1>5, <1>6
<1> HIDE DEF all, repro
<1>9. /\ WithItem(run, item) \in RunRecs /\ WithItem(run, item).sound = run.sound
      /\ WithItem(run, item).status = run.status /\ WithItem(run, item).conn = run.conn
      /\ WithItem(run, item).items = all /\ WithItem(run, item).repro = repro
  BY <1>1, <1>2, <1>4 DEF RunRecs
<1> QED BY <1>5, <1>7, <1>8, <1>9

\* The record of run r is written with an item added to base: the record as it is, or
\* the copy a worker took of it.
LEMMA WriteKeeps ==
    ASSUME LedInv, NEW r \in Ids, NEW base \in RunRecs, NEW item \in LedItems,
           base.sound, base.status = "running", Readable(r) => base = ledRuns[r], Holds(base, r),
           ledEnded[r] = "none",
           ledRuns' = [ledRuns EXCEPT ![r] = WithItem(base, item)],
           ledAcked' \subseteq Acked(r, item),
           UNCHANGED <<ledFindings, ledEnded, ledFaults>>, ledNext' \in Nat,
           ledServer' \in Servers, ledServer'.worker = NoWorker, ledServer'.active \in {0, r}
    PROVE  LedInv'
<1> DEFINE n == Len(ledRuns)
           new == WithItem(base, item)
<1>1. LedTypeOK /\ Ids = 1 .. n /\ n \in Nat BY IdsAreNumbers DEF LedInv
<1>2. /\ new \in RunRecs /\ new.sound /\ new.status = "running" /\ new.conn = base.conn /\ item \in new.items
      /\ \A i \in base.items : i.kind # "base" \/ item.kind # "base" => i \in new.items
      /\ item.kind = "load_state" => new.repro = "savestate_only"
      /\ \A i \in base.items : i.kind = "load_state" /\ base.repro = "savestate_only" => new.repro = "savestate_only"
  BY ItemIsAdded
<1> HIDE DEF new
<1>3. /\ ledRuns' \in Seq(RunRecs) /\ Len(ledRuns') = n /\ ledRuns'[r] = new
      /\ \A q \in Ids : q # r => ledRuns'[q] = ledRuns[q]
  <2>1. ledRuns \in Seq(RunRecs) BY <1>1 DEF LedTypeOK
  <2>2. ledRuns' = [ledRuns EXCEPT ![r] = new] BY DEF new
  <2> QED BY <1>1, <1>2, <2>1, <2>2
<1>4. Ids' = Ids BY <1>1, <1>3 DEF Ids
<1>5. ASSUME NEW a \in ledAcked'
      PROVE  /\ a \in [run : Nat, item : LedItems] /\ a.run <= n
             /\ a.run = 0 => a \in ledAcked
             /\ a.run = r => a.item \in new.items /\ (a.item.kind = "load_state" => new.repro = "savestate_only")
             /\ a.run # r => a \in ledAcked
  <2>1. r \in Nat /\ r # 0 /\ r <= n BY <1>1
  <2>2. CASE a = [run |-> r, item |-> item] BY <1>2, <2>1, <2>2
  <2>3. CASE a \in ledAcked /\ ~(a.run = r /\ a.item.kind = "base" /\ item.kind = "base")
    <3>1. a \in [run : Nat, item : LedItems] /\ a.run <= n BY <1>1, <2>3 DEF LedInv, LedTypeOK, TellsOfRuns
    <3>2. ASSUME a.run = r PROVE a.item \in new.items /\ (a.item.kind = "load_state" => new.repro = "savestate_only")
      <4>1. a.item \in base.items /\ (a.item.kind = "load_state" => base.repro = "savestate_only")
        BY <2>3, <3>2 DEF Holds
      <4>2. a.item.kind # "base" \/ item.kind # "base" BY <2>3, <3>2
      <4> QED BY <1>2, <4>1, <4>2
    <3> QED BY <2>3, <3>1, <3>2
  <2> QED BY <2>2, <2>3 DEF Acked
<1>6. LedTypeOK'
  <2>1. ledServer'.active \in 0 .. n BY <1>1
  <2>2. ledAcked' \subseteq [run : Nat, item : LedItems] BY <1>5
  <2> QED BY <1>1, <1>3, <2>1, <2>2 DEF LedTypeOK, Servers
<1>7. TellsOfRuns' BY <1>3, <1>5 DEF LedInv, TellsOfRuns
<1>8. WorkerOK' BY DEF WorkerOK
<1>9. ActiveRuns' BY <1>2, <1>3 DEF ActiveRuns, NoRun
<1>10. OneRunning'
  <2> SUFFICES ASSUME ledFaults = 0 PROVE OneRunning'
    BY DEF OneRunning
  <2>1. \A q \in Ids : Readable(q) BY DEF LedInv, OneRunning
  <2>2. \A q \in Ids : ledRuns'[q].conn = ledRuns[q].conn /\ ledRuns'[q].status = ledRuns[q].status /\ Readable(q)'
    <3>1. base = ledRuns[r] BY <2>1
    <3> QED BY <1>2, <1>3, <2>1, <3>1 DEF Readable
  <2> QED BY <1>4, <2>2 DEF LedInv, OneRunning
<1>11. LedgerKept'
  <2>1. ASSUME NEW a \in ledAcked', a.run = NoRun PROVE a.item.id \in ledFindings'
    BY <1>5, <2>1 DEF LedInv, LedgerKept, NoRun
  <2>2. ASSUME NEW a \in ledAcked', a.run # NoRun, Readable(a.run)'
        PROVE  /\ a.item \in ledRuns'[a.run].items
               /\ a.item.kind = "load_state" => ledRuns'[a.run].repro = "savestate_only"
    <3>1. CASE a.run = r BY <1>3, <1>5, <3>1
    <3>2. CASE a.run # r
      <4>1. a.run \in Ids /\ a \in ledAcked
        <5>1. a.run \in Nat /\ a.run <= n /\ a.run # 0 BY <1>5, <2>2 DEF NoRun
        <5> QED BY <1>1, <1>5, <3>2, <5>1
      <4>2. ledRuns'[a.run] = ledRuns[a.run] /\ Readable(a.run) BY <1>3, <2>2, <3>2, <4>1 DEF Readable
      <4> QED BY <2>2, <4>1, <4>2 DEF LedInv, LedgerKept
    <3> QED BY <3>1, <3>2
  <2>3. ASSUME NEW q \in Ids, ledEnded[q] # "none", Readable(q)' PROVE ledRuns'[q].status = ledEnded[q]
    <3>1. q # r BY <2>3
    <3>2. ledRuns'[q] = ledRuns[q] /\ Readable(q) BY <1>3, <2>3, <3>1 DEF Readable
    <3> QED BY <2>3, <3>2 DEF LedInv, LedgerKept
  <2> QED BY <1>4, <2>1, <2>2, <2>3 DEF LedgerKept
<1> QED BY <1>6, <1>7, <1>8, <1>9, <1>10, <1>11 DEF LedInv

LEMMA RunningIsNotEnded ==
    ASSUME LedInv, NEW r \in Ids, Readable(r), ledRuns[r].status = "running"
    PROVE  ledEnded[r] = "none" /\ r # 0 /\ Holds(ledRuns[r], r)
<1>1. LedTypeOK /\ Ids = 1 .. Len(ledRuns) /\ Len(ledRuns) \in Nat BY IdsAreNumbers DEF LedInv
<1>2. r \in 1 .. MaxRuns BY <1>1, LedAssumption DEF LedTypeOK
<1>3. ledEnded[r] \in {"none", "done", "aborted"} BY <1>1, <1>2 DEF LedTypeOK, EndStatuses
<1>4. ledEnded[r] # "none" => ledRuns[r].status = ledEnded[r] BY DEF LedInv, LedgerKept
<1>5. r # 0 BY <1>1
<1>6. Holds(ledRuns[r], r) BY <1>5 DEF LedInv, LedgerKept, Holds, NoRun
<1> QED BY <1>3, <1>4, <1>5, <1>6

\* The run that log calls go to.
LEMMA ActiveFacts ==
    ASSUME LedInv, ledServer.active # NoRun, Readable(ledServer.active)
    PROVE  /\ ledServer.active \in Ids /\ ledRuns[ledServer.active] \in RunRecs
           /\ ledRuns[ledServer.active].sound /\ ledRuns[ledServer.active].status = "running"
           /\ ledEnded[ledServer.active] = "none" /\ Holds(ledRuns[ledServer.active], ledServer.active)
<1>1. LedTypeOK /\ Ids = 1 .. Len(ledRuns) /\ Len(ledRuns) \in Nat BY IdsAreNumbers DEF LedInv
<1>2. ledServer.active \in Ids BY <1>1 DEF LedTypeOK, NoRun
<1>3. ledRuns[ledServer.active] \in RunRecs BY <1>1, <1>2, RunIsTyped
<1>4. ledRuns[ledServer.active].status = "running" BY DEF LedInv, ActiveRuns
<1>5. ledRuns[ledServer.active].sound BY DEF Readable
<1> QED BY <1>2, <1>3, <1>4, <1>5, RunningIsNotEnded

LEMMA ServerIsTyped ==
    ASSUME LedInv
    PROVE  /\ ledServer \in Servers /\ ledServer.active \in 0 .. Len(ledRuns) /\ ledNext \in Nat
           /\ ledNext + 1 \in Nat /\ ledFaults \in Nat
  BY DEF LedInv, LedTypeOK, Servers

\* A failed write leaves everything but the counters.
LEMMA FailedWriteKeeps ==
    ASSUME LedInv, UNCHANGED <<ledRuns, ledFindings, ledAcked, ledEnded, ledServer>>, ledNext' \in Nat,
           ledFaults' = ledFaults \/ ledFaults' = ledFaults + 1
    PROVE  LedInv'
<1>1. WorkerOK' BY DEF LedInv, WorkerOK, Readable, Holds
<1>2. ActiveRuns' BY DEF LedInv, ActiveRuns, Readable
<1> QED BY <1>1, <1>2, ServerIsTyped, StillKeeps

LEMMA LogItemKeeps == ASSUME LedInv, NEW k \in Kinds, LogItem(k) PROVE LedInv'
<1> DEFINE r == ledServer.active
           item == [id |-> ledNext, kind |-> k]
<1>1. GateFree /\ r # NoRun /\ Readable(r) /\ UNCHANGED <<ledFindings, ledEnded>> /\ ledNext' = ledNext + 1
  BY DEF LogItem
<1>2. /\ r \in Ids /\ ledRuns[r] \in RunRecs /\ ledRuns[r].sound /\ ledRuns[r].status = "running"
      /\ ledEnded[r] = "none" /\ Holds(ledRuns[r], r)
  BY <1>1, ActiveFacts
<1>3. ledServer.worker = NoWorker BY <1>1, FreeGateNoWorker
<1>4. item \in LedItems /\ item.kind = k BY ServerIsTyped DEF LedItems, Kinds
<1>5. ledNext' \in Nat BY <1>1, ServerIsTyped
<1>6. CASE WriteFails /\ UNCHANGED <<ledRuns, ledAcked, ledServer>>
  BY <1>1, <1>5, <1>6, FailedWriteKeeps DEF WriteFails
<1>7. CASE /\ ledRuns' = [ledRuns EXCEPT ![r] = WithItem(ledRuns[r], item)] /\ NoFault
           /\ \/ ledAcked' = Acked(r, item) /\ UNCHANGED ledServer
              \/ ledServer' = Down
                 /\ ledAcked' = IF k = "base" THEN Acked(r, item) \ {[run |-> r, item |-> item]}
                                ELSE ledAcked
  <2>1. ledAcked' \subseteq Acked(r, item)
    <3>1. k # "base" => ledAcked \subseteq Acked(r, item) BY <1>4 DEF Acked
    <3> QED BY <1>7, <3>1
  <2>2. ledServer' \in Servers /\ ledServer'.worker = NoWorker /\ ledServer'.active \in {0, r}
    BY <1>3, <1>7, ServerIsTyped, ServersAreServers
  <2>3. UNCHANGED ledFaults BY <1>7 DEF NoFault
  <2> HIDE DEF r, item
  <2> QED BY <1>1, <1>2, <1>4, <1>5, <1>7, <2>1, <2>2, <2>3, WriteKeeps
<1> QED BY <1>6, <1>7 DEF LogItem

LEMMA LogFindingKeeps == ASSUME LedInv, LogFinding PROVE LedInv'
<1>1. GateFree /\ ledNext' = ledNext + 1 /\ UNCHANGED <<ledRuns, ledServer, ledEnded>> BY DEF LogFinding
<1>2. CASE WriteFails /\ UNCHANGED <<ledFindings, ledAcked>>
  BY <1>1, <1>2, FailedWriteKeeps, ServerIsTyped DEF WriteFails
<1>3. CASE /\ ledFindings' = ledFindings \union {ledNext} /\ NoFault
           /\ ledAcked' = ledAcked \union {[run |-> NoRun, item |-> [id |-> ledNext, kind |-> "finding"]]}
  <2> DEFINE told0 == [run |-> NoRun, item |-> [id |-> ledNext, kind |-> "finding"]]
  <2>1. told0 \in [run : Nat, item : LedItems] /\ told0.run = 0 /\ told0.item.id = ledNext
    BY ServerIsTyped DEF LedItems, NoRun
  <2>2. ledAcked' = ledAcked \union {told0} BY <1>3
  <2> HIDE DEF told0
  <2>3. ledNext' \in Nat BY <1>1, ServerIsTyped
  <2>4. LedTypeOK' BY <1>1, <1>3, <2>1, <2>2, <2>3 DEF LedInv, LedTypeOK, NoFault
  <2>5. TellsOfRuns'
    <3>1. Len(ledRuns) \in Nat BY IdsAreNumbers DEF LedInv
    <3> QED BY <1>1, <2>1, <2>2, <3>1 DEF LedInv, TellsOfRuns
  <2>6. WorkerOK' BY <1>1, FreeGateNoWorker DEF WorkerOK
  <2>7. ActiveRuns' /\ OneRunning' BY <1>1, <1>3 DEF LedInv, ActiveRuns, OneRunning, Readable, Ids, NoFault
  <2>8. LedgerKept'
    <3>1. ASSUME NEW a \in ledAcked'
          PROVE  IF a.run = NoRun THEN a.item.id \in ledFindings'
                 ELSE Readable(a.run)' =>
                        /\ a.item \in ledRuns'[a.run].items
                        /\ a.item.kind = "load_state" => ledRuns'[a.run].repro = "savestate_only"
      <4>1. CASE a = told0 BY <1>3, <2>1, <4>1 DEF NoRun
      <4>2. CASE a \in ledAcked BY <1>1, <1>3, <4>2 DEF LedInv, LedgerKept, Readable
      <4> QED BY <2>2, <4>1, <4>2
    <3> QED BY <1>1, <3>1 DEF LedInv, LedgerKept, Readable, Ids
  <2> QED BY <2>4, <2>5, <2>6, <2>7, <2>8 DEF LedInv
<1> QED BY <1>2, <1>3 DEF LogFinding

LEMMA ArtifactStartKeeps == ASSUME LedInv, ArtifactStart PROVE LedInv'
<1> DEFINE r == ledServer.active
           w == [run |-> r, copy |-> ledRuns[r], id |-> ledNext, asked |-> TRUE]
<1>1. /\ r # NoRun /\ Readable(r) /\ ledServer' = [ledServer EXCEPT !.gate = "held", !.worker = w]
      /\ UNCHANGED <<ledRuns, ledFindings, ledAcked, ledEnded, ledFaults>> /\ ledNext' = ledNext + 1
  BY DEF ArtifactStart
<1>2. /\ r \in Ids /\ ledRuns[r] \in RunRecs /\ ledRuns[r].sound /\ ledRuns[r].status = "running"
      /\ ledEnded[r] = "none" /\ Holds(ledRuns[r], r)
  BY <1>1, ActiveFacts
<1>3. r \in Nat \ {0} BY <1>1, ServerIsTyped DEF Servers, NoRun
<1>4. w \in Workers /\ w.run = r /\ w.copy = ledRuns[r] BY <1>2, <1>3, ServerIsTyped DEF Workers
<1> HIDE DEF w
<1>5. ledServer' \in Servers /\ ledServer'.gate = "held" /\ ledServer'.worker = w /\ ledServer'.active = r
  BY <1>1, <1>4, ServerIsTyped DEF Servers
<1>6. WorkerOK'
  <2>1. Holds(ledRuns[r], r)' BY <1>1, <1>2, <1>5 DEF Holds
  <2> QED BY <1>1, <1>2, <1>4, <1>5, <2>1 DEF WorkerOK, Holds
<1>7. ActiveRuns' BY <1>1, <1>2, <1>5 DEF ActiveRuns
<1> QED BY <1>1, <1>5, <1>6, <1>7, ServerIsTyped, StillKeeps

LEMMA ArtifactCancelKeeps == ASSUME LedInv, ArtifactCancel PROVE LedInv'
<1> DEFINE w == ledServer.worker
           off == [w EXCEPT !.asked = FALSE]
<1>1. /\ w # NoWorker /\ ledServer' = [ledServer EXCEPT !.worker = off]
      /\ UNCHANGED <<ledRuns, ledFindings, ledAcked, ledEnded, ledNext, ledFaults>>
  BY WorkerIsThere DEF ArtifactCancel, CancelledGate
<1>2. w \in Workers BY <1>1, ServerIsTyped DEF Servers
<1>3. off \in Workers /\ off.run = w.run /\ off.copy = w.copy BY <1>2 DEF Workers
<1> HIDE DEF off
<1>4. /\ ledServer' \in Servers /\ ledServer'.worker = off /\ ledServer'.gate = ledServer.gate
      /\ ledServer'.active = ledServer.active
  BY <1>1, <1>3, ServerIsTyped DEF Servers
<1>5. /\ ledServer.gate = "held" /\ w.run = ledServer.active
      /\ w.copy.sound /\ w.copy.status = "running" /\ ledEnded[w.run] = "none"
      /\ Readable(w.run) => w.copy = ledRuns[w.run]
      /\ Holds(w.copy, w.run)
  BY <1>1 DEF LedInv, WorkerOK
<1>6. WorkerOK'
  <2>1. \A a \in ledAcked' : a.run = off.run =>
          a.item \in off.copy.items /\ (a.item.kind = "load_state" => off.copy.repro = "savestate_only")
    BY <1>1, <1>3, <1>5 DEF Holds
  <2> QED BY <1>1, <1>3, <1>4, <1>5, <2>1 DEF WorkerOK, Readable, Holds
<1>7. ActiveRuns' BY <1>1, <1>4 DEF LedInv, ActiveRuns, Readable
<1> QED BY <1>1, <1>4, <1>6, <1>7, ServerIsTyped, StillKeeps

LEMMA ArtifactEndKeeps == ASSUME LedInv, ArtifactEnd PROVE LedInv'
<1> DEFINE w == ledServer.worker
           item == [id |-> w.id, kind |-> "artifact"]
<1>1. /\ w # NoWorker /\ ledServer' = [ledServer EXCEPT !.gate = "free", !.worker = NoWorker]
      /\ UNCHANGED <<ledFindings, ledEnded, ledNext>>
  BY WorkerIsThere DEF ArtifactEnd
<1>2. w \in Workers BY <1>1, ServerIsTyped DEF Servers
<1>3. /\ w.run = ledServer.active
      /\ w.copy.sound /\ w.copy.status = "running" /\ ledEnded[w.run] = "none"
      /\ Readable(w.run) => w.copy = ledRuns[w.run]
      /\ Holds(w.copy, w.run)
  BY <1>1 DEF LedInv, WorkerOK
<1>4. w.copy \in RunRecs /\ w.run \in Nat \ {0} /\ w.id \in Nat BY <1>2 DEF Workers
<1>5. w.run \in Ids
  <2>1. LedTypeOK /\ Ids = 1 .. Len(ledRuns) /\ Len(ledRuns) \in Nat BY IdsAreNumbers DEF LedInv
  <2> QED BY <1>3, <1>4, <2>1 DEF LedTypeOK
<1>6. item \in LedItems /\ item.kind = "artifact" BY <1>4 DEF LedItems
<1>7. ledServer' \in Servers /\ ledServer'.worker = NoWorker /\ ledServer'.active = w.run
  BY <1>1, <1>3, ServerIsTyped DEF Servers
<1>8. CASE WriteFails /\ UNCHANGED <<ledRuns, ledAcked>>
  <2>1. WorkerOK' BY <1>7 DEF WorkerOK
  <2>2. ActiveRuns' BY <1>3, <1>7, <1>8 DEF LedInv, ActiveRuns, Readable
  <2> QED BY <1>1, <1>3, <1>7, <1>8, <2>1, <2>2, ServerIsTyped, StillKeeps DEF WriteFails
<1>9. CASE /\ ledRuns' = [ledRuns EXCEPT ![w.run] = WithItem(w.copy, item)]
           /\ ledAcked' = IF w.asked THEN Acked(w.run, item) ELSE ledAcked
           /\ NoFault
  <2>1. ledAcked' \subseteq Acked(w.run, item)
    <3>1. ledAcked \subseteq Acked(w.run, item) BY <1>6 DEF Acked
    <3> QED BY <1>9, <3>1
  <2>2. UNCHANGED ledFaults /\ ledNext' \in Nat BY <1>1, <1>9, ServerIsTyped DEF NoFault
  <2> HIDE DEF w, item
  <2> QED BY <1>1, <1>3, <1>4, <1>5, <1>6, <1>7, <1>9, <2>1, <2>2, WriteKeeps
<1> QED BY <1>8, <1>9 DEF ArtifactEnd

LEMMA RebindKeeps ==
    ASSUME LedInv, GateFree, NEW r \in Ids, Readable(r), ledRuns[r].status = "running", Rebind(r)
    PROVE  LedInv'
<1> DEFINE prev == ledServer.active
           set == IF prev \in {NoRun, r} THEN {} ELSE {prev}
<1>1. ledServer' = [ledServer EXCEPT !.active = r] /\ UNCHANGED <<ledFindings, ledAcked, ledEnded, ledNext>>
  BY DEF Rebind
<1>2. LedTypeOK /\ Ids = 1 .. Len(ledRuns) /\ Len(ledRuns) \in Nat BY IdsAreNumbers DEF LedInv
<1>3. /\ ledServer' \in Servers /\ ledServer'.worker = NoWorker /\ ledServer'.active = r
      /\ r \in 0 .. Len(ledRuns)
  BY <1>1, <1>2, FreeGateNoWorker, ServerIsTyped DEF Servers
<1>4. CASE ledRuns' = RunFinished(set, "aborted") /\ NoFault
  <2>1. \A q \in Ids : q \in set /\ Readable(q) => ledRuns[q].status = "running"
    BY DEF LedInv, ActiveRuns
  <2>2. r \notin set OBVIOUS
  <2> HIDE DEF set
  <2> QED BY <1>1, <1>3, <1>4, <2>1, <2>2, SupersedeKeeps DEF NoFault
<1>5. CASE WriteFails /\ UNCHANGED ledRuns
  <2>1. WorkerOK' BY <1>3 DEF WorkerOK
  <2>2. ActiveRuns' BY <1>3, <1>5 DEF ActiveRuns
  <2> QED BY <1>1, <1>3, <1>5, <2>1, <2>2, ServerIsTyped, StillKeeps DEF WriteFails
<1> QED BY <1>4, <1>5 DEF Rebind

LEMMA StartResumesKeeps ==
    ASSUME LedInv, NEW rom \in Roms, NEW conn \in Conns \cup {"none"}, StartResumes(rom, conn)
    PROVE  LedInv'
<1> DEFINE S == Resumable(rom, conn)
<1>1. GateFree /\ S # {} /\ Rebind(Max(S)) BY DEF StartResumes
<1>2. Ids = 1 .. Len(ledRuns) /\ Len(ledRuns) \in Nat BY IdsAreNumbers DEF LedInv
<1>3. S \subseteq Ids /\ \A r \in S : Readable(r) /\ ledRuns[r].status = "running"
  BY DEF Resumable, RunningOf, WalkRunsLenient
<1> HIDE DEF S
<1>4. Max(S) \in S BY <1>1, <1>2, <1>3, NewestIsOne
<1> QED BY <1>1, <1>3, <1>4, RebindKeeps

LEMMA RunResumeKeeps == ASSUME LedInv, NEW r \in Ids, RunResume(r) PROVE LedInv'
  BY RebindKeeps DEF RunResume

LEMMA StartCreatesKeeps ==
    ASSUME LedInv, NEW rom \in Roms, NEW conn \in Conns \cup {"none"}, StartCreates(rom, conn)
    PROVE  LedInv'
<1>1. GateFree /\ Len(ledRuns) < MaxRuns /\ UNCHANGED <<ledFindings, ledAcked, ledEnded, ledNext>>
  BY DEF StartCreates
<1>2. LedTypeOK /\ Ids = 1 .. Len(ledRuns) /\ Len(ledRuns) \in Nat BY IdsAreNumbers DEF LedInv
<1>3. \A r \in Ids : r \in Superseded(conn) /\ Readable(r) => ledRuns[r].status = "running"
  BY DEF Superseded, Stale, RunningOf, LedInv, ActiveRuns
<1>4. ASSUME NEW a \in Nat, ledServer' = [ledServer EXCEPT !.active = a]
      PROVE  ledServer' \in Servers /\ ledServer'.worker = NoWorker /\ ledServer'.active = a
  BY <1>1, <1>4, FreeGateNoWorker, ServerIsTyped DEF Servers
<1>5. Len(ledRuns) + 1 \in Nat BY <1>2
<1>6. CASE /\ ledRuns' = Append(RunFinished(Superseded(conn), "aborted"), NewRun(rom, conn))
           /\ NoFault
           /\ \/ ledServer' = [ledServer EXCEPT !.active = Len(ledRuns) + 1]
              \/ ledServer' = Down
  <2>1. ledServer' \in Servers /\ ledServer'.worker = NoWorker /\ ledServer'.active \in {0, Len(ledRuns) + 1}
    BY <1>4, <1>5, <1>6, ServersAreServers
  <2>2. ledFaults' = 0 => conn = "none" \/ RunningOf(Ids, conn) \subseteq Superseded(conn)
    <3> SUFFICES ASSUME ledFaults = 0, conn # "none" PROVE RunningOf(Ids, conn) \subseteq Superseded(conn)
      BY <1>6 DEF NoFault
    <3>1. WalkRuns = Ids BY DEF WalkRuns, LedInv, OneRunning
    <3> QED BY <3>1 DEF Superseded, Stale
  <2>3. UNCHANGED ledFaults BY <1>6 DEF NoFault
  <2> QED BY <1>1, <1>3, <1>6, <2>1, <2>2, <2>3, CreateKeeps
<1>7. ASSUME WriteFails, NEW closed \in SUBSET Superseded(conn),
             ledRuns' = Append(RunFinished(closed, "aborted"), NewRun(rom, conn)),
             ledServer' = [ledServer EXCEPT !.active = Len(ledRuns) + 1]
      PROVE  LedInv'
  <2>1. ledServer' \in Servers /\ ledServer'.worker = NoWorker /\ ledServer'.active \in {0, Len(ledRuns) + 1}
    BY <1>4, <1>5, <1>7
  <2>2. ledFaults' = ledFaults + 1 /\ ledFaults' # 0 BY <1>7, ServerIsTyped DEF WriteFails
  <2>3. \A r \in Ids : r \in closed /\ Readable(r) => ledRuns[r].status = "running" BY <1>3
  <2> QED BY <1>1, <1>7, <2>1, <2>2, <2>3, CreateKeeps
<1>8. ASSUME WriteFails, NEW closed \in SUBSET Superseded(conn),
             ledRuns' = RunFinished(closed, "aborted"), ledServer' = [ledServer EXCEPT !.active = NoRun]
      PROVE  LedInv'
  <2>1. ledServer' \in Servers /\ ledServer'.worker = NoWorker /\ ledServer'.active = 0
    BY <1>4, <1>8 DEF NoRun
  <2>2. ledFaults' = ledFaults + 1 BY <1>8 DEF WriteFails
  <2>3. \A r \in Ids : r \in closed /\ Readable(r) => ledRuns[r].status = "running" BY <1>3
  <2> QED BY <1>1, <1>8, <2>1, <2>2, <2>3, SupersedeKeeps
<1> QED BY <1>6, <1>7, <1>8 DEF StartCreates

LEMMA RunFinishKeeps ==
    ASSUME LedInv, NEW r \in Ids, NEW st \in EndStatuses, RunFinish(r, st)
    PROVE  LedInv'
<1>1. GateFree /\ Readable(r) /\ UNCHANGED <<ledFindings, ledAcked, ledNext>> BY DEF RunFinish
<1>2. CASE WriteFails /\ UNCHANGED <<ledRuns, ledServer, ledEnded>>
  BY <1>1, <1>2, FailedWriteKeeps, ServerIsTyped DEF WriteFails
<1>3. CASE /\ ledRuns' = RunFinished({r}, st) /\ NoFault
           /\ \/ /\ ledServer' = [ledServer EXCEPT !.active = LetGo(ledServer.active, r)]
                 /\ ledEnded' = [ledEnded EXCEPT ![r] = st]
              \/ ledServer' = Down /\ ledEnded' = [ledEnded EXCEPT ![r] = "none"]
  <2>1. LedTypeOK /\ Ids = 1 .. Len(ledRuns) /\ Len(ledRuns) \in Nat BY IdsAreNumbers DEF LedInv
  <2>2. /\ ledRuns' \in Seq(RunRecs) /\ Len(ledRuns') = Len(ledRuns)
        /\ \A q \in Ids :
             /\ ledRuns'[q].sound = ledRuns[q].sound
             /\ ledRuns'[q].items = ledRuns[q].items
             /\ ledRuns'[q].repro = ledRuns[q].repro
             /\ ledRuns'[q].conn = ledRuns[q].conn
             /\ ledRuns'[q].status = IF q \in {r} /\ Readable(q) THEN st ELSE ledRuns[q].status
    BY <1>3, <2>1, FinishedRuns
  <2>3. Ids' = Ids BY <2>1, <2>2 DEF Ids
  <2>4. UNCHANGED ledFaults BY <1>3 DEF NoFault
  <2>5. Ids \subseteq 1 .. MaxRuns /\ ledEnded \in [1 .. MaxRuns -> {"none"} \cup EndStatuses]
    BY <2>1, LedAssumption DEF LedTypeOK
  <2>6. /\ ledEnded' \in [1 .. MaxRuns -> {"none"} \cup EndStatuses] /\ ledEnded'[r] \in {"none", st}
        /\ \A q \in 1 .. MaxRuns : q # r => ledEnded'[q] = ledEnded[q]
    BY <1>3, <2>5
  <2>7. LetGo(ledServer.active, r) \in 0 .. Len(ledRuns) /\ LetGo(ledServer.active, r) \in Nat
    BY <2>1, ServerIsTyped DEF LetGo, NoRun
  <2>8. /\ ledServer' \in Servers /\ ledServer'.worker = NoWorker /\ ledServer'.active \in 0 .. Len(ledRuns)
        /\ ledServer'.active # 0 => ledServer'.active = ledServer.active /\ ledServer.active # r
    <3>1. CASE ledServer' = Down BY <2>1, <3>1, ServersAreServers
    <3>2. CASE ledServer' = [ledServer EXCEPT !.active = LetGo(ledServer.active, r)]
      <4>1. /\ ledServer' \in Servers /\ ledServer'.worker = NoWorker
            /\ ledServer'.active = LetGo(ledServer.active, r)
        BY <1>1, <2>7, <3>2, FreeGateNoWorker, ServerIsTyped DEF Servers
      <4> QED BY <2>7, <4>1 DEF LetGo, NoRun
    <3> QED BY <1>3, <3>1, <3>2
  <2>9. LedTypeOK' BY <1>1, <2>1, <2>2, <2>4, <2>6, <2>8 DEF LedTypeOK, Servers
  <2>10. TellsOfRuns'
    <3>1. \A q \in 1 .. MaxRuns : q > Len(ledRuns) => ledEnded'[q] = "none"
      <4>1. \A q \in 1 .. MaxRuns : q > Len(ledRuns) => q # r BY <2>1
      <4> QED BY <2>6, <4>1 DEF LedInv, TellsOfRuns
    <3> QED BY <1>1, <2>2, <3>1 DEF LedInv, TellsOfRuns
  <2>11. WorkerOK' BY <2>8 DEF WorkerOK
  <2>12. ActiveRuns'
    <3> SUFFICES ASSUME ledServer'.active # 0, ledRuns'[ledServer'.active].sound
                 PROVE  ledRuns'[ledServer'.active].status = "running"
      BY DEF ActiveRuns, Readable, NoRun
    <3>1. ledServer.active \in Ids /\ ledServer'.active = ledServer.active /\ ledServer.active # r
      BY <2>1, <2>8, ServerIsTyped
    <3>2. Readable(ledServer.active) BY <2>2, <3>1 DEF Readable
    <3>3. ledRuns[ledServer.active].status = "running" BY <2>8, <3>1, <3>2 DEF LedInv, ActiveRuns, NoRun
    <3> QED BY <2>2, <3>1, <3>3
  <2>13. OneRunning'
    <3>1. \A q \in Ids : ledRuns'[q].status = "running" => ledRuns[q].status = "running"
      BY <2>2 DEF EndStatuses
    <3>2. \A q \in Ids : Readable(q) => Readable(q)' BY <2>2 DEF Readable
    <3> QED BY <2>2, <2>3, <2>4, <3>1, <3>2 DEF LedInv, OneRunning
  <2>14. \A q \in Ids : Readable(q) /\ ledEnded'[q] # "none" => ledRuns'[q].status = ledEnded'[q]
    <3> SUFFICES ASSUME NEW q \in Ids, Readable(q), ledEnded'[q] # "none" PROVE ledRuns'[q].status = ledEnded'[q]
      OBVIOUS
    <3>1. CASE q = r BY <2>2, <2>6, <3>1
    <3>2. CASE q # r BY <2>2, <2>5, <2>6, <3>2 DEF LedInv, LedgerKept
    <3> QED BY <3>1, <3>2
  <2>15. \A q \in Ids' : q > Len(ledRuns) => ledEnded'[q] = "none" BY <2>1, <2>3
  <2>16. Len(ledRuns) <= Len(ledRuns') BY <2>1, <2>2
  <2>17. \A q \in Ids : /\ ledRuns'[q].sound = ledRuns[q].sound /\ ledRuns'[q].items = ledRuns[q].items
                        /\ ledRuns'[q].repro = ledRuns[q].repro
    BY <2>2
  <2> QED BY <1>1, <2>9, <2>10, <2>11, <2>12, <2>13, <2>14, <2>15, <2>16, <2>17, RewritesKeep
<1> QED BY <1>2, <1>3 DEF RunFinish

LEMMA DamageKeeps == ASSUME LedInv, NEW r \in Ids, Damage(r) PROVE LedInv'
<1>1. /\ ledRuns' = [ledRuns EXCEPT ![r] = Unreadable] /\ ledFaults' = ledFaults + 1
      /\ UNCHANGED <<ledFindings, ledServer, ledAcked, ledEnded, ledNext>>
  BY DEF Damage, WriteFails
<1>2. LedTypeOK /\ Ids = 1 .. Len(ledRuns) /\ Len(ledRuns) \in Nat BY IdsAreNumbers DEF LedInv
<1>3. Unreadable \in RunRecs /\ Unreadable.sound = FALSE
  <2>1. NewRun("none", "none") \in RunRecs BY NewRunIsRun
  <2> QED BY <2>1 DEF Unreadable, RunRecs
<1>4. /\ ledRuns' \in Seq(RunRecs) /\ Len(ledRuns') = Len(ledRuns) /\ ledRuns'[r] = Unreadable
      /\ \A q \in Ids : q # r => ledRuns'[q] = ledRuns[q]
  BY <1>1, <1>2, <1>3 DEF LedTypeOK
<1>5. Ids' = Ids BY <1>2, <1>4 DEF Ids
<1>6. ledFaults' \in Nat /\ ledFaults' # 0 BY <1>1, ServerIsTyped
<1>7. \A q \in Ids : Readable(q)' => q # r /\ ledRuns'[q] = ledRuns[q] /\ Readable(q)
  BY <1>3, <1>4 DEF Readable
<1>8. LedTypeOK' BY <1>1, <1>2, <1>4, <1>6 DEF LedTypeOK
<1>9. TellsOfRuns' BY <1>1, <1>4 DEF LedInv, TellsOfRuns
<1>10. WorkerOK'
  <2> SUFFICES ASSUME ledServer.worker # NoWorker PROVE WorkerOK'
    BY <1>1 DEF WorkerOK
  <2>1. ledServer.worker.run \in Ids
    <3>1. ledServer.worker \in Workers BY ServerIsTyped DEF Servers
    <3>2. ledServer.worker.run \in Nat \ {0} BY <3>1 DEF Workers
    <3>3. ledServer.worker.run = ledServer.active BY DEF LedInv, WorkerOK
    <3> QED BY <1>2, <3>2, <3>3, ServerIsTyped
  <2> QED BY <1>1, <1>7, <2>1 DEF LedInv, WorkerOK, Holds
<1>11. ActiveRuns'
  <2> SUFFICES ASSUME ledServer.active # NoRun, ledRuns'[ledServer.active].sound
               PROVE  ledRuns'[ledServer.active].status = "running"
    BY <1>1 DEF ActiveRuns, Readable
  <2>1. ledServer.active \in Ids BY <1>2, ServerIsTyped DEF NoRun
  <2>2. ledRuns'[ledServer.active] = ledRuns[ledServer.active] BY <1>3, <1>4, <2>1
  <2> QED BY <2>1, <2>2 DEF LedInv, ActiveRuns, Readable
<1>12. OneRunning' BY <1>6 DEF OneRunning
<1>13. LedgerKept'
  <2>1. ASSUME NEW a \in ledAcked, a.run # NoRun, Readable(a.run)'
        PROVE  /\ a.item \in ledRuns'[a.run].items
               /\ a.item.kind = "load_state" => ledRuns'[a.run].repro = "savestate_only"
    <3>1. a.run \in Nat /\ a.run <= Len(ledRuns) /\ a.run # 0
      BY <1>2, <2>1 DEF LedInv, TellsOfRuns, LedTypeOK, NoRun
    <3>2. a.run \in Ids BY <1>2, <3>1
    <3> QED BY <1>7, <2>1, <3>2 DEF LedInv, LedgerKept
  <2>2. \A q \in Ids : ledEnded[q] # "none" /\ Readable(q)' => ledRuns'[q].status = ledEnded[q]
    BY <1>7 DEF LedInv, LedgerKept
  <2>3. \A a \in ledAcked : a.run = NoRun => a.item.id \in ledFindings BY DEF LedInv, LedgerKept
  <2> QED BY <1>1, <1>5, <2>1, <2>2, <2>3 DEF LedgerKept
<1> QED BY <1>8, <1>9, <1>10, <1>11, <1>12, <1>13 DEF LedInv

LEMMA ServerStepKeeps == ASSUME LedInv, ServerDies \/ ServerStarts PROVE LedInv'
<1>1. /\ ledServer' \in Servers /\ ledServer'.worker = NoWorker /\ ledServer'.active = 0
      /\ UNCHANGED <<ledRuns, ledFindings, ledAcked, ledEnded, ledNext, ledFaults>>
  BY ServersAreServers DEF ServerDies, ServerStarts
<1>2. WorkerOK' /\ ActiveRuns' BY <1>1 DEF WorkerOK, ActiveRuns, NoRun
<1>3. 0 \in 0 .. Len(ledRuns)
  <2>1. Len(ledRuns) \in Nat BY IdsAreNumbers DEF LedInv
  <2> QED BY <2>1
<1> QED BY <1>1, <1>2, <1>3, ServerIsTyped, StillKeeps

LEMMA LedInitHolds == LedInit => LedInv
<1> SUFFICES ASSUME LedInit PROVE LedInv
  OBVIOUS
<1>1. /\ ledRuns = <<>> /\ ledAcked = {} /\ ledServer = Up /\ ledNext = 1 /\ ledFaults = 0
      /\ ledEnded = [r \in 1 .. MaxRuns |-> "none"]
  BY DEF LedInit
<1>2. Len(ledRuns) = 0 /\ Ids = {} /\ ledRuns \in Seq(RunRecs) BY <1>1 DEF Ids
<1>3. LedTypeOK BY <1>1, <1>2, ServersAreServers, LedAssumption DEF LedTypeOK, Servers, EndStatuses
<1>4. TellsOfRuns BY <1>1 DEF TellsOfRuns
<1>5. WorkerOK /\ ActiveRuns BY <1>1, ServersAreServers DEF WorkerOK, ActiveRuns, NoRun
<1>6. OneRunning /\ LedgerKept BY <1>1, <1>2 DEF OneRunning, LedgerKept
<1> QED BY <1>3, <1>4, <1>5, <1>6 DEF LedInv

LEMMA LedNextKeeps == LedInv /\ [LedNext]_ledVars => LedInv'
<1> SUFFICES ASSUME LedInv, [LedNext]_ledVars PROVE LedInv'
  OBVIOUS
<1>1. CASE UNCHANGED ledVars BY <1>1, FailedWriteKeeps, ServerIsTyped DEF ledVars
<1>2. CASE LedNext
  BY <1>2, LogItemKeeps, LogFindingKeeps, ArtifactStartKeeps, ArtifactCancelKeeps, ArtifactEndKeeps,
     StartResumesKeeps, StartCreatesKeeps, RunResumeKeeps, RunFinishKeeps, DamageKeeps, ServerStepKeeps
     DEF LedNext
<1> QED BY <1>1, <1>2

LEMMA OneAtMost == LedInv => LedgerSound
<1> SUFFICES ASSUME LedInv PROVE LedgerSound
  OBVIOUS
<1>1. LedgerKept BY DEF LedInv
<1>2. ASSUME ledFaults = 0, NEW c \in Conns PROVE Cardinality(RunningOf(Ids, c)) <= 1
  <2> DEFINE S == RunningOf(Ids, c)
  <2>1. \A r, q \in S : r = q BY <1>2 DEF LedInv, OneRunning, RunningOf
  <2> HIDE DEF S
  <2>2. CASE S = {} BY <2>2, FS_EmptySet DEF S
  <2>3. CASE S # {}
    <3>1. PICK r \in S : TRUE BY <2>3
    <3>2. S = {r} BY <2>1, <3>1
    <3>3. Cardinality({r}) = 1 BY FS_Singleton
    <3> QED BY <3>2, <3>3 DEF S
  <2> QED BY <2>2, <2>3
<1> QED BY <1>1, <1>2 DEF LedInv, LedgerSound, ActiveIsRunning, ActiveRuns

\* Whatever a log call or a finished run was acknowledged for stays in the ledger,
\* through failed writes, deaths of the server, damaged records and cancelled
\* requests whose hash worker writes later (log_artifact, transaction_gate); and the
\* run that log calls go to is a running one, the only one of its connection as long as
\* nothing failed.
THEOREM LedgerIsSound == LedSpec => []LedgerSound
<1>1. LedInit => LedInv BY LedInitHolds
<1>2. LedInv /\ [LedNext]_ledVars => LedInv' BY LedNextKeeps
<1>3. LedInv => LedgerSound BY OneAtMost
<1> QED BY <1>1, <1>2, <1>3, PTL DEF LedSpec
=============================================================================
