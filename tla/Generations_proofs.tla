------------------------ MODULE Generations_proofs ------------------------
(***************************************************************************)
(* The safety of the runtime generations for every set of controllers,     *)
(* tools and launch ids.                                                   *)
(***************************************************************************)
EXTENDS Generations, TLAPS

USE GenerationsAssumption
USE DEF files, host, session

-----------------------------------------------------------------------------
(* Type correctness.                                                        *)

Runs == [pc : Labels, tool : AllTools \cup {"none"}, gen : Gens \cup {None},
         new : Gens \cup {None}, expected : Gens \cup {None}]

Links == [lease : Controllers \cup {None}, owner : Controllers \cup {None},
          state : {"None", "Active", "Unverified"}]

Captures == [by : Controllers \cup {None},
             state : {"None", "Prepared", "Arming", "Open", "Safe", "Unsafe"}]

\* The type invariant by parts.
FilesOK ==
    /\ current \in Gens \cup {None}
    /\ generations \subseteq Gens
    /\ link \in [Gens -> Links]
    /\ termination \in [Gens -> {"None", "Requested", "Completed", "Failed"}]
    /\ currentLock \in Controllers \cup {None}
CaptureOK == capture \in [Gens -> Captures]
HostOK ==
    /\ owned \in [Gens -> SUBSET {"emulator", "bridge"}]
    /\ procs \in [Gens -> SUBSET {"emulator", "bridge"}]
    /\ strays \subseteq Gens
SessionOK ==
    /\ alive \in [Controllers -> BOOLEAN]
    /\ peer \in [Controllers -> Gens \cup {None}]
    /\ temporal \in [Controllers -> Gens \cup {None}]
RunOK == run \in [Controllers -> Runs]

LEMMA TypeSplit ==
    /\ TypeOK <=> FilesOK /\ CaptureOK /\ HostOK /\ SessionOK /\ RunOK
    /\ TypeOK' <=> FilesOK' /\ CaptureOK' /\ HostOK' /\ SessionOK' /\ RunOK'
BY DEF TypeOK, FilesOK, CaptureOK, HostOK, SessionOK, RunOK, Runs, Links, Captures

\* A tool moves on with what it has in hand.
LEMMA GotoFacts ==
    ASSUME RunOK, NEW c \in Controllers, NEW label \in Labels, Goto(c, label)
    PROVE  /\ RunOK'
           /\ run'[c] = [run[c] EXCEPT !.pc = label]
           /\ run'[c].pc = label /\ run'[c].tool = run[c].tool
           /\ run'[c].gen = run[c].gen /\ run'[c].new = run[c].new
           /\ run'[c].expected = run[c].expected
           /\ \A d \in Controllers \ {c} : run'[d] = run[d]
BY DEF RunOK, Runs, Goto

LEMMA ReturnFacts ==
    ASSUME RunOK, NEW c \in Controllers, Return(c)
    PROVE  /\ RunOK' /\ run'[c] = Idle
           /\ \A d \in Controllers \ {c} : run'[d] = run[d]
BY DEF RunOK, Runs, Return, Idle, Labels

\* The same, with a generation that it has just read.
LEMMA RegenFacts ==
    ASSUME RunOK, NEW c \in Controllers, NEW label \in Labels,
           NEW g \in Gens \cup {None},
           GotoWith(c, label, g)
    PROVE  /\ RunOK'
           /\ run'[c].pc = label /\ run'[c].tool = run[c].tool
           /\ run'[c].gen = g /\ run'[c].new = run[c].new
           /\ run'[c].expected = run[c].expected
           /\ \A d \in Controllers \ {c} : run'[d] = run[d]
<1> DEFINE r == [run[c] EXCEPT !.pc = label, !.gen = g]
<1>1. run[c] \in Runs
  BY DEF RunOK
<1>2. r \in Runs /\ r.pc = label /\ r.tool = run[c].tool
  BY <1>1 DEF Runs
<1>3. r.gen = g /\ r.new = run[c].new
      /\ r.expected = run[c].expected
  BY <1>1 DEF Runs
<1>4. run' = [run EXCEPT ![c] = r]
  BY <1>1 DEF RunOK, GotoWith
<1> HIDE DEF r
<1> QED BY <1>2, <1>3, <1>4 DEF RunOK

\* The same, with the launch id that it expects to replace.
LEMMA ExpectFacts ==
    ASSUME RunOK, NEW c \in Controllers, NEW label \in Labels,
           NEW g \in Gens \cup {None},
           run' = [run EXCEPT ![c] = [@ EXCEPT !.pc = label, !.expected = g]]
    PROVE  /\ RunOK'
           /\ run'[c].pc = label /\ run'[c].tool = run[c].tool
           /\ run'[c].gen = run[c].gen /\ run'[c].new = run[c].new
           /\ run'[c].expected = g
           /\ \A d \in Controllers \ {c} : run'[d] = run[d]
<1> DEFINE r == [run[c] EXCEPT !.pc = label, !.expected = g]
<1>1. run[c] \in Runs
  BY DEF RunOK
<1>2. r \in Runs /\ r.pc = label /\ r.tool = run[c].tool
  BY <1>1 DEF Runs
<1>3. r.gen = run[c].gen /\ r.new = run[c].new
      /\ r.expected = g
  BY <1>1 DEF Runs
<1>4. run' = [run EXCEPT ![c] = r]
  BY <1>1 DEF RunOK
<1> HIDE DEF r
<1> QED BY <1>2, <1>3, <1>4 DEF RunOK

\* The same, with the generation that it launches.
LEMMA PrepareFacts ==
    ASSUME RunOK, NEW c \in Controllers, NEW g \in Gens, Prepare(c, g)
    PROVE  /\ RunOK'
           /\ run'[c].pc = "beforeSignal" /\ run'[c].tool = run[c].tool
           /\ run'[c].gen = run[c].gen /\ run'[c].new = g
           /\ run'[c].expected = run[c].expected
           /\ \A d \in Controllers \ {c} : run'[d] = run[d]
<1> DEFINE r == [run[c] EXCEPT !.pc = "beforeSignal", !.new = g]
<1>1. run[c] \in Runs /\ "beforeSignal" \in Labels
  BY DEF RunOK, Labels
<1>2. r \in Runs /\ r.pc = "beforeSignal" /\ r.tool = run[c].tool
  BY <1>1 DEF Runs
<1>3. r.gen = run[c].gen /\ r.new = g /\ r.expected = run[c].expected
  BY <1>1 DEF Runs
<1>4. run' = [run EXCEPT ![c] = r]
  BY <1>1 DEF RunOK, Prepare
<1> HIDE DEF r
<1> QED BY <1>2, <1>3, <1>4 DEF RunOK

LEMMA StartFacts ==
    ASSUME RunOK, NEW c \in Controllers, NEW tool, NEW label \in Labels,
           NEW g \in Gens \cup {None}, Start(c, tool, label, g)
    PROVE  /\ RunOK'
           /\ run'[c].pc = label /\ run'[c].tool = tool /\ run'[c].gen = g
           /\ run'[c].new = None /\ run'[c].expected = None
           /\ \A d \in Controllers \ {c} : run'[d] = run[d]
           /\ UNCHANGED <<files, host, session>>
BY DEF RunOK, Runs, Start, Idle, AllTools

LEMMA InitType == Init => TypeOK
BY DEF Init, TypeOK, NoLink, NoCapture, Idle, Labels

\* A tool has in hand what its next steps work on: the generation that it was
\* started for, and the one that it launches.
InHand(c) ==
    /\ run[c].pc \in {"claim", "check", "persist", "note", "reattach", "acquire",
                      "resolve", "stopLease", "stopIntent", "stopSignal",
                      "stopRecord", "create", "arm", "dispatch", "close"}
           => run[c].gen # None
    /\ run[c].pc \in {"wire", "outcome", "reconcile"} /\ run[c].tool = "record"
           => run[c].gen # None
    /\ run[c].pc \in {"admit", "previous"} => run[c].tool # "record"
    /\ run[c].pc \in {"beforeSignal", "signal", "spawn", "ready", "commit",
                      "undo", "clean"} => run[c].new # None
    /\ ~alive[c] => run[c] = Idle

TypeInv == TypeOK /\ \A c \in Controllers : InHand(c)

-----------------------------------------------------------------------------
(* What a step of one controller may do to the files, to the processes and  *)
(* to the others: the guarantee that each of them relies on.                *)

\* A launch id is drawn that no other launcher has.
NewEffect(c) ==
    \/ run'[c].new \in {None, run[c].new}
    \/ \A d \in Controllers : run[d].new # run'[c].new

\* The controller's own run after the step, and the others'.
Moved(c) ==
    /\ RunOK' /\ InHand(c)' /\ NewEffect(c)
    /\ \A d \in Controllers \ {c} : run'[d] = run[d]

\* The directories that a step may remove: a launch that fails removes its
\* own, one that has published removes the others.
Removable(c, g) ==
    \/ run[c].pc = "clean" /\ g # run[c].new
    \/ g = run[c].new /\ g # current /\ run'[c] = Idle

CurrentEffect(c) ==
    \/ current' = current
    \/ /\ run[c].pc = "commit" /\ currentLock = None
       /\ current = run[c].expected /\ current' = run[c].new
       /\ run'[c].pc \in {"clean", "undo"}

LeaseEffect(c) ==
    \A g \in Gens :
        \/ link'[g].lease = link[g].lease
        \/ /\ g = current /\ currentLock = None /\ link'[g].lease = c
           /\ \/ link[g].lease \in {None, c}
              \/ ~alive[link[g].lease]
        \/ Removable(c, g) /\ link'[g].lease = None

DirectoryEffect(c) ==
    /\ \A g \in generations : g \in generations' \/ Removable(c, g)
    /\ \A g \in generations' :
          \/ g \in generations
          \/ g = current
          \/ run[c].pc = "note" /\ g = run[c].gen
          \/ run[c].pc = "prepare" /\ owned[g] = {}

TerminationEffect(c) ==
    \A g \in Gens :
        \/ termination'[g] = termination[g]
        \/ /\ g = current
           /\ termination'[g] = "Completed" => procs[g] = {}
        \/ Removable(c, g) /\ termination'[g] = "None"

LockEffect(c) ==
    \/ currentLock' = currentLock
    \/ run[c].pc = "commit" /\ currentLock = None /\ currentLock' = c
    \/ run[c].pc = "clean" /\ currentLock' = None
    \/ currentLock = c /\ currentLock' = None /\ run'[c] = Idle

FileEffects(c) ==
    /\ CurrentEffect(c) /\ LeaseEffect(c) /\ DirectoryEffect(c)
    /\ TerminationEffect(c) /\ LockEffect(c)

HostEffects(c) ==
    \A g \in Gens :
        \/ owned'[g] = owned[g] /\ procs'[g] \subseteq procs[g]
        \/ /\ run[c].pc = "spawn" /\ g = run[c].new /\ owned'[g] # {}
           /\ run'[c].pc = "ready"

OthersKept(c) ==
    \A d \in Controllers \ {c} : run'[d] = run[d] /\ alive'[d] = alive[d]

FileSteps == <<current, generations, link, termination, currentLock>>

LEMMA QuietFiles ==
    ASSUME FilesOK, NEW c \in Controllers, UNCHANGED FileSteps
    PROVE  FilesOK' /\ FileEffects(c)
BY DEF FilesOK, FileEffects, FileSteps, CurrentEffect, LeaseEffect,
       DirectoryEffect, TerminationEffect, LockEffect

\* A claim takes the lease of the current generation, from nobody who lives.
LEMMA ClaimFacts ==
    ASSUME FilesOK, SessionOK, NEW c \in Controllers, NEW g \in Gens,
           ClaimLease(c, g)
    PROVE  /\ FilesOK' /\ FileEffects(c)
           /\ current = g /\ link'[g].lease = c /\ currentLock = None
           /\ link[g].lease = c \/ link[g].lease = None \/ ~alive[link[g].lease]
           /\ link'[g].owner = link[g].owner /\ link'[g].state = link[g].state
           /\ \A h \in Gens \ {g} : link'[h] = link[h]
           /\ UNCHANGED <<current, capture, termination, currentLock>>
<1>1. link[g].lease = c \/ link[g].lease = None \/ ~alive[link[g].lease]
  BY DEF ClaimLease, LeaseView
<1>2. FilesOK'
  BY DEF ClaimLease, FilesOK, Links
<1>3. /\ current = g /\ link'[g].lease = c /\ currentLock = None
      /\ link'[g].owner = link[g].owner /\ link'[g].state = link[g].state
      /\ \A h \in Gens \ {g} : link'[h] = link[h]
      /\ UNCHANGED <<current, capture, termination, currentLock>>
  BY DEF ClaimLease, FilesOK, Links
<1>4. LeaseEffect(c)
  BY <1>1, <1>3 DEF LeaseEffect
<1>5. DirectoryEffect(c)
  BY <1>3 DEF DirectoryEffect, ClaimLease
<1>6. CurrentEffect(c) /\ TerminationEffect(c) /\ LockEffect(c)
  BY <1>3 DEF CurrentEffect, TerminationEffect, LockEffect
<1> QED BY <1>1, <1>2, <1>3, <1>4, <1>5, <1>6 DEF FileEffects

\* A failed claim has claimed, or changed nothing.
LEMMA ClaimFailsFacts ==
    ASSUME FilesOK, SessionOK, NEW c \in Controllers, NEW g \in Gens,
           ClaimFails(c, g)
    PROVE  /\ FilesOK' /\ FileEffects(c)
           /\ UNCHANGED <<current, capture, termination, currentLock>>
           /\ \A h \in Gens : /\ link'[h].owner = link[h].owner
                              /\ link'[h].state = link[h].state
           /\ current = g /\ link[g].lease = c => link'[g].lease = c
<1>1. CASE ClaimLease(c, g)
  BY <1>1, ClaimFacts
<1>2. CASE UNCHANGED files
  BY <1>2, QuietFiles DEF FileSteps
<1> QED BY <1>1, <1>2 DEF ClaimFails

\* A failed launch removes what is its own and was not published.
LEMMA AbortFacts ==
    ASSUME FilesOK, CaptureOK, RunOK, NEW c \in Controllers, run[c].new \in Gens,
           Abort(c)
    PROVE  /\ FilesOK' /\ FileEffects(c) /\ CaptureOK' /\ RunOK'
           /\ run'[c] = Idle
           /\ \A d \in Controllers \ {c} : run'[d] = run[d]
           /\ UNCHANGED <<current, currentLock>>
           /\ \A g \in Gens : \/ link'[g] = link[g] /\ capture'[g] = capture[g]
                              \/ Removable(c, g) /\ g \notin generations'
<1>1. Return(c) /\ UNCHANGED <<current, currentLock>>
  BY DEF Abort
<1>2. RunOK' /\ run'[c] = Idle /\ \A d \in Controllers \ {c} : run'[d] = run[d]
  BY <1>1, ReturnFacts
<1>3. CASE current # run[c].new /\ Remove({run[c].new})
  <2>1. FilesOK' /\ CaptureOK'
    BY <1>1, <1>3 DEF Remove, FilesOK, CaptureOK, Links, Captures, NoLink, NoCapture
  <2>2. LeaseEffect(c) /\ TerminationEffect(c)
    BY <1>2, <1>3 DEF Remove, LeaseEffect, TerminationEffect, Removable, NoLink
  <2>3. DirectoryEffect(c)
    BY <1>2, <1>3 DEF Remove, DirectoryEffect, Removable
  <2>4. \A g \in Gens : \/ link'[g] = link[g] /\ capture'[g] = capture[g]
                        \/ Removable(c, g) /\ g \notin generations'
    BY <1>2, <1>3 DEF Remove, Removable
  <2> QED BY <1>1, <1>2, <2>1, <2>2, <2>3, <2>4 DEF FileEffects, CurrentEffect, LockEffect
<1>4. CASE UNCHANGED <<generations, link, capture, termination>>
  BY <1>1, <1>2, <1>4, QuietFiles DEF FileSteps, CaptureOK
<1> QED BY <1>3, <1>4 DEF Abort

\* A record of a stop is written for the current generation.
LEMMA WriteFacts ==
    ASSUME FilesOK, NEW c \in Controllers, NEW state,
           state \in {"Requested", "Completed", "Failed"},
           WriteTermination(c, state), run[c].gen \in Gens,
           state = "Completed" => procs[run[c].gen] = {}
    PROVE  /\ FilesOK' /\ FileEffects(c)
           /\ UNCHANGED <<current, link, capture, currentLock>>
<1>1. current = run[c].gen /\ UNCHANGED <<current, link, capture, currentLock>>
  BY DEF WriteTermination
<1>2. FilesOK'
  BY <1>1 DEF WriteTermination, FilesOK
<1>3. TerminationEffect(c)
  BY <1>1 DEF WriteTermination, FilesOK, TerminationEffect
<1>4. DirectoryEffect(c)
  BY <1>1 DEF WriteTermination, FilesOK, DirectoryEffect
<1> QED BY <1>1, <1>2, <1>3, <1>4 DEF FileEffects, CurrentEffect, LeaseEffect, LockEffect

-----------------------------------------------------------------------------
(* Every step keeps the types and gives the guarantee.                      *)

StepOK(c) ==
    /\ TypeOK' /\ InHand(c)' /\ NewEffect(c)
    /\ FileEffects(c) /\ HostEffects(c) /\ OthersKept(c)

\* A step that changes nothing but the controller's own run.
LEMMA LocalStep ==
    ASSUME TypeInv, NEW c \in Controllers, UNCHANGED <<files, host, session>>,
           Moved(c)
    PROVE  StepOK(c)
<1>1. FilesOK' /\ FileEffects(c)
  BY TypeSplit, QuietFiles DEF TypeInv, FileSteps
<1>2. CaptureOK' /\ HostOK' /\ SessionOK'
  BY TypeSplit DEF TypeInv, CaptureOK, HostOK, SessionOK
<1>3. HostEffects(c) /\ OthersKept(c)
  BY DEF HostEffects, OthersKept, Moved
<1> QED BY <1>1, <1>2, <1>3, TypeSplit DEF StepOK, Moved

\* A step that changes the files as well.
LEMMA FileStep ==
    ASSUME TypeInv, NEW c \in Controllers, FilesOK', FileEffects(c), CaptureOK',
           UNCHANGED <<host, alive>>, SessionOK', Moved(c)
    PROVE  StepOK(c)
<1>1. HostOK' /\ HostEffects(c) /\ OthersKept(c)
  BY TypeSplit DEF TypeInv, HostOK, HostEffects, OthersKept, Moved
<1> QED BY <1>1, TypeSplit DEF StepOK, Moved

\* A tool that has returned has nothing in hand.
LEMMA ReturnStep ==
    ASSUME RunOK, NEW c \in Controllers, Return(c)
    PROVE  Moved(c)
<1>1. RunOK' /\ run'[c] = Idle /\ \A d \in Controllers \ {c} : run'[d] = run[d]
  BY ReturnFacts
<1> QED BY <1>1 DEF InHand, Idle, Moved, NewEffect

\* A tool starts.
LEMMA StartStep ==
    ASSUME TypeInv, NEW c \in Controllers, NEW tool, NEW label \in Labels,
           NEW g \in Gens \cup {None}, Start(c, tool, label, g),
           \/ label \in {"claim", "reattach", "stopLease", "acquire"} /\ g # None
           \/ label = "wire" /\ tool # "record"
    PROVE  StepOK(c)
<1>1. RunOK
  BY TypeSplit DEF TypeInv
<1>2. /\ RunOK' /\ UNCHANGED <<files, host, session>>
      /\ run'[c].pc = label /\ run'[c].tool = tool /\ run'[c].gen = g
      /\ run'[c].new = None /\ \A d \in Controllers \ {c} : run'[d] = run[d]
  BY <1>1, StartFacts
<1>3. alive[c]
  BY DEF Start, At
<1>4. InHand(c)'
  BY <1>2, <1>3 DEF InHand
<1> QED BY <1>2, <1>4, LocalStep DEF Moved, NewEffect

\* The labels that a tool may go to with what it has in hand.
Reaches(c, label) ==
    \/ /\ label \in {"check", "persist", "wire", "outcome", "reconcile", "resolve",
                     "create", "arm", "dispatch", "claim", "close", "stopIntent",
                     "stopSignal", "stopRecord"}
       /\ run[c].gen # None
    \/ label \in {"wire", "outcome", "admit", "previous"} /\ run[c].tool # "record"
    \/ label \in {"previousFree", "recheck", "expect"}
    \/ label \in {"signal", "spawn", "ready", "commit", "undo", "clean"}
       /\ run[c].new # None

LEMMA GotoMove ==
    ASSUME RunOK, NEW c \in Controllers, alive'[c], NEW label, Goto(c, label),
           Reaches(c, label)
    PROVE  Moved(c)
<1>1. label \in Labels
  BY DEF Reaches, Labels
<1>2. /\ RunOK' /\ run'[c].pc = label /\ run'[c].gen = run[c].gen
      /\ run'[c].new = run[c].new /\ run'[c].tool = run[c].tool
      /\ \A d \in Controllers \ {c} : run'[d] = run[d]
  BY <1>1, GotoFacts
<1>3. InHand(c)'
  BY <1>2 DEF InHand, Reaches
<1> QED BY <1>2, <1>3 DEF Moved, NewEffect

LEMMA StartSteps ==
    ASSUME TypeInv, NEW c \in Controllers,
           \/ StartRead(c) \/ StartMutation(c) \/ StartTemporal(c)
           \/ \E g \in Gens : StartReattach(c, g)
           \/ \E tool \in {"launch", "replace"} : StartLaunch(c, tool)
           \/ StartStop(c) \/ StartRecord(c)
    PROVE  StepOK(c)
<1>0. current \in Gens \cup {None}
  BY DEF TypeInv, TypeOK
<1> {"wire", "claim", "reattach", "stopLease", "acquire"} \subseteq Labels
  BY DEF Labels
<1>1. CASE StartRead(c)
  BY <1>1, StartStep DEF StartRead
<1>2. CASE StartMutation(c)
  BY <1>0, <1>2, StartStep DEF StartMutation, Bound
<1>3. CASE StartTemporal(c)
  BY <1>0, <1>3, StartStep DEF StartTemporal, Bound
<1>4. ASSUME NEW g \in Gens, StartReattach(c, g) PROVE StepOK(c)
  BY <1>4, StartStep DEF StartReattach
<1>5. ASSUME NEW tool \in {"launch", "replace"}, StartLaunch(c, tool) PROVE StepOK(c)
  BY <1>5, StartStep DEF StartLaunch
<1>6. CASE StartStop(c)
  BY <1>0, <1>6, StartStep DEF StartStop
<1>7. CASE StartRecord(c)
  BY <1>0, <1>7, StartStep DEF StartRecord, Bound
<1> QED BY <1>1, <1>2, <1>3, <1>4, <1>5, <1>6, <1>7

\* The steps that only look.
LEMMA LookSteps ==
    ASSUME TypeInv, NEW c \in Controllers,
           \/ Check(c) \/ GiveUp(c) \/ Admit(c) \/ Previous(c) \/ Recheck(c)
           \/ Expect(c) \/ Ready(c)
    PROVE  StepOK(c)
<1>0. RunOK /\ FilesOK /\ InHand(c) /\ UNCHANGED <<files, host, session>> /\ alive[c]
  BY TypeSplit DEF TypeInv, Check, GiveUp, Admit, Previous, Recheck, Expect, Ready, At
<1> current \in Gens \cup {None}
  BY <1>0 DEF FilesOK
<1> {"reconcile", "acquire", "prepare"} \subseteq Labels
  BY DEF Labels
<1>1. CASE Check(c)
  <2>1. run[c].gen # None
    BY <1>0, <1>1 DEF InHand, Check, At
  <2>2. \/ Return(c)
        \/ \E label \in {"close", "persist", "wire"} : Goto(c, label)
    BY <1>1 DEF Check, Refused
  <2> QED BY <1>0, <2>1, <2>2, GotoMove, ReturnStep, LocalStep DEF Reaches
<1>2. CASE GiveUp(c)
  BY <1>0, <1>2, ReturnStep, LocalStep DEF GiveUp
<1>3. CASE Admit(c)
  <2>1. Reaches(c, "previous") /\ Reaches(c, "previousFree")
    BY <1>0, <1>3 DEF InHand, Admit, At, Reaches
  <2> QED BY <1>0, <1>3, <2>1, GotoMove, LocalStep DEF Admit
<1>4. CASE Recheck(c)
  BY <1>0, <1>4, GotoMove, LocalStep DEF Recheck, Reaches
<1>5. CASE Ready(c)
  <2>1. Reaches(c, "commit")
    BY <1>0, <1>5 DEF InHand, Ready, At, Reaches
  <2> QED BY <1>0, <1>5, <2>1, GotoMove, LocalStep DEF Ready
<1>6. CASE Expect(c)
  <2>1. run' = [run EXCEPT ![c] = [@ EXCEPT !.pc = "prepare", !.expected = current]]
    BY <1>6 DEF Expect
  <2>2. /\ RunOK' /\ run'[c].new = run[c].new /\ run'[c].pc = "prepare"
        /\ \A d \in Controllers \ {c} : run'[d] = run[d]
    BY ZenonT(60), <1>0, <2>1, ExpectFacts
  <2>3. InHand(c)'
    BY <1>0, <2>2 DEF InHand
  <2> QED BY <1>0, <2>2, <2>3, LocalStep DEF Moved, NewEffect
<1>7. CASE Previous(c)
  <2>1. CASE Return(c)
    BY <1>0, <2>1, ReturnStep, LocalStep
  <2>2. CASE /\ GotoWith(c, "reconcile", current)
             /\ run[c].pc = "previous"
    <3>1. /\ RunOK' /\ run'[c].new = run[c].new /\ run'[c].pc = "reconcile" /\ run'[c].tool = run[c].tool
          /\ \A d \in Controllers \ {c} : run'[d] = run[d]
      BY <1>0, <2>2, RegenFacts
    <3>2. InHand(c)'
      BY <1>0, <2>2, <3>1 DEF InHand
    <3> QED BY <1>0, <3>1, <3>2, LocalStep DEF Moved, NewEffect
  <2>3. CASE /\ GotoWith(c, "acquire", current)
             /\ current # None
    <3>1. /\ RunOK' /\ run'[c].new = run[c].new /\ run'[c].pc = "acquire" /\ run'[c].gen = current
          /\ \A d \in Controllers \ {c} : run'[d] = run[d]
      BY <1>0, <2>3, RegenFacts
    <3>2. InHand(c)'
      BY <1>0, <2>3, <3>1 DEF InHand
    <3> QED BY <1>0, <3>1, <3>2, LocalStep DEF Moved, NewEffect
  <2> QED BY <1>7, <2>1, <2>2, <2>3 DEF Previous, At
<1> QED BY <1>1, <1>2, <1>3, <1>4, <1>5, <1>6, <1>7

\* What follows a call finds what it needs.
LEMMA ResumeMove ==
    ASSUME RunOK, FilesOK, NEW c \in Controllers, InHand(c), alive'[c], Resume(c),
           run[c].pc \in {"outcome", "note"}
    PROVE  Moved(c)
<1>1. CASE run[c].tool \in {"launch", "replace"} /\ Goto(c, "admit")
  BY <1>1, GotoMove DEF Reaches
<1>2. CASE run[c].tool = "record" /\ Goto(c, "close")
  <2>1. run[c].gen # None
    BY <1>2 DEF InHand
  <2> QED BY <1>2, <2>1, GotoMove DEF Reaches
<1>3. CASE Return(c)
  BY <1>3, ReturnStep
<1>4. CASE run[c].tool = "read" /\ GotoWith(c, "reconcile", current)
  <2>1. current \in Gens \cup {None} /\ "reconcile" \in Labels
    BY DEF FilesOK, Labels
  <2>2. /\ RunOK' /\ run'[c].new = run[c].new /\ run'[c].pc = "reconcile" /\ run'[c].tool = "read"
        /\ \A d \in Controllers \ {c} : run'[d] = run[d]
    BY <1>4, <2>1, RegenFacts
  <2>3. InHand(c)'
    BY <2>2 DEF InHand
  <2> QED BY <2>2, <2>3 DEF Moved, NewEffect
<1> QED BY <1>1, <1>2, <1>3, <1>4 DEF Resume

\* A call, from its claim to the record of its outcome.
LEMMA CallSteps ==
    ASSUME TypeInv, NEW c \in Controllers,
           \/ Claim(c) \/ Persist(c) \/ Wire(c) \/ Outcome(c) \/ Note(c)
           \/ Reattach(c) \/ \E verified \in BOOLEAN : FinishTemporal(c, verified)
    PROVE  StepOK(c)
<1>0. RunOK /\ FilesOK /\ CaptureOK /\ SessionOK /\ InHand(c) /\ alive[c]
  BY TypeSplit DEF TypeInv, Claim, Persist, Wire, Outcome, Note, Reattach,
                   FinishTemporal, At
<1> run[c].gen \in Gens \cup {None} /\ current \in Gens \cup {None}
  BY <1>0 DEF RunOK, Runs, FilesOK
<1>1. CASE Claim(c)
  <2>1. run[c].gen # None /\ UNCHANGED <<host, session>>
    BY <1>0, <1>1 DEF InHand, Claim, At
  <2>2. CaptureOK' /\ SessionOK'
    BY <1>0, <1>1, <2>1, ClaimFacts, ClaimFailsFacts DEF Claim, CaptureOK, SessionOK
  <2>3. FilesOK' /\ FileEffects(c)
    BY <1>0, <1>1, <2>1, ClaimFacts, ClaimFailsFacts DEF Claim
  <2>4. \/ Return(c)
        \/ \E label \in {"check", "close"} : Goto(c, label) /\ Reaches(c, label)
    BY <1>1, <2>1 DEF Claim, Refused, Reaches
  <2> QED BY <1>0, <2>1, <2>2, <2>3, <2>4, GotoMove, ReturnStep, FileStep
<1>2. CASE Persist(c)
  <2>1. run[c].gen \in Gens /\ Return(c) /\ UNCHANGED <<host, alive, capture>>
    BY <1>0, <1>2 DEF InHand, Persist, At
  <2>2. FilesOK' /\ CaptureOK' /\ SessionOK'
    BY <1>0, <1>2, <2>1 DEF Persist, FilesOK, Links, CaptureOK, SessionOK
  <2>3. FileEffects(c)
    BY <1>0, <1>2, <2>1 DEF Persist, FilesOK, Links, FileEffects, CurrentEffect,
       LeaseEffect, DirectoryEffect, TerminationEffect, LockEffect
  <2> QED BY <1>0, <2>1, <2>2, <2>3, ReturnStep, FileStep
<1>3. CASE Wire(c)
  <2>1. Goto(c, "outcome") /\ UNCHANGED <<host, alive>> /\ UNCHANGED FileSteps
    BY <1>3 DEF Wire, FileSteps
  <2>2. run[c].tool = "record" => run[c].gen # None
    BY <1>0, <1>3 DEF InHand, Wire, At
  <2>3. CaptureOK' /\ SessionOK'
    BY <1>0, <1>3, <2>2 DEF Wire, CaptureOK, Captures, SessionOK
  <2>4. Reaches(c, "outcome")
    BY <2>2 DEF Reaches
  <2> QED BY <1>0, <2>1, <2>3, <2>4, GotoMove, QuietFiles, FileStep
<1>4. CASE Outcome(c)
  <2>1. UNCHANGED <<host, session, capture>> /\ CaptureOK' /\ SessionOK'
    BY <1>0, <1>4 DEF Outcome, ClaimLease, CaptureOK, SessionOK
  <2>2. CASE Bound(c) /\ ClaimLease(c, current) /\ GotoWith(c, "note", current)
    <3>1. current \in Gens
      BY <2>2 DEF Bound
    <3>2. /\ RunOK' /\ run'[c].new = run[c].new /\ run'[c].pc = "note" /\ run'[c].gen = current
          /\ \A d \in Controllers \ {c} : run'[d] = run[d]
      BY <1>0, <2>2, RegenFacts DEF Labels
    <3>3. InHand(c)'
      BY <1>0, <2>1, <3>1, <3>2 DEF InHand
    <3> QED BY <1>0, <2>1, <2>2, <3>1, <3>2, <3>3, ClaimFacts, FileStep DEF Moved, NewEffect
  <2>3. CASE UNCHANGED files /\ Resume(c)
    BY <1>0, <1>4, <2>1, <2>3, ResumeMove, QuietFiles, FileStep DEF FileSteps, Outcome, At
  <2> QED BY <1>4, <2>2, <2>3 DEF Outcome
<1>5. CASE Note(c)
  <2>1. run[c].gen \in Gens /\ UNCHANGED <<host, session, capture>> /\ Resume(c)
    BY <1>0, <1>5 DEF InHand, Note, At
  <2>2. FilesOK' /\ FileEffects(c)
    BY <1>0, <1>5, <2>1 DEF Note, At, FilesOK, FileEffects, CurrentEffect,
       LeaseEffect, DirectoryEffect, TerminationEffect, LockEffect
  <2>3. CaptureOK' /\ SessionOK'
    BY <1>0, <2>1 DEF CaptureOK, SessionOK
  <2> QED BY <1>0, <1>5, <2>1, <2>2, <2>3, ResumeMove, FileStep DEF Note, At
<1>6. CASE Reattach(c)
  <2>1. run[c].gen \in Gens /\ UNCHANGED <<host, alive>>
    BY <1>0, <1>6 DEF InHand, Reattach, At
  <2>2. SessionOK'
    BY <1>0, <1>6 DEF Reattach, SessionOK
  <2>3. FilesOK' /\ FileEffects(c) /\ UNCHANGED capture
    BY <1>0, <1>6, <2>1, ClaimFacts, ClaimFailsFacts DEF Reattach
  <2>4. Return(c) \/ (Goto(c, "wire") /\ Reaches(c, "wire"))
    BY <1>6, <2>1 DEF Reattach, Reaches
  <2> QED BY <1>0, <2>1, <2>2, <2>3, <2>4, GotoMove, ReturnStep, FileStep DEF CaptureOK
<1>7. ASSUME NEW verified \in BOOLEAN, FinishTemporal(c, verified) PROVE StepOK(c)
  <2>1. temporal[c] \in Gens
    BY <1>0, <1>7 DEF FinishTemporal, SessionOK
  <2>2. UNCHANGED <<host, alive, capture, run>>
    BY <1>7 DEF FinishTemporal
  <2>3. CaptureOK' /\ SessionOK' /\ RunOK'
    BY <1>0, <1>7, <2>2 DEF FinishTemporal, CaptureOK, SessionOK, RunOK
  <2>4. FilesOK' /\ \A g \in Gens : link'[g].lease = link[g].lease
    BY <1>0, <1>7, <2>1 DEF FinishTemporal, FilesOK, Links
  <2>5. FileEffects(c)
    BY <1>0, <1>7, <2>4 DEF FinishTemporal, FilesOK, FileEffects, CurrentEffect,
       LeaseEffect, DirectoryEffect, TerminationEffect, LockEffect
  <2>6. InHand(c)'
    BY <1>0, <2>2 DEF InHand
  <2> QED BY <2>2, <2>3, <2>4, <2>5, <2>6, FileStep DEF Moved, NewEffect
<1> QED BY <1>1, <1>2, <1>3, <1>4, <1>5, <1>6, <1>7

\* The reconciliation of an abandoned capture goes on with its tool.
LEMMA ReconciledMove ==
    ASSUME RunOK, NEW c \in Controllers, InHand(c), alive'[c], Reconciled(c),
           run[c].pc \in {"reconcile", "resolve"}
    PROVE  Moved(c)
<1>1. CASE run[c].tool = "record" /\ Goto(c, "create")
  <2>1. run[c].gen # None
    BY <1>1 DEF InHand
  <2> QED BY <1>1, <2>1, GotoMove DEF Reaches
<1>2. CASE Goto(c, "recheck")
  BY <1>2, GotoMove DEF Reaches
<1>3. CASE Return(c)
  BY <1>3, ReturnStep
<1> QED BY <1>1, <1>2, <1>3 DEF Reconciled

\* A launch, up to the new directory.
LEMMA ReconcileSteps ==
    ASSUME TypeInv, NEW c \in Controllers,
           \/ Acquire(c) \/ Reconcile(c) \/ Resolve(c) \/ \E g \in Gens : Prepare(c, g)
    PROVE  StepOK(c)
<1>0. RunOK /\ FilesOK /\ CaptureOK /\ SessionOK /\ InHand(c) /\ alive[c]
  BY TypeSplit DEF TypeInv, Acquire, Reconcile, Resolve, Prepare, At
<1> run[c].gen \in Gens \cup {None}
  BY <1>0 DEF RunOK, Runs
<1>1. CASE Acquire(c)
  <2>1. run[c].gen \in Gens /\ UNCHANGED <<host, session>>
    BY <1>0, <1>1 DEF InHand, Acquire, At
  <2>2. FilesOK' /\ FileEffects(c) /\ UNCHANGED capture
    BY <1>0, <1>1, <2>1, ClaimFacts, ClaimFailsFacts DEF Acquire
  <2>3. Return(c) \/ (Goto(c, "reconcile") /\ Reaches(c, "reconcile"))
    BY <1>1, <2>1 DEF Acquire, Reaches
  <2>4. CaptureOK' /\ SessionOK'
    BY <1>0, <2>1, <2>2 DEF CaptureOK, SessionOK
  <2> QED BY <1>0, <2>1, <2>2, <2>3, <2>4, GotoMove, ReturnStep, FileStep
<1>2. CASE Reconcile(c)
  <2>1. UNCHANGED <<host, session>> /\ SessionOK' /\ run[c].pc = "reconcile"
    BY <1>0, <1>2 DEF Reconcile, At, SessionOK
  <2>2. CASE UNCHANGED files /\ Reconciled(c)
    BY <1>0, <2>1, <2>2, ReconciledMove, LocalStep
  <2>3. CASE /\ run[c].gen \in Gens
             /\ \/ ClaimLease(c, run[c].gen) /\ Goto(c, "resolve")
                \/ ClaimFails(c, run[c].gen) /\ Return(c)
    <3>1. FilesOK' /\ FileEffects(c) /\ UNCHANGED capture
      BY <1>0, <2>3, ClaimFacts, ClaimFailsFacts
    <3>2. Return(c) \/ (Goto(c, "resolve") /\ Reaches(c, "resolve"))
      BY <2>3 DEF Reaches
    <3>3. CaptureOK'
      BY <1>0, <3>1 DEF CaptureOK
    <3> QED BY <1>0, <2>1, <3>1, <3>2, <3>3, GotoMove, ReturnStep, FileStep
  <2> QED BY <1>2, <2>2, <2>3 DEF Reconcile
<1>3. CASE Resolve(c)
  <2>1. /\ run[c].gen \in Gens /\ UNCHANGED <<host, alive>> /\ UNCHANGED FileSteps
        /\ run[c].pc = "resolve"
    BY <1>0, <1>3 DEF InHand, Resolve, At, FileSteps
  <2>2. CaptureOK'
    BY <1>0, <1>3, <2>1 DEF Resolve, CaptureOK, Captures
  <2>3. SessionOK'
    BY <1>0, <1>3 DEF Resolve, SessionOK
  <2>4. Reconciled(c) \/ Return(c)
    BY <1>3 DEF Resolve
  <2> QED BY <1>0, <2>1, <2>2, <2>3, <2>4, QuietFiles, ReconciledMove, ReturnStep, FileStep
<1>4. ASSUME NEW g \in Gens, Prepare(c, g) PROVE StepOK(c)
  <2>1. UNCHANGED <<host, session, capture>> /\ CaptureOK' /\ SessionOK'
    BY <1>0, <1>4 DEF Prepare, CaptureOK, SessionOK
  <2>2. FilesOK' /\ FileEffects(c)
    BY <1>0, <1>4 DEF Prepare, At, FilesOK, FileEffects, CurrentEffect,
       LeaseEffect, DirectoryEffect, TerminationEffect, LockEffect
  <2>4. /\ RunOK' /\ run'[c].pc = "beforeSignal" /\ run'[c].new = g
        /\ \A d \in Controllers \ {c} : run'[d] = run[d]
    BY <1>0, <1>4, PrepareFacts
  <2>3. NewEffect(c)
    BY <1>4, <2>4 DEF NewEffect, Prepare
  <2>5. InHand(c)'
    BY <1>0, <2>1, <2>4 DEF InHand
  <2> QED BY <2>1, <2>2, <2>3, <2>4, <2>5, FileStep DEF Moved
<1> QED BY SMTT(40), <1>1, <1>2, <1>3, <1>4

\* A failed launch has returned.
LEMMA AbortStep ==
    ASSUME TypeInv, NEW c \in Controllers, run[c].new \in Gens, Abort(c),
           HostOK', HostEffects(c), SessionOK', UNCHANGED alive
    PROVE  StepOK(c)
<1>1. /\ FilesOK' /\ FileEffects(c) /\ CaptureOK' /\ RunOK' /\ run'[c] = Idle
      /\ \A d \in Controllers \ {c} : run'[d] = run[d]
  BY TypeSplit, AbortFacts DEF TypeInv
<1>2. InHand(c)'
  BY <1>1 DEF InHand, Idle
<1> QED BY <1>1, <1>2, TypeSplit DEF StepOK, OthersKept, NewEffect, Idle

\* Processes that are terminated do not come back.
LEMMA TerminateFacts ==
    ASSUME HostOK, NEW c \in Controllers, NEW g \in Gens, NEW left \in SUBSET procs[g],
           Terminate(g, left), UNCHANGED owned, strays' \subseteq Gens
    PROVE  HostOK' /\ HostEffects(c)
BY DEF HostOK, HostEffects, Terminate

\* A launch, from the last look to the publication.
LEMMA LaunchSteps ==
    ASSUME TypeInv, NEW c \in Controllers,
           \/ BeforeSignal(c) \/ Signal(c) \/ Spawn(c) \/ Undo(c) \/ Commit(c)
           \/ Clean(c)
    PROVE  StepOK(c)
<1>0. /\ RunOK /\ FilesOK /\ CaptureOK /\ HostOK /\ SessionOK /\ InHand(c) /\ alive[c]
      /\ run[c].gen \in Gens \cup {None} /\ run[c].new \in Gens /\ UNCHANGED alive
  BY TypeSplit DEF TypeInv, BeforeSignal, Signal, Spawn, Undo, Commit, Clean, At,
                   InHand, RunOK, Runs
<1> Reaches(c, "signal") /\ Reaches(c, "spawn") /\ Reaches(c, "ready")
    /\ Reaches(c, "undo") /\ Reaches(c, "clean")
  BY <1>0 DEF Reaches
<1>1. CASE BeforeSignal(c)
  <2>1. UNCHANGED <<host, session>> /\ HostOK' /\ HostEffects(c) /\ SessionOK'
    BY <1>0, <1>1 DEF BeforeSignal, HostOK, HostEffects, SessionOK
  <2>2. CASE UNCHANGED files /\ Goto(c, "signal")
    BY <1>0, <2>1, <2>2, GotoMove, LocalStep
  <2> QED BY <1>0, <1>1, <2>1, <2>2, AbortStep DEF BeforeSignal
<1>2. CASE Signal(c)
  <2>1. UNCHANGED <<owned, strays, session>> /\ SessionOK'
    BY <1>0, <1>2 DEF Signal, SessionOK
  <2>2. HostOK' /\ HostEffects(c)
    <3>1. CASE UNCHANGED procs
      BY <1>0, <2>1, <3>1 DEF HostOK, HostEffects
    <3>2. CASE run[c].gen # None
      <4>1. PICK left \in SUBSET procs[run[c].gen] : Terminate(run[c].gen, left)
        BY <1>2, <3>2 DEF Signal
      <4> QED BY <1>0, <2>1, <3>2, <4>1, TerminateFacts DEF HostOK
    <3> QED BY <1>2, <3>1, <3>2 DEF Signal
  <2>3. CASE UNCHANGED files /\ Goto(c, "spawn")
    <3>1. Moved(c)
      BY <1>0, <2>1, <2>3, GotoMove
    <3>2. FilesOK' /\ FileEffects(c) /\ CaptureOK'
      BY <1>0, <2>3, QuietFiles DEF FileSteps, CaptureOK
    <3> QED BY <2>1, <2>2, <3>1, <3>2, TypeSplit DEF StepOK, OthersKept, Moved
  <2> QED BY <1>0, <1>2, <2>1, <2>2, <2>3, AbortStep DEF Signal
<1>3. CASE Spawn(c)
  <2>1. SessionOK'
    BY <1>0, <1>3 DEF Spawn, SessionOK
  <2>2. CASE UNCHANGED host /\ Abort(c)
    <3>1. HostOK' /\ HostEffects(c)
      BY <1>0, <2>2 DEF HostOK, HostEffects
    <3> QED BY <1>0, <2>1, <2>2, <3>1, AbortStep
  <2>3. CASE /\ \E shape \in Shapes :
                   /\ owned' = [owned EXCEPT ![run[c].new] = shape]
                   /\ procs' = [procs EXCEPT ![run[c].new] = shape]
             /\ UNCHANGED <<strays, files>> /\ Goto(c, "ready")
    <3>1. PICK shape \in Shapes : /\ owned' = [owned EXCEPT ![run[c].new] = shape]
                                  /\ procs' = [procs EXCEPT ![run[c].new] = shape]
      BY <2>3
    <3>2. shape \subseteq {"emulator", "bridge"} /\ shape # {}
      BY <3>1
    <3>3. HostOK'
      BY <1>0, <2>3, <3>1, <3>2 DEF HostOK
    <3>4. /\ owned'[run[c].new] # {}
          /\ \A g \in Gens \ {run[c].new} : owned'[g] = owned[g] /\ procs'[g] = procs[g]
      BY <1>0, <3>1, <3>2 DEF HostOK
    <3>5. run'[c].pc = "ready" /\ run[c].pc = "spawn"
      BY <1>0, <1>3, <2>3, GotoFacts DEF Labels, Spawn, At
    <3>6. HostEffects(c)
      BY <3>4, <3>5 DEF HostEffects
    <3>7. Moved(c)
      BY <1>0, <2>3, GotoMove
    <3>8. FilesOK' /\ FileEffects(c) /\ CaptureOK'
      BY <1>0, <2>3, QuietFiles DEF FileSteps, CaptureOK
    <3> QED BY <1>0, <2>1, <3>3, <3>6, <3>7, <3>8, TypeSplit DEF StepOK, OthersKept, Moved
  <2> QED BY <1>3, <2>2, <2>3 DEF Spawn
<1>4. CASE Undo(c)
  <2>1. PICK left \in SUBSET procs[run[c].new] : Terminate(run[c].new, left)
    BY <1>4 DEF Undo
  <2>2. UNCHANGED owned /\ strays' \subseteq Gens /\ Abort(c)
    BY <1>0, <1>4 DEF Undo, HostOK, Stray
  <2>3. HostOK' /\ HostEffects(c)
    BY <1>0, <2>1, <2>2, TerminateFacts
  <2>4. SessionOK'
    BY <1>0, <1>4 DEF Undo, SessionOK
  <2> QED BY <1>0, <2>2, <2>3, <2>4, AbortStep
<1>5. CASE Commit(c)
  <2>1. UNCHANGED <<generations, link, capture, termination, host, session>>
    BY <1>5 DEF Commit
  <2>2. FilesOK' /\ CaptureOK' /\ SessionOK'
    BY <1>0, <1>5, <2>1 DEF Commit, FilesOK, CaptureOK, SessionOK
  <2>3. CurrentEffect(c) /\ LockEffect(c)
    <3>1. run'[c].pc \in {"clean", "undo"}
      BY <1>0, <1>5, GotoFacts DEF Commit, Labels
    <3> QED BY <1>5, <3>1 DEF Commit, At, CurrentEffect, LockEffect
  <2>4. FileEffects(c)
    BY <2>1, <2>3 DEF FileEffects, LeaseEffect, DirectoryEffect, TerminationEffect
  <2>5. Goto(c, "clean") \/ Goto(c, "undo")
    BY <1>5 DEF Commit
  <2> QED BY <1>0, <2>1, <2>2, <2>4, <2>5, GotoMove, FileStep
<1>6. CASE Clean(c)
  <2>1. PICK dirs \in SUBSET (generations \ {run[c].new}) : Remove(dirs)
    BY <1>6 DEF Clean
  <2>2. UNCHANGED <<current, host, session>> /\ Return(c) /\ currentLock' = None
        /\ run[c].pc = "clean"
    BY <1>6 DEF Clean, At
  <2>3. FilesOK' /\ CaptureOK' /\ SessionOK'
    BY <1>0, <2>1, <2>2 DEF Remove, FilesOK, Links, CaptureOK, Captures, NoLink,
                            NoCapture, SessionOK
  <2>4. LeaseEffect(c) /\ TerminationEffect(c)
    BY <2>1, <2>2 DEF Remove, LeaseEffect, TerminationEffect, Removable, NoLink
  <2>5. DirectoryEffect(c)
    BY <2>1, <2>2 DEF Remove, DirectoryEffect, Removable
  <2>6. FileEffects(c)
    BY <2>2, <2>4, <2>5 DEF FileEffects, CurrentEffect, LockEffect
  <2> QED BY <1>0, <2>2, <2>3, <2>6, ReturnStep, FileStep
<1> QED BY <1>1, <1>2, <1>3, <1>4, <1>5, <1>6

LEMMA StopSteps ==
    ASSUME TypeInv, NEW c \in Controllers,
           \/ StopLease(c) \/ StopIntent(c) \/ StopSignal(c) \/ StopRecord(c)
    PROVE  StepOK(c)
<1>0. /\ RunOK /\ FilesOK /\ CaptureOK /\ HostOK /\ SessionOK /\ InHand(c) /\ alive[c]
      /\ run[c].gen \in Gens /\ UNCHANGED session
  BY TypeSplit DEF TypeInv, StopLease, StopIntent, StopSignal, StopRecord, At,
                   InHand, RunOK, Runs
<1> SessionOK' /\ alive'[c] /\ UNCHANGED alive
  BY <1>0 DEF SessionOK
<1> Reaches(c, "stopIntent") /\ Reaches(c, "stopSignal") /\ Reaches(c, "stopRecord")
  BY <1>0 DEF Reaches
<1>1. CASE StopLease(c)
  <2>1. FilesOK' /\ FileEffects(c) /\ CaptureOK'
    BY <1>0, <1>1, ClaimFacts, ClaimFailsFacts DEF StopLease, CaptureOK
  <2>2. UNCHANGED host /\ (Return(c) \/ Goto(c, "stopIntent"))
    BY <1>1 DEF StopLease
  <2> QED BY <1>0, <2>1, <2>2, GotoMove, ReturnStep, FileStep
<1>2. CASE StopIntent(c)
  <2>1. FilesOK' /\ FileEffects(c) /\ UNCHANGED capture
    <3>1. CASE WriteTermination(c, "Requested")
      BY <1>0, <3>1, WriteFacts
    <3>2. CASE UNCHANGED files
      BY <1>0, <3>2, QuietFiles DEF FileSteps
    <3> QED BY <1>2, <3>1, <3>2 DEF StopIntent
  <2>2. UNCHANGED host /\ (Return(c) \/ Goto(c, "stopSignal"))
    BY <1>2 DEF StopIntent
  <2> QED BY <1>0, <2>1, <2>2, GotoMove, ReturnStep, FileStep DEF CaptureOK
<1>3. CASE StopSignal(c)
  <2>1. PICK left \in SUBSET procs[run[c].gen] : Terminate(run[c].gen, left)
    BY <1>3 DEF StopSignal
  <2>2. UNCHANGED <<files, owned, strays>> /\ Goto(c, "stopRecord")
    BY <1>3 DEF StopSignal
  <2>3. HostOK' /\ HostEffects(c)
    BY <1>0, <2>1, <2>2, TerminateFacts DEF HostOK
  <2>4. FilesOK' /\ FileEffects(c) /\ CaptureOK'
    BY <1>0, <2>2, QuietFiles DEF FileSteps, CaptureOK
  <2>5. Moved(c)
    BY <1>0, <2>2, GotoMove
  <2> QED BY <2>3, <2>4, <2>5, TypeSplit DEF StepOK, OthersKept, Moved
<1>4. CASE StopRecord(c)
  <2>1. FilesOK' /\ FileEffects(c) /\ UNCHANGED capture
    <3>1. CASE procs[run[c].gen] = {} /\ WriteTermination(c, "Completed")
      BY <1>0, <3>1, WriteFacts
    <3>2. CASE WriteTermination(c, "Failed")
      BY <1>0, <3>2, WriteFacts
    <3>3. CASE UNCHANGED files
      BY <1>0, <3>3, QuietFiles DEF FileSteps
    <3> QED BY <1>4, <3>1, <3>2, <3>3 DEF StopRecord
  <2>2. UNCHANGED host /\ Return(c)
    BY <1>4 DEF StopRecord
  <2> QED BY <1>0, <2>1, <2>2, ReturnStep, FileStep DEF CaptureOK
<1> QED BY <1>1, <1>2, <1>3, <1>4

LEMMA RecordSteps ==
    ASSUME TypeInv, NEW c \in Controllers,
           Create(c) \/ Arm(c) \/ Dispatch(c) \/ Close(c)
    PROVE  StepOK(c)
<1>0. /\ RunOK /\ FilesOK /\ CaptureOK /\ SessionOK /\ InHand(c) /\ alive[c]
      /\ run[c].gen \in Gens /\ UNCHANGED <<host, session>> /\ UNCHANGED FileSteps
  BY TypeSplit DEF TypeInv, Create, Arm, Dispatch, Close, At, InHand, RunOK, Runs,
                   FileSteps
<1>1. SessionOK' /\ UNCHANGED alive
  BY <1>0 DEF SessionOK
<1>2. CaptureOK'
  BY <1>0 DEF Create, Arm, Dispatch, Close, Capsule, CaptureOK, Captures
<1>3. \/ Return(c)
      \/ \E label \in {"arm", "dispatch", "claim", "wire"} :
            Goto(c, label) /\ Reaches(c, label)
  BY <1>0 DEF Create, Arm, Dispatch, Close, Reaches
<1> QED BY <1>0, <1>1, <1>2, <1>3, QuietFiles, GotoMove, ReturnStep, FileStep

LEMMA EnvironmentSteps ==
    ASSUME TypeInv, NEW c \in Controllers, Exit(c) \/ \E g \in Gens : Connect(c, g)
    PROVE  StepOK(c)
<1>0. RunOK /\ FilesOK /\ CaptureOK /\ HostOK /\ SessionOK /\ InHand(c)
  BY TypeSplit DEF TypeInv
<1>1. CASE Exit(c)
  <2>1. Return(c) /\ UNCHANGED <<current, generations, link, capture, termination, owned, procs>>
    BY <1>1 DEF Exit, Return
  <2>2. RunOK' /\ run'[c] = Idle /\ \A d \in Controllers \ {c} : run'[d] = run[d]
    BY <1>0, <2>1, ReturnFacts
  <2>3. FilesOK' /\ CaptureOK' /\ HostOK' /\ SessionOK'
    BY <1>0, <1>1 DEF Exit, FilesOK, CaptureOK, HostOK, SessionOK
  <2>4. LockEffect(c)
    BY <1>1, <2>2 DEF Exit, LockEffect
  <2>5. FileEffects(c) /\ HostEffects(c)
    BY <2>1, <2>4 DEF FileEffects, CurrentEffect, LeaseEffect, DirectoryEffect,
                      TerminationEffect, HostEffects
  <2>6. \A d \in Controllers \ {c} : alive'[d] = alive[d]
    BY <1>0, <1>1 DEF Exit, SessionOK
  <2>7. InHand(c)'
    BY <2>2 DEF InHand, Idle
  <2> QED BY <2>2, <2>3, <2>5, <2>6, <2>7, TypeSplit DEF StepOK, OthersKept, NewEffect, Idle
<1>2. ASSUME NEW g \in Gens, Connect(c, g) PROVE StepOK(c)
  <2>1. UNCHANGED <<files, host, alive, temporal, run>>
    BY <1>2 DEF Connect
  <2>2. CaptureOK' /\ RunOK' /\ FilesOK'
    BY <1>0, <2>1 DEF CaptureOK, RunOK, FilesOK
  <2>3. SessionOK'
    BY <1>0, <1>2 DEF Connect, SessionOK
  <2>4. InHand(c)'
    BY <1>0, <2>1 DEF InHand
  <2>5. FileEffects(c)
    BY <1>0, <2>1, QuietFiles DEF FileSteps
  <2> QED BY <2>1, <2>2, <2>3, <2>4, <2>5, FileStep DEF Moved, NewEffect
<1> QED BY <1>1, <1>2

\* A step of a controller, and what befalls it.
Acts(c) == Call(c) \/ Other(c) \/ Step(c) \/ Exit(c) \/ \E g \in Gens : Connect(c, g)

LEMMA ActsOK ==
    ASSUME TypeInv, NEW c \in Controllers, Acts(c)
    PROVE  StepOK(c)
<1>1. CASE Call(c) \/ Other(c)
  BY <1>1, StartSteps, CallSteps DEF Call, Other
<1>2. CASE Step(c)
  BY <1>2, CallSteps, LookSteps, ReconcileSteps, LaunchSteps, StopSteps, RecordSteps
     DEF Step
<1> QED BY <1>1, <1>2, EnvironmentSteps DEF Acts

\* A step is one of a controller, or a process exits, or nothing changes.
LEMMA StepCases ==
    ASSUME [Next]_vars
    PROVE  \/ \E c \in Controllers : Acts(c)
           \/ \E g \in Gens : \E p \in procs[g] : ProcessExits(g, p)
           \/ UNCHANGED vars
BY DEF Next, Environment, Acts

LEMMA TypeStep == TypeInv /\ [Next]_vars => TypeInv'
<1> SUFFICES ASSUME TypeInv, [Next]_vars PROVE TypeInv'
  OBVIOUS
<1>1. ASSUME NEW c \in Controllers, Acts(c) PROVE TypeInv'
  <2>1. TypeOK' /\ InHand(c)' /\ OthersKept(c)
    BY <1>1, ActsOK DEF StepOK
  <2>2. \A d \in Controllers \ {c} : InHand(d)'
    BY <2>1 DEF OthersKept, InHand, TypeInv
  <2> QED BY <2>1, <2>2 DEF TypeInv
<1>2. ASSUME NEW g \in Gens, NEW p \in procs[g], ProcessExits(g, p) PROVE TypeInv'
  <2>1. TypeOK'
    BY <1>2 DEF ProcessExits, TypeInv, TypeOK
  <2> QED BY <1>2, <2>1 DEF ProcessExits, TypeInv, InHand
<1>3. CASE UNCHANGED vars
  BY <1>3 DEF vars, TypeInv, TypeOK, InHand
<1> QED BY <1>1, <1>2, <1>3, StepCases

LEMMA InitTypeInv == Init => TypeInv
BY InitType DEF Init, TypeInv, InHand, Idle

\* The files, the processes and the state of every controller have their
\* types, and a tool has the generation in hand that its next steps need.
THEOREM TypeCorrect == Spec => []TypeOK
<1>1. TypeInv => TypeOK
  BY DEF TypeInv
<1> QED BY <1>1, InitTypeInv, TypeStep, PTL DEF Spec

-----------------------------------------------------------------------------
(* The lease, the publication and the processes.                            *)

Publishing == {"beforeSignal", "signal", "spawn", "ready", "commit"}

LeaseInv(c) == Leased(c) => current = run[c].gen /\ link[run[c].gen].lease = c

\* A launch expects no generation if it replaces none; its new generation is
\* known to nobody, has its directory while the old one is current, and has
\* processes once they are started, when those of the old one are gone.  Until
\* the directories are cleaned up nobody has a lease.
LaunchInv(c) ==
    LET r == run[c]
    IN  /\ r.pc \in Publishing \cup {"prepare"} /\ r.expected # None => current # None
        /\ r.pc \in Publishing \ {"beforeSignal"} /\ r.gen = None => r.expected = None
        /\ r.pc \in Publishing => /\ r.new # current /\ link[r.new].lease = None
                                  /\ current = r.gen => r.new \in generations
        /\ r.pc \in {"beforeSignal", "signal", "spawn"} => owned[r.new] = {}
        /\ r.pc \in {"ready", "commit"} => owned[r.new] # {}
        /\ r.pc \in {"spawn", "ready", "commit"} /\ r.gen # None => procs[r.gen] = {}
        /\ r.pc = "clean" => /\ currentLock = c /\ current = r.new
                             /\ link[current].lease = None

Distinct ==
    \A c, d \in Controllers :
        c # d /\ run[c].new # None => run[c].new # run[d].new

\* What was never started was never current: it has no lease, no processes
\* and no record of a stop.
Unborn ==
    \A g \in Gens : owned[g] = {} => /\ link[g].lease = None /\ procs[g] = {}
                                     /\ termination[g] = "None"

CurrentBorn == current # None => owned[current] # {}

IInv ==
    /\ TypeInv
    /\ \A c \in Controllers : LeaseInv(c) /\ LaunchInv(c)
    /\ Distinct /\ Unborn /\ CurrentBorn /\ CurrentIntact /\ StopCompletes

\* A commit replaces the generation that the launcher has the lease of, or is
\* the first.
LEMMA CommitFacts ==
    ASSUME IInv, NEW c \in Controllers, run[c].pc = "commit", current = run[c].expected
    PROVE  /\ current = run[c].gen
           /\ current # None => link[current].lease = c /\ procs[current] = {}
           /\ run[c].new \in generations
<1>1. LeaseInv(c) /\ LaunchInv(c)
  BY DEF IInv
<1>2. CASE run[c].gen = None
  BY <1>1, <1>2 DEF LaunchInv, Publishing
<1>3. CASE run[c].gen # None
  <2>1. Leased(c)
    BY <1>3 DEF Leased
  <2> QED BY <1>1, <1>3, <2>1 DEF LeaseInv, LaunchInv, Publishing
<1> QED BY <1>2, <1>3

\* What another controller's step leaves alone.
LEMMA LeaseUndisturbed ==
    ASSUME IInv, NEW c \in Controllers, NEW d \in Controllers \ {c}, StepOK(c)
    PROVE  LeaseInv(d)'
<1> SUFFICES ASSUME Leased(d)' PROVE (current = run[d].gen /\ link[run[d].gen].lease = d)'
  BY DEF LeaseInv
<1>1. run'[d] = run[d] /\ Leased(d)
  BY DEF StepOK, OthersKept, Leased
<1>2. current = run[d].gen /\ link[run[d].gen].lease = d /\ run[d].gen \in Gens
  BY <1>1 DEF IInv, LeaseInv, Leased, TypeInv, TypeOK
<1>3. alive[d]
  BY <1>1 DEF IInv, TypeInv, InHand, Leased, Idle
<1>4. current' = current
  <2>1. SUFFICES ASSUME run[c].pc = "commit", current = run[c].expected PROVE FALSE
    BY DEF StepOK, FileEffects, CurrentEffect
  <2>2. link[current].lease = c
    BY <1>2, <2>1, CommitFacts
  <2> QED BY <1>2, <2>2
<1>5. ~Removable(c, current)
  BY DEF Removable, IInv, LaunchInv
<1>6. link'[current].lease = d
  BY <1>2, <1>3, <1>5 DEF StepOK, FileEffects, LeaseEffect
<1> QED BY <1>1, <1>2, <1>4, <1>6

LEMMA LaunchUndisturbed ==
    ASSUME IInv, NEW c \in Controllers, NEW d \in Controllers \ {c}, StepOK(c)
    PROVE  LaunchInv(d)'
<1>0. /\ run'[d] = run[d] /\ LaunchInv(d) /\ LaunchInv(c) /\ InHand(d) /\ InHand(c)
      /\ run[d].new \in Gens \cup {None} /\ run[c].new \in Gens \cup {None}
      /\ run[d].gen \in Gens \cup {None} /\ current \in Gens \cup {None}
  BY DEF StepOK, OthersKept, IInv, TypeInv, TypeOK
<1>1. run[d].pc \in Publishing \cup {"clean"} =>
        run[d].new \in Gens /\ run[d].new # run[c].new
  BY <1>0 DEF InHand, Publishing, IInv, Distinct
<1>2. run[d].pc \in Publishing /\ run[d].gen # None =>
        current = run[d].gen /\ link[current].lease = d
  BY DEF IInv, LeaseInv, Leased, Publishing
<1>3. \/ current' = current
      \/ run[c].pc = "commit" /\ currentLock = None /\ current' = run[c].new
  <2>1. CurrentEffect(c)
    BY DEF StepOK, FileEffects
  <2> QED BY <2>1 DEF CurrentEffect
<1>4. (run[d].pc \in Publishing \cup {"prepare"} /\ run[d].expected # None => current # None)'
  BY <1>0, <1>3 DEF LaunchInv, InHand
<1>5. ASSUME run[d].pc \in Publishing
      PROVE  /\ run[d].new # current' /\ link'[run[d].new].lease = None
             /\ current' = run[d].gen => run[d].new \in generations'
  <2>1. run[d].new # current /\ link[run[d].new].lease = None /\ run[d].new \in Gens
        /\ run[d].new # run[c].new
    BY <1>0, <1>1, <1>5 DEF LaunchInv
  <2>2. run[d].new # current'
    BY <1>3, <2>1
  <2>3. link'[run[d].new].lease = None
    BY <2>1 DEF StepOK, FileEffects, LeaseEffect
  <2>4. ASSUME current' = run[d].gen PROVE run[d].new \in generations'
    <3>1. current = run[d].gen
      <4>1. CASE run[d].gen # None
        BY <1>2, <1>5, <4>1
      <4>2. CASE run[d].gen = None
        BY <1>0, <1>3, <2>4, <4>2 DEF InHand
      <4> QED BY <4>1, <4>2
    <3>2. run[d].new \in generations
      BY <1>0, <1>5, <3>1 DEF LaunchInv
    <3>3. run[c].pc # "clean"
      <4> SUFFICES ASSUME run[c].pc = "clean" PROVE FALSE
        OBVIOUS
      <4>1. current = run[c].new /\ run[c].new # None /\ link[current].lease = None
        BY <1>0 DEF LaunchInv, InHand
      <4> QED BY <1>2, <1>5, <3>1, <4>1
    <3>4. ~Removable(c, run[d].new)
      BY <2>1, <3>3 DEF Removable
    <3> QED BY <3>2, <3>4 DEF StepOK, FileEffects, DirectoryEffect
  <2> QED BY <2>2, <2>3, <2>4
<1>6. /\ run[d].pc \in {"beforeSignal", "signal", "spawn"} => owned'[run[d].new] = {}
      /\ run[d].pc \in {"ready", "commit"} => owned'[run[d].new] # {}
  <2>1. run[d].pc \in Publishing => owned'[run[d].new] = owned[run[d].new]
    BY <1>1 DEF StepOK, HostEffects
  <2> QED BY <1>0, <2>1 DEF LaunchInv, Publishing
<1>7. ASSUME run[d].pc \in {"spawn", "ready", "commit"}, run[d].gen # None
      PROVE  procs'[run[d].gen] = {}
  <2>1. procs[run[d].gen] = {} /\ current = run[d].gen /\ run[d].gen \in Gens
    BY <1>0, <1>2, <1>7 DEF LaunchInv, Publishing
  <2>2. run[c].pc = "spawn" => run[c].new # current
    BY <1>0 DEF LaunchInv, Publishing
  <2> QED BY <2>1, <2>2 DEF StepOK, HostEffects
<1>8. ASSUME run[d].pc = "clean"
      PROVE  currentLock' = d /\ current' = run[d].new /\ link'[current'].lease = None
  <2>1. currentLock = d /\ current = run[d].new /\ link[current].lease = None
    BY <1>0, <1>8 DEF LaunchInv
  <2>2. currentLock # None /\ currentLock # c
    BY <2>1
  <2>3. current' = current
    BY <1>3, <2>2
  <2>4. currentLock' = d
    BY <1>0, <2>1, <2>2 DEF StepOK, FileEffects, LockEffect, LaunchInv
  <2>5. link'[current].lease = None
    BY <1>1, <1>8, <2>1, <2>2 DEF StepOK, FileEffects, LeaseEffect
  <2> QED BY <2>1, <2>3, <2>4, <2>5
<1>9. (run[d].pc \in Publishing \ {"beforeSignal"} /\ run[d].gen = None => run[d].expected = None)'
  BY <1>0 DEF LaunchInv
<1> QED BY <1>0, <1>4, <1>5, <1>6, <1>7, <1>8, <1>9 DEF LaunchInv

\* The shared part, after a step of any controller.
LEMMA SharedStep ==
    ASSUME IInv, NEW c \in Controllers, StepOK(c)
    PROVE  Distinct' /\ Unborn' /\ CurrentBorn' /\ CurrentIntact' /\ StopCompletes'
<1>0. LaunchInv(c) /\ InHand(c) /\ run[c].new \in Gens \cup {None}
      /\ current \in Gens \cup {None} /\ generations \subseteq Gens
  BY DEF IInv, TypeInv, TypeOK
<1>1. Distinct'
  BY DEF StepOK, OthersKept, NewEffect, IInv, Distinct
<1>2. run[c].pc = "spawn" => run[c].new # current /\ owned[run[c].new] = {}
  BY <1>0 DEF LaunchInv, Publishing
<1>3. \A g \in Gens : /\ owned'[g] = {} => owned[g] = {} /\ procs'[g] \subseteq procs[g]
                      /\ \/ procs'[g] \subseteq procs[g]
                         \/ g # current /\ owned[g] = {}
  <2>1. HostEffects(c)
    BY DEF StepOK
  <2>2. TAKE g \in Gens
  <2>3. CASE owned'[g] = owned[g] /\ procs'[g] \subseteq procs[g]
    BY <2>3
  <2>4. CASE run[c].pc = "spawn" /\ g = run[c].new /\ owned'[g] # {}
    BY <1>2, <2>4
  <2> QED BY <2>1, <2>3, <2>4 DEF HostEffects
<1>4. Unborn'
  <2> SUFFICES ASSUME NEW g \in Gens, owned'[g] = {}
               PROVE  link'[g].lease = None /\ procs'[g] = {} /\ termination'[g] = "None"
    BY DEF Unborn
  <2>1. link[g].lease = None /\ procs[g] = {} /\ termination[g] = "None" /\ g # current
    BY <1>3 DEF IInv, Unborn, CurrentBorn
  <2>2. link'[g].lease = None
    BY <2>1 DEF StepOK, FileEffects, LeaseEffect
  <2>3. termination'[g] = "None"
    BY <2>1 DEF StepOK, FileEffects, TerminationEffect
  <2> QED BY <1>3, <2>1, <2>2, <2>3
<1>5. CurrentBorn' /\ CurrentIntact'
  <2>1. CASE current' = current
    <3>1. ~Removable(c, current)
      BY <1>0 DEF Removable, LaunchInv
    <3>2. CurrentIntact'
      BY <1>0, <2>1, <3>1 DEF StepOK, FileEffects, DirectoryEffect, IInv, CurrentIntact
    <3>3. CurrentBorn'
      BY <1>0, <1>3, <2>1 DEF IInv, CurrentBorn
    <3> QED BY <3>2, <3>3
  <2>2. CASE /\ run[c].pc = "commit" /\ current = run[c].expected
             /\ current' = run[c].new /\ run'[c].pc \in {"clean", "undo"}
    <3>1. run[c].new \in generations /\ run[c].new \in Gens
      BY <1>0, <2>2, CommitFacts DEF InHand
    <3>2. ~Removable(c, run[c].new)
      BY <2>2 DEF Removable, Idle
    <3>3. CurrentIntact'
      BY <2>2, <3>1, <3>2 DEF StepOK, FileEffects, DirectoryEffect, CurrentIntact
    <3>4. owned[run[c].new] # {}
      BY <1>0, <2>2 DEF LaunchInv
    <3> QED BY <1>3, <2>2, <3>1, <3>3, <3>4 DEF CurrentBorn
  <2> QED BY <2>1, <2>2 DEF StepOK, FileEffects, CurrentEffect
<1>6. StopCompletes'
  <2> SUFFICES ASSUME NEW g \in Gens, termination'[g] = "Completed"
               PROVE  procs'[g] = {}
    BY DEF StopCompletes
  <2>1. termination[g] = "Completed" \/ (g = current /\ procs[g] = {})
    <3>1. TerminationEffect(c)
      BY DEF StepOK, FileEffects
    <3> QED BY <3>1 DEF TerminationEffect
  <2>2. procs[g] = {} /\ (owned[g] = {} => g = current)
    BY <2>1 DEF IInv, StopCompletes, Unborn
  <2> QED BY <1>3, <2>2
<1> QED BY <1>1, <1>4, <1>5, <1>6

-----------------------------------------------------------------------------
(* The controller's own part, after a step of its own.                      *)

Own(c) == LeaseInv(c) /\ LaunchInv(c)

LEMMA IdleOwn ==
    ASSUME NEW c \in Controllers, run'[c] = Idle
    PROVE  Own(c)'
BY DEF Own, LeaseInv, Leased, LaunchInv, Publishing, Idle

\* A tool that is not at a step under a lease, and publishes nothing.
LEMMA FreeOwn ==
    ASSUME NEW c \in Controllers, ~Leased(c)',
           run'[c].pc \notin Publishing \cup {"prepare", "clean"}
    PROVE  Own(c)'
BY DEF Own, LeaseInv, LaunchInv, Publishing

\* A tool that has the lease, and publishes nothing.
LEMMA HeldOwn ==
    ASSUME NEW c \in Controllers, current' = run'[c].gen, link'[run'[c].gen].lease = c,
           run'[c].pc \notin Publishing \cup {"prepare", "clean"}
    PROVE  Own(c)'
BY DEF Own, LeaseInv, LaunchInv, Publishing

\* A tool that moves on with the lease of its generation.
LEMMA GotoHeld ==
    ASSUME RunOK, NEW c \in Controllers, NEW label \in Labels, Goto(c, label),
           label \notin Publishing \cup {"prepare", "clean"},
           current' = run[c].gen, link'[run[c].gen].lease = c
    PROVE  Own(c)'
<1>1. run'[c].pc = label /\ run'[c].gen = run[c].gen
  BY GotoFacts
<1> QED BY <1>1, HeldOwn

LEMMA ReturnOwn ==
    ASSUME RunOK, NEW c \in Controllers, Return(c)
    PROVE  Own(c)'
BY ReturnFacts, IdleOwn

\* The steps that need the lease have it.
Holds(c) == run[c].gen \in Gens /\ current = run[c].gen /\ link[run[c].gen].lease = c

LEMMA LeasedHolds ==
    ASSUME IInv, NEW c \in Controllers, Leased(c)
    PROVE  Holds(c)
BY DEF IInv, LeaseInv, Leased, Holds, TypeInv, TypeOK

LEMMA StartOwn ==
    ASSUME IInv, NEW c \in Controllers,
           \/ StartRead(c) \/ StartMutation(c) \/ StartTemporal(c)
           \/ \E g \in Gens : StartReattach(c, g)
           \/ \E tool \in {"launch", "replace"} : StartLaunch(c, tool)
           \/ StartStop(c) \/ StartRecord(c)
    PROVE  Own(c)'
<1>0. RunOK /\ current \in Gens \cup {None}
  BY TypeSplit DEF IInv, TypeInv, FilesOK
<1> {"wire", "claim", "reattach", "stopLease", "acquire"} \subseteq Labels
  BY DEF Labels
<1>1. ASSUME NEW tool, NEW label \in Labels, NEW g \in Gens \cup {None},
             Start(c, tool, label, g),
             \/ label \in {"reattach", "stopLease", "acquire"}
             \/ label = "claim" /\ tool # "record"
             \/ label = "wire" /\ g = None
      PROVE  Own(c)'
  <2>1. run'[c].pc = label /\ run'[c].tool = tool /\ run'[c].gen = g
    BY <1>0, <1>1, StartFacts
  <2>2. ~Leased(c)' /\ run'[c].pc \notin Publishing \cup {"prepare", "clean"}
    BY <1>1, <2>1 DEF Leased, Publishing
  <2> QED BY <2>2, FreeOwn
<1>2. CASE StartRead(c)
  BY <1>1, <1>2 DEF StartRead
<1>3. CASE StartMutation(c)
  BY <1>0, <1>1, <1>3 DEF StartMutation
<1>4. CASE StartTemporal(c)
  BY <1>0, <1>1, <1>4 DEF StartTemporal
<1>5. ASSUME NEW g \in Gens, StartReattach(c, g) PROVE Own(c)'
  BY <1>1, <1>5 DEF StartReattach
<1>6. ASSUME NEW tool \in {"launch", "replace"}, StartLaunch(c, tool) PROVE Own(c)'
  BY <1>1, <1>6 DEF StartLaunch
<1>7. CASE StartStop(c)
  BY <1>0, <1>1, <1>7 DEF StartStop
<1>8. CASE StartRecord(c)
  BY <1>0, <1>1, <1>8 DEF StartRecord
<1> QED BY <1>2, <1>3, <1>4, <1>5, <1>6, <1>7, <1>8

\* What follows a call, or the reconciliation of a capture.
LEMMA ResumeOwn ==
    ASSUME IInv, NEW c \in Controllers, Resume(c),
           run[c].tool = "record" => current' = run[c].gen /\ link'[run[c].gen].lease = c
    PROVE  Own(c)'
<1>0. RunOK /\ current \in Gens \cup {None} /\ {"admit", "close", "reconcile"} \subseteq Labels
  BY TypeSplit DEF IInv, TypeInv, FilesOK, Labels
<1>1. CASE Goto(c, "admit")
  <2>1. run'[c].pc = "admit"
    BY <1>0, <1>1, GotoFacts
  <2> QED BY <2>1, FreeOwn DEF Leased, Publishing
<1>2. CASE run[c].tool = "record" /\ Goto(c, "close")
  BY <1>0, <1>2, GotoHeld DEF Publishing
<1>3. CASE Return(c)
  BY <1>0, <1>3, ReturnOwn
<1>4. CASE run[c].tool = "read" /\ GotoWith(c, "reconcile", current)
  <2>1. run'[c].pc = "reconcile" /\ run'[c].tool = "read"
    BY <1>0, <1>4, RegenFacts
  <2> QED BY <2>1, FreeOwn DEF Leased, Publishing
<1> QED BY <1>1, <1>2, <1>3, <1>4 DEF Resume

LEMMA ReconciledOwn ==
    ASSUME IInv, NEW c \in Controllers, Reconciled(c),
           run[c].tool = "record" => current' = run[c].gen /\ link'[run[c].gen].lease = c
    PROVE  Own(c)'
<1>0. RunOK /\ {"create", "recheck"} \subseteq Labels
  BY TypeSplit DEF IInv, TypeInv, Labels
<1>1. CASE run[c].tool = "record" /\ Goto(c, "create")
  BY <1>0, <1>1, GotoHeld DEF Publishing
<1>2. CASE Goto(c, "recheck")
  <2>1. run'[c].pc = "recheck"
    BY <1>0, <1>2, GotoFacts
  <2> QED BY <2>1, FreeOwn DEF Leased, Publishing
<1>3. CASE Return(c)
  BY <1>0, <1>3, ReturnOwn
<1> QED BY <1>1, <1>2, <1>3 DEF Reconciled

LEMMA CallOwn ==
    ASSUME IInv, NEW c \in Controllers,
           \/ Claim(c) \/ Check(c) \/ Persist(c) \/ Wire(c) \/ Outcome(c) \/ Note(c)
           \/ Reattach(c) \/ \E verified \in BOOLEAN : FinishTemporal(c, verified)
    PROVE  Own(c)'
<1>0. RunOK /\ FilesOK /\ SessionOK /\ InHand(c)
      /\ run[c].gen \in Gens \cup {None} /\ current \in Gens \cup {None}
  BY TypeSplit DEF IInv, TypeInv, RunOK, Runs, FilesOK
<1> {"check", "close", "persist", "wire", "outcome", "note"} \subseteq Labels
    /\ {"check", "close", "persist", "wire", "outcome", "note"}
         \cap (Publishing \cup {"prepare", "clean"}) = {}
  BY DEF Labels, Publishing
<1>1. CASE Claim(c)
  <2>0. run[c].gen \in Gens /\ run[c].pc = "claim"
    BY <1>0, <1>1 DEF InHand, Claim, At
  <2>1. CASE ClaimLease(c, run[c].gen) /\ Goto(c, "check")
    <3>1. current' = run[c].gen /\ link'[run[c].gen].lease = c
      BY <1>0, <2>0, <2>1, ClaimFacts
    <3> QED BY <1>0, <2>1, <3>1, GotoHeld
  <2>2. CASE ClaimFails(c, run[c].gen) /\ Refused(c)
    <3>1. CASE run[c].tool = "record" /\ Goto(c, "close")
      <4>1. Holds(c)
        BY <2>0, <3>1, LeasedHolds DEF Leased
      <4>2. current' = run[c].gen /\ link'[run[c].gen].lease = c
        BY <1>0, <2>0, <2>2, <4>1, ClaimFailsFacts DEF Holds
      <4> QED BY <1>0, <3>1, <4>2, GotoHeld
    <3>2. CASE Return(c)
      BY <1>0, <3>2, ReturnOwn
    <3> QED BY <2>2, <3>1, <3>2 DEF Refused
  <2> QED BY <1>1, <2>1, <2>2 DEF Claim
<1>2. CASE Check(c)
  <2>1. Holds(c) /\ UNCHANGED files
    BY <1>0, <1>2, LeasedHolds DEF Leased, Check, At, InHand
  <2>2. Return(c) \/ \E label \in {"close", "persist", "wire"} : Goto(c, label)
    BY <1>2 DEF Check, Refused
  <2> QED BY <1>0, <2>1, <2>2, ReturnOwn, GotoHeld DEF Holds
<1>3. CASE Persist(c)
  BY <1>0, <1>3, ReturnOwn DEF Persist
<1>4. CASE Wire(c)
  <2>1. run[c].pc = "wire" /\ Goto(c, "outcome") /\ UNCHANGED <<current, link>>
    BY <1>4 DEF Wire, At
  <2>2. CASE run[c].gen # None
    <3>1. Holds(c)
      BY <2>1, <2>2, LeasedHolds DEF Leased
    <3> QED BY <1>0, <2>1, <3>1, GotoHeld DEF Holds
  <2>3. CASE run[c].gen = None
    <3>1. run'[c].pc = "outcome" /\ run'[c].gen = None
      BY <1>0, <2>1, <2>3, GotoFacts
    <3> QED BY <3>1, FreeOwn DEF Leased, Publishing
  <2> QED BY <2>2, <2>3
<1>5. CASE Outcome(c)
  <2>1. CASE Bound(c) /\ ClaimLease(c, current) /\ GotoWith(c, "note", current)
    <3>1. current \in Gens
      BY <1>0, <2>1 DEF Bound
    <3>2. current' = current /\ link'[current].lease = c
      BY <1>0, <2>1, <3>1, ClaimFacts
    <3>3. run'[c].pc = "note" /\ run'[c].gen = current
      BY <1>0, <2>1, RegenFacts
    <3> QED BY <3>2, <3>3, HeldOwn
  <2>2. CASE UNCHANGED files /\ Resume(c)
    <3>1. run[c].tool = "record" => Holds(c)
      BY <1>0, <1>5, LeasedHolds DEF Outcome, At, InHand, Leased
    <3> QED BY <2>2, <3>1, ResumeOwn DEF Holds
  <2> QED BY <1>5, <2>1, <2>2 DEF Outcome
<1>6. CASE Note(c)
  <2>1. Holds(c)
    BY <1>0, <1>6, LeasedHolds DEF Note, At, InHand, Leased
  <2> QED BY <1>6, <2>1, ResumeOwn DEF Holds, Note
<1>7. CASE Reattach(c)
  <2>1. run[c].gen \in Gens
    BY <1>0, <1>7 DEF InHand, Reattach, At
  <2>2. CASE ClaimLease(c, run[c].gen) /\ Goto(c, "wire")
    <3>1. current' = run[c].gen /\ link'[run[c].gen].lease = c
      BY <1>0, <2>1, <2>2, ClaimFacts
    <3> QED BY <1>0, <2>2, <3>1, GotoHeld
  <2> QED BY <1>0, <1>7, <2>2, ReturnOwn DEF Reattach
<1>8. ASSUME NEW verified \in BOOLEAN, FinishTemporal(c, verified) PROVE Own(c)'
  <2>1. run'[c].pc = "idle"
    BY <1>8 DEF FinishTemporal, At
  <2> QED BY <2>1, FreeOwn DEF Leased, Publishing
<1> QED BY <1>1, <1>2, <1>3, <1>4, <1>5, <1>6, <1>7, <1>8

LEMMA ReconcileOwn ==
    ASSUME IInv, NEW c \in Controllers,
           \/ GiveUp(c) \/ Admit(c) \/ Previous(c) \/ Acquire(c) \/ Reconcile(c)
           \/ Resolve(c)
    PROVE  Own(c)'
<1>0. RunOK /\ FilesOK /\ SessionOK /\ InHand(c)
      /\ run[c].gen \in Gens \cup {None} /\ current \in Gens \cup {None}
  BY TypeSplit DEF IInv, TypeInv, RunOK, Runs, FilesOK
<1> {"previous", "previousFree", "acquire", "reconcile", "resolve"} \subseteq Labels
    /\ {"previous", "previousFree", "acquire", "reconcile", "resolve"}
         \cap (Publishing \cup {"prepare", "clean"}) = {}
  BY DEF Labels, Publishing
<1>1. CASE GiveUp(c)
  BY <1>0, <1>1, ReturnOwn DEF GiveUp
<1>2. CASE Admit(c)
  <2>1. run'[c].pc \in {"previous", "previousFree"}
    BY <1>0, <1>2, GotoFacts DEF Admit
  <2> QED BY <2>1, FreeOwn DEF Leased, Publishing
<1>3. CASE Previous(c)
  <2>1. CASE GotoWith(c, "reconcile", current) /\ run[c].pc = "previous"
    <3>1. run'[c].pc = "reconcile" /\ run'[c].tool # "record"
      BY <1>0, <2>1, RegenFacts DEF InHand
    <3> QED BY <3>1, FreeOwn DEF Leased, Publishing
  <2>2. CASE GotoWith(c, "acquire", current)
    <3>1. run'[c].pc = "acquire"
      BY <1>0, <2>2, RegenFacts
    <3> QED BY <3>1, FreeOwn DEF Leased, Publishing
  <2>3. CASE Return(c)
    BY <1>0, <2>3, ReturnOwn
  <2> QED BY <1>3, <2>1, <2>2, <2>3 DEF Previous, At
<1>4. CASE Acquire(c)
  <2>1. run[c].gen \in Gens
    BY <1>0, <1>4 DEF InHand, Acquire, At
  <2>2. CASE ClaimLease(c, run[c].gen) /\ Goto(c, "reconcile")
    <3>1. current' = run[c].gen /\ link'[run[c].gen].lease = c
      BY <1>0, <2>1, <2>2, ClaimFacts
    <3> QED BY <1>0, <2>2, <3>1, GotoHeld
  <2> QED BY <1>0, <1>4, <2>2, ReturnOwn DEF Acquire
<1>5. CASE Reconcile(c)
  <2>1. CASE UNCHANGED files /\ Reconciled(c)
    <3>1. run[c].tool = "record" => Holds(c)
      BY <1>0, <1>5, LeasedHolds DEF Reconcile, At, InHand, Leased
    <3> QED BY <2>1, <3>1, ReconciledOwn DEF Holds
  <2>2. CASE run[c].gen \in Gens /\ ClaimLease(c, run[c].gen) /\ Goto(c, "resolve")
    <3>1. current' = run[c].gen /\ link'[run[c].gen].lease = c
      BY <1>0, <2>2, ClaimFacts
    <3> QED BY <1>0, <2>2, <3>1, GotoHeld
  <2>3. CASE Return(c)
    BY <1>0, <2>3, ReturnOwn
  <2> QED BY <1>0, <1>5, <2>1, <2>2, <2>3 DEF Reconcile
<1>6. CASE Resolve(c)
  <2>1. Holds(c) /\ UNCHANGED <<current, link>>
    BY <1>0, <1>6, LeasedHolds DEF Resolve, At, InHand, Leased
  <2> QED BY <1>0, <1>6, <2>1, ReconciledOwn, ReturnOwn DEF Holds, Resolve
<1> QED BY <1>1, <1>2, <1>3, <1>4, <1>5, <1>6

\* A launcher that was admitted a second time holds the lease.
LEMMA RecheckFacts ==
    ASSUME IInv, NEW c \in Controllers, Recheck(c), run[c].gen # None
    PROVE  Holds(c)
<1>1. current = run[c].gen /\ "Allowed" \in Admissions(c) /\ current # None
  BY DEF Recheck
<1>2. \E seen \in Sightings(current), lease \in LeaseView(c, current) :
        Admission(c, seen, lease) = "Allowed"
  BY <1>1 DEF Admissions
<1>3. PICK lease \in LeaseView(c, current) : lease = "Held"
  BY <1>2 DEF Admission
<1>4. link[current].lease = c
  BY <1>3 DEF LeaseView
<1> QED BY <1>1, <1>4 DEF Holds, IInv, TypeInv, TypeOK

LEMMA PrepareOwn ==
    ASSUME IInv, NEW c \in Controllers,
           \/ Recheck(c) \/ Expect(c) \/ \E g \in Gens : Prepare(c, g)
    PROVE  Own(c)'
<1>0. RunOK /\ FilesOK /\ InHand(c) /\ LaunchInv(c)
      /\ run[c].gen \in Gens \cup {None} /\ current \in Gens \cup {None}
  BY TypeSplit DEF IInv, TypeInv, RunOK, Runs, FilesOK
<1> "expect" \in Labels /\ "prepare" \in Labels
  BY DEF Labels
<1>1. CASE Recheck(c)
  <2>1. run'[c].pc = "expect" /\ run'[c].gen = run[c].gen /\ UNCHANGED files
    BY <1>0, <1>1, GotoFacts DEF Recheck
  <2>2. CASE run[c].gen = None
    BY <2>1, <2>2, FreeOwn DEF Leased, Publishing
  <2>3. CASE run[c].gen # None
    <3>1. Holds(c)
      BY <1>1, <2>3, RecheckFacts
    <3> QED BY <2>1, <3>1, HeldOwn DEF Holds, Publishing
  <2> QED BY <2>2, <2>3
<1>2. CASE Expect(c)
  <2>1. run' = [run EXCEPT ![c] = [@ EXCEPT !.pc = "prepare", !.expected = current]]
        /\ run[c].pc = "expect" /\ UNCHANGED files
    BY <1>2 DEF Expect, At
  <2>2. run'[c].pc = "prepare" /\ run'[c].gen = run[c].gen /\ run'[c].expected = current
    BY ZenonT(60), <1>0, <2>1, ExpectFacts
  <2>3. run[c].gen # None => Holds(c)
    BY <2>1, LeasedHolds DEF Leased
  <2>4. LeaseInv(c)'
    BY <2>1, <2>2, <2>3 DEF LeaseInv, Leased, Holds
  <2>5. LaunchInv(c)'
    BY <2>1, <2>2 DEF LaunchInv, Publishing
  <2> QED BY <2>4, <2>5 DEF Own
<1>3. ASSUME NEW g \in Gens, Prepare(c, g) PROVE Own(c)'
  <2>1. /\ run[c].pc = "prepare" /\ UNCHANGED <<current, link, host>>
        /\ g # current /\ owned[g] = {} /\ g \in generations'
    BY <1>3 DEF Prepare, At
  <2>2. /\ run'[c].pc = "beforeSignal" /\ run'[c].gen = run[c].gen
        /\ run'[c].new = g /\ run'[c].expected = run[c].expected
    BY <1>0, <1>3, PrepareFacts
  <2>3. run[c].gen # None => Holds(c)
    BY <2>1, LeasedHolds DEF Leased
  <2>4. LeaseInv(c)'
    BY <2>1, <2>2, <2>3 DEF LeaseInv, Leased, Holds
  <2>5. link[g].lease = None
    BY <2>1 DEF IInv, Unborn
  <2>6. run[c].expected # None => current # None
    BY <1>0, <2>1 DEF LaunchInv
  <2>7. LaunchInv(c)'
    BY <2>1, <2>2, <2>5, <2>6 DEF LaunchInv, Publishing
  <2> QED BY <2>4, <2>7 DEF Own
<1> QED BY <1>1, <1>2, <1>3

LEMMA LaunchOwn ==
    ASSUME IInv, NEW c \in Controllers, StepOK(c),
           \/ BeforeSignal(c) \/ Signal(c) \/ Spawn(c) \/ Ready(c) \/ Undo(c)
           \/ Commit(c) \/ Clean(c)
    PROVE  Own(c)'
<1>0. RunOK /\ FilesOK /\ HostOK /\ InHand(c) /\ LaunchInv(c)
      /\ run[c].gen \in Gens \cup {None} /\ run[c].new \in Gens
  BY TypeSplit DEF IInv, TypeInv, RunOK, Runs, InHand, BeforeSignal, Signal, Spawn,
                   Ready, Undo, Commit, Clean, At
<1> {"signal", "spawn", "ready", "commit", "undo", "clean"} \subseteq Labels
  BY DEF Labels
<1>1. run[c].pc \in Publishing /\ run[c].gen # None => Holds(c)
  BY LeasedHolds DEF Leased, Publishing
<1>2. CASE Abort(c)
  BY <1>0, <1>2, ReturnOwn DEF Abort
<1>3. CASE BeforeSignal(c) /\ ~Abort(c)
  <2>1. /\ run[c].pc = "beforeSignal" /\ UNCHANGED <<files, host>>
        /\ current = run[c].gen /\ Goto(c, "signal")
    BY <1>3 DEF BeforeSignal, At
  <2>2. /\ run'[c].pc = "signal" /\ run'[c].gen = run[c].gen
        /\ run'[c].new = run[c].new /\ run'[c].expected = run[c].expected
    BY <1>0, <2>1, GotoFacts
  <2>3. LeaseInv(c)'
    BY <1>1, <2>1, <2>2 DEF LeaseInv, Leased, Holds, Publishing
  <2>4. LaunchInv(c)'
    BY <1>0, <2>1, <2>2 DEF LaunchInv, Publishing
  <2> QED BY <2>3, <2>4 DEF Own
<1>4. CASE Signal(c) /\ ~Abort(c)
  <2>1. /\ run[c].pc = "signal" /\ UNCHANGED <<files, owned>> /\ Goto(c, "spawn")
    BY <1>4 DEF Signal, At
  <2>2. /\ run'[c].pc = "spawn" /\ run'[c].gen = run[c].gen
        /\ run'[c].new = run[c].new /\ run'[c].expected = run[c].expected
    BY <1>0, <2>1, GotoFacts
  <2>3. LeaseInv(c)'
    BY <1>1, <2>1, <2>2 DEF LeaseInv, Leased, Holds, Publishing
  <2>4. run[c].gen # None => procs'[run[c].gen] = {}
    BY <1>0, <1>4 DEF Signal, Terminate, HostOK
  <2>5. LaunchInv(c)'
    BY <1>0, <2>1, <2>2, <2>4 DEF LaunchInv, Publishing
  <2> QED BY <2>3, <2>5 DEF Own
<1>5. CASE Spawn(c) /\ ~Abort(c)
  <2>1. run[c].pc = "spawn" /\ UNCHANGED files /\ Goto(c, "ready")
    BY <1>5 DEF Spawn, At
  <2>2. /\ run'[c].pc = "ready" /\ run'[c].gen = run[c].gen
        /\ run'[c].new = run[c].new /\ run'[c].expected = run[c].expected
    BY <1>0, <2>1, GotoFacts
  <2>3. LeaseInv(c)'
    BY <1>1, <2>1, <2>2 DEF LeaseInv, Leased, Holds, Publishing
  <2>4. PICK shape \in Shapes : /\ owned' = [owned EXCEPT ![run[c].new] = shape]
                                /\ procs' = [procs EXCEPT ![run[c].new] = shape]
    BY <1>5 DEF Spawn
  <2>5. owned'[run[c].new] # {}
    BY <1>0, <2>4 DEF HostOK
  <2>6. run[c].gen # None => procs'[run[c].gen] = {}
    BY <1>0, <1>1, <2>1, <2>4 DEF HostOK, LaunchInv, Publishing, Holds
  <2>7. LaunchInv(c)'
    BY <1>0, <2>1, <2>2, <2>5, <2>6 DEF LaunchInv, Publishing
  <2> QED BY <2>3, <2>7 DEF Own
<1>6. CASE Ready(c)
  <2>1. run[c].pc = "ready" /\ UNCHANGED <<files, host>> /\ Goto(c, "commit")
    BY <1>6 DEF Ready, At
  <2>2. /\ run'[c].pc = "commit" /\ run'[c].gen = run[c].gen
        /\ run'[c].new = run[c].new /\ run'[c].expected = run[c].expected
    BY <1>0, <2>1, GotoFacts
  <2>3. LeaseInv(c)'
    BY <1>1, <2>1, <2>2 DEF LeaseInv, Leased, Holds, Publishing
  <2>4. LaunchInv(c)'
    BY <1>0, <2>1, <2>2 DEF LaunchInv, Publishing
  <2> QED BY <2>3, <2>4 DEF Own
<1>7. CASE Undo(c)
  BY <1>2, <1>7 DEF Undo
<1>8. CASE Commit(c)
  <2>1. CASE Goto(c, "undo")
    <3>1. run'[c].pc = "undo"
      BY <1>0, <2>1, GotoFacts
    <3> QED BY <3>1, FreeOwn DEF Leased, Publishing
  <2>2. CASE current' = run[c].new /\ currentLock' = c /\ Goto(c, "clean")
    <3>1. run'[c].pc = "clean" /\ run'[c].new = run[c].new
      BY <1>0, <2>2, GotoFacts
    <3>2. run[c].pc = "commit" /\ UNCHANGED link
      BY <1>8 DEF Commit, At
    <3>3. link[run[c].new].lease = None
      BY <1>0, <3>2 DEF LaunchInv, Publishing
    <3>4. LaunchInv(c)'
      BY <2>2, <3>1, <3>2, <3>3 DEF LaunchInv, Publishing
    <3>5. LeaseInv(c)'
      BY <3>1 DEF LeaseInv, Leased
    <3> QED BY <3>4, <3>5 DEF Own
  <2> QED BY <1>8, <2>1, <2>2 DEF Commit
<1>9. CASE Clean(c)
  BY <1>0, <1>9, ReturnOwn DEF Clean
<1> QED BY <1>2, <1>3, <1>4, <1>5, <1>6, <1>7, <1>8, <1>9

LEMMA StopRecordOwn ==
    ASSUME IInv, NEW c \in Controllers,
           \/ StopLease(c) \/ StopIntent(c) \/ StopSignal(c) \/ StopRecord(c)
           \/ Create(c) \/ Arm(c) \/ Dispatch(c) \/ Close(c)
    PROVE  Own(c)'
<1>0. RunOK /\ FilesOK /\ SessionOK /\ InHand(c) /\ run[c].gen \in Gens
  BY TypeSplit DEF IInv, TypeInv, RunOK, Runs, InHand, StopLease, StopIntent,
                   StopSignal, StopRecord, Create, Arm, Dispatch, Close, At
<1> DEFINE labels == {"stopIntent", "stopSignal", "stopRecord", "arm", "dispatch",
                      "claim", "wire"}
<1>1. labels \subseteq Labels /\ labels \cap (Publishing \cup {"prepare", "clean"}) = {}
  BY DEF Labels, Publishing
<1>2. CASE StopLease(c)
  <2>1. CASE ClaimLease(c, run[c].gen) /\ Goto(c, "stopIntent")
    <3>1. current' = run[c].gen /\ link'[run[c].gen].lease = c
      BY <1>0, <2>1, ClaimFacts
    <3> QED BY <1>0, <1>1, <2>1, <3>1, GotoHeld
  <2> QED BY <1>0, <1>2, <2>1, ReturnOwn DEF StopLease
<1>3. CASE ~StopLease(c)
  <2>1. Holds(c)
    BY <1>0, <1>3, LeasedHolds DEF StopIntent, StopSignal, StopRecord, Create, Arm,
                                   Dispatch, Close, At, Leased
  <2>2. UNCHANGED <<current, link>>
    BY <1>3 DEF StopIntent, StopSignal, StopRecord, Create, Arm, Dispatch, Close,
                WriteTermination
  <2>3. Return(c) \/ \E label \in labels : Goto(c, label)
    BY <1>3 DEF StopIntent, StopSignal, StopRecord, Create, Arm, Dispatch, Close
  <2> QED BY <1>0, <1>1, <2>1, <2>2, <2>3, ReturnOwn, GotoHeld DEF Holds
<1> QED BY <1>2, <1>3

LEMMA ActsOwn ==
    ASSUME IInv, NEW c \in Controllers, Acts(c), StepOK(c)
    PROVE  Own(c)'
<1>1. CASE Call(c) \/ Other(c)
  BY <1>1, StartOwn, CallOwn DEF Call, Other
<1>2. CASE Step(c)
  BY <1>2, CallOwn, ReconcileOwn, PrepareOwn, LaunchOwn, StopRecordOwn DEF Step
<1>3. CASE Exit(c)
  <2>1. RunOK
    BY TypeSplit DEF IInv, TypeInv
  <2> QED BY <1>3, <2>1, ReturnOwn DEF Exit, Return
<1>4. ASSUME NEW g \in Gens, Connect(c, g) PROVE Own(c)'
  BY <1>4 DEF Connect, Own, IInv, LeaseInv, Leased, LaunchInv
<1> QED BY <1>1, <1>2, <1>3, <1>4 DEF Acts

LEMMA InitInv == Init => IInv
BY InitTypeInv DEF Init, IInv, LeaseInv, Leased, LaunchInv, Publishing, Idle,
   Distinct, Unborn, CurrentBorn, CurrentIntact, StopCompletes, NoLink

LEMMA InvStep == IInv /\ [Next]_vars => IInv'
<1> SUFFICES ASSUME IInv, [Next]_vars PROVE IInv'
  OBVIOUS
<1>0. TypeInv'
  BY TypeStep DEF IInv
<1>1. ASSUME NEW c \in Controllers, Acts(c) PROVE IInv'
  <2>1. StepOK(c)
    BY <1>1, ActsOK DEF IInv
  <2>2. LeaseInv(c)' /\ LaunchInv(c)'
    BY <1>1, <2>1, ActsOwn DEF Own
  <2>3. \A d \in Controllers \ {c} : LeaseInv(d)' /\ LaunchInv(d)'
    BY <2>1, LeaseUndisturbed, LaunchUndisturbed
  <2>4. Distinct' /\ Unborn' /\ CurrentBorn' /\ CurrentIntact' /\ StopCompletes'
    BY <2>1, SharedStep
  <2> QED BY <1>0, <2>2, <2>3, <2>4 DEF IInv
<1>2. ASSUME NEW g \in Gens, NEW p \in procs[g], ProcessExits(g, p) PROVE IInv'
  <2>1. UNCHANGED <<files, owned, session, run>> /\ HostOK
    BY <1>2, TypeSplit DEF ProcessExits, IInv, TypeInv
  <2>2. \A h \in Gens : procs'[h] \subseteq procs[h]
    BY <1>2, <2>1 DEF ProcessExits, HostOK
  <2>3. ASSUME NEW c \in Controllers PROVE LeaseInv(c)' /\ LaunchInv(c)'
    <3>1. run[c].gen \in Gens \cup {None} /\ LeaseInv(c) /\ LaunchInv(c)
      BY DEF IInv, TypeInv, TypeOK
    <3> QED BY <2>1, <2>2, <3>1 DEF LeaseInv, Leased, LaunchInv
  <2>4. Distinct' /\ Unborn' /\ CurrentBorn' /\ CurrentIntact' /\ StopCompletes'
    BY <2>1, <2>2 DEF IInv, Distinct, Unborn, CurrentBorn, CurrentIntact, StopCompletes
  <2> QED BY <1>0, <2>3, <2>4 DEF IInv
<1>3. CASE UNCHANGED vars
  BY <1>0, <1>3 DEF vars, IInv, LeaseInv, Leased, LaunchInv, Distinct, Unborn,
     CurrentBorn, CurrentIntact, StopCompletes
<1> QED BY <1>1, <1>2, <1>3, StepCases

LEMMA Invariant == Spec => []IInv
BY InitInv, InvStep, PTL DEF Spec

\* Between its claim and the end of its tool a controller keeps the lease of
\* its generation, which stays current, although it holds no lock.
THEOREM LeaseIsKept == Spec => []LeaseKept
<1>1. IInv => LeaseKept
  BY DEF IInv, LeaseInv, LeaseKept
<1> QED BY <1>1, Invariant, PTL

\* Neither a launch that fails nor the cleanup after a publication removes
\* the directory of the current generation.
THEOREM CurrentIsIntact == Spec => []CurrentIntact
<1>1. IInv => CurrentIntact
  BY DEF IInv
<1> QED BY <1>1, Invariant, PTL

\* A stop that is recorded as completed left no process behind, and none is
\* ever started for that generation again.
THEOREM StopsAreComplete == Spec => []StopCompletes
<1>1. IInv => StopCompletes
  BY DEF IInv
<1> QED BY <1>1, Invariant, PTL

\* A generation is published over none, or over one whose processes are gone
\* and whose lease the launcher has.
THEOREM PublicationIsExclusive == Spec => PublishesOverExited
<1>1. ASSUME IInv, [Next]_vars, current' # current
      PROVE  \E c \in Controllers :
                /\ run[c].pc = "commit" /\ run[c].new = current'
                /\ current # None => procs[current] = {} /\ link[current].lease = c
  <2>1. PICK c \in Controllers : Acts(c)
    BY <1>1, StepCases DEF ProcessExits, vars
  <2>2. StepOK(c)
    BY <1>1, <2>1, ActsOK DEF IInv
  <2>3. run[c].pc = "commit" /\ current = run[c].expected /\ current' = run[c].new
    BY <1>1, <2>2 DEF StepOK, FileEffects, CurrentEffect
  <2> QED BY <1>1, <2>3, CommitFacts
<1>2. IInv /\ [Next]_vars =>
        [current' # current =>
            \E c \in Controllers :
                /\ run[c].pc = "commit" /\ run[c].new = current'
                /\ current # None => procs[current] = {} /\ link[current].lease = c]_vars
  BY <1>1
<1> QED BY <1>2, Invariant, PTL DEF Spec, PublishesOverExited

\* A directory that appears is the one of a generation that never ran.
LEMMA NoneRevived ==
    ASSUME IInv, [Next]_vars, NEW g \in generations' \ generations
    PROVE  owned[g] = {}
<1>1. PICK c \in Controllers : Acts(c)
  BY StepCases DEF ProcessExits, vars
<1>2. TypeOK' /\ DirectoryEffect(c)
  BY <1>1, ActsOK DEF IInv, StepOK, FileEffects
<1>3. g # current
  BY <1>2 DEF IInv, CurrentIntact, TypeOK
<1>4. CASE run[c].pc = "note" /\ g = run[c].gen
  <2>1. Leased(c)
    BY <1>2, <1>4 DEF Leased, TypeOK
  <2> QED BY <1>3, <1>4, <2>1, LeasedHolds DEF Holds
<1> QED BY <1>2, <1>3, <1>4 DEF DirectoryEffect

\* No late record of a call brings the directory of a replaced generation
\* back: what appears is the directory of one that never ran.
THEOREM NothingIsRevived == Spec => NoRevival
<1>1. IInv /\ [Next]_vars => [\A g \in generations' \ generations : owned[g] = {}]_vars
  BY NoneRevived
<1> QED BY <1>1, Invariant, PTL DEF Spec, NoRevival

\* A controller that is about to signal does that, or exits.
LEMMA SignalOnly ==
    ASSUME NEW c \in Controllers, Acts(c), run[c].pc \in {"signal", "stopSignal"},
           procs' # procs
    PROVE  Signal(c) \/ StopSignal(c)
<1>1. CASE Call(c) \/ Other(c)
  BY <1>1 DEF Call, Other, StartRead, StartMutation, StartTemporal, FinishTemporal,
     StartReattach, StartLaunch, StartStop, StartRecord, Start
<1>2. CASE Exit(c) \/ \E g \in Gens : Connect(c, g)
  BY <1>2, SMTT(40) DEF Exit, Connect
<1>3. CASE Step(c)
  BY <1>3 DEF Step, At, Claim, Check, Persist, Wire, Outcome, Note, Reattach, GiveUp,
     Admit, Previous, Acquire, Reconcile, Resolve, Recheck, Expect, Prepare,
     BeforeSignal, Spawn, Ready, Undo, Commit, Clean, StopLease, StopIntent,
     StopRecord, Create, Arm, Dispatch, Close
<1> QED BY <1>1, <1>2, <1>3 DEF Acts

\* A launch or a stop signals the processes of the current generation only,
\* and only under its lease.
THEOREM TerminationIsLeased == Spec => TerminatesUnderLease
<1>1. ASSUME IInv, [Next]_vars, NEW g \in Gens, NEW p \in {"emulator", "bridge"},
             NEW c \in Controllers, p \in procs[g], p \notin procs'[g],
             run[c].pc \in {"signal", "stopSignal"}, run'[c] # run[c]
      PROVE  run[c].gen = g /\ current = g /\ link[g].lease = c
  <2>1. PICK d \in Controllers : Acts(d)
    BY <1>1, StepCases DEF ProcessExits, vars
  <2>2. c = d
    BY <1>1, <2>1, ActsOK DEF IInv, StepOK, OthersKept
  <2>3. Signal(c) \/ StopSignal(c)
    BY <1>1, <2>1, <2>2, SignalOnly
  <2>4. run[c].gen = g
    BY <1>1, <2>3 DEF Signal, StopSignal, Terminate, IInv, TypeInv, TypeOK
  <2>5. Leased(c)
    BY <1>1, <2>4 DEF Leased
  <2> QED BY <1>1, <2>4, <2>5, LeasedHolds DEF Holds
<1>2. IInv /\ [Next]_vars =>
        [\A g \in Gens, p \in {"emulator", "bridge"}, c \in Controllers :
          (/\ p \in procs[g] /\ p \notin procs'[g]
           /\ run[c].pc \in {"signal", "stopSignal"} /\ run'[c] # run[c])
          => run[c].gen = g /\ current = g /\ link[g].lease = c]_vars
  BY <1>1
<1> QED BY <1>2, Invariant, PTL DEF Spec, TerminatesUnderLease

-----------------------------------------------------------------------------
(* The quarantine of a generation by an operation or a capture.             *)

\* A recording finds the capsule as it left it; a mutation that is being sent
\* was admitted, and what admitted it still holds.
RecordInv(c) ==
    LET r == run[c]
        g == run[c].gen
    IN  /\ r.pc \in {"create", "arm", "dispatch", "close"} => r.tool = "record"
        /\ r.pc = "reattach" => r.tool = "reattach"
        /\ r.pc = "arm" => capture[g].by = c /\ capture[g].state = "Prepared"
        /\ r.pc = "dispatch" => capture[g].by = c /\ capture[g].state = "Arming"
        /\ r.pc \in {"claim", "check", "wire"} /\ r.tool = "record" =>
               capture[g].by = c /\ capture[g].state = "Arming"
        /\ r.pc = "resolve" => capture[g].state \in {"Prepared", "Arming", "Open"}
        /\ r.pc = "wire" /\ r.tool = "mutate" /\ g # None =>
               /\ ~CaptureBlocks(g)
               /\ link[g].state = "None" \/ (link[g].state = "Active" /\ link[g].owner = c)

QInv == IInv /\ \A c \in Controllers : RecordInv(c)

\* Only the holder of the lease touches the operation of the current
\* generation: there is none, or it is its own and active.
OperationEffect(c) ==
    \A g \in Gens :
        \/ link'[g].owner = link[g].owner /\ link'[g].state = link[g].state
        \/ /\ g = current /\ link[g].lease = c
           /\ \/ link[g].state = "None"
              \/ link[g].state = "Active" /\ link[g].owner = c /\ alive[c]
        \/ Removable(c, g)

\* Only the holder of the lease touches the capture of the current
\* generation: there is none that blocks, or it is its own, or its owner has
\* exited.
CaptureEffect(c) ==
    \A g \in Gens :
        \/ capture'[g] = capture[g]
        \/ /\ g = run[c].gen /\ Holds(c)
           /\ CaptureBlocks(g) =>
                  /\ capture'[g].by = capture[g].by /\ capture[g].state # "Unsafe"
                  /\ \/ ~alive[capture[g].by]
                     \/ capture[g].by = c /\ run[c].tool = "record"
        \/ Removable(c, g) /\ g \notin generations'

Effects(c) == OperationEffect(c) /\ CaptureEffect(c)

LEMMA NoEffects ==
    ASSUME NEW c \in Controllers, UNCHANGED capture,
           \A g \in Gens : /\ link'[g].owner = link[g].owner
                           /\ link'[g].state = link[g].state
    PROVE  Effects(c)
BY DEF Effects, OperationEffect, CaptureEffect

LEMMA AbortEffects ==
    ASSUME IInv, NEW c \in Controllers, run[c].new # None, Abort(c)
    PROVE  Effects(c)
<1>1. FilesOK /\ CaptureOK /\ RunOK /\ run[c].new \in Gens
  BY TypeSplit DEF IInv, TypeInv, RunOK, Runs
<1>2. \A g \in Gens : \/ link'[g] = link[g] /\ capture'[g] = capture[g]
                      \/ Removable(c, g) /\ g \notin generations'
  BY <1>1, AbortFacts
<1> QED BY <1>2 DEF Effects, OperationEffect, CaptureEffect

\* The steps that leave both alone, but for the lease.
LEMMA LookEffects ==
    ASSUME IInv, NEW c \in Controllers,
           \/ Other(c) \/ StartRead(c) \/ StartMutation(c) \/ StartTemporal(c)
           \/ Claim(c) \/ Check(c) \/ Outcome(c) \/ Note(c) \/ Reattach(c)
           \/ GiveUp(c) \/ Admit(c) \/ Previous(c) \/ Acquire(c) \/ Reconcile(c)
           \/ Recheck(c) \/ Expect(c) \/ \E g \in Gens : Prepare(c, g)
           \/ Ready(c) \/ Commit(c)
           \/ StopLease(c) \/ StopIntent(c) \/ StopSignal(c) \/ StopRecord(c)
           \/ Exit(c) \/ \E g \in Gens : Connect(c, g)
    PROVE  Effects(c)
<1>0. FilesOK /\ SessionOK /\ InHand(c)
      /\ run[c].gen \in Gens \cup {None} /\ current \in Gens \cup {None}
  BY TypeSplit DEF IInv, TypeInv, RunOK, Runs, FilesOK
<1>1. CASE UNCHANGED <<link, capture>>
  BY <1>1, NoEffects
<1>2. CASE /\ run[c].gen \in Gens
           /\ ClaimLease(c, run[c].gen) \/ ClaimFails(c, run[c].gen)
  <2>1. /\ UNCHANGED capture
        /\ \A h \in Gens : /\ link'[h].owner = link[h].owner
                           /\ link'[h].state = link[h].state
    BY <1>0, <1>2, ClaimFailsFacts DEF ClaimFails
  <2> QED BY <2>1, NoEffects
<1>3. CASE current \in Gens /\ ClaimLease(c, current)
  <2>1. /\ UNCHANGED capture
        /\ \A h \in Gens : /\ link'[h].owner = link[h].owner
                           /\ link'[h].state = link[h].state
    BY <1>0, <1>3, ClaimFailsFacts DEF ClaimFails
  <2> QED BY <2>1, NoEffects
<1>4. CASE Other(c) \/ StartRead(c) \/ StartMutation(c) \/ StartTemporal(c)
  BY <1>1, <1>4 DEF Other, StartReattach, StartLaunch, StartStop, StartRecord,
                    StartRead, StartMutation, StartTemporal, Start
<1>5. CASE Claim(c) \/ Reattach(c) \/ Acquire(c) \/ StopLease(c)
  BY <1>0, <1>2, <1>5 DEF Claim, Reattach, Acquire, StopLease, InHand, At
<1>6. CASE Outcome(c)
  BY <1>0, <1>1, <1>3, <1>6 DEF Outcome, Bound
<1>7. CASE Reconcile(c)
  BY <1>0, <1>1, <1>2, <1>7 DEF Reconcile
<1>8. CASE \/ Check(c) \/ Note(c) \/ GiveUp(c) \/ Admit(c) \/ Previous(c) \/ Recheck(c)
           \/ Expect(c) \/ \E g \in Gens : Prepare(c, g)
  BY <1>1, <1>8 DEF Check, Note, GiveUp, Admit, Previous, Recheck, Expect, Prepare
<1>9. CASE \/ Ready(c) \/ Commit(c) \/ StopIntent(c) \/ StopSignal(c) \/ StopRecord(c)
           \/ Exit(c) \/ \E g \in Gens : Connect(c, g)
  BY <1>1, <1>9 DEF Ready, Commit, StopIntent, StopSignal, StopRecord,
                    WriteTermination, Exit, Connect
<1> QED BY <1>4, <1>5, <1>6, <1>7, <1>8, <1>9

LEMMA ActsEffects ==
    ASSUME QInv, NEW c \in Controllers, Acts(c)
    PROVE  Effects(c)
<1>0. IInv /\ RecordInv(c) /\ FilesOK /\ CaptureOK /\ SessionOK /\ RunOK /\ InHand(c)
      /\ run[c].gen \in Gens \cup {None} /\ run[c].new \in Gens \cup {None}
  BY TypeSplit DEF QInv, IInv, TypeInv, RunOK, Runs
<1>1. CASE Persist(c)
  <2>1. Holds(c) /\ UNCHANGED capture
    BY <1>0, <1>1, LeasedHolds DEF Leased, Persist, At, InHand
  <2>2. CASE UNCHANGED link
    BY <2>1, <2>2, NoEffects
  <2>3. CASE link[run[c].gen].state = "None"
             /\ link' = [link EXCEPT ![run[c].gen].owner = c, ![run[c].gen].state = "Active"]
    BY <1>0, <2>1, <2>3 DEF Effects, OperationEffect, CaptureEffect, Holds, FilesOK, Links
  <2> QED BY <1>1, <2>2, <2>3 DEF Persist
<1>2. ASSUME NEW verified \in BOOLEAN, FinishTemporal(c, verified) PROVE Effects(c)
  <2>1. UNCHANGED capture /\ alive[c] /\ temporal[c] \in Gens
    BY <1>0, <1>2 DEF FinishTemporal, At, SessionOK
  <2>2. \A g \in Gens :
           \/ link'[g] = link[g]
           \/ g = current /\ link[g].lease = c /\ link[g].owner = c /\ link[g].state = "Active"
    BY <1>0, <1>2, <2>1 DEF FinishTemporal, FilesOK
  <2> QED BY <2>1, <2>2 DEF Effects, OperationEffect, CaptureEffect
<1>3. CASE Wire(c) \/ Resolve(c) \/ Create(c) \/ Arm(c) \/ Dispatch(c) \/ Close(c)
  <2>1. CASE UNCHANGED <<link, capture>>
    BY <2>1, NoEffects
  <2>2. CASE capture' # capture
    <3>1. UNCHANGED link
      BY <1>3 DEF Wire, Resolve, Create, Arm, Dispatch, Close
    <3>2. run[c].pc \in {"wire", "resolve", "create", "arm", "dispatch", "close"}
          /\ (run[c].pc = "wire" => run[c].tool = "record")
      BY <1>3, <2>2 DEF Wire, Resolve, Create, Arm, Dispatch, Close, At
    <3>3. Holds(c)
      BY <1>0, <3>2, LeasedHolds DEF Leased, InHand
    <3>4. \A g \in Gens \ {run[c].gen} : capture'[g] = capture[g]
      BY <1>0, <1>3 DEF Wire, Resolve, Create, Arm, Dispatch, Close, Capsule, CaptureOK
    <3>5. CaptureBlocks(run[c].gen) =>
            /\ capture'[run[c].gen].by = capture[run[c].gen].by
            /\ capture[run[c].gen].state # "Unsafe"
            /\ \/ ~alive[capture[run[c].gen].by]
               \/ capture[run[c].gen].by = c /\ run[c].tool = "record"
      <4>1. CASE Wire(c)
        BY <1>0, <2>2, <3>3, <4>1 DEF Wire, CaptureOK, Captures, Holds
      <4>2. CASE Resolve(c)
        BY <1>0, <2>2, <3>3, <4>2 DEF Resolve, At, CaptureOK, Captures, Holds, RecordInv
      <4>3. CASE Create(c)
        BY <2>2, <4>3 DEF Create
      <4>4. CASE Arm(c) \/ Dispatch(c)
        BY <1>0, <2>2, <3>3, <4>4 DEF Arm, Dispatch, At, Capsule, CaptureOK, Captures,
                                      Holds, RecordInv
      <4>5. CASE Close(c)
        BY <1>0, <2>2, <3>3, <4>5 DEF Close, At, Capsule, CaptureOK, Captures, Holds,
                                      RecordInv
      <4> QED BY <1>3, <4>1, <4>2, <4>3, <4>4, <4>5
    <3> QED BY <3>1, <3>3, <3>4, <3>5 DEF Effects, OperationEffect, CaptureEffect
  <2>3. UNCHANGED link
    BY <1>3 DEF Wire, Resolve, Create, Arm, Dispatch, Close
  <2> QED BY <2>1, <2>2, <2>3
<1>4. CASE BeforeSignal(c) \/ Signal(c) \/ Spawn(c) \/ Undo(c)
  <2>1. run[c].new # None
    BY <1>0, <1>4 DEF BeforeSignal, Signal, Spawn, Undo, At, InHand
  <2>2. Abort(c) \/ UNCHANGED <<link, capture>>
    BY <1>4 DEF BeforeSignal, Signal, Spawn, Undo
  <2> QED BY <1>0, <2>1, <2>2, AbortEffects, NoEffects
<1>5. CASE Clean(c)
  <2>1. PICK dirs \in SUBSET (generations \ {run[c].new}) : Remove(dirs)
    BY <1>5 DEF Clean
  <2>2. run[c].pc = "clean"
    BY <1>5 DEF Clean, At
  <2>3. \A g \in Gens : \/ link'[g] = link[g] /\ capture'[g] = capture[g]
                        \/ Removable(c, g) /\ g \notin generations'
    BY <2>1, <2>2 DEF Remove, Removable
  <2> QED BY <2>3 DEF Effects, OperationEffect, CaptureEffect
<1>6. CASE Call(c)
  BY <1>0, <1>2, <1>6, LookEffects DEF Call
<1>7. CASE Step(c)
  BY <1>0, <1>1, <1>3, <1>4, <1>5, <1>7, LookEffects DEF Step
<1> QED BY <1>0, <1>6, <1>7, LookEffects DEF Acts

\* What another controller's step leaves of it.
LEMMA RecordUndisturbed ==
    ASSUME QInv, NEW c \in Controllers, NEW d \in Controllers \ {c}, StepOK(c), Effects(c)
    PROVE  RecordInv(d)'
<1>1. run'[d] = run[d] /\ RecordInv(d) /\ IInv /\ InHand(d)
  BY DEF QInv, IInv, TypeInv, StepOK, OthersKept
<1>2. CASE ~Leased(d)
  BY <1>1, <1>2 DEF Leased, RecordInv, InHand
<1>3. CASE Leased(d)
  <2>1. Holds(d)
    BY <1>1, <1>3, LeasedHolds
  <2>2. ~Removable(c, current)
    BY <1>1 DEF Removable, IInv, LaunchInv
  <2>3. capture'[run[d].gen] = capture[run[d].gen]
    BY <2>1, <2>2 DEF Effects, CaptureEffect, Holds
  <2>4. /\ link'[run[d].gen].owner = link[run[d].gen].owner
        /\ link'[run[d].gen].state = link[run[d].gen].state
    BY <2>1, <2>2 DEF Effects, OperationEffect, Holds
  <2> QED BY <1>1, <2>1, <2>3, <2>4 DEF RecordInv, CaptureBlocks, Holds
<1> QED BY <1>2, <1>3

\* The labels at which RecordInv says nothing.
Unread == Labels \ {"create", "arm", "dispatch", "close", "reattach", "claim", "check",
                    "wire", "resolve"}

LEMMA FreeRecord ==
    ASSUME NEW c \in Controllers, run'[c].pc \in Unread
    PROVE  RecordInv(c)'
BY DEF RecordInv, Unread

LEMMA GotoFree ==
    ASSUME RunOK, NEW c \in Controllers, NEW label \in Unread, Goto(c, label)
    PROVE  RecordInv(c)'
<1>1. run'[c].pc = label
  BY GotoFacts DEF Unread
<1> QED BY <1>1, FreeRecord

LEMMA ReturnRecord ==
    ASSUME RunOK, NEW c \in Controllers, Return(c)
    PROVE  RecordInv(c)'
BY ReturnFacts, FreeRecord DEF Unread, Labels, Idle

LEMMA CloseRecord ==
    ASSUME RunOK, NEW c \in Controllers, run[c].tool = "record",
           NEW label \in {"close", "create"}, Goto(c, label)
    PROVE  RecordInv(c)'
<1>1. label \in Labels
  BY DEF Labels
<1>2. run'[c].pc = label /\ run'[c].tool = "record"
  BY <1>1, GotoFacts
<1> QED BY <1>2 DEF RecordInv

LEMMA StartRecordInv ==
    ASSUME IInv, NEW c \in Controllers,
           \/ StartRead(c) \/ StartMutation(c) \/ StartTemporal(c) \/ Other(c)
    PROVE  RecordInv(c)'
<1>0. RunOK /\ current \in Gens \cup {None} /\ None \notin Gens
  BY TypeSplit, GenerationsAssumption DEF IInv, TypeInv, FilesOK
<1> {"wire", "claim", "reattach", "stopLease", "acquire"} \subseteq Labels
  BY DEF Labels
<1>1. ASSUME NEW tool, NEW label \in Labels, NEW g \in Gens \cup {None},
             Start(c, tool, label, g),
             \/ label \in {"stopLease", "acquire"}
             \/ label = "reattach" /\ tool = "reattach"
             \/ label = "claim" /\ tool # "record"
             \/ label = "wire" /\ g = None /\ tool # "record"
      PROVE  RecordInv(c)'
  <2>1. run'[c].pc = label /\ run'[c].tool = tool /\ run'[c].gen = g
    BY <1>0, <1>1, StartFacts
  <2> QED BY <1>1, <2>1 DEF RecordInv
<1>2. CASE StartRead(c)
  BY <1>1, <1>2 DEF StartRead
<1>3. CASE StartMutation(c)
  BY <1>0, <1>1, <1>3 DEF StartMutation
<1>4. CASE StartTemporal(c)
  BY <1>0, <1>1, <1>4 DEF StartTemporal
<1>5. ASSUME NEW g \in Gens, StartReattach(c, g) PROVE RecordInv(c)'
  BY <1>1, <1>5 DEF StartReattach
<1>6. ASSUME NEW tool \in {"launch", "replace"}, StartLaunch(c, tool) PROVE RecordInv(c)'
  BY <1>1, <1>6 DEF StartLaunch
<1>7. CASE StartStop(c)
  BY <1>0, <1>1, <1>7 DEF StartStop
<1>8. CASE StartRecord(c)
  BY <1>0, <1>1, <1>8 DEF StartRecord
<1> QED BY <1>2, <1>3, <1>4, <1>5, <1>6, <1>7, <1>8 DEF Other

LEMMA ResumeRecord ==
    ASSUME IInv, NEW c \in Controllers, Resume(c)
    PROVE  RecordInv(c)'
<1>0. RunOK /\ current \in Gens \cup {None} /\ {"admit", "reconcile"} \subseteq Unread
      /\ "reconcile" \in Labels
  BY TypeSplit DEF IInv, TypeInv, FilesOK, Unread, Labels
<1>1. CASE GotoWith(c, "reconcile", current)
  <2>1. run'[c].pc = "reconcile"
    BY <1>0, <1>1, RegenFacts
  <2> QED BY <1>0, <2>1, FreeRecord
<1> QED BY <1>0, <1>1, GotoFree, ReturnRecord, CloseRecord DEF Resume

LEMMA ReconciledRecord ==
    ASSUME IInv, NEW c \in Controllers, Reconciled(c)
    PROVE  RecordInv(c)'
<1>0. RunOK /\ "recheck" \in Unread
  BY TypeSplit DEF IInv, TypeInv, Unread, Labels
<1> QED BY <1>0, GotoFree, ReturnRecord, CloseRecord DEF Reconciled

\* A call, from its claim to the record of its outcome, and a reattachment.
LEMMA CallRecord ==
    ASSUME IInv, NEW c \in Controllers, RecordInv(c),
           \/ Claim(c) \/ Check(c) \/ Persist(c) \/ Wire(c) \/ Outcome(c) \/ Note(c)
           \/ Reattach(c)
    PROVE  RecordInv(c)'
<1>0. RunOK /\ FilesOK /\ SessionOK /\ InHand(c) /\ run[c].gen \in Gens \cup {None}
      /\ current \in Gens \cup {None}
  BY TypeSplit DEF IInv, TypeInv, RunOK, Runs, FilesOK
<1> {"persist", "outcome", "note"} \subseteq Unread
    /\ {"check", "wire", "note"} \subseteq Labels
  BY DEF Unread, Labels
<1>1. CASE Return(c)
  BY <1>0, <1>1, ReturnRecord
<1>2. CASE Refused(c)
  BY <1>0, <1>2, ReturnRecord, CloseRecord DEF Refused
<1>3. CASE Claim(c)
  <2>1. CASE ClaimLease(c, run[c].gen) /\ Goto(c, "check")
    <3>1. run'[c].pc = "check" /\ run'[c].tool = run[c].tool /\ run'[c].gen = run[c].gen
      BY <1>0, <2>1, GotoFacts
    <3> QED BY <1>3, <2>1, <3>1 DEF ClaimLease, RecordInv, Claim, At
  <2> QED BY <1>2, <1>3, <2>1 DEF Claim
<1>4. CASE Check(c)
  <2>1. CASE Goto(c, "persist")
    BY <1>0, <2>1, GotoFree
  <2>2. CASE /\ link[run[c].gen].state = "None" \/ OwnOperation(c, run[c].gen)
             /\ ~CaptureBlocks(run[c].gen) \/ OwnedArming(c, run[c].gen)
             /\ Goto(c, "wire")
    <3>1. run'[c].pc = "wire" /\ run'[c].tool = run[c].tool /\ run'[c].gen = run[c].gen
      BY <1>0, <2>2, GotoFacts
    <3>2. UNCHANGED <<link, capture>> /\ run[c].pc = "check"
      BY <1>4 DEF Check, At
    <3>3. run[c].tool = "mutate" =>
            /\ ~CaptureBlocks(run[c].gen)
            /\ \/ link[run[c].gen].state = "None"
               \/ link[run[c].gen].state = "Active" /\ link[run[c].gen].owner = c
      BY <2>2 DEF OwnOperation, OwnedArming
    <3> QED BY <3>1, <3>2, <3>3 DEF RecordInv, CaptureBlocks
  <2> QED BY <1>2, <1>4, <2>1, <2>2 DEF Check
<1>5. CASE Persist(c)
  BY <1>1, <1>5 DEF Persist
<1>6. CASE Wire(c)
  BY <1>0, <1>6, GotoFree DEF Wire
<1>7. CASE Outcome(c)
  <2>1. CASE GotoWith(c, "note", current)
    <3>1. run'[c].pc = "note"
      BY <1>0, <2>1, RegenFacts
    <3> QED BY <3>1, FreeRecord
  <2> QED BY <1>7, <2>1, ResumeRecord DEF Outcome
<1>8. CASE Note(c)
  BY <1>8, ResumeRecord DEF Note
<1>9. CASE Reattach(c)
  <2>1. CASE Goto(c, "wire")
    <3>1. run'[c].pc = "wire" /\ run'[c].tool = "reattach"
      BY <1>0, <1>9, <2>1, GotoFacts, ZenonT(60) DEF Reattach, At, RecordInv
    <3> QED BY <3>1 DEF RecordInv
  <2> QED BY <1>1, <1>9, <2>1 DEF Reattach
<1> QED BY <1>3, <1>4, <1>5, <1>6, <1>7, <1>8, <1>9

\* A launch, a stop, and the reconciliation of a capture.
LEMMA LaunchRecord ==
    ASSUME IInv, NEW c \in Controllers, RecordInv(c),
           \/ GiveUp(c) \/ Admit(c) \/ Previous(c) \/ Acquire(c) \/ Reconcile(c)
           \/ Resolve(c) \/ Recheck(c) \/ Expect(c) \/ \E g \in Gens : Prepare(c, g)
           \/ BeforeSignal(c) \/ Signal(c) \/ Spawn(c) \/ Ready(c) \/ Undo(c)
           \/ Commit(c) \/ Clean(c)
           \/ StopLease(c) \/ StopIntent(c) \/ StopSignal(c) \/ StopRecord(c)
    PROVE  RecordInv(c)'
<1>0. RunOK /\ FilesOK /\ SessionOK /\ CaptureOK /\ run[c].gen \in Gens \cup {None}
      /\ current \in Gens \cup {None}
  BY TypeSplit DEF IInv, TypeInv, RunOK, Runs, FilesOK
<1> DEFINE Left == {"previous", "previousFree", "acquire", "reconcile", "expect", "prepare",
                    "beforeSignal", "signal", "spawn", "ready", "commit", "undo", "clean",
                    "stopIntent", "stopSignal", "stopRecord"}
<1>1. Left \subseteq Unread /\ Left \subseteq Labels /\ "resolve" \in Labels
  BY DEF Unread, Labels
<1> HIDE DEF Left
<1>2. CASE Return(c) \/ Abort(c)
  BY <1>0, <1>2, ReturnRecord DEF Abort
<1>3. ASSUME NEW label \in Left, Goto(c, label) \/ GotoWith(c, label, current)
      PROVE  RecordInv(c)'
  <2>1. CASE Goto(c, label)
    BY <1>0, <1>1, <1>3, <2>1, GotoFree
  <2>2. CASE GotoWith(c, label, current)
    <3>1. run'[c].pc = label
      BY <1>0, <1>1, <1>3, <2>2, RegenFacts
    <3> QED BY <1>1, <1>3, <3>1, FreeRecord
  <2> QED BY <1>3, <2>1, <2>2
<1>4. CASE GiveUp(c) \/ Admit(c) \/ Previous(c) \/ Acquire(c) \/ Recheck(c)
  BY <1>2, <1>3, <1>4 DEF GiveUp, Admit, Previous, Acquire, Recheck, Left
<1>5. CASE Reconcile(c)
  <2>1. CASE Reconciled(c)
    BY <2>1, ReconciledRecord
  <2>2. CASE /\ capture[run[c].gen].state \notin {"None", "Safe", "Unsafe"}
             /\ run[c].gen # None
             /\ ClaimLease(c, run[c].gen) /\ Goto(c, "resolve")
    <3>1. run'[c].pc = "resolve" /\ run'[c].gen = run[c].gen
      BY <1>0, <1>1, <2>2, GotoFacts
    <3>2. capture'[run[c].gen].state \in {"Prepared", "Arming", "Open"}
      BY <1>0, <2>2 DEF ClaimLease, CaptureOK, Captures
    <3> QED BY <3>1, <3>2 DEF RecordInv
  <2> QED BY <1>2, <1>5, <2>1, <2>2 DEF Reconcile
<1>6. CASE Resolve(c)
  BY <1>2, <1>6, ReconciledRecord DEF Resolve
<1>7. CASE Expect(c)
  <2>1. run'[c].pc = "prepare"
    BY <1>0, <1>1, <1>7, ExpectFacts DEF Expect, Left
  <2> QED BY <1>1, <2>1, FreeRecord DEF Left
<1>8. ASSUME NEW g \in Gens, Prepare(c, g) PROVE RecordInv(c)'
  <2>1. run'[c].pc = "beforeSignal"
    BY <1>0, <1>8, PrepareFacts
  <2> QED BY <1>1, <2>1, FreeRecord DEF Left
<1>9. CASE BeforeSignal(c) \/ Signal(c) \/ Spawn(c) \/ Ready(c) \/ Undo(c) \/ Commit(c)
           \/ Clean(c)
  BY <1>2, <1>3, <1>9 DEF BeforeSignal, Signal, Spawn, Ready, Undo, Commit, Clean, Left
<1>10. CASE StopLease(c) \/ StopIntent(c) \/ StopSignal(c) \/ StopRecord(c)
  BY <1>2, <1>3, <1>10 DEF StopLease, StopIntent, StopSignal, StopRecord, Left
<1> QED BY <1>4, <1>5, <1>6, <1>7, <1>8, <1>9, <1>10

\* A recording, from its capsule to its end.
LEMMA RecordRecord ==
    ASSUME IInv, NEW c \in Controllers, RecordInv(c),
           Create(c) \/ Arm(c) \/ Dispatch(c) \/ Close(c)
    PROVE  RecordInv(c)'
<1>0. RunOK /\ CaptureOK /\ InHand(c) /\ run[c].gen \in Gens /\ run[c].tool = "record"
  BY TypeSplit DEF IInv, TypeInv, RunOK, Runs, InHand, RecordInv, Create, Arm, Dispatch,
     Close, At
<1> {"arm", "dispatch", "claim", "wire"} \subseteq Labels
  BY DEF Labels
<1>1. CASE Return(c)
  BY <1>0, <1>1, ReturnRecord
<1>2. ASSUME NEW state, Capsule(c, state)
      PROVE  capture'[run[c].gen].by = c /\ capture'[run[c].gen].state = state
  BY <1>0, <1>2 DEF Capsule, CaptureOK
<1>3. ASSUME NEW label \in {"arm", "dispatch", "claim", "wire"}, Goto(c, label)
      PROVE  run'[c].pc = label /\ run'[c].gen = run[c].gen /\ run'[c].tool = "record"
  BY <1>0, <1>3, GotoFacts
<1>4. CASE Capsule(c, "Prepared") /\ Goto(c, "arm")
  BY <1>2, <1>3, <1>4 DEF RecordInv
<1>5. CASE Capsule(c, "Arming") /\ Goto(c, "dispatch")
  BY <1>2, <1>3, <1>5 DEF RecordInv
<1>6. CASE Dispatch(c) /\ UNCHANGED capture /\ (Goto(c, "claim") \/ Goto(c, "wire"))
  BY <1>3, <1>6 DEF RecordInv, Dispatch, At
<1> QED BY <1>1, <1>4, <1>5, <1>6 DEF Create, Arm, Dispatch, Close

LEMMA RecordStep == QInv /\ [Next]_vars => QInv'
<1> SUFFICES ASSUME QInv, [Next]_vars PROVE QInv'
  OBVIOUS
<1>0. IInv /\ IInv'
  BY InvStep DEF QInv
<1>1. ASSUME NEW c \in Controllers, Acts(c) PROVE QInv'
  <2>1. StepOK(c) /\ Effects(c)
    BY <1>0, <1>1, ActsOK, ActsEffects DEF IInv
  <2>2. RecordInv(c)'
    <3>0. RecordInv(c) /\ RunOK
      BY <1>0, TypeSplit DEF QInv, IInv, TypeInv
    <3>1. CASE \E verified \in BOOLEAN : FinishTemporal(c, verified)
      BY <3>1, FreeRecord DEF FinishTemporal, At, Unread, Labels
    <3>2. ASSUME NEW g \in Gens, Connect(c, g) PROVE RecordInv(c)'
      BY <3>0, <3>2 DEF Connect, files, RecordInv, CaptureBlocks
    <3>3. CASE Exit(c)
      <4>1. run'[c] = Idle
        BY <3>0, <3>3 DEF Exit, RunOK
      <4> QED BY <4>1, FreeRecord DEF Idle, Unread, Labels
    <3>4. CASE Step(c)
      BY <1>0, <3>0, <3>4, CallRecord, LaunchRecord, RecordRecord DEF Step
    <3> QED BY <1>0, <1>1, <3>1, <3>2, <3>3, <3>4, StartRecordInv DEF Acts, Call
  <2>3. ASSUME NEW d \in Controllers PROVE RecordInv(d)'
    BY <2>1, <2>2, <2>3, RecordUndisturbed
  <2> QED BY <1>0, <2>3 DEF QInv
<1>2. ASSUME NEW g \in Gens, NEW p \in procs[g], ProcessExits(g, p) PROVE QInv'
  BY <1>0, <1>2 DEF QInv, ProcessExits, files, RecordInv, CaptureBlocks
<1>3. CASE UNCHANGED vars
  BY <1>0, <1>3 DEF QInv, vars, files, RecordInv, CaptureBlocks
<1> QED BY <1>1, <1>2, <1>3, StepCases

LEMMA Quarantine == Spec => []QInv
<1>1. Init => QInv
  BY InitInv, FreeRecord DEF QInv, Init, RecordInv, Idle
<1> QED BY <1>1, RecordStep, PTL DEF Spec

\* A mutation under a lease has its generation to itself until its answer.
THEOREM MutationsAreAlone == Spec => []MutationAlone
<1>1. ASSUME QInv, NEW g \in Gens, NEW c \in Mutators(g)
      PROVE  /\ Mutators(g) = {c}
             /\ run[c].tool = "mutate" /\ link[g].state # "None" =>
                    link[g].state = "Active" /\ link[g].owner = c
             /\ CaptureBlocks(g) => run[c].tool = "record" /\ capture[g].by = c
  <2>1. ASSUME NEW d \in Mutators(g) PROVE link[g].lease = d
    <3>1. d \in Controllers /\ Leased(d) /\ run[d].gen = g
      BY <2>1, GenerationsAssumption DEF Mutators, Leased
    <3> QED BY <1>1, <3>1, LeasedHolds DEF Holds, QInv
  <2>2. Mutators(g) = {c}
    BY <1>1, <2>1
  <2>3. c \in Controllers /\ RecordInv(c) /\ run[c].pc = "wire" /\ run[c].gen = g /\ g # None
        /\ run[c].tool \in {"mutate", "record"}
    BY <1>1, GenerationsAssumption DEF Mutators, QInv
  <2> QED BY <2>2, <2>3 DEF RecordInv
<1>2. QInv => MutationAlone
  BY <1>1 DEF MutationAlone
<1> QED BY <1>2, Quarantine, PTL

\* A temporal operation whose cleanup is not verified stays with its
\* generation, whoever holds the lease next.
THEOREM QuarantinesHold == Spec => QuarantineHolds
<1>1. ASSUME QInv, [Next]_vars, NEW g \in Gens, link[g].state # "None",
             link'[g] # link[g], current' = g
      PROVE  /\ link'[g].owner = link[g].owner \/ alive[link[g].owner]
             /\ link[g].state = "Unverified" =>
                    link'[g].state = "Unverified" /\ link'[g].owner = link[g].owner
  <2>1. PICK c \in Controllers : Acts(c)
    BY <1>1, StepCases DEF ProcessExits, vars, files
  <2>2. StepOK(c) /\ OperationEffect(c)
    BY <1>1, <2>1, ActsOK, ActsEffects DEF QInv, IInv, Effects
  <2>3. CASE Removable(c, g)
    <3>1. LaunchInv(c) /\ current # g
      BY <1>1, <2>3 DEF QInv, IInv, LaunchInv, Removable
    <3>2. run[c].pc = "commit" /\ run'[c].pc \in {"clean", "undo"}
      BY <1>1, <2>2, <3>1 DEF StepOK, FileEffects, CurrentEffect
    <3> QED BY <2>3, <3>2 DEF Removable, Idle
  <2> QED BY <1>1, <2>2, <2>3 DEF OperationEffect
<1>2. QInv /\ [Next]_vars =>
        [\A g \in Gens :
          link[g].state # "None" /\ link'[g] # link[g] /\ current' = g
          => /\ link'[g].owner = link[g].owner \/ alive[link[g].owner]
             /\ link[g].state = "Unverified" =>
                    link'[g].state = "Unverified"
                    /\ link'[g].owner = link[g].owner]_vars
  BY <1>1
<1> QED BY <1>2, Quarantine, PTL DEF Spec, QuarantineHolds

\* A capture is ended by its owner or, once that has exited, by another.
THEOREM CapturesEnd == Spec => CaptureEnds
<1>1. ASSUME QInv, [Next]_vars, NEW g \in Gens, CaptureBlocks(g),
             capture'[g] # capture[g], g \in generations'
      PROVE  /\ capture'[g].by = capture[g].by
             /\ capture[g].state # "Unsafe"
             /\ \/ ~alive[capture[g].by]
                \/ run[capture[g].by].gen = g /\ run[capture[g].by].tool = "record"
  <2>1. PICK c \in Controllers : Acts(c)
    BY <1>1, StepCases DEF ProcessExits, vars, files
  <2>2. CaptureEffect(c)
    BY <1>1, <2>1, ActsEffects DEF Effects
  <2> QED BY <1>1, <2>2 DEF CaptureEffect
<1>2. QInv /\ [Next]_vars =>
        [\A g \in Gens :
          CaptureBlocks(g) /\ capture'[g] # capture[g] /\ g \in generations'
          => /\ capture'[g].by = capture[g].by
             /\ capture[g].state # "Unsafe"
             /\ \/ ~alive[capture[g].by]
                \/ run[capture[g].by].gen = g /\ run[capture[g].by].tool = "record"]_vars
  BY <1>1
<1> QED BY <1>2, Quarantine, PTL DEF Spec, CaptureEnds
-----------------------------------------------------------------------------
(* A broker's controllers and the generations that are not current.         *)

\* A link has seen only what was launched, and a mutation without a lease is
\* on its way to an emulator that the store does not keep.
Unlisted(c) ==
    /\ peer[c] # None => owned[peer[c]] # {}
    /\ c \in Relayed /\ run[c].pc = "wire" /\ run[c].tool = "mutate" /\ run[c].gen = None
           => peer[c] # None /\ peer[c] \notin generations

HistInv == IInv /\ \A c \in Controllers : Unlisted(c)

\* A link keeps its peer, loses it, or finds one that runs.
PeerEffect(c) ==
    /\ \A d \in Controllers \ {c} : peer'[d] = peer[d]
    /\ \/ peer'[c] \in {peer[c], None}
       \/ \E g \in Gens : Connect(c, g) /\ peer'[c] = g

LEMMA PeerSteps ==
    ASSUME SessionOK, NEW c \in Controllers, Acts(c)
    PROVE  PeerEffect(c)
<1>1. CASE peer' = peer \/ \E keep \in BOOLEAN :
                              peer' = [peer EXCEPT ![c] = IF keep THEN @ ELSE None]
  BY <1>1 DEF PeerEffect, SessionOK
<1>2. CASE peer' = [peer EXCEPT ![c] = None]
  BY <1>2 DEF PeerEffect, SessionOK
<1>3. CASE Call(c) \/ Other(c)
  BY <1>1, <1>3 DEF Call, Other, StartRead, StartMutation, StartTemporal,
     FinishTemporal, StartReattach, StartLaunch, StartStop, StartRecord, Start
<1>4. ASSUME NEW g \in Gens, Connect(c, g) PROVE PeerEffect(c)
  BY <1>4 DEF PeerEffect, Connect, SessionOK
<1>5. CASE Exit(c)
  BY <1>2, <1>5 DEF Exit
<1>6. CASE Step(c)
  <2>1. CASE \/ Claim(c) \/ Check(c) \/ Persist(c) \/ Outcome(c) \/ Note(c) \/ GiveUp(c)
             \/ Admit(c) \/ Previous(c) \/ Acquire(c) \/ Reconcile(c) \/ Recheck(c)
             \/ Expect(c) \/ \E g \in Gens : Prepare(c, g)
    BY <1>1, <2>1 DEF Claim, Check, Persist, Outcome, Note, GiveUp, Admit, Previous,
       Acquire, Reconcile, Recheck, Expect, Prepare
  <2>2. CASE Wire(c) \/ Reattach(c)
    BY <1>1, <2>2 DEF Wire, Reattach
  <2>3. CASE Resolve(c) \/ Spawn(c) \/ Undo(c)
    BY <1>1, <1>2, <2>3 DEF Resolve, Spawn, Undo
  <2>4. CASE \/ BeforeSignal(c) \/ Signal(c) \/ Ready(c) \/ Commit(c) \/ Clean(c)
             \/ StopLease(c) \/ StopIntent(c) \/ StopSignal(c) \/ StopRecord(c)
             \/ Create(c) \/ Arm(c) \/ Dispatch(c) \/ Close(c)
    BY <1>1, <2>4 DEF BeforeSignal, Signal, Ready, Commit, Clean, StopLease,
       StopIntent, StopSignal, StopRecord, Create, Arm, Dispatch, Close
  <2> QED BY <1>6, <2>1, <2>2, <2>3, <2>4 DEF Step
<1> QED BY <1>3, <1>4, <1>5, <1>6 DEF Acts

\* A mutation without a lease is on the wire.
Unleased(r) == r.pc = "wire" /\ r.tool = "mutate" /\ r.gen = None

LEMMA GotoUnleased ==
    ASSUME RunOK, NEW c \in Controllers, NEW label \in Labels, Goto(c, label),
           label # "wire" \/ run[c].gen # None
    PROVE  ~Unleased(run'[c])
BY GotoFacts DEF Unleased

LEMMA ReturnUnleased ==
    ASSUME RunOK, NEW c \in Controllers, Return(c)
    PROVE  ~Unleased(run'[c])
BY ReturnFacts DEF Unleased, Idle

LEMMA ResumeUnleased ==
    ASSUME TypeInv, NEW c \in Controllers, Resume(c) \/ Reconciled(c) \/ Refused(c)
    PROVE  ~Unleased(run'[c])
<1>1. RunOK /\ current \in Gens \cup {None} /\ {"admit", "close", "reconcile", "create", "recheck"} \subseteq Labels
  BY TypeSplit DEF TypeInv, FilesOK, Labels
<1>2. CASE GotoWith(c, "reconcile", current)
  BY <1>1, <1>2, RegenFacts DEF Unleased
<1>3. CASE Return(c)
  BY <1>1, <1>3, ReturnUnleased
<1>4. CASE \E label \in {"admit", "close", "create", "recheck"} : Goto(c, label)
  BY <1>1, <1>4, GotoUnleased
<1> QED BY <1>2, <1>3, <1>4 DEF Resume, Reconciled, Refused

\* No step within a tool sends a mutation without a lease.
LEMMA StepUnleased ==
    ASSUME TypeInv, NEW c \in Controllers, Step(c)
    PROVE  ~Unleased(run'[c])
<1>0. RunOK /\ InHand(c) /\ current \in Gens \cup {None}
  BY TypeSplit DEF TypeInv, FilesOK
<1>1. CASE Return(c)
  BY <1>0, <1>1, ReturnUnleased
<1>2. CASE Resume(c) \/ Reconciled(c) \/ Refused(c)
  BY <1>2, ResumeUnleased
<1>3. ASSUME NEW label \in Labels \ {"wire"}, Goto(c, label) PROVE ~Unleased(run'[c])
  BY <1>0, <1>3, GotoUnleased
<1>4. ASSUME NEW label \in Labels \ {"wire"}, NEW g \in Gens \cup {None}, GotoWith(c, label, g)
      PROVE  ~Unleased(run'[c])
  BY <1>0, <1>4, RegenFacts DEF Unleased
<1>5. CASE Goto(c, "wire") /\ run[c].gen # None
  BY <1>0, <1>5, GotoUnleased DEF Labels
<1>6. CASE Check(c) \/ Reattach(c) \/ Dispatch(c)
  <2>1. run[c].gen # None
    BY <1>0, <1>6 DEF Check, Reattach, Dispatch, At, InHand
  <2> QED BY <1>1, <1>2, <1>3, <1>5, <1>6, <2>1 DEF Check, Reattach, Dispatch, Labels
<1>7. CASE Claim(c) \/ Persist(c) \/ Wire(c) \/ Outcome(c) \/ Note(c)
  BY <1>0, <1>1, <1>2, <1>3, <1>4, <1>7 DEF Claim, Persist, Wire, Outcome, Note, Labels
<1>8. CASE GiveUp(c) \/ Admit(c) \/ Previous(c) \/ Acquire(c) \/ Reconcile(c)
           \/ Resolve(c) \/ Recheck(c)
  BY SMTT(40), <1>0, <1>1, <1>2, <1>3, <1>4, <1>8
     DEF GiveUp, Admit, Previous, Acquire, Reconcile, Resolve, Recheck, Labels
<1>9. CASE Expect(c)
  BY <1>0, <1>9, ExpectFacts DEF Expect, Unleased, Labels
<1>10. ASSUME NEW g \in Gens, Prepare(c, g) PROVE ~Unleased(run'[c])
  BY <1>0, <1>10, PrepareFacts DEF Unleased
<1>11. CASE BeforeSignal(c) \/ Signal(c) \/ Spawn(c) \/ Ready(c) \/ Undo(c)
            \/ Commit(c) \/ Clean(c)
  BY <1>1, <1>3, <1>11
     DEF BeforeSignal, Signal, Spawn, Ready, Undo, Commit, Clean, Abort, Labels
<1>12. CASE StopLease(c) \/ StopIntent(c) \/ StopSignal(c) \/ StopRecord(c)
            \/ Create(c) \/ Arm(c) \/ Close(c)
  BY <1>1, <1>3, <1>12
     DEF StopLease, StopIntent, StopSignal, StopRecord, Create, Arm, Close, Labels
<1> QED BY <1>6, <1>7, <1>8, <1>9, <1>10, <1>11, <1>12 DEF Step

\* It is sent by the tool that starts with it, or it was on the wire before.
LEMMA UnleasedSteps ==
    ASSUME TypeInv, NEW c \in Controllers, Acts(c), Unleased(run'[c])
    PROVE  \/ StartMutation(c) /\ ~Bound(c)
           \/ run'[c] = run[c] /\ (peer[c] # None => peer'[c] = peer[c])
<1>0. RunOK /\ current \in Gens \cup {None}
  BY TypeSplit DEF TypeInv, FilesOK
<1>1. ASSUME NEW tool, NEW label \in Labels, NEW g \in Gens \cup {None},
             Start(c, tool, label, g), tool # "mutate" \/ label # "wire"
      PROVE  FALSE
  BY <1>0, <1>1, StartFacts DEF Unleased
<1>2. CASE Other(c)
  BY <1>0, <1>1, <1>2 DEF Other, StartReattach, StartLaunch, StartStop, StartRecord, Labels
<1>3. CASE Call(c)
  BY <1>0, <1>1, <1>3 DEF Call, StartRead, StartMutation, StartTemporal, FinishTemporal, Labels
<1>4. CASE Exit(c)
  BY <1>0, <1>4 DEF Exit, RunOK, Unleased, Idle
<1>5. CASE \E g \in Gens : Connect(c, g)
  BY <1>5 DEF Connect
<1> QED BY <1>2, <1>3, <1>4, <1>5, StepUnleased DEF Acts

LEMMA HistStep == HistInv /\ [Next]_vars => HistInv'
<1> SUFFICES ASSUME HistInv, [Next]_vars PROVE HistInv'
  OBVIOUS
<1>0. IInv /\ IInv' /\ TypeInv /\ SessionOK /\ \A d \in Controllers : Unlisted(d)
  BY InvStep, TypeSplit DEF HistInv, IInv, TypeInv
<1>1. \A g \in Gens : owned[g] # {} /\ g \notin generations => g \notin generations'
  BY <1>0, NoneRevived
<1>2. ASSUME NEW c \in Controllers, Acts(c) PROVE HistInv'
  <2>1. StepOK(c) /\ PeerEffect(c)
    BY <1>0, <1>2, ActsOK, PeerSteps
  <2>2. \A g \in Gens : owned[g] # {} => owned'[g] # {}
    BY <2>1 DEF StepOK, HostEffects
  <2>3. ASSUME NEW d \in Controllers \ {c} PROVE Unlisted(d)'
    <3>1. peer'[d] = peer[d] /\ run'[d] = run[d] /\ peer[d] \in Gens \cup {None}
      BY <1>0, <2>1 DEF StepOK, OthersKept, PeerEffect, SessionOK
    <3> QED BY <1>0, <1>1, <2>2, <3>1 DEF Unlisted
  <2>4. (peer'[c] # None => owned[peer'[c]] # {}) /\ peer[c] \in Gens \cup {None}
    BY <1>0, <2>1 DEF PeerEffect, Connect, Unlisted, SessionOK, IInv, Unborn
  <2>5. peer'[c] # None => owned'[peer'[c]] # {}
    <3>1. peer'[c] \in Gens \cup {None}
      BY <2>1, TypeSplit DEF StepOK, SessionOK
    <3> QED BY <2>2, <2>4, <3>1
  <2>6. ASSUME c \in Relayed, Unleased(run'[c])
        PROVE  peer'[c] # None /\ peer'[c] \notin generations'
    <3>1. CASE StartMutation(c) /\ ~Bound(c)
      <4>1. ~LookupFails(c) /\ Exclusive(c) /\ UNCHANGED <<files, host, session>>
        BY <3>1 DEF StartMutation, Start
      <4> QED BY <2>6, <3>1, <4>1 DEF LookupFails, Exclusive, Bound
    <3>2. CASE run'[c] = run[c] /\ (peer[c] # None => peer'[c] = peer[c])
      <4>1. peer[c] # None /\ peer[c] \notin generations /\ owned[peer[c]] # {}
        BY <1>0, <2>6, <3>2 DEF Unlisted, Unleased
      <4>2. peer'[c] = peer[c]
        BY <3>2, <4>1
      <4> QED BY <1>1, <2>4, <4>1, <4>2
    <3> QED BY <1>0, <1>2, <2>6, <3>1, <3>2, UnleasedSteps
  <2>7. Unlisted(c)'
    BY <2>5, <2>6 DEF Unlisted, Unleased
  <2> QED BY <1>0, <2>3, <2>7 DEF HistInv
<1>3. ASSUME NEW g \in Gens, NEW p \in procs[g], ProcessExits(g, p) PROVE HistInv'
  BY <1>0, <1>3 DEF HistInv, ProcessExits, Unlisted
<1>4. CASE UNCHANGED vars
  BY <1>0, <1>4 DEF HistInv, vars, Unlisted
<1> QED BY <1>2, <1>3, <1>4, StepCases

\* A broker's controller sends no mutation to a generation that the store
\* keeps and that is not current, whatever is launched, published or removed
\* while the call is on its way.
THEOREM HistoryIsUntouched == Spec => []HistoryUntouched
<1>1. Init => HistInv
  BY InitInv DEF HistInv, Init, Unlisted, Idle
<1>2. HistInv => HistoryUntouched
  BY DEF HistInv, Unlisted, HistoryUntouched
<1> QED BY <1>1, <1>2, HistStep, PTL DEF Spec
=============================================================================
