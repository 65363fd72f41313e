--------------------------- MODULE Broker_proofs ---------------------------
(***************************************************************************)
(* Proofs about the broker, for any number of emulators, frontends, names, *)
(* launches and requests and any capacity of the queues.                   *)
(***************************************************************************)
EXTENDS Broker, SequenceTheorems, FiniteSetTheorems, WellFoundedInduction, TLAPS

-----------------------------------------------------------------------------
(* The response fence, for every width of the two fields.                  *)

\* The quotient and the remainder of a number written in base n.
LEMMA Digits ==
    ASSUME NEW n \in Nat, n > 0, NEW a \in Nat, NEW b \in Nat, b < n
    PROVE  /\ (a * n + b) \div n = a
           /\ (a * n + b) % n = b
OBVIOUS

\* No generation has the field that marks an unstamped id, and every field
\* fits its bits.
LEMMA FieldRange ==
    ASSUME NEW g \in Nat
    PROVE  FenceGenField(g) \in 1 .. FieldSpace - 1
BY FenceAssumption DEF FenceGenField

LEMMA PackType ==
    ASSUME NEW g \in Nat, NEW i \in Nat
    PROVE  FencePack(g, i) \in Nat
<1>1. FenceGenField(g) \in Nat
  BY FieldRange, FenceAssumption
<1>2. i % IdSpace \in Nat
  BY FenceAssumption
<1> HIDE DEF FenceGenField
<1>3. FenceGenField(g) * IdSpace \in Nat
  BY <1>1, FenceAssumption
<1> QED BY <1>2, <1>3 DEF FencePack

\* A packed id gives back its field and, below 2^32, the number it was made
\* from (fence_pack, fence_gen and fence_orig are inverses).
THEOREM FenceRoundTrip ==
    ASSUME NEW g \in Nat, NEW i \in Nat, i < IdSpace
    PROVE  /\ FenceGen(FencePack(g, i)) = FenceGenField(g)
           /\ FenceOrig(FencePack(g, i)) = i
           /\ FenceRestore(FencePack(g, i)) = i
<1> DEFINE f == FenceGenField(g)
<1>1. f \in Nat /\ f > 0 /\ f < FieldSpace
  BY FieldRange, FenceAssumption
<1> HIDE DEF f
<1>2. i % IdSpace = i
  BY FenceAssumption
<1>3. FencePack(g, i) = f * IdSpace + i
  BY <1>2 DEF FencePack, f
<1>4. (f * IdSpace + i) \div IdSpace = f /\ (f * IdSpace + i) % IdSpace = i
  BY <1>1, Digits, FenceAssumption
<1>5. f % FieldSpace = f
  BY <1>1, FenceAssumption
<1>6. FenceGen(FencePack(g, i)) = f /\ FenceOrig(FencePack(g, i)) = i
  BY <1>3, <1>4, <1>5 DEF FenceGen, FenceOrig
<1> QED BY <1>1, <1>6 DEF FenceRestore, f

\* Two generations of one run of the counter, before it wraps the field, are
\* told apart by the fence.
THEOREM FenceSeparates ==
    ASSUME NEW g \in 1 .. FieldSpace - 1, NEW h \in 1 .. FieldSpace - 1,
           NEW i \in Nat, i < IdSpace,
           FenceAdmits(FencePack(g, i), h)
    PROVE  g = h
<1>1. FenceGen(FencePack(g, i)) = FenceGenField(g)
  BY FenceRoundTrip, FenceAssumption
<1>2. FenceGenField(g) # 0
  BY FieldRange, FenceAssumption
<1>3. FenceGenField(g) = FenceGenField(h)
  BY <1>1, <1>2 DEF FenceAdmits
<1>4. g % (FieldSpace - 1) = h % (FieldSpace - 1)
  BY <1>3, FenceAssumption DEF FenceGenField
<1> QED BY <1>4, FenceAssumption

-----------------------------------------------------------------------------
(* The broker.                                                              *)

USE BrokerAssumption, FenceAssumption
USE DEF registry, emulators, outbound, frontends

-----------------------------------------------------------------------------
(* Type correctness.                                                        *)

\* A thread that is past its critical section holds a name of the registry,
\* and only an occupied entry is paired: what TypeOK needs to be inductive.
Named ==
    /\ \A s \in Sessions :
        phase[s] \in {"attached", "reading", "encoding", "ending"} => name[s] \in Keys
    /\ \A p \in Producers : pphase[p] = "serving" => my_name[p] \in Keys
    /\ \A k \in Keys : session[k] # None => conn[k] # None

TypeInv == TypeOK /\ Named

\* Enqueueing keeps the type and the bound of a queue.
LEMMA EnqueueType ==
    ASSUME OutboundOK, NEW p \in Producers, NEW lines \in Seq(Frames), Enqueue(p, lines)
    PROVE  OutboundOK'
<1> USE DEF OutboundOK
<1>1. Room(p) \in Nat /\ Len(queue[p]) + Room(p) <= QueueFrames
  BY DEF Room
<1>2. CASE Len(lines) <= Room(p)
  BY <1>1, <1>2 DEF Enqueue
<1>3. CASE Len(lines) > Room(p)
  <2>1. SubSeq(lines, 1, Room(p)) \in Seq(Frames)
         /\ Len(SubSeq(lines, 1, Room(p))) = Room(p)
    BY <1>1, <1>3
  <2> QED BY <1>1, <1>3, <2>1 DEF Enqueue
<1> QED BY <1>1, <1>2, <1>3

LEMMA FrameTypes ==
    ASSUME NEW g \in Nat
    PROVE  AttachFrame(g) \in Frames /\ DetachFrame(g) \in Frames
BY DEF AttachFrame, DetachFrame, Frames

LEMMA PairLinesType ==
    ASSUME RegistryOK, NEW k \in Keys, NEW g \in Nat
    PROVE  PairLines(k, g) \in Seq(Frames)
<1>1. AttachFrame(g) \in Frames /\ DetachFrame(session_gen[k]) \in Frames
  BY FrameTypes DEF RegistryOK
<1> QED BY <1>1 DEF PairLines, LifecycleLines

\* The packed id of a request is a natural number.
LEMMA RequestType ==
    ASSUME FrontendsOK, NEW s \in Sessions
    PROVE  RequestFrame(s) \in Frames
<1>1. my_session_gen[s] \in Nat /\ sent[s] \in Nat
  BY DEF FrontendsOK
<1>2. FencePack(my_session_gen[s], sent[s]) \in Nat
  BY <1>1, PackType
<1> QED BY <1>1, <1>2 DEF RequestFrame, Frames

\* A producer answers under natural numbers.
LEMMA LinesType ==
    ASSUME OutboundOK, NEW p \in Producers, NEW l \in ProducerLines(p)
    PROVE  l.id \in Nat /\ l.by \in Sessions \cup {None}
<1>1. CASE l = [id |-> 0, by |-> None]
  BY <1>1
<1>2. CASE l # [id |-> 0, by |-> None]
  <2>1. PICK i \in 1 .. Len(wire[p]) : l = [id |-> wire[p][i].id, by |-> wire[p][i].by]
    BY <1>2 DEF ProducerLines
  <2>2. wire[p][i] \in Frames
    BY DEF OutboundOK
  <2> QED BY <2>1, <2>2 DEF Frames
<1> QED BY <1>1, <1>2

\* The fence restores natural numbers.
LEMMA RestoreType ==
    ASSUME NEW i \in Nat
    PROVE  FenceRestore(i) \in Nat
BY DEF FenceRestore, FenceOrig

LEMMA StopType ==
    ASSUME OutboundOK, NEW p \in Producers, StopWriter(p)
    PROVE  OutboundOK'
BY DEF OutboundOK, StopWriter

LEMMA TypeInit == Init => TypeInv
BY DEF Init, TypeInv, TypeOK, RegistryOK, EmulatorsOK, OutboundOK, FrontendsOK,
       Named, NoTarget

\* Every step keeps the type invariant.
LEMMA TypeStep == TypeInv /\ [Next]_vars => TypeInv'
<1> SUFFICES ASSUME TypeInv, [Next]_vars PROVE TypeInv'
  OBVIOUS
<1> USE DEF TypeInv, TypeOK
<1>1. ASSUME NEW p \in Producers, WriterRecv(p) PROVE TypeInv'
  <2>1. Head(queue[p]) \in Frames /\ Tail(queue[p]) \in Seq(Frames)
         /\ Len(Tail(queue[p])) <= QueueFrames
    BY <1>1 DEF WriterRecv, OutboundOK
  <2>2. OutboundOK'
    BY <1>1, <2>1 DEF WriterRecv, OutboundOK
  <2> QED BY <1>1, <2>2 DEF WriterRecv, RegistryOK, EmulatorsOK, FrontendsOK, Named
<1>2. ASSUME NEW p \in Producers, WriterWrite(p) PROVE TypeInv'
  <2>1. inflight[p][1] \in Frames
    BY <1>2 DEF WriterWrite, OutboundOK
  <2>2. OutboundOK'
    BY <1>2, <2>1 DEF WriterWrite, OutboundOK
  <2> QED BY <1>2, <2>2 DEF WriterWrite, RegistryOK, EmulatorsOK, FrontendsOK, Named
<1>3. ASSUME NEW p \in Producers, WriterFail(p) PROVE TypeInv'
  <2>1. OutboundOK'
    BY <1>3, StopType DEF WriterFail
  <2> QED BY <1>3, <2>1 DEF WriterFail, RegistryOK, EmulatorsOK, FrontendsOK, Named
<1>4. ASSUME NEW p \in Producers, Register(p) PROVE TypeInv'
  <2>1. RegistryOK' /\ EmulatorsOK'
    BY <1>4 DEF Register, RegistryOK, EmulatorsOK
  <2>2. OutboundOK' /\ FrontendsOK'
    BY <1>4 DEF Register, OutboundOK, FrontendsOK
  <2>3. Named'
    BY <1>4 DEF Register, Named, RegistryOK, EmulatorsOK
  <2> QED BY <2>1, <2>2, <2>3
<1>5. ASSUME NEW p \in Producers, RefuseRegistration(p) PROVE TypeInv'
  BY <1>5 DEF RefuseRegistration, RegistryOK, EmulatorsOK, OutboundOK, FrontendsOK, Named
<1>6. ASSUME NEW p \in Producers, ReadLine(p) PROVE TypeInv'
  <2>1. PICK l \in ProducerLines(p) :
            target' = [target EXCEPT ![p] =
                        [sess |-> session[my_name[p]], gen |-> session_gen[my_name[p]],
                         id |-> l.id, by |-> l.by]]
    BY <1>6 DEF ReadLine
  <2>2. l.id \in Nat /\ l.by \in Sessions \cup {None}
    BY LinesType
  <2>3. my_name[p] \in Keys
    BY <1>6 DEF ReadLine, Named
  <2>4. EmulatorsOK'
    BY <1>6, <2>1, <2>2, <2>3 DEF ReadLine, EmulatorsOK, RegistryOK
  <2> QED BY <1>6, <2>4 DEF ReadLine, RegistryOK, OutboundOK, FrontendsOK, Named
<1>7. ASSUME NEW p \in Producers, ForwardLine(p) PROVE TypeInv'
  <2>1. FenceRestore(target[p].id) \in Nat
    BY RestoreType DEF EmulatorsOK
  <2>2. EmulatorsOK'
    BY <1>7 DEF ForwardLine, EmulatorsOK, NoTarget
  <2>3. live' \subseteq Sessions
    BY <1>7 DEF ForwardLine, FrontendsOK
  <2>4. delivered' \subseteq [to : Sessions, id : Nat, by : Sessions \cup {None}]
    BY <1>7, <2>1 DEF ForwardLine, FrontendsOK, EmulatorsOK
  <2> QED BY <1>7, <2>2, <2>3, <2>4
        DEF ForwardLine, RegistryOK, OutboundOK, FrontendsOK, Named
<1>8. ASSUME NEW p \in Producers, ProducerCrash(p) PROVE TypeInv'
  BY <1>8 DEF ProducerCrash, RegistryOK, EmulatorsOK, OutboundOK, FrontendsOK, Named
<1>9. ASSUME NEW p \in Producers, ProducerEof(p) PROVE TypeInv'
  <2>0. my_name[p] \in Keys
    BY <1>9 DEF ProducerEof, Named
  <2>1. OutboundOK'
    BY <1>9, StopType DEF ProducerEof
  <2>2. RegistryOK' /\ EmulatorsOK'
    <3>1. EmulatorsOK'
      BY <1>9 DEF ProducerEof, EmulatorsOK
    <3>2. UNCHANGED <<anon, next_gen>>
      BY <1>9 DEF ProducerEof
    <3>3. CASE gen[my_name[p]] = my_gen[p]
      <4>1. gen' = [gen EXCEPT ![my_name[p]] = 0]
             /\ session_gen' = [session_gen EXCEPT ![my_name[p]] = 0]
        BY <1>9, <3>3 DEF ProducerEof
      <4>2. gen' \in [Keys -> Nat] /\ session_gen' \in [Keys -> Nat]
        BY <4>1 DEF RegistryOK
      <4>3. conn' \in [Keys -> Producers \cup {None}]
             /\ session' \in [Keys -> Sessions \cup {None}]
        BY <1>9, <3>3 DEF ProducerEof, RegistryOK
      <4> QED BY <3>1, <3>2, <4>2, <4>3 DEF RegistryOK
    <3>4. CASE gen[my_name[p]] # my_gen[p]
      BY <1>9, <3>1, <3>2, <3>4 DEF ProducerEof, RegistryOK
    <3> QED BY <3>1, <3>3, <3>4
  <2>3. delivered' \subseteq [to : Sessions, id : Nat, by : Sessions \cup {None}]
    BY <1>9 DEF ProducerEof, FrontendsOK
  <2>4. FrontendsOK'
    BY <1>9, <2>3 DEF ProducerEof, FrontendsOK
  <2>5. Named'
    BY <1>9, <2>0 DEF ProducerEof, Named, RegistryOK, EmulatorsOK
  <2> QED BY <2>1, <2>2, <2>4, <2>5
<1>10. ASSUME NEW s \in Sessions, AttachRefused(s) PROVE TypeInv'
  <2>1. next_gen' \in Nat
    BY <1>10 DEF AttachRefused, RegistryOK
  <2>2. FrontendsOK'
    BY <1>10 DEF AttachRefused, FrontendsOK
  <2>3. Named'
    BY <1>10 DEF AttachRefused, Named, FrontendsOK
  <2> QED BY <1>10, <2>1, <2>2, <2>3
        DEF AttachRefused, RegistryOK, EmulatorsOK, OutboundOK
<1>11. ASSUME NEW s \in Sessions, Attach(s) PROVE TypeInv'
  <2>1. PICK k \in Occupied :
            LET g == next_gen + 1
                ok == Len(PairLines(k, g)) <= Room(conn[k])
            IN
            /\ Enqueue(conn[k], PairLines(k, g))
            /\ session' = [session EXCEPT ![k] = IF ok THEN s ELSE None]
            /\ session_gen' = [session_gen EXCEPT ![k] = IF ok THEN g ELSE @]
            /\ phase' = [phase EXCEPT ![s] = IF ok THEN "attached" ELSE "closed"]
            /\ name' = [name EXCEPT ![s] = k]
            /\ registration' = [registration EXCEPT ![s] = gen[k]]
            /\ my_session_gen' = [my_session_gen EXCEPT ![s] = IF ok THEN g ELSE 0]
            /\ live' = live \ (IF ok THEN {session[k]} ELSE {session[k], s})
    BY <1>11 DEF Attach, Pick
  <2>2. k \in Keys /\ conn[k] \in Producers /\ next_gen + 1 \in Nat
    BY DEF Occupied, RegistryOK
  <2>3. OutboundOK'
    BY <2>1, <2>2, EnqueueType, PairLinesType
  <2>4. RegistryOK'
    BY <1>11, <2>1, <2>2 DEF Attach, RegistryOK
  <2>5. FrontendsOK'
    BY <1>11, <2>1, <2>2 DEF Attach, FrontendsOK, RegistryOK
  <2>6. EmulatorsOK'
    BY <1>11 DEF Attach, EmulatorsOK
  <2>7. Named'
    BY <1>11, <2>1, <2>2 DEF Attach, Named, FrontendsOK, RegistryOK
  <2> QED BY <2>3, <2>4, <2>5, <2>6, <2>7
<1>12. ASSUME NEW s \in Sessions, AttachReply(s) PROVE TypeInv'
  <2>1. FrontendsOK'
    BY <1>12 DEF AttachReply, FrontendsOK
  <2>2. Named'
    BY <1>12 DEF AttachReply, Named, FrontendsOK
  <2> QED BY <1>12, <2>1, <2>2 DEF AttachReply, RegistryOK, EmulatorsOK, OutboundOK
<1>13. ASSUME NEW s \in Sessions, AttachReplyFails(s) PROVE TypeInv'
  BY <1>13 DEF AttachReplyFails, Moves, RegistryOK, EmulatorsOK, OutboundOK, FrontendsOK,
              Named
<1>14. ASSUME NEW s \in Sessions, FrontendClose(s) PROVE TypeInv'
  BY <1>14 DEF FrontendClose, RegistryOK, EmulatorsOK, OutboundOK, FrontendsOK, Named
<1>15. ASSUME NEW s \in Sessions, ReadRequest(s) PROVE TypeInv'
  <2>1. FrontendsOK'
    BY <1>15 DEF ReadRequest, Moves, FrontendsOK
  <2>2. Named'
    BY <1>15 DEF ReadRequest, Moves, Named, FrontendsOK
  <2> QED BY <1>15, <2>1, <2>2 DEF ReadRequest, Moves, RegistryOK, EmulatorsOK, OutboundOK
<1>16. ASSUME NEW s \in Sessions, EnqueueRequest(s) PROVE TypeInv'
  <2>1. name[s] \in Keys
    BY <1>16 DEF EnqueueRequest, Named
  <2>2. Paired(s) => conn[name[s]] \in Producers
    BY <2>1 DEF Paired, Named, RegistryOK
  <2>3. <<RequestFrame(s)>> \in Seq(Frames)
    BY RequestType
  <2>4. OutboundOK'
    <3>1. CASE Paired(s)
      BY <1>16, <3>1, <2>2, <2>3, EnqueueType DEF EnqueueRequest
    <3>2. CASE ~Paired(s)
      BY <1>16, <3>2 DEF EnqueueRequest, OutboundOK
    <3> QED BY <3>1, <3>2
  <2>5. FrontendsOK'
    BY <1>16 DEF EnqueueRequest, FrontendsOK
  <2>6. Named'
    BY <1>16, <2>1 DEF EnqueueRequest, Named, FrontendsOK
  <2> QED BY <1>16, <2>4, <2>5, <2>6 DEF EnqueueRequest, RegistryOK, EmulatorsOK
<1>17. ASSUME NEW s \in Sessions, SessionEof(s) PROVE TypeInv'
  BY <1>17 DEF SessionEof, Moves, RegistryOK, EmulatorsOK, OutboundOK, FrontendsOK, Named
<1>18. ASSUME NEW s \in Sessions, RefuseRequest(s) PROVE TypeInv'
  BY <1>18 DEF RefuseRequest, Moves, RegistryOK, EmulatorsOK, OutboundOK, FrontendsOK, Named
<1>19. ASSUME NEW s \in Sessions, DetachSession(s) PROVE TypeInv'
  <2>1. name[s] \in Keys
    BY <1>19 DEF DetachSession, Named
  <2>2. Paired(s) => conn[name[s]] \in Producers
    BY <2>1 DEF Paired, Named, RegistryOK
  <2>3. LifecycleLines(conn[name[s]], <<DetachFrame(my_session_gen[s])>>) \in Seq(Frames)
    BY FrameTypes DEF LifecycleLines, FrontendsOK
  <2>4. OutboundOK'
    <3>1. CASE Paired(s)
      BY <1>19, <3>1, <2>2, <2>3, EnqueueType DEF DetachSession
    <3>2. CASE ~Paired(s)
      BY <1>19, <3>2 DEF DetachSession, OutboundOK
    <3> QED BY <3>1, <3>2
  <2>5. FrontendsOK' /\ RegistryOK'
    BY <1>19, <2>1 DEF DetachSession, FrontendsOK, RegistryOK
  <2>6. Named'
    BY <1>19, <2>1 DEF DetachSession, Named, FrontendsOK, RegistryOK
  <2> QED BY <1>19, <2>4, <2>5, <2>6 DEF DetachSession, EmulatorsOK
<1>20. CASE UNCHANGED vars
  BY <1>20 DEF vars, RegistryOK, EmulatorsOK, OutboundOK, FrontendsOK, Named
<1> QED
  BY <1>1, <1>2, <1>3, <1>4, <1>5, <1>6, <1>7, <1>8, <1>9, <1>10, <1>11, <1>12, <1>13,
     <1>14, <1>15, <1>16, <1>17, <1>18, <1>19, <1>20
     DEF Next, WriterStep, ProducerStep, SessionStep

\* In every reachable state every variable has its type, no outbound queue
\* exceeds its capacity and no writer holds more than one line.
THEOREM TypeCorrect == Spec => []TypeOK
<1>1. Spec => []TypeInv
  BY TypeInit, TypeStep, PTL DEF Spec
<1>2. TypeInv => TypeOK
  BY DEF TypeInv
<1> QED BY <1>1, <1>2, PTL

-----------------------------------------------------------------------------
(* Responses reach the frontend that asked.                                 *)

\* A line that carries a payload carries the packed number of a request of
\* the session that the payload names.
Asked(id, by) ==
    by # None => /\ my_session_gen[by] # 0
                 /\ \E n \in 1 .. sent[by] : id = FencePack(my_session_gen[by], n)

\* No two sessions have the same generation.
GensOK ==
    /\ \A s \in Sessions : my_session_gen[s] <= next_gen
    /\ \A s, t \in Sessions :
        my_session_gen[s] # 0 /\ my_session_gen[s] = my_session_gen[t] => s = t
    /\ \A s \in Sessions : phase[s] = "new" => my_session_gen[s] = 0
    /\ \A s \in Sessions : phase[s] \in {"attached", "reading", "encoding", "ending"} =>
        my_session_gen[s] # 0
    /\ \A s \in Sessions : phase[s] = "encoding" => sent[s] > 0

\* The registry records a session under its own generation.
PairingOK ==
    \A k \in Keys : session[k] # None =>
        session_gen[k] = my_session_gen[session[k]] /\ session_gen[k] # 0

FramesOK ==
    \A p \in Producers :
        /\ \A i \in 1 .. Len(queue[p]) : Asked(queue[p][i].id, queue[p][i].by)
        /\ \A i \in 1 .. Len(inflight[p]) : Asked(inflight[p][i].id, inflight[p][i].by)
        /\ \A i \in 1 .. Len(wire[p]) : Asked(wire[p][i].id, wire[p][i].by)

\* The reader thread forwards with the generation of the session it holds,
\* even after the registry has paired the emulator with another.
TargetOK ==
    \A p \in Producers :
        /\ target[p].sess # None =>
            target[p].gen = my_session_gen[target[p].sess] /\ target[p].gen # 0
        /\ Asked(target[p].id, target[p].by)

AskInv == GensOK /\ PairingOK /\ FramesOK /\ TargetOK /\ ResponseToAsker

\* Every line in the system stays an answerable one: a session keeps its
\* generation once it has one, and never takes a request back.
Grows ==
    /\ next_gen' >= next_gen
    /\ \A s \in Sessions :
        my_session_gen[s] # 0 => my_session_gen'[s] = my_session_gen[s]
    /\ \A s \in Sessions : sent'[s] >= sent[s]

LEMMA AskedGrows ==
    ASSUME TypeOK, TypeOK', Grows, NEW id \in Nat, NEW by \in Sessions \cup {None},
           Asked(id, by)
    PROVE  Asked(id, by)'
<1>1. CASE by = None
  BY <1>1 DEF Asked
<1>2. CASE by # None
  <2>1. PICK n \in 1 .. sent[by] : id = FencePack(my_session_gen[by], n)
    BY <1>2 DEF Asked
  <2>2. my_session_gen'[by] = my_session_gen[by] /\ my_session_gen[by] # 0
    BY <1>2 DEF Grows, Asked
  <2>3. n \in 1 .. sent'[by]
    BY <1>2 DEF Grows, TypeOK, FrontendsOK
  <2> QED BY <2>1, <2>2, <2>3 DEF Asked
<1> QED BY <1>1, <1>2

\* What a step keeps of the lines it does not touch.
LEMMA FramesGrow ==
    ASSUME TypeOK, TypeOK', Grows, FramesOK, UNCHANGED <<queue, inflight, wire>>
    PROVE  FramesOK'
<1> SUFFICES ASSUME NEW p \in Producers
             PROVE  /\ \A i \in 1 .. Len(queue[p]) : Asked(queue[p][i].id, queue[p][i].by)'
                    /\ \A i \in 1 .. Len(inflight[p]) :
                        Asked(inflight[p][i].id, inflight[p][i].by)'
                    /\ \A i \in 1 .. Len(wire[p]) : Asked(wire[p][i].id, wire[p][i].by)'
  BY DEF FramesOK
<1>1. /\ \A i \in 1 .. Len(queue[p]) : queue[p][i] \in Frames
      /\ \A i \in 1 .. Len(inflight[p]) : inflight[p][i] \in Frames
      /\ \A i \in 1 .. Len(wire[p]) : wire[p][i] \in Frames
  BY DEF TypeOK, OutboundOK
<1> QED BY <1>1, AskedGrows DEF FramesOK, Frames

LEMMA TargetsGrow ==
    ASSUME TypeOK, TypeOK', Grows, TargetOK, UNCHANGED target
    PROVE  TargetOK'
<1> SUFFICES ASSUME NEW p \in Producers
             PROVE  /\ target[p].sess # None =>
                        target[p].gen = my_session_gen'[target[p].sess] /\ target[p].gen # 0
                    /\ Asked(target[p].id, target[p].by)'
  BY DEF TargetOK
<1>1. target[p].sess \in Sessions \cup {None} /\ target[p].id \in Nat
       /\ target[p].by \in Sessions \cup {None}
  BY DEF TypeOK, EmulatorsOK
<1>2. Asked(target[p].id, target[p].by)'
  BY <1>1, AskedGrows DEF TargetOK
<1> QED BY <1>1, <1>2 DEF TargetOK, Grows

LEMMA DeliveredGrow ==
    ASSUME TypeOK, TypeOK', Grows, ResponseToAsker, UNCHANGED delivered
    PROVE  ResponseToAsker'
<1> SUFFICES ASSUME next_gen' < FieldSpace, NEW d \in delivered, d.by # None
             PROVE  d.by = d.to /\ d.id \in 1 .. sent'[d.to]
  BY DEF ResponseToAsker
<1>1. next_gen < FieldSpace
  BY DEF Grows, TypeOK, RegistryOK
<1>2. d.by = d.to /\ d.id \in 1 .. sent[d.to]
  BY <1>1 DEF ResponseToAsker
<1>3. d.to \in Sessions
  BY DEF TypeOK, FrontendsOK
<1>4. sent[d.to] \in Nat /\ sent'[d.to] \in Nat /\ sent'[d.to] >= sent[d.to]
  BY <1>3 DEF Grows, TypeOK, FrontendsOK
<1> QED BY <1>2, <1>4

\* A step that enqueues answerable lines, all else in the queues unchanged.
LEMMA FramesEnqueue ==
    ASSUME TypeOK, TypeOK', Grows, FramesOK, NEW p \in Producers,
           NEW lines \in Seq(Frames), Enqueue(p, lines),
           \A i \in 1 .. Len(lines) : Asked(lines[i].id, lines[i].by)'
    PROVE  FramesOK'
<1>1. Room(p) \in Nat
  BY DEF Room, TypeOK, OutboundOK
<1> DEFINE added == IF Len(lines) <= Room(p) THEN lines ELSE SubSeq(lines, 1, Room(p))
<1>a. /\ added \in Seq(Frames)
      /\ Len(added) <= Len(lines)
      /\ \A j \in 1 .. Len(added) : added[j] = lines[j]
  <2>1. CASE Len(lines) <= Room(p)
    BY <2>1
  <2>2. CASE Len(lines) > Room(p)
    BY <1>1, <2>2
  <2> QED BY <1>1, <2>1, <2>2
<1>2. queue' = [queue EXCEPT ![p] = queue[p] \o added]
  BY DEF Enqueue
<1> HIDE DEF added
<1>3. UNCHANGED <<inflight, wire>>
  BY DEF Enqueue
<1> SUFFICES ASSUME NEW q \in Producers
             PROVE  /\ \A i \in 1 .. Len(queue'[q]) : Asked(queue[q][i].id, queue[q][i].by)'
                    /\ \A i \in 1 .. Len(inflight[q]) :
                        Asked(inflight[q][i].id, inflight[q][i].by)'
                    /\ \A i \in 1 .. Len(wire[q]) : Asked(wire[q][i].id, wire[q][i].by)'
  BY <1>3 DEF FramesOK
<1>4. /\ \A i \in 1 .. Len(queue[q]) : queue[q][i] \in Frames
      /\ \A i \in 1 .. Len(inflight[q]) : inflight[q][i] \in Frames
      /\ \A i \in 1 .. Len(wire[q]) : wire[q][i] \in Frames
  BY DEF TypeOK, OutboundOK
<1>5. /\ \A i \in 1 .. Len(inflight[q]) : Asked(inflight[q][i].id, inflight[q][i].by)'
      /\ \A i \in 1 .. Len(wire[q]) : Asked(wire[q][i].id, wire[q][i].by)'
  BY <1>3, <1>4, AskedGrows DEF FramesOK, Frames
<1>6. ASSUME NEW i \in 1 .. Len(queue'[q])
      PROVE  Asked(queue[q][i].id, queue[q][i].by)'
  <2>1. CASE i <= Len(queue[q]) /\ queue'[q][i] = queue[q][i]
    <3>1. Asked(queue[q][i].id, queue[q][i].by) /\ queue[q][i] \in Frames
      BY <2>1, <1>4 DEF FramesOK, TypeOK, OutboundOK
    <3> QED BY <3>1, <2>1, AskedGrows DEF Frames
  <2>2. CASE \E j \in 1 .. Len(lines) : queue'[q][i] = lines[j]
    BY <2>2
  <2>3. \/ i <= Len(queue[q]) /\ queue'[q][i] = queue[q][i]
        \/ \E j \in 1 .. Len(lines) : queue'[q][i] = lines[j]
    <3>1. CASE q # p
      BY <3>1, <1>2 DEF TypeOK, OutboundOK
    <3>2. CASE q = p
      <4>1. queue'[p] = queue[p] \o added /\ queue[p] \in Seq(Frames)
        BY <1>2 DEF TypeOK, OutboundOK
      <4>2. CASE i <= Len(queue[p])
        BY <3>2, <4>1, <4>2, <1>a
      <4>3. CASE i > Len(queue[p])
        <5>1. i - Len(queue[p]) \in 1 .. Len(added)
          BY <3>2, <4>1, <4>3, <1>a
        <5>2. queue'[q][i] = added[i - Len(queue[p])]
          BY <3>2, <4>1, <4>3, <1>a
        <5>3. i - Len(queue[p]) \in 1 .. Len(lines)
          BY <5>1, <1>a
        <5>4. queue'[q][i] = lines[i - Len(queue[p])]
          BY <5>1, <5>2, <1>a
        <5> QED BY <5>3, <5>4
      <4> QED BY <3>2, <4>1, <4>2, <4>3, <1>a
    <3> QED BY <3>1, <3>2
  <2> QED BY <2>1, <2>2, <2>3
<1> QED BY <1>5, <1>6

\* No step takes a generation or a request back.
LEMMA StepGrows ==
    ASSUME TypeInv, AskInv, [Next]_vars
    PROVE  Grows
<1> USE DEF Grows
<1>1. ASSUME NEW p \in Producers, WriterStep(p) \/ ProducerStep(p) PROVE Grows
  BY <1>1 DEF WriterStep, ProducerStep, WriterRecv, WriterWrite, WriterFail, Register,
       RefuseRegistration, ReadLine, ForwardLine, ProducerCrash, ProducerEof,
       TypeInv, TypeOK, RegistryOK, FrontendsOK
<1>2. ASSUME NEW s \in Sessions, AttachRefused(s) PROVE Grows
  BY <1>2 DEF AttachRefused, TypeInv, TypeOK, RegistryOK, FrontendsOK
<1>3. ASSUME NEW s \in Sessions, Attach(s) PROVE Grows
  <2>1. my_session_gen[s] = 0
    BY <1>3 DEF Attach, AskInv, GensOK
  <2>2. \A t \in Sessions : t # s => my_session_gen'[t] = my_session_gen[t]
    BY <1>3 DEF Attach, TypeInv, TypeOK, FrontendsOK
  <2>3. next_gen' >= next_gen /\ UNCHANGED sent
    BY <1>3 DEF Attach, TypeInv, TypeOK, RegistryOK
  <2> QED BY <2>1, <2>2, <2>3 DEF TypeInv, TypeOK, FrontendsOK
<1>4. ASSUME NEW s \in Sessions, ReadRequest(s) PROVE Grows
  BY <1>4 DEF ReadRequest, Moves, TypeInv, TypeOK, RegistryOK, FrontendsOK
<1>5. ASSUME NEW s \in Sessions, AttachReply(s) \/ AttachReplyFails(s) \/ FrontendClose(s)
                \/ EnqueueRequest(s) \/ SessionEof(s) \/ RefuseRequest(s) \/ DetachSession(s)
      PROVE  Grows
  <2>1. UNCHANGED <<next_gen, my_session_gen, sent>>
    BY <1>5 DEF AttachReply, AttachReplyFails, FrontendClose, EnqueueRequest, SessionEof,
         RefuseRequest, DetachSession, Moves
  <2> QED BY <2>1 DEF TypeInv, TypeOK, RegistryOK, FrontendsOK
<1>6. CASE UNCHANGED vars
  BY <1>6 DEF vars, TypeInv, TypeOK, RegistryOK, FrontendsOK
<1> QED BY <1>1, <1>2, <1>3, <1>4, <1>5, <1>6 DEF Next, SessionStep

LEMMA FramesStop ==
    ASSUME TypeOK, TypeOK', Grows, FramesOK, NEW p \in Producers, StopWriter(p)
    PROVE  FramesOK'
<1>1. /\ queue'[p] = << >> /\ inflight'[p] = << >> /\ UNCHANGED wire
      /\ \A q \in Producers : q # p => queue'[q] = queue[q] /\ inflight'[q] = inflight[q]
  BY DEF StopWriter, TypeOK, OutboundOK
<1>2. \A q \in Producers :
        /\ \A i \in 1 .. Len(queue[q]) : queue[q][i] \in Frames
        /\ \A i \in 1 .. Len(inflight[q]) : inflight[q][i] \in Frames
        /\ \A i \in 1 .. Len(wire[q]) : wire[q][i] \in Frames
  BY DEF TypeOK, OutboundOK
<1>3. \A q \in Producers :
        /\ \A i \in 1 .. Len(queue[q]) : Asked(queue[q][i].id, queue[q][i].by)'
             \/ q = p
        /\ \A i \in 1 .. Len(inflight[q]) : Asked(inflight[q][i].id, inflight[q][i].by)'
             \/ q = p
        /\ \A i \in 1 .. Len(wire[q]) : Asked(wire[q][i].id, wire[q][i].by)'
  BY <1>1, <1>2, AskedGrows DEF FramesOK, Frames
<1>4. ASSUME NEW q \in Producers
      PROVE  /\ \A i \in 1 .. Len(queue'[q]) : Asked(queue[q][i].id, queue[q][i].by)'
             /\ \A i \in 1 .. Len(inflight'[q]) : Asked(inflight[q][i].id, inflight[q][i].by)'
             /\ \A i \in 1 .. Len(wire'[q]) : Asked(wire[q][i].id, wire[q][i].by)'
  <2>1. \A i \in 1 .. Len(wire'[q]) : Asked(wire[q][i].id, wire[q][i].by)'
    BY <1>1, <1>3
  <2>2. CASE q = p
    <3>1. Len(queue'[q]) = 0 /\ Len(inflight'[q]) = 0
      BY <1>1, <2>2
    <3> QED BY <2>1, <3>1
  <2>3. CASE q # p
    <3>1. queue'[q] = queue[q] /\ inflight'[q] = inflight[q]
      BY <1>1, <2>3
    <3> QED BY <1>3, <2>1, <2>3, <3>1
  <2> QED BY <2>2, <2>3
<1> QED BY <1>4 DEF FramesOK

\* A line that a producer may send answers a request.
LEMMA LinesAsked ==
    ASSUME TypeOK, FramesOK, NEW p \in Producers, NEW l \in ProducerLines(p)
    PROVE  Asked(l.id, l.by)
<1>1. CASE l = [id |-> 0, by |-> None]
  BY <1>1 DEF Asked
<1>2. CASE l # [id |-> 0, by |-> None]
  <2>1. PICK i \in 1 .. Len(wire[p]) : l = [id |-> wire[p][i].id, by |-> wire[p][i].by]
    BY <1>2 DEF ProducerLines
  <2> QED BY <2>1 DEF FramesOK
<1> QED BY <1>1, <1>2

\* The fence lets an answer pass only to the session that asked, and gives
\* it the number of the request back.
LEMMA FenceToAsker ==
    ASSUME TypeOK, GensOK, next_gen < FieldSpace,
           NEW to \in Sessions, my_session_gen[to] # 0,
           NEW by \in Sessions, NEW id \in Nat, Asked(id, by),
           FenceAdmits(id, my_session_gen[to])
    PROVE  by = to /\ FenceRestore(id) \in 1 .. sent[to]
<1>1. PICK n \in 1 .. sent[by] : id = FencePack(my_session_gen[by], n)
  BY DEF Asked
<1>2. n \in Nat /\ n < IdSpace
  BY DEF TypeOK, FrontendsOK
<1>3. my_session_gen[by] \in 1 .. FieldSpace - 1 /\ my_session_gen[to] \in 1 .. FieldSpace - 1
  BY DEF Asked, GensOK, TypeOK, FrontendsOK, RegistryOK
<1>4. my_session_gen[by] = my_session_gen[to]
  BY <1>1, <1>2, <1>3, FenceSeparates
<1>5. by = to
  BY <1>4 DEF GensOK
<1>6. FenceRestore(id) = n
  BY <1>1, <1>2, <1>3, FenceRoundTrip
<1> QED BY <1>5, <1>6

LEMMA AskInit == Init => AskInv
BY DEF Init, AskInv, GensOK, PairingOK, FramesOK, TargetOK, ResponseToAsker, Asked, NoTarget

LEMMA AskStep ==
    ASSUME TypeInv, TypeInv', AskInv, [Next]_vars
    PROVE  AskInv'
<1>0. Grows
  BY StepGrows
<1>t. TypeOK /\ TypeOK'
  BY DEF TypeInv
<1> USE DEF AskInv
<1>1. ASSUME NEW p \in Producers, WriterRecv(p) PROVE AskInv'
  <2>1. GensOK' /\ PairingOK' /\ TargetOK' /\ ResponseToAsker'
    BY <1>0, <1>t, <1>1, TargetsGrow, DeliveredGrow DEF WriterRecv, GensOK, PairingOK
  <2>2. FramesOK'
    <3>1. queue[p] \in Seq(Frames) /\ queue[p] # << >>
      BY <1>1, <1>t DEF WriterRecv, TypeOK, OutboundOK
    <3>2. Asked(queue[p][1].id, queue[p][1].by)
      BY <3>1 DEF FramesOK
    <3>3. \A i \in 1 .. Len(Tail(queue[p])) : Tail(queue[p])[i] = queue[p][i + 1]
                                            /\ i + 1 \in 1 .. Len(queue[p])
      BY <3>1
    <3>4. inflight'[p] = <<queue[p][1]>> /\ queue'[p] = Tail(queue[p])
      BY <1>1, <1>t, <3>1 DEF WriterRecv, TypeOK, OutboundOK
    <3>5. \A q \in Producers : q # p => inflight'[q] = inflight[q] /\ queue'[q] = queue[q]
      BY <1>1, <1>t DEF WriterRecv, TypeOK, OutboundOK
    <3>6. UNCHANGED <<wire, my_session_gen, sent>>
      BY <1>1 DEF WriterRecv
    <3>7. \A id, by : Asked(id, by)' <=> Asked(id, by)
      BY <3>6 DEF Asked
    <3>8. ASSUME NEW q \in Producers
          PROVE  /\ \A i \in 1 .. Len(queue'[q]) : Asked(queue'[q][i].id, queue'[q][i].by)
                 /\ \A i \in 1 .. Len(inflight'[q]) :
                        Asked(inflight'[q][i].id, inflight'[q][i].by)
                 /\ \A i \in 1 .. Len(wire'[q]) : Asked(wire'[q][i].id, wire'[q][i].by)
      <4>1. CASE q = p
        <5>1. \A i \in 1 .. Len(wire'[p]) : Asked(wire'[p][i].id, wire'[p][i].by)
          BY <3>6 DEF FramesOK
        <5>2. \A i \in 1 .. Len(inflight'[p]) : Asked(inflight'[p][i].id, inflight'[p][i].by)
          <6>1. Len(inflight'[p]) = 1 /\ inflight'[p][1] = queue[p][1]
            BY <3>4
          <6> QED BY <6>1, <3>2
        <5>3. \A i \in 1 .. Len(queue'[p]) : Asked(queue'[p][i].id, queue'[p][i].by)
          BY <3>3, <3>4 DEF FramesOK
        <5> QED BY <4>1, <5>1, <5>2, <5>3
      <4>2. CASE q # p
        BY <4>2, <3>5, <3>6 DEF FramesOK
      <4> QED BY <4>1, <4>2
    <3> QED BY <3>7, <3>8 DEF FramesOK
  <2> QED BY <2>1, <2>2
<1>2. ASSUME NEW p \in Producers, WriterWrite(p) PROVE AskInv'
  <2>1. GensOK' /\ PairingOK' /\ TargetOK' /\ ResponseToAsker'
    BY <1>0, <1>t, <1>2, TargetsGrow, DeliveredGrow DEF WriterWrite, GensOK, PairingOK
  <2>2. FramesOK'
    <3>1. inflight[p] \in Seq(Frames) /\ inflight[p] # << >> /\ wire[p] \in Seq(Frames)
      BY <1>2, <1>t DEF WriterWrite, TypeOK, OutboundOK
    <3>2. Asked(inflight[p][1].id, inflight[p][1].by) /\ inflight[p][1] \in Frames
      BY <3>1 DEF FramesOK
    <3>3. inflight'[p] = << >> /\ wire'[p] \in {wire[p], Append(wire[p], inflight[p][1])}
      BY <1>2, <1>t DEF WriterWrite, TypeOK, OutboundOK
    <3>4. \A q \in Producers : q # p => inflight'[q] = inflight[q] /\ wire'[q] = wire[q]
      BY <1>2, <1>t DEF WriterWrite, TypeOK, OutboundOK
    <3>5. UNCHANGED <<queue, my_session_gen, sent>>
      BY <1>2 DEF WriterWrite
    <3>a. PICK f \in Frames : f = inflight[p][1]
      BY <3>2
    <3>b. PICK w \in Seq(Frames) : w = wire[p]
      BY <3>1
    <3>c. \A i \in 1 .. Len(Append(w, f)) : Append(w, f)[i] = f
                \/ (i \in 1 .. Len(w) /\ Append(w, f)[i] = w[i])
      OBVIOUS
    <3>6. \A i \in 1 .. Len(wire'[p]) : wire'[p][i] = inflight[p][1]
                \/ (i \in 1 .. Len(wire[p]) /\ wire'[p][i] = wire[p][i])
      <4>1. CASE wire'[p] = wire[p]
        BY <4>1
      <4>2. CASE wire'[p] = Append(wire[p], inflight[p][1])
        BY <4>2, <3>a, <3>b, <3>c
      <4> QED BY <3>3, <4>1, <4>2
    <3>7. \A id, by : Asked(id, by)' <=> Asked(id, by)
      BY <3>5 DEF Asked
    <3>8. ASSUME NEW q \in Producers
          PROVE  /\ \A i \in 1 .. Len(queue'[q]) : Asked(queue'[q][i].id, queue'[q][i].by)
                 /\ \A i \in 1 .. Len(inflight'[q]) :
                        Asked(inflight'[q][i].id, inflight'[q][i].by)
                 /\ \A i \in 1 .. Len(wire'[q]) : Asked(wire'[q][i].id, wire'[q][i].by)
      <4>1. CASE q = p
        <5>1. \A i \in 1 .. Len(queue'[p]) : Asked(queue'[p][i].id, queue'[p][i].by)
          BY <3>5 DEF FramesOK
        <5>2. \A i \in 1 .. Len(inflight'[p]) : Asked(inflight'[p][i].id, inflight'[p][i].by)
          BY <3>3
        <5>3. \A i \in 1 .. Len(wire'[p]) : Asked(wire'[p][i].id, wire'[p][i].by)
          BY <3>2, <3>6 DEF FramesOK
        <5> QED BY <4>1, <5>1, <5>2, <5>3
      <4>2. CASE q # p
        BY <4>2, <3>4, <3>5 DEF FramesOK
      <4> QED BY <4>1, <4>2
    <3> QED BY <3>7, <3>8 DEF FramesOK
  <2> QED BY <2>1, <2>2
<1>3. ASSUME NEW p \in Producers, WriterFail(p) PROVE AskInv'
  <2>1. GensOK' /\ PairingOK' /\ TargetOK' /\ ResponseToAsker'
    BY <1>0, <1>t, <1>3, TargetsGrow, DeliveredGrow DEF WriterFail, GensOK, PairingOK
  <2>2. FramesOK'
    BY <1>0, <1>t, <1>3, FramesStop DEF WriterFail
  <2> QED BY <2>1, <2>2
<1>4. ASSUME NEW p \in Producers, Register(p) PROVE AskInv'
  <2>1. FramesOK' /\ TargetOK' /\ ResponseToAsker'
    BY <1>0, <1>t, <1>4, FramesGrow, TargetsGrow, DeliveredGrow DEF Register
  <2>2. GensOK'
    BY <1>4, <1>t DEF Register, GensOK, TypeOK, RegistryOK, FrontendsOK
  <2>3. PairingOK'
    BY <1>4, <1>t DEF Register, PairingOK, TypeOK, RegistryOK
  <2> QED BY <2>1, <2>2, <2>3
<1>5. ASSUME NEW p \in Producers, RefuseRegistration(p) PROVE AskInv'
  BY <1>0, <1>t, <1>5, FramesGrow, TargetsGrow, DeliveredGrow
     DEF RefuseRegistration, GensOK, PairingOK
<1>6. ASSUME NEW p \in Producers, ReadLine(p) PROVE AskInv'
  <2>1. FramesOK' /\ ResponseToAsker' /\ GensOK' /\ PairingOK'
    BY <1>0, <1>t, <1>6, FramesGrow, DeliveredGrow DEF ReadLine, GensOK, PairingOK
  <2>2. my_name[p] \in Keys
    BY <1>6 DEF ReadLine, TypeInv, Named
  <2>3. PICK l \in ProducerLines(p) :
            target' = [target EXCEPT ![p] =
                        [sess |-> session[my_name[p]], gen |-> session_gen[my_name[p]],
                         id |-> l.id, by |-> l.by]]
    BY <1>6 DEF ReadLine
  <2>4. Asked(l.id, l.by)
    BY <1>t, LinesAsked
  <2>5. UNCHANGED <<my_session_gen, sent>> /\ session[my_name[p]] # None
    BY <1>6 DEF ReadLine
  <2>6. target'[p] = [sess |-> session[my_name[p]], gen |-> session_gen[my_name[p]],
                      id |-> l.id, by |-> l.by]
         /\ \A q \in Producers : q # p => target'[q] = target[q]
    BY <2>3, <1>t DEF TypeOK, EmulatorsOK
  <2>7. TargetOK'
    BY <2>2, <2>4, <2>5, <2>6 DEF TargetOK, PairingOK, Asked
  <2> QED BY <2>1, <2>7
<1>7. ASSUME NEW p \in Producers, ForwardLine(p) PROVE AskInv'
  <2>1. FramesOK' /\ GensOK' /\ PairingOK'
    BY <1>0, <1>t, <1>7, FramesGrow DEF ForwardLine, GensOK, PairingOK
  <2>2. TargetOK'
    BY <1>7, <1>t DEF ForwardLine, TargetOK, NoTarget, Asked, TypeOK, EmulatorsOK
  <2>3. ResponseToAsker'
    <3> SUFFICES ASSUME next_gen < FieldSpace, NEW d \in delivered', d.by # None
                 PROVE  d.by = d.to /\ d.id \in 1 .. sent[d.to]
      BY <1>7 DEF ForwardLine, ResponseToAsker
    <3>1. CASE d \in delivered
      BY <3>1 DEF ResponseToAsker
    <3>2. CASE d \notin delivered
      <4>1. /\ d = [to |-> target[p].sess, id |-> FenceRestore(target[p].id),
                    by |-> target[p].by]
            /\ FenceAdmits(target[p].id, target[p].gen)
            /\ target[p].sess \in live
        BY <1>7, <3>2 DEF ForwardLine
      <4>2. target[p].sess \in Sessions /\ target[p].id \in Nat /\ target[p].by \in Sessions
        BY <1>t, <4>1 DEF TypeOK, FrontendsOK, EmulatorsOK
      <4>3. target[p].gen = my_session_gen[target[p].sess] /\ target[p].gen # 0
             /\ Asked(target[p].id, target[p].by)
        BY <4>2 DEF TargetOK
      <4> QED BY <1>t, <4>1, <4>2, <4>3, FenceToAsker
    <3> QED BY <3>1, <3>2
  <2> QED BY <2>1, <2>2, <2>3
<1>8. ASSUME NEW p \in Producers, ProducerCrash(p) PROVE AskInv'
  BY <1>0, <1>t, <1>8, FramesGrow, TargetsGrow, DeliveredGrow
     DEF ProducerCrash, GensOK, PairingOK
<1>9. ASSUME NEW p \in Producers, ProducerEof(p) PROVE AskInv'
  <2>1. GensOK' /\ TargetOK'
    BY <1>0, <1>t, <1>9, TargetsGrow DEF ProducerEof, GensOK
  <2>2. FramesOK'
    BY <1>0, <1>t, <1>9, FramesStop DEF ProducerEof
  <2>3. PairingOK'
    BY <1>9, <1>t, ZenonT(60) DEF ProducerEof, PairingOK, TypeOK, RegistryOK
  <2>4. ResponseToAsker'
    BY <1>9 DEF ProducerEof, ResponseToAsker
  <2> QED BY <2>1, <2>2, <2>3, <2>4
<1>10. ASSUME NEW s \in Sessions, AttachRefused(s) PROVE AskInv'
  <2>1. FramesOK' /\ TargetOK' /\ ResponseToAsker' /\ PairingOK'
    BY <1>0, <1>t, <1>10, FramesGrow, TargetsGrow, DeliveredGrow DEF AttachRefused, PairingOK
  <2>2. GensOK'
    BY <1>10, <1>t DEF AttachRefused, GensOK, TypeOK, RegistryOK, FrontendsOK
  <2> QED BY <2>1, <2>2
<1>11. ASSUME NEW s \in Sessions, Attach(s) PROVE AskInv'
  <2>1. PICK k \in Occupied :
            LET g == next_gen + 1
                ok == Len(PairLines(k, g)) <= Room(conn[k])
            IN
            /\ Enqueue(conn[k], PairLines(k, g))
            /\ session' = [session EXCEPT ![k] = IF ok THEN s ELSE None]
            /\ session_gen' = [session_gen EXCEPT ![k] = IF ok THEN g ELSE @]
            /\ phase' = [phase EXCEPT ![s] = IF ok THEN "attached" ELSE "closed"]
            /\ my_session_gen' = [my_session_gen EXCEPT ![s] = IF ok THEN g ELSE 0]
    BY <1>11 DEF Attach, Pick
  <2>2. k \in Keys /\ conn[k] \in Producers /\ next_gen + 1 \in Nat
    BY <1>t DEF Occupied, TypeOK, RegistryOK
  <2>3. TargetOK' /\ ResponseToAsker'
    BY <1>0, <1>t, <1>11, TargetsGrow, DeliveredGrow DEF Attach
  <2>4. FramesOK'
    <3>1. PairLines(k, next_gen + 1) \in Seq(Frames)
      BY <1>t, <2>2, PairLinesType DEF TypeOK
    <3>2. PICK lines \in Seq(Frames) : lines = PairLines(k, next_gen + 1)
      BY <3>1
    <3>3. \A i \in 1 .. Len(lines) : lines[i].by = None
      BY <3>2 DEF PairLines, LifecycleLines, AttachFrame, DetachFrame
    <3>4. \A i \in 1 .. Len(lines) : Asked(lines[i].id, lines[i].by)'
      BY <3>3 DEF Asked
    <3>5. Enqueue(conn[k], lines)
      BY <2>1, <3>2
    <3>6. PICK p \in Producers : p = conn[k]
      BY <2>2
    <3> QED BY <1>0, <1>t, <3>4, <3>5, <3>6, FramesEnqueue
  <2>5. phase[s] = "new" /\ my_session_gen[s] = 0 /\ next_gen' = next_gen + 1
    BY <1>11 DEF Attach, GensOK
  <2>6. GensOK'
    <3>1. \/ my_session_gen'[s] = next_gen + 1 /\ phase'[s] = "attached"
          \/ my_session_gen'[s] = 0 /\ phase'[s] = "closed"
      <4>1. CASE Len(PairLines(k, next_gen + 1)) <= Room(conn[k])
        BY <1>t, <2>1, <4>1 DEF TypeOK, FrontendsOK
      <4>2. CASE ~(Len(PairLines(k, next_gen + 1)) <= Room(conn[k]))
        BY <1>t, <2>1, <4>2 DEF TypeOK, FrontendsOK
      <4> QED BY <4>1, <4>2
    <3>2. \A t \in Sessions : t # s => my_session_gen'[t] = my_session_gen[t]
                                     /\ phase'[t] = phase[t]
      BY <1>t, <2>1 DEF TypeOK, FrontendsOK
    <3>3. UNCHANGED sent
      BY <1>11 DEF Attach
    <3>4. next_gen \in Nat /\ \A t \in Sessions : my_session_gen[t] \in Nat
      BY <1>t DEF TypeOK, RegistryOK, FrontendsOK
    <3> QED BY <2>5, <3>1, <3>2, <3>3, <3>4 DEF GensOK
  <2>7. PairingOK'
    <3> SUFFICES ASSUME NEW j \in Keys, session'[j] # None
                 PROVE  session_gen'[j] = my_session_gen'[session'[j]] /\ session_gen'[j] # 0
      BY DEF PairingOK
    <3>1. CASE j = k
      BY <1>t, <2>1, <2>2, <3>1 DEF TypeOK, RegistryOK, FrontendsOK
    <3>2. CASE j # k
      <4>1. session'[j] = session[j] /\ session_gen'[j] = session_gen[j]
        BY <1>t, <2>1, <3>2 DEF TypeOK, RegistryOK
      <4>2. session[j] # s /\ session[j] \in Sessions
        BY <1>t, <2>5, <4>1 DEF PairingOK, TypeOK, RegistryOK
      <4>3. my_session_gen'[session[j]] = my_session_gen[session[j]]
        BY <1>t, <2>1, <4>2 DEF TypeOK, FrontendsOK
      <4> QED BY <4>1, <4>3 DEF PairingOK
    <3> QED BY <3>1, <3>2
  <2> QED BY <2>3, <2>4, <2>6, <2>7
<1>12. ASSUME NEW s \in Sessions,
              AttachReply(s) \/ AttachReplyFails(s) \/ FrontendClose(s) \/ ReadRequest(s)
                \/ SessionEof(s) \/ RefuseRequest(s)
       PROVE  AskInv'
  <2>1. UNCHANGED <<registry, outbound, target, my_session_gen, delivered>>
    BY <1>12 DEF AttachReply, AttachReplyFails, FrontendClose, ReadRequest, SessionEof,
         RefuseRequest, Moves
  <2>2. phase'[s] # "new" /\ \A t \in Sessions : t # s => phase'[t] = phase[t]
    BY <1>12, <1>t DEF AttachReply, AttachReplyFails, FrontendClose, ReadRequest, SessionEof,
         RefuseRequest, Moves, TypeOK, FrontendsOK
  <2>3. phase'[s] # "closed" => phase[s] \in {"attached", "reading", "encoding", "ending"}
    BY <1>12, <1>t DEF AttachReply, AttachReplyFails, FrontendClose, ReadRequest, SessionEof,
         RefuseRequest, Moves, TypeOK, FrontendsOK
  <2>4. /\ phase'[s] = "encoding" => sent'[s] > 0
        /\ \A t \in Sessions : t # s => sent'[t] = sent[t]
    <3>1. CASE ReadRequest(s)
      <4>1. /\ sent \in [Sessions -> 0 .. MaxReq]
            /\ sent' = [sent EXCEPT ![s] = sent[s] + 1]
        BY <1>t, <3>1 DEF ReadRequest, TypeOK, FrontendsOK
      <4> QED BY <4>1
    <3>2. CASE ~ReadRequest(s)
      <4>1. UNCHANGED sent
        BY <1>12, <3>2 DEF AttachReply, AttachReplyFails, FrontendClose, SessionEof,
             RefuseRequest, Moves, frontends
      <4>2. phase'[s] = "encoding" => phase[s] = "encoding"
        BY <1>12, <1>t, <3>2 DEF AttachReply, AttachReplyFails, FrontendClose, SessionEof,
             RefuseRequest, Moves, TypeOK, FrontendsOK, frontends
      <4> QED BY <4>1, <4>2 DEF GensOK, AskInv
    <3> QED BY <3>1, <3>2
  <2>5. GensOK' /\ PairingOK'
    BY <2>1, <2>2, <2>3, <2>4 DEF GensOK, PairingOK
  <2> QED BY <1>0, <1>t, <2>1, <2>5, FramesGrow, TargetsGrow, DeliveredGrow
<1>13. ASSUME NEW s \in Sessions, EnqueueRequest(s) PROVE AskInv'
  <2>1. TargetOK' /\ ResponseToAsker' /\ PairingOK'
    BY <1>0, <1>t, <1>13, TargetsGrow, DeliveredGrow DEF EnqueueRequest, PairingOK
  <2>2. GensOK'
    BY <1>13, <1>t DEF EnqueueRequest, GensOK, TypeOK, FrontendsOK
  <2>3. CASE Paired(s)
    <3>1. name[s] \in Keys /\ conn[name[s]] \in Producers
      BY <1>13, <1>t, <2>3 DEF EnqueueRequest, Paired, TypeInv, Named, TypeOK, RegistryOK
    <3>2. PICK f \in Frames : f = RequestFrame(s)
      BY <1>t, RequestType DEF TypeOK
    <3>3. Asked(f.id, f.by)'
      <4>1. my_session_gen[s] # 0 /\ UNCHANGED <<my_session_gen, sent>>
        BY <1>13 DEF EnqueueRequest, GensOK
      <4>2. sent[s] \in 1 .. sent[s]
        BY <1>13, <1>t DEF EnqueueRequest, GensOK, TypeOK, FrontendsOK
      <4> QED BY <3>2, <4>1, <4>2 DEF Asked, RequestFrame
    <3>4. FramesOK'
      <4>1. PICK p \in Producers : p = conn[name[s]]
        BY <3>1
      <4>a. <<f>> \in Seq(Frames)
        OBVIOUS
      <4>2. PICK lines \in Seq(Frames) : lines = <<f>>
        BY <4>a
      <4>3. Enqueue(p, lines)
        BY <1>13, <2>3, <3>2, <4>1, <4>2 DEF EnqueueRequest
      <4>4. \A i \in 1 .. Len(lines) : Asked(lines[i].id, lines[i].by)'
        BY <3>3, <4>2
      <4> QED BY <1>0, <1>t, <4>3, <4>4, FramesEnqueue
    <3> QED BY <2>1, <2>2, <3>4
  <2>4. CASE ~Paired(s)
    BY <1>0, <1>t, <1>13, <2>1, <2>2, <2>4, FramesGrow DEF EnqueueRequest
  <2> QED BY <2>3, <2>4
<1>14. ASSUME NEW s \in Sessions, DetachSession(s) PROVE AskInv'
  <2>1. TargetOK' /\ ResponseToAsker'
    BY <1>0, <1>t, <1>14, TargetsGrow, DeliveredGrow DEF DetachSession
  <2>a. /\ UNCHANGED <<next_gen, my_session_gen, sent, session_gen>>
        /\ phase'[s] = "closed"
        /\ \A t \in Sessions : t # s => phase'[t] = phase[t]
        /\ \A k \in Keys : session'[k] \in {session[k], None}
    BY <1>14, <1>t DEF DetachSession, TypeOK, FrontendsOK, RegistryOK
  <2>b. GensOK'
    BY <2>a DEF GensOK
  <2>c. PairingOK'
    BY <2>a DEF PairingOK
  <2>2. GensOK' /\ PairingOK'
    BY <2>b, <2>c
  <2>3. CASE Paired(s)
    <3>1. name[s] \in Keys /\ conn[name[s]] \in Producers
      BY <1>14, <1>t, <2>3 DEF DetachSession, Paired, TypeInv, Named, TypeOK, RegistryOK
    <3>2. LifecycleLines(conn[name[s]], <<DetachFrame(my_session_gen[s])>>) \in Seq(Frames)
      BY <1>t, FrameTypes DEF LifecycleLines, TypeOK, FrontendsOK
    <3>3. PICK lines \in Seq(Frames) :
            lines = LifecycleLines(conn[name[s]], <<DetachFrame(my_session_gen[s])>>)
      BY <3>2
    <3>4. PICK p \in Producers : p = conn[name[s]]
      BY <3>1
    <3>5. Enqueue(p, lines)
      BY <1>14, <2>3, <3>3, <3>4 DEF DetachSession
    <3>a. \A i \in 1 .. Len(lines) : Asked(lines[i].id, lines[i].by)'
      BY <3>3 DEF LifecycleLines, DetachFrame, Asked
    <3>6. FramesOK'
      BY <1>0, <1>t, <3>5, <3>a, FramesEnqueue
    <3> QED BY <2>1, <2>2, <3>6
  <2>4. CASE ~Paired(s)
    BY <1>0, <1>t, <1>14, <2>1, <2>2, <2>4, FramesGrow DEF DetachSession
  <2> QED BY <2>3, <2>4
<1>15. CASE UNCHANGED vars
  BY <1>0, <1>t, <1>15, FramesGrow, TargetsGrow, DeliveredGrow DEF vars, GensOK, PairingOK
<1> QED
  BY <1>1, <1>2, <1>3, <1>4, <1>5, <1>6, <1>7, <1>8, <1>9, <1>10, <1>11, <1>12, <1>13,
     <1>14, <1>15 DEF Next, WriterStep, ProducerStep, SessionStep

\* Until the generation counter wraps the field of the fence, every response
\* reaches only the frontend that asked for it, under the number it gave,
\* whatever takeovers, reconnections and re-registrations happen meanwhile.
THEOREM ResponsesReachAsker == Spec => []ResponseToAsker
<1>1. Init => TypeInv /\ AskInv
  BY TypeInit, AskInit
<1>2. TypeInv /\ AskInv /\ [Next]_vars => (TypeInv /\ AskInv)'
  BY TypeStep, AskStep
<1>3. AskInv => ResponseToAsker
  BY DEF AskInv
<1> QED BY <1>1, <1>2, <1>3, PTL DEF Spec

-----------------------------------------------------------------------------
(* Streams of lines.                                                        *)

\* The attachment that a stream leaves open, in the terms of the properties.
Open(w, g) == OpenBefore(w, g, Len(w) + 1)

\* A line has the number of an attachment, and an attach event nothing else.
Plain(f) == f.sess # 0 /\ (f.kind = "attach" => f = AttachFrame(f.sess))

\* Attachments come in the order of their numbers, and each is opened only once.
Ordered(w) ==
    /\ \A i \in 1 .. Len(w) : Plain(w[i])
    /\ \A i, j \in 1 .. Len(w) : i < j =>
        w[i].sess <= w[j].sess /\ (w[j].kind = "attach" => w[i].sess < w[j].sess)

Prefix(v, w) == Len(v) <= Len(w) /\ \A i \in 1 .. Len(v) : v[i] = w[i]

\* What is open before a line depends on the lines before it only.
LEMMA OpenOfPrefix ==
    ASSUME NEW v \in Seq(Frames), NEW w \in Seq(Frames), Prefix(v, w), NEW g, NEW i \in 1 .. Len(v) + 1
    PROVE  OpenBefore(v, g, i) <=> OpenBefore(w, g, i)
<1>1. PICK m \in Nat : m = Len(v) OBVIOUS
<1>2. \A j \in 1 .. i - 1 : j \in 1 .. m /\ v[j] = w[j] BY <1>1 DEF Prefix
<1>3. \A j \in 1 .. i - 1 : \A k \in j + 1 .. i - 1 : k \in 1 .. i - 1 BY <1>1
<1> QED BY <1>2, <1>3, ZenonT(60) DEF OpenBefore

LEMMA PrefixSound ==
    ASSUME NEW v \in Seq(Frames), NEW w \in Seq(Frames), Prefix(v, w)
    PROVE  (Ordered(w) => Ordered(v)) /\ (Bracketed(w) => Bracketed(v))
<1>1. PICK m \in Nat, n \in Nat : m = Len(v) /\ n = Len(w) /\ m <= n BY DEF Prefix
<1>2. \A i \in 1 .. m : i \in 1 .. n /\ v[i] = w[i] BY <1>1 DEF Prefix
<1>3. Ordered(w) => Ordered(v) BY <1>1, <1>2 DEF Ordered
<1>4. ASSUME Bracketed(w) PROVE Bracketed(v)
  <2> SUFFICES ASSUME NEW i \in 1 .. m
               PROVE  IF v[i].kind = "attach" THEN \A j \in 1 .. i - 1 : ~OpenBefore(v, v[j].sess, i)
                      ELSE OpenBefore(v, v[i].sess, i)
    BY <1>1 DEF Bracketed
  <2>1. IF w[i].kind = "attach" THEN \A j \in 1 .. i - 1 : ~OpenBefore(w, w[j].sess, i)
        ELSE OpenBefore(w, w[i].sess, i)
    BY <1>1, <1>2, <1>4 DEF Bracketed
  <2>2. i \in 1 .. Len(v) + 1 BY <1>1
  <2>3. ASSUME NEW g PROVE OpenBefore(v, g, i) <=> OpenBefore(w, g, i) BY <2>2, OpenOfPrefix
  <2>4. v[i] = w[i] /\ \A j \in 1 .. i - 1 : v[j] = w[j]
    <3>1. i \in Nat /\ i <= m /\ \A j \in 1 .. i - 1 : j \in 1 .. m BY <1>1
    <3> QED BY <1>2, <3>1
  <2> QED BY <2>1, <2>3, <2>4
<1> QED BY <1>3, <1>4

LEMMA AppendPrefix ==
    ASSUME NEW w \in Seq(Frames), NEW f \in Frames
    PROVE  Append(w, f) \in Seq(Frames) /\ Prefix(w, Append(w, f))
BY AppendProperties DEF Prefix

LEMMA ConcatPrefix ==
    ASSUME NEW w \in Seq(Frames), NEW u \in Seq(Frames)
    PROVE  w \o u \in Seq(Frames) /\ Prefix(w, w \o u)
<1>1. w \o u \in Seq(Frames) /\ Len(w \o u) = Len(w) + Len(u) /\ Len(w) \in Nat /\ Len(u) \in Nat
  OBVIOUS
<1>2. \A i \in 1 .. Len(w) : (w \o u)[i] = w[i] OBVIOUS
<1> QED BY <1>1, <1>2 DEF Prefix

LEMMA HeadAndTail ==
    ASSUME NEW S, NEW b \in Seq(S), b # << >>
    PROVE  <<Head(b)>> \in Seq(S) /\ Tail(b) \in Seq(S) /\ <<Head(b)>> \o Tail(b) = b
<1>0. Len(b) \in Nat \ {0} BY EmptySeq
<1>1. PICK n \in Nat \ {0} : n = Len(b) BY <1>0
<1>2. 1 \in 1 .. n /\ n \in 1 .. n /\ 1 + 1 = 2 BY <1>1
<1>3. SubSeq(b, 1, n) = <<b[1]>> \o SubSeq(b, 2, n)
  <2>1. SubSeq(b, 1, Len(b)) = <<b[1]>> \o SubSeq(b, 1 + 1, Len(b)) BY <1>1, <1>2, SubSeqRecursiveFirst
  <2> QED BY <1>1, <1>2, <2>1
<1>4. SubSeq(b, 1, n) = b BY <1>1, SubSeqFull
<1>5. Tail(b) = SubSeq(b, 2, n) BY <1>1, TailIsSubSeq
<1>6. Head(b) = b[1] OBVIOUS
<1>7. Head(b) \in S /\ Tail(b) \in Seq(S) BY HeadTailProperties
<1>8. <<Head(b)>> \in Seq(S) BY <1>7
<1> QED BY <1>3, <1>4, <1>5, <1>6, <1>7, <1>8

LEMMA OneLine ==
    ASSUME NEW S, NEW a \in Seq(S), a # << >>, Len(a) <= 1
    PROVE  a[1] \in S /\ a = <<a[1]>>
<1>0. PICK n \in Nat \ {0} : n = Len(a) BY EmptySeq
<1>1. Len(a) = 1 BY <1>0
<1>2. a[1] \in S BY <1>1
<1>3. PICK x \in S : x = a[1] BY <1>2
<1>4. <<x>> \in Seq(S) /\ Len(<<x>>) = 1 /\ <<x>>[1] = x OBVIOUS
<1>5. \A i \in 1 .. 1 : i = 1 OBVIOUS
<1>6. a = <<x>> BY <1>1, <1>3, <1>4, <1>5, SeqEqual
<1> QED BY <1>2, <1>3, <1>6

\* One more line: it closes what is open, opens its attachment, or leaves it.
LEMMA OpenOfAppend ==
    ASSUME NEW w \in Seq(Frames), NEW f \in Frames, NEW g
    PROVE  Open(Append(w, f), g) <=> f = AttachFrame(g) \/ (f.kind = "request" /\ Open(w, g))
<1>0. PICK v \in Seq(Frames) : v = Append(w, f) BY AppendPrefix
<1>1. PICK n \in Nat : n = Len(w) OBVIOUS
<1>2. Len(v) = n + 1 /\ v[n + 1] = f /\ \A i \in 1 .. n : v[i] = w[i] BY <1>0, <1>1
<1>3. Open(v, g) <=> \E j \in 1 .. n + 1 : v[j] = AttachFrame(g) /\ \A m \in j + 1 .. n + 1 : v[m].kind = "request"
  <2>1. PICK k \in Nat, i \in Nat : k = n + 1 /\ i = n + 2 BY <1>1
  <2>2. i - 1 = k BY <2>1
  <2>3. Open(v, g) <=> OpenBefore(v, g, i) BY <1>2, <2>1 DEF Open
  <2>4. Open(v, g) <=>
            \E j \in 1 .. k : v[j] = AttachFrame(g) /\ \A m \in j + 1 .. k : v[m].kind = "request"
    BY <2>2, <2>3 DEF OpenBefore
  <2> QED BY <2>1, <2>4
<1>4. Open(w, g) <=> \E j \in 1 .. n : w[j] = AttachFrame(g) /\ \A m \in j + 1 .. n : w[m].kind = "request"
  <2>1. PICK i \in Nat : i = n + 1 BY <1>1
  <2>2. i - 1 = n BY <2>1
  <2>3. Open(w, g) <=> OpenBefore(w, g, i) BY <1>1, <2>1 DEF Open
  <2> QED BY <2>2, <2>3 DEF OpenBefore
<1>5. ASSUME f = AttachFrame(g) PROVE Open(v, g)
  <2>1. n + 1 \in 1 .. n + 1 /\ \A m \in n + 1 + 1 .. n + 1 : FALSE BY <1>1
  <2> QED BY <1>2, <1>3, <1>5, <2>1
<1>6. ASSUME f.kind = "request", Open(w, g) PROVE Open(v, g)
  <2>1. PICK j \in 1 .. n : w[j] = AttachFrame(g) /\ \A m \in j + 1 .. n : w[m].kind = "request" BY <1>4, <1>6
  <2>2. j \in 1 .. n + 1 BY <1>1
  <2>3. \A m \in j + 1 .. n + 1 : (m \in j + 1 .. n /\ m \in 1 .. n) \/ m = n + 1 BY <1>1
  <2> QED BY ZenonT(60), <1>2, <1>3, <1>6, <2>1, <2>2, <2>3
<1>7. ASSUME Open(v, g) PROVE f = AttachFrame(g) \/ (f.kind = "request" /\ Open(w, g))
  <2>1. PICK j \in 1 .. n + 1 : v[j] = AttachFrame(g) /\ \A m \in j + 1 .. n + 1 : v[m].kind = "request"
    BY <1>3, <1>7
  <2>2. CASE j = n + 1 BY <1>2, <2>1, <2>2
  <2>3. CASE j # n + 1
    <3>1. j \in 1 .. n /\ n + 1 \in j + 1 .. n + 1 BY <1>1, <2>3
    <3>2. \A m \in j + 1 .. n : m \in j + 1 .. n + 1 /\ m \in 1 .. n BY <1>1, <3>1
    <3> QED BY <1>2, <1>4, <2>1, <3>1, <3>2
  <2> QED BY <2>2, <2>3
<1> QED BY <1>0, <1>5, <1>6, <1>7

LEMMA SoundAppend ==
    ASSUME NEW w \in Seq(Frames), NEW f \in Frames
    PROVE  /\ /\ Ordered(w) /\ Plain(f)
              /\ \A i \in 1 .. Len(w) : w[i].sess <= f.sess /\ (f.kind = "attach" => w[i].sess < f.sess)
              => Ordered(Append(w, f))
           /\ /\ Bracketed(w)
              /\ IF f.kind = "attach" THEN \A g \in Nat : ~Open(w, g) ELSE Open(w, f.sess)
              => Bracketed(Append(w, f))
<1> DEFINE v == Append(w, f)
<1>1. PICK n \in Nat : n = Len(w) OBVIOUS
<1>2. /\ v \in Seq(Frames) /\ Len(v) = n + 1 /\ v[n + 1] = f /\ \A i \in 1 .. n : v[i] = w[i]
  BY <1>1
<1>3. Prefix(w, v) BY AppendPrefix
<1> HIDE DEF v
<1>4. \A i \in 1 .. n + 1 : i \in 1 .. n \/ i = n + 1 BY <1>1
<1>5. ASSUME Ordered(w), Plain(f),
             \A i \in 1 .. Len(w) : w[i].sess <= f.sess /\ (f.kind = "attach" => w[i].sess < f.sess)
      PROVE  Ordered(v)
  <2>1. ASSUME NEW i \in 1 .. n + 1 PROVE Plain(v[i]) BY <1>1, <1>2, <1>4, <1>5 DEF Ordered
  <2>2. ASSUME NEW i \in 1 .. n + 1, NEW j \in 1 .. n + 1, i < j
        PROVE  v[i].sess <= v[j].sess /\ (v[j].kind = "attach" => v[i].sess < v[j].sess)
    <3>1. i \in 1 .. n BY <1>1, <2>2
    <3> QED BY <1>1, <1>2, <1>4, <1>5, <2>2, <3>1 DEF Ordered
  <2> QED BY <1>2, <2>1, <2>2 DEF Ordered
<1>6. ASSUME Bracketed(w), IF f.kind = "attach" THEN \A g \in Nat : ~Open(w, g) ELSE Open(w, f.sess)
      PROVE  Bracketed(v)
  <2> SUFFICES ASSUME NEW i \in 1 .. n + 1
               PROVE  IF v[i].kind = "attach" THEN \A j \in 1 .. i - 1 : ~OpenBefore(v, v[j].sess, i)
                      ELSE OpenBefore(v, v[i].sess, i)
    BY <1>2 DEF Bracketed
  <2>1. \A g : OpenBefore(w, g, i) <=> OpenBefore(v, g, i) BY <1>1, <1>2, <1>3, OpenOfPrefix
  <2>2. CASE i \in 1 .. n
    <3>1. v[i] = w[i] /\ \A j \in 1 .. i - 1 : v[j] = w[j] BY <1>1, <1>2, <2>2
    <3> QED BY <1>1, <1>6, <2>1, <2>2, <3>1 DEF Bracketed
  <2>3. CASE i = n + 1
    <3>1. \A g : Open(w, g) <=> OpenBefore(v, g, i) BY <1>1, <2>1, <2>3 DEF Open
    <3>2. \A j \in 1 .. i - 1 : v[j].sess \in Nat
      <4>1. \A j \in 1 .. i - 1 : j \in 1 .. Len(v) BY <1>1, <1>2, <2>3
      <4>2. \A j \in 1 .. Len(v) : v[j] \in Frames BY <1>2
      <4> QED BY <4>1, <4>2 DEF Frames
    <3> QED BY <1>2, <1>6, <2>3, <3>1, <3>2
  <2> QED BY <1>4, <2>2, <2>3
<1> QED BY <1>5, <1>6 DEF v

-----------------------------------------------------------------------------
(* What a producer reads, and whom the registry has paired.                 *)

\* The lines that a producer has read or will read: those that were admitted for
\* it, as long as its transport is up, and then those that it has read.
Readable(p) == IF sock[p] = "open" THEN Admitted(p) ELSE wire[p]

\* The requests in a stream are for the emulator their session attached to.
Routed(w, p) ==
    \A i \in 1 .. Len(w) : w[i].by # None =>
        my_session_gen[w[i].by] # 0 /\ my_gen[p] = registration[w[i].by]

SoundFor(w, p) == Ordered(w) /\ Routed(w, p) /\ (p \in Lifecycle => Bracketed(w))

\* A stream is in step with the entry of the registry: no line of it is newer than the
\* entry's last pairing, and it leaves open what the entry has paired.
Follows(w, k) ==
    /\ \A i \in 1 .. Len(w) : w[i].sess <= session_gen[k]
    /\ conn[k] \in Lifecycle =>
        \A g \in Nat : Open(w, g) <=> (session[k] # None /\ session_gen[k] = g)

StreamOK == \A p \in Producers : SoundFor(Readable(p), p)

OwnerOK ==
    \A k \in Keys : conn[k] # None /\ sock[conn[k]] = "open" => Follows(Admitted(conn[k]), k)

\* A producer has one entry at most, its own, and nothing was sent to it before it had one.
EntryOK ==
    /\ \A k \in Keys : conn[k] # None =>
        my_name[conn[k]] = k /\ pphase[conn[k]] = "serving" /\ my_gen[conn[k]] = gen[k]
    /\ \A k \in Keys : session_gen[k] <= next_gen
    /\ \A p \in Producers : pphase[p] = "hello" =>
        sock[p] # "open" /\ wire[p] = << >> /\ inflight[p] = << >> /\ queue[p] = << >>

StreamInv == StreamOK /\ OwnerOK /\ EntryOK

\* A session that has a generation keeps what it attached to.
Settled == \A s \in Sessions : my_session_gen[s] # 0 =>
    my_session_gen'[s] # 0 /\ registration'[s] = registration[s]

LEMMA StreamTypes ==
    ASSUME TypeInv, NEW p \in Producers
    PROVE  /\ wire[p] \in Seq(Frames) /\ inflight[p] \in Seq(Frames) /\ queue[p] \in Seq(Frames)
           /\ Admitted(p) \in Seq(Frames) /\ Prefix(wire[p], Admitted(p))
           /\ Readable(p) \in Seq(Frames) /\ Prefix(wire[p], Readable(p))
<1>1. wire[p] \in Seq(Frames) /\ inflight[p] \in Seq(Frames) /\ queue[p] \in Seq(Frames)
  BY DEF TypeInv, TypeOK, OutboundOK
<1>2. wire[p] \o inflight[p] \in Seq(Frames) /\ Prefix(wire[p], wire[p] \o inflight[p]) BY <1>1, ConcatPrefix
<1>3. /\ (wire[p] \o inflight[p]) \o queue[p] \in Seq(Frames)
      /\ Prefix(wire[p] \o inflight[p], (wire[p] \o inflight[p]) \o queue[p])
  BY <1>1, <1>2, ConcatPrefix
<1>4. Prefix(wire[p], (wire[p] \o inflight[p]) \o queue[p])
  <2>1. PICK w \in Seq(Frames), u \in Seq(Frames), a \in Seq(Frames) :
            w = wire[p] /\ u = wire[p] \o inflight[p] /\ a = u \o queue[p]
    BY <1>1, <1>2, <1>3
  <2>2. PICK m \in Nat, n \in Nat, k \in Nat : m = Len(w) /\ n = Len(u) /\ k = Len(a) OBVIOUS
  <2>3. m <= n /\ n <= k /\ (\A i \in 1 .. m : w[i] = u[i]) /\ (\A i \in 1 .. n : u[i] = a[i])
    BY <1>2, <1>3, <2>1, <2>2 DEF Prefix
  <2>4. m <= k /\ \A i \in 1 .. m : i \in 1 .. n BY <2>2, <2>3
  <2>5. Prefix(w, a) BY <2>2, <2>3, <2>4 DEF Prefix
  <2> QED BY <2>1, <2>5
<1>5. Prefix(wire[p], wire[p]) BY <1>1 DEF Prefix
<1> QED BY <1>1, <1>3, <1>4, <1>5 DEF Admitted, Readable

LEMMA RoutedKept ==
    ASSUME Settled, NEW p \in Producers, my_gen'[p] = my_gen[p], NEW w \in Seq(Frames), Routed(w, p)
    PROVE  Routed(w, p)'
<1>1. \A i \in 1 .. Len(w) : w[i] \in Frames OBVIOUS
<1>2. \A i \in 1 .. Len(w) : w[i].by \in Sessions \cup {None} BY <1>1 DEF Frames
<1> QED BY <1>2 DEF Routed, Settled

LEMMA RoutedPrefix ==
    ASSUME NEW p, NEW v \in Seq(Frames), NEW w \in Seq(Frames), Prefix(v, w), Routed(w, p)
    PROVE  Routed(v, p)
<1>0. Len(v) \in Nat /\ Len(w) \in Nat /\ Len(v) <= Len(w) BY DEF Prefix
<1>1. PICK m \in Nat, n \in Nat : m = Len(v) /\ n = Len(w) /\ m <= n BY <1>0
<1>2. \A i \in 1 .. m : i \in 1 .. n /\ v[i] = w[i] BY <1>1 DEF Prefix
<1> QED BY <1>1, <1>2 DEF Routed

\* What is sound of a stream is sound of what a producer can read then.
LEMMA SoundThen ==
    ASSUME NEW q \in Producers, NEW v \in Seq(Frames), v = Readable(q)', SoundFor(v, q)'
    PROVE  SoundFor(Readable(q), q)'
<1>1. Ordered(Readable(q))' BY DEF SoundFor, Ordered, Plain, AttachFrame
<1>2. Routed(Readable(q), q)' BY DEF SoundFor, Routed
<1>3. q \in Lifecycle => Bracketed(Readable(q))' BY DEF SoundFor, Bracketed, OpenBefore, AttachFrame
<1> QED BY <1>1, <1>2, <1>3 DEF SoundFor

\* Steps that only move lines towards the producer, or end its transport.
LEMMA StreamsShrink ==
    ASSUME TypeInv, TypeInv', StreamInv, Settled, UNCHANGED my_gen,
           \A q \in Producers :
                \/ sock[q] = "open" /\ sock'[q] = "open" /\ Admitted(q)' = Admitted(q)
                \/ sock'[q] # "open" /\ wire'[q] = wire[q],
           \A k \in Keys : conn'[k] # None =>
                conn'[k] = conn[k] /\ session'[k] = session[k] /\ session_gen'[k] = session_gen[k]
    PROVE  StreamOK' /\ OwnerOK'
<1>1. ASSUME NEW q \in Producers PROVE SoundFor(Readable(q), q)'
  <2>1. PICK v \in Seq(Frames), w \in Seq(Frames) : v = Readable(q)' /\ w = Readable(q)
    <3>1. Readable(q) \in Seq(Frames) BY StreamTypes
    <3>2. wire[q] \in Seq(Frames) /\ Admitted(q) \in Seq(Frames) BY StreamTypes
    <3>3. Readable(q)' \in Seq(Frames) BY <3>2 DEF Readable
    <3> QED BY <3>1, <3>3
  <2>2. SoundFor(w, q) BY <2>1 DEF StreamInv, StreamOK
  <2>3. Prefix(v, w)
    <3>1. CASE sock[q] = "open" /\ sock'[q] = "open" /\ Admitted(q)' = Admitted(q)
      <4>1. v = w BY <2>1, <3>1 DEF Readable
      <4> QED BY <4>1 DEF Prefix
    <3>2. CASE sock'[q] # "open" /\ wire'[q] = wire[q]
      BY <2>1, <3>2, StreamTypes DEF Readable
    <3> QED BY <3>1, <3>2
  <2>4. Ordered(v) /\ (q \in Lifecycle => Bracketed(v)) /\ Routed(v, q)
    BY <2>2, <2>3, PrefixSound, RoutedPrefix DEF SoundFor
  <2>5. Routed(v, q)' BY <2>4, RoutedKept
  <2>6. SoundFor(v, q)' BY <2>4, <2>5 DEF SoundFor, Ordered, Plain, Bracketed, OpenBefore, AttachFrame
  <2>7. v = Readable(q)' BY <2>1
  <2> QED BY <2>6, <2>7, SoundThen
<1>2. ASSUME NEW k \in Keys, conn'[k] # None, sock'[conn'[k]] = "open" PROVE Follows(Admitted(conn[k]), k)'
  <2>1. conn[k] \in Producers /\ conn'[k] = conn[k] BY <1>2 DEF TypeInv, TypeOK, RegistryOK
  <2>2. sock[conn[k]] = "open" /\ Admitted(conn[k])' = Admitted(conn[k])
    <3>1. PICK q \in Producers : q = conn[k] /\ q = conn'[k] BY <2>1
    <3>2. sock[q] = "open" /\ sock'[q] = "open" /\ Admitted(q)' = Admitted(q) BY <1>2, <3>1
    <3> QED BY <2>1, <3>1, <3>2 DEF Admitted
  <2>3. Follows(Admitted(conn[k]), k) BY <1>2, <2>1, <2>2 DEF StreamInv, OwnerOK
  <2> QED BY <1>2, <2>1, <2>2, <2>3 DEF Follows, Open, OpenBefore, AttachFrame
<1> QED BY <1>1, <1>2 DEF StreamOK, OwnerOK

LEMMA EnqueueStream ==
    ASSUME TypeInv, NEW p \in Producers, NEW lines \in Seq(Frames), Enqueue(p, lines)
    PROVE  /\ \A q \in Producers \ {p} : sock'[q] = sock[q] /\ wire'[q] = wire[q] /\ Admitted(q)' = Admitted(q)
           /\ wire'[p] = wire[p]
           /\ \/ /\ sock'[p] = sock[p] /\ Len(lines) <= Room(p)
                 /\ Admitted(p)' = Admitted(p) \o lines
              \/ sock'[p] = "shut" /\ Len(lines) > Room(p)
<1>1. /\ queue \in [Producers -> Seq(Frames)] /\ sock \in [Producers -> {"open", "peer_closed", "shut"}]
      /\ wire[p] \in Seq(Frames) /\ inflight[p] \in Seq(Frames) /\ queue[p] \in Seq(Frames)
  BY DEF TypeInv, TypeOK, OutboundOK
<1>2. UNCHANGED <<inflight, wire, writer>> BY DEF Enqueue
<1>3. ASSUME NEW q \in Producers \ {p}
      PROVE  sock'[q] = sock[q] /\ wire'[q] = wire[q] /\ Admitted(q)' = Admitted(q)
  BY <1>1, <1>2 DEF Enqueue, Admitted
<1>4. Room(p) \in Nat BY DEF Room, TypeInv, TypeOK, OutboundOK
<1>5. CASE Len(lines) <= Room(p)
  <2>1. sock'[p] = sock[p] /\ queue'[p] = queue[p] \o lines BY <1>1, <1>5 DEF Enqueue
  <2>2. wire[p] \o inflight[p] \in Seq(Frames) BY <1>1, ConcatPrefix
  <2>3. ((wire[p] \o inflight[p]) \o queue[p]) \o lines = (wire[p] \o inflight[p]) \o (queue[p] \o lines)
    <3>1. PICK a \in Seq(Frames), b \in Seq(Frames) : a = wire[p] \o inflight[p] /\ b = queue[p] BY <1>1, <2>2
    <3>2. (a \o b) \o lines = a \o (b \o lines) BY ConcatAssociative
    <3> QED BY <3>1, <3>2
  <2>4. Admitted(p)' = Admitted(p) \o lines BY <1>2, <2>1, <2>3 DEF Admitted
  <2> QED BY <1>2, <1>3, <1>5, <2>1, <2>4
<1>6. CASE Len(lines) > Room(p)
  <2>1. ~(Len(lines) <= Room(p)) BY <1>4, <1>6
  <2>2. sock'[p] = "shut" BY <1>1, <2>1 DEF Enqueue
  <2> QED BY <1>2, <1>3, <1>6, <2>2
<1> QED BY <1>4, <1>5, <1>6

\* Lines are enqueued for the producer of an entry: it is enough to look at the stream
\* that they make, if they fit.
LEMMA StreamsEnqueue ==
    ASSUME TypeInv, TypeInv', StreamInv, Settled, UNCHANGED <<my_gen, conn>>,
           NEW k \in Keys, NEW p \in Producers, conn[k] = p, NEW lines \in Seq(Frames), Enqueue(p, lines),
           \A j \in Keys \ {k} : session'[j] = session[j] /\ session_gen'[j] = session_gen[j],
           sock[p] = "open" /\ Len(lines) <= Room(p) =>
                /\ SoundFor(Admitted(p) \o lines, p)
                /\ \A i \in 1 .. Len(Admitted(p) \o lines) : (Admitted(p) \o lines)[i].sess <= session_gen'[k]
                /\ p \in Lifecycle => \A g \in Nat :
                    Open(Admitted(p) \o lines, g) <=> (session'[k] # None /\ session_gen'[k] = g)
    PROVE  StreamOK' /\ OwnerOK'
<1>1. /\ \A q \in Producers \ {p} : sock'[q] = sock[q] /\ wire'[q] = wire[q] /\ Admitted(q)' = Admitted(q)
      /\ wire'[p] = wire[p]
      /\ \/ sock'[p] = sock[p] /\ Len(lines) <= Room(p) /\ Admitted(p)' = Admitted(p) \o lines
         \/ sock'[p] = "shut" /\ Len(lines) > Room(p)
  BY EnqueueStream
<1>2. \A q \in Producers : wire[q] \in Seq(Frames) /\ Admitted(q) \in Seq(Frames) /\ Readable(q) \in Seq(Frames)
                           /\ Prefix(wire[q], Readable(q))
  BY StreamTypes
<1>3. PICK u \in Seq(Frames) : u = Admitted(p) \o lines BY <1>2, ConcatPrefix
<1>4. ASSUME NEW q \in Producers PROVE SoundFor(Readable(q), q)'
  <2>1. PICK v \in Seq(Frames) : v = Readable(q)' /\ SoundFor(v, q)
    <3>1. CASE q # p
      <4>1. Readable(q)' = Readable(q) BY <1>1, <3>1 DEF Readable
      <4> QED BY <1>2, <4>1 DEF StreamInv, StreamOK
    <3>2. CASE q = p /\ sock'[p] # "open"
      <4>1. Readable(q)' = wire[q] BY <1>1, <3>2 DEF Readable
      <4>2. SoundFor(Readable(q), q) BY DEF StreamInv, StreamOK
      <4>3. SoundFor(wire[q], q) BY <1>2, <4>2, PrefixSound, RoutedPrefix DEF SoundFor
      <4> QED BY <1>2, <4>1, <4>3
    <3>3. CASE q = p /\ sock'[p] = "open"
      <4>1. sock[p] = "open" /\ Len(lines) <= Room(p) /\ Admitted(p)' = u BY <1>1, <1>3, <3>3
      <4>2. Readable(q)' = u BY <3>3, <4>1 DEF Readable, Admitted
      <4> QED BY <1>3, <3>3, <4>1, <4>2
    <3> QED BY <3>1, <3>2, <3>3
  <2>2. Routed(v, q)' BY <2>1, RoutedKept DEF SoundFor
  <2>3. SoundFor(v, q)' BY <2>1, <2>2 DEF SoundFor, Ordered, Plain, Bracketed, OpenBefore, AttachFrame
  <2>4. v = Readable(q)' BY <2>1
  <2> QED BY <2>3, <2>4, SoundThen
<1>5. ASSUME NEW j \in Keys, conn'[j] # None, sock'[conn'[j]] = "open" PROVE Follows(Admitted(conn[j]), j)'
  <2>1. conn[j] \in Producers /\ conn'[j] = conn[j] BY <1>5 DEF TypeInv, TypeOK, RegistryOK
  <2>2. CASE j = k
    <3>1. sock[p] = "open" /\ Len(lines) <= Room(p) /\ Admitted(p)' = u BY <1>1, <1>3, <1>5, <2>1, <2>2
    <3>2. /\ \A i \in 1 .. Len(u) : u[i].sess <= session_gen'[k]
          /\ p \in Lifecycle => \A g \in Nat : Open(u, g) <=> (session'[k] # None /\ session_gen'[k] = g)
      BY <1>3, <3>1
    <3>3. Follows(u, k)' BY <2>1, <2>2, <3>2 DEF Follows, Open, OpenBefore, AttachFrame
    <3>4. Admitted(conn[j])' = u BY <2>1, <2>2, <3>1 DEF Admitted
    <3> QED BY <2>2, <3>3, <3>4 DEF Follows, Open, OpenBefore
  <2>3. CASE j # k
    <3>1. conn[j] # p BY <1>5, <2>1, <2>3 DEF StreamInv, EntryOK
    <3>2. sock[conn[j]] = "open" /\ Admitted(conn[j])' = Admitted(conn[j])
      <4>1. PICK q \in Producers \ {p} : q = conn[j] /\ q = conn'[j] BY <2>1, <3>1
      <4>2. sock'[q] = sock[q] /\ Admitted(q)' = Admitted(q) BY <1>1, <4>1
      <4> QED BY <1>5, <2>1, <4>1, <4>2 DEF Admitted
    <3>3. Follows(Admitted(conn[j]), j) BY <1>5, <2>1, <3>2 DEF StreamInv, OwnerOK
    <3> QED BY <2>1, <2>3, <3>2, <3>3 DEF Follows, Open, OpenBefore, AttachFrame
  <2> QED BY <2>2, <2>3
<1> QED BY <1>4, <1>5 DEF StreamOK, OwnerOK

LEMMA StepSettles == ASSUME TypeInv, AskInv, [Next]_vars PROVE Settled
<1>1. Grows BY StepGrows
<1>2. \A s \in Sessions : my_session_gen[s] # 0 => registration'[s] = registration[s]
  <2>1. ASSUME NEW s \in Sessions, Attach(s), NEW t \in Sessions, my_session_gen[t] # 0
        PROVE  registration'[t] = registration[t]
    <3>1. t # s BY <2>1 DEF Attach, AskInv, GensOK
    <3> QED BY <2>1, <3>1 DEF Attach, TypeInv, TypeOK, FrontendsOK
  <2>2. (~\E s \in Sessions : Attach(s)) => UNCHANGED registration
    BY DEF Next, vars, WriterStep, ProducerStep, SessionStep, WriterRecv, WriterWrite, WriterFail, Register,
       RefuseRegistration, ReadLine, ForwardLine, ProducerCrash, ProducerEof, AttachRefused, AttachReply,
       AttachReplyFails, FrontendClose, ReadRequest, EnqueueRequest, SessionEof, RefuseRequest, DetachSession, Moves
  <2> QED BY <2>1, <2>2
<1> QED BY <1>1, <1>2 DEF Settled, Grows

LEMMA EntryKept ==
    ASSUME TypeInv, StreamInv, UNCHANGED <<conn, gen, my_name, my_gen, pphase>>,
           \A k \in Keys : session_gen'[k] <= next_gen',
           \A p \in Producers : pphase[p] = "hello" =>
                sock'[p] = sock[p] /\ wire'[p] = wire[p] /\ inflight'[p] = inflight[p] /\ queue'[p] = queue[p]
    PROVE  EntryOK'
BY DEF StreamInv, EntryOK

\* Steps that touch neither the registry nor the lines.
LEMMA StreamsStill ==
    ASSUME TypeInv, TypeInv', StreamInv, Settled, next_gen' \in Nat, next_gen' >= next_gen,
           UNCHANGED <<conn, gen, session, session_gen, my_name, my_gen, pphase, outbound>>
    PROVE  StreamInv'
<1>1. \A q \in Producers : sock'[q] = sock[q] /\ wire'[q] = wire[q] /\ Admitted(q)' = Admitted(q)
                           /\ inflight'[q] = inflight[q] /\ queue'[q] = queue[q]
  BY DEF Admitted
<1>2. StreamOK' /\ OwnerOK' BY <1>1, StreamsShrink
<1>3. \A k \in Keys : session_gen'[k] <= next_gen'
  BY DEF StreamInv, EntryOK, TypeInv, TypeOK, RegistryOK
<1>4. EntryOK' BY <1>1, <1>3, EntryKept
<1> QED BY <1>2, <1>4 DEF StreamInv

\* The writer thread moves a line on, which leaves what is admitted as it is.
LEMMA WriterMoves ==
    ASSUME TypeInv, TypeInv', StreamInv, Settled, NEW p \in Producers, WriterRecv(p) \/ WriterWrite(p)
    PROVE  StreamInv'
<1>1. UNCHANGED <<registry, my_name, my_gen, pphase, sock, writer>> BY DEF WriterRecv, WriterWrite
<1>2. /\ wire \in [Producers -> Seq(Frames)] /\ inflight \in [Producers -> Seq(Frames)]
      /\ queue \in [Producers -> Seq(Frames)] /\ Len(inflight[p]) <= 1
      /\ wire[p] \in Seq(Frames) /\ inflight[p] \in Seq(Frames) /\ queue[p] \in Seq(Frames)
  BY DEF TypeInv, TypeOK, OutboundOK
<1>3. pphase[p] # "hello" BY DEF StreamInv, EntryOK, WriterRecv, WriterWrite
<1>4. \A q \in Producers \ {p} : wire'[q] = wire[q] /\ inflight'[q] = inflight[q] /\ queue'[q] = queue[q]
  BY <1>2 DEF WriterRecv, WriterWrite
<1>5. \A q \in Producers \ {p} : Admitted(q)' = Admitted(q) BY <1>4 DEF Admitted
<1>6. CASE WriterRecv(p)
  <2>1. /\ inflight[p] = << >> /\ queue[p] # << >> /\ wire'[p] = wire[p]
        /\ inflight'[p] = <<Head(queue[p])>> /\ queue'[p] = Tail(queue[p])
    BY <1>2, <1>6 DEF WriterRecv
  <2>2. PICK w \in Seq(Frames), b \in Seq(Frames) : w = wire[p] /\ b = queue[p] BY <1>2
  <2>3. (w \o << >>) \o b = (w \o <<Head(b)>>) \o Tail(b)
    <3>1. b # << >> BY <2>1, <2>2
    <3>2. PICK h \in Seq(Frames), t \in Seq(Frames) : h = <<Head(b)>> /\ t = Tail(b) BY <3>1, HeadAndTail
    <3>3. h \o t = b BY <3>1, <3>2, HeadAndTail
    <3>4. (w \o h) \o t = w \o (h \o t) BY ConcatAssociative
    <3>5. w \o << >> = w BY ConcatEmptySeq
    <3> QED BY <3>2, <3>3, <3>4, <3>5
  <2>4. Admitted(p)' = Admitted(p) BY <2>1, <2>2, <2>3 DEF Admitted
  <2>5. StreamOK' /\ OwnerOK' BY <1>1, <1>4, <1>5, <2>1, <2>4, StreamsShrink
  <2>6. \A k \in Keys : session_gen'[k] <= next_gen' BY <1>1 DEF StreamInv, EntryOK
  <2>7. EntryOK' BY <1>1, <1>3, <1>4, <2>6, EntryKept
  <2> QED BY <2>5, <2>7 DEF StreamInv
<1>7. CASE WriterWrite(p)
  <2>1. /\ inflight[p] # << >> /\ inflight'[p] = << >> /\ queue'[p] = queue[p]
        /\ wire'[p] = IF sock[p] = "open" THEN Append(wire[p], inflight[p][1]) ELSE wire[p]
    BY <1>2, <1>7 DEF WriterWrite
  <2>2. PICK w \in Seq(Frames), a \in Seq(Frames), b \in Seq(Frames) : w = wire[p] /\ a = inflight[p] /\ b = queue[p]
    BY <1>2
  <2>3. a[1] \in Frames /\ a = <<a[1]>>
    <3>1. a # << >> /\ Len(a) <= 1 BY <1>2, <2>1, <2>2
    <3> QED BY <3>1, OneLine
  <2>4. Append(w, a[1]) = w \o a /\ w \o a \in Seq(Frames) BY <2>3, AppendIsConcat, ConcatPrefix
  <2>5. (Append(w, a[1]) \o << >>) \o b = (w \o a) \o b BY <2>4, ConcatEmptySeq
  <2>6. sock[p] = "open" => Admitted(p)' = Admitted(p) BY <2>1, <2>2, <2>5 DEF Admitted
  <2>7. StreamOK' /\ OwnerOK' BY <1>1, <1>4, <1>5, <2>1, <2>6, StreamsShrink
  <2>8. \A k \in Keys : session_gen'[k] <= next_gen' BY <1>1 DEF StreamInv, EntryOK
  <2>9. EntryOK' BY <1>1, <1>3, <1>4, <2>8, EntryKept
  <2> QED BY <2>7, <2>9 DEF StreamInv
<1> QED BY <1>6, <1>7

\* One more line for a producer.
LEMMA LineSound ==
    ASSUME NEW p, NEW w \in Seq(Frames), NEW f \in Frames, SoundFor(w, p),
           \A i \in 1 .. Len(w) : w[i].sess <= f.sess /\ (f.kind = "attach" => w[i].sess < f.sess),
           Plain(f), f.by # None => my_session_gen[f.by] # 0 /\ my_gen[p] = registration[f.by],
           p \in Lifecycle => IF f.kind = "attach" THEN \A g \in Nat : ~Open(w, g) ELSE Open(w, f.sess)
    PROVE  /\ Append(w, f) \in Seq(Frames) /\ SoundFor(Append(w, f), p)
           /\ \A i \in 1 .. Len(Append(w, f)) : Append(w, f)[i].sess <= f.sess
<1>1. PICK v \in Seq(Frames) : v = Append(w, f) BY AppendPrefix
<1>2. PICK n \in Nat : n = Len(w) OBVIOUS
<1>3. Len(v) = n + 1 /\ v[n + 1] = f /\ \A i \in 1 .. n : v[i] = w[i] BY <1>1, <1>2
<1>4. \A i \in 1 .. n + 1 : i \in 1 .. n \/ i = n + 1 BY <1>2
<1>5. \A i \in 1 .. n + 1 : v[i].sess <= f.sess
  <2>1. f.sess \in Nat /\ f.sess <= f.sess BY DEF Frames
  <2> QED BY <1>2, <1>3, <1>4, <2>1
<1>6. Routed(v, p) BY <1>2, <1>3, <1>4 DEF Routed, SoundFor
<1>7. Ordered(v) /\ (p \in Lifecycle => Bracketed(v)) BY <1>1, SoundAppend DEF SoundFor
<1> QED BY <1>1, <1>3, <1>5, <1>6, <1>7 DEF SoundFor

\* What the entry of a producer whose transport is up says of its stream.
LEMMA EntryStream ==
    ASSUME TypeInv, StreamInv, NEW k \in Keys, conn[k] # None
    PROVE  /\ conn[k] \in Producers /\ Admitted(conn[k]) \in Seq(Frames)
           /\ my_gen[conn[k]] = gen[k] /\ pphase[conn[k]] = "serving"
           /\ session_gen[k] \in Nat /\ session_gen[k] <= next_gen /\ next_gen \in Nat
           /\ sock[conn[k]] = "open" => SoundFor(Admitted(conn[k]), conn[k]) /\ Follows(Admitted(conn[k]), k)
<1>1. conn[k] \in Producers /\ session_gen[k] \in Nat /\ next_gen \in Nat BY DEF TypeInv, TypeOK, RegistryOK
<1>2. Admitted(conn[k]) \in Seq(Frames) BY <1>1, StreamTypes
<1>3. ASSUME sock[conn[k]] = "open" PROVE SoundFor(Admitted(conn[k]), conn[k]) /\ Follows(Admitted(conn[k]), k)
  <2>1. SoundFor(Readable(conn[k]), conn[k]) BY <1>1 DEF StreamInv, StreamOK
  <2> QED BY <1>3, <2>1 DEF StreamInv, OwnerOK, Readable
<1> QED BY <1>1, <1>2, <1>3 DEF StreamInv, EntryOK

LEMMA AppendOne ==
    ASSUME NEW S, NEW w \in Seq(S), NEW f \in S, NEW h \in S
    PROVE  /\ <<f>> \in Seq(S) /\ <<f, h>> \in Seq(S)
           /\ w \o <<f>> = Append(w, f) /\ w \o <<f, h>> = Append(Append(w, f), h)
<1>1. <<f>> \in Seq(S) /\ <<h>> \in Seq(S) /\ <<f, h>> \in Seq(S) OBVIOUS
<1>2. w \o <<f>> = Append(w, f) BY AppendIsConcat
<1>3. <<f, h>> = <<f>> \o <<h>>
  <2>1. Append(<<f>>, h) = <<f>> \o <<h>> BY <1>1, AppendIsConcat
  <2>2. PICK a \in Seq(S), b \in Seq(S) : a = <<f, h>> /\ b = <<f>> BY <1>1
  <2>3. Len(b) = 1 /\ b[1] = f /\ Len(a) = 2 /\ a[1] = f /\ a[2] = h BY <2>2
  <2>4. /\ Append(b, h) \in Seq(S) /\ Len(Append(b, h)) = 2
        /\ Append(b, h)[1] = f /\ Append(b, h)[2] = h
    <3>1. /\ Append(b, h) \in Seq(S) /\ Len(Append(b, h)) = Len(b) + 1
          /\ \A i \in 1 .. Len(b) : Append(b, h)[i] = b[i]
          /\ Append(b, h)[Len(b) + 1] = h
      BY AppendProperties
    <3>2. Len(b) + 1 = 2 /\ 1 \in 1 .. Len(b) BY <2>3
    <3> QED BY <2>3, <3>1, <3>2
  <2>5. \A i \in 1 .. 2 : i = 1 \/ i = 2 OBVIOUS
  <2>6. Append(b, h) = a BY <2>3, <2>4, <2>5, SeqEqual
  <2> QED BY <2>1, <2>2, <2>6
<1>4. PICK a \in Seq(S), b \in Seq(S) : a = <<f>> /\ b = <<h>> BY <1>1
<1>5. w \o (a \o b) = (w \o a) \o b BY ConcatAssociative
<1>6. Append(w, f) \in Seq(S) OBVIOUS
<1>7. Append(w, f) \o <<h>> = Append(Append(w, f), h) BY <1>6, AppendIsConcat
<1> QED BY <1>1, <1>2, <1>3, <1>4, <1>5, <1>7

LEMMA WriterFailStreams ==
    ASSUME TypeInv, TypeInv', StreamInv, Settled, NEW p \in Producers, WriterFail(p) \/ ProducerCrash(p)
    PROVE  StreamInv'
<1>1. UNCHANGED <<registry, my_name, my_gen, pphase, wire>> BY DEF WriterFail, StopWriter, ProducerCrash
<1>2. /\ inflight \in [Producers -> Seq(Frames)] /\ queue \in [Producers -> Seq(Frames)]
      /\ sock \in [Producers -> {"open", "peer_closed", "shut"}]
  BY DEF TypeInv, TypeOK, OutboundOK
<1>3. sock'[p] # "open" BY <1>2 DEF WriterFail, StopWriter, ProducerCrash
<1>4. pphase[p] # "hello" BY DEF StreamInv, EntryOK, WriterFail, ProducerCrash
<1>5. \A q \in Producers \ {p} : sock'[q] = sock[q] /\ inflight'[q] = inflight[q] /\ queue'[q] = queue[q]
  BY <1>2 DEF WriterFail, StopWriter, ProducerCrash
<1>6. \A q \in Producers \ {p} : Admitted(q)' = Admitted(q) BY <1>1, <1>5 DEF Admitted
<1>7. StreamOK' /\ OwnerOK' BY <1>1, <1>3, <1>5, <1>6, StreamsShrink
<1>8. \A k \in Keys : session_gen'[k] <= next_gen' BY <1>1 DEF StreamInv, EntryOK
<1>9. EntryOK' BY <1>1, <1>4, <1>5, <1>8, EntryKept
<1> QED BY <1>7, <1>9 DEF StreamInv

LEMMA EofStreams ==
    ASSUME TypeInv, TypeInv', StreamInv, Settled, NEW p \in Producers, ProducerEof(p)
    PROVE  StreamInv'
<1>1. UNCHANGED <<my_name, my_gen, next_gen, wire>> BY DEF ProducerEof, StopWriter
<1>2. /\ inflight \in [Producers -> Seq(Frames)] /\ queue \in [Producers -> Seq(Frames)]
      /\ sock \in [Producers -> {"open", "peer_closed", "shut"}]
      /\ pphase \in [Producers -> {"hello", "serving", "gone"}]
      /\ conn \in [Keys -> Producers \cup {None}] /\ gen \in [Keys -> Nat]
      /\ session \in [Keys -> Sessions \cup {None}] /\ session_gen \in [Keys -> Nat] /\ next_gen \in Nat
  BY DEF TypeInv, TypeOK, OutboundOK, RegistryOK, EmulatorsOK
<1>3. sock'[p] # "open" /\ pphase[p] = "serving" /\ pphase'[p] = "gone"
  BY <1>2 DEF ProducerEof, StopWriter
<1>4. \A q \in Producers \ {p} : /\ sock'[q] = sock[q] /\ inflight'[q] = inflight[q] /\ queue'[q] = queue[q]
                                 /\ pphase'[q] = pphase[q]
  BY <1>2 DEF ProducerEof, StopWriter
<1>5. \A q \in Producers \ {p} : Admitted(q)' = Admitted(q) BY <1>1, <1>4 DEF Admitted
<1>6. my_name[p] \in Keys BY <1>3 DEF TypeInv, Named
<1>7. ASSUME NEW k \in Keys, conn'[k] # None
      PROVE  /\ conn'[k] = conn[k] /\ session'[k] = session[k] /\ session_gen'[k] = session_gen[k]
             /\ gen'[k] = gen[k] /\ conn[k] # p
  <2>1. CASE gen[my_name[p]] = my_gen[p]
    <3>1. k # my_name[p] BY <1>2, <1>6, <1>7, <2>1 DEF ProducerEof
    <3>2. conn'[k] = conn[k] /\ session'[k] = session[k] /\ session_gen'[k] = session_gen[k] /\ gen'[k] = gen[k]
      BY <1>2, <1>6, <2>1, <3>1 DEF ProducerEof
    <3>3. conn[k] # p BY <1>7, <3>1, <3>2 DEF StreamInv, EntryOK
    <3> QED BY <3>2, <3>3
  <2>2. CASE gen[my_name[p]] # my_gen[p]
    <3>1. conn'[k] = conn[k] /\ session'[k] = session[k] /\ session_gen'[k] = session_gen[k] /\ gen'[k] = gen[k]
      BY <2>2 DEF ProducerEof
    <3>2. conn[k] # p BY <1>7, <2>2, <3>1 DEF StreamInv, EntryOK
    <3> QED BY <3>1, <3>2
  <2> QED BY <2>1, <2>2
<1>8. StreamOK' /\ OwnerOK' BY <1>1, <1>3, <1>4, <1>5, <1>7, StreamsShrink
<1>9. \A k \in Keys : session_gen'[k] <= next_gen'
  <2>1. \A k \in Keys : session_gen'[k] = session_gen[k] \/ session_gen'[k] = 0 BY <1>2, <1>6 DEF ProducerEof
  <2>2. \A k \in Keys : session_gen[k] <= next_gen BY DEF StreamInv, EntryOK
  <2>3. \A k \in Keys : session_gen[k] \in Nat BY <1>2
  <2>4. next_gen \in Nat /\ next_gen' >= next_gen /\ next_gen' \in Nat BY <1>1, <1>2
  <2>5. ASSUME NEW k \in Keys PROVE session_gen'[k] <= next_gen'
    <3>1. PICK x \in Nat : x = session_gen[k] /\ x <= next_gen BY <2>2, <2>3
    <3>2. session_gen'[k] = x \/ session_gen'[k] = 0 BY <2>1, <3>1
    <3> QED BY <2>4, <3>1, <3>2
  <2> QED BY <2>5
<1>10. \A k \in Keys : conn'[k] # None => my_name'[conn'[k]] = k /\ pphase'[conn'[k]] = "serving" /\ my_gen'[conn'[k]] = gen'[k]
  BY <1>1, <1>2, <1>4, <1>7 DEF StreamInv, EntryOK
<1>11. \A q \in Producers : pphase'[q] = "hello" =>
          sock'[q] # "open" /\ wire'[q] = << >> /\ inflight'[q] = << >> /\ queue'[q] = << >>
  BY <1>1, <1>3, <1>4 DEF StreamInv, EntryOK
<1>12. EntryOK' BY <1>9, <1>10, <1>11 DEF EntryOK
<1> QED BY <1>8, <1>12 DEF StreamInv

LEMMA RegisterStreams ==
    ASSUME TypeInv, TypeInv', StreamInv, Settled, NEW p \in Producers, Register(p)
    PROVE  StreamInv'
<1>1. UNCHANGED <<queue, inflight, wire>> /\ next_gen' = next_gen + 1 BY DEF Register
<1>2. /\ sock \in [Producers -> {"open", "peer_closed", "shut"}]
      /\ pphase \in [Producers -> {"hello", "serving", "gone"}]
      /\ my_name \in [Producers -> Keys \cup {None}] /\ my_gen \in [Producers -> Nat]
      /\ conn \in [Keys -> Producers \cup {None}] /\ gen \in [Keys -> Nat]
      /\ session \in [Keys -> Sessions \cup {None}] /\ session_gen \in [Keys -> Nat] /\ next_gen \in Nat
  BY DEF TypeInv, TypeOK, OutboundOK, RegistryOK, EmulatorsOK
<1>3. PICK k \in Keys \ Occupied :
        /\ conn' = [conn EXCEPT ![k] = p] /\ gen' = [gen EXCEPT ![k] = next_gen + 1]
        /\ session' = [session EXCEPT ![k] = None] /\ session_gen' = [session_gen EXCEPT ![k] = 0]
        /\ my_name' = [my_name EXCEPT ![p] = k]
  BY DEF Register
<1>4. /\ sock'[p] = "open" /\ pphase[p] = "hello" /\ pphase'[p] = "serving" /\ my_gen'[p] = next_gen + 1
      /\ my_name'[p] = k /\ conn'[k] = p /\ gen'[k] = next_gen + 1 /\ session'[k] = None /\ session_gen'[k] = 0
  BY <1>2, <1>3 DEF Register
<1>5. \A q \in Producers \ {p} : /\ sock'[q] = sock[q] /\ pphase'[q] = pphase[q] /\ my_gen'[q] = my_gen[q]
                                 /\ my_name'[q] = my_name[q] /\ Admitted(q)' = Admitted(q)
  BY <1>1, <1>2, <1>3 DEF Register, Admitted
<1>6. \A j \in Keys \ {k} : /\ conn'[j] = conn[j] /\ gen'[j] = gen[j] /\ session'[j] = session[j]
                            /\ session_gen'[j] = session_gen[j]
  BY <1>2, <1>3
<1>7. wire[p] = << >> /\ inflight[p] = << >> /\ queue[p] = << >> BY <1>4 DEF StreamInv, EntryOK
<1>8. Admitted(p)' = << >> BY <1>1, <1>7 DEF Admitted
<1>9. \A j \in Keys : conn[j] # p BY <1>4 DEF StreamInv, EntryOK
<1>10. ASSUME NEW q \in Producers PROVE SoundFor(Readable(q), q)'
  <2>1. CASE q = p
    <3>1. Readable(q)' = << >> BY <1>4, <1>8, <2>1 DEF Readable
    <3> QED BY <3>1 DEF SoundFor, Ordered, Routed, Bracketed
  <2>2. CASE q # p
    <3>1. PICK v \in Seq(Frames) : v = Readable(q) BY StreamTypes
    <3>2. Readable(q)' = v BY <1>1, <1>5, <2>2, <3>1 DEF Readable
    <3>3. SoundFor(v, q) BY <3>1 DEF StreamInv, StreamOK
    <3>4. Routed(v, q)' BY <1>5, <2>2, <3>3, RoutedKept DEF SoundFor
    <3>5. Ordered(Readable(q))' BY <3>2, <3>3 DEF SoundFor, Ordered, Plain, AttachFrame
    <3>6. (q \in Lifecycle => Bracketed(Readable(q)))' BY <3>2, <3>3 DEF SoundFor, Bracketed, OpenBefore, AttachFrame
    <3>7. Routed(Readable(q), q)' BY <3>2, <3>4 DEF Routed
    <3> QED BY <3>5, <3>6, <3>7 DEF SoundFor
  <2> QED BY <2>1, <2>2
<1>11. ASSUME NEW j \in Keys, conn'[j] # None, sock'[conn'[j]] = "open" PROVE Follows(Admitted(conn[j]), j)'
  <2>1. CASE j = k
    <3>1. Admitted(conn[j])' = << >> BY <1>4, <1>8, <2>1 DEF Admitted
    <3>2. \A g : ~OpenBefore(<< >>, g, 0 + 1)' BY DEF OpenBefore
    <3>3. Follows(<< >>, j)' BY <1>4, <2>1, <3>2 DEF Follows, Open
    <3> QED BY <3>1, <3>3 DEF Follows, Open, OpenBefore
  <2>2. CASE j # k
    <3>1. conn[j] \in Producers /\ conn'[j] = conn[j] BY <1>2, <1>6, <1>11, <2>2
    <3>2. sock[conn[j]] = "open" /\ Admitted(conn[j])' = Admitted(conn[j])
      <4>1. PICK q \in Producers \ {p} : q = conn[j] /\ q = conn'[j] BY <1>9, <3>1
      <4>2. sock'[q] = sock[q] /\ Admitted(q)' = Admitted(q) BY <1>5, <4>1
      <4> QED BY <1>11, <3>1, <4>1, <4>2 DEF Admitted
    <3>3. Follows(Admitted(conn[j]), j) BY <1>11, <3>1, <3>2 DEF StreamInv, OwnerOK
    <3> QED BY <1>6, <2>2, <3>1, <3>2, <3>3 DEF Follows, Open, OpenBefore, AttachFrame
  <2> QED BY <2>1, <2>2
<1>12. \A j \in Keys : conn'[j] # None => my_name'[conn'[j]] = j /\ pphase'[conn'[j]] = "serving" /\ my_gen'[conn'[j]] = gen'[j]
  <2> SUFFICES ASSUME NEW j \in Keys, conn'[j] # None
               PROVE  my_name'[conn'[j]] = j /\ pphase'[conn'[j]] = "serving" /\ my_gen'[conn'[j]] = gen'[j]
    OBVIOUS
  <2>1. CASE j = k BY <1>4, <2>1
  <2>2. CASE j # k
    <3>1. conn'[j] = conn[j] /\ conn[j] \in Producers \ {p} BY <1>2, <1>6, <1>9, <2>2
    <3> QED BY <1>5, <1>6, <2>2, <3>1 DEF StreamInv, EntryOK
  <2> QED BY <2>1, <2>2
<1>13. \A j \in Keys : session_gen'[j] <= next_gen'
  <2>1. \A j \in Keys : session_gen'[j] = session_gen[j] \/ session_gen'[j] = 0 BY <1>4, <1>6
  <2>2. \A j \in Keys : session_gen[j] <= next_gen BY DEF StreamInv, EntryOK
  <2>3. \A j \in Keys : session_gen[j] \in Nat BY <1>2
  <2>4. next_gen \in Nat /\ next_gen' >= next_gen /\ next_gen' \in Nat BY <1>1, <1>2
  <2>5. ASSUME NEW j \in Keys PROVE session_gen'[j] <= next_gen'
    <3>1. PICK x \in Nat : x = session_gen[j] /\ x <= next_gen BY <2>2, <2>3
    <3>2. session_gen'[j] = x \/ session_gen'[j] = 0 BY <2>1, <3>1
    <3> QED BY <2>4, <3>1, <3>2
  <2> QED BY <2>5
<1>14. \A q \in Producers : pphase'[q] = "hello" =>
          sock'[q] # "open" /\ wire'[q] = << >> /\ inflight'[q] = << >> /\ queue'[q] = << >>
  BY <1>1, <1>4, <1>5 DEF StreamInv, EntryOK
<1>15. EntryOK' BY <1>12, <1>13, <1>14 DEF EntryOK
<1> QED BY <1>10, <1>11, <1>15 DEF StreamInv, StreamOK, OwnerOK

\* The loss of the old session and the new one, in one critical section.
LEMMA AttachStreams ==
    ASSUME TypeInv, TypeInv', AskInv, StreamInv, Settled, NEW s \in Sessions, Attach(s)
    PROVE  StreamInv'
<1>1. PICK k \in Keys : /\ conn[k] # None /\ Enqueue(conn[k], PairLines(k, next_gen + 1))
        /\ session' = [session EXCEPT ![k] =
                IF Len(PairLines(k, next_gen + 1)) <= Room(conn[k]) THEN s ELSE None]
        /\ session_gen' = [session_gen EXCEPT ![k] =
                IF Len(PairLines(k, next_gen + 1)) <= Room(conn[k]) THEN next_gen + 1 ELSE @]
  BY DEF Attach, Pick, Occupied
<1>2. UNCHANGED <<conn, gen, emulators>> /\ next_gen' = next_gen + 1 BY DEF Attach
<1>3. PICK p \in Producers : p = conn[k] BY <1>1, EntryStream
<1>4. PICK g \in Nat : g = next_gen + 1 /\ next_gen \in Nat /\ g > next_gen BY <1>1, EntryStream
<1>5. PICK lines \in Seq(Frames) : lines = PairLines(k, g)
  BY <1>4, PairLinesType DEF TypeInv, TypeOK
<1>6. \A j \in Keys \ {k} : session'[j] = session[j] /\ session_gen'[j] = session_gen[j]
  BY <1>1 DEF TypeInv, TypeOK, RegistryOK
<1>7. ASSUME sock[p] = "open", Len(lines) <= Room(p)
      PROVE  /\ SoundFor(Admitted(p) \o lines, p)
             /\ \A i \in 1 .. Len(Admitted(p) \o lines) : (Admitted(p) \o lines)[i].sess <= session_gen'[k]
             /\ p \in Lifecycle => \A h \in Nat :
                    Open(Admitted(p) \o lines, h) <=> (session'[k] # None /\ session_gen'[k] = h)
  <2>1. session'[k] = s /\ session_gen'[k] = g /\ s # None
    BY <1>1, <1>3, <1>4, <1>5, <1>7 DEF TypeInv, TypeOK, RegistryOK
  <2>2. PICK w \in Seq(Frames) : w = Admitted(p) BY <1>1, <1>3, EntryStream
  <2>3. PICK o \in Nat : o = session_gen[k] /\ o < g
    <3>1. session_gen[k] \in Nat /\ session_gen[k] <= next_gen BY <1>1, EntryStream
    <3> QED BY <1>4, <3>1
  <2>4. SoundFor(w, p) /\ Follows(w, k) BY <1>1, <1>3, <1>7, <2>2, EntryStream
  <2>5. AttachFrame(g) \in Frames /\ DetachFrame(o) \in Frames BY FrameTypes
  <2>6. \A i \in 1 .. Len(w) : w[i].sess \in Nat /\ w[i].sess <= o
    <3>1. \A i \in 1 .. Len(w) : w[i] \in Frames OBVIOUS
    <3> QED BY <2>3, <2>4, <3>1 DEF Follows, Frames
  <2>7. \A i \in 1 .. Len(w) : w[i].sess <= g /\ w[i].sess < g BY <2>3, <2>6
  <2>g. g # 0 BY <1>4
  <2>8. CASE p \notin Lifecycle
    <3>1. lines = << >> BY <1>3, <1>5, <2>8 DEF PairLines, LifecycleLines
    <3>2. w \o lines = w BY <3>1, ConcatEmptySeq
    <3> QED BY <2>1, <2>2, <2>4, <2>7, <2>8, <3>2
  <2>9. CASE p \in Lifecycle /\ session[k] = None
    <3>1. lines = <<AttachFrame(g)>> BY <1>3, <1>5, <2>9 DEF PairLines, LifecycleLines
    <3>2. PICK f \in Frames : f = AttachFrame(g) BY <2>5
    <3>3. f.kind = "attach" /\ f.sess = g /\ f.by = None /\ Plain(f) BY <2>g, <3>2 DEF AttachFrame, Plain
    <3>4. \A h \in Nat : ~Open(w, h) BY <1>3, <2>4, <2>9 DEF Follows
    <3>5. PICK v \in Seq(Frames) : v = Append(w, f) BY AppendPrefix
    <3>6. SoundFor(v, p) /\ \A i \in 1 .. Len(v) : v[i].sess <= g
      BY <2>4, <2>7, <2>g, <3>3, <3>4, <3>5, LineSound
    <3>7. \A h \in Nat : Open(v, h) <=> h = g
      <4>1. \A h \in Nat : Open(v, h) <=> f = AttachFrame(h) BY <3>3, <3>5, OpenOfAppend
      <4>2. \A h \in Nat : f = AttachFrame(h) <=> h = g BY <3>2 DEF AttachFrame
      <4> QED BY <4>1, <4>2
    <3>8. w \o lines = v BY <3>1, <3>2, <3>5, AppendOne
    <3> QED BY <2>1, <2>2, <3>6, <3>7, <3>8
  <2>10. CASE p \in Lifecycle /\ session[k] # None
    <3>1. lines = <<DetachFrame(o), AttachFrame(g)>> BY <1>3, <1>5, <2>3, <2>10 DEF PairLines, LifecycleLines
    <3>2. PICK d \in Frames, f \in Frames : d = DetachFrame(o) /\ f = AttachFrame(g) BY <2>5
    <3>3. /\ f.kind = "attach" /\ f.sess = g /\ f.by = None
          /\ d.kind = "detach" /\ d.sess = o /\ d.by = None
      BY <3>2 DEF AttachFrame, DetachFrame
    <3>4. Open(w, o) /\ o # 0 BY <1>3, <2>3, <2>4, <2>10 DEF Follows, AskInv, PairingOK
    <3>p. Plain(d) /\ Plain(f) BY <2>g, <3>2, <3>3, <3>4 DEF Plain
    <3>5. PICK u \in Seq(Frames), v \in Seq(Frames) : u = Append(w, d) /\ v = Append(u, f) BY AppendPrefix
    <3>6. SoundFor(u, p) /\ \A i \in 1 .. Len(u) : u[i].sess <= o
      BY <2>4, <2>6, <3>3, <3>4, <3>5, <3>p, LineSound
    <3>7. \A h \in Nat : ~Open(u, h)
      <4>1. \A h \in Nat : Open(u, h) <=> d = AttachFrame(h) BY <3>3, <3>5, OpenOfAppend
      <4> QED BY <3>3, <4>1 DEF AttachFrame
    <3>8. \A i \in 1 .. Len(u) : u[i].sess <= g /\ u[i].sess < g
      <4>1. \A i \in 1 .. Len(u) : u[i] \in Frames OBVIOUS
      <4>2. \A i \in 1 .. Len(u) : u[i].sess \in Nat BY <4>1 DEF Frames
      <4> QED BY <2>3, <3>6, <4>2
    <3>9. SoundFor(v, p) /\ \A i \in 1 .. Len(v) : v[i].sess <= g
      BY <3>3, <3>5, <3>6, <3>7, <3>8, <3>p, LineSound
    <3>10. \A h \in Nat : Open(v, h) <=> h = g
      <4>1. \A h \in Nat : Open(v, h) <=> f = AttachFrame(h) BY <3>3, <3>5, OpenOfAppend
      <4>2. \A h \in Nat : f = AttachFrame(h) <=> h = g BY <3>2 DEF AttachFrame
      <4> QED BY <4>1, <4>2
    <3>11. w \o lines = v BY <3>1, <3>2, <3>5, AppendOne
    <3> QED BY <2>1, <2>2, <3>9, <3>10, <3>11
  <2> QED BY <2>8, <2>9, <2>10
<1>8. Enqueue(p, lines) BY <1>1, <1>3, <1>4, <1>5
<1>9. StreamOK' /\ OwnerOK' BY <1>2, <1>3, <1>6, <1>7, <1>8, StreamsEnqueue
<1>10. \A j \in Keys : session_gen'[j] <= next_gen'
  <2>1. \A j \in Keys : session_gen[j] \in Nat BY DEF TypeInv, TypeOK, RegistryOK
  <2>2. \A j \in Keys : session_gen[j] <= next_gen BY DEF StreamInv, EntryOK
  <2>3. \A j \in Keys : session_gen'[j] = session_gen[j] \/ session_gen'[j] = g
    BY <1>1, <1>4 DEF TypeInv, TypeOK, RegistryOK
  <2> QED BY <1>2, <1>4, <2>1, <2>2, <2>3
<1>11. EntryOK'
  <2>1. pphase[p] # "hello" BY <1>1, <1>3, EntryStream
  <2>2. \A q \in Producers \ {p} : /\ sock'[q] = sock[q] /\ wire'[q] = wire[q] /\ inflight'[q] = inflight[q]
                                   /\ queue'[q] = queue[q]
    BY <1>8 DEF Enqueue, TypeInv, TypeOK, OutboundOK
  <2> QED BY <1>2, <1>10, <2>1, <2>2, EntryKept
<1> QED BY <1>9, <1>11 DEF StreamInv

\* A request of the session that is paired, or its end.
LEMMA PairedStreams ==
    ASSUME TypeInv, TypeInv', AskInv, StreamInv, Settled, NEW s \in Sessions, Paired(s),
           phase[s] \in {"encoding", "ending"}, NEW lines \in Seq(Frames), Enqueue(conn[name[s]], lines),
           UNCHANGED <<conn, gen, session_gen, next_gen, emulators>>,
           \/ lines = <<RequestFrame(s)>> /\ UNCHANGED session
           \/ /\ lines = LifecycleLines(conn[name[s]], <<DetachFrame(my_session_gen[s])>>)
              /\ session' = [session EXCEPT ![name[s]] = None]
    PROVE  StreamInv'
<1>1. PICK k \in Keys : k = name[s] BY DEF TypeInv, Named
<1>2. conn[k] # None /\ session[k] # None BY <1>1 DEF Paired, TypeInv, Named
<1>3. PICK p \in Producers : p = conn[k] BY <1>2, EntryStream
<1>4. PICK g \in Nat : g = session_gen[k] /\ g = my_session_gen[s] /\ g # 0
  BY <1>1 DEF Paired, AskInv, GensOK, TypeInv, TypeOK, RegistryOK
<1>5. my_gen[p] = registration[s] BY <1>1, <1>2, <1>3, EntryStream DEF Paired
<1>6. \A j \in Keys \ {k} : session'[j] = session[j] /\ session_gen'[j] = session_gen[j]
  BY <1>1 DEF TypeInv, TypeOK, RegistryOK
<1>7. ASSUME sock[p] = "open"
      PROVE  /\ SoundFor(Admitted(p) \o lines, p)
             /\ \A i \in 1 .. Len(Admitted(p) \o lines) : (Admitted(p) \o lines)[i].sess <= session_gen'[k]
             /\ p \in Lifecycle => \A h \in Nat :
                    Open(Admitted(p) \o lines, h) <=> (session'[k] # None /\ session_gen'[k] = h)
  <2>1. session_gen'[k] = g BY <1>4
  <2>2. PICK w \in Seq(Frames) : w = Admitted(p) BY <1>2, <1>3, EntryStream
  <2>3. SoundFor(w, p) /\ Follows(w, k) BY <1>2, <1>3, <1>7, <2>2, EntryStream
  <2>4. \A i \in 1 .. Len(w) : w[i].sess <= g BY <1>4, <2>3 DEF Follows
  <2>5. p \in Lifecycle => \A h \in Nat : Open(w, h) <=> h = g BY <1>2, <1>3, <1>4, <2>3 DEF Follows
  <2>6. CASE lines = <<RequestFrame(s)>> /\ UNCHANGED session
    <3>1. PICK f \in Frames : f = RequestFrame(s) BY RequestType DEF TypeInv, TypeOK
    <3>2. f.kind = "request" /\ f.sess = g /\ f.by = s /\ Plain(f) BY <1>4, <3>1 DEF RequestFrame, Plain
    <3>3. PICK v \in Seq(Frames) : v = Append(w, f) BY AppendPrefix
    <3>4. SoundFor(v, p) /\ \A i \in 1 .. Len(v) : v[i].sess <= g
      <4>1. \A i \in 1 .. Len(w) : w[i].sess <= f.sess /\ (f.kind = "attach" => w[i].sess < f.sess) BY <2>4, <3>2
      <4>2. my_session_gen[f.by] # 0 /\ my_gen[p] = registration[f.by] BY <1>4, <1>5, <3>2
      <4>3. p \in Lifecycle => Open(w, f.sess) BY <2>5, <3>2
      <4> QED BY <2>3, <3>2, <3>3, <4>1, <4>2, <4>3, LineSound
    <3>5. \A h \in Nat : Open(v, h) <=> Open(w, h)
      <4>1. \A h \in Nat : f # AttachFrame(h) BY <3>2 DEF AttachFrame
      <4> QED BY <3>2, <3>3, <4>1, OpenOfAppend
    <3>6. w \o lines = v BY <2>6, <3>1, <3>3, AppendOne
    <3> QED BY <1>2, <2>1, <2>2, <2>5, <2>6, <3>4, <3>5, <3>6
  <2>7. CASE /\ lines = LifecycleLines(p, <<DetachFrame(g)>>)
             /\ session' = [session EXCEPT ![k] = None]
    <3>1. session'[k] = None BY <2>7 DEF TypeInv, TypeOK, RegistryOK
    <3>2. CASE p \notin Lifecycle
      <4>1. w \o lines = w BY <2>7, <3>2, ConcatEmptySeq DEF LifecycleLines
      <4> QED BY <2>1, <2>2, <2>3, <2>4, <3>2, <4>1
    <3>3. CASE p \in Lifecycle
      <4>1. PICK f \in Frames : f = DetachFrame(g) BY FrameTypes
      <4>2. f.kind = "detach" /\ f.sess = g /\ f.by = None /\ Plain(f) BY <1>4, <4>1 DEF DetachFrame, Plain
      <4>3. PICK v \in Seq(Frames) : v = Append(w, f) BY AppendPrefix
      <4>4. SoundFor(v, p) /\ \A i \in 1 .. Len(v) : v[i].sess <= g
        BY <1>4, <2>3, <2>4, <2>5, <3>3, <4>2, <4>3, LineSound
      <4>5. \A h \in Nat : ~Open(v, h)
        <5>1. \A h \in Nat : f # AttachFrame(h) BY <4>2 DEF AttachFrame
        <5> QED BY <4>2, <4>3, <5>1, OpenOfAppend
      <4>6. w \o lines = v BY <2>7, <3>3, <4>1, <4>3, AppendOne DEF LifecycleLines
      <4> QED BY <2>1, <2>2, <3>1, <4>4, <4>5, <4>6
    <3> QED BY <3>2, <3>3
  <2> QED BY <1>1, <1>3, <1>4, <2>6, <2>7
<1>8. Enqueue(p, lines) BY <1>1, <1>3
<1>9. StreamOK' /\ OwnerOK' BY <1>3, <1>6, <1>7, <1>8, StreamsEnqueue
<1>10. \A j \in Keys : session_gen'[j] <= next_gen' BY DEF StreamInv, EntryOK
<1>11. EntryOK'
  <2>1. pphase[p] # "hello" BY <1>2, <1>3, EntryStream
  <2>2. \A q \in Producers \ {p} : /\ sock'[q] = sock[q] /\ wire'[q] = wire[q] /\ inflight'[q] = inflight[q]
                                   /\ queue'[q] = queue[q]
    BY <1>8, ZenonT(60) DEF Enqueue, TypeInv, TypeOK, OutboundOK
  <2> QED BY <1>10, <2>1, <2>2, EntryKept
<1> QED BY <1>9, <1>11 DEF StreamInv

LEMMA StreamInit == Init => StreamInv
<1> SUFFICES ASSUME Init PROVE StreamInv OBVIOUS
<1>1. \A p \in Producers : Readable(p) = << >> BY DEF Init, Readable
<1>2. StreamOK BY <1>1 DEF StreamOK, SoundFor, Ordered, Routed, Bracketed
<1>3. OwnerOK /\ EntryOK BY DEF Init, OwnerOK, EntryOK
<1> QED BY <1>2, <1>3 DEF StreamInv

LEMMA StreamStep ==
    ASSUME TypeInv, TypeInv', AskInv, StreamInv, [Next]_vars
    PROVE  StreamInv'
<1>0. Settled BY StepSettles
<1>1. next_gen \in Nat /\ next_gen' \in Nat /\ next_gen' >= next_gen
  <2>1. next_gen \in Nat /\ next_gen' \in Nat BY DEF TypeInv, TypeOK, RegistryOK
  <2> QED BY <2>1, StepGrows DEF Grows
<1>2. ASSUME NEW p \in Producers, WriterStep(p) PROVE StreamInv'
  BY <1>0, <1>2, WriterMoves, WriterFailStreams DEF WriterStep
<1>3. ASSUME NEW p \in Producers, ProducerStep(p) PROVE StreamInv'
  <2>1. CASE Register(p) BY <1>0, <2>1, RegisterStreams
  <2>2. CASE ProducerCrash(p) BY <1>0, <2>2, WriterFailStreams
  <2>3. CASE ProducerEof(p) BY <1>0, <2>3, EofStreams
  <2>4. CASE ReadLine(p) BY <1>0, <1>1, <2>4, StreamsStill DEF ReadLine
  <2>5. CASE ForwardLine(p) BY <1>0, <1>1, <2>5, StreamsStill DEF ForwardLine
  <2>6. CASE RefuseRegistration(p)
    <3>1. UNCHANGED <<registry, my_name, my_gen, outbound>> BY <2>6 DEF RefuseRegistration
    <3>2. \A q \in Producers : sock'[q] = sock[q] /\ wire'[q] = wire[q] /\ Admitted(q)' = Admitted(q)
      BY <3>1 DEF Admitted
    <3>3. StreamOK' /\ OwnerOK' BY <1>0, <3>1, <3>2, StreamsShrink
    <3>4. pphase[p] = "hello" /\ \A q \in Producers : pphase'[q] = pphase[q] \/ (q = p /\ pphase'[q] = "gone")
      BY <2>6 DEF RefuseRegistration, TypeInv, TypeOK, EmulatorsOK
    <3>5. \A k \in Keys : conn[k] # None => conn[k] \in Producers BY DEF TypeInv, TypeOK, RegistryOK
    <3>6. EntryOK' BY <3>1, <3>4, <3>5 DEF StreamInv, EntryOK
    <3> QED BY <3>3, <3>6 DEF StreamInv
  <2> QED BY <1>3, <2>1, <2>2, <2>3, <2>4, <2>5, <2>6 DEF ProducerStep
<1>4. ASSUME NEW s \in Sessions, SessionStep(s) PROVE StreamInv'
  <2>1. CASE Attach(s) BY <1>0, <2>1, AttachStreams
  <2>2. CASE AttachRefused(s) BY <1>0, <1>1, <2>2, StreamsStill DEF AttachRefused
  <2>3. CASE AttachReply(s) BY <1>0, <1>1, <2>3, StreamsStill DEF AttachReply
  <2>4. CASE FrontendClose(s) BY <1>0, <1>1, <2>4, StreamsStill DEF FrontendClose
  <2>5. CASE AttachReplyFails(s) \/ ReadRequest(s) \/ SessionEof(s) \/ RefuseRequest(s)
    BY <1>0, <1>1, <2>5, StreamsStill DEF AttachReplyFails, ReadRequest, SessionEof, RefuseRequest, Moves
  <2>6. CASE EnqueueRequest(s)
    <3>1. UNCHANGED <<registry, emulators>> /\ phase[s] = "encoding" BY <2>6 DEF EnqueueRequest
    <3>2. CASE ~Paired(s)
      <4>1. UNCHANGED outbound BY <2>6, <3>2 DEF EnqueueRequest
      <4> QED BY <1>0, <1>1, <3>1, <4>1, StreamsStill
    <3>3. CASE Paired(s)
      <4>1. Enqueue(conn[name[s]], <<RequestFrame(s)>>) BY <2>6, <3>3 DEF EnqueueRequest
      <4>2. <<RequestFrame(s)>> \in Seq(Frames) BY RequestType DEF TypeInv, TypeOK
      <4>3. PICK lines \in Seq(Frames) : lines = <<RequestFrame(s)>> BY <4>2
      <4> QED BY <1>0, <3>1, <3>3, <4>1, <4>3, PairedStreams
    <3> QED BY <3>2, <3>3
  <2>7. CASE DetachSession(s)
    <3>1. UNCHANGED <<conn, gen, session_gen, next_gen, emulators>> /\ phase[s] = "ending"
      BY <2>7 DEF DetachSession
    <3>2. CASE ~Paired(s)
      <4>1. UNCHANGED <<session, outbound>> BY <2>7, <3>2 DEF DetachSession
      <4> QED BY <1>0, <1>1, <3>1, <4>1, StreamsStill
    <3>3. CASE Paired(s)
      <4>1. PICK lines \in Seq(Frames) : lines = LifecycleLines(conn[name[s]], <<DetachFrame(my_session_gen[s])>>)
        <5>1. DetachFrame(my_session_gen[s]) \in Frames BY FrameTypes DEF TypeInv, TypeOK, FrontendsOK
        <5>2. PICK f \in Frames : f = DetachFrame(my_session_gen[s]) BY <5>1
        <5>3. <<f>> \in Seq(Frames) /\ << >> \in Seq(Frames) OBVIOUS
        <5> QED BY <5>2, <5>3 DEF LifecycleLines
      <4>2. Enqueue(conn[name[s]], lines) /\ session' = [session EXCEPT ![name[s]] = None]
        BY <2>7, <3>3, <4>1 DEF DetachSession
      <4> QED BY <1>0, <3>1, <3>3, <4>1, <4>2, PairedStreams
    <3> QED BY <3>2, <3>3
  <2> QED BY <1>4, <2>1, <2>2, <2>3, <2>4, <2>5, <2>6, <2>7 DEF SessionStep
<1>5. CASE UNCHANGED vars BY <1>0, <1>1, <1>5, StreamsStill DEF vars
<1> QED BY <1>2, <1>3, <1>4, <1>5 DEF Next

LEMMA StreamsHold == Spec => [](TypeInv /\ AskInv /\ StreamInv)
<1>1. Init => TypeInv /\ AskInv /\ StreamInv BY TypeInit, AskInit, StreamInit
<1>2. TypeInv /\ AskInv /\ StreamInv /\ [Next]_vars => (TypeInv /\ AskInv /\ StreamInv)'
  BY TypeStep, AskStep, StreamStep
<1> QED BY <1>1, <1>2, PTL DEF Spec

\* What a producer has read is a prefix of what is sound for it.
LEMMA WireSound ==
    ASSUME TypeInv, StreamInv, NEW p \in Producers
    PROVE  wire[p] \in Seq(Frames) /\ SoundFor(wire[p], p)
<1>1. PICK v \in Seq(Frames), w \in Seq(Frames) : v = wire[p] /\ w = Readable(p) /\ Prefix(v, w) BY StreamTypes
<1>2. SoundFor(w, p) BY <1>1 DEF StreamInv, StreamOK
<1>3. SoundFor(v, p) BY <1>1, <1>2, PrefixSound, RoutedPrefix DEF SoundFor
<1> QED BY <1>1, <1>3

\* No emulator reads a request of a frontend after a line of the frontend that took over
\* from it, however long a buffered line waits in the session's thread or in the queue.
THEOREM NoRequestIsStale == Spec => []NoStaleRequest
<1>1. TypeInv /\ StreamInv => NoStaleRequest
  BY WireSound DEF SoundFor, Ordered, NoStaleRequest
<1> QED BY <1>1, StreamsHold, PTL

\* A request is read only by the emulator that its frontend was attached to, although
\* names pass from one emulator to the next while lines are on their way.
THEOREM RequestsReachTheirEmulator == Spec => []RouteKept
<1>1. TypeInv /\ StreamInv => RouteKept
  BY WireSound DEF SoundFor, Routed, RouteKept
<1> QED BY <1>1, StreamsHold, PTL

\* What a lifecycle producer reads is bracketed into attachments, and as long as its
\* transport is up the lines admitted for it leave open exactly the attachment that the
\* registry has paired: the loss of an owner is never omitted, however full the queue.
THEOREM WireTellsOwnerAlways == Spec => []WireTellsOwner
<1>1. TypeInv /\ StreamInv => WireBracketed
  BY WireSound DEF SoundFor, WireBracketed
<1>2. TypeInv /\ StreamInv => OwnerLossAnnounced
  <2> SUFFICES ASSUME TypeInv, StreamInv, NEW k \in Occupied, conn[k] \in Lifecycle, sock[conn[k]] = "open",
                      NEW g \in 1 .. next_gen
               PROVE  OpenBefore(Admitted(conn[k]), g, Len(Admitted(conn[k])) + 1)
                        <=> (session[k] # None /\ session_gen[k] = g)
    BY DEF OwnerLossAnnounced
  <2>1. k \in Keys /\ conn[k] # None BY DEF Occupied
  <2>2. Follows(Admitted(conn[k]), k) /\ next_gen \in Nat BY <2>1, EntryStream
  <2>3. g \in Nat BY <2>2
  <2> QED BY <2>2, <2>3 DEF Follows, Open
<1> QED BY <1>1, <1>2, StreamsHold, PTL DEF WireTellsOwner

-----------------------------------------------------------------------------
(* What ends a pairing.                                                     *)

\* A registration number is given out once.
RegsOK ==
    /\ \A p \in Producers : my_gen[p] <= next_gen
    /\ \A p \in Producers : pphase[p] = "serving" => my_gen[p] # 0
    /\ \A p, q \in Producers : my_gen[p] # 0 /\ my_gen[p] = my_gen[q] => p = q

LEMMA RegsStep == ASSUME TypeInv, TypeInv', RegsOK, [Next]_vars PROVE RegsOK'
<1>1. /\ next_gen \in Nat /\ next_gen' \in Nat /\ next_gen' >= next_gen
      /\ my_gen \in [Producers -> Nat] /\ pphase \in [Producers -> {"hello", "serving", "gone"}]
  <2>1. next_gen \in Nat /\ next_gen' \in Nat BY DEF TypeInv, TypeOK, RegistryOK
  <2>2. my_gen \in [Producers -> Nat] /\ pphase \in [Producers -> {"hello", "serving", "gone"}]
    BY DEF TypeInv, TypeOK, EmulatorsOK
  <2>3. next_gen' = next_gen \/ next_gen' = next_gen + 1
    BY DEF Next, vars, WriterStep, ProducerStep, SessionStep, WriterRecv, WriterWrite, WriterFail, Register,
       RefuseRegistration, ReadLine, ForwardLine, ProducerCrash, ProducerEof, Attach, AttachRefused, AttachReply,
       AttachReplyFails, FrontendClose, ReadRequest, EnqueueRequest, SessionEof, RefuseRequest, DetachSession, Moves
  <2> QED BY <2>1, <2>2, <2>3
<1>2. ASSUME NEW p \in Producers, Register(p) PROVE RegsOK'
  <2>1. my_gen' = [my_gen EXCEPT ![p] = next_gen + 1] /\ next_gen' = next_gen + 1 BY <1>2 DEF Register
  <2>2. my_gen'[p] = next_gen + 1 /\ \A q \in Producers \ {p} : my_gen'[q] = my_gen[q] BY <1>1, <2>1
  <2>3. \A q \in Producers \ {p} : pphase'[q] = pphase[q] BY <1>1, <1>2 DEF Register
  <2>4. \A q \in Producers : my_gen[q] \in Nat /\ my_gen[q] <= next_gen BY <1>1 DEF RegsOK
  <2>5. \A q \in Producers : my_gen'[q] <= next_gen' BY <1>1, <2>1, <2>2, <2>4
  <2>6. \A q \in Producers : pphase'[q] = "serving" => my_gen'[q] # 0 BY <1>1, <2>2, <2>3 DEF RegsOK
  <2>7. ASSUME NEW q \in Producers, NEW r \in Producers, my_gen'[q] # 0, my_gen'[q] = my_gen'[r] PROVE q = r
    BY <1>1, <2>2, <2>4, <2>7 DEF RegsOK
  <2> QED BY <2>5, <2>6, <2>7 DEF RegsOK
<1>3. ASSUME UNCHANGED my_gen, \A p \in Producers : pphase'[p] = "serving" => pphase[p] = "serving" PROVE RegsOK'
  <2>1. \A q \in Producers : my_gen[q] \in Nat /\ my_gen[q] <= next_gen BY <1>1 DEF RegsOK
  <2>2. \A q \in Producers : my_gen'[q] <= next_gen' BY <1>1, <1>3, <2>1
  <2> QED BY <1>3, <2>2 DEF RegsOK
<1>4. ASSUME NEW p \in Producers, RefuseRegistration(p) \/ ProducerEof(p) PROVE RegsOK'
  BY <1>1, <1>3, <1>4 DEF RefuseRegistration, ProducerEof
<1>5. (~\E p \in Producers : Register(p) \/ RefuseRegistration(p) \/ ProducerEof(p)) => UNCHANGED <<my_gen, pphase>>
  BY DEF Next, vars, WriterStep, ProducerStep, SessionStep, WriterRecv, WriterWrite, WriterFail, 
       ReadLine, ForwardLine, ProducerCrash, Attach, AttachRefused, AttachReply,
       AttachReplyFails, FrontendClose, ReadRequest, EnqueueRequest, SessionEof, RefuseRequest, DetachSession, Moves
<1> QED BY <1>2, <1>3, <1>4, <1>5

\* The pairing of a session ends by its own connection's end, with its emulator's, or
\* because a controller that was itself given this very registration comes back.
THEOREM PairingIsKept == Spec => PairingKept
<1>1. Init => TypeInv /\ AskInv /\ StreamInv /\ RegsOK
  <2>1. Init => RegsOK BY DEF Init, RegsOK
  <2> QED BY <2>1, TypeInit, AskInit, StreamInit
<1>2. TypeInv /\ AskInv /\ StreamInv /\ RegsOK /\ [Next]_vars => (TypeInv /\ AskInv /\ StreamInv /\ RegsOK)'
  BY TypeStep, AskStep, StreamStep, RegsStep
<1>3. TypeInv /\ AskInv /\ StreamInv /\ RegsOK /\ [Next]_vars =>
        [\A k \in Occupied : \A s \in Sessions :
            session[k] = s /\ session'[k] # s =>
                \/ phase[s] = "ending"
                \/ pphase'[conn[k]] = "gone"
                \/ \E t \in Sessions : /\ phase[t] = "new" /\ phase'[t] # "new"
                                      /\ known[ControllerOf[t]].reg = gen[k]]_vars
  <2> SUFFICES ASSUME TypeInv, AskInv, StreamInv, RegsOK, Next, NEW k \in Occupied, NEW s \in Sessions,
                      session[k] = s, session'[k] # s
               PROVE  \/ phase[s] = "ending"
                      \/ pphase'[conn[k]] = "gone"
                      \/ \E t \in Sessions : /\ phase[t] = "new" /\ phase'[t] # "new"
                                            /\ known[ControllerOf[t]].reg = gen[k]
    OBVIOUS
  <2>1. /\ k \in Keys /\ conn[k] # None /\ s # None /\ conn[k] \in Producers
        /\ session \in [Keys -> Sessions \cup {None}] /\ pphase \in [Producers -> {"hello", "serving", "gone"}]
        /\ phase \in [Sessions -> {"new", "attached", "reading", "encoding", "ending", "closed"}]
    BY DEF Occupied, TypeInv, TypeOK, RegistryOK, EmulatorsOK, FrontendsOK
  <2>2. ASSUME NEW p \in Producers, Register(p) PROVE FALSE
    <3>1. PICK j \in Keys \ Occupied : session' = [session EXCEPT ![j] = None] BY <2>2 DEF Register
    <3> QED BY <2>1, <3>1
  <2>3. ASSUME NEW p \in Producers, ProducerEof(p) PROVE pphase'[conn[k]] = "gone"
    <3>1. my_name[p] \in Keys BY <2>3 DEF ProducerEof, TypeInv, Named
    <3>2. k = my_name[p] /\ gen[k] = my_gen[p] BY <2>1, <2>3, <3>1 DEF ProducerEof
    <3>3. my_gen[conn[k]] = gen[k] /\ pphase[conn[k]] = "serving" BY <2>1, EntryStream
    <3>4. conn[k] = p BY <2>1, <3>2, <3>3 DEF RegsOK
    <3> QED BY <2>1, <2>3, <3>4 DEF ProducerEof
  <2>4. ASSUME NEW t \in Sessions, Attach(t)
        PROVE  phase[t] = "new" /\ phase'[t] # "new" /\ known[ControllerOf[t]].reg = gen[k]
    <3>1. PICK j \in Keys : /\ AttachAllowed(ControllerOf[t], j)
            /\ \E x : session' = [session EXCEPT ![j] = x]
            /\ \E y \in {"attached", "closed"} : phase' = [phase EXCEPT ![t] = y]
      BY <2>4 DEF Attach, Pick, Occupied
    <3>2. j = k BY <2>1, <3>1
    <3>3. phase'[t] # "new" BY <2>1, <3>1
    <3>4. known[ControllerOf[t]].reg = gen[k] BY <2>1, <3>1, <3>2 DEF AttachAllowed
    <3> QED BY <2>4, <3>3, <3>4 DEF Attach
  <2>5. ASSUME NEW t \in Sessions, DetachSession(t) PROVE phase[s] = "ending"
    <3>1. Paired(t) /\ session' = [session EXCEPT ![name[t]] = None] BY <2>1, <2>5 DEF DetachSession
    <3>2. name[t] \in Keys /\ my_session_gen[t] # 0 BY <2>5 DEF DetachSession, TypeInv, Named, AskInv, GensOK
    <3>3. k = name[t] BY <2>1, <3>1, <3>2
    <3>4. my_session_gen[s] = my_session_gen[t] BY <2>1, <3>1, <3>3 DEF Paired, AskInv, PairingOK
    <3>5. s = t BY <3>2, <3>4 DEF AskInv, GensOK
    <3> QED BY <2>5, <3>5 DEF DetachSession
  <2>6. \/ \E p \in Producers : Register(p) \/ ProducerEof(p)
        \/ \E t \in Sessions : Attach(t) \/ DetachSession(t)
    BY DEF Next, WriterStep, ProducerStep, SessionStep, WriterRecv, WriterWrite, WriterFail, RefuseRegistration,
       ReadLine, ForwardLine, ProducerCrash, AttachRefused, AttachReply,
       AttachReplyFails, FrontendClose, ReadRequest, EnqueueRequest, SessionEof, RefuseRequest, Moves
  <2> QED BY <2>2, <2>3, <2>4, <2>5, <2>6
<1> QED BY <1>1, <1>2, <1>3, PTL DEF Spec, PairingKept

-----------------------------------------------------------------------------
(* The lines of a lifecycle producer implement the stream of attachments.   *)

LEMMA LargestIndex ==
    ASSUME NEW n \in Nat, NEW T, T \subseteq 1 .. n, T # {}
    PROVE  \E i \in T : \A j \in T : j <= i
<1> DEFINE D == {n - i : i \in T}
<1>1. D \subseteq Nat /\ D # {}
  <2>1. \A i \in T : i \in 1 .. n /\ n - i \in Nat OBVIOUS
  <2>2. PICK i \in T : TRUE OBVIOUS
  <2>3. n - i \in D OBVIOUS
  <2>4. \A x \in D : x \in Nat BY <2>1
  <2> QED BY <2>3, <2>4
<1> DEFINE R == OpToRel(<, Nat)
<1>2. \A x, y \in Nat : x < y => <<x, y>> \in R BY DEF OpToRel
<1>3. IsWellFoundedOn(R, Nat) BY NatLessThanWellFounded, Zenon
<1> HIDE DEF R, D
<1>4. PICK x \in D : \A y \in D : ~(<<y, x>> \in R) BY <1>1, <1>3, WFMin
<1>5. PICK i \in T : x = n - i BY DEF D
<1>6. ASSUME NEW j \in T PROVE j <= i
  <2>1. n - j \in D BY DEF D
  <2>2. ~(n - j < x) BY <1>1, <1>2, <1>4, <2>1
  <2> QED BY <1>5, <2>2
<1> QED BY <1>6

LEMMA LastOfIs ==
    ASSUME NEW w \in Seq(Frames), NEW kind
    PROVE  LastOf(w, kind) = 0 \/ \E i \in 1 .. Len(w) : LastOf(w, kind) = w[i].sess
<1> DEFINE at == {i \in 1 .. Len(w) : w[i].kind = kind}
<1>1. CASE at = {} BY <1>1 DEF LastOf
<1>2. CASE at # {}
  <2>1. \E i \in at : \A j \in at : j <= i
    <3>1. PICK n \in Nat : n = Len(w) OBVIOUS
    <3> QED BY <1>2, <3>1, LargestIndex
  <2> DEFINE c == CHOOSE i \in at : \A j \in at : j <= i
  <2>2. c \in at BY <2>1
  <2>3. LastOf(w, kind) = w[c].sess BY <1>2 DEF LastOf
  <2> QED BY <2>2, <2>3
<1> QED BY <1>1, <1>2

LEMMA LastOfAppend ==
    ASSUME NEW w \in Seq(Frames), NEW f \in Frames, NEW kind
    PROVE  LastOf(Append(w, f), kind) = IF f.kind = kind THEN f.sess ELSE LastOf(w, kind)
<1>0. PICK v \in Seq(Frames) : v = Append(w, f) BY AppendPrefix
<1>1. PICK n \in Nat : v = Append(w, f) /\ n = Len(w) BY <1>0
<1>2. Len(v) = n + 1 /\ v[n + 1] = f /\ \A i \in 1 .. n : v[i] = w[i] BY <1>1
<1>3. \A i \in 1 .. n + 1 : i \in 1 .. n \/ i = n + 1 BY <1>1
<1> DEFINE at == {i \in 1 .. Len(w) : w[i].kind = kind}
<1> DEFINE av == {i \in 1 .. Len(v) : v[i].kind = kind}
<1>4. CASE f.kind = kind
  <2>1. n + 1 \in av BY <1>2, <1>4
  <2>2. \A j \in av : j \in 1 .. n + 1 BY <1>2
  <2>3. \A i \in av : (\A j \in av : j <= i) <=> i = n + 1 BY <2>1, <2>2
  <2>4. av # {} /\ (CHOOSE i \in av : \A j \in av : j <= i) = n + 1 BY <2>1, <2>3
  <2>5. LastOf(v, kind) = v[n + 1].sess BY <2>4 DEF LastOf
  <2> QED BY <1>1, <1>2, <1>4, <2>5
<1>5. CASE f.kind # kind
  <2>1. av = at
    <3>1. \A i \in av : i \in at BY <1>1, <1>2, <1>3, <1>5
    <3>2. \A i \in at : i \in av
      <4>1. \A i \in 1 .. n : i \in 1 .. n + 1 OBVIOUS
      <4> QED BY <1>1, <1>2, <4>1
    <3> QED BY <3>1, <3>2
  <2>2. CASE at = {} BY <1>1, <1>5, <2>1, <2>2 DEF LastOf
  <2>3. CASE at # {}
    <3> DEFINE c == CHOOSE i \in at : \A j \in at : j <= i
    <3>1. c \in at
      <4>1. \E i \in at : \A j \in at : j <= i BY <1>1, <2>3, LargestIndex
      <4> QED BY <4>1
    <3>2. LastOf(w, kind) = w[c].sess BY <2>3 DEF LastOf
    <3>3. LastOf(v, kind) = v[c].sess BY <2>1, <2>3 DEF LastOf
    <3>4. v[c] = w[c] BY <1>1, <1>2, <3>1
    <3> QED BY <1>1, <1>5, <3>2, <3>3, <3>4
  <2> QED BY <2>2, <2>3
<1> QED BY <1>4, <1>5

\* WireOwner, for numbers of attachments up to n.
OwnerUpTo(w, n) == LET open == {g \in 1 .. n : OpenBefore(w, g, Len(w) + 1)}
                   IN IF open = {} THEN 0 ELSE CHOOSE g \in open : TRUE

LEMMA OpenIsLine ==
    ASSUME NEW w \in Seq(Frames), NEW g, Open(w, g)
    PROVE  \E j \in 1 .. Len(w) : /\ w[j] = AttachFrame(g)
                                  /\ \A m \in 1 .. Len(w) : m > j => w[m].kind = "request"
<1>1. PICK n \in Nat : n = Len(w) OBVIOUS
<1>2. PICK i \in Nat : i = n + 1 BY <1>1
<1>3. i - 1 = n BY <1>2
<1>4. OpenBefore(w, g, i) BY <1>1, <1>2 DEF Open
<1>5. PICK j \in 1 .. n : w[j] = AttachFrame(g) /\ \A m \in j + 1 .. n : w[m].kind = "request"
  BY <1>3, <1>4 DEF OpenBefore
<1>6. \A m \in 1 .. n : m > j => m \in j + 1 .. n BY <1>1
<1> QED BY <1>1, <1>5, <1>6

LEMMA OwnerIsOpen ==
    ASSUME NEW w \in Seq(Frames), NEW n \in Nat, Ordered(w), \A i \in 1 .. Len(w) : w[i].sess <= n
    PROVE  /\ \A g \in Nat : Open(w, g) => OwnerUpTo(w, n) = g /\ g # 0
           /\ (\A g \in Nat : ~Open(w, g)) => OwnerUpTo(w, n) = 0
<1>1. ASSUME NEW g \in Nat, Open(w, g) PROVE OwnerUpTo(w, n) = g /\ g # 0
  <2>1. PICK j \in 1 .. Len(w) : w[j] = AttachFrame(g) /\ \A m \in 1 .. Len(w) : m > j => w[m].kind = "request"
    BY <1>1, OpenIsLine
  <2>2. w[j].sess = g /\ w[j].kind = "attach" BY <2>1 DEF AttachFrame
  <2>3. g # 0 /\ g <= n BY <2>2 DEF Ordered, Plain
  <2>4. ASSUME NEW h, Open(w, h) PROVE h = g
    <3>1. PICK i \in 1 .. Len(w) : w[i] = AttachFrame(h) /\ \A m \in 1 .. Len(w) : m > i => w[m].kind = "request"
      BY <2>4, OpenIsLine
    <3>2. w[i].sess = h /\ w[i].kind = "attach" BY <3>1 DEF AttachFrame
    <3>3. ~(i > j) /\ ~(j > i) BY <2>1, <2>2, <3>1, <3>2
    <3>4. i = j BY <3>3
    <3> QED BY <2>2, <3>2, <3>4
  <2> DEFINE open == {h \in 1 .. n : OpenBefore(w, h, Len(w) + 1)}
  <2>5. open = {g}
    <3>1. g \in 1 .. n BY <2>3
    <3>2. \A h \in 1 .. n : OpenBefore(w, h, Len(w) + 1) <=> h = g BY <1>1, <2>4 DEF Open
    <3> QED BY <3>1, <3>2
  <2>6. (CHOOSE h \in open : TRUE) = g BY <2>5
  <2> HIDE DEF open
  <2>7. OwnerUpTo(w, n) = IF open = {} THEN 0 ELSE CHOOSE h \in open : TRUE BY DEF OwnerUpTo, open
  <2> QED BY <2>3, <2>5, <2>6, <2>7
<1>2. ASSUME \A g \in Nat : ~Open(w, g) PROVE OwnerUpTo(w, n) = 0
  <2>1. {h \in 1 .. n : OpenBefore(w, h, Len(w) + 1)} = {} BY <1>2 DEF Open
  <2> QED BY <2>1 DEF OwnerUpTo
<1> QED BY <1>1, <1>2

\* What line f does to what the abstract stream shows of a wire: w before it, v after it.
LineEffect(w, f, v, n) ==
    /\ f.kind = "attach" =>
        /\ OwnerUpTo(w, n) = 0 /\ OwnerUpTo(v, n) = f.sess
        /\ LastOf(w, "attach") < f.sess /\ LastOf(v, "attach") = f.sess
        /\ LastOf(v, "request") = LastOf(w, "request")
    /\ f.kind = "request" =>
        /\ OwnerUpTo(w, n) = f.sess /\ OwnerUpTo(v, n) = f.sess
        /\ LastOf(v, "attach") = LastOf(w, "attach") /\ LastOf(v, "request") = f.sess
    /\ f.kind = "detach" =>
        /\ OwnerUpTo(w, n) = f.sess /\ OwnerUpTo(v, n) = 0
        /\ LastOf(v, "attach") = LastOf(w, "attach") /\ LastOf(v, "request") = LastOf(w, "request")

LEMMA LineMoves ==
    ASSUME NEW w \in Seq(Frames), NEW f \in Frames, NEW v \in Seq(Frames), v = Append(w, f), Ordered(v), Bracketed(v),
           NEW n \in Nat, \A i \in 1 .. Len(v) : v[i].sess <= n
    PROVE  f.sess \in 1 .. n /\ LineEffect(w, f, v, n)
<1>1. PICK m \in Nat : m = Len(w) OBVIOUS
<1>2. Len(v) = m + 1 /\ v[m + 1] = f /\ \A i \in 1 .. m : v[i] = w[i] BY <1>1
<1>3. Prefix(w, v) BY AppendPrefix
<1>4. Ordered(w) BY <1>3, PrefixSound
<1>5. m + 1 \in 1 .. m + 1 /\ \A i \in 1 .. m : i \in 1 .. m + 1 /\ i < m + 1 OBVIOUS
<1>6. \A i \in 1 .. Len(w) : w[i].sess <= n BY <1>1, <1>2, <1>5
<1>7. f.sess \in Nat /\ f.kind \in {"attach", "detach", "request"} BY DEF Frames
<1>8. f.sess \in 1 .. n
  <2>1. f.sess # 0 /\ f.sess <= n BY <1>2, <1>5 DEF Ordered, Plain
  <2> QED BY <1>7, <2>1
<1>9. IF f.kind = "attach" THEN \A j \in 1 .. m : ~OpenBefore(v, v[j].sess, m + 1)
      ELSE OpenBefore(v, f.sess, m + 1)
  <2>1. PICK i \in Nat : i = m + 1 BY <1>1
  <2>2. i \in 1 .. Len(v) /\ i - 1 = m BY <1>2, <2>1
  <2>3. IF v[i].kind = "attach" THEN \A j \in 1 .. i - 1 : ~OpenBefore(v, v[j].sess, i) ELSE OpenBefore(v, v[i].sess, i)
    BY <2>2 DEF Bracketed
  <2> QED BY <1>2, <2>1, <2>2, <2>3
<1>10. ASSUME NEW g PROVE OpenBefore(v, g, m + 1) <=> Open(w, g)
  <2>1. PICK i \in 1 .. Len(w) + 1 : i = m + 1 BY <1>1
  <2>2. OpenBefore(w, g, i) <=> OpenBefore(v, g, i) BY <1>3, OpenOfPrefix
  <2> QED BY <1>1, <2>1, <2>2 DEF Open
<1>11. \A g \in Nat : Open(v, g) <=> f = AttachFrame(g) \/ (f.kind = "request" /\ Open(w, g)) BY OpenOfAppend
<1>12. \A k \in {"attach", "request"} : LastOf(v, k) = IF f.kind = k THEN f.sess ELSE LastOf(w, k)
  BY LastOfAppend
<1>13. CASE f.kind = "attach"
  <2>1. \A g \in Nat : ~Open(w, g)
    <3> SUFFICES ASSUME NEW g \in Nat, Open(w, g) PROVE FALSE OBVIOUS
    <3>1. PICK j \in 1 .. Len(w) : w[j] = AttachFrame(g) BY OpenIsLine
    <3>2. v[j].sess = g /\ j \in 1 .. m BY <1>1, <1>2, <3>1 DEF AttachFrame
    <3> QED BY <1>9, <1>10, <1>13, <3>2
  <2>2. OwnerUpTo(w, n) = 0 BY <1>4, <1>6, <2>1, OwnerIsOpen
  <2>3. OwnerUpTo(v, n) = f.sess
    <3>1. f = AttachFrame(f.sess) BY <1>2, <1>5, <1>13 DEF Ordered, Plain
    <3> QED BY <1>7, <1>11, <3>1, OwnerIsOpen
  <2>4. LastOf(w, "attach") < f.sess
    <3>1. \A i \in 1 .. m : w[i].sess < f.sess BY <1>2, <1>5, <1>13 DEF Ordered
    <3> QED BY <1>1, <1>7, <1>8, <3>1, LastOfIs
  <2> QED BY <1>8, <1>12, <1>13, <2>2, <2>3, <2>4 DEF LineEffect
<1>14. CASE f.kind = "request"
  <2>1. Open(w, f.sess) BY <1>9, <1>10, <1>14
  <2>2. Open(v, f.sess) BY <1>7, <1>11, <1>14, <2>1
  <2>3. OwnerUpTo(w, n) = f.sess BY <1>4, <1>6, <1>7, <2>1, OwnerIsOpen
  <2>4. OwnerUpTo(v, n) = f.sess BY <1>7, <2>2, OwnerIsOpen
  <2> QED BY <1>8, <1>12, <1>14, <2>3, <2>4 DEF LineEffect
<1>15. CASE f.kind = "detach"
  <2>1. Open(w, f.sess) BY <1>9, <1>10, <1>15
  <2>2. \A g \in Nat : ~Open(v, g) BY <1>11, <1>15 DEF AttachFrame
  <2>3. OwnerUpTo(w, n) = f.sess BY <1>4, <1>6, <1>7, <2>1, OwnerIsOpen
  <2>4. OwnerUpTo(v, n) = 0 BY <2>2, OwnerIsOpen
  <2> QED BY <1>8, <1>12, <1>15, <2>3, <2>4 DEF LineEffect
<1> QED BY <1>7, <1>13, <1>14, <1>15

\* The transport of a producer is up only while it has its entry, and no line has a
\* number that was not given out yet.
LinesOK ==
    /\ \A p \in Producers : sock[p] = "open" => my_name[p] \in Keys /\ conn[my_name[p]] = p
    /\ \A p \in Producers : \A i \in 1 .. Len(wire[p]) : wire[p][i].sess <= next_gen

\* The line that the writer thread writes.
LEMMA WrittenLine ==
    ASSUME TypeInv, StreamInv, LinesOK, NEW p \in Producers, WriterWrite(p), sock[p] = "open"
    PROVE  /\ inflight[p][1] \in Frames
           /\ wire'[p] = Append(wire[p], inflight[p][1]) /\ wire'[p] \in Seq(Frames)
           /\ Ordered(wire'[p]) /\ (p \in Lifecycle => Bracketed(wire'[p]))
           /\ \A i \in 1 .. Len(wire'[p]) : wire'[p][i].sess <= next_gen
<1>1. /\ wire \in [Producers -> Seq(Frames)] /\ Len(inflight[p]) <= 1
      /\ wire[p] \in Seq(Frames) /\ inflight[p] \in Seq(Frames) /\ queue[p] \in Seq(Frames)
  BY DEF TypeInv, TypeOK, OutboundOK
<1>2. inflight[p] # << >> /\ wire'[p] = Append(wire[p], inflight[p][1]) BY <1>1 DEF WriterWrite
<1>3. PICK w \in Seq(Frames), a \in Seq(Frames), b \in Seq(Frames) : w = wire[p] /\ a = inflight[p] /\ b = queue[p]
  BY <1>1
<1>4. a[1] \in Frames /\ a = <<a[1]>> BY <1>1, <1>2, <1>3, OneLine
<1>5. Append(w, a[1]) = w \o a /\ w \o a \in Seq(Frames) BY ZenonT(60), <1>4, AppendIsConcat, ConcatPrefix
<1>6. PICK v \in Seq(Frames), u \in Seq(Frames) : v = w \o a /\ u = v \o b /\ Prefix(v, u) BY <1>5, ConcatPrefix
<1>7. u = Admitted(p) /\ v = wire'[p] BY <1>2, <1>3, <1>5, <1>6 DEF Admitted
<1>8. PICK k \in Keys : conn[k] = p /\ conn[k] # None BY DEF LinesOK
<1>9. SoundFor(u, p) /\ Follows(u, k) /\ session_gen[k] \in Nat /\ session_gen[k] <= next_gen /\ next_gen \in Nat
  BY <1>7, <1>8, EntryStream
<1>10. Ordered(v) /\ (p \in Lifecycle => Bracketed(v)) BY <1>6, <1>9, PrefixSound DEF SoundFor
<1>11. ASSUME NEW i \in 1 .. Len(v) PROVE v[i].sess <= next_gen
  <2>1. PICK m \in Nat, n \in Nat : m = Len(v) /\ n = Len(u) /\ m <= n BY <1>6 DEF Prefix
  <2>2. i \in 1 .. m /\ i \in 1 .. n /\ v[i] = u[i] BY <1>6, <2>1 DEF Prefix
  <2>3. u[i] \in Frames /\ u[i].sess <= session_gen[k] BY <1>9, <2>1, <2>2 DEF Follows
  <2>4. u[i].sess \in Nat BY <2>3 DEF Frames
  <2> QED BY <1>9, <2>2, <2>3, <2>4
<1> QED BY <1>2, <1>3, <1>4, <1>7, <1>10, <1>11

LEMMA OnlyWriterWrites ==
    ASSUME [Next]_vars, ~\E p \in Producers : WriterWrite(p)
    PROVE  UNCHANGED wire
<1>1. ASSUME NEW p \in Producers, WriterStep(p) \/ ProducerStep(p) PROVE UNCHANGED wire
  BY <1>1 DEF WriterStep, ProducerStep, WriterRecv, WriterFail, StopWriter, Register, RefuseRegistration,
     ReadLine, ForwardLine, ProducerCrash, ProducerEof
<1>2. ASSUME NEW s \in Sessions, Attach(s) PROVE UNCHANGED wire BY <1>2 DEF Attach, Enqueue
<1>3. ASSUME NEW s \in Sessions, EnqueueRequest(s) \/ DetachSession(s) PROVE UNCHANGED wire
  BY <1>3 DEF EnqueueRequest, DetachSession, Enqueue
<1>4. ASSUME NEW s \in Sessions, SessionStep(s), ~Attach(s), ~EnqueueRequest(s), ~DetachSession(s) PROVE UNCHANGED wire
  BY <1>4 DEF SessionStep, AttachRefused, AttachReply, AttachReplyFails, FrontendClose, ReadRequest, SessionEof,
     RefuseRequest, Moves
<1>5. CASE UNCHANGED vars BY <1>5 DEF vars
<1> QED BY <1>1, <1>2, <1>3, <1>4, <1>5 DEF Next

LEMMA LinesStep ==
    ASSUME TypeInv, TypeInv', StreamInv, RegsOK, LinesOK, [Next]_vars
    PROVE  LinesOK'
<1>1. /\ next_gen \in Nat /\ next_gen' \in Nat /\ next_gen' >= next_gen
  <2>1. next_gen \in Nat /\ next_gen' \in Nat BY DEF TypeInv, TypeOK, RegistryOK
  <2>2. next_gen' = next_gen \/ next_gen' = next_gen + 1
    BY DEF Next, vars, WriterStep, ProducerStep, SessionStep, WriterRecv, WriterWrite, WriterFail, Register,
       RefuseRegistration, ReadLine, ForwardLine, ProducerCrash, ProducerEof, Attach, AttachRefused, AttachReply,
       AttachReplyFails, FrontendClose, ReadRequest, EnqueueRequest, SessionEof, RefuseRequest, DetachSession, Moves
  <2> QED BY <2>1, <2>2
<1>2. /\ sock \in [Producers -> {"open", "peer_closed", "shut"}] /\ my_name \in [Producers -> Keys \cup {None}]
      /\ conn \in [Keys -> Producers \cup {None}] /\ wire \in [Producers -> Seq(Frames)]
  BY DEF TypeInv, TypeOK, OutboundOK, RegistryOK, EmulatorsOK
<1>3. ASSUME NEW p \in Producers, NEW i \in 1 .. Len(wire[p]) PROVE wire[p][i].sess <= next_gen'
  <2>1. wire[p][i] \in Frames /\ wire[p][i].sess <= next_gen BY <1>2 DEF LinesOK
  <2>2. wire[p][i].sess \in Nat BY <2>1 DEF Frames
  <2> QED BY <1>1, <2>1, <2>2
<1>4. ASSUME NEW q \in Producers, NEW i \in 1 .. Len(wire'[q]) PROVE wire'[q][i].sess <= next_gen'
  <2>1. CASE wire'[q] = wire[q] BY <1>3, <1>4, <2>1
  <2>2. CASE wire'[q] # wire[q]
    <3>1. WriterWrite(q) /\ sock[q] = "open"
      <4>1. (~\E p \in Producers : WriterWrite(p)) => UNCHANGED wire BY OnlyWriterWrites
      <4>2. PICK p \in Producers : WriterWrite(p) BY <2>2, <4>1
      <4>3. p = q /\ sock[p] = "open" BY <1>2, <2>2, <4>2 DEF WriterWrite
      <4> QED BY <4>2, <4>3
    <3>2. wire'[q][i].sess <= next_gen BY <1>4, <3>1, WrittenLine
    <3>3. next_gen' = next_gen BY <3>1 DEF WriterWrite
    <3> QED BY <3>2, <3>3
  <2> QED BY <2>1, <2>2
<1>5. ASSUME \A q \in Producers : sock'[q] = "open" => sock[q] = "open", UNCHANGED <<my_name, conn>>
      PROVE  \A q \in Producers : sock'[q] = "open" => my_name'[q] \in Keys /\ conn'[my_name'[q]] = q
  BY <1>5 DEF LinesOK
<1>6. ASSUME NEW p \in Producers, Register(p)
      PROVE  \A q \in Producers : sock'[q] = "open" => my_name'[q] \in Keys /\ conn'[my_name'[q]] = q
  <2>1. PICK k \in Keys \ Occupied : conn' = [conn EXCEPT ![k] = p] /\ my_name' = [my_name EXCEPT ![p] = k]
    BY <1>6 DEF Register
  <2>2. conn[k] = None BY DEF Occupied
  <2>3. \A q \in Producers \ {p} : sock'[q] = sock[q] /\ my_name'[q] = my_name[q] BY <1>2, <1>6, <2>1 DEF Register
  <2>4. my_name'[p] = k /\ conn'[k] = p BY <1>2, <2>1
  <2>5. \A j \in Keys \ {k} : conn'[j] = conn[j] BY <1>2, <2>1
  <2>6. \A q \in Producers : q # None OBVIOUS
  <2> QED BY <2>2, <2>3, <2>4, <2>5, <2>6 DEF LinesOK
<1>7. ASSUME NEW p \in Producers, ProducerEof(p)
      PROVE  \A q \in Producers : sock'[q] = "open" => my_name'[q] \in Keys /\ conn'[my_name'[q]] = q
  <2>1. sock'[p] = "shut" /\ \A q \in Producers \ {p} : sock'[q] = sock[q] BY <1>2, <1>7 DEF ProducerEof, StopWriter
  <2>2. UNCHANGED my_name /\ my_name[p] \in Keys BY <1>7 DEF ProducerEof, TypeInv, Named
  <2>3. \A j \in Keys : conn'[j] # conn[j] => j = my_name[p] /\ gen[j] = my_gen[p]
    BY <1>2, <1>7, <2>2 DEF ProducerEof
  <2>4. ASSUME NEW q \in Producers \ {p}, sock[q] = "open" PROVE my_name[q] \in Keys /\ conn'[my_name[q]] = q
    <3>1. PICK j \in Keys : j = my_name[q] /\ conn[j] = q /\ conn[j] # None BY <2>4 DEF LinesOK
    <3>2. my_gen[q] = gen[j] /\ my_gen[q] # 0 BY <3>1, EntryStream DEF RegsOK
    <3>3. gen[j] # my_gen[p] BY <3>2 DEF RegsOK
    <3> QED BY <2>3, <3>1, <3>3
  <2> QED BY <2>1, <2>2, <2>4
<1>8. ASSUME ~\E p \in Producers : Register(p) \/ ProducerEof(p)
      PROVE  (\A q \in Producers : sock'[q] = "open" => sock[q] = "open") /\ UNCHANGED <<my_name, conn>>
  <2>1. UNCHANGED <<my_name, conn>>
    BY <1>8 DEF Next, vars, WriterStep, ProducerStep, SessionStep, WriterRecv, WriterWrite, WriterFail,
       RefuseRegistration, ReadLine, ForwardLine, ProducerCrash, Attach, AttachRefused, AttachReply,
       AttachReplyFails, FrontendClose, ReadRequest, EnqueueRequest, SessionEof, RefuseRequest, DetachSession, Moves
  <2>2. \/ UNCHANGED sock
        \/ \E p \in Producers : WriterFail(p) \/ ProducerCrash(p)
        \/ \E p \in Producers \cup {None} : \E lines : Enqueue(p, lines)
    <3>1. ASSUME NEW s \in Sessions, Attach(s) PROVE \E p \in Producers \cup {None} : \E lines : Enqueue(p, lines)
      <4>1. PICK k \in Keys : Enqueue(conn[k], PairLines(k, next_gen + 1)) BY <3>1 DEF Attach, Pick, Occupied
      <4>2. conn[k] \in Producers \cup {None} BY <1>2
      <4> QED BY <4>1, <4>2
    <3>2. ASSUME NEW s \in Sessions, EnqueueRequest(s) \/ DetachSession(s)
          PROVE  UNCHANGED sock \/ \E p \in Producers \cup {None} : \E lines : Enqueue(p, lines)
      <4>1. name[s] \in Keys BY <3>2 DEF EnqueueRequest, DetachSession, TypeInv, Named
      <4>2. conn[name[s]] \in Producers \cup {None} BY <1>2, <4>1
      <4> QED BY <3>2, <4>2 DEF EnqueueRequest, DetachSession
    <3> QED BY <1>8, <3>1, <3>2 DEF Next, vars, WriterStep, ProducerStep, SessionStep, WriterRecv, WriterWrite,
       RefuseRegistration, ReadLine, ForwardLine, AttachRefused, AttachReply,
       AttachReplyFails, FrontendClose, ReadRequest, SessionEof, RefuseRequest, Moves
  <2>3. ASSUME NEW p \in Producers, WriterFail(p) \/ ProducerCrash(p), NEW q \in Producers, sock'[q] = "open"
        PROVE  sock[q] = "open"
    BY <1>2, <2>3 DEF WriterFail, StopWriter, ProducerCrash
  <2>4. ASSUME NEW p \in Producers \cup {None}, NEW lines, Enqueue(p, lines), NEW q \in Producers, sock'[q] = "open"
        PROVE  sock[q] = "open"
    <3>1. PICK x : sock' = [sock EXCEPT ![p] = x] /\ x \in {sock[p], "shut"} BY <2>4 DEF Enqueue
    <3> QED BY <1>2, <2>4, <3>1
  <2> QED BY <2>1, <2>2, <2>3, <2>4
<1> QED BY <1>4, <1>5, <1>6, <1>7, <1>8 DEF LinesOK

\* The threads that have been through their first critical section: each has taken one
\* number from the counter at most.
Started == {p \in Producers : pphase[p] # "hello"}

Answered == {s \in Sessions : phase[s] # "new"}

CountOK == next_gen <= Cardinality(Started) + Cardinality(Answered)

LEMMA CountGrows ==
    ASSUME NEW S, IsFiniteSet(S), NEW A \in SUBSET S, NEW B \in SUBSET S, A \subseteq B
    PROVE  /\ Cardinality(A) \in Nat /\ Cardinality(B) \in Nat /\ Cardinality(S) \in Nat
           /\ Cardinality(A) <= Cardinality(B) /\ Cardinality(B) <= Cardinality(S)
           /\ \A x \in B : x \notin A => Cardinality(A) + 1 <= Cardinality(B)
<1>1. IsFiniteSet(A) /\ IsFiniteSet(B) /\ Cardinality(B) <= Cardinality(S) BY FS_Subset
<1>2. Cardinality(A) \in Nat /\ Cardinality(B) \in Nat /\ Cardinality(S) \in Nat BY <1>1, FS_CardinalityType
<1>3. Cardinality(A) <= Cardinality(B) BY <1>1, FS_Subset
<1>4. ASSUME NEW x \in B, x \notin A PROVE Cardinality(A) + 1 <= Cardinality(B)
  <2>1. Cardinality(A \cup {x}) = Cardinality(A) + 1 BY <1>1, <1>4, FS_AddElement
  <2>2. Cardinality(A \cup {x}) <= Cardinality(B) BY <1>1, FS_Subset
  <2> QED BY <2>1, <2>2
<1> QED BY <1>1, <1>2, <1>3, <1>4

LEMMA CountStep ==
    ASSUME IsFiniteSet(Producers), IsFiniteSet(Sessions), TypeInv, TypeInv', CountOK, [Next]_vars
    PROVE  CountOK'
<1>1. /\ next_gen \in Nat /\ pphase \in [Producers -> {"hello", "serving", "gone"}]
      /\ phase \in [Sessions -> {"new", "attached", "reading", "encoding", "ending", "closed"}]
  BY DEF TypeInv, TypeOK, RegistryOK, EmulatorsOK, FrontendsOK
<1>2. Started \subseteq Started'
  <2>1. \/ UNCHANGED pphase
        \/ \E p \in Producers : \E x \in {"serving", "gone"} : pphase' = [pphase EXCEPT ![p] = x]
    BY DEF Next, vars, WriterStep, ProducerStep, SessionStep, WriterRecv, WriterWrite, WriterFail, Register,
       RefuseRegistration, ReadLine, ForwardLine, ProducerCrash, ProducerEof, Attach, AttachRefused, AttachReply,
       AttachReplyFails, FrontendClose, ReadRequest, EnqueueRequest, SessionEof, RefuseRequest, DetachSession, Moves
  <2> QED BY <1>1, <2>1 DEF Started
<1>3. Answered \subseteq Answered'
  <2>1. ASSUME NEW p \in Producers, WriterStep(p) \/ ProducerStep(p) PROVE UNCHANGED phase
    BY <2>1 DEF WriterStep, ProducerStep, WriterRecv, WriterWrite, WriterFail, Register,
       RefuseRegistration, ReadLine, ForwardLine, ProducerCrash, ProducerEof
  <2>2. ASSUME NEW s \in Sessions, SessionStep(s) PROVE \/ UNCHANGED phase
            \/ \E x \in {"attached", "reading", "encoding", "ending", "closed"} : phase' = [phase EXCEPT ![s] = x]
    <3>1. CASE Attach(s) BY <3>1 DEF Attach
    <3>2. CASE EnqueueRequest(s) \/ DetachSession(s) BY <3>2 DEF EnqueueRequest, DetachSession
    <3>3. CASE ReadRequest(s) BY <3>3 DEF ReadRequest, Moves
    <3> QED BY <2>2, <3>1, <3>2, <3>3 DEF SessionStep, AttachRefused, AttachReply,
       AttachReplyFails, FrontendClose, SessionEof, RefuseRequest, Moves
  <2>3. UNCHANGED vars => UNCHANGED phase BY DEF vars
  <2>4. \/ UNCHANGED phase
        \/ \E s \in Sessions : \E x \in {"attached", "reading", "encoding", "ending", "closed"} :
                phase' = [phase EXCEPT ![s] = x]
    BY <2>1, <2>2, <2>3 DEF Next
  <2> QED BY <1>1, <2>4 DEF Answered
<1>4. /\ Started \in SUBSET Producers /\ Started' \in SUBSET Producers
      /\ Answered \in SUBSET Sessions /\ Answered' \in SUBSET Sessions
  BY DEF Started, Answered
<1>5. /\ Cardinality(Started) \in Nat /\ Cardinality(Started') \in Nat /\ Cardinality(Started) <= Cardinality(Started')
      /\ \A x \in Started' : x \notin Started => Cardinality(Started) + 1 <= Cardinality(Started')
  BY <1>2, <1>4, CountGrows
<1>6. /\ Cardinality(Answered) \in Nat /\ Cardinality(Answered') \in Nat
      /\ Cardinality(Answered) <= Cardinality(Answered')
      /\ \A x \in Answered' : x \notin Answered => Cardinality(Answered) + 1 <= Cardinality(Answered')
  BY <1>3, <1>4, CountGrows
<1>7. ASSUME NEW p \in Producers, Register(p) PROVE CountOK'
  <2>1. p \in Started' /\ p \notin Started /\ next_gen' = next_gen + 1 BY <1>1, <1>7 DEF Register, Started
  <2>2. Cardinality(Started) + 1 <= Cardinality(Started') BY <1>5, <2>1
  <2> QED BY <1>1, <1>5, <1>6, <2>1, <2>2 DEF CountOK
<1>8. ASSUME NEW s \in Sessions, Attach(s) \/ AttachRefused(s) PROVE CountOK'
  <2>1. s \in Answered' /\ s \notin Answered BY <1>1, <1>8 DEF Attach, AttachRefused, Answered
  <2>2. Cardinality(Answered) + 1 <= Cardinality(Answered') BY <1>6, <2>1
  <2>3. next_gen' = next_gen \/ next_gen' = next_gen + 1 BY <1>8 DEF Attach, AttachRefused
  <2> QED BY <1>1, <1>5, <1>6, <2>2, <2>3 DEF CountOK
<1>9. ASSUME next_gen' = next_gen PROVE CountOK' BY <1>1, <1>5, <1>6, <1>9 DEF CountOK
<1>10. \/ next_gen' = next_gen \/ \E p \in Producers : Register(p)
       \/ \E s \in Sessions : Attach(s) \/ AttachRefused(s)
  BY DEF Next, vars, WriterStep, ProducerStep, SessionStep, WriterRecv, WriterWrite, WriterFail,
     RefuseRegistration, ReadLine, ForwardLine, ProducerCrash, ProducerEof, AttachReply,
     AttachReplyFails, FrontendClose, ReadRequest, EnqueueRequest, SessionEof, RefuseRequest, DetachSession, Moves
<1> QED BY <1>7, <1>8, <1>9, <1>10

-----------------------------------------------------------------------------
SimInv == TypeInv /\ AskInv /\ StreamInv /\ RegsOK /\ LinesOK /\ CountOK

\* A step of the broker is a step of the abstract stream, or leaves it as it is.
LEMMA StreamSimulates ==
    ASSUME IsFiniteSet(Producers), IsFiniteSet(Sessions), SimInv, SimInv', [Next]_vars
    PROVE  [Stream!Next]_<<[p \in Lifecycle |-> WireOwner(wire[p])],
                           [p \in Lifecycle |-> LastOf(wire[p], "attach")],
                           [p \in Lifecycle |-> LastOf(wire[p], "request")]>>
<1>1. /\ next_gen \in Nat /\ next_gen' \in Nat /\ wire \in [Producers -> Seq(Frames)]
  BY DEF SimInv, TypeInv, TypeOK, RegistryOK, OutboundOK
<1>2. \A p \in Producers : WireOwner(wire[p]) = OwnerUpTo(wire[p], next_gen) BY DEF WireOwner, OwnerUpTo
<1>3. \A p \in Producers : WireOwner(wire[p])' = OwnerUpTo(wire'[p], next_gen') BY DEF WireOwner, OwnerUpTo
<1>4. ASSUME NEW p \in Producers, wire'[p] = wire[p] PROVE WireOwner(wire[p])' = WireOwner(wire[p])
  <2>1. PICK w \in Seq(Frames) : w = wire[p] BY <1>1
  <2>2. Ordered(w) BY <2>1, WireSound DEF SimInv, SoundFor
  <2>3. (\A i \in 1 .. Len(w) : w[i].sess <= next_gen) /\ (\A i \in 1 .. Len(w) : w[i].sess <= next_gen')
    BY <1>4, <2>1 DEF SimInv, LinesOK
  <2>4. OwnerUpTo(w, next_gen) = OwnerUpTo(w, next_gen')
    <3>1. CASE \E g \in Nat : Open(w, g) BY <1>1, <2>2, <2>3, <3>1, OwnerIsOpen
    <3>2. CASE \A g \in Nat : ~Open(w, g) BY <1>1, <2>2, <2>3, <3>2, OwnerIsOpen
    <3> QED BY <3>1, <3>2
  <2> QED BY <1>2, <1>3, <1>4, <2>1, <2>4
<1>k. ASSUME NEW p \in Producers, NEW k PROVE LastOf(wire[p], k)' = LastOf(wire'[p], k) BY DEF LastOf
<1> DEFINE ow == [p \in Lifecycle |-> WireOwner(wire[p])]
           ep == [p \in Lifecycle |-> LastOf(wire[p], "attach")]
           la == [p \in Lifecycle |-> LastOf(wire[p], "request")]
<1>5. ASSUME \A p \in Lifecycle : wire'[p] = wire[p] PROVE UNCHANGED <<ow, ep, la>>
  <2>1. \A p \in Lifecycle : WireOwner(wire[p])' = WireOwner(wire[p]) BY <1>4, <1>5
  <2>2. ow' = ow BY <2>1
  <2>3. \A p \in Lifecycle : /\ LastOf(wire[p], "attach")' = LastOf(wire[p], "attach")
                             /\ LastOf(wire[p], "request")' = LastOf(wire[p], "request")
    BY <1>5, <1>k
  <2>4. ep' = ep /\ la' = la BY <2>3
  <2> QED BY <2>2, <2>4
<1>6. ASSUME NEW p \in Lifecycle, WriterWrite(p), sock[p] = "open" PROVE Stream!Next
  <2>1. \A q \in Lifecycle \ {p} : wire'[q] = wire[q] BY <1>1, <1>6 DEF WriterWrite
  <2>2. PICK w \in Seq(Frames), f \in Frames, v \in Seq(Frames) :
            /\ w = wire[p] /\ f = inflight[p][1] /\ v = wire'[p] /\ v = Append(w, f) /\ Ordered(v) /\ Bracketed(v)
            /\ \A i \in 1 .. Len(v) : v[i].sess <= next_gen
    BY <1>1, <1>6, WrittenLine DEF SimInv
  <2>3. next_gen' = next_gen BY <1>6 DEF WriterWrite
  <2>4. /\ ow[p] = OwnerUpTo(w, next_gen) /\ ow'[p] = OwnerUpTo(v, next_gen)
        /\ ep[p] = LastOf(w, "attach") /\ ep'[p] = LastOf(v, "attach")
        /\ la[p] = LastOf(w, "request") /\ la'[p] = LastOf(v, "request")
    <3>1. ow[p] = OwnerUpTo(w, next_gen) /\ ow'[p] = OwnerUpTo(v, next_gen) BY <1>2, <1>3, <2>2, <2>3
    <3>2. ep[p] = LastOf(w, "attach") /\ ep'[p] = LastOf(v, "attach") BY <1>k, <2>2
    <3>3. la[p] = LastOf(w, "request") /\ la'[p] = LastOf(v, "request") BY <1>k, <2>2
    <3> QED BY <3>1, <3>2, <3>3
  <2>5. \A q \in Lifecycle \ {p} : ow'[q] = ow[q] /\ ep'[q] = ep[q] /\ la'[q] = la[q]
    <3>1. \A q \in Lifecycle \ {p} : ow'[q] = ow[q] BY <1>4, <2>1
    <3>2. \A q \in Lifecycle \ {p} : ep'[q] = ep[q] BY <1>k, <2>1
    <3>3. \A q \in Lifecycle \ {p} : la'[q] = la[q] BY <1>k, <2>1
    <3> QED BY <3>1, <3>2, <3>3
  <2>6. /\ ow = [q \in Lifecycle |-> ow[q]] /\ ow' = [q \in Lifecycle |-> ow'[q]]
        /\ ep = [q \in Lifecycle |-> ep[q]] /\ ep' = [q \in Lifecycle |-> ep'[q]]
        /\ la = [q \in Lifecycle |-> la[q]] /\ la' = [q \in Lifecycle |-> la'[q]]
    OBVIOUS
  <2>7. f.sess \in 1 .. Cardinality(Producers) + Cardinality(Sessions)
    <3>1. f.sess \in 1 .. next_gen BY <1>1, <2>2, LineMoves
    <3>2. Started \in SUBSET Producers /\ Answered \in SUBSET Sessions BY DEF Started, Answered
    <3>3. /\ Cardinality(Started) \in Nat /\ Cardinality(Producers) \in Nat
          /\ Cardinality(Started) <= Cardinality(Producers)
      BY <3>2, CountGrows
    <3>4. /\ Cardinality(Answered) \in Nat /\ Cardinality(Sessions) \in Nat
          /\ Cardinality(Answered) <= Cardinality(Sessions)
      BY <3>2, CountGrows
    <3> QED BY <1>1, <3>1, <3>3, <3>4 DEF SimInv, CountOK
  <2> HIDE DEF ow, ep, la
  <2>m. f.sess # 0 /\ LineEffect(w, f, v, next_gen)
    <3>1. f.sess \in 1 .. next_gen => f.sess # 0 BY <1>1
    <3> QED BY <1>1, <2>2, <3>1, LineMoves
  <2>8. CASE f.kind = "attach"
    <3>1. /\ ow[p] = 0 /\ ow'[p] = f.sess /\ ep[p] < f.sess /\ ep'[p] = f.sess /\ la'[p] = la[p]
      BY <2>4, <2>m, <2>8 DEF LineEffect
    <3>2. ow' = [ow EXCEPT ![p] = f.sess] /\ ep' = [ep EXCEPT ![p] = f.sess] /\ la' = la BY <2>5, <2>6, <3>1
    <3>3. Stream!Open(p) BY <1>1, <2>7, <3>1, <3>2 DEF Stream!Open, ow, ep, la
    <3> QED BY <3>3 DEF Stream!Next
  <2>9. CASE f.kind = "request"
    <3>1. /\ ow[p] = f.sess /\ ow'[p] = f.sess /\ ep'[p] = ep[p] /\ la'[p] = f.sess /\ f.sess # 0
      BY <2>4, <2>m, <2>9 DEF LineEffect
    <3>2. ow' = ow /\ ep' = ep /\ la' = [la EXCEPT ![p] = ow[p]] BY <2>5, <2>6, <3>1
    <3>3. Stream!Use(p) BY <3>1, <3>2 DEF Stream!Use, ow, ep, la
    <3> QED BY <3>3 DEF Stream!Next
  <2>10. CASE f.kind = "detach"
    <3>1. /\ ow[p] = f.sess /\ ow'[p] = 0 /\ ep'[p] = ep[p] /\ la'[p] = la[p] /\ f.sess # 0
      BY <2>4, <2>m, <2>10 DEF LineEffect
    <3>2. ow' = [ow EXCEPT ![p] = 0] /\ ep' = ep /\ la' = la BY <2>5, <2>6, <3>1
    <3>3. Stream!Close(p) BY <3>1, <3>2 DEF Stream!Close, ow, ep, la
    <3> QED BY <3>3 DEF Stream!Next
  <2> QED BY <2>8, <2>9, <2>10 DEF Frames
<1>7. (\A p \in Lifecycle : wire'[p] = wire[p]) \/ \E p \in Lifecycle : WriterWrite(p) /\ sock[p] = "open"
  <2>1. CASE ~\E p \in Producers : WriterWrite(p) BY <2>1, OnlyWriterWrites
  <2>2. ASSUME NEW p \in Producers, WriterWrite(p)
        PROVE  (\A q \in Lifecycle : wire'[q] = wire[q]) \/ (p \in Lifecycle /\ sock[p] = "open")
    BY <1>1, <2>2 DEF WriterWrite
  <2> QED BY <2>1, <2>2
<1> QED BY <1>5, <1>6, <1>7

\* The lines that lifecycle producers read are a behaviour of the abstract stream of
\* attachments: an attachment is opened only when none is open, under a number that was
\* never used, and every request and every detach event is of the one that is open.
THEOREM BrokerImplementsStream ==
    ASSUME IsFiniteSet(Producers), IsFiniteSet(Sessions)
    PROVE  Spec => ImplementsStream
<1>1. Init => SimInv
  <2>1. Init => RegsOK /\ LinesOK BY DEF Init, RegsOK, LinesOK
  <2>2. Init => CountOK
    <3>1. IsFiniteSet(Started) /\ IsFiniteSet(Answered) BY FS_Subset DEF Started, Answered
    <3>2. Cardinality(Started) \in Nat /\ Cardinality(Answered) \in Nat BY <3>1, FS_CardinalityType
    <3> QED BY <3>2 DEF Init, CountOK
  <2> QED BY <2>1, <2>2, TypeInit, AskInit, StreamInit DEF SimInv
<1>2. SimInv /\ [Next]_vars => SimInv'
  BY TypeStep, AskStep, StreamStep, RegsStep, LinesStep, CountStep DEF SimInv
<1>3. Init => Stream!Init
  <2>1. ASSUME Init PROVE \A p \in Lifecycle :
            WireOwner(wire[p]) = 0 /\ LastOf(wire[p], "attach") = 0 /\ LastOf(wire[p], "request") = 0
    BY <2>1 DEF Init, WireOwner, LastOf
  <2> QED BY <2>1 DEF Stream!Init
<1>4. SimInv /\ SimInv' /\ [Next]_vars => [Stream!Next]_<<[p \in Lifecycle |-> WireOwner(wire[p])],
                           [p \in Lifecycle |-> LastOf(wire[p], "attach")],
                           [p \in Lifecycle |-> LastOf(wire[p], "request")]>>
  BY StreamSimulates
<1> QED BY <1>1, <1>2, <1>3, <1>4, PTL DEF Spec, ImplementsStream, Stream!Spec
=============================================================================
