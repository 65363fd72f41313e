----------------------- MODULE ControlledTool_proofs ------------------------
(***************************************************************************)
(* The safety of a controlled tool with its exchange and its bridge, for   *)
(* every set of ports and any number of operations and attachments.        *)
(***************************************************************************)
EXTENDS ControlledTool, OwnedBridge_proofs

-----------------------------------------------------------------------------
(* The inductive invariant.                                                 *)

Whats == {"begin", "pause", "press", "step", "status", "release", "finish"}
Lines == [id : Nat, what : Whats \cup {"cancel"}, control : Nat, owner : Nat, port : Ports \cup {0}]
Answers == [ok : BOOLEAN, interrupted : BOOLEAN, frozen : BOOLEAN, ports : SUBSET Ports,
            effects : BOOLEAN]
Responses == [id : Nat, answer : Answers]

\* The types of the exchange and of what is on its way.
WireTypes ==
    /\ call \in [id : Nat, what : Whats, cleanup : BOOLEAN]
    /\ answer \in Seq(Answers) /\ reply \in Answers /\ doing \in Lines
    /\ up \in Seq(Lines) /\ down \in Seq(Responses)

\* The bridge is attached to no broker.
Direct == ~broker /\ ~detached

\* What each call of the tool asks.
CallOK ==
    wire # "none" =>
        /\ pc \in {"begin", "press", "release", "finish"} => call.what = pc
        /\ pc \in {"pause", "freeze"} => call.what = "pause"
        /\ pc \in {"advance", "after"} => call.what \in {"step", "status"}
        /\ call.what = "release" => scope.input_issued

\* The port a request of the tool names.
PortOf(what) == IF what \in {"press", "release"} THEN target ELSE 0

IsRequest(l) == l.id = call.id /\ l.what = call.what /\ l.owner = parent /\ l.port = PortOf(call.what)

IsAbort(l) == l.id = call.id + 1 /\ l.what = "cancel"

\* What an answer that is given, and the tool has not seen yet, says of the emulator.
Evidence(what, r) ==
    r.ok => /\ what = "finish" => Clean
            /\ what \in {"pause", "step", "status"} /\ r.frozen => ~advancing
            /\ what = "release" => target \notin held

\* No two lines answer to the same id.
OncePerId(s) == \A i, j \in DOMAIN s : s[i].id = s[j].id => i = j

\* The request is in one place at most: on its way, with the worker, answered on the
\* way back, or read.  So is the abort, while its acknowledgement is awaited.
UpOK ==
    /\ \A i \in DOMAIN up :
        \/ /\ IsRequest(up[i]) /\ answer = <<>> /\ conn # "working"
           /\ \A j \in DOMAIN down : down[j].id # call.id
        \/ /\ IsAbort(up[i]) /\ abort = "sent"
           /\ \A j \in DOMAIN down : down[j].id # call.id + 1
    /\ OncePerId(up)

DownOK ==
    /\ \A i \in DOMAIN down :
        \/ /\ down[i].id = call.id /\ answer = <<>> /\ conn # "working"
           /\ Evidence(call.what, down[i].answer)
        \/ down[i].id = call.id + 1 /\ abort = "sent"
    /\ OncePerId(down)

ReadOK ==
    answer # <<>> => Len(answer) = 1 /\ conn # "working" /\ Evidence(call.what, answer[1])

\* What the worker does is the request that the exchange awaits.
WorksOnCall ==
    conn = "working" =>
        /\ IsRequest(doing) /\ answer = <<>> /\ ~transport_error
        /\ method = MethodOf(call.what) /\ key = parent /\ port = PortOf(call.what)
        /\ stage = "native" => method \in {"effect", "observe"}
        /\ stage = "reply" => Evidence(call.what, reply)

\* A request that is out is owed by the tool.
DispatchOwed ==
    /\ call.what \in {"pause", "step"} => scope.effects_started /\ ~scope.stop_verified
    /\ call.what \in {"press", "release"} => scope.input_issued /\ target \in scope.input_ports

ExchangeOK ==
    link = "up" =>
        IF wire = "sent" THEN UpOK /\ DownOK /\ ReadOK /\ WorksOnCall /\ DispatchOwed
        ELSE up = <<>> /\ down = <<>> /\ conn # "working"

\* As long as its link is up, a tool knows all that it has done.
Knows ==
    /\ parent # 0 /\ parent_key \in {0, parent}
    /\ held # {} => scope.input_issued
    /\ advancing => scope.effects_started /\ ~scope.stop_verified
    /\ input_ports \subseteq scope.input_ports /\ held \subseteq scope.input_ports
    /\ scope.input_ports \subseteq {target}
    /\ effects_started => scope.effects_started
    /\ scope.input_issued => scope.effects_started

KnowsOK == pc # "idle" /\ link = "up" => Knows

\* What is off the record is clean, and no bridge works on it.
RecordOK ==
    record = "none" => /\ Clean
                       /\ conn # "working"
                       /\ link = "down" => conn \in {"down", "exited"}

HostInv ==
    /\ ToolTypeOK /\ WireTypes /\ Direct
    /\ CallOK /\ ExchangeOK /\ KnowsOK /\ RecordOK

ToolInv == IInv /\ HostInv

-----------------------------------------------------------------------------
(* Lines on their way.                                                      *)

LEMMA LineAdded ==
    ASSUME NEW S, NEW s \in Seq(S), NEW x \in S
    PROVE  /\ Append(s, x) \in Seq(S) /\ Append(s, x) # <<>>
           /\ \A i \in DOMAIN Append(s, x) :
                (i \in DOMAIN s /\ Append(s, x)[i] = s[i]) \/ (i \notin DOMAIN s /\ Append(s, x)[i] = x)
           /\ OncePerId(s) /\ (\A i \in DOMAIN s : s[i].id # x.id) => OncePerId(Append(s, x))
<1> DEFINE t == Append(s, x)
           n == Len(s)
<1>1. n \in Nat /\ DOMAIN s = 1 .. n /\ t \in Seq(S) /\ DOMAIN t = 1 .. n + 1 /\ t[n + 1] = x /\ t # <<>>
  OBVIOUS
<1>2. \A i \in 1 .. n : t[i] = s[i] OBVIOUS
<1>3. \A i \in 1 .. n + 1 : i \in 1 .. n \/ (i = n + 1 /\ i \notin 1 .. n) BY <1>1
<1> HIDE DEF t, n
<1>4. \A i \in DOMAIN t : (i \in DOMAIN s /\ t[i] = s[i]) \/ (i = n + 1 /\ i \notin DOMAIN s /\ t[i] = x)
  BY <1>1, <1>2, <1>3
<1>5. ASSUME OncePerId(s), \A i \in DOMAIN s : s[i].id # x.id PROVE OncePerId(t)
  BY <1>4, <1>5 DEF OncePerId
<1> QED BY <1>1, <1>4, <1>5 DEF t

LEMMA LineTaken ==
    ASSUME NEW S, NEW s \in Seq(S), s # <<>>
    PROVE  /\ Tail(s) \in Seq(S) /\ 1 \in DOMAIN s /\ Head(s) = s[1] /\ Head(s) \in S
           /\ \A i \in DOMAIN Tail(s) : \E k \in DOMAIN s : Tail(s)[i] = s[k]
           /\ OncePerId(s) => OncePerId(Tail(s)) /\ \A i \in DOMAIN Tail(s) : Tail(s)[i].id # s[1].id
<1> DEFINE t == Tail(s)
           n == Len(s)
<1>1. n \in Nat /\ n # 0 /\ DOMAIN s = 1 .. n /\ t \in Seq(S) /\ Len(t) = n - 1 OBVIOUS
<1>2. DOMAIN t = 1 .. n - 1 BY <1>1
<1>3. \A i \in 1 .. n - 1 : i + 1 \in 1 .. n /\ t[i] = s[i + 1] /\ i + 1 # 1 BY <1>1
<1>4. 1 \in DOMAIN s /\ Head(s) = s[1] /\ Head(s) \in S BY <1>1
<1> HIDE DEF t, n
<1>5. \A i \in DOMAIN t : \E k \in DOMAIN s : t[i] = s[k] BY <1>1, <1>2, <1>3
<1>6. ASSUME OncePerId(s) PROVE OncePerId(t) /\ \A i \in DOMAIN t : t[i].id # s[1].id
  <2>1. ASSUME NEW i \in DOMAIN t PROVE t[i].id # s[1].id
    <3>1. i + 1 \in DOMAIN s /\ t[i] = s[i + 1] /\ i + 1 # 1 /\ 1 \in DOMAIN s BY <1>1, <1>2, <1>3, <1>4
    <3> QED BY <1>6, <3>1 DEF OncePerId
  <2>2. ASSUME NEW i \in DOMAIN t, NEW j \in DOMAIN t, t[i].id = t[j].id PROVE i = j
    <3>1. i + 1 \in DOMAIN s /\ j + 1 \in DOMAIN s /\ s[i + 1].id = s[j + 1].id BY <1>1, <1>2, <1>3, <2>2
    <3>2. i + 1 = j + 1 BY <1>6, <3>1 DEF OncePerId
    <3> QED BY <1>1, <1>2, <3>2
  <2> QED BY <2>1, <2>2 DEF OncePerId
<1> QED BY <1>1, <1>4, <1>5, <1>6 DEF t

-----------------------------------------------------------------------------
(* What stays.                                                              *)

\* The parts of the bridge that the invariant speaks of.
BridgeStill ==
    UNCHANGED <<conn, parent_key, held, advancing, input_ports, effects_started, transport_error,
                broker, detached, method, key, port, stage, doing, reply>>

LEMMA VarsStill == UNCHANGED <<vars, served>> => BridgeStill
  BY DEF BridgeStill, vars, served, ownership, plan, session, front, request, executor, native

Scopes == [effects_started : BOOLEAN, stop_verified : BOOLEAN, input_issued : BOOLEAN,
           input_ports : SUBSET Ports]

PcValues == {"idle", "begin", "pause", "press", "advance", "release", "after", "freeze", "finish"}

\* How a call ends, whatever it was.
LEMMA EndCallFacts ==
    ASSUME ToolTypeOK, pc # "idle", NEW e \in {"ok", "interrupted", "error", "cancelled"}, NEW r, NEW s,
           EndCall(e, r, s)
    PROVE  /\ pc' \in PcValues /\ outcome' \in {"ok", "interrupted", "error"}
           /\ record' \in {"none", "active", "unverified"} /\ (record' = "active") = (pc' # "idle")
           /\ record' = "none" => pc = "finish" /\ e = "ok"
           /\ scope' = s /\ UNCHANGED <<tool, parent, target, cancel>>
<1>1. /\ pc \in PcValues \ {"idle"} /\ tool \in {"tap", "step"} /\ record = "active"
      /\ outcome \in {"ok", "interrupted", "error"}
  BY DEF ToolTypeOK, PcValues
<1>2. scope' = s /\ UNCHANGED <<tool, parent, target, cancel>> /\ pc' \in Following(e) BY DEF EndCall
<1>3. outcome' \in {"ok", "interrupted", "error"} BY <1>1 DEF EndCall
<1>4. CASE pc = "begin"
  <2>1. Following(e) = IF e # "ok" THEN {"idle"} ELSE IF tool = "tap" THEN {"pause"} ELSE {"advance"}
    BY <1>4 DEF Following
  <2>2. record' = IF e # "ok" THEN "unverified" ELSE record BY <1>4 DEF EndCall
  <2> QED BY <1>1, <1>2, <1>3, <2>1, <2>2 DEF PcValues
<1>5. CASE pc = "finish"
  <2>1. Following(e) = {"idle"} BY <1>5 DEF Following
  <2>2. record' = IF Cleared(e, r, s) THEN "none" ELSE "unverified" BY <1>5 DEF EndCall
  <2>3. Cleared(e, r, s) => e = "ok" BY DEF Cleared
  <2> QED BY <1>2, <1>3, <1>5, <2>1, <2>2, <2>3 DEF PcValues
<1>6. CASE pc \notin {"begin", "finish"}
  <2>1. record' = record BY <1>6 DEF EndCall
  <2>2. Following(e) = IF tool = "tap" THEN AfterInTap(e) ELSE AfterInStep(e) BY <1>6 DEF Following
  <2>3. AfterInStep(e) \subseteq PcValues \ {"idle"} BY DEF AfterInStep, PcValues
  <2>4. AfterInTap(e) \subseteq PcValues \ {"idle"}
    <3>1. pc \in {"pause", "press", "advance", "release", "after", "freeze"} BY <1>1, <1>6 DEF PcValues
    <3> QED BY <3>1 DEF AfterInTap, PcValues
  <2> QED BY <1>1, <1>2, <1>3, <2>1, <2>2, <2>3, <2>4
<1> QED BY <1>4, <1>5, <1>6

\* A scope that owes all that the tool's own does, and for no other port than its target.
Covers(s) ==
    /\ scope.input_issued => s.input_issued
    /\ scope.effects_started => s.effects_started
    /\ scope.effects_started /\ ~scope.stop_verified => ~s.stop_verified
    /\ scope.input_ports \subseteq s.input_ports /\ s.input_ports \subseteq scope.input_ports \cup {target}
    /\ s.input_issued => s.effects_started \/ scope.input_issued

\* A call that ends without an exchange, or with one that settles nothing.
LEMMA EndsQuietly ==
    ASSUME ToolInv, pc # "idle", NEW e \in {"ok", "interrupted", "error", "cancelled"}, NEW r, NEW s \in Scopes,
           EndCall(e, r, s), pc = "finish" => e # "ok", UNCHANGED <<vars, served, lines, kind, next_id, call, abort, answer>>,
           wire # "sent" \/ link' = "down", wire' = "none", link' \in {"up", "down"}, link' = "up" => link = "up" /\ Covers(s)
    PROVE  HostInv'
<1>1. /\ pc' \in PcValues /\ outcome' \in {"ok", "interrupted", "error"}
      /\ record' \in {"none", "active", "unverified"} /\ (record' = "active") = (pc' # "idle")
      /\ record' # "none" /\ scope' = s /\ UNCHANGED <<tool, parent, target, cancel>>
  BY EndCallFacts DEF ToolInv, HostInv
<1>2. BridgeStill BY VarsStill
<1>3. UNCHANGED <<up, down>> BY DEF lines
<1>4. ToolTypeOK' BY <1>1 DEF ToolInv, HostInv, ToolTypeOK, PcValues, Scopes
<1>5. WireTypes' BY <1>2, <1>3 DEF ToolInv, HostInv, WireTypes, BridgeStill
<1>6. Direct' BY <1>2 DEF ToolInv, HostInv, Direct, BridgeStill
<1>7. CallOK' BY DEF CallOK
<1>8. ExchangeOK'
  <2> SUFFICES ASSUME link' = "up" PROVE up' = <<>> /\ down' = <<>> /\ conn' # "working"
    BY DEF ExchangeOK
  <2>1. link = "up" /\ wire # "sent" OBVIOUS
  <2> QED BY <1>2, <1>3, <2>1 DEF ToolInv, HostInv, ExchangeOK, BridgeStill
<1>9. KnowsOK' BY <1>1, <1>2 DEF ToolInv, HostInv, KnowsOK, Knows, Covers, BridgeStill
<1>10. RecordOK' BY <1>1 DEF RecordOK
<1> QED BY <1>4, <1>5, <1>6, <1>7, <1>8, <1>9, <1>10 DEF HostInv

-----------------------------------------------------------------------------
(* The steps of the host.                                                   *)

LEMMA OwingFacts ==
    ASSUME ToolTypeOK, NEW what \in Whats
    PROVE  Owing(what) \in Scopes
<1>1. scope \in Scopes /\ target \in Ports BY DEF ToolTypeOK, Scopes
<1>2. CASE what \in {"pause", "step"}
  BY <1>1, <1>2 DEF Owing, Scopes
<1>3. CASE what = "press"
  BY <1>1, <1>3 DEF Owing, Scopes
<1>4. CASE what = "release"
  BY <1>1, <1>4 DEF Owing, Scopes
<1>5. CASE what \in {"begin", "status", "finish"}
  BY <1>1, <1>5 DEF Owing
<1> QED BY <1>2, <1>3, <1>4, <1>5 DEF Whats

LEMMA OwingCovers ==
    ASSUME ToolTypeOK, NEW what \in Whats
    PROVE  Covers(Owing(what)) /\ Covers(scope)
<1>1. scope \in Scopes /\ target \in Ports BY DEF ToolTypeOK, Scopes
<1>2. CASE what \in {"pause", "step"} BY <1>1, <1>2 DEF Owing, Scopes, Covers
<1>3. CASE what = "press" BY <1>1, <1>3 DEF Owing, Scopes, Covers
<1>4. CASE what = "release" BY <1>1, <1>4 DEF Owing, Scopes, Covers
<1>5. CASE what \in {"begin", "status", "finish"} BY <1>1, <1>5 DEF Owing, Scopes, Covers
<1>6. Covers(scope) BY <1>1 DEF Covers
<1> QED BY <1>2, <1>3, <1>4, <1>5, <1>6 DEF Whats

\* The calls that end before their request is made, or with a failed exchange.
LEMMA QuietSteps ==
    ASSUME ToolInv,
           \/ NothingToRelease \/ CancelledBefore \/ NotConnected
           \/ LeaseRefused \/ CancelledAtDispatch \/ ExchangeFails
    PROVE  HostInv'
<1>1. scope \in Scopes /\ link \in {"up", "down"} /\ (wire # "none" => pc # "idle") /\ ToolTypeOK
  BY DEF ToolInv, HostInv, ToolTypeOK, Scopes
<1>0. call.what \in Whats /\ Covers(scope) /\ Covers(Owing(call.what))
  <2>1. call.what \in Whats BY DEF ToolInv, HostInv, WireTypes
  <2> QED BY <1>1, <2>1, OwingCovers
<1>2. CASE NothingToRelease
  <2>1. /\ pc # "idle" /\ pc # "finish" /\ EndCall("ok", NoAnswer, scope) /\ wire = "none"
        /\ UNCHANGED <<vars, served, lines, kind, next_id, call, abort, answer, wire, link>>
    BY <1>2 DEF NothingToRelease, AtRest, exchange
  <2> QED BY <1>0, <1>1, <2>1, EndsQuietly
<1>3. CASE CancelledBefore
  <2>1. /\ pc # "idle" /\ EndCall("cancelled", NoAnswer, scope) /\ wire = "none"
        /\ UNCHANGED <<vars, served, lines, kind, next_id, call, abort, answer, wire, link>>
    BY <1>3 DEF CancelledBefore, AtRest, exchange
  <2> QED BY <1>0, <1>1, <2>1, EndsQuietly
<1>4. CASE NotConnected
  <2> DEFINE s == IF pc \in {"pause", "freeze"} THEN Owing("pause") ELSE scope
  <2>1. /\ pc # "idle" /\ EndCall("error", NoAnswer, s) /\ wire = "none" /\ link = "down"
        /\ UNCHANGED <<vars, served, lines, kind, next_id, call, abort, answer, wire, link>>
    BY <1>4 DEF NotConnected, AtRest, exchange
  <2>2. "pause" \in Whats BY DEF Whats
  <2>3. Owing("pause") \in Scopes BY <1>1, <2>2, OwingFacts
  <2>4. s \in Scopes BY <1>1, <2>3
  <2> HIDE DEF s
  <2> QED BY <1>1, <2>1, <2>4, EndsQuietly
<1>5. CASE CancelledAtDispatch
  <2>1. /\ pc # "idle" /\ EndCall("cancelled", NoAnswer, scope) /\ wire = "entered" /\ wire' = "none"
        /\ link = "up" /\ link' \in {"up", "down"}
        /\ UNCHANGED <<vars, served, lines, kind, next_id, call, abort, answer>>
    BY <1>1, <1>5 DEF CancelledAtDispatch, ToolTypeOK
  <2> QED BY <1>0, <1>1, <2>1, EndsQuietly
<1>6. CASE ExchangeFails
  <2>1. /\ pc # "idle" /\ EndCall("error", NoAnswer, Owing(call.what)) /\ wire' = "none" /\ link' = "down"
        /\ UNCHANGED <<vars, served, lines, kind, next_id, call, abort, answer>>
    BY <1>1, <1>6 DEF ExchangeFails
  <2>2. Owing(call.what) \in Scopes
    <3>1. call.what \in Whats BY DEF ToolInv, HostInv, WireTypes
    <3> QED BY <1>1, <3>1, OwingFacts
  <2> QED BY <1>1, <2>1, <2>2, EndsQuietly
<1>7. CASE LeaseRefused
  <2>1. /\ pc # "idle" /\ EndCall("error", NoAnswer, Owing(call.what)) /\ wire = "entered" /\ wire' = "none"
        /\ link = "up" /\ UNCHANGED <<vars, served, lines, kind, next_id, call, abort, answer, link>>
    BY <1>1, <1>7 DEF LeaseRefused, ToolTypeOK
  <2>2. Owing(call.what) \in Scopes BY <1>0, <1>1, OwingFacts
  <2> QED BY <1>0, <1>1, <2>1, <2>2, EndsQuietly
<1> QED BY <1>2, <1>3, <1>4, <1>5, <1>6, <1>7

LEMMA StartToolStep == ASSUME ToolInv, StartTool PROVE HostInv'
<1>1. /\ pc = "idle" /\ link = "up" /\ record = "none" /\ tool' \in {"tap", "step"} /\ target' \in Ports
      /\ parent' = operation + 1 /\ pc' = "begin" /\ cancel' = FALSE /\ outcome' = "ok"
      /\ scope' = NothingOwed /\ record' = "active"
      /\ UNCHANGED <<kind, link, next_id, wire, call, abort, answer, up, down>>
  BY DEF StartTool, exchange, lines
<1>2. BridgeStill BY VarsStill DEF StartTool
<1>3. /\ wire = "none" /\ up = <<>> /\ down = <<>> /\ conn # "working" /\ Clean
  BY <1>1 DEF ToolInv, HostInv, ToolTypeOK, ExchangeOK, RecordOK
<1>4. operation \in Nat /\ input_ports = {} /\ ~effects_started
  BY <1>3 DEF ToolInv, IInv, TypeOK, ParentOK, Clean
<1>5. ToolTypeOK'
  <2>1. scope' \in Scopes BY <1>1 DEF Scopes, NothingOwed, Owes
  <2>2. parent' \in Nat BY <1>1, <1>4
  <2> QED BY <1>1, <1>3, <2>1, <2>2 DEF ToolInv, HostInv, ToolTypeOK, Scopes
<1>6. WireTypes' BY <1>1, <1>2 DEF ToolInv, HostInv, WireTypes, BridgeStill
<1>7. Direct' BY <1>2 DEF ToolInv, HostInv, Direct, BridgeStill
<1>8. CallOK' BY <1>1, <1>3 DEF CallOK
<1>9. ExchangeOK' BY <1>1, <1>2, <1>3 DEF ExchangeOK, BridgeStill
<1>10. Knows' BY <1>1, <1>2, <1>3, <1>4 DEF Knows, Clean, BridgeStill, NothingOwed, Owes
<1>11. RecordOK' BY <1>1 DEF RecordOK
<1> QED BY <1>5, <1>6, <1>7, <1>8, <1>9, <1>10, <1>11 DEF HostInv, KnowsOK

LEMMA CancelStep == ASSUME ToolInv, Cancel PROVE HostInv'
<1>1. /\ cancel' = TRUE /\ UNCHANGED <<pc, tool, parent, target, outcome, scope, record, kind, link, next_id,
                                       wire, call, abort, answer, up, down>>
  BY DEF Cancel, exchange, lines
<1>2. BridgeStill BY VarsStill DEF Cancel
<1>3. ToolTypeOK' BY <1>1 DEF ToolInv, HostInv, ToolTypeOK
<1>4. WireTypes' BY <1>1, <1>2 DEF ToolInv, HostInv, WireTypes, BridgeStill
<1>5. Direct' BY <1>2 DEF ToolInv, HostInv, Direct, BridgeStill
<1>6. CallOK' BY <1>1 DEF ToolInv, HostInv, CallOK
<1>7. ExchangeOK'
  BY <1>1, <1>2 DEF ToolInv, HostInv, ExchangeOK, UpOK, DownOK, ReadOK, WorksOnCall, DispatchOwed,
     BridgeStill, IsRequest, IsAbort, PortOf, Evidence, Clean
<1>8. KnowsOK' BY <1>1, <1>2 DEF ToolInv, HostInv, KnowsOK, Knows, BridgeStill
<1>9. RecordOK' BY <1>1, <1>2 DEF ToolInv, HostInv, RecordOK, Clean, BridgeStill
<1> QED BY <1>3, <1>4, <1>5, <1>6, <1>7, <1>8, <1>9 DEF HostInv

LEMMA LinkLostStep == ASSUME ToolInv, LinkLost PROVE HostInv'
<1>1. /\ pc = "idle" /\ link' = "down" /\ conn \in {"down", "exited"}
      /\ UNCHANGED <<pc, tool, parent, target, cancel, outcome, scope, record, kind, next_id,
                     wire, call, abort, answer, up, down>>
  BY DEF LinkLost, host, lines
<1>2. BridgeStill BY VarsStill DEF LinkLost
<1>3. ToolTypeOK' BY <1>1 DEF ToolInv, HostInv, ToolTypeOK
<1>4. WireTypes' BY <1>1, <1>2 DEF ToolInv, HostInv, WireTypes, BridgeStill
<1>5. Direct' BY <1>2 DEF ToolInv, HostInv, Direct, BridgeStill
<1>6. CallOK' BY <1>1 DEF ToolInv, HostInv, CallOK
<1>7. ExchangeOK' BY <1>1 DEF ExchangeOK
<1>8. KnowsOK' BY <1>1 DEF KnowsOK
<1>9. RecordOK' BY <1>1, <1>2 DEF ToolInv, HostInv, RecordOK, Clean, BridgeStill
<1> QED BY <1>3, <1>4, <1>5, <1>6, <1>7, <1>8, <1>9 DEF HostInv

LEMMA EnterCallStep == ASSUME ToolInv, EnterCall PROVE HostInv'
<1>1. /\ pc # "idle" /\ wire = "none" /\ link = "up" /\ wire' = "entered"
      /\ pc = "release" => scope.input_issued
      /\ call' = [id |-> next_id, what |-> Asks, cleanup |-> pc \in {"release", "finish"} \/ cancel]
      /\ UNCHANGED <<pc, tool, parent, target, cancel, outcome, scope, record, kind, link, next_id,
                     abort, answer, up, down>>
  BY DEF EnterCall, AtRest, host, lines
<1>2. BridgeStill BY VarsStill DEF EnterCall
<1>3. pc \in PcValues \ {"idle"} /\ next_id \in Nat /\ cancel \in BOOLEAN
  BY <1>1 DEF ToolInv, HostInv, ToolTypeOK, PcValues
<1>4. /\ pc \in {"begin", "press", "release", "finish"} => Asks = pc
      /\ pc \in {"pause", "freeze"} => Asks = "pause"
      /\ pc \in {"advance", "after"} => Asks \in {"step", "status"}
  BY DEF Asks
<1>5. Asks \in Whats BY <1>3, <1>4 DEF PcValues, Whats
<1>6. call'.what = Asks /\ call' \in [id : Nat, what : Whats, cleanup : BOOLEAN]
  BY <1>1, <1>3, <1>5
<1>7. ToolTypeOK' BY <1>1 DEF ToolInv, HostInv, ToolTypeOK
<1>8. WireTypes' BY <1>1, <1>2, <1>6 DEF ToolInv, HostInv, WireTypes, BridgeStill
<1>9. Direct' BY <1>2 DEF ToolInv, HostInv, Direct, BridgeStill
<1>10. Asks = "release" => pc = "release" BY <1>3, <1>4 DEF PcValues
<1>11. CallOK' BY <1>1, <1>4, <1>6, <1>10 DEF CallOK
<1>12. ExchangeOK' BY <1>1, <1>2 DEF ToolInv, HostInv, ExchangeOK, BridgeStill
<1>13. KnowsOK' BY <1>1, <1>2 DEF ToolInv, HostInv, KnowsOK, Knows, BridgeStill
<1>14. RecordOK' BY <1>1, <1>2 DEF ToolInv, HostInv, RecordOK, Clean, BridgeStill
<1> QED BY <1>7, <1>8, <1>9, <1>11, <1>12, <1>13, <1>14 DEF HostInv

LEMMA DispatchStep == ASSUME ToolInv, Dispatch PROVE HostInv'
<1> DEFINE l == Line(call.id, call.what)
<1>1. /\ wire = "entered" /\ wire' = "sent" /\ up' = Append(up, l) /\ next_id' = next_id + 2
      /\ abort' = "none" /\ answer' = <<>> /\ scope' = Owing(call.what)
      /\ UNCHANGED <<pc, tool, parent, target, cancel, outcome, record, kind, link, call, down>>
  BY DEF Dispatch
<1>2. BridgeStill BY VarsStill DEF Dispatch
<1>3. /\ link = "up" /\ pc # "idle" /\ up = <<>> /\ down = <<>> /\ conn # "working" /\ Knows /\ ToolTypeOK
      /\ call \in [id : Nat, what : Whats, cleanup : BOOLEAN] /\ parent \in Nat /\ target \in Ports
      /\ next_id \in Nat /\ scope \in Scopes
      /\ call.what = "release" => scope.input_issued
  BY <1>1 DEF ToolInv, HostInv, ToolTypeOK, ExchangeOK, KnowsOK, WireTypes, CallOK, Scopes
<1>4. call.id \in Nat /\ call.what \in Whats /\ Control(call) \in Nat BY <1>3 DEF Control
<1>5. l \in Lines /\ l.id = call.id /\ l.what = call.what /\ l.owner = parent /\ l.port = PortOf(call.what)
  BY <1>3, <1>4 DEF Line, Lines, PortOf
<1> HIDE DEF l
<1>6. up' = <<l>> BY <1>1, <1>3
<1>7. up' \in Seq(Lines) /\ DOMAIN up' = {1} /\ up'[1] = l BY <1>5, <1>6
<1>8. scope' \in Scopes BY <1>1, <1>3, <1>4, OwingFacts
<1>9. ToolTypeOK'
  <2>1. next_id' \in Nat BY <1>1, <1>3
  <2>2. Len(answer') <= 1 BY <1>1
  <2> QED BY <1>1, <1>3, <1>8, <2>1, <2>2 DEF ToolTypeOK, Scopes
<1>10. WireTypes'
  <2>1. answer' \in Seq(Answers) BY <1>1
  <2> QED BY <1>1, <1>2, <1>7, <2>1 DEF ToolInv, HostInv, WireTypes, BridgeStill
<1>11. Direct' BY <1>2 DEF ToolInv, HostInv, Direct, BridgeStill
<1>12. /\ scope.input_issued => scope'.input_issued
       /\ scope.effects_started => scope'.effects_started
       /\ scope.effects_started /\ ~scope.stop_verified => ~scope'.stop_verified
       /\ scope.input_ports \subseteq scope'.input_ports /\ scope'.input_ports \subseteq scope.input_ports \cup {target}
       /\ call.what \in {"pause", "step"} => scope'.effects_started /\ ~scope'.stop_verified
       /\ call.what \in {"press", "release"} => scope'.input_issued /\ target \in scope'.input_ports
       /\ scope'.input_issued => scope'.effects_started \/ scope.input_issued
  <2>1. CASE call.what \in {"pause", "step"} BY <1>1, <1>3, <2>1 DEF Owing, Scopes
  <2>2. CASE call.what = "press" BY <1>1, <1>3, <2>2 DEF Owing, Scopes
  <2>3. CASE call.what = "release" BY <1>1, <1>3, <2>3 DEF Owing, Scopes
  <2>4. CASE call.what \in {"begin", "status", "finish"} BY <1>1, <1>3, <2>4 DEF Owing, Scopes
  <2> QED BY <1>4, <2>1, <2>2, <2>3, <2>4 DEF Whats
<1>13. CallOK' BY <1>1, <1>12 DEF ToolInv, HostInv, CallOK
<1>14. ExchangeOK'
  <2>1. UpOK'
    <3>1. IsRequest(l)' BY <1>1, <1>5 DEF IsRequest, PortOf, l, Line, Control
    <3>2. \A i \in DOMAIN up' : up'[i] = l' /\ i = 1
      <4>1. l' = l BY <1>1 DEF l, Line, Control
      <4> QED BY <1>7, <4>1
    <3>3. DOMAIN down' = {} BY <1>1, <1>3
    <3> QED BY <1>1, <1>2, <1>3, <3>1, <3>2, <3>3 DEF UpOK, OncePerId, BridgeStill
  <2>2. DownOK'
    <3>1. DOMAIN down' = {} BY <1>1, <1>3
    <3> QED BY <3>1 DEF DownOK, OncePerId
  <2>3. ReadOK' /\ WorksOnCall' BY <1>1, <1>2, <1>3 DEF ReadOK, WorksOnCall, BridgeStill
  <2>4. DispatchOwed' BY <1>1, <1>12 DEF DispatchOwed
  <2> QED BY <1>1, <2>1, <2>2, <2>3, <2>4 DEF ExchangeOK
<1>15. Knows' BY <1>1, <1>2, <1>3, <1>12 DEF Knows, BridgeStill
<1>16. RecordOK' BY <1>1, <1>2 DEF ToolInv, HostInv, RecordOK, Clean, BridgeStill
<1> QED BY <1>9, <1>10, <1>11, <1>13, <1>14, <1>15, <1>16 DEF HostInv, KnowsOK

LEMMA SendAbortStep == ASSUME ToolInv, SendAbort PROVE HostInv'
<1> DEFINE l == Line(call.id + 1, "cancel")
<1>1. /\ wire = "sent" /\ abort = "none" /\ answer = <<>> /\ abort' = "sent" /\ up' = Append(up, l)
      /\ UNCHANGED <<pc, tool, parent, target, cancel, outcome, scope, record, kind, link, next_id,
                     wire, call, answer, down>>
  BY DEF SendAbort, host
<1>2. BridgeStill BY VarsStill DEF SendAbort
<1>3. /\ link = "up" /\ UpOK /\ DownOK /\ WorksOnCall /\ DispatchOwed /\ up \in Seq(Lines)
      /\ call.id \in Nat /\ call \in [id : Nat, what : Whats, cleanup : BOOLEAN]
      /\ parent \in Nat /\ target \in Ports
  BY <1>1 DEF ToolInv, HostInv, ToolTypeOK, ExchangeOK, WireTypes
<1>4. l \in Lines /\ l.id = call.id + 1 /\ l.what = "cancel"
  BY <1>3 DEF Line, Lines, Control
<1>5. call.id # call.id + 1 BY <1>3
<1> HIDE DEF l
<1>6. \A i \in DOMAIN up : IsRequest(up[i]) /\ up[i].id # l.id /\ conn # "working" /\ \A j \in DOMAIN down : down[j].id # call.id
  BY <1>1, <1>3, <1>4, <1>5 DEF UpOK, IsRequest
<1>7. \A j \in DOMAIN down : down[j].id # call.id + 1
  BY <1>1, <1>3, <1>5 DEF DownOK
<1>8. /\ up' \in Seq(Lines)
      /\ \A i \in DOMAIN up' : (i \in DOMAIN up /\ up'[i] = up[i]) \/ (i \notin DOMAIN up /\ up'[i] = l)
      /\ OncePerId(up')
  <2>1. OncePerId(up) BY <1>3 DEF UpOK
  <2> QED BY <1>1, <1>3, <1>4, <1>6, <2>1, LineAdded
<1>9. ToolTypeOK' BY <1>1 DEF ToolInv, HostInv, ToolTypeOK
<1>10. WireTypes' BY <1>1, <1>2, <1>8 DEF ToolInv, HostInv, WireTypes, BridgeStill
<1>11. Direct' BY <1>2 DEF ToolInv, HostInv, Direct, BridgeStill
<1>12. CallOK' BY <1>1 DEF ToolInv, HostInv, CallOK
<1>13. ExchangeOK'
  <2>1. UpOK'
    <3> SUFFICES ASSUME NEW i \in DOMAIN up'
                 PROVE  \/ /\ IsRequest(up[i])' /\ answer' = <<>> /\ conn' # "working"
                           /\ \A j \in DOMAIN down' : down'[j].id # call'.id
                        \/ /\ IsAbort(up[i])' /\ abort' = "sent"
                           /\ \A j \in DOMAIN down' : down'[j].id # call'.id + 1
      BY <1>8 DEF UpOK, OncePerId
    <3> QED BY <1>1, <1>2, <1>4, <1>6, <1>7, <1>8 DEF IsRequest, IsAbort, PortOf, BridgeStill
  <2>2. DownOK' BY <1>1, <1>2, <1>3 DEF DownOK, Evidence, Clean, BridgeStill, OncePerId
  <2>3. ReadOK' BY <1>1 DEF ReadOK
  <2>4. WorksOnCall' BY <1>1, <1>2, <1>3 DEF WorksOnCall, IsRequest, PortOf, Evidence, Clean, BridgeStill
  <2>5. DispatchOwed' BY <1>1, <1>3 DEF DispatchOwed
  <2> QED BY <1>1, <2>1, <2>2, <2>3, <2>4, <2>5 DEF ExchangeOK
<1>14. KnowsOK' BY <1>1, <1>2 DEF ToolInv, HostInv, KnowsOK, Knows, BridgeStill
<1>15. RecordOK' BY <1>1, <1>2 DEF ToolInv, HostInv, RecordOK, Clean, BridgeStill
<1> QED BY <1>9, <1>10, <1>11, <1>12, <1>13, <1>14, <1>15 DEF HostInv

LEMMA ReceiveStep == ASSUME ToolInv, Receive PROVE HostInv'
<1> DEFINE r == down[1]
<1>1. /\ wire = "sent" /\ down # <<>> /\ down' = Tail(down)
      /\ abort' = IF Head(down).id = call.id + 1 /\ abort = "sent" THEN "acknowledged" ELSE abort
      /\ answer' = IF Head(down).id = call.id THEN Append(answer, Head(down).answer) ELSE answer
      /\ UNCHANGED <<pc, tool, parent, target, cancel, outcome, scope, record, kind, link, next_id,
                     wire, call, up>>
  BY DEF Receive, host
<1>2. BridgeStill BY VarsStill DEF Receive
<1>3. /\ link = "up" /\ UpOK /\ DownOK /\ ReadOK /\ WorksOnCall /\ DispatchOwed /\ down \in Seq(Responses)
      /\ call.id \in Nat /\ answer \in Seq(Answers) /\ abort \in {"none", "sent", "acknowledged"}
      /\ Len(answer) <= 1
  BY <1>1 DEF ToolInv, HostInv, ToolTypeOK, ExchangeOK, WireTypes
<1>4. call.id # call.id + 1 BY <1>3
<1>5. OncePerId(down) BY <1>3 DEF DownOK
<1>6. /\ Tail(down) \in Seq(Responses) /\ 1 \in DOMAIN down /\ Head(down) = r /\ r \in Responses
      /\ \A i \in DOMAIN down' : \E k \in DOMAIN down : down'[i] = down[k]
      /\ OncePerId(down') /\ \A i \in DOMAIN down' : down'[i].id # r.id
  BY <1>1, <1>3, <1>5, LineTaken
<1>7. \/ /\ r.id = call.id /\ answer = <<>> /\ conn # "working" /\ Evidence(call.what, r.answer)
      \/ r.id = call.id + 1 /\ abort = "sent"
  BY <1>3, <1>6 DEF DownOK
<1> HIDE DEF r
<1>8. r.answer \in Answers BY <1>6 DEF Responses
<1>9. Direct' BY <1>2 DEF ToolInv, HostInv, Direct, BridgeStill
<1>10. CallOK' BY <1>1 DEF ToolInv, HostInv, CallOK
<1>11. KnowsOK' BY <1>1, <1>2 DEF ToolInv, HostInv, KnowsOK, Knows, BridgeStill
<1>12. RecordOK' BY <1>1, <1>2 DEF ToolInv, HostInv, RecordOK, Clean, BridgeStill
<1>13. DispatchOwed' BY <1>1, <1>3 DEF DispatchOwed
<1>14. CASE r.id = call.id
  <2>1. abort' = abort /\ answer = <<>> /\ answer' = Append(answer, r.answer) BY <1>1, <1>4, <1>6, <1>7, <1>14
  <2>2. answer' \in Seq(Answers) /\ Len(answer') = 1 /\ answer'[1] = r.answer BY <1>8, <2>1
  <2>3. ToolTypeOK' BY <1>1, <2>1, <2>2 DEF ToolInv, HostInv, ToolTypeOK
  <2>4. WireTypes' BY <1>1, <1>2, <1>6, <2>2 DEF ToolInv, HostInv, WireTypes, BridgeStill
  <2>5. \A i \in DOMAIN up : IsAbort(up[i]) /\ abort = "sent" /\ \A j \in DOMAIN down : down[j].id # call.id + 1
    BY <1>3, <1>6, <1>14 DEF UpOK, r
  <2>6. UpOK'
    <3>1. OncePerId(up') BY <1>1, <1>3 DEF UpOK
    <3>2. \A j \in DOMAIN down' : (\E i \in DOMAIN up : TRUE) => down'[j].id # call.id + 1 BY <1>6, <2>5
    <3> QED BY <1>1, <2>1, <2>5, <3>1, <3>2 DEF UpOK, IsAbort
  <2>7. DownOK'
    <3>1. \A i \in DOMAIN down' : down'[i].id = call.id + 1 /\ abort = "sent"
      BY <1>3, <1>6, <1>14 DEF DownOK
    <3> QED BY <1>1, <1>6, <2>1, <3>1 DEF DownOK
  <2>8. ReadOK' BY <1>1, <1>2, <1>4, <1>7, <1>14, <2>2 DEF ReadOK, Evidence, Clean, BridgeStill
  <2>9. WorksOnCall' BY <1>2, <1>4, <1>7, <1>14 DEF WorksOnCall, BridgeStill
  <2>10. ExchangeOK' BY <1>1, <1>13, <2>6, <2>7, <2>8, <2>9 DEF ExchangeOK
  <2> QED BY <1>9, <1>10, <1>11, <1>12, <2>3, <2>4, <2>10 DEF HostInv
<1>15. CASE r.id = call.id + 1
  <2>1. abort = "sent" /\ abort' = "acknowledged" /\ answer' = answer BY <1>1, <1>4, <1>6, <1>7, <1>15
  <2>2. ToolTypeOK' BY <1>1, <2>1 DEF ToolInv, HostInv, ToolTypeOK
  <2>3. WireTypes' BY <1>1, <1>2, <1>6, <2>1 DEF ToolInv, HostInv, WireTypes, BridgeStill
  <2>4. UpOK'
    <3>1. \A i \in DOMAIN up : /\ IsRequest(up[i]) /\ answer = <<>> /\ conn # "working"
                               /\ \A j \in DOMAIN down : down[j].id # call.id
      BY <1>3, <1>6, <1>15 DEF UpOK, r
    <3>2. OncePerId(up') BY <1>1, <1>3 DEF UpOK
    <3>3. \A j \in DOMAIN down' : (\E i \in DOMAIN up : TRUE) => down'[j].id # call.id BY <1>6, <3>1
    <3> QED BY <1>1, <1>2, <2>1, <3>1, <3>2, <3>3 DEF UpOK, IsRequest, PortOf, BridgeStill
  <2>5. DownOK'
    <3>1. \A i \in DOMAIN down' : /\ down'[i].id = call.id /\ answer = <<>> /\ conn # "working"
                                  /\ Evidence(call.what, down'[i].answer)
      BY <1>3, <1>6, <1>15 DEF DownOK
    <3>2. \A i \in DOMAIN down' : Evidence(call.what, down[i].answer)'
      BY <1>1, <1>2, <3>1 DEF Evidence, Clean, BridgeStill
    <3> QED BY <1>1, <1>2, <1>6, <2>1, <3>1, <3>2 DEF DownOK, BridgeStill
  <2>6. ReadOK' BY <1>1, <1>2, <1>3, <2>1 DEF ReadOK, Evidence, Clean, BridgeStill
  <2>7. WorksOnCall' BY <1>1, <1>2, <1>3, <2>1 DEF WorksOnCall, IsRequest, PortOf, Evidence, Clean, BridgeStill
  <2>8. ExchangeOK' BY <1>1, <1>13, <2>4, <2>5, <2>6, <2>7 DEF ExchangeOK
  <2> QED BY <1>9, <1>10, <1>11, <1>12, <2>2, <2>3, <2>8 DEF HostInv
<1> QED BY <1>7, <1>14, <1>15

LEMMA SettledFacts ==
    ASSUME ToolTypeOK, NEW what, NEW r
    PROVE  /\ Settled(what, r) \in Scopes
           /\ Settled(what, r).effects_started = scope.effects_started
           /\ Settled(what, r).input_ports = scope.input_ports
           /\ Settled(what, r).input_issued = IF what = "release" /\ r.ok THEN FALSE ELSE scope.input_issued
           /\ \/ Settled(what, r).stop_verified = scope.stop_verified
              \/ what \in {"pause", "step", "status"} /\ r.ok /\ r.frozen
<1>1. scope \in Scopes BY DEF ToolTypeOK, Scopes
<1>2. CASE what \in {"pause", "step", "status"} /\ r.ok /\ r.frozen
  BY <1>1, <1>2 DEF Settled, Scopes
<1>3. CASE what = "release" /\ r.ok
  BY <1>1, <1>3 DEF Settled, Scopes
<1>4. CASE ~(what \in {"pause", "step", "status"} /\ r.ok /\ r.frozen) /\ ~(what = "release" /\ r.ok)
  <2>1. Settled(what, r) = scope BY <1>4 DEF Settled
  <2> QED BY <1>1, <1>4, <2>1
<1> QED BY <1>2, <1>3, <1>4

\* The stream is drained, so that what the link is kept for next finds it empty.
LEMMA ReturnStep == ASSUME ToolInv, Return PROVE HostInv'
<1> DEFINE r == Head(answer)
           e == IF ~r.ok THEN "error"
                ELSE IF call.what = "status" THEN IF r.frozen THEN "interrupted" ELSE "error"
                ELSE IF r.interrupted THEN "interrupted" ELSE "ok"
           s == Settled(call.what, r)
<1>1. /\ wire = "sent" /\ answer # <<>> /\ abort # "sent" /\ wire' = "none"
      /\ link' = IF kind = "LazyBrokerLink" /\ ~r.ok THEN "down" ELSE "up"
      /\ EndCall(e, r, s)
      /\ UNCHANGED <<kind, next_id, call, abort, answer, up, down>>
  BY DEF Return, Drained, lines
<1>2. BridgeStill BY VarsStill DEF Return
<1>3. /\ link = "up" /\ pc # "idle" /\ UpOK /\ DownOK /\ ReadOK /\ Knows /\ ToolTypeOK
      /\ up \in Seq(Lines) /\ down \in Seq(Responses) /\ answer \in Seq(Answers)
      /\ pc = "finish" => call.what = "finish"
  BY <1>1 DEF ToolInv, HostInv, ToolTypeOK, ExchangeOK, WireTypes, KnowsOK, CallOK
<1>4. conn # "working" /\ Evidence(call.what, r) BY <1>1, <1>3 DEF ReadOK
<1>5. up = <<>> /\ down = <<>>
  <2>1. DOMAIN up = {} BY <1>1, <1>3 DEF UpOK
  <2>2. DOMAIN down = {} BY <1>1, <1>3 DEF DownOK
  <2> QED BY <1>3, <2>1, <2>2
<1>6. e \in {"ok", "interrupted", "error", "cancelled"} /\ (e = "ok" => r.ok) OBVIOUS
<1>7. /\ s \in Scopes /\ s.effects_started = scope.effects_started /\ s.input_ports = scope.input_ports
      /\ s.input_issued = IF call.what = "release" /\ r.ok THEN FALSE ELSE scope.input_issued
      /\ \/ s.stop_verified = scope.stop_verified
         \/ call.what \in {"pause", "step", "status"} /\ r.ok /\ r.frozen
  BY <1>3, SettledFacts
<1> HIDE DEF e, s
<1>8. /\ pc' \in PcValues /\ outcome' \in {"ok", "interrupted", "error"}
      /\ record' \in {"none", "active", "unverified"} /\ (record' = "active") = (pc' # "idle")
      /\ record' = "none" => pc = "finish" /\ e = "ok"
      /\ scope' = s /\ UNCHANGED <<tool, parent, target, cancel>>
  BY <1>1, <1>3, <1>6, EndCallFacts
<1>9. ToolTypeOK' BY <1>1, <1>3, <1>7, <1>8 DEF ToolTypeOK, PcValues, Scopes
<1>10. WireTypes' BY <1>1, <1>2 DEF ToolInv, HostInv, WireTypes, BridgeStill
<1>11. Direct' BY <1>2 DEF ToolInv, HostInv, Direct, BridgeStill
<1>12. CallOK' BY <1>1 DEF CallOK
<1>13. ExchangeOK' BY <1>1, <1>2, <1>4, <1>5 DEF ExchangeOK, BridgeStill
<1>14. Knows'
  <2>1. held # {} => s.input_issued
    BY <1>3, <1>4, <1>7 DEF Knows, Evidence
  <2>2. advancing => s.effects_started /\ ~s.stop_verified
    BY <1>3, <1>4, <1>7 DEF Knows, Evidence
  <2> QED BY <1>2, <1>3, <1>7, <1>8, <2>1, <2>2 DEF Knows, BridgeStill
<1>15. RecordOK'
  <2> SUFFICES ASSUME record' = "none" PROVE Clean /\ conn # "working" /\ link' # "down"
    BY <1>2 DEF RecordOK, Clean, BridgeStill
  <2>1. r.ok /\ call.what = "finish" BY <1>3, <1>6, <1>8
  <2> QED BY <1>1, <1>4, <2>1 DEF Evidence
<1> QED BY <1>9, <1>10, <1>11, <1>12, <1>13, <1>14, <1>15 DEF HostInv, KnowsOK

-----------------------------------------------------------------------------
(* The steps of the bridge.                                                 *)

\* What no step of the bridge touches.
HostStill ==
    UNCHANGED <<pc, tool, parent, target, cancel, outcome, scope, record, kind, next_id,
                wire, call, abort, answer>>

LEMMA HostStays == UNCHANGED <<host, exchange>> => HostStill /\ UNCHANGED link
  BY DEF HostStill, host, exchange

\* A step of the bridge after which it serves no request, and which lets go of what a
\* tool did without adding to it.
LEMMA BridgeRests ==
    ASSUME ToolInv, HostStill, UNCHANGED <<link, down, doing, reply, broker, detached>>, up' \in {up, <<>>},
           conn' # "working", conn # "working",
           parent_key' \in {0, parent_key}, held' \subseteq held, advancing' => advancing,
           input_ports' \subseteq input_ports, effects_started' => effects_started,
           record = "none" /\ link = "down" => conn' \in {"down", "exited"}
    PROVE  HostInv'
<1>1. ToolTypeOK' BY DEF ToolInv, HostInv, ToolTypeOK, HostStill
<1>2. WireTypes'
  <2>1. up \in Seq(Lines) /\ <<>> \in Seq(Lines) BY DEF ToolInv, HostInv, WireTypes
  <2>2. up' \in Seq(Lines) BY <2>1
  <2> QED BY <2>2 DEF ToolInv, HostInv, WireTypes, HostStill
<1>3. Direct' BY DEF ToolInv, HostInv, Direct
<1>4. CallOK' BY DEF ToolInv, HostInv, CallOK, HostStill
<1>5. Clean => Clean' BY DEF Clean
<1>6. ASSUME NEW what, NEW r, Evidence(what, r)
      PROVE  r.ok => /\ what = "finish" => Clean'
                     /\ what \in {"pause", "step", "status"} /\ r.frozen => ~advancing'
                     /\ what = "release" => target' \notin held'
  BY <1>5, <1>6 DEF Evidence, HostStill
<1>7. ExchangeOK'
  <2> SUFFICES ASSUME link' = "up"
               PROVE  IF wire' = "sent" THEN UpOK' /\ DownOK' /\ ReadOK' /\ WorksOnCall' /\ DispatchOwed'
                      ELSE up' = <<>> /\ down' = <<>> /\ conn' # "working"
    BY DEF ExchangeOK
  <2>1. CASE wire # "sent" BY <2>1 DEF ToolInv, HostInv, ExchangeOK, HostStill
  <2>2. CASE wire = "sent"
    <3>1. UpOK /\ DownOK /\ ReadOK /\ DispatchOwed BY <2>2 DEF ToolInv, HostInv, ExchangeOK
    <3>2. UpOK'
      <4>1. CASE up' = up BY <3>1, <4>1 DEF UpOK, HostStill, IsRequest, IsAbort, PortOf, OncePerId
      <4>2. CASE up' = <<>> BY <4>2 DEF UpOK, OncePerId
      <4> QED BY <4>1, <4>2
    <3>3. DownOK'
      <4>1. ASSUME NEW i \in DOMAIN down, Evidence(call.what, down[i].answer)
            PROVE  Evidence(call.what, down[i].answer)'
        BY <1>6, <4>1 DEF Evidence, HostStill
      <4> QED BY <3>1, <4>1 DEF DownOK, HostStill, OncePerId
    <3>4. ReadOK' BY <1>6, <3>1 DEF ReadOK, HostStill, Evidence
    <3>5. WorksOnCall' BY DEF WorksOnCall
    <3>6. DispatchOwed' BY <3>1 DEF DispatchOwed, HostStill
    <3> QED BY <2>2, <3>2, <3>3, <3>4, <3>5, <3>6 DEF HostStill
  <2> QED BY <2>1, <2>2
<1>8. KnowsOK' BY DEF ToolInv, HostInv, KnowsOK, Knows, HostStill
<1>9. RecordOK' BY <1>5 DEF ToolInv, HostInv, RecordOK, HostStill
<1> QED BY <1>1, <1>2, <1>3, <1>4, <1>7, <1>8, <1>9 DEF HostInv

LEMMA ConnectsStep == ASSUME ToolInv, BridgeConnects PROVE HostInv'
<1>1. /\ pc = "idle" /\ link = "down" /\ conn = "down" /\ conn' \in {"idle", "exited"} /\ broker' = FALSE
      /\ link' = IF conn' = "idle" THEN "up" ELSE "down"
      /\ up' = <<>> /\ down' = <<>>
      /\ UNCHANGED <<detached, doing, reply, parent_key, held, advancing>>
  BY DEF BridgeConnects, Connect, plan, ownership, native, executor, served
<1>2. HostStill BY DEF BridgeConnects, HostStill, host
<1>3. wire = "none" BY <1>1 DEF ToolInv, HostInv, ToolTypeOK
<1>4. ToolTypeOK' BY <1>1, <1>2, <1>3 DEF ToolInv, HostInv, ToolTypeOK, HostStill
<1>5. WireTypes'
  <2>1. up' \in Seq(Lines) /\ down' \in Seq(Responses) BY <1>1
  <2> QED BY <1>1, <1>2, <2>1 DEF ToolInv, HostInv, WireTypes, HostStill
<1>6. Direct' BY <1>1 DEF ToolInv, HostInv, Direct
<1>7. CallOK' BY <1>2, <1>3 DEF CallOK, HostStill
<1>8. ExchangeOK' BY <1>1, <1>2, <1>3 DEF ExchangeOK, HostStill
<1>9. KnowsOK' BY <1>1, <1>2 DEF KnowsOK, HostStill
<1>10. RecordOK' BY <1>1, <1>2 DEF ToolInv, HostInv, RecordOK, Clean, HostStill
<1> QED BY <1>4, <1>5, <1>6, <1>7, <1>8, <1>9, <1>10 DEF HostInv

\* An end that the bridge meets while it is not working.
LEMMA EndsStep == ASSUME ToolInv, BridgeDisconnects \/ BridgeEnds PROVE HostInv'
<1>1. /\ conn \in {"down", "idle"} /\ conn' # "working" /\ (conn = "down" => conn' = "exited")
      /\ UNCHANGED <<parent_key, held, advancing, input_ports, effects_started, broker, detached,
                     up, down, doing, reply>>
  BY DEF BridgeDisconnects, BridgeEnds, Disconnect, DependencyEnds, ownership, plan, native, executor, lines, served
<1>2. HostStill /\ UNCHANGED link BY HostStays DEF BridgeDisconnects, BridgeEnds
<1>3. record = "none" /\ link = "down" => conn' \in {"down", "exited"}
  BY <1>1 DEF ToolInv, HostInv, RecordOK
<1> QED BY <1>1, <1>2, <1>3, BridgeRests

LEMMA LosesTransportStep == ASSUME ToolInv, BridgeLosesTransport PROVE HostInv'
<1>1. /\ link = "down" /\ conn = "working"
      /\ UNCHANGED <<conn, broker, detached, up, down, doing, reply>>
  BY DEF BridgeLosesTransport, LoseTransport, session, lines, served
<1>2. HostStill /\ UNCHANGED link BY HostStays DEF BridgeLosesTransport
<1>3. record # "none" BY <1>1 DEF ToolInv, HostInv, RecordOK
<1>4. ToolTypeOK' BY <1>2 DEF ToolInv, HostInv, ToolTypeOK, HostStill
<1>5. WireTypes' BY <1>1, <1>2 DEF ToolInv, HostInv, WireTypes, HostStill
<1>6. Direct' BY <1>1 DEF ToolInv, HostInv, Direct
<1>7. CallOK' BY <1>2 DEF ToolInv, HostInv, CallOK, HostStill
<1>8. ExchangeOK' /\ KnowsOK' BY <1>1, <1>2 DEF ExchangeOK, KnowsOK, HostStill
<1>9. RecordOK' BY <1>2, <1>3 DEF RecordOK, HostStill
<1> QED BY <1>4, <1>5, <1>6, <1>7, <1>8, <1>9 DEF HostInv

\* A detach lets go of the parent, as far as it can.
LEMMA ClosesStep == ASSUME ToolInv, BridgeCloses PROVE HostInv'
<1>1. /\ conn \in {"closing", "ending"} /\ up' = <<>> /\ Close
      /\ UNCHANGED <<down, doing, reply, broker, detached>>
  BY DEF BridgeCloses, Close, executor, served
<1>2. HostStill /\ UNCHANGED link BY HostStays DEF BridgeCloses
<1>3. /\ parent_key' \in {0, parent_key} /\ held' \subseteq held /\ (advancing' => advancing)
      /\ input_ports' \subseteq input_ports /\ (effects_started' => effects_started)
      /\ conn' \in {"down", "ending", "exited"}
  <2>1. CASE current = 0
    BY <1>1, <2>1 DEF Close, ownership, plan, native
  <2>2. CASE current # 0
    <3>1. LifecycleDetach(current, 0, IF conn = "ending" THEN conn ELSE "down") BY <1>1, <2>2 DEF Close
    <3>2. conn' \in {"down", "ending", "exited"} BY <1>1, <3>1 DEF LifecycleDetach
    <3>3. CASE ~retired /\ attachment = current /\ parent_key # 0
      <4>1. CleanParent(0) BY <3>1, <3>3 DEF LifecycleDetach
      <4>2. held' \subseteq held /\ (advancing' => advancing) BY <4>1 DEF CleanParent
      <4>3. /\ parent_key' \in {0, parent_key} /\ input_ports' \subseteq input_ports
            /\ effects_started' => effects_started
        BY <4>1 DEF CleanParent, FinishCleanup, NoParent
      <4> QED BY <3>2, <4>2, <4>3
    <3>4. CASE ~(~retired /\ attachment = current /\ parent_key # 0)
      BY <3>1, <3>2, <3>4 DEF LifecycleDetach, ownership, plan, native
    <3> QED BY <3>3, <3>4
  <2> QED BY <2>1, <2>2
<1>4. record = "none" /\ link = "down" => FALSE BY <1>1 DEF ToolInv, HostInv, RecordOK
<1> QED BY <1>1, <1>2, <1>3, <1>4, BridgeRests

LEMMA AcceptsStep == ASSUME ToolInv, BridgeAccepts PROVE HostInv'
<1> DEFINE l == up[1]
<1>1. /\ up # <<>> /\ Head(up).what # "cancel" /\ conn = "idle" /\ conn' = "working" /\ stage' = "start"
      /\ transport_error' = FALSE /\ detached' = FALSE
      /\ method' = MethodOf(Head(up).what) /\ key' = Head(up).owner /\ port' = Head(up).port
      /\ up' = Tail(up) /\ doing' = Head(up)
      /\ UNCHANGED <<down, reply, broker, parent_key, held, advancing, input_ports, effects_started>>
  BY DEF BridgeAccepts, AcceptRequest, ownership, plan, native
<1>2. HostStill /\ UNCHANGED link BY HostStays DEF BridgeAccepts
<1>3. up \in Seq(Lines) BY DEF ToolInv, HostInv, WireTypes
<1>4. /\ Tail(up) \in Seq(Lines) /\ 1 \in DOMAIN up /\ Head(up) = l /\ l \in Lines
      /\ \A i \in DOMAIN up' : \E k \in DOMAIN up : up'[i] = up[k]
      /\ OncePerId(up) => OncePerId(up') /\ \A i \in DOMAIN up' : up'[i].id # l.id
  BY <1>1, <1>3, LineTaken
<1>5. ToolTypeOK' BY <1>2 DEF ToolInv, HostInv, ToolTypeOK, HostStill
<1>6. WireTypes' BY <1>1, <1>2, <1>4 DEF ToolInv, HostInv, WireTypes, HostStill
<1>7. Direct' BY <1>1 DEF ToolInv, HostInv, Direct
<1>8. CallOK' BY <1>2 DEF ToolInv, HostInv, CallOK, HostStill
<1>9. link = "up" => wire = "sent" BY <1>1 DEF ToolInv, HostInv, ExchangeOK
<1>10. ExchangeOK'
  <2> SUFFICES ASSUME link = "up" PROVE UpOK' /\ DownOK' /\ ReadOK' /\ WorksOnCall' /\ DispatchOwed'
    BY <1>2, <1>9 DEF ExchangeOK, HostStill
  <2>1. UpOK /\ DownOK /\ ReadOK /\ DispatchOwed BY <1>9 DEF ToolInv, HostInv, ExchangeOK
  <2>2. IsRequest(l) /\ answer = <<>> /\ \A j \in DOMAIN down : down[j].id # call.id
    BY <1>1, <1>4, <2>1 DEF UpOK, IsAbort
  <2> HIDE DEF l
  <2>3. UpOK'
    <3>1. \A i \in DOMAIN up' : up'[i].id # call.id BY <1>4, <2>1, <2>2 DEF UpOK, IsRequest
    <3>2. \A i \in DOMAIN up' : /\ IsAbort(up'[i]) /\ abort = "sent"
                                /\ \A j \in DOMAIN down : down[j].id # call.id + 1
      BY <1>4, <2>1, <3>1 DEF UpOK, IsRequest
    <3> QED BY <1>1, <1>2, <1>4, <2>1, <3>2 DEF UpOK, IsAbort, HostStill
  <2>4. DownOK' BY <1>1, <1>2, <2>1, <2>2 DEF DownOK, HostStill, OncePerId
  <2>5. ReadOK' BY <1>2, <2>2 DEF ReadOK, HostStill
  <2>6. WorksOnCall' BY <1>1, <1>2, <1>4, <2>2 DEF WorksOnCall, IsRequest, PortOf, HostStill
  <2>7. DispatchOwed' BY <1>2, <2>1 DEF DispatchOwed, HostStill
  <2> QED BY <2>3, <2>4, <2>5, <2>6, <2>7
<1>11. KnowsOK' BY <1>1, <1>2 DEF ToolInv, HostInv, KnowsOK, Knows, HostStill
<1>12. record # "none" BY <1>1, <1>9 DEF ToolInv, HostInv, ToolTypeOK, RecordOK
<1>13. RecordOK' BY <1>2, <1>12 DEF RecordOK, HostStill
<1> QED BY <1>5, <1>6, <1>7, <1>8, <1>10, <1>11, <1>13 DEF HostInv

LEMMA CancelsStep == ASSUME ToolInv, BridgeCancels PROVE HostInv'
<1> DEFINE l == up[1]
           a == [id |-> l.id, answer |-> NoAnswer]
<1>1. /\ up # <<>> /\ Head(up).what = "cancel" /\ up' = Tail(up)
      /\ down' = Append(down, [id |-> Head(up).id, answer |-> NoAnswer])
      /\ UNCHANGED <<doing, reply>> /\ (UNCHANGED vars \/ ReadCancel)
  BY DEF BridgeCancels, served
<1>2. HostStill /\ UNCHANGED link BY HostStays DEF BridgeCancels
<1>3. BridgeStill
  <2>1. CASE UNCHANGED vars BY <1>1, <2>1, VarsStill DEF served
  <2>2. CASE ReadCancel
    BY <1>1, <2>2 DEF ReadCancel, BridgeStill, ownership, plan, session, request, native
  <2> QED BY <1>1, <2>1, <2>2
<1>4. up \in Seq(Lines) /\ down \in Seq(Responses) BY DEF ToolInv, HostInv, WireTypes
<1>5. /\ Tail(up) \in Seq(Lines) /\ 1 \in DOMAIN up /\ Head(up) = l /\ l \in Lines
      /\ \A i \in DOMAIN up' : \E k \in DOMAIN up : up'[i] = up[k]
      /\ OncePerId(up) => OncePerId(up') /\ \A i \in DOMAIN up' : up'[i].id # l.id
  BY <1>1, <1>4, LineTaken
<1>6. a \in Responses /\ a.id = l.id /\ down' = Append(down, a)
  BY <1>1, <1>5 DEF Responses, Answers, NoAnswer, Lines
<1> HIDE DEF a
<1>7. /\ down' \in Seq(Responses)
      /\ \A i \in DOMAIN down' :
            (i \in DOMAIN down /\ down'[i] = down[i]) \/ (i \notin DOMAIN down /\ down'[i] = a)
      /\ OncePerId(down) /\ (\A i \in DOMAIN down : down[i].id # a.id) => OncePerId(down')
  BY <1>4, <1>6, LineAdded
<1>8. ToolTypeOK' BY <1>2 DEF ToolInv, HostInv, ToolTypeOK, HostStill
<1>9. WireTypes' BY <1>1, <1>2, <1>5, <1>7 DEF ToolInv, HostInv, WireTypes, HostStill
<1>10. Direct' BY <1>3 DEF ToolInv, HostInv, Direct, BridgeStill
<1>11. CallOK' BY <1>2 DEF ToolInv, HostInv, CallOK, HostStill
<1>12. link = "up" => wire = "sent" BY <1>1 DEF ToolInv, HostInv, ExchangeOK
<1>13. ExchangeOK'
  <2> SUFFICES ASSUME link = "up" PROVE UpOK' /\ DownOK' /\ ReadOK' /\ WorksOnCall' /\ DispatchOwed'
    BY <1>2, <1>12 DEF ExchangeOK, HostStill
  <2>1. UpOK /\ DownOK /\ ReadOK /\ WorksOnCall /\ DispatchOwed BY <1>12 DEF ToolInv, HostInv, ExchangeOK
  <2>2. call.id \in Nat /\ call.what \in Whats BY DEF ToolInv, HostInv, WireTypes
  <2>3. call.id # call.id + 1 /\ call.what # "cancel" BY <2>2 DEF Whats
  <2>4. IsAbort(l) /\ abort = "sent" /\ \A j \in DOMAIN down : down[j].id # call.id + 1
    BY <1>1, <1>5, <2>1, <2>3 DEF UpOK, IsRequest
  <2>5. a.id = call.id + 1 BY <1>6, <2>4 DEF IsAbort
  <2> HIDE DEF l
  <2>6. UpOK'
    <3>1. \A i \in DOMAIN up' : up'[i].id # call.id + 1 BY <1>5, <2>1, <2>4 DEF UpOK, IsAbort
    <3>2. \A i \in DOMAIN up' : /\ IsRequest(up'[i]) /\ answer = <<>> /\ conn # "working"
                                /\ \A j \in DOMAIN down : down[j].id # call.id
      BY <1>5, <2>1, <3>1 DEF UpOK, IsAbort
    <3>3. \A j \in DOMAIN down' : (\E i \in DOMAIN up' : TRUE) => down'[j].id # call.id
      BY <1>7, <2>3, <2>5, <3>2
    <3> QED BY <1>2, <1>3, <1>5, <2>1, <3>2, <3>3 DEF UpOK, IsRequest, PortOf, HostStill, BridgeStill
  <2>7. DownOK'
    <3>2. OncePerId(down') BY <1>7, <2>1, <2>4, <2>5 DEF DownOK
    <3>3. ASSUME NEW i \in DOMAIN down'
          PROVE  \/ /\ down'[i].id = call.id /\ answer = <<>> /\ conn # "working"
                    /\ Evidence(call.what, down'[i].answer)
                 \/ down'[i].id = call.id + 1 /\ abort = "sent"
      BY <1>7, <2>1, <2>4, <2>5 DEF DownOK
    <3>4. ASSUME NEW i \in DOMAIN down', Evidence(call.what, down'[i].answer)
          PROVE  Evidence(call.what, down[i].answer)'
      BY <1>2, <1>3, <3>4 DEF Evidence, Clean, HostStill, BridgeStill
    <3> QED BY <1>2, <1>3, <3>2, <3>3, <3>4 DEF DownOK, HostStill, BridgeStill
  <2>8. ReadOK' BY <1>2, <1>3, <2>1 DEF ReadOK, Evidence, Clean, HostStill, BridgeStill
  <2>9. WorksOnCall'
    BY <1>2, <1>3, <2>1 DEF WorksOnCall, IsRequest, PortOf, Evidence, Clean, HostStill, BridgeStill
  <2>10. DispatchOwed' BY <1>2, <2>1 DEF DispatchOwed, HostStill
  <2> QED BY <2>6, <2>7, <2>8, <2>9, <2>10
<1>14. KnowsOK' BY <1>2, <1>3 DEF ToolInv, HostInv, KnowsOK, Knows, HostStill, BridgeStill
<1>15. RecordOK' BY <1>2, <1>3 DEF ToolInv, HostInv, RecordOK, Clean, HostStill, BridgeStill
<1> QED BY <1>8, <1>9, <1>10, <1>11, <1>13, <1>14, <1>15 DEF HostInv

\* What the worker of a request in progress works for, if the host still listens.
LEMMA WorkerKnows ==
    ASSUME ToolInv, conn = "working", link = "up"
    PROVE  /\ wire = "sent" /\ pc # "idle" /\ Knows /\ WorksOnCall /\ DispatchOwed
           /\ UpOK /\ DownOK /\ ReadOK /\ call.what \in Whats /\ answer = <<>>
<1>1. wire = "sent" BY DEF ToolInv, HostInv, ExchangeOK
<1> QED BY <1>1 DEF ToolInv, HostInv, ExchangeOK, ToolTypeOK, KnowsOK, WireTypes, WorksOnCall

\* A step of the worker: it is up to the host what it knows, and to the reply what it says.
LEMMA WorkerSteps ==
    ASSUME ToolInv, HostStill, conn = "working", stage' \in {"native", "cleanup", "reply"},
           UNCHANGED <<link, lines, conn, broker, detached, transport_error, method, key, port, doing>>,
           reply' \in Answers,
           link = "up" => Knows',
           link = "up" /\ stage' = "native" => method \in {"effect", "observe"},
           link = "up" /\ stage' = "reply" => Evidence(call.what, reply)'
    PROVE  HostInv'
<1>1. ToolTypeOK' BY DEF ToolInv, HostInv, ToolTypeOK, HostStill
<1>2. WireTypes' BY DEF ToolInv, HostInv, WireTypes, HostStill, lines
<1>3. Direct' BY DEF ToolInv, HostInv, Direct
<1>4. CallOK' BY DEF ToolInv, HostInv, CallOK, HostStill
<1>5. ExchangeOK'
  <2> SUFFICES ASSUME link = "up" PROVE wire' = "sent" /\ UpOK' /\ DownOK' /\ ReadOK' /\ WorksOnCall' /\ DispatchOwed'
    BY DEF ExchangeOK
  <2>1. /\ wire = "sent" /\ WorksOnCall /\ DispatchOwed /\ UpOK /\ DownOK /\ ReadOK /\ answer = <<>>
    BY WorkerKnows
  <2>2. UpOK' BY <2>1 DEF UpOK, IsAbort, HostStill, lines, OncePerId
  <2>3. DownOK' BY <2>1 DEF DownOK, HostStill, lines, OncePerId
  <2>4. ReadOK' BY <2>1 DEF ReadOK, HostStill
  <2>5. WorksOnCall' BY <2>1 DEF WorksOnCall, IsRequest, PortOf, HostStill
  <2>6. DispatchOwed' BY <2>1 DEF DispatchOwed, HostStill
  <2> QED BY <2>1, <2>2, <2>3, <2>4, <2>5, <2>6 DEF HostStill
<1>6. KnowsOK' BY DEF KnowsOK
<1>7. record # "none" BY DEF ToolInv, HostInv, RecordOK
<1>8. RecordOK' BY <1>7 DEF RecordOK, HostStill
<1> QED BY <1>1, <1>2, <1>3, <1>4, <1>5, <1>6, <1>8 DEF HostInv

\* The method by which the bridge knows a request of the tool.
LEMMA MethodFacts ==
    ASSUME NEW what \in Whats
    PROVE  /\ MethodOf(what) = "begin" => what = "begin"
           /\ MethodOf(what) = "finish" => what = "finish"
           /\ MethodOf(what) = "observe" => what = "status"
           /\ MethodOf(what) = "effect" => what \in {"pause", "step", "press", "release"}
BY DEF MethodOf, Whats

LEMMA RepliesFacts ==
    ASSUME TypeOK, NEW ok \in BOOLEAN, NEW interrupted \in BOOLEAN, NEW frozen \in BOOLEAN,
           Replies(ok, interrupted, frozen)
    PROVE  reply' \in Answers /\ reply'.ok = ok /\ reply'.frozen = frozen
BY DEF Replies, Answers, TypeOK

LEMMA BeginsStep == ASSUME ToolInv, BridgeBegins PROVE HostInv'
<1>1. /\ conn = "working" /\ method = "begin" /\ stage' = "reply" /\ Replies(parent_key' = key, FALSE, FALSE)
      /\ UNCHANGED <<lines, conn, broker, detached, transport_error, method, key, port, doing, held, advancing>>
      /\ \/ Begin(current, key) /\ CanBegin(current, key)
         \/ UNCHANGED <<parent_key, input_ports, effects_started>>
  BY DEF BridgeBegins, WorkBegin, Working, session, request, native, ownership, plan
<1>2. HostStill /\ UNCHANGED link BY HostStays DEF BridgeBegins
<1>3. reply' \in Answers
  <2>1. (parent_key' = key) \in BOOLEAN OBVIOUS
  <2> QED BY <1>1, <2>1, RepliesFacts DEF ToolInv, IInv
<1>4. ASSUME link = "up" PROVE Knows' /\ Evidence(call.what, reply)'
  <2>1. Knows /\ WorksOnCall /\ call.what \in Whats BY <1>1, <1>4, WorkerKnows
  <2>2. key = parent /\ call.what = "begin" BY <1>1, <2>1, MethodFacts DEF WorksOnCall
  <2>3. /\ parent_key' \in {0, parent} /\ input_ports' \subseteq input_ports
        /\ effects_started' => effects_started
    BY <1>1, <2>1, <2>2 DEF Begin, ownership, plan, Knows
  <2>4. Knows' BY <1>1, <1>2, <2>1, <2>3 DEF Knows, HostStill
  <2>5. Evidence(call.what, reply)' BY <1>2, <2>2 DEF Evidence, HostStill
  <2> QED BY <2>4, <2>5
<1> QED BY <1>1, <1>2, <1>3, <1>4, WorkerSteps

LEMMA FinishesStep == ASSUME ToolInv, BridgeFinishes PROVE HostInv'
<1>1. /\ conn = "working" /\ stage = "start" /\ method = "finish" /\ stage' \in {"cleanup", "reply"}
      /\ Replies(key \in completed', FALSE, TRUE)
      /\ UNCHANGED <<lines, conn, broker, detached, transport_error, method, key, port, doing, held, advancing,
                     parent_key, input_ports, effects_started>>
      /\ stage' = "reply" => \/ attachment = current /\ terminal = key
                             \/ ~(attachment = current /\ terminal = key) /\ UNCHANGED completed
  BY DEF BridgeFinishes, WorkFinish, Working, session, request, native, ownership, plan, StartCleanup
<1>2. HostStill /\ UNCHANGED link BY HostStays DEF BridgeFinishes
<1>3. (key \in completed') \in BOOLEAN OBVIOUS
<1>4. reply' \in Answers /\ reply'.ok = (key \in completed')
  BY <1>1, <1>3, RepliesFacts DEF ToolInv, IInv
<1>5. ASSUME link = "up" PROVE Knows' /\ (stage' = "reply" => Evidence(call.what, reply)')
  <2>1. Knows /\ WorksOnCall /\ call.what \in Whats BY <1>1, <1>5, WorkerKnows
  <2>2. call.what = "finish" BY <1>1, <2>1, MethodFacts DEF WorksOnCall
  <2>3. Knows' BY <1>1, <1>2, <2>1 DEF Knows, HostStill
  <2>4. ASSUME stage' = "reply", reply'.ok PROVE Clean
    <3>1. key # 0 /\ ~fatal /\ key = operation /\ asker = current /\ current # 0 /\ attachment = current
      BY <1>1 DEF ToolInv, IInv, WorkOK, SessionOK
    <3>2. terminal = key
      BY <1>1, <1>4, <2>4, <3>1 DEF ToolInv, IInv, CompletedOK
    <3>3. parent_key = 0 BY <3>1, <3>2 DEF ToolInv, IInv, TypeOK
    <3> QED BY <3>1, <3>3 DEF ToolInv, IInv, ParentOK, ParentObligations, Clean
  <2>5. stage' = "reply" => Evidence(call.what, reply)'
    BY <1>1, <1>2, <2>2, <2>4 DEF Evidence, Clean, HostStill
  <2> QED BY <2>3, <2>5
<1> QED BY <1>1, <1>2, <1>4, <1>5, WorkerSteps

LEMMA CleansStep == ASSUME ToolInv, BridgeCleans PROVE HostInv'
<1>1. /\ conn = "working" /\ stage = "cleanup" /\ CleanParent(attachment) /\ stage' = "reply"
      /\ Replies(~fatal', FALSE, TRUE)
      /\ UNCHANGED <<lines, conn, broker, detached, transport_error, method, key, port, doing>>
  BY DEF BridgeCleans, WorkCleanup, Working, session, request
<1>2. HostStill /\ UNCHANGED link BY HostStays DEF BridgeCleans
<1>3. (~fatal') \in BOOLEAN OBVIOUS
<1>4. reply' \in Answers /\ reply'.ok = ~fatal'
  BY <1>1, <1>3, RepliesFacts DEF ToolInv, IInv
<1>5. ~fatal /\ TypeOK /\ ParentObligations /\ attachment \in Nat
  BY <1>1 DEF ToolInv, IInv, WorkOK, TypeOK
<1>6. \/ /\ parent_key' = 0 /\ input_ports' = {} /\ effects_started' = FALSE /\ held' = {} /\ advancing' = FALSE
      \/ /\ fatal' = TRUE /\ UNCHANGED <<parent_key, input_ports, effects_started>>
  BY <1>1, <1>5, CleanFacts
<1>7. held' \subseteq held /\ (advancing' => advancing) BY <1>1 DEF CleanParent
<1>8. ASSUME link = "up" PROVE Knows' /\ Evidence(call.what, reply)'
  <2>1. Knows BY <1>1, <1>8, WorkerKnows
  <2>2. Knows' BY <1>2, <1>6, <1>7, <2>1 DEF Knows, HostStill
  <2>3. Evidence(call.what, reply)' BY <1>4, <1>6 DEF Evidence, Clean
  <2> QED BY <2>2, <2>3
<1> QED BY <1>1, <1>2, <1>4, <1>8, WorkerSteps

LEMMA AdmitsStep == ASSUME ToolInv, BridgeAdmits PROVE HostInv'
<1>1. /\ conn = "working" /\ method \in {"effect", "observe"} /\ stage' \in {"native", "reply"}
      /\ Replies(FALSE, FALSE, FALSE)
      /\ UNCHANGED <<lines, conn, broker, detached, transport_error, method, key, port, doing, held, advancing>>
      /\ \/ method = "effect" /\ Record(port)
         \/ UNCHANGED <<parent_key, input_ports, effects_started>>
  BY DEF BridgeAdmits, WorkAdmit, Working, session, request, native, ownership, plan
<1>2. HostStill /\ UNCHANGED link BY HostStays DEF BridgeAdmits
<1>3. reply' \in Answers /\ reply'.ok = FALSE
  BY <1>1, RepliesFacts DEF ToolInv, IInv
<1>4. ASSUME link = "up" PROVE Knows' /\ Evidence(call.what, reply)'
  <2>1. Knows /\ WorksOnCall /\ call.what \in Whats /\ DispatchOwed BY <1>1, <1>4, WorkerKnows
  <2>2. CASE method = "effect" /\ Record(port)
    <3>1. call.what \in {"pause", "step", "press", "release"} BY <1>1, <2>1, <2>2, MethodFacts DEF WorksOnCall
    <3>2. scope.effects_started
      <4>1. CASE call.what \in {"pause", "step"} BY <2>1, <4>1 DEF DispatchOwed
      <4>2. CASE call.what \in {"press", "release"} BY <2>1, <4>2 DEF DispatchOwed, Knows
      <4> QED BY <3>1, <4>1, <4>2
    <3>3. port = 0 \/ port \in scope.input_ports BY <1>1, <2>1, <3>1 DEF WorksOnCall, PortOf, DispatchOwed
    <3>4. input_ports' \subseteq scope.input_ports /\ UNCHANGED parent_key
      BY <2>1, <2>2, <3>3 DEF Record, Knows
    <3> QED BY <1>1, <1>2, <1>3, <2>1, <3>2, <3>4 DEF Knows, HostStill, Evidence
  <2>3. CASE UNCHANGED <<parent_key, input_ports, effects_started>>
    BY <1>1, <1>2, <1>3, <2>1, <2>3 DEF Knows, HostStill, Evidence
  <2> QED BY <1>1, <2>2, <2>3
<1> QED BY <1>1, <1>2, <1>3, <1>4, WorkerSteps

LEMMA ActsStep == ASSUME ToolInv, BridgeActs PROVE HostInv'
<1>1. /\ conn = "working" /\ stage = "native" /\ stage' = "reply"
      /\ UNCHANGED <<lines, conn, broker, detached, transport_error, method, key, port, doing, parent_key,
                     input_ports, effects_started>>
      /\ IF method = "effect"
         THEN /\ held' \in IF key = 0 \/ port = 0 THEN {held} ELSE {held, held \cup {port}, held \ {port}}
              /\ advancing' \in IF key = 0 \/ port # 0 THEN {advancing} ELSE BOOLEAN
         ELSE UNCHANGED <<held, advancing>>
  BY DEF BridgeActs, WorkNative, Working, session, request, ownership, plan
<1>2. HostStill /\ UNCHANGED link BY HostStays DEF BridgeActs
<1>3. PICK ok \in BOOLEAN, interrupted \in BOOLEAN, frozen \in BOOLEAN :
        /\ ok => CASE doing.what = "press" -> port \in held'
                   [] doing.what = "release" -> port \notin held'
                   [] doing.what \in {"pause", "step"} -> frozen
                   [] OTHER -> TRUE
        /\ frozen => ok /\ ~advancing' /\ port = 0
        /\ Replies(ok, interrupted, frozen)
  BY DEF BridgeActs
<1>4. reply' \in Answers /\ reply'.ok = ok /\ reply'.frozen = frozen
  BY <1>3, RepliesFacts DEF ToolInv, IInv
<1>5. ASSUME link = "up" PROVE Knows' /\ Evidence(call.what, reply)'
  <2>1. Knows /\ WorksOnCall /\ call.what \in Whats /\ DispatchOwed BY <1>1, <1>5, WorkerKnows
  <2>2. /\ method \in {"effect", "observe"} /\ method = MethodOf(call.what) /\ doing.what = call.what
        /\ port = PortOf(call.what)
    BY <1>1, <2>1 DEF WorksOnCall, IsRequest
  <2>3. call.what \in {"pause", "step", "press", "release", "status"} /\ (call.what = "status" <=> method = "observe")
    BY <2>1, <2>2, MethodFacts DEF MethodOf
  <2>4. Evidence(call.what, reply)'
    <3>1. ok /\ call.what = "release" => target \notin held' BY <1>3, <2>2 DEF PortOf
    <3> QED BY <1>2, <1>3, <1>4, <2>3, <3>1 DEF Evidence, HostStill
  <2>5. target # 0 BY BridgeAssumption DEF ToolInv, HostInv, ToolTypeOK
  <2>6. Knows'
    <3>1. CASE call.what = "status" BY <1>1, <1>2, <2>1, <2>3, <3>1 DEF Knows, HostStill
    <3>2. CASE call.what \in {"pause", "step"}
      <4>1. port = 0 BY <2>2, <3>2 DEF PortOf
      <4>2. held' = held BY <1>1, <4>1
      <4>3. scope.effects_started /\ ~scope.stop_verified BY <2>1, <3>2 DEF DispatchOwed
      <4> QED BY <1>1, <1>2, <2>1, <4>2, <4>3 DEF Knows, HostStill
    <3>3. CASE call.what \in {"press", "release"}
      <4>1. port = target BY <2>2, <3>3 DEF PortOf
      <4>2. held' \subseteq held \cup {target} /\ (advancing' => advancing) BY <1>1, <2>5, <4>1
      <4>3. scope.input_issued /\ target \in scope.input_ports BY <2>1, <3>3 DEF DispatchOwed
      <4> QED BY <1>1, <1>2, <2>1, <4>2, <4>3 DEF Knows, HostStill
    <3> QED BY <2>3, <3>1, <3>2, <3>3
  <2> QED BY <2>4, <2>6
<1> QED BY <1>1, <1>2, <1>4, <1>5, WorkerSteps

LEMMA RepliesStep == ASSUME ToolInv, BridgeReplies PROVE HostInv'
<1> DEFINE a == [id |-> doing.id, answer |-> reply]
<1>1. ~detached BY DEF ToolInv, HostInv, Direct
<1>2. /\ conn = "working" /\ stage = "reply" /\ conn' # "working"
      /\ down' = (IF transport_error \/ link = "down" THEN down ELSE Append(down, a))
      /\ UNCHANGED <<up, doing, reply, broker, detached, parent_key, held, advancing, input_ports, effects_started>>
  BY <1>1 DEF BridgeReplies, Complete, Working, native, ownership, plan, served
<1>3. HostStill /\ UNCHANGED link BY HostStays DEF BridgeReplies
<1>4. down \in Seq(Responses) /\ a \in Responses /\ a.id = doing.id /\ a.answer = reply
  BY DEF ToolInv, HostInv, WireTypes, Responses, Lines
<1> HIDE DEF a
<1>5. /\ Append(down, a) \in Seq(Responses)
      /\ \A i \in DOMAIN Append(down, a) :
            (i \in DOMAIN down /\ Append(down, a)[i] = down[i]) \/ (i \notin DOMAIN down /\ Append(down, a)[i] = a)
      /\ OncePerId(down) /\ (\A i \in DOMAIN down : down[i].id # a.id) => OncePerId(Append(down, a))
  BY <1>4, LineAdded
<1>6. ToolTypeOK' BY <1>3 DEF ToolInv, HostInv, ToolTypeOK, HostStill
<1>7. WireTypes' BY <1>2, <1>3, <1>4, <1>5 DEF ToolInv, HostInv, WireTypes, HostStill
<1>8. Direct' BY <1>2 DEF ToolInv, HostInv, Direct
<1>9. CallOK' BY <1>3 DEF ToolInv, HostInv, CallOK, HostStill
<1>10. ExchangeOK'
  <2> SUFFICES ASSUME link = "up" PROVE wire' = "sent" /\ UpOK' /\ DownOK' /\ ReadOK' /\ WorksOnCall' /\ DispatchOwed'
    BY <1>3 DEF ExchangeOK
  <2>1. /\ wire = "sent" /\ WorksOnCall /\ DispatchOwed /\ UpOK /\ DownOK /\ ReadOK /\ answer = <<>>
    BY <1>2, WorkerKnows
  <2>2. down' = Append(down, a) /\ a.id = call.id /\ Evidence(call.what, a.answer)
    BY <1>2, <1>4, <2>1 DEF WorksOnCall, IsRequest
  <2>3. call.id \in Nat /\ call.id # call.id + 1
    <3>1. call.id \in Nat BY DEF ToolInv, HostInv, WireTypes
    <3> QED BY <3>1
  <2>4. \A i \in DOMAIN down : down[i].id = call.id + 1 /\ abort = "sent" BY <1>2, <2>1 DEF DownOK
  <2>5. \A i \in DOMAIN up : /\ IsAbort(up[i]) /\ abort = "sent"
                             /\ \A j \in DOMAIN down : down[j].id # call.id + 1
    BY <1>2, <2>1 DEF UpOK
  <2>6. UpOK'
    <3>1. \A j \in DOMAIN down' : (\E i \in DOMAIN up : TRUE) => down'[j].id # call.id + 1
      BY <1>5, <2>2, <2>3, <2>5
    <3> QED BY <1>2, <1>3, <2>1, <2>5, <3>1 DEF UpOK, IsAbort, HostStill, OncePerId
  <2>7. DownOK'
    <3>1. OncePerId(down') BY <1>5, <2>1, <2>2, <2>3, <2>4 DEF DownOK
    <3>2. ASSUME NEW i \in DOMAIN down'
          PROVE  \/ down'[i].id = call.id /\ Evidence(call.what, down'[i].answer)
                 \/ down'[i].id = call.id + 1 /\ abort = "sent"
      BY <1>5, <2>2, <2>4
    <3>3. ASSUME NEW i \in DOMAIN down', Evidence(call.what, down'[i].answer)
          PROVE  Evidence(call.what, down[i].answer)'
      BY <1>2, <1>3, <3>3 DEF Evidence, Clean, HostStill
    <3> QED BY <1>2, <1>3, <2>1, <3>1, <3>2, <3>3 DEF DownOK, HostStill
  <2>8. ReadOK' BY <1>3, <2>1 DEF ReadOK, HostStill
  <2>9. WorksOnCall' BY <1>2 DEF WorksOnCall
  <2>10. DispatchOwed' BY <1>3, <2>1 DEF DispatchOwed, HostStill
  <2> QED BY <1>3, <2>1, <2>6, <2>7, <2>8, <2>9, <2>10 DEF HostStill
<1>11. KnowsOK' BY <1>2, <1>3 DEF ToolInv, HostInv, KnowsOK, Knows, HostStill
<1>12. record # "none" BY <1>2 DEF ToolInv, HostInv, RecordOK
<1>13. RecordOK' BY <1>3, <1>12 DEF RecordOK, HostStill
<1> QED BY <1>6, <1>7, <1>8, <1>9, <1>10, <1>11, <1>13 DEF HostInv

-----------------------------------------------------------------------------
(* The theorems.                                                            *)

LEMMA ToolStart == ToolInit => ToolInv
<1> SUFFICES ASSUME ToolInit PROVE ToolInv
  OBVIOUS
<1>1. IInv BY IInit DEF ToolInit
<1>2. ToolTypeOK
  <2>1. scope \in Scopes /\ next_id \in Nat /\ parent \in Nat /\ Len(answer) <= 1
    BY DEF ToolInit, NothingOwed, Owes, Scopes
  <2> QED BY <2>1 DEF ToolInit, ToolTypeOK, Scopes
<1>3. WireTypes
  <2>1. reply \in Answers BY DEF ToolInit, NoAnswer, Answers
  <2>2. call \in [id : Nat, what : Whats, cleanup : BOOLEAN] BY DEF ToolInit, NoCall, Whats
  <2>3. doing \in Lines BY DEF ToolInit, Lines, Whats
  <2>4. answer \in Seq(Answers) /\ up \in Seq(Lines) /\ down \in Seq(Responses) BY DEF ToolInit
  <2> QED BY <2>1, <2>2, <2>3, <2>4 DEF WireTypes
<1>4. Direct BY DEF ToolInit, Init, Direct
<1>5. CallOK /\ ExchangeOK /\ KnowsOK BY DEF ToolInit, CallOK, ExchangeOK, KnowsOK
<1>6. RecordOK BY DEF ToolInit, Init, OwnershipInit, RecordOK, Clean
<1> QED BY <1>1, <1>2, <1>3, <1>4, <1>5, <1>6 DEF ToolInv, HostInv

\* Every step of the host and of the lines leaves the bridge as it is, or is one of its own.
LEMMA DrivesBridge == ASSUME [ToolNext]_toolvars PROVE [Next]_vars
<1>1. CASE UNCHANGED toolvars BY <1>1 DEF toolvars
<1>2. CASE StartTool \/ Cancel \/ LinkLost \/ HostWork
  BY <1>2 DEF StartTool, Cancel, LinkLost, HostWork, NothingToRelease, CancelledBefore, NotConnected, EnterCall,
     Dispatch, LeaseRefused, CancelledAtDispatch, SendAbort, Receive, Return, ExchangeFails
<1>3. CASE BridgeConnects \/ BridgeEnds \/ BridgeLosesTransport
  BY <1>3 DEF BridgeConnects, BridgeEnds, BridgeLosesTransport, Next
<1>4. CASE BridgeWork
  <2>1. CASE BridgeAccepts BY <2>1 DEF BridgeAccepts, Next
  <2>2. CASE BridgeCancels BY <2>2 DEF BridgeCancels, Next
  <2>3. CASE BridgeBegins \/ BridgeFinishes \/ BridgeCleans \/ BridgeAdmits \/ BridgeActs
    BY <2>3 DEF BridgeBegins, BridgeFinishes, BridgeCleans, BridgeAdmits, BridgeActs, Next, Worker
  <2>4. CASE BridgeReplies \/ BridgeDisconnects \/ BridgeCloses
    BY <2>4 DEF BridgeReplies, BridgeDisconnects, BridgeCloses, Next
  <2> QED BY <1>4, <2>1, <2>2, <2>3, <2>4 DEF BridgeWork
<1> QED BY <1>1, <1>2, <1>3, <1>4 DEF ToolNext

LEMMA ToolStep == ASSUME ToolInv, [ToolNext]_toolvars PROVE ToolInv'
<1>1. IInv' BY DrivesBridge, IStep DEF ToolInv
<1>2. HostInv'
  <2>1. CASE StartTool BY <2>1, StartToolStep
  <2>2. CASE Cancel BY <2>2, CancelStep
  <2>3. CASE LinkLost BY <2>3, LinkLostStep
  <2>4. CASE HostWork
    <3>1. CASE EnterCall BY <3>1, EnterCallStep
    <3>2. CASE Dispatch BY <3>2, DispatchStep
    <3>3. CASE SendAbort BY <3>3, SendAbortStep
    <3>4. CASE Receive BY <3>4, ReceiveStep
    <3>5. CASE Return BY <3>5, ReturnStep
    <3>6. CASE NothingToRelease \/ CancelledBefore \/ NotConnected \/ LeaseRefused \/ CancelledAtDispatch \/ ExchangeFails
      BY <3>6, QuietSteps
    <3> QED BY <2>4, <3>1, <3>2, <3>3, <3>4, <3>5, <3>6 DEF HostWork
  <2>5. CASE BridgeConnects BY <2>5, ConnectsStep
  <2>6. CASE BridgeEnds \/ BridgeDisconnects BY <2>6, EndsStep
  <2>7. CASE BridgeLosesTransport BY <2>7, LosesTransportStep
  <2>8. CASE BridgeCloses BY <2>8, ClosesStep
  <2>9. CASE BridgeAccepts BY <2>9, AcceptsStep
  <2>10. CASE BridgeCancels BY <2>10, CancelsStep
  <2>11. CASE BridgeBegins BY <2>11, BeginsStep
  <2>12. CASE BridgeFinishes BY <2>12, FinishesStep
  <2>13. CASE BridgeCleans BY <2>13, CleansStep
  <2>14. CASE BridgeAdmits BY <2>14, AdmitsStep
  <2>15. CASE BridgeActs BY <2>15, ActsStep
  <2>16. CASE BridgeReplies BY <2>16, RepliesStep
  <2>17. CASE UNCHANGED toolvars
    <3>1. UNCHANGED <<vars, host, exchange, lines, served>> BY <2>17 DEF toolvars
    <3>2. BridgeStill /\ HostStill /\ UNCHANGED <<link, up, down>> BY <3>1, VarsStill, HostStays DEF lines
    <3> QED BY <3>2 DEF ToolInv, HostInv, ToolTypeOK, WireTypes, Direct, CallOK, ExchangeOK, UpOK, DownOK, ReadOK,
          WorksOnCall, DispatchOwed, KnowsOK, Knows, RecordOK, IsRequest, IsAbort, PortOf, Evidence, Clean,
          OncePerId, BridgeStill, HostStill
  <2> QED BY <2>1, <2>2, <2>3, <2>4, <2>5, <2>6, <2>7, <2>8, <2>9, <2>10, <2>11, <2>12, <2>13, <2>14, <2>15,
       <2>16, <2>17 DEF ToolNext, BridgeWork
<1> QED BY <1>1, <1>2 DEF ToolInv

LEMMA ToolInvariant == ToolSpec => []ToolInv
BY ToolStart, ToolStep, PTL DEF ToolSpec

\* The tool drives its bridge only by what the bridge may do for any front: the
\* composition implements OwnedBridge, so whatever is proved of the bridge under
\* every front holds of it under this one (live/tools/cancellable.rs over
\* live/reconnect).
THEOREM ToolDrivesBridge == ToolSpec => Spec
<1>1. ToolInit => Init BY DEF ToolInit
<1> QED BY <1>1, DrivesBridge, PTL DEF ToolSpec, Spec

\* What ControlledTool::finish takes off the record was cleaned up, for every set of
\* ports and any number of tools: whatever was cancelled, lost or rejected on the
\* way, no parent, no pressed port and nothing running is left behind an empty record.
THEOREM OffTheRecordIsClean == ToolSpec => []NoRecordMeansClean
<1>1. ToolInv => NoRecordMeansClean BY DEF ToolInv, HostInv, RecordOK, NoRecordMeansClean
<1> QED BY <1>1, ToolInvariant, PTL

\* A link that is kept after an exchange carries no line of it in either direction, so
\* that no late response and no late abort meets the next request (temporal/wire.rs).
THEOREM KeptLinkIsInStep == ToolSpec => []StreamInStep
<1>1. ToolInv => StreamInStep BY DEF ToolInv, HostInv, ExchangeOK, StreamInStep
<1> QED BY <1>1, ToolInvariant, PTL

\* The tool's own account of what it pressed and set running is complete whenever it
\* decides on its next call, which is what its cleanup and its finish go by.
THEOREM ToolAccountIsComplete == ToolSpec => []ToolAccounts
<1>1. ToolInv => ToolAccounts
  <2> SUFFICES ASSUME ToolInv PROVE ToolAccounts
    OBVIOUS
  <2>1. ToolTypeOK BY DEF ToolInv, HostInv
  <2>2. ToolKnows BY DEF ToolInv, HostInv, KnowsOK, Knows, ToolKnows
  <2> QED BY <2>1, <2>2 DEF ToolAccounts
<1> QED BY <1>1, ToolInvariant, PTL
=============================================================================
