------------------------- MODULE OwnedBridge_proofs -------------------------
(***************************************************************************)
(* The safety of OwnedBridge for every set of ports and any number of      *)
(* attachments and operations.                                             *)
(***************************************************************************)
EXTENDS OwnedBridge, TLAPS

-----------------------------------------------------------------------------
(* The inductive invariant.                                                 *)

\* A parent belongs to the attachment, owes nothing once it is gone, and is
\* frozen only while its cleanup runs or after it has failed.
ParentOK ==
    /\ retired => fatal
    /\ parent_key = 0 =>
        parent_att = 0 /\ input_ports = {} /\ ~effects_started /\ ~stopping
    /\ parent_key # 0 /\ ~retired => parent_att = attachment /\ attachment # 0
    /\ stopping /\ ~retired => conn = "working" /\ stage = "cleanup"

\* The route and the handler agree until a retired handler refuses a detach,
\* and only a session that is about to end has a failed emulator.
SessionOK ==
    /\ conn \in {"down", "idle", "closing"} => ~fatal
    /\ conn \in {"idle", "working"} \/ (conn # "exited" /\ ~retired) => attachment = current
    /\ conn = "down" => current = 0
    /\ conn = "working" \/ (conn = "idle" /\ ~broker) => current # 0
    /\ current <= issued /\ asker <= issued

\* A worker that has been admitted keeps what it was admitted for.
WorkOK ==
    conn = "working" =>
        /\ fatal => stage = "reply"
        /\ detached => broker
        /\ method \in {"begin", "finish"} => key # 0
        /\ key # 0 => key = operation /\ asker = current
        /\ port # 0 => key # 0
        /\ stage = "native" /\ method = "effect" =>
            /\ key = parent_key /\ ~stopping
            /\ key # 0 => effects_started /\ port \in input_ports \cup {0}
        /\ stage = "cleanup" => stopping /\ parent_key = key /\ key # 0

\* What was reported completed is behind the front, or is what the handler
\* answers for.
CompletedOK ==
    /\ completed \subseteq 1 .. operation
    /\ parent_key \notin completed
    /\ current # 0 /\ asker = current /\ operation \in completed => terminal = operation

IInv == TypeOK /\ ParentOK /\ SessionOK /\ WorkOK /\ CompletedOK /\ ParentObligations

-----------------------------------------------------------------------------
(* What a cleanup and a detach do.                                          *)

\* The types of what a handler's step changes.
HandlerOK ==
    /\ attachment \in Nat /\ parent_key \in Nat /\ parent_att \in Nat
    /\ input_ports \subseteq Ports
    /\ effects_started \in BOOLEAN /\ stopping \in BOOLEAN /\ retired \in BOOLEAN
    /\ terminal \in Nat /\ (parent_key # 0 => terminal = 0)
    /\ fatal \in BOOLEAN /\ held \subseteq Ports /\ advancing \in BOOLEAN
    /\ actor \in [att : Nat, key : Nat]

\* The types of the rest.
RestOK ==
    /\ conn \in {"down", "idle", "working", "closing", "ending", "exited"}
    /\ current \in Nat /\ broker \in BOOLEAN
    /\ issued \in Nat /\ operation \in Nat /\ asker \in Nat
    /\ method \in {"begin", "finish", "effect", "observe"}
    /\ key \in Nat /\ port \in Ports \cup {0}
    /\ stage \in {"none", "start", "native", "cleanup", "reply"}
    /\ controlled \in BOOLEAN /\ cancelled \in BOOLEAN
    /\ detached \in BOOLEAN /\ transport_error \in BOOLEAN
    /\ completed \subseteq Nat

LEMMA TypeSplit == (TypeOK <=> HandlerOK /\ RestOK) /\ (TypeOK' <=> HandlerOK' /\ RestOK')
BY DEF TypeOK, HandlerOK, RestOK

\* A verified cleanup leaves no parent, and an emulator that was healthy is
\* free of it; one that is not verified retires native control.
LEMMA CleanFacts ==
    ASSUME TypeOK, ParentObligations, NEW owner \in Nat, CleanParent(owner)
    PROVE  /\ held' \subseteq Ports /\ advancing' \in BOOLEAN /\ UNCHANGED actor
           /\ \/ /\ parent_key' = 0 /\ parent_att' = 0 /\ input_ports' = {}
                 /\ effects_started' = FALSE /\ stopping' = FALSE
                 /\ terminal' = IF owner = parent_att THEN parent_key ELSE 0
                 /\ UNCHANGED <<retired, fatal>>
                 /\ ~fatal => held' = {} /\ advancing' = FALSE
              \/ /\ retired' = TRUE /\ stopping' = TRUE /\ terminal' = 0 /\ fatal' = TRUE
                 /\ UNCHANGED <<parent_key, parent_att, input_ports, effects_started>>
<1>1. PICK stopped \in BOOLEAN, released \in SUBSET input_ports :
        /\ held' = held \ released
        /\ advancing' = (advancing /\ ~stopped)
        /\ FinishCleanup(stopped, released, owner)
        /\ fatal' = (fatal \/ ~Verified(stopped, released))
        /\ UNCHANGED actor
  BY DEF CleanParent
<1>2. held' \subseteq Ports /\ advancing' \in BOOLEAN /\ UNCHANGED actor
  BY <1>1 DEF TypeOK
<1>3. CASE Verified(stopped, released)
  <2>1. /\ parent_key' = 0 /\ parent_att' = 0 /\ input_ports' = {}
        /\ effects_started' = FALSE /\ stopping' = FALSE
        /\ terminal' = IF owner = parent_att THEN parent_key ELSE 0
        /\ UNCHANGED retired
    BY <1>1, <1>3 DEF FinishCleanup, NoParent
  <2>2. fatal' = fatal
    BY <1>1, <1>3 DEF TypeOK
  <2>3. ~fatal => held' = {}
    BY <1>1, <1>3 DEF Verified, ParentObligations
  <2>4. ~fatal => advancing' = FALSE
    BY <1>1, <1>3 DEF Verified, ParentObligations, TypeOK
  <2> QED BY <1>2, <2>1, <2>2, <2>3, <2>4
<1>4. CASE ~Verified(stopped, released)
  BY <1>1, <1>2, <1>4 DEF FinishCleanup
<1> QED BY <1>3, <1>4

\* The detach of the route's attachment: the handler gives it up with its
\* parent, or the session ends.
LEMMA DetachFacts ==
    ASSUME IInv, NEW heir \in Nat, NEW next, conn # "exited", current # 0,
           LifecycleDetach(current, heir, next)
    PROVE  /\ HandlerOK' /\ UNCHANGED actor
           /\ conn' = IF fatal' THEN "ending" ELSE next
           /\ retired' => fatal'
           /\ parent_key' \in {0, parent_key}
           /\ parent_key' = 0 => parent_att' = 0 /\ input_ports' = {}
                                 /\ ~effects_started' /\ ~stopping'
           /\ ~retired' => parent_key' = 0 /\ attachment' = IF fatal' THEN 0 ELSE heir
           /\ ~fatal' => held' = {} /\ ~advancing'
<1>0. TypeOK /\ ParentOK /\ SessionOK /\ ParentObligations
  BY DEF IInv
<1>1. CASE retired
  BY <1>0, <1>1 DEF LifecycleDetach, TypeOK, HandlerOK, ParentOK, ownership, plan, native
<1>2. CASE ~retired /\ parent_key = 0
  <2>1. /\ attachment = current
        /\ terminal' = 0 /\ UNCHANGED <<plan, retired, native>>
        /\ attachment' = IF fatal' THEN 0 ELSE heir
    BY <1>0, <1>2 DEF LifecycleDetach, SessionOK
  <2>2. ~fatal => held = {} /\ ~advancing
    BY <1>0, <1>2 DEF ParentOK, ParentObligations
  <2> QED BY <1>0, <1>2, <2>1, <2>2
          DEF LifecycleDetach, TypeOK, HandlerOK, ParentOK, plan, native
<1>3. CASE ~retired /\ parent_key # 0
  <2>1. CleanParent(heir) /\ attachment' = IF fatal' THEN 0 ELSE heir
    BY <1>0, <1>3 DEF LifecycleDetach, SessionOK
  <2>2. conn' = IF fatal' THEN "ending" ELSE next
    BY <1>3 DEF LifecycleDetach
  <2> QED BY <1>0, <1>3, <2>1, <2>2, CleanFacts DEF TypeOK, HandlerOK, ParentOK
<1> QED BY <1>1, <1>2, <1>3
-----------------------------------------------------------------------------
(* Every step preserves the invariant.                                      *)

LEMMA IInit == Init => IInv
<1> SUFFICES ASSUME Init PROVE IInv
  OBVIOUS
<1> USE BridgeAssumption
<1>1. HandlerOK
  BY DEF Init, OwnershipInit, HandlerOK
<1>2. RestOK
  BY DEF Init, RestOK
<1>3. ParentOK /\ SessionOK /\ WorkOK /\ CompletedOK /\ ParentObligations
  BY DEF Init, OwnershipInit, ParentOK, SessionOK, WorkOK, CompletedOK, ParentObligations
<1> QED BY <1>1, <1>2, <1>3, TypeSplit DEF IInv

LEMMA IStep ==
    ASSUME IInv, [Next]_vars
    PROVE  IInv'
<1> USE BridgeAssumption
<1>0. TypeOK /\ ParentOK /\ SessionOK /\ WorkOK /\ CompletedOK /\ ParentObligations
  BY DEF IInv
<1>1. CASE Connect
  <2>1. TypeOK'
    <3>1. HandlerOK'
      BY <1>0, <1>1, TypeSplit DEF HandlerOK, RestOK, Connect, CanAttach, ownership, plan,
           native
    <3>2. conn' \in {"idle", "exited"} /\ current' = issued + 1 /\ issued' = issued + 1
          /\ broker' = FALSE /\ UNCHANGED <<operation, asker, request, executor, completed>>
      BY <1>1 DEF Connect
    <3>3. UNCHANGED <<operation, asker, method, key, port, stage, controlled, cancelled,
                      detached, transport_error, completed>>
      BY <3>2 DEF request, executor
    <3>4. RestOK
      BY <1>0, TypeSplit
    <3>5. current' \in Nat /\ issued' \in Nat
      BY <3>2, <3>4 DEF RestOK
    <3>6. RestOK'
      BY <3>2, <3>3, <3>4, <3>5 DEF RestOK
    <3> QED BY <3>1, <3>6, TypeSplit
  <2>2. ParentOK'
    BY <1>0, <1>1 DEF TypeOK, ParentOK, SessionOK, WorkOK, Connect, CanAttach,
         ownership, plan, session, front, request, executor, native
  <2>3. SessionOK'
    BY <1>0, <1>1 DEF TypeOK, ParentOK, SessionOK, Connect, CanAttach, ownership, plan,
         session, front, request, executor, native
  <2>4. WorkOK'
    BY <1>0, <1>1 DEF TypeOK, ParentOK, SessionOK, WorkOK, Connect, CanAttach,
         ownership, plan, session, front, request, executor, native
  <2>5. CompletedOK'
    BY <1>0, <1>1 DEF TypeOK, ParentOK, SessionOK, WorkOK, CompletedOK, Connect,
         CanAttach, ownership, plan, session, front, request, executor, native
  <2>6. ParentObligations'
    BY <1>0, <1>1 DEF TypeOK, ParentOK, WorkOK, ParentObligations, Connect, CanAttach,
         ownership, plan, session, front, request, executor, native
  <2> QED BY <2>1, <2>2, <2>3, <2>4, <2>5, <2>6 DEF IInv
<1>2. CASE DependencyEnds
  <2>1. TypeOK'
    BY <1>0, <1>2 DEF TypeOK, DependencyEnds, ownership, plan, session, front, request,
         executor, native
  <2>2. ParentOK'
    BY <1>0, <1>2 DEF TypeOK, ParentOK, SessionOK, WorkOK, DependencyEnds, ownership,
         plan, session, front, request, executor, native
  <2>3. SessionOK'
    BY <1>0, <1>2 DEF TypeOK, ParentOK, SessionOK, DependencyEnds, ownership, plan,
         session, front, request, executor, native
  <2>4. WorkOK'
    BY <1>0, <1>2 DEF TypeOK, ParentOK, SessionOK, WorkOK, DependencyEnds, ownership,
         plan, session, front, request, executor, native
  <2>5. CompletedOK'
    BY <1>0, <1>2 DEF TypeOK, ParentOK, SessionOK, WorkOK, CompletedOK, DependencyEnds,
         ownership, plan, session, front, request, executor, native
  <2>6. ParentObligations'
    BY <1>0, <1>2 DEF TypeOK, ParentOK, WorkOK, ParentObligations, DependencyEnds,
         ownership, plan, session, front, request, executor, native
  <2> QED BY <2>1, <2>2, <2>3, <2>4, <2>5, <2>6 DEF IInv
<1>3. CASE Disconnect
  <2>1. TypeOK'
    BY <1>0, <1>3 DEF TypeOK, Disconnect, ownership, plan, session, front, request,
         executor, native
  <2>2. ParentOK'
    BY <1>0, <1>3 DEF TypeOK, ParentOK, SessionOK, WorkOK, Disconnect, ownership, plan,
         session, front, request, executor, native
  <2>3. SessionOK'
    BY <1>0, <1>3 DEF TypeOK, ParentOK, SessionOK, Disconnect, ownership, plan,
         session, front, request, executor, native
  <2>4. WorkOK'
    BY <1>0, <1>3 DEF TypeOK, ParentOK, SessionOK, WorkOK, Disconnect, ownership, plan,
         session, front, request, executor, native
  <2>5. CompletedOK'
    BY <1>0, <1>3 DEF TypeOK, ParentOK, SessionOK, WorkOK, CompletedOK, Disconnect,
         ownership, plan, session, front, request, executor, native
  <2>6. ParentObligations'
    BY <1>0, <1>3 DEF TypeOK, ParentOK, WorkOK, ParentObligations, Disconnect,
         ownership, plan, session, front, request, executor, native
  <2> QED BY <2>1, <2>2, <2>3, <2>4, <2>5, <2>6 DEF IInv
<1>4. CASE RefuseEvent
  <2>1. TypeOK'
    BY <1>0, <1>4 DEF TypeOK, RefuseEvent, ownership, plan, session, front, request,
         executor, native
  <2>2. ParentOK'
    BY <1>0, <1>4 DEF TypeOK, ParentOK, SessionOK, WorkOK, RefuseEvent, ownership,
         plan, session, front, request, executor, native
  <2>3. SessionOK'
    BY <1>0, <1>4 DEF TypeOK, ParentOK, SessionOK, RefuseEvent, ownership, plan,
         session, front, request, executor, native
  <2>4. WorkOK'
    BY <1>0, <1>4 DEF TypeOK, ParentOK, SessionOK, WorkOK, RefuseEvent, ownership,
         plan, session, front, request, executor, native
  <2>5. CompletedOK'
    BY <1>0, <1>4 DEF TypeOK, ParentOK, SessionOK, WorkOK, CompletedOK, RefuseEvent,
         ownership, plan, session, front, request, executor, native
  <2>6. ParentObligations'
    BY <1>0, <1>4 DEF TypeOK, ParentOK, WorkOK, ParentObligations, RefuseEvent,
         ownership, plan, session, front, request, executor, native
  <2> QED BY <2>1, <2>2, <2>3, <2>4, <2>5, <2>6 DEF IInv
<1>5. CASE AcceptRequest
  <2>1. TypeOK'
    <3>1. PICK r \in Requests :
            /\ method' = r.method /\ key' = r.key /\ port' = r.port
            /\ controlled' = (r.key # 0 \/ parent_key # 0)
            /\ IF r.key # 0 THEN operation' = r.key /\ asker' = current
                            ELSE UNCHANGED <<operation, asker>>
      BY <1>5 DEF AcceptRequest
    <3>2. Named \subseteq Nat
      BY <1>0 DEF Named, TypeOK
    <3>3. /\ r.method \in {"begin", "finish", "effect", "observe"}
          /\ r.key \in Nat /\ r.port \in Ports \cup {0}
      <4>1. CASE r \in [method : {"begin", "finish", "observe"}, key : Named, port : {0}]
        BY <3>2, <4>1
      <4>2. CASE r \in [method : {"effect"}, key : Named, port : Ports \cup {0}]
        BY <3>2, <4>2
      <4>3. CASE r \in [method : {"observe", "effect"}, key : {0}, port : {0}]
        BY <4>3
      <4> QED BY <4>1, <4>2, <4>3 DEF Requests
    <3>4. HandlerOK'
      BY <1>0, <1>5, TypeSplit DEF HandlerOK, AcceptRequest, ownership, plan, native
    <3>5. RestOK'
      BY <1>0, <1>5, <3>1, <3>3, TypeSplit DEF RestOK, AcceptRequest
    <3> QED BY <3>4, <3>5, TypeSplit
  <2>2. ParentOK'
    BY <1>0, <1>5 DEF TypeOK, ParentOK, SessionOK, WorkOK, AcceptRequest, Requests,
         Named, ownership, plan, session, front, request, executor, native
  <2>3. SessionOK'
    BY <1>0, <1>5 DEF TypeOK, ParentOK, SessionOK, AcceptRequest, Requests, Named,
         ownership, plan, session, front, request, executor, native
  <2>4. WorkOK'
    BY <1>0, <1>5 DEF TypeOK, ParentOK, SessionOK, WorkOK, AcceptRequest, Requests,
         Named, ownership, plan, session, front, request, executor, native
  <2>5. CompletedOK'
    BY <1>0, <1>5 DEF TypeOK, ParentOK, SessionOK, WorkOK, CompletedOK, AcceptRequest,
         Requests, Named, ownership, plan, session, front, request, executor, native
  <2>6. ParentObligations'
    BY <1>0, <1>5 DEF TypeOK, ParentOK, WorkOK, ParentObligations, AcceptRequest,
         Requests, Named, ownership, plan, session, front, request, executor, native
  <2> QED BY <2>1, <2>2, <2>3, <2>4, <2>5, <2>6 DEF IInv
<1>6. CASE WorkBegin
  <2>1. TypeOK'
    <3>1. HandlerOK'
      BY <1>0, <1>6, TypeSplit DEF HandlerOK, RestOK, WorkBegin, Working, CanBegin,
           Begin, ownership, plan, session, front, request, executor, native
    <3>2. RestOK'
      BY <1>0, <1>6, TypeSplit DEF HandlerOK, RestOK, WorkBegin, Working, CanBegin,
           Begin, ownership, plan, session, front, request, executor, native
    <3> QED BY <3>1, <3>2, TypeSplit
  <2>2. ParentOK'
    BY <1>0, <1>6 DEF TypeOK, ParentOK, SessionOK, WorkOK, WorkBegin, Working,
         CanBegin, Begin, ownership, plan, session, front, request, executor, native
  <2>3. SessionOK'
    BY <1>0, <1>6 DEF TypeOK, ParentOK, SessionOK, WorkBegin, Working, CanBegin, Begin,
         ownership, plan, session, front, request, executor, native
  <2>4. WorkOK'
    BY <1>0, <1>6 DEF TypeOK, ParentOK, SessionOK, WorkOK, WorkBegin, Working,
         CanBegin, Begin, ownership, plan, session, front, request, executor, native
  <2>5. CompletedOK'
    BY <1>0, <1>6 DEF TypeOK, ParentOK, SessionOK, WorkOK, CompletedOK, WorkBegin,
         Working, CanBegin, Begin, ownership, plan, session, front, request, executor,
         native
  <2>6. ParentObligations'
    BY <1>0, <1>6 DEF TypeOK, ParentOK, WorkOK, ParentObligations, WorkBegin, Working,
         CanBegin, Begin, ownership, plan, session, front, request, executor, native
  <2> QED BY <2>1, <2>2, <2>3, <2>4, <2>5, <2>6 DEF IInv
<1>7. CASE WorkFinish
  <2>a. /\ conn = "working" /\ key # 0 /\ current # 0 /\ ~fatal /\ ~retired
        /\ key = operation /\ asker = current /\ attachment = current
        /\ UNCHANGED <<attachment, parent_key, parent_att, input_ports, effects_started,
                       terminal, retired, conn, current, operation, asker, issued, fatal>>
    BY <1>0, <1>7 DEF WorkFinish, Working, WorkOK, SessionOK, ParentOK, StartCleanup,
         ownership, plan, session, front, native
  <2>b. \/ terminal = key /\ completed' = completed \cup {key} /\ stage' = "reply"
           /\ UNCHANGED stopping
        \/ parent_key = key /\ stopping' = TRUE /\ stage' = "cleanup" /\ UNCHANGED completed
        \/ stage' = "reply" /\ UNCHANGED <<stopping, completed>>
    BY <1>7 DEF WorkFinish, CanFinish, StartCleanup, ownership, plan
  <2>1. TypeOK'
    <3>1. HandlerOK'
      BY <1>0, <1>7, TypeSplit DEF HandlerOK, RestOK, WorkFinish, Working, CanFinish,
           StartCleanup, ownership, plan, session, front, request, executor, native
    <3>2. RestOK'
      BY <1>0, <1>7, TypeSplit DEF HandlerOK, RestOK, WorkFinish, Working, CanFinish,
           StartCleanup, ownership, plan, session, front, request, executor, native
    <3> QED BY <3>1, <3>2, TypeSplit
  <2>2. ParentOK'
    BY <1>0, <1>7, <2>a, <2>b DEF TypeOK, ParentOK, WorkFinish, Working
  <2>3. SessionOK'
    BY <1>0, <1>7 DEF TypeOK, ParentOK, SessionOK, WorkFinish, Working, CanFinish,
         StartCleanup, ownership, plan, session, front, request, executor, native
  <2>4. WorkOK'
    BY <1>0, <1>7 DEF TypeOK, ParentOK, SessionOK, WorkOK, WorkFinish, Working,
         CanFinish, StartCleanup, ownership, plan, session, front, request, executor,
         native
  <2>5. CompletedOK'
    <3>1. CASE UNCHANGED completed
      BY <1>0, <2>a, <3>1 DEF CompletedOK
    <3>2. CASE terminal = key /\ completed' = completed \cup {key}
      <4>1. parent_key = 0 /\ operation \in Nat
        BY <1>0, <2>a, <3>2 DEF TypeOK
      <4>2. completed' \subseteq 1 .. operation
        <5>1. key \in 1 .. operation
          BY <2>a, <4>1
        <5> QED BY <1>0, <3>2, <5>1 DEF CompletedOK
      <4> QED BY <2>a, <3>2, <4>1, <4>2 DEF CompletedOK
    <3> QED BY <2>b, <3>1, <3>2
  <2>6. ParentObligations'
    BY <1>0, <1>7 DEF TypeOK, ParentOK, WorkOK, ParentObligations, WorkFinish, Working,
         CanFinish, StartCleanup, ownership, plan, session, front, request, executor,
         native
  <2> QED BY <2>1, <2>2, <2>3, <2>4, <2>5, <2>6 DEF IInv
<1>8. CASE WorkAdmit
  <2>a. /\ conn = "working" /\ stage = "start" /\ attachment = current /\ current # 0
        /\ ~fatal /\ ~retired /\ ~stopping
        /\ UNCHANGED <<attachment, parent_key, parent_att, stopping, terminal, retired, conn,
                       fatal, held, advancing, actor>>
    BY <1>0, <1>8 DEF WorkAdmit, Working, WorkOK, SessionOK, ParentOK, Record, ownership,
         plan, session, native
  <2>b. \/ /\ parent_key = key /\ key # 0 /\ effects_started' = TRUE
           /\ input_ports' = IF port = 0 THEN input_ports ELSE input_ports \cup {port}
        \/ UNCHANGED <<effects_started, input_ports>>
    BY <1>8 DEF WorkAdmit, Active, Record, ownership, plan
  <2>1. TypeOK'
    <3>1. input_ports' \subseteq Ports
      BY <1>0, <2>b DEF TypeOK
    <3>2. effects_started' \in BOOLEAN
      BY <1>0, <2>b DEF TypeOK
    <3>3. HandlerOK'
      BY <1>0, <2>a, <3>1, <3>2, TypeSplit DEF HandlerOK
    <3>4. RestOK'
      BY <1>0, <1>8, TypeSplit DEF RestOK, WorkAdmit, session, front, request
    <3> QED BY <3>3, <3>4, TypeSplit
  <2>2. ParentOK'
    <3>1. CASE parent_key = key /\ key # 0 /\ effects_started' = TRUE
      BY <1>0, <2>a, <3>1 DEF ParentOK
    <3>2. CASE UNCHANGED <<effects_started, input_ports>>
      BY <1>0, <2>a, <3>2 DEF ParentOK
    <3> QED BY <2>b, <3>1, <3>2
  <2>3. SessionOK'
    BY <1>0, <1>8 DEF TypeOK, ParentOK, SessionOK, WorkAdmit, Working, Active,
         Authorized, Record, ownership, plan, session, front, request, executor, native
  <2>4. WorkOK'
    BY <1>0, <1>8 DEF TypeOK, ParentOK, SessionOK, WorkOK, WorkAdmit, Working, Active,
         Authorized, Record, ownership, plan, session, front, request, executor, native
  <2>5. CompletedOK'
    BY <1>0, <1>8 DEF TypeOK, ParentOK, SessionOK, WorkOK, CompletedOK, WorkAdmit,
         Working, Active, Authorized, Record, ownership, plan, session, front, request,
         executor, native
  <2>6. ParentObligations'
    BY <1>0, <1>8 DEF TypeOK, ParentOK, WorkOK, ParentObligations, WorkAdmit, Working,
         Active, Authorized, Record, ownership, plan, session, front, request,
         executor, native
  <2> QED BY <2>1, <2>2, <2>3, <2>4, <2>5, <2>6 DEF IInv
<1>9. CASE WorkNative
  <2>1. TypeOK'
    <3>1. fatal' \in BOOLEAN
      BY <1>0, <1>9 DEF WorkNative, TypeOK
    <3>2. actor' \in [att : Nat, key : Nat]
      BY <1>0, <1>9 DEF WorkNative, TypeOK
    <3>3. held' \subseteq Ports
      BY <1>0, <1>9 DEF WorkNative, TypeOK
    <3>4. advancing' \in BOOLEAN
      BY <1>0, <1>9 DEF WorkNative, TypeOK
    <3>5. HandlerOK'
      BY <1>0, <1>9, <3>1, <3>2, <3>3, <3>4, TypeSplit
           DEF HandlerOK, WorkNative, ownership, plan
    <3>6. RestOK'
      BY <1>0, <1>9, TypeSplit DEF RestOK, WorkNative, session, front, request
    <3> QED BY <3>5, <3>6, TypeSplit
  <2>2. ParentOK'
    BY <1>0, <1>9 DEF TypeOK, ParentOK, SessionOK, WorkOK, WorkNative, Working,
         ownership, plan, session, front, request, executor, native
  <2>3. SessionOK'
    BY <1>0, <1>9 DEF TypeOK, ParentOK, SessionOK, WorkNative, Working, ownership,
         plan, session, front, request, executor, native
  <2>4. WorkOK'
    BY <1>0, <1>9 DEF TypeOK, ParentOK, SessionOK, WorkOK, WorkNative, Working,
         ownership, plan, session, front, request, executor, native
  <2>5. CompletedOK'
    BY <1>0, <1>9 DEF TypeOK, ParentOK, SessionOK, WorkOK, CompletedOK, WorkNative,
         Working, ownership, plan, session, front, request, executor, native
  <2>6. ParentObligations'
    BY <1>0, <1>9 DEF TypeOK, ParentOK, WorkOK, ParentObligations, WorkNative, Working,
         ownership, plan, session, front, request, executor, native
  <2> QED BY <2>1, <2>2, <2>3, <2>4, <2>5, <2>6 DEF IInv
<1>10. CASE ReadCancel
  <2>1. TypeOK'
    BY <1>0, <1>10 DEF TypeOK, ReadCancel, Listening, ownership, plan, session, front,
         request, executor, native
  <2>2. ParentOK'
    BY <1>0, <1>10 DEF TypeOK, ParentOK, SessionOK, WorkOK, ReadCancel, Listening,
         ownership, plan, session, front, request, executor, native
  <2>3. SessionOK'
    BY <1>0, <1>10 DEF TypeOK, ParentOK, SessionOK, ReadCancel, Listening, ownership,
         plan, session, front, request, executor, native
  <2>4. WorkOK'
    BY <1>0, <1>10 DEF TypeOK, ParentOK, SessionOK, WorkOK, ReadCancel, Listening,
         ownership, plan, session, front, request, executor, native
  <2>5. CompletedOK'
    BY <1>0, <1>10 DEF TypeOK, ParentOK, SessionOK, WorkOK, CompletedOK, ReadCancel,
         Listening, ownership, plan, session, front, request, executor, native
  <2>6. ParentObligations'
    BY <1>0, <1>10 DEF TypeOK, ParentOK, WorkOK, ParentObligations, ReadCancel,
         Listening, ownership, plan, session, front, request, executor, native
  <2> QED BY <2>1, <2>2, <2>3, <2>4, <2>5, <2>6 DEF IInv
<1>11. CASE ReadDetach
  <2>1. TypeOK'
    BY <1>0, <1>11 DEF TypeOK, ReadDetach, Listening, ownership, plan, session, front,
         request, executor, native
  <2>2. ParentOK'
    BY <1>0, <1>11 DEF TypeOK, ParentOK, SessionOK, WorkOK, ReadDetach, Listening,
         ownership, plan, session, front, request, executor, native
  <2>3. SessionOK'
    BY <1>0, <1>11 DEF TypeOK, ParentOK, SessionOK, ReadDetach, Listening, ownership,
         plan, session, front, request, executor, native
  <2>4. WorkOK'
    BY <1>0, <1>11 DEF TypeOK, ParentOK, SessionOK, WorkOK, ReadDetach, Listening,
         ownership, plan, session, front, request, executor, native
  <2>5. CompletedOK'
    BY <1>0, <1>11 DEF TypeOK, ParentOK, SessionOK, WorkOK, CompletedOK, ReadDetach,
         Listening, ownership, plan, session, front, request, executor, native
  <2>6. ParentObligations'
    BY <1>0, <1>11 DEF TypeOK, ParentOK, WorkOK, ParentObligations, ReadDetach,
         Listening, ownership, plan, session, front, request, executor, native
  <2> QED BY <2>1, <2>2, <2>3, <2>4, <2>5, <2>6 DEF IInv
<1>12. CASE LoseTransport
  <2>1. TypeOK'
    BY <1>0, <1>12 DEF TypeOK, LoseTransport, ownership, plan, session, front, request,
         executor, native
  <2>2. ParentOK'
    BY <1>0, <1>12 DEF TypeOK, ParentOK, SessionOK, WorkOK, LoseTransport, ownership,
         plan, session, front, request, executor, native
  <2>3. SessionOK'
    BY <1>0, <1>12 DEF TypeOK, ParentOK, SessionOK, LoseTransport, ownership, plan,
         session, front, request, executor, native
  <2>4. WorkOK'
    BY <1>0, <1>12 DEF TypeOK, ParentOK, SessionOK, WorkOK, LoseTransport, ownership,
         plan, session, front, request, executor, native
  <2>5. CompletedOK'
    BY <1>0, <1>12 DEF TypeOK, ParentOK, SessionOK, WorkOK, CompletedOK, LoseTransport,
         ownership, plan, session, front, request, executor, native
  <2>6. ParentObligations'
    BY <1>0, <1>12 DEF TypeOK, ParentOK, WorkOK, ParentObligations, LoseTransport,
         ownership, plan, session, front, request, executor, native
  <2> QED BY <2>1, <2>2, <2>3, <2>4, <2>5, <2>6 DEF IInv
<1>13. CASE BrokerAttach
  <2>1. /\ conn = "idle" /\ ~broker /\ issued' = issued + 1
        /\ LifecycleDetach(current, issued + 1, "idle")
        /\ current' = IF conn' = "idle" THEN issued + 1 ELSE 0
        /\ broker' = (conn' = "idle")
        /\ UNCHANGED <<operation, asker, request, executor, completed>>
    BY <1>13 DEF BrokerAttach
  <2>2. /\ HandlerOK' /\ UNCHANGED actor
        /\ conn' = IF fatal' THEN "ending" ELSE "idle"
        /\ retired' => fatal'
        /\ parent_key' \in {0, parent_key}
        /\ parent_key' = 0 => parent_att' = 0 /\ input_ports' = {}
                              /\ ~effects_started' /\ ~stopping'
        /\ ~retired' => parent_key' = 0 /\ attachment' = IF fatal' THEN 0 ELSE issued + 1
        /\ ~fatal' => held' = {} /\ ~advancing'
    <3>1. current # 0 /\ issued + 1 \in Nat /\ conn # "exited"
      BY <1>0, <2>1 DEF SessionOK, TypeOK
    <3>2. PICK h \in Nat : h = issued + 1
      BY <3>1
    <3> QED BY <2>1, <3>1, <3>2, DetachFacts
  <2>3. UNCHANGED <<operation, asker, method, key, port, stage, controlled, cancelled,
                    detached, transport_error, completed>>
    BY <2>1 DEF request, executor
  <2>7. TypeOK'
    <3>1. HandlerOK'
      BY <2>2
    <3>2. RestOK'
      BY <1>0, <2>1, <2>2, <2>3, TypeSplit DEF RestOK
    <3> QED BY <3>1, <3>2, TypeSplit
  <2>8. ParentOK'
    BY <1>0, <2>1, <2>2, <2>3 DEF ParentOK, HandlerOK, TypeOK
  <2>9. SessionOK'
    BY <1>0, <2>1, <2>2, <2>3 DEF SessionOK, HandlerOK, TypeOK
  <2>10. WorkOK'
    BY <2>1, <2>2, <2>3 DEF WorkOK
  <2>11. CompletedOK'
    BY <1>0, <2>1, <2>2, <2>3 DEF CompletedOK, SessionOK, TypeOK
  <2>12. ParentObligations'
    BY <2>2 DEF ParentObligations, HandlerOK
  <2> QED BY <2>7, <2>8, <2>9, <2>10, <2>11, <2>12 DEF IInv
<1>14. CASE DetachEvent
  <2>1. /\ conn = "idle" /\ broker /\ current # 0
        /\ LifecycleDetach(current, 0, "idle")
        /\ current' = 0
        /\ UNCHANGED <<broker, front, request, executor, completed>>
    BY <1>14 DEF DetachEvent
  <2>2. /\ HandlerOK' /\ UNCHANGED actor
        /\ conn' = IF fatal' THEN "ending" ELSE "idle"
        /\ retired' => fatal'
        /\ parent_key' \in {0, parent_key}
        /\ parent_key' = 0 => parent_att' = 0 /\ input_ports' = {}
                              /\ ~effects_started' /\ ~stopping'
        /\ ~retired' => parent_key' = 0 /\ attachment' = IF fatal' THEN 0 ELSE 0
        /\ ~fatal' => held' = {} /\ ~advancing'
    BY <2>1, DetachFacts
  <2>3. UNCHANGED <<broker, issued, operation, asker, method, key, port, stage, controlled,
                    cancelled, detached, transport_error, completed>>
    BY <2>1 DEF front, request, executor
  <2>7. TypeOK'
    <3>1. HandlerOK'
      BY <2>2
    <3>2. RestOK'
      BY <1>0, <2>1, <2>2, <2>3, TypeSplit DEF RestOK
    <3> QED BY <3>1, <3>2, TypeSplit
  <2>8. ParentOK'
    BY <1>0, <2>1, <2>2, <2>3 DEF ParentOK, HandlerOK, TypeOK
  <2>9. SessionOK'
    BY <1>0, <2>1, <2>2, <2>3 DEF SessionOK, HandlerOK, TypeOK
  <2>10. WorkOK'
    BY <2>1, <2>2, <2>3 DEF WorkOK
  <2>11. CompletedOK'
    BY <1>0, <2>1, <2>2, <2>3 DEF CompletedOK, SessionOK, TypeOK
  <2>12. ParentObligations'
    BY <2>2 DEF ParentObligations, HandlerOK
  <2> QED BY <2>7, <2>8, <2>9, <2>10, <2>11, <2>12 DEF IInv
<1>15. CASE Close
  <2>1. /\ conn \in {"closing", "ending"} /\ current' = 0
        /\ UNCHANGED <<broker, front, request, executor, completed>>
    BY <1>15 DEF Close
  <2>2. /\ HandlerOK' /\ UNCHANGED actor
        /\ \/ conn' = "ending" /\ fatal'
           \/ conn' = "exited"
           \/ conn' \in {"ending", "down"} /\ ~fatal'
        /\ retired' => fatal'
        /\ parent_key' \in {0, parent_key}
        /\ parent_key' = 0 => parent_att' = 0 /\ input_ports' = {}
                              /\ ~effects_started' /\ ~stopping'
        /\ ~retired' => parent_key' = 0 /\ attachment' = 0
        /\ ~fatal' => held' = {} /\ ~advancing'
    <3>1. CASE current # 0
      <4>1. PICK next : /\ next = IF conn = "ending" THEN conn ELSE "down"
                        /\ LifecycleDetach(current, 0, next)
        BY <1>15, <3>1 DEF Close
      <4>2. next \in {"ending", "down"}
        BY <4>1
      <4>3. /\ HandlerOK' /\ UNCHANGED actor
            /\ conn' = IF fatal' THEN "ending" ELSE next
            /\ retired' => fatal'
            /\ parent_key' \in {0, parent_key}
            /\ parent_key' = 0 => parent_att' = 0 /\ input_ports' = {}
                                  /\ ~effects_started' /\ ~stopping'
            /\ ~retired' => parent_key' = 0 /\ attachment' = IF fatal' THEN 0 ELSE 0
            /\ ~fatal' => held' = {} /\ ~advancing'
        BY <2>1, <3>1, <4>1, DetachFacts
      <4> QED BY <4>2, <4>3
    <3>2. CASE current = 0
      <4>1. /\ conn' = IF conn = "ending" THEN "exited" ELSE "down"
            /\ UNCHANGED <<ownership, native>>
        BY <1>15, <3>2 DEF Close
      <4>2. UNCHANGED <<attachment, parent_key, parent_att, input_ports, effects_started,
                        stopping, terminal, retired, fatal, held, advancing, actor>>
        BY <4>1 DEF ownership, plan, native
      <4>3. HandlerOK'
        BY <1>0, <4>2, TypeSplit DEF HandlerOK
      <4>4. ~retired => attachment = 0 /\ parent_key = 0
        BY <1>0, <2>1, <3>2 DEF SessionOK, ParentOK
      <4>5. ~fatal => held = {} /\ ~advancing
        BY <1>0, <4>4 DEF ParentOK, ParentObligations
      <4>6. conn' = "down" => ~fatal
        BY <1>0, <2>1, <4>1 DEF SessionOK
      <4> QED BY <1>0, <2>1, <4>1, <4>2, <4>3, <4>4, <4>5, <4>6 DEF ParentOK
    <3> QED BY <3>1, <3>2
  <2>3. UNCHANGED <<broker, issued, operation, asker, method, key, port, stage, controlled,
                    cancelled, detached, transport_error, completed>>
    BY <2>1 DEF front, request, executor
  <2>7. TypeOK'
    <3>1. HandlerOK'
      BY <2>2
    <3>2. RestOK'
      BY <1>0, <2>1, <2>2, <2>3, TypeSplit DEF RestOK
    <3> QED BY <3>1, <3>2, TypeSplit
  <2>8. ParentOK'
    BY <1>0, <2>1, <2>2, <2>3 DEF ParentOK, HandlerOK, TypeOK
  <2>9. SessionOK'
    BY <1>0, <2>1, <2>2, <2>3 DEF SessionOK, HandlerOK, TypeOK
  <2>10. WorkOK'
    BY <2>1, <2>2, <2>3 DEF WorkOK
  <2>11. CompletedOK'
    BY <1>0, <2>1, <2>2, <2>3 DEF CompletedOK, SessionOK, TypeOK
  <2>12. ParentObligations'
    BY <2>2 DEF ParentObligations, HandlerOK
  <2> QED BY <2>7, <2>8, <2>9, <2>10, <2>11, <2>12 DEF IInv
<1>16. CASE Complete /\ detached
  <2>0. PICK after : /\ after = IF transport_error THEN "closing" ELSE "idle"
                     /\ LifecycleDetach(current, 0, after)
    BY <1>16 DEF Complete
  <2>1. /\ conn = "working" /\ broker /\ current # 0 /\ current' = 0 /\ stage' = "none"
        /\ after \in {"idle", "closing"}
        /\ UNCHANGED <<broker, front, request, controlled, cancelled, detached,
                       transport_error, completed>>
    BY <1>0, <1>16, <2>0 DEF Complete, Working, WorkOK, SessionOK
  <2>2. /\ HandlerOK' /\ UNCHANGED actor
        /\ conn' = IF fatal' THEN "ending" ELSE after
        /\ retired' => fatal'
        /\ parent_key' \in {0, parent_key}
        /\ parent_key' = 0 => parent_att' = 0 /\ input_ports' = {}
                              /\ ~effects_started' /\ ~stopping'
        /\ ~retired' => parent_key' = 0 /\ attachment' = IF fatal' THEN 0 ELSE 0
        /\ ~fatal' => held' = {} /\ ~advancing'
    BY <2>0, <2>1, DetachFacts
  <2>3. UNCHANGED <<broker, issued, operation, asker, method, key, port, controlled,
                    cancelled, detached, transport_error, completed>>
    BY <2>1 DEF front, request
  <2>7. TypeOK'
    <3>1. HandlerOK'
      BY <2>2
    <3>2. RestOK'
      BY <1>0, <2>1, <2>2, <2>3, TypeSplit DEF RestOK
    <3> QED BY <3>1, <3>2, TypeSplit
  <2>8. ParentOK'
    BY <1>0, <2>1, <2>2, <2>3 DEF ParentOK, HandlerOK, TypeOK
  <2>9. SessionOK'
    BY <1>0, <2>1, <2>2, <2>3 DEF SessionOK, HandlerOK, TypeOK
  <2>10. WorkOK'
    BY <2>1, <2>2, <2>3 DEF WorkOK
  <2>11. CompletedOK'
    BY <1>0, <2>1, <2>2, <2>3 DEF CompletedOK, SessionOK, TypeOK
  <2>12. ParentObligations'
    BY <2>2 DEF ParentObligations, HandlerOK
  <2> QED BY <2>7, <2>8, <2>9, <2>10, <2>11, <2>12 DEF IInv
<1>17. CASE Complete /\ ~detached
  <2>1. /\ conn = "working" /\ stage = "reply" /\ stage' = "none"
        /\ conn' \in IF fatal THEN {"ending"} ELSE {"idle", "closing"}
        /\ UNCHANGED <<ownership, native, current, broker, front, request, controlled,
                       cancelled, detached, transport_error, completed>>
    BY <1>17 DEF Complete, Working
  <2>2. TypeOK'
    BY <1>0, <2>1 DEF TypeOK, ownership, plan, native, front, request
  <2>3. ParentOK'
    BY <1>0, <2>1 DEF TypeOK, ParentOK, SessionOK, WorkOK, ownership, plan, native,
         front, request
  <2>4. SessionOK'
    BY <1>0, <2>1 DEF TypeOK, ParentOK, SessionOK, ownership, plan, native, front,
         request
  <2>5. WorkOK'
    BY <1>0, <2>1 DEF TypeOK, ParentOK, SessionOK, WorkOK, ownership, plan, native,
         front, request
  <2>6. CompletedOK'
    BY <1>0, <2>1 DEF TypeOK, ParentOK, SessionOK, WorkOK, CompletedOK, ownership,
         plan, native, front, request
  <2>7. ParentObligations'
    BY <1>0, <2>1 DEF TypeOK, ParentOK, WorkOK, ParentObligations, ownership, plan,
         native, front, request
  <2> QED BY <2>2, <2>3, <2>4, <2>5, <2>6, <2>7 DEF IInv
<1>18. CASE WorkCleanup
  <2>1. /\ conn = "working" /\ stage' = "reply" /\ stopping /\ parent_key = key /\ key # 0
        /\ ~fatal /\ ~retired /\ key = operation /\ asker = current
        /\ attachment = current /\ parent_att = attachment
        /\ current # 0
    BY <1>0, <1>18 DEF WorkCleanup, Working, WorkOK, SessionOK, ParentOK
  <2>2. /\ held' \subseteq Ports /\ advancing' \in BOOLEAN /\ UNCHANGED actor
        /\ \/ /\ parent_key' = 0 /\ parent_att' = 0 /\ input_ports' = {}
              /\ effects_started' = FALSE /\ stopping' = FALSE /\ terminal' = parent_key
              /\ UNCHANGED <<retired, fatal>> /\ held' = {} /\ advancing' = FALSE
           \/ /\ retired' = TRUE /\ stopping' = TRUE /\ terminal' = 0 /\ fatal' = TRUE
              /\ UNCHANGED <<parent_key, parent_att, input_ports, effects_started>>
    <3>1. PICK o \in Nat : o = attachment /\ CleanParent(o)
      BY <1>0, <1>18 DEF WorkCleanup, TypeOK
    <3> QED BY <1>0, <2>1, <3>1, CleanFacts
  <2>3. /\ UNCHANGED <<attachment, conn, current, broker, issued, operation, asker, method,
                       key, port, controlled, cancelled, detached, transport_error>>
        /\ completed' = IF fatal' THEN completed ELSE completed \cup {key}
    BY <1>18 DEF WorkCleanup, session, front, request
  <2>4. TypeOK'
    <3>1. HandlerOK'
      BY <1>0, <2>1, <2>2, <2>3, TypeSplit DEF HandlerOK
    <3>2. completed' \subseteq Nat
      BY <1>0, <2>3 DEF TypeOK
    <3>3. RestOK'
      BY <1>0, <2>1, <2>3, <3>2, TypeSplit DEF RestOK
    <3> QED BY <3>1, <3>3, TypeSplit
  <2>5. ParentOK'
    BY <1>0, <2>1, <2>2, <2>3 DEF ParentOK
  <2>6. SessionOK'
    BY <1>0, <2>1, <2>2, <2>3 DEF SessionOK
  <2>7. WorkOK'
    BY <1>0, <2>1, <2>2, <2>3 DEF WorkOK
  <2>8. CompletedOK'
    <3>1. CASE fatal'
      <4>1. parent_key' = parent_key /\ UNCHANGED completed
        BY <2>1, <2>2, <2>3, <3>1
      <4>2. operation \notin completed
        BY <1>0, <2>1 DEF CompletedOK
      <4> QED BY <1>0, <2>1, <2>3, <4>1, <4>2 DEF CompletedOK
    <3>2. CASE ~fatal'
      <4>1. parent_key' = 0 /\ terminal' = operation /\ completed' = completed \cup {key}
        BY <2>1, <2>2, <2>3, <3>2
      <4>2. key \in 1 .. operation
        BY <1>0, <2>1 DEF TypeOK
      <4> QED BY <1>0, <2>1, <2>3, <4>1, <4>2 DEF CompletedOK
    <3> QED BY <3>1, <3>2
  <2>9. ParentObligations'
    BY <2>1, <2>2 DEF ParentObligations
  <2> QED BY <2>4, <2>5, <2>6, <2>7, <2>8, <2>9 DEF IInv
<1>19. CASE \E a \in 1 .. MaxAttachments : AttachEvent(a)
  <2>1. PICK a \in 1 .. MaxAttachments : AttachEvent(a)
    BY <1>19
  <2>2. /\ conn = "idle" /\ broker /\ a \in {current, issued + 1} /\ a # 0 /\ a \in Nat
        /\ issued' = IF a > issued THEN a ELSE issued
        /\ UNCHANGED <<broker, operation, asker, request, executor, native, completed>>
        /\ \/ /\ current \in {0, a} /\ attachment' = a /\ current' = a
              /\ terminal' = IF attachment = a THEN terminal ELSE 0
              /\ UNCHANGED <<plan, retired, conn>> /\ CanAttach(a)
           \/ conn' = "ending" /\ UNCHANGED <<ownership, current>>
    BY <2>1 DEF AttachEvent
  <2>3. TypeOK'
    <3>1. HandlerOK'
      BY <1>0, <2>2, TypeSplit DEF HandlerOK, ownership, plan, native
    <3>2. RestOK'
      BY <1>0, <2>2, TypeSplit DEF RestOK, request, executor
    <3> QED BY <3>1, <3>2, TypeSplit
  <2>4. ParentOK'
    <3>1. CASE CanAttach(a) /\ attachment' = a /\ UNCHANGED <<plan, retired, conn>>
      <4>1. parent_key # 0 => attachment' = attachment
        BY <3>1 DEF CanAttach
      <4>2. UNCHANGED <<parent_key, parent_att, input_ports, effects_started, stopping,
                        retired, conn, stage, fatal>>
        BY <2>2, <3>1 DEF plan, executor, native
      <4> QED BY <1>0, <4>1, <4>2 DEF ParentOK
    <3>2. CASE conn' = "ending" /\ UNCHANGED <<ownership, current>>
      BY <1>0, <2>2, <3>2 DEF ParentOK, ownership, plan, executor, native
    <3> QED BY <2>2, <3>1, <3>2
  <2>5. SessionOK'
    BY <1>0, <2>2 DEF TypeOK, ParentOK, SessionOK, CanAttach, ownership, plan, native,
         request, executor
  <2>6. WorkOK'
    BY <1>0, <2>2 DEF TypeOK, ParentOK, SessionOK, WorkOK, CanAttach, ownership, plan,
         native, request, executor
  <2>7. CompletedOK'
    BY <1>0, <2>2 DEF TypeOK, ParentOK, SessionOK, WorkOK, CompletedOK, CanAttach,
         ownership, plan, native, request, executor
  <2>8. ParentObligations'
    BY <1>0, <2>2 DEF TypeOK, ParentOK, WorkOK, ParentObligations, CanAttach,
         ownership, plan, native, request, executor
  <2> QED BY <2>3, <2>4, <2>5, <2>6, <2>7, <2>8 DEF IInv
<1>20. CASE UNCHANGED vars
  BY <1>0, <1>20 DEF IInv, TypeOK, ParentOK, SessionOK, WorkOK, CompletedOK,
       ParentObligations, vars, ownership, plan, session, front, request, executor, native
<1> QED BY <1>1, <1>2, <1>3, <1>4, <1>5, <1>6, <1>7, <1>8, <1>9, <1>10, <1>11, <1>12,
           <1>13, <1>14, <1>15, <1>16, <1>17, <1>18, <1>19, <1>20 DEF Next, Worker

-----------------------------------------------------------------------------
(* The theorems.                                                            *)

LEMMA Invariant == Spec => []IInv
BY IInit, IStep, PTL DEF Spec

\* Type correctness: in particular an operation that is under way never
\* coexists with the remembered answer of a closed one (owner.rs, begin).
THEOREM BridgeTypes == Spec => []TypeOK
<1>1. IInv => TypeOK
  BY DEF IInv
<1> QED BY <1>1, Invariant, PTL

\* A request that Route::request_attachment lets pass is made for the
\* attachment that the handler's ownership has.
THEOREM RouteAndOwnerAgree == Spec => []RouteAgrees
<1>1. IInv => RouteAgrees
  <2> SUFFICES ASSUME IInv, conn \in {"idle", "working"} PROVE attachment = current
    BY DEF RouteAgrees
  <2> QED BY DEF IInv, SessionOK
<1> QED BY <1>1, Invariant, PTL

\* Whatever a parent has pressed or set running is on the list of the cleanup
\* that the handler will make for it.
THEOREM NothingForgotten == Spec => []ParentObligations
<1>1. IInv => ParentObligations
  BY DEF IInv
<1> QED BY <1>1, Invariant, PTL

\* A bridge that connects again has an emulator free of its last front.
THEOREM FreshForNextFront == Spec => []NothingLeft
<1>1. IInv => NothingLeft
  BY DEF IInv, NothingLeft, ParentOK, SessionOK, ParentObligations
<1> QED BY <1>1, Invariant, PTL

\* An operation that was reported completed never becomes the parent again.
THEOREM ClosedForGood == Spec => []FinishedForGood
<1>1. IInv => FinishedForGood
  BY DEF IInv, FinishedForGood, CompletedOK
<1> QED BY <1>1, Invariant, PTL

\* A native effect is made only for the owner, under the parent if there is
\* one, and never once a cleanup has begun: the admission of a worker is still
\* valid when the worker reaches the emulator.
THEOREM OnlyOwnerActs == Spec => EffectByOwner
<1> DEFINE A == actor' # actor => /\ actor' = [att |-> attachment, key |-> parent_key]
                                  /\ ~stopping /\ ~retired
<1>1. ASSUME IInv, [Next]_vars PROVE [A]_vars
  <2>0. TypeOK /\ ParentOK /\ SessionOK /\ WorkOK /\ ParentObligations
    BY <1>1 DEF IInv
  <2>1. CASE WorkNative
    BY <2>0, <2>1 DEF WorkNative, Working, WorkOK, SessionOK, ParentOK
  <2>2. CASE ~WorkNative
    <3>1. CASE Connect \/ DependencyEnds \/ Disconnect \/ RefuseEvent \/ AcceptRequest
               \/ WorkBegin \/ WorkFinish \/ WorkAdmit \/ ReadCancel \/ ReadDetach
               \/ LoseTransport \/ (\E a \in 1 .. MaxAttachments : AttachEvent(a))
      BY <3>1 DEF Connect, DependencyEnds, Disconnect, RefuseEvent, AcceptRequest,
           WorkBegin, WorkFinish, WorkAdmit, ReadCancel, ReadDetach, LoseTransport,
           AttachEvent, native
    <3>2. CASE BrokerAttach \/ DetachEvent \/ Close \/ WorkCleanup \/ Complete
      BY <3>2 DEF BrokerAttach, DetachEvent, Close, WorkCleanup, Complete,
           LifecycleDetach, CleanParent, native
    <3> QED BY <1>1, <2>2, <3>1, <3>2 DEF Next, Worker
  <2> QED BY <2>1, <2>2
<1> QED BY <1>1, Invariant, PTL DEF Spec, EffectByOwner

\* When a front is told that its operation is completed, no parent is left,
\* nothing that a parent pressed is held and nothing is left running.
THEOREM CompletedMeansClean == Spec => CompletedVerified
<1> DEFINE A == completed' # completed => parent_key' = 0 /\ held' = {} /\ ~advancing'
<1>1. ASSUME IInv, [Next]_vars PROVE [A]_vars
  <2>0. TypeOK /\ ParentOK /\ SessionOK /\ WorkOK /\ ParentObligations
    BY <1>1 DEF IInv
  <2>1. CASE WorkFinish
    <3>1. CASE terminal = key /\ UNCHANGED ownership
      <4>1. parent_key = 0 /\ ~fatal
        BY <2>0, <2>1, <3>1 DEF WorkFinish, Working, WorkOK, TypeOK
      <4>2. held = {} /\ ~advancing
        BY <2>0, <4>1 DEF ParentOK, ParentObligations
      <4> QED BY <2>1, <3>1, <4>1, <4>2 DEF WorkFinish, ownership, plan, native
    <3>2. CASE UNCHANGED completed
      BY <3>2
    <3> QED BY <2>1, <3>1, <3>2 DEF WorkFinish
  <2>2. CASE WorkCleanup
    <3>1. ~fatal
      BY <2>0, <2>2 DEF WorkCleanup, Working, WorkOK
    <3>2. PICK o \in Nat : CleanParent(o)
      BY <2>0, <2>2 DEF WorkCleanup, TypeOK
    <3>3. fatal' => UNCHANGED completed
      BY <2>2 DEF WorkCleanup
    <3>4. ~fatal' => parent_key' = 0 /\ held' = {} /\ ~advancing'
      BY <2>0, <3>1, <3>2, CleanFacts
    <3> QED BY <3>3, <3>4
  <2>3. CASE ~WorkFinish /\ ~WorkCleanup
    <3>1. UNCHANGED completed
      BY <1>1, <2>3 DEF Next, Worker, Connect, DependencyEnds, Disconnect, RefuseEvent,
           BrokerAttach, AttachEvent, DetachEvent, Close, AcceptRequest, WorkBegin,
           WorkAdmit, WorkNative, ReadCancel, ReadDetach, LoseTransport, Complete, vars
    <3> QED BY <3>1
  <2> QED BY <2>1, <2>2, <2>3
<1> QED BY <1>1, Invariant, PTL DEF Spec, CompletedVerified
=============================================================================
