---------------------------- MODULE OwnedBridge ----------------------------
(***************************************************************************)
(* A bridge process that owns an emulator and serves it to one front: the  *)
(* session loop and the Route (src/live/reconnect.rs, reconnect/owned.rs), *)
(* the executor that runs one request while it keeps reading the           *)
(* connection (reconnect/cancellation.rs), and the handler that every      *)
(* bridge has for parent operations (openmsx_bridge/temporal_owner.rs and  *)
(* its likes).  The front is a frontend (a direct connection) or a broker, *)
(* which announces the frontends one after another as attachments.         *)
(*                                                                         *)
(* Attachments and operations are numbers, each fresh one higher than all  *)
(* before; 0 is none.  The session thread and the worker thread of the     *)
(* request in progress interleave; nothing else touches the emulator.      *)
(***************************************************************************)
EXTENDS ProducerOwnership

CONSTANTS
    MaxAttachments,  \* bound: attachments that are ever made
    MaxOperations    \* bound: operations that are ever begun

ASSUME BridgeAssumption ==
    /\ Ports \subseteq Nat \ {0}
    /\ MaxAttachments \in Nat
    /\ MaxOperations \in Nat

VARIABLES
    conn,      \* the session loop: "down", "idle", "working", "closing" (to
               \* reconnect), "ending" (to exit), "exited"
    current,   \* Route: the attachment of the connection, or 0
    broker,    \* Route: the front has announced itself as a broker
    issued,    \* the attachments made so far
    operation, \* the newest operation a front has named, and by which
    asker,     \*     attachment
    method,    \* the request in progress: its method,
    key,       \*     the parent it names, or 0,
    port,      \*     the port it presses, or 0,
    stage,     \*     and how far its worker is
    controlled,      \* the executor reads the connection meanwhile
    cancelled,       \* RequestCancellation
    detached,        \* session_event: the owner's detach was read meanwhile
    transport_error,
    fatal,     \* backend_terminal: native control has failed
    held,      \* the emulator: the ports that parent operations hold pressed,
    advancing, \*     and whether one of them has left it running
    actor,     \* the attachment and the parent of the last native effect
    completed  \* the operations that some front was told are completed

session == <<conn, current, broker>>
front == <<issued, operation, asker>>
request == <<method, key, port>>
executor == <<stage, controlled, cancelled, detached, transport_error>>
native == <<fatal, held, advancing, actor>>

vars == <<ownership, session, front, request, executor, native, completed>>

-----------------------------------------------------------------------------
(* Cleanup.                                                                 *)

\* clean_parent: stop the emulator and release the ports of the plan, as far
\* as that can be verified; a failure ends native control.
CleanParent(owner) ==
    \E stopped \in BOOLEAN, released \in SUBSET input_ports :
        /\ effects_started \/ (~stopped /\ released = {})
        /\ held' = held \ released
        /\ advancing' = (advancing /\ ~stopped)
        /\ FinishCleanup(stopped, released, owner)
        /\ fatal' = (fatal \/ ~Verified(stopped, released))
        /\ UNCHANGED actor

\* apply_control_session for the detach of attachment a, which leaves the
\* producer to attachment heir (0: to none); next is the state of the session
\* loop unless native control has failed.
LifecycleDetach(a, heir, next) ==
    /\ IF ~retired /\ attachment = a
       THEN /\ IF parent_key # 0 THEN CleanParent(heir)
               ELSE terminal' = 0 /\ UNCHANGED <<plan, retired, native>>
            /\ attachment' = IF fatal' THEN 0 ELSE heir
       ELSE UNCHANGED <<ownership, native>>
    /\ conn' = IF fatal' \/ retired THEN "ending" ELSE next

-----------------------------------------------------------------------------
(* The session loop.                                                        *)

\* A connection to the front is made and authenticated; until a broker says
\* otherwise it is a direct attachment of its own.
Connect ==
    LET a == issued + 1 IN
    /\ conn = "down"
    /\ issued < MaxAttachments
    /\ issued' = a
    /\ broker' = FALSE
    /\ current' = a
    /\ IF CanAttach(a) /\ ~fatal
       THEN /\ attachment' = a
            /\ terminal' = IF attachment = a THEN terminal ELSE 0
            /\ conn' = "idle"
            /\ UNCHANGED <<plan, retired>>
       ELSE conn' = "exited" /\ UNCHANGED ownership
    /\ UNCHANGED <<operation, asker, request, executor, native, completed>>

\* The emulator process has ended.
DependencyEnds ==
    /\ conn \in {"down", "idle"}
    /\ conn' = IF conn = "down" THEN "exited" ELSE "ending"
    /\ UNCHANGED <<ownership, current, broker, front, request, executor, native,
                   completed>>

\* End of file, a line that is no request, or a stamp that is not the one of
\* the attachment, while no request is in progress.
Disconnect ==
    /\ conn = "idle"
    /\ conn' = "closing"
    /\ UNCHANGED <<ownership, current, broker, front, request, executor, native,
                   completed>>

\* An event of another runtime or of another registration.
RefuseEvent ==
    /\ conn = "idle"
    /\ conn' = "ending"
    /\ UNCHANGED <<ownership, current, broker, front, request, executor, native,
                   completed>>

\* The broker's first attach: the direct attachment is given up, with all
\* that was begun under it, and then the broker's is taken.
BrokerAttach ==
    LET a == issued + 1 IN
    /\ conn = "idle"
    /\ ~broker
    /\ issued < MaxAttachments
    /\ issued' = a
    /\ LifecycleDetach(current, a, "idle")
    /\ current' = IF conn' = "idle" THEN a ELSE 0
    /\ broker' = (conn' = "idle")
    /\ UNCHANGED <<operation, asker, request, executor, completed>>

\* A later attach of the broker: a fresh one, or the one that is there.
AttachEvent(a) ==
    /\ conn = "idle"
    /\ broker
    /\ a \in {current, issued + 1} \ {0}
    /\ a <= MaxAttachments
    /\ issued' = IF a > issued THEN a ELSE issued
    /\ IF current \in {0, a} /\ CanAttach(a) /\ ~fatal
       THEN /\ attachment' = a
            /\ terminal' = IF attachment = a THEN terminal ELSE 0
            /\ current' = a
            /\ UNCHANGED <<plan, retired, conn>>
       ELSE conn' = "ending" /\ UNCHANGED <<ownership, current>>
    /\ UNCHANGED <<broker, operation, asker, request, executor, native, completed>>

\* A detach of the attachment; any other is ignored.
DetachEvent ==
    /\ conn = "idle"
    /\ broker
    /\ current # 0
    /\ LifecycleDetach(current, 0, "idle")
    /\ current' = 0
    /\ UNCHANGED <<broker, front, request, executor, completed>>

\* Mutant: the end of a connection leaves a parent to the next one.
CloseKeepsParent ==
    /\ conn \in {"closing", "ending"}
    /\ current' = 0
    /\ attachment' = 0
    /\ terminal' = 0
    /\ conn' = IF conn = "ending" THEN "exited" ELSE "down"
    /\ UNCHANGED <<plan, retired, broker, front, request, executor, native, completed>>

\* However the loop ended, what is attached is detached before the bridge
\* reconnects or exits.
Close ==
    /\ conn \in {"closing", "ending"}
    /\ current' = 0
    /\ IF current # 0
       THEN LifecycleDetach(current, 0, IF conn = "ending" THEN conn ELSE "down")
       ELSE /\ conn' = IF conn = "ending" THEN "exited" ELSE "down"
            /\ UNCHANGED <<ownership, native>>
    /\ UNCHANGED <<broker, front, request, executor, completed>>

-----------------------------------------------------------------------------
(* One request.                                                             *)

\* The operations that a front names: its newest one, or a fresh one.
Named == (IF asker = current /\ operation # 0 THEN {operation} ELSE {})
         \cup (IF operation < MaxOperations THEN {operation + 1} ELSE {})

\* The requests that handlers tell apart.
Requests ==
    [method : {"begin", "finish", "observe"}, key : Named, port : {0}]
    \cup [method : {"effect"}, key : Named, port : Ports \cup {0}]
    \cup [method : {"observe", "effect"}, key : {0}, port : {0}]

\* A request with the stamp of the attachment is handed to a worker.  It is
\* read along with the connection if it, or the parent, can be cancelled.
AcceptRequest ==
    /\ conn = "idle"
    /\ current # 0
    /\ \E r \in Requests :
        /\ method' = r.method /\ key' = r.key /\ port' = r.port
        /\ controlled' = (r.key # 0 \/ parent_key # 0)
        /\ IF r.key # 0 THEN operation' = r.key /\ asker' = current
                        ELSE UNCHANGED <<operation, asker>>
    /\ conn' = "working"
    /\ stage' = "start"
    /\ cancelled' = FALSE /\ detached' = FALSE /\ transport_error' = FALSE
    /\ UNCHANGED <<ownership, current, broker, issued, native, completed>>

Working(s) == conn = "working" /\ stage = s

\* begin_temporal_operation.
WorkBegin ==
    /\ Working("start")
    /\ method = "begin"
    /\ IF ~cancelled /\ ~fatal /\ CanBegin(current, key) THEN Begin(current, key)
                                                         ELSE UNCHANGED ownership
    /\ stage' = "reply"
    /\ UNCHANGED <<session, front, request, controlled, cancelled, detached,
                   transport_error, native, completed>>

\* finish_temporal_operation: the answer of an operation that is closed
\* already is given again, or its cleanup starts.
WorkFinish ==
    /\ Working("start")
    /\ method = "finish"
    /\ \/ /\ attachment = current /\ terminal = key
          /\ completed' = completed \cup {key}
          /\ stage' = "reply"
          /\ UNCHANGED ownership
       \/ /\ ~(attachment = current /\ terminal = key)
          /\ CanFinish(current, key)
          /\ StartCleanup
          /\ stage' = "cleanup"
          /\ UNCHANGED completed
       \/ /\ ~(attachment = current /\ terminal = key)
          /\ ~CanFinish(current, key)
          /\ stage' = "reply"
          /\ UNCHANGED <<ownership, completed>>
    /\ UNCHANGED <<session, front, request, controlled, cancelled, detached,
                   transport_error, native>>

WorkCleanup ==
    /\ Working("cleanup")
    /\ CleanParent(attachment)
    /\ completed' = IF fatal' THEN completed ELSE completed \cup {key}
    /\ stage' = "reply"
    /\ UNCHANGED <<attachment, session, front, request, controlled, cancelled, detached,
                   transport_error>>

\* handle_parent_request and the requests outside a parent, up to the native
\* call: what the parent is about to do is recorded first.
WorkAdmit ==
    /\ Working("start")
    /\ method \in {"effect", "observe"}
    /\ \/ /\ key # 0 /\ ~fatal /\ ~cancelled /\ Active(current, key)
          /\ IF method = "effect" THEN Record(port) ELSE UNCHANGED ownership
          /\ stage' = "native"
       \/ /\ key = 0 /\ Authorized(current, method = "observe")
          /\ stage' = "native"
          /\ UNCHANGED ownership
       \/ /\ IF key # 0 THEN fatal \/ cancelled \/ ~Active(current, key)
                        ELSE ~Authorized(current, method = "observe")
          /\ stage' = "reply"
          /\ UNCHANGED ownership
    /\ UNCHANGED <<session, front, request, controlled, cancelled, detached,
                   transport_error, native, completed>>

\* The native call, which may fail before or after its effect, and with it
\* native control.
WorkNative ==
    /\ Working("native")
    /\ fatal' \in {fatal, TRUE}
    /\ IF method = "effect"
       THEN /\ actor' = [att |-> current, key |-> key]
            /\ held' \in IF key = 0 \/ port = 0 THEN {held} 
                         ELSE {held, held \cup {port}, held \ {port}}
            /\ advancing' \in IF key = 0 \/ port # 0 THEN {advancing} ELSE BOOLEAN
       ELSE UNCHANGED <<actor, held, advancing>>
    /\ stage' = "reply"
    /\ UNCHANGED <<ownership, session, front, request, controlled, cancelled, detached,
                   transport_error, completed>>

-----------------------------------------------------------------------------
(* The executor, while the worker runs.                                     *)

Listening ==
    conn = "working" /\ controlled /\ ~transport_error /\ ~detached

\* cancel_operation for the operation in progress.
ReadCancel ==
    /\ Listening
    /\ cancelled' = TRUE
    /\ UNCHANGED <<ownership, session, front, request, stage, controlled, detached,
                   transport_error, native, completed>>

\* The detach of the attachment is kept until the worker is done.
ReadDetach ==
    /\ Listening
    /\ broker
    /\ cancelled' = TRUE
    /\ detached' = TRUE
    /\ UNCHANGED <<ownership, session, front, request, stage, controlled,
                   transport_error, native, completed>>

\* End of file, a line out of order, or a write that fails.
LoseTransport ==
    /\ conn = "working"
    /\ ~transport_error
    /\ detached => stage = "reply"
    /\ transport_error' = TRUE
    /\ cancelled' = (cancelled \/ controlled)
    /\ UNCHANGED <<ownership, session, front, request, stage, controlled, detached,
                   native, completed>>

\* Mutant: the detach that was read meanwhile is forgotten.
CompleteForgets ==
    /\ Working("reply")
    /\ stage' = "none"
    /\ conn' = IF fatal THEN "ending" ELSE IF transport_error THEN "closing" ELSE "idle"
    /\ UNCHANGED <<ownership, current, broker, front, request, controlled, cancelled,
                   detached, transport_error, native, completed>>

\* The worker is joined: a detach that was read meanwhile is applied, and then
\* a failed emulator or transport ends the session.
Complete ==
    LET after == IF transport_error THEN "closing" ELSE "idle" IN
    /\ Working("reply")
    /\ stage' = "none"
    /\ IF detached
       THEN LifecycleDetach(current, 0, after) /\ current' = 0
       ELSE /\ conn' = IF fatal THEN "ending" ELSE after
            /\ UNCHANGED <<ownership, native, current>>
    /\ UNCHANGED <<broker, front, request, controlled, cancelled, detached,
                   transport_error, completed>>

-----------------------------------------------------------------------------
Init ==
    /\ OwnershipInit
    /\ conn = "down" /\ current = 0 /\ broker = FALSE
    /\ issued = 0 /\ operation = 0 /\ asker = 0
    /\ method = "observe" /\ key = 0 /\ port = 0
    /\ stage = "none" /\ controlled = FALSE /\ cancelled = FALSE
    /\ detached = FALSE /\ transport_error = FALSE
    /\ fatal = FALSE /\ held = {} /\ advancing = FALSE
    /\ actor = [att |-> 0, key |-> 0]
    /\ completed = {}

Worker == WorkBegin \/ WorkFinish \/ WorkCleanup \/ WorkAdmit \/ WorkNative

Next ==
    \/ Connect \/ DependencyEnds \/ Disconnect \/ RefuseEvent
    \/ BrokerAttach \/ (\E a \in 1 .. MaxAttachments : AttachEvent(a)) \/ DetachEvent
    \/ Close \/ AcceptRequest
    \/ Worker
    \/ ReadCancel \/ ReadDetach \/ LoseTransport \/ Complete

Spec == Init /\ [][Next]_vars

\* A worker ends: its native calls have deadlines.  The session thread takes
\* what the worker sends and closes what has ended.  Nothing is assumed of
\* the front.
FairSpec == Spec /\ WF_vars(Worker) /\ WF_vars(Complete) /\ WF_vars(Close)

-----------------------------------------------------------------------------
(* Properties.                                                              *)

\* Every variable has its type, and an operation that is under way leaves no
\* closed one to answer for.
TypeOK ==
    /\ attachment \in Nat /\ parent_key \in Nat /\ parent_att \in Nat
    /\ input_ports \subseteq Ports
    /\ effects_started \in BOOLEAN /\ stopping \in BOOLEAN /\ retired \in BOOLEAN
    /\ terminal \in Nat /\ (parent_key # 0 => terminal = 0)
    /\ conn \in {"down", "idle", "working", "closing", "ending", "exited"}
    /\ current \in Nat /\ broker \in BOOLEAN
    /\ issued \in Nat /\ operation \in Nat /\ asker \in Nat
    /\ method \in {"begin", "finish", "effect", "observe"}
    /\ key \in Nat /\ port \in Ports \cup {0}
    /\ stage \in {"none", "start", "native", "cleanup", "reply"}
    /\ controlled \in BOOLEAN /\ cancelled \in BOOLEAN
    /\ detached \in BOOLEAN /\ transport_error \in BOOLEAN
    /\ fatal \in BOOLEAN /\ held \subseteq Ports /\ advancing \in BOOLEAN
    /\ actor \in [att : Nat, key : Nat]
    /\ completed \subseteq Nat

\* As long as requests are served, the route and the handler agree on who
\* owns the emulator: a request that the route lets pass is the owner's.
RouteAgrees == conn \in {"idle", "working"} => attachment = current

\* While native control is healthy, whatever parent operations hold pressed
\* or leave running is owed by the cleanup of the parent that there is: after
\* a cancellation, a detach, an end of file or a finish nothing is forgotten.
ParentObligations ==
    ~fatal => held \subseteq input_ports /\ (advancing => effects_started)

\* A bridge goes back to connecting only with an emulator that is free of its
\* last front: no owner, no parent, no pressed port, nothing left running.
\* (So the attach of the next front is never refused as busy.)
NothingLeft ==
    conn = "down" =>
        /\ ~fatal /\ ~retired
        /\ attachment = 0 /\ parent_key = 0
        /\ held = {} /\ ~advancing

\* A native effect is made only for the attachment that owns the producer,
\* under the parent if there is one, and never once its cleanup has begun.
EffectByOwner ==
    [][actor' # actor => /\ actor' = [att |-> attachment, key |-> parent_key]
                         /\ ~stopping /\ ~retired]_vars

\* An operation that a front was told is completed never begins again,
\* however begin and finish are repeated.
FinishedForGood == parent_key \notin completed

\* What a front is told is completed is cleaned up: nothing that a parent
\* pressed is held, nothing is left running.
CompletedVerified ==
    [][completed' # completed => parent_key' = 0 /\ held' = {} /\ ~advancing']_vars

\* The front of a parent is lost: its detach was read or its connection ended.
OwnerLost ==
    /\ parent_key # 0
    /\ \/ conn = "working" /\ (detached \/ transport_error)
       \/ conn \in {"closing", "ending"}

\* Once the front is lost the parent's inputs are released and the emulator
\* stops, or the bridge exits.
OwnerLossEnds ==
    OwnerLost ~> ((parent_key = 0 /\ held = {} /\ ~advancing) \/ conn = "exited")

\* A bridge whose native control has failed does not go on.
FatalEnds == fatal ~> conn = "exited"

\* Both together: neither a lost front nor failed native control leaves the
\* bridge serving with the emulator held (the serve loops of live/reconnect).
LostOrFailedEnds == OwnerLossEnds /\ FatalEnds
=============================================================================
