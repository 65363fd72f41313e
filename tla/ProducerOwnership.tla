------------------------- MODULE ProducerOwnership -------------------------
(***************************************************************************)
(* ProducerOwnership (src/live/temporal/owner.rs): which attachment owns a *)
(* producer, the one parent operation that may act on the emulator, what   *)
(* its cleanup owes, and the last operation that was closed.  The adapter  *)
(* is the only caller, so every method is one step; the operators here are *)
(* the methods, as guards and as conjuncts of the adapter's actions.       *)
(***************************************************************************)
EXTENDS Integers

CONSTANTS
    Ports   \* the input ports of the emulator

VARIABLES
    attachment,      \* the owning attachment, 0 if there is none
    parent_key,      \* the operation that is the parent, 0 if there is none
    parent_att,      \* its CleanupPlan: the attachment that began it,
    input_ports,     \*     the ports it may have pressed
    effects_started, \*     and whether it has acted at all
    stopping,        \* its obligations are frozen
    terminal,        \* the last operation closed under this attachment, or 0
    retired          \* a cleanup was not verified

plan == <<parent_key, parent_att, input_ports, effects_started, stopping>>

ownership == <<attachment, plan, terminal, retired>>

OwnershipInit ==
    /\ attachment = 0
    /\ parent_key = 0 /\ parent_att = 0
    /\ input_ports = {} /\ effects_started = FALSE /\ stopping = FALSE
    /\ terminal = 0
    /\ retired = FALSE

\* attach: an attachment may be given again, and taken only when it is free
\* and no operation of an earlier one is left.
CanAttach(a) ==
    ~retired /\ (attachment = a \/ (parent_key = 0 /\ attachment = 0))

\* Mutant: an operation that was closed may begin again.
CanBeginAgain(a, k) ==
    /\ ~retired
    /\ attachment = a
    /\ parent_key # 0 => parent_key = k /\ ~stopping

\* begin is idempotent for the parent itself and refuses an operation that
\* was just closed.
CanBegin(a, k) ==
    /\ ~retired
    /\ attachment = a
    /\ IF parent_key # 0 THEN parent_key = k /\ ~stopping ELSE terminal # k

Begin(a, k) ==
    IF parent_key # 0 THEN UNCHANGED ownership
    ELSE /\ parent_key' = k
         /\ parent_att' = a
         /\ input_ports' = {}
         /\ effects_started' = FALSE
         /\ stopping' = FALSE
         /\ terminal' = 0
         /\ UNCHANGED <<attachment, retired>>

\* active: what an effect or an observation of the parent must satisfy.
Active(a, k) ==
    ~retired /\ attachment = a /\ parent_key = k /\ ~stopping

\* Mutant: a request without a parent is never in the way of one.
AuthorizedAlways(a, observation) == ~retired /\ attachment = a

\* authorize_unscoped: beside a parent, others may only look.
Authorized(a, observation) ==
    ~retired /\ attachment = a /\ (parent_key # 0 => observation)

\* Mutant: an input attempt is noted as an effect and its port is forgotten.
RecordNoPort(port) ==
    /\ effects_started' = TRUE
    /\ UNCHANGED <<attachment, parent_key, parent_att, input_ports, stopping, terminal,
                   retired>>

\* record_effect (port 0) and record_input_attempt.
Record(port) ==
    /\ effects_started' = TRUE
    /\ input_ports' = IF port = 0 THEN input_ports ELSE input_ports \cup {port}
    /\ UNCHANGED <<attachment, parent_key, parent_att, stopping, terminal, retired>>

\* start_cleanup: an explicit finish freezes the obligations.
CanFinish(a, k) == ~retired /\ parent_key = k /\ parent_att = a

StartCleanup ==
    /\ stopping' = TRUE
    /\ UNCHANGED <<attachment, parent_key, parent_att, input_ports, effects_started,
                   terminal, retired>>

\* Mutant: the ports that were released are not compared with those owed.
VerifiedByStop(stopped, released) == effects_started => stopped

\* finish_cleanup's test of the evidence.
Verified(stopped, released) ==
    (effects_started => stopped) /\ released = input_ports

NoParent ==
    /\ parent_key' = 0 /\ parent_att' = 0
    /\ input_ports' = {} /\ effects_started' = FALSE /\ stopping' = FALSE

\* finish_cleanup of the parent, once it is stopping: the operation is closed
\* and remembered only if the attachment that began it is still the owner;
\* without the evidence native control is retired.  (While there is a parent
\* there is no terminal to keep: its begin has cleared it.)
FinishCleanup(stopped, released, owner) ==
    IF Verified(stopped, released)
    THEN /\ NoParent
         /\ terminal' = IF owner = parent_att THEN parent_key ELSE 0
         /\ UNCHANGED retired
    ELSE /\ retired' = TRUE
         /\ stopping' = TRUE
         /\ terminal' = 0
         /\ UNCHANGED <<parent_key, parent_att, input_ports, effects_started>>
=============================================================================
