-------------------------- MODULE AttachmentStream --------------------------
(***************************************************************************)
(* What the broker promises a producer that opts in to control-session     *)
(* lifecycle events (src/live/control_session.rs): the lines it reads are  *)
(* a succession of attachments, each with an identity that was never used  *)
(* before, each opened and closed by an event, and every request carries   *)
(* the identity of the attachment that is open.                            *)
(***************************************************************************)
EXTENDS Naturals

CONSTANTS Producers, Gens

VARIABLES
    owner,  \* the open attachment of each producer, 0 for none
    epoch,  \* the largest attachment it has seen
    last    \* the attachment of the last request it has read

Init ==
    /\ owner = [p \in Producers |-> 0]
    /\ epoch = [p \in Producers |-> 0]
    /\ last = [p \in Producers |-> 0]

Open(p) ==
    /\ owner[p] = 0
    /\ \E g \in Gens : /\ g > epoch[p]
                       /\ owner' = [owner EXCEPT ![p] = g]
                       /\ epoch' = [epoch EXCEPT ![p] = g]
    /\ UNCHANGED last

Use(p) ==
    /\ owner[p] # 0
    /\ last' = [last EXCEPT ![p] = owner[p]]
    /\ UNCHANGED <<owner, epoch>>

Close(p) ==
    /\ owner[p] # 0
    /\ owner' = [owner EXCEPT ![p] = 0]
    /\ UNCHANGED <<epoch, last>>

Next == \E p \in Producers : Open(p) \/ Use(p) \/ Close(p)

Spec == Init /\ [][Next]_<<owner, epoch, last>>
=============================================================================
