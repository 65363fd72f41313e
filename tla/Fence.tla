------------------------------- MODULE Fence -------------------------------
(***************************************************************************)
(* The response fence of the connection broker (src/live/broker.rs).       *)
(*                                                                         *)
(* Every frontend numbers its requests from 1, so two frontends that are   *)
(* paired with one emulator one after the other use the same numbers.  The *)
(* broker puts the generation of the session in the bits above the id of a *)
(* request, and gives a response to the session of the moment only if the  *)
(* bits of its id are those of that session.                               *)
(*                                                                         *)
(* The code's widths are IdSpace = 2^32 (FENCE_ORIG_MASK + 1) and          *)
(* FieldSpace = 2^20 (FENCE_GEN_MASK + 1); the masks and shifts of the     *)
(* code are the remainders and quotients below.                            *)
(***************************************************************************)
EXTENDS Integers

CONSTANTS IdSpace, FieldSpace

ASSUME FenceAssumption ==
    /\ IdSpace \in Nat /\ IdSpace > 0
    /\ FieldSpace \in Nat /\ FieldSpace > 1

\* The field of a generation: 1-based, so that no generation has field 0,
\* the field of an id that the broker did not stamp.
FenceGenField(gen) == (gen % (FieldSpace - 1)) + 1

FencePack(gen, orig) == FenceGenField(gen) * IdSpace + (orig % IdSpace)

FenceGen(packed) == (packed \div IdSpace) % FieldSpace

FenceOrig(packed) == packed % IdSpace

\* Mutant: no fence.
FenceAdmitsAll(id, gen) == TRUE

\* fence_incoming: whether a line with this id goes to a session of this
\* generation, and the id that the session then reads.
FenceAdmits(id, gen) == FenceGen(id) \in {0, FenceGenField(gen)}

FenceRestore(id) == IF FenceGen(id) = 0 THEN id ELSE FenceOrig(id)
=============================================================================
