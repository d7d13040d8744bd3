------------------------- MODULE MCTerminalActivation -------------------------
(* Instances of TerminalActivation for TLC, with one history variable.     *)
EXTENDS TerminalActivation, FiniteSets, TLC

VARIABLE rivals  \* devices whose code two requests held verified at once

mcvars == <<vars, rivals>>

Verified(d) == {r \in Requests : txn[r].device = d /\ txn[r].pc = "verified"}

MCInit == Init /\ rivals = {}
MCNext == /\ Next
          /\ rivals' = rivals \cup {d \in Devices : (\E q, r \in Verified(d) : q # r)'}

MCSpec == MCInit /\ [][MCNext]_mcvars

(* ActivateTerminalDevice: a code is of single use, the challenge is marked *)
(* and deleted.  Two requests get a secret from one code only if both had  *)
(* compared it before either marked the challenge: not one after the       *)
(* other, and not after a refused request has saved the challenge that     *)
(* another one had deleted.                                                *)
SharedByRivalsOnly == \A d \in Devices \ rivals : Cardinality(given[d]) <= 1

(* Requests and devices are interchangeable.                               *)
Symmetry == Permutations(Requests) \cup Permutations(Devices)
=============================================================================
