-------------------------------- MODULE CashBook --------------------------------
(***************************************************************************)
(* What the till of a salon promises its owner: a payment appears at once  *)
(* with its receipt, the next of its salon, and with its line of the       *)
(* journal; a correction adds a line and marks the payment, and nothing    *)
(* that was written is changed.  How often a ticket is paid is not         *)
(* promised here.                                                          *)
(***************************************************************************)
EXTENDS Integers, FiniteSets, Sequences

CONSTANTS PaymentIds, Salons, Tickets, Amounts, Deltas, None

VARIABLES
  slips,   \* payment -> salon, ticket, amount and receipt
  lines    \* payment -> its lines of the journal

NoSlip == [salon |-> None, ticket |-> None, amount |-> 0, receipt |-> 0]

Recorded      == {p \in PaymentIds : lines[p] # <<>>}
RecordedBy(s) == {p \in Recorded : slips[p].salon = s}

Init ==
  /\ slips = [p \in PaymentIds |-> NoSlip]
  /\ lines = [p \in PaymentIds |-> <<>>]

Pay(p, s, t, n) ==
  /\ p \notin Recorded
  /\ slips' = [slips EXCEPT ![p] = [salon |-> s, ticket |-> t, amount |-> n,
                                    receipt |-> Cardinality(RecordedBy(s)) + 1]]
  /\ lines' = [lines EXCEPT ![p] = <<[kind |-> "PAYMENT", amount |-> n]>>]

Correct(p, d) ==
  /\ p \in Recorded
  /\ lines' = [lines EXCEPT ![p] = Append(@, [kind |-> "ADJUSTMENT", amount |-> d])]
  /\ UNCHANGED slips

Next ==
  \E p \in PaymentIds :
    \/ \E s \in Salons, t \in Tickets \cup {None}, n \in Amounts : Pay(p, s, t, n)
    \/ \E d \in Deltas : Correct(p, d)

Spec == Init /\ [][Next]_<<slips, lines>>
=============================================================================
