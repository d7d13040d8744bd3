------------------------------ MODULE MCPayments ------------------------------
(* Instances of Payments for TLC.                                          *)
EXTENDS Payments, TLC

CONSTANTS s1, s2, t1, a, b

(* One salon, one ticket for a service.                                    *)
OneSalon   == [x \in {t1, a} |-> s1]
OneService == [t \in {t1} |-> {a}]

(* A second salon, whose service is paid without a ticket.                 *)
TwoSalons  == (t1 :> s1) @@ (a :> s1) @@ (b :> s2)

(* The catalogue of the second salon does not move: it is there for the    *)
(* receipts, which each salon numbers under a lock of its own.             *)
MCNext ==
  \/ \E r \in Requests : Receive(r) \/ Serve(r) \/ Abort(r)
  \/ (\E n \in Prices : SetPrice(a, n)) \/ SetActive(a)

MCSpec == Init /\ [][MCNext]_vars

Symmetry == Permutations(Requests) \cup Permutations(PaymentIds)
=============================================================================
