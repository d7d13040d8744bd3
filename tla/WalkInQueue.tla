------------------------------ MODULE WalkInQueue ------------------------------
(***************************************************************************)
(* What the walk-in queue of a salon promises whoever watches its board,   *)
(* however the requests behind it interleave: tickets appear one by one    *)
(* with the next number of their salon, a hairdresser is put on a ticket   *)
(* only when no other ticket is in their hands, and only a ticket that had *)
(* a hairdresser is ever served.  The order of the statuses of one ticket  *)
(* is promised by TicketLifecycle.tla, which races break.                  *)
(***************************************************************************)
EXTENDS Naturals, FiniteSets

CONSTANTS TicketIds, Salons, Hairdressers, None

VARIABLE board  \* ticket -> what the committed row says of it

NotIssued == [salon |-> None, number |-> 0, status |-> "absent",
              hairdresser |-> None]

Issued      == {t \in TicketIds : board[t].status # "absent"}
IssuedBy(s) == {t \in Issued : board[t].salon = s}
InHandsOf(h) == {t \in Issued : /\ board[t].status = "in_progress"
                                /\ board[t].hairdresser = h}

Init == board = [t \in TicketIds |-> NotIssued]

Issue(t, s) ==
  /\ t \notin Issued
  /\ board' = [board EXCEPT ![t] =
       [salon |-> s, number |-> Cardinality(IssuedBy(s)) + 1,
        status |-> "waiting", hairdresser |-> None]]

TakeInCharge(t, h) ==
  /\ t \in Issued
  /\ InHandsOf(h) \subseteq {t}
  /\ board' = [board EXCEPT ![t].status = "in_progress", ![t].hairdresser = h]

Serve(t) ==
  /\ t \in Issued /\ board[t].hairdresser # None
  /\ board' = [board EXCEPT ![t].status = "done"]

GiveUp(t) ==
  /\ t \in Issued
  /\ board' = [board EXCEPT ![t].status = "expired"]

Next ==
  \E t \in TicketIds : \/ \E s \in Salons : Issue(t, s)
                       \/ \E h \in Hairdressers : TakeInCharge(t, h)
                       \/ Serve(t)
                       \/ GiveUp(t)

Spec == Init /\ [][Next]_board
=============================================================================
