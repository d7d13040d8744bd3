------------------------------- MODULE MCSignIn -------------------------------
(* Instances of SignIn for TLC, with history variables.                    *)
EXTENDS SignIn, TLC

CONSTANTS i1, a1

VARIABLES
  desk,     \* what the requests of this behaviour do: see OneDesk
  crowded,  \* keys of a limiter that two requests used at once
  tried,    \* key -> the failures of the window, while it is not crowded
  muddled,  \* identifiers whose newest code was requested amid something else
  rivals,   \* challenges that two confirmations held compared at once
  tally     \* challenge -> comparisons that succeeded and failed

history == <<desk, crowded, tried, muddled, rivals, tally>>
mcvars  == <<vars, history>>

OneHolder == i1 :> a1

MCInit ==
  /\ Init
  /\ desk \in {{"login"}, {"request", "confirm"}}
  /\ crowded = {} /\ muddled = {} /\ rivals = {}
  /\ tried = [k \in Keys |-> {}]
  /\ tally = [c \in Challenges |-> [right |-> 0, wrong |-> 0]]

On(k)          == {r \in Requests : txn[r].op = k[1] /\ txn[r].id = k[2]}
Requesting(i)  == On(<<"request", i>>)
Resetting(i)   == Requesting(i) \cup On(<<"confirm", i>>)
Held(c)        == {r \in Requests : txn[r].otp = c /\ txn[r].pc \in {"matched", "missed"}}
Several(S)     == \E q, r \in S : q # r
One(happens)   == IF happens THEN 1 ELSE 0
Turns(pc, r)   == txn[r].pc # pc /\ txn'[r].pc = pc
FailsOn(k)     == \E r \in Requests : Turns("failed", r) /\ Key(r) = k
SucceedsOn(k)  == \E r \in Requests : Turns("known", r) /\ Key(r) = k

(* A request moves, or the clock does.                                     *)
Follow ==
  /\ crowded' = crowded \cup {k \in Keys : Several(On(k))'}
  /\ tried' = [k \in Keys |->
       IF k \in crowded' \/ SucceedsOn(k) THEN {}
       ELSE IF FailsOn(k) THEN Failing(InWindow(tried[k], now), now)
       ELSE InWindow(tried[k], now')]
  /\ muddled' = muddled \cup {i \in Identifiers :
       (Requesting(i) # {} /\ Several(Resetting(i)))'}
  /\ rivals' = rivals \cup {c \in Challenges : Several(Held(c))'}
  /\ tally' = [c \in Challenges |->
       IF c \in rivals' THEN [right |-> 0, wrong |-> 0]
       ELSE [right |-> tally[c].right + One(\E r \in Held(c)' : Turns("matched", r)),
             wrong |-> tally[c].wrong + One(\E r \in Held(c)' : Turns("missed", r))]]

(* The memory of the process is lost, and what it counted with it.         *)
Forget ==
  /\ tried' = [k \in Keys |-> {}]
  /\ muddled' = Identifiers
  /\ UNCHANGED <<crowded, rivals, tally>>

(* Log-ins and resets share nothing but the hash, which a log-in only      *)
(* reads: what it submits may be right or wrong at any time.  A behaviour  *)
(* has requests of one kind.                                               *)
OneDesk == desk' = desk /\ \A r \in Requests : txn'[r].op \in desk \cup {"none"}

MCNext == ((Moves \/ Tick) /\ Follow /\ OneDesk) \/ (Restart /\ Forget /\ OneDesk)

MCSpec == MCInit /\ [][MCNext]_mcvars

(* Requests and challenges are interchangeable.                            *)
Symmetry == Permutations(Requests) \cup Permutations(Challenges)

-----------------------------------------------------------------------------
(* The limiter keeps its word to requests that do not overlap: between two *)
(* successes a key fails at most MaxFailures times within a window,        *)
(* whatever locks expire meanwhile.  It cannot to requests that do: each   *)
(* copies the list of failures and writes its copy back, or removes as     *)
(* expired a lock that is new (login_rate_limiter_memory.py).              *)
FailuresBounded == \A k \in Keys \ crowded : Cardinality(InWindow(tried[k], now)) <= MaxFailures

(* The last code that was sent works: once nothing runs for an identifier, *)
(* the challenge in the store is the one whose code went out last, unless  *)
(* it was used.  Not so when a request for a code met another request or   *)
(* a confirmation, which saves or deletes under the same key whatever it   *)
(* holds (password_reset.py, "une nouvelle demande ecrase le defi          *)
(* precedent").                                                            *)
LastCodeWorks ==
  \A i \in Identifiers \ muddled :
    sent[i] # None /\ (\A r \in Requests : ~(txn[r].op \in {"request", "confirm"}
                                             /\ txn[r].id = i))
    => store[i] = sent[i] \/ otp[sent[i]].consumed

(* A code is of single use and its guesses are counted: confirmations that *)
(* were not compared at once spend a challenge once and miss it at most    *)
(* MaxGuesses times, even if refused ones save a challenge back that       *)
(* another deleted.                                                        *)
CodeServesOnce ==
  \A c \in Challenges : tally[c].right <= 1 /\ tally[c].wrong <= MaxGuesses
=============================================================================
