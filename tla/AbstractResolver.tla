--------------------------- MODULE AbstractResolver ---------------------------
(***************************************************************************)
(* What a resolution session promises its caller, without the target     *)
(* program, the simulator or the decoding: the session keeps an account   *)
(* list and a 1-based round; while rounds remain, a round either extends  *)
(* the list (never truncating or rewriting it) and goes on, or ends the   *)
(* session with the list as the resolved result and the round it was     *)
(* reached in, or ends it with an error: a transport failure names the   *)
(* round, a reply the session cannot use (undecodable, or a kind it does  *)
(* not support) names none.  Once the rounds are used up the session     *)
(* ends with the exhaustion error, which names the limit.                 *)
(***************************************************************************)
EXTENDS Naturals, Sequences

CONSTANT Keys

\* The errors a round can end the session with: those reported with the
\* round, and those reported without one.
RoundErrors == {"SimulationFailed", "NoReturnData"}
BareErrors == {"Undecodable", "AccountUnsupported"}

VARIABLES
    accounts,   \* the accumulated account list
    round,      \* the current round
    limit,      \* the number of rounds allowed
    outcome     \* Running, or how the session ended

avars == <<accounts, round, limit, outcome>>

Querying == [status |-> "Running"]

Init ==
    /\ accounts = <<>>
    /\ round = 1
    /\ limit \in Nat
    /\ outcome = Querying

Open == outcome = Querying /\ round <= limit

\* A round extends the list and the session goes on.
Discover ==
    /\ Open
    /\ Len(accounts) <= Len(accounts')
    /\ \A i \in 1..Len(accounts) : accounts'[i] = accounts[i]
    /\ round' = round + 1
    /\ UNCHANGED <<limit, outcome>>

\* A round resolves the session with the accounts accumulated.
Resolve ==
    /\ Open
    /\ outcome' = [status |-> "Ok", groups |-> accounts, iterations |-> round]
    /\ UNCHANGED <<accounts, round, limit>>

\* A round fails the session.
Abort ==
    /\ Open
    /\ \/ \E e \in RoundErrors :
             outcome' = [status |-> "Err", error |-> e, iteration |-> round]
       \/ \E e \in BareErrors :
             outcome' = [status |-> "Err", error |-> e]
    /\ UNCHANGED <<accounts, round, limit>>

\* No round is left.
GiveUp ==
    /\ outcome = Querying
    /\ round > limit
    /\ outcome' = [status |-> "Err", error |-> "Exhausted", iteration |-> limit]
    /\ UNCHANGED <<accounts, round, limit>>

Next == Discover \/ Resolve \/ Abort \/ GiveUp

Spec == Init /\ [][Next]_avars

=============================================================================
