------------------------------ MODULE Resolver ------------------------------
(***************************************************************************)
(* The client loop resolve_execute_vaa_v1 of                              *)
(* crates/wormhole-svm-test/src/resolver.rs.                               *)
(*                                                                         *)
(* One call of the function is one session.  Each loop iteration builds   *)
(* the resolver instruction with the accounts accumulated so far,         *)
(* simulates it, decodes the return data and dispatches on the outcome:   *)
(* Resolved returns, Missing appends the reported accounts (placeholders  *)
(* for the payer and the guardian set substituted), Account() and every   *)
(* decoding or simulation failure return an error.  When the loop runs    *)
(* out of iterations the function returns the exhaustion error.  One loop *)
(* iteration, which is synchronous, is one atomic step of the model.      *)
(*                                                                         *)
(* The target program is the environment.  It is modelled as a staged-    *)
(* discovery resolver: a pure function of the account list it is given.   *)
(* It needs the accounts program.required and asks for them in batches:   *)
(* it counts the accounts it has been given, n, and asks for the ones at  *)
(* positions n+1 .. program.next[n]; program.rounds is the number of      *)
(* simulations it takes to resolve (more than any budget explored if it   *)
(* never does).  A simulation can also                                    *)
(* fail, return no data, return undecodable data or return Account(), as  *)
(* the set Faults allows, and it always fails once the transaction        *)
(* carries more than TxAccountLimit instruction accounts.                 *)
(***************************************************************************)
EXTENDS Naturals, Sequences, SequencesExt, FiniteSets

CONSTANTS
    Keys,              \* account addresses
    PAYER_PH,          \* RESOLVER_PUBKEY_PAYER
    GUARDIAN_SET_PH,   \* RESOLVER_PUBKEY_GUARDIAN_SET
    SHIM_VAA_SIGS_PH,  \* RESOLVER_PUBKEY_SHIM_VAA_SIGS
    Payer,             \* payer.pubkey()
    GuardianSet,       \* the guardian_set argument
    MaxIterationsBound,\* largest max_iterations argument explored
    TxAccountLimit,    \* accounts a simulated transaction can carry
    Programs,          \* the target programs explored
    Faults             \* the failures the environment may inject

ASSUME KeysAssumption ==
    /\ {PAYER_PH, GUARDIAN_SET_PH, SHIM_VAA_SIGS_PH, Payer, GuardianSet} \subseteq Keys
    /\ PAYER_PH # GUARDIAN_SET_PH
    /\ Payer # PAYER_PH /\ Payer # GUARDIAN_SET_PH
    /\ GuardianSet # PAYER_PH /\ GuardianSet # GUARDIAN_SET_PH

ASSUME BoundsAssumption ==
    MaxIterationsBound \in Nat /\ TxAccountLimit \in Nat

\* The discovery of program p: c[k] is the number of accounts the program
\* has been given at its (k+1)-th simulation when every earlier one was
\* answered Missing; before the rounds-th, it is still missing some.
Discovery(p, c) ==
    /\ c \in [0..(p.rounds - 1) -> 0..Len(p.required)]
    /\ c[0] = 0
    /\ \A k \in 0..(p.rounds - 2) :
          c[k] < Len(p.required) /\ c[k + 1] = p.next[c[k]]

\* A program needs the accounts `required`; having been given n of them it
\* asks for the next batch, which ends at position next[n] (a program with
\* next[n] = n answers Missing with no account and makes no progress).
\* It resolves on its rounds-th simulation, when its discovery then has
\* every account; a program that never resolves within any budget explored
\* has rounds past MaxIterationsBound.
ASSUME ProgramsAssumption ==
    \A p \in Programs :
        /\ p.required \in Seq(Keys)
        /\ p.next \in [0..(Len(p.required) - 1) -> 0..Len(p.required)]
        /\ \A n \in 0..(Len(p.required) - 1) : p.next[n] >= n
        /\ p.rounds \in Nat \ {0}
        /\ \E c \in [0..(p.rounds - 1) -> 0..Len(p.required)] :
              /\ Discovery(p, c)
              /\ c[p.rounds - 1] = Len(p.required) \/ p.rounds > MaxIterationsBound

FaultKinds == {"SimulationFailed", "NoReturnData", "Undecodable", "Account"}

ASSUME FaultsAssumption == Faults \subseteq FaultKinds

\* The errors whose message names the iteration they happened in, and the
\* ones whose message names none.
RoundErrors == {"SimulationFailed", "NoReturnData"}
BareErrors == {"Undecodable", "AccountUnsupported"}

VARIABLES
    program,        \* the target program of this session (fixed)
    maxIterations,  \* the max_iterations argument
    iteration,      \* the loop variable `iteration`
    remaining,      \* remaining_accounts
    sent,           \* history: the account list of every simulation so far
    result          \* what the call has returned, or Running

vars == <<program, maxIterations, iteration, remaining, sent, result>>

Running == [status |-> "Running"]

-----------------------------------------------------------------------------
(* The environment: what one simulation with account list accs returns.   *)

ProgramAnswer(p, accs) ==
    IF Len(accs) >= Len(p.required)
    THEN [tag |-> "Resolved", groups |-> accs]
    ELSE [tag |-> "Missing",
          accounts |-> SubSeq(p.required, Len(accs) + 1, p.next[Len(accs)])]

Outcomes(p, accs) ==
    IF Len(accs) > TxAccountLimit
    THEN {[tag |-> "SimulationFailed"]}
    ELSE {ProgramAnswer(p, accs)} \cup {[tag |-> f] : f \in Faults}

-----------------------------------------------------------------------------
(* The client.                                                             *)

\* Mutant: the guardian-set placeholder is forgotten and left as-is.
substitute_placeholder_NoGuardianSet(k) ==
    IF k = PAYER_PH THEN Payer ELSE k

\* substitute_placeholder: the payer and guardian-set placeholders are
\* replaced, every other key (RESOLVER_PUBKEY_SHIM_VAA_SIGS included) is kept.
substitute_placeholder(k) ==
    IF k = PAYER_PH THEN Payer
    ELSE IF k = GUARDIAN_SET_PH THEN GuardianSet
    ELSE k

\* The accounts pushed for one Missing answer, in the order reported.
Substituted(missing) == [i \in 1..Len(missing) |-> substitute_placeholder(missing[i])]

Init ==
    /\ program \in Programs
    /\ maxIterations \in 0..MaxIterationsBound
    /\ iteration = 1
    /\ remaining = <<>>
    /\ sent = <<>>
    /\ result = Running

\* Mutant: the loop runs one iteration too many (1..=max_iterations + 1).
Simulated_OneExtra(r) ==
    /\ result = Running
    /\ iteration <= maxIterations + 1
    /\ r \in Outcomes(program, remaining)
    /\ sent' = Append(sent, remaining)

\* The loop body runs while the call has not returned and
\* iteration <= max_iterations; it simulates with the accumulated accounts
\* and the answer is r.
Simulated(r) ==
    /\ result = Running
    /\ iteration <= maxIterations
    /\ r \in Outcomes(program, remaining)
    /\ sent' = Append(sent, remaining)

\* Mutant: the error names the iteration zero-based.
FailInRound_ZeroBased(error) ==
    /\ result' = [status |-> "Err", error |-> error, iteration |-> iteration - 1]
    /\ UNCHANGED <<program, maxIterations, iteration, remaining>>

\* The call returns an error whose message names the iteration.
FailInRound(error) ==
    /\ result' = [status |-> "Err", error |-> error, iteration |-> iteration]
    /\ UNCHANGED <<program, maxIterations, iteration, remaining>>

\* The call returns an error whose message names no iteration.
FailBare(error) ==
    /\ result' = [status |-> "Err", error |-> error]
    /\ UNCHANGED <<program, maxIterations, iteration, remaining>>

\* simulate_transaction returned an error (the map_err ... ? after it).
SimulationError ==
    Simulated([tag |-> "SimulationFailed"]) /\ FailInRound("SimulationFailed")

\* return_data.data is empty.
NoReturnData ==
    Simulated([tag |-> "NoReturnData"]) /\ FailInRound("NoReturnData")

\* AnchorDeserialize::deserialize failed: "Failed to deserialize resolver
\* return data: {}" carries the decoder's error, not the iteration.
DeserializeError ==
    Simulated([tag |-> "Undecodable"]) /\ FailBare("Undecodable")

\* Resolver::Account() is not supported by the helper; the message is a
\* fixed string.
AccountUnsupported ==
    Simulated([tag |-> "Account"]) /\ FailBare("AccountUnsupported")

\* Mutant: a zero-based round count is reported.
Resolved_ZeroBased ==
    \E r \in Outcomes(program, remaining) :
        /\ r.tag = "Resolved"
        /\ Simulated(r)
        /\ result' = [status |-> "Ok", groups |-> r.groups, iterations |-> iteration - 1]
        /\ UNCHANGED <<program, maxIterations, iteration, remaining>>

\* Resolver::Resolved(groups): return Ok with the groups and the iteration.
Resolved ==
    \E r \in Outcomes(program, remaining) :
        /\ r.tag = "Resolved"
        /\ Simulated(r)
        /\ result' = [status |-> "Ok", groups |-> r.groups, iterations |-> iteration]
        /\ UNCHANGED <<program, maxIterations, iteration, remaining>>

\* Resolver::Missing: push every reported account, substituted, and go on
\* with the next iteration.
Missing ==
    \E r \in Outcomes(program, remaining) :
        /\ r.tag = "Missing"
        /\ Simulated(r)
        /\ remaining' = remaining \o Substituted(r.accounts)
        /\ iteration' = iteration + 1
        /\ UNCHANGED <<program, maxIterations, result>>

\* Mutant: the loop is given up one iteration early.
Exhausted_Early ==
    /\ result = Running
    /\ iteration >= maxIterations
    /\ result' = [status |-> "Err", error |-> "Exhausted", iteration |-> maxIterations]
    /\ UNCHANGED <<program, maxIterations, iteration, remaining, sent>>

\* The for loop ended without a Resolved answer.
Exhausted ==
    /\ result = Running
    /\ iteration > maxIterations
    /\ result' = [status |-> "Err", error |-> "Exhausted", iteration |-> maxIterations]
    /\ UNCHANGED <<program, maxIterations, iteration, remaining, sent>>

Next ==
    \/ SimulationError
    \/ NoReturnData
    \/ DeserializeError
    \/ AccountUnsupported
    \/ Resolved
    \/ Missing
    \/ Exhausted

Spec == Init /\ [][Next]_vars

-----------------------------------------------------------------------------
(* Properties.                                                             *)

Results ==
    {Running}
    \cup [status : {"Ok"}, groups : Seq(Keys), iterations : 1..MaxIterationsBound]
    \cup [status : {"Err"}, error : RoundErrors \cup {"Exhausted"},
          iteration : 0..MaxIterationsBound]
    \cup [status : {"Err"}, error : BareErrors]

\* Every variable has its type; the loop counter never passes
\* max_iterations + 1.
TypeOK ==
    /\ program \in Programs
    /\ maxIterations \in 0..MaxIterationsBound
    /\ iteration \in 1..(maxIterations + 1)
    /\ remaining \in Seq(Keys)
    /\ sent \in Seq(Seq(Keys))
    /\ result \in Results

\* The accumulated accounts (remaining_accounts) are always exactly the
\* accounts the program has asked for so far, in the order it asked for
\* them: the payer and guardian-set placeholders replaced by the payer's
\* key and the guardian set, every other key (the signatures placeholder
\* included) as asked, and nothing dropped or duplicated.
AccumulatedIsRequestedPrefix ==
    /\ Len(remaining) <= Len(program.required)
    /\ \A i \in 1..Len(remaining) :
          LET asked == program.required[i] IN
          /\ asked = PAYER_PH => remaining[i] = Payer
          /\ asked = GUARDIAN_SET_PH => remaining[i] = GuardianSet
          /\ asked \notin {PAYER_PH, GUARDIAN_SET_PH} => remaining[i] = asked

\* What resolve_execute_vaa_v1 returns agrees with the rounds it ran: Ok
\* carries the program's answer to a simulation that supplied every account
\* the program needs, and an iteration count equal to the number of
\* simulations, which is the number of rounds the program needs; an error
\* that names an iteration (simulation failure, no return data) names the
\* simulation that failed, the last one run; the exhaustion error comes
\* only after max_iterations simulations and only when the program needs
\* more.
ResolutionOutcome ==
    /\ Len(sent) <= maxIterations
    /\ result.status = "Ok" =>
          /\ result.groups = remaining
          /\ Len(remaining) = Len(program.required)
          /\ result.iterations = Len(sent)
          /\ result.iterations = program.rounds
    /\ (result.status = "Err" /\ result.error \in RoundErrors) =>
          result.iteration = Len(sent)
    /\ (result.status = "Err" /\ result.error = "Exhausted") =>
          /\ Len(sent) = maxIterations
          /\ maxIterations < program.rounds

\* Spec section 7: every fatal error of a resolution attempt reaches the
\* caller "as a terminal failure with round context".  The decode error
\* and the Account() error of resolve_execute_vaa_v1 carry none.
ErrorsCarryRound ==
    result.status = "Err" => "iteration" \in DOMAIN result

\* The session as its caller sees it: the accumulated accounts, the loop
\* counter, the budget and the result.
Abstract == INSTANCE AbstractResolver
                WITH accounts <- remaining, round <- iteration,
                     limit <- maxIterations, outcome <- result

\* resolve_execute_vaa_v1 implements the abstract resolution session: each
\* iteration extends remaining_accounts, or returns Ok with exactly those
\* accounts and the iteration, or an error that names the iteration
\* (simulation, return data) or names none (decoding, Account()); the
\* exhaustion error comes only once every iteration has run.
ImplementsAbstract == Abstract!Spec

=============================================================================
