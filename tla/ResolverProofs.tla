--------------------------- MODULE ResolverProofs ---------------------------
(***************************************************************************)
(* Proofs about the resolver loop of Resolver: the type invariant, and    *)
(* that the accumulated accounts are always the substituted prefix of the *)
(* accounts the program asks for, for every program, key set and bound,   *)
(* and that the loop implements the abstract resolution session.         *)
(***************************************************************************)
EXTENDS Resolver, SequenceTheorems, TLAPS

\* substitute_placeholder maps keys to keys, so a substituted list is a
\* list of keys of the same length whose i-th key is the substitute of the
\* i-th reported one.
LEMMA SubstitutedType ==
    ASSUME NEW s \in Seq(Keys)
    PROVE  /\ Substituted(s) \in Seq(Keys)
           /\ Len(Substituted(s)) = Len(s)
           /\ \A i \in 1..Len(s) : Substituted(s)[i] = substitute_placeholder(s[i])
<1>1. \A k \in Keys : substitute_placeholder(k) \in Keys
    BY KeysAssumption DEF substitute_placeholder
<1>2. QED
    BY <1>1 DEF Substituted

\* What ProgramsAssumption says of one program.
LEMMA ProgramShape ==
    ASSUME NEW p \in Programs
    PROVE  /\ p.required \in Seq(Keys)
           /\ p.next \in [0..(Len(p.required) - 1) -> 0..Len(p.required)]
           /\ \A n \in 0..(Len(p.required) - 1) : p.next[n] >= n
           /\ p.rounds \in Nat \ {0}
BY ProgramsAssumption

\* Every program's rounds count its discovery.
LEMMA ProgramDiscovery ==
    ASSUME NEW p \in Programs
    PROVE  \E c \in [0..(p.rounds - 1) -> 0..Len(p.required)] :
              /\ Discovery(p, c)
              /\ c[p.rounds - 1] = Len(p.required) \/ p.rounds > MaxIterationsBound
BY ProgramsAssumption

\* What a simulation can answer: Resolved only when every required account
\* was given, and then with those accounts; Missing only when some are
\* still lacking, and then with the next batch.
LEMMA OutcomeCases ==
    ASSUME NEW p \in Programs, NEW accs \in Seq(Keys), NEW r \in Outcomes(p, accs)
    PROVE  /\ r.tag = "Resolved" => /\ r.groups = accs
                                   /\ Len(accs) >= Len(p.required)
           /\ r.tag = "Missing" =>
                 /\ Len(accs) < Len(p.required)
                 /\ r.accounts = SubSeq(p.required, Len(accs) + 1, p.next[Len(accs)])
<1>1. \A f \in Faults : f \notin {"Resolved", "Missing"}
    BY FaultsAssumption DEF FaultKinds
<1>2. QED
    BY <1>1 DEF Outcomes, ProgramAnswer

\* A Missing answer to n accounts is the batch of required keys at
\* positions n+1 .. next[n], a (possibly empty) list of keys that ends
\* within the required list.
LEMMA MissingBatch ==
    ASSUME NEW p \in Programs, NEW accs \in Seq(Keys), NEW r \in Outcomes(p, accs),
           r.tag = "Missing"
    PROVE  LET n == Len(accs)
               c == p.next[n]
           IN  /\ c \in n..Len(p.required)
               /\ r.accounts \in Seq(Keys)
               /\ Len(r.accounts) = c - n
               /\ \A i \in 1..(c - n) : r.accounts[i] = p.required[n + i]
<1> DEFINE n == Len(accs)
           c == p.next[n]
<1>1. /\ n < Len(p.required)
      /\ r.accounts = SubSeq(p.required, n + 1, c)
    BY OutcomeCases
<1>2. /\ p.required \in Seq(Keys)
      /\ c \in 0..Len(p.required)
      /\ c >= n
    BY <1>1, ProgramShape
<1>3. \A i \in (n + 1)..c : p.required[i] \in Keys
    BY <1>2
<1>4. /\ SubSeq(p.required, n + 1, c) \in Seq(Keys)
      /\ Len(SubSeq(p.required, n + 1, c)) = c - n
      /\ \A i \in 1..(c - n) : SubSeq(p.required, n + 1, c)[i] = p.required[n + i]
    <2>1. n + 1 \in Int /\ c \in Int
        BY <1>2
    <2>2. QED
        BY <1>2, <1>3, <2>1, SubSeqProperties
<1>5. QED
    BY <1>1, <1>2, <1>4

-----------------------------------------------------------------------------

\* substitute_placeholder does what the resolver's documentation says.
LEMMA SubstituteSpec ==
    ASSUME NEW k
    PROVE  /\ k = PAYER_PH => substitute_placeholder(k) = Payer
           /\ k = GUARDIAN_SET_PH => substitute_placeholder(k) = GuardianSet
           /\ k \notin {PAYER_PH, GUARDIAN_SET_PH} => substitute_placeholder(k) = k
BY KeysAssumption DEF substitute_placeholder

-----------------------------------------------------------------------------

\* Every step of the loop keeps every variable in its type.
LEMMA TypeOKStep == TypeOK /\ [Next]_vars => TypeOK'
<1> SUFFICES ASSUME TypeOK, [Next]_vars PROVE TypeOK'
    OBVIOUS
<1> USE DEF TypeOK
<1>a. program \in Programs
    OBVIOUS
<1>b. maxIterations \in Nat /\ MaxIterationsBound \in Nat
    BY BoundsAssumption
<1>c. Results' = Results
    BY DEF Results, Running
<1>1. ASSUME NEW e \in RoundErrors, FailInRound(e), sent' \in Seq(Seq(Keys)),
             iteration <= maxIterations
      PROVE  TypeOK'
    BY <1>1, <1>b, <1>c DEF FailInRound, Results
<1>0. ASSUME NEW e \in BareErrors, FailBare(e), sent' \in Seq(Seq(Keys))
      PROVE  TypeOK'
    BY <1>0, <1>c DEF FailBare, Results
<1>2. CASE SimulationError
    BY <1>2, <1>1 DEF SimulationError, Simulated, RoundErrors
<1>3. CASE NoReturnData
    BY <1>3, <1>1 DEF NoReturnData, Simulated, RoundErrors
<1>4. CASE DeserializeError
    BY <1>4, <1>0 DEF DeserializeError, Simulated, BareErrors
<1>5. CASE AccountUnsupported
    BY <1>5, <1>0 DEF AccountUnsupported, Simulated, BareErrors
<1>6. CASE Resolved
    <2>1. PICK r \in Outcomes(program, remaining) :
             /\ r.tag = "Resolved"
             /\ Simulated(r)
             /\ result' = [status |-> "Ok", groups |-> r.groups, iterations |-> iteration]
             /\ UNCHANGED <<program, maxIterations, iteration, remaining>>
        BY <1>6 DEF Resolved
    <2>2. r.groups = remaining
        BY <2>1, <1>a, OutcomeCases
    <2>3. QED
        BY <2>1, <2>2, <1>b, <1>c DEF Simulated, Results
<1>7. CASE Missing
    <2>1. PICK r \in Outcomes(program, remaining) :
             /\ r.tag = "Missing"
             /\ Simulated(r)
             /\ remaining' = remaining \o Substituted(r.accounts)
             /\ iteration' = iteration + 1
             /\ UNCHANGED <<program, maxIterations, result>>
        BY <1>7 DEF Missing
    <2>2. r.accounts \in Seq(Keys)
        BY <2>1, <1>a, MissingBatch
    <2>3. Substituted(r.accounts) \in Seq(Keys)
        BY <2>2, SubstitutedType
    <2>4. remaining' \in Seq(Keys)
        BY <2>1, <2>3, ConcatProperties
    <2>5. sent' \in Seq(Seq(Keys))
        BY <2>1 DEF Simulated
    <2>6. QED
        BY <2>1, <2>4, <2>5, <1>b, <1>c DEF Simulated
<1>8. CASE Exhausted
    BY <1>8, <1>b, <1>c DEF Exhausted, Results, RoundErrors
<1>9. CASE UNCHANGED vars
    BY <1>9 DEF vars
<1>10. QED
    BY <1>2, <1>3, <1>4, <1>5, <1>6, <1>7, <1>8, <1>9 DEF Next

\* Type correctness of the resolver loop.
THEOREM TypeCorrect == Spec => []TypeOK
<1>1. Init => TypeOK
    BY BoundsAssumption DEF Init, TypeOK, Results, Running
<1>2. QED
    BY <1>1, TypeOKStep, PTL DEF Spec

-----------------------------------------------------------------------------
(* The accumulated accounts.  AccumulatedIsRequestedPrefix is inductive   *)
(* once the types are known: only Missing changes remaining_accounts, and *)
(* it appends the substituted batch that starts right after the accounts  *)
(* already given.                                                          *)

IInv == TypeOK /\ AccumulatedIsRequestedPrefix

\* The per-position contract of AccumulatedIsRequestedPrefix.
SubstOK(asked, got) ==
    /\ asked = PAYER_PH => got = Payer
    /\ asked = GUARDIAN_SET_PH => got = GuardianSet
    /\ asked \notin {PAYER_PH, GUARDIAN_SET_PH} => got = asked

LEMMA PrefixUnfold ==
    AccumulatedIsRequestedPrefix <=>
        /\ Len(remaining) <= Len(program.required)
        /\ \A i \in 1..Len(remaining) : SubstOK(program.required[i], remaining[i])
BY DEF AccumulatedIsRequestedPrefix, SubstOK

\* A Missing step appends the substituted batch and keeps the invariant.
LEMMA MissingKeepsPrefix ==
    ASSUME IInv, Missing
    PROVE  (AccumulatedIsRequestedPrefix)'
<1>0. TypeOK /\ AccumulatedIsRequestedPrefix
    BY DEF IInv
<1> USE <1>0 DEF TypeOK
<1>1. PICK r \in Outcomes(program, remaining) :
         /\ r.tag = "Missing"
         /\ Simulated(r)
         /\ remaining' = remaining \o Substituted(r.accounts)
         /\ UNCHANGED program
    BY DEF Missing
<1> DEFINE n == Len(remaining)
           c == program.next[n]
           req == program.required
           sb == Substituted(r.accounts)
<1>2. /\ c \in n..Len(req)
      /\ r.accounts \in Seq(Keys)
      /\ Len(r.accounts) = c - n
      /\ \A i \in 1..(c - n) : r.accounts[i] = req[n + i]
    BY <1>1, MissingBatch
<1>3. /\ sb \in Seq(Keys)
      /\ Len(sb) = c - n
      /\ \A i \in 1..(c - n) : sb[i] = substitute_placeholder(req[n + i])
    BY <1>2, SubstitutedType
<1>4. /\ Len(remaining') = c
      /\ \A i \in 1..c : remaining'[i] = IF i <= n THEN remaining[i] ELSE sb[i - n]
    <2>1. /\ remaining \o sb \in Seq(Keys)
          /\ Len(remaining \o sb) = n + Len(sb)
          /\ \A i \in 1..(n + Len(sb)) :
                (remaining \o sb)[i] = IF i <= n THEN remaining[i] ELSE sb[i - n]
        BY <1>3, ConcatProperties
    <2>2. n + Len(sb) = c
        BY <1>2, <1>3
    <2>3. QED
        BY <1>1, <2>1, <2>2
<1>5. ASSUME NEW i \in 1..c PROVE SubstOK(req[i], remaining'[i])
    <2>1. CASE i <= n
        BY <2>1, <1>4, PrefixUnfold
    <2>2. CASE i > n
        <3>1. remaining'[i] = substitute_placeholder(req[i])
            BY <2>2, <1>2, <1>3, <1>4
        <3>2. QED
            BY <3>1, SubstituteSpec DEF SubstOK
    <2>3. QED
        BY <2>1, <2>2
<1>6. QED
    BY <1>1, <1>2, <1>4, <1>5 DEF AccumulatedIsRequestedPrefix, SubstOK

\* Every step keeps the inductive invariant.
LEMMA IInvStep == IInv /\ [Next]_vars => IInv'
<1> SUFFICES ASSUME IInv, [Next]_vars PROVE IInv'
    OBVIOUS
<1>1. TypeOK'
    BY TypeOKStep DEF IInv
<1>2. CASE Missing
    BY <1>1, <1>2, MissingKeepsPrefix DEF IInv
<1>3. CASE ~Missing
    <2>1. UNCHANGED <<program, remaining>>
        BY <1>3 DEF Next, vars, SimulationError, NoReturnData, DeserializeError,
                    AccountUnsupported, FailInRound, FailBare, Resolved, Exhausted
    <2>2. QED
        BY <1>1, <2>1 DEF IInv, AccumulatedIsRequestedPrefix
<1>4. QED
    BY <1>2, <1>3

\* The accounts the resolver loop accumulates are always the accounts the
\* program asked for, in order, with the payer and guardian-set
\* placeholders substituted (resolver.rs, the Missing arm and
\* substitute_placeholder).
THEOREM AccumulatedPrefixCorrect == Spec => []AccumulatedIsRequestedPrefix
<1>1. Init => IInv
    BY BoundsAssumption DEF Init, IInv, TypeOK, Results, Running,
                            AccumulatedIsRequestedPrefix
<1>2. IInv => AccumulatedIsRequestedPrefix
    BY DEF IInv
<1>3. QED
    BY <1>1, <1>2, IInvStep, PTL DEF Spec

-----------------------------------------------------------------------------
(* Refinement.  Under the mapping of Resolver's Abstract instance (the    *)
(* accumulated accounts, the loop counter, the budget and the result),   *)
(* every iteration is a round of the abstract session: a failure is      *)
(* Abort, with the round when the code reports one and without it when  *)
(* it does not, Resolved is Resolve (its groups are the accounts given, by      *)
(* OutcomeCases), Missing is Discover (the old accounts stay a prefix, by *)
(* ConcatProperties) and the return after the loop is GiveUp.             *)

\* A failing iteration that reports its round is an abortive round.
LEMMA FailInRoundIsAbort ==
    ASSUME NEW e \in RoundErrors, NEW r, Simulated(r), FailInRound(e)
    PROVE  Abstract!Abort
BY DEF Simulated, FailInRound, RoundErrors, Abstract!RoundErrors, Abstract!Abort,
       Abstract!Open, Abstract!Querying, Running

\* A failing iteration that reports no round is an abortive round too.
LEMMA FailBareIsAbort ==
    ASSUME NEW e \in BareErrors, NEW r, Simulated(r), FailBare(e)
    PROVE  Abstract!Abort
BY DEF Simulated, FailBare, BareErrors, Abstract!BareErrors, Abstract!Abort,
       Abstract!Open, Abstract!Querying, Running

\* A Missing iteration is a discovering round.
LEMMA MissingIsDiscover ==
    ASSUME TypeOK, Missing
    PROVE  Abstract!Discover
<1>1. PICK r \in Outcomes(program, remaining) :
         /\ r.tag = "Missing"
         /\ Simulated(r)
         /\ remaining' = remaining \o Substituted(r.accounts)
         /\ iteration' = iteration + 1
         /\ UNCHANGED <<program, maxIterations, result>>
    BY DEF Missing
<1>2. program \in Programs /\ remaining \in Seq(Keys)
    BY DEF TypeOK
<1>3. Substituted(r.accounts) \in Seq(Keys)
    BY <1>1, <1>2, MissingBatch, SubstitutedType
<1>4. /\ Len(remaining) <= Len(remaining')
      /\ \A i \in 1..Len(remaining) : remaining'[i] = remaining[i]
    BY <1>1, <1>2, <1>3, ConcatProperties
<1>5. QED
    BY <1>1, <1>4 DEF Simulated, Abstract!Discover, Abstract!Open, Abstract!Querying, Running

\* Every step of the loop is a step of the abstract session or leaves its
\* variables unchanged.
LEMMA StepRefines == TypeOK /\ [Next]_vars => [Abstract!Next]_Abstract!avars
<1> SUFFICES ASSUME TypeOK, [Next]_vars PROVE [Abstract!Next]_Abstract!avars
    OBVIOUS
<1>1. CASE SimulationError
    BY <1>1, FailInRoundIsAbort DEF SimulationError, RoundErrors, Abstract!Next
<1>2. CASE NoReturnData
    BY <1>2, FailInRoundIsAbort DEF NoReturnData, RoundErrors, Abstract!Next
<1>3. CASE DeserializeError
    BY <1>3, FailBareIsAbort DEF DeserializeError, BareErrors, Abstract!Next
<1>4. CASE AccountUnsupported
    BY <1>4, FailBareIsAbort DEF AccountUnsupported, BareErrors, Abstract!Next
<1>5. CASE Resolved
    <2>1. PICK r \in Outcomes(program, remaining) :
             /\ r.tag = "Resolved"
             /\ Simulated(r)
             /\ result' = [status |-> "Ok", groups |-> r.groups, iterations |-> iteration]
             /\ UNCHANGED <<program, maxIterations, iteration, remaining>>
        BY <1>5 DEF Resolved
    <2>2. r.groups = remaining
        BY <2>1, OutcomeCases DEF TypeOK
    <2>3. Abstract!Resolve
        BY <2>1, <2>2 DEF Simulated, Abstract!Resolve, Abstract!Open, Abstract!Querying, Running
    <2>4. QED
        BY <2>3 DEF Abstract!Next
<1>6. CASE Missing
    BY <1>6, MissingIsDiscover DEF Abstract!Next
<1>7. CASE Exhausted
    <2>1. Abstract!GiveUp
        BY <1>7 DEF Exhausted, Abstract!GiveUp, Abstract!Querying, Running
    <2>2. QED
        BY <2>1 DEF Abstract!Next
<1>8. CASE UNCHANGED vars
    BY <1>8 DEF vars, Abstract!avars
<1>9. QED
    BY <1>1, <1>2, <1>3, <1>4, <1>5, <1>6, <1>7, <1>8 DEF Next

\* resolve_execute_vaa_v1 implements the abstract resolution session
\* (AbstractResolver) under the mapping remaining_accounts -> accounts,
\* iteration -> round, max_iterations -> limit, result -> outcome.
THEOREM Refinement == Spec => ImplementsAbstract
<1>1. Init => Abstract!Init
    BY BoundsAssumption DEF Init, Abstract!Init, Abstract!Querying, Running
<1>2. QED
    BY <1>1, StepRefines, TypeCorrect, PTL DEF Spec, ImplementsAbstract, Abstract!Spec

-----------------------------------------------------------------------------
(* The outcome.  ResolutionOutcome speaks of the final states only, so it *)
(* is not inductive: the step that returns needs to know how many          *)
(* simulations have run (Len(sent) = iteration - 1 while the loop runs),  *)
(* that the loop has not passed the program's rounds, and how many         *)
(* accounts the program has been given (its discovery at that iteration). *)

\* While the loop runs, it has simulated once per finished iteration, it
\* is at most at the program's resolving round, and the accounts it holds
\* are as many as the program's discovery reaches at this iteration.
Progress ==
    result = Running =>
        /\ Len(sent) = iteration - 1
        /\ iteration <= program.rounds
        /\ \E c \in [0..(program.rounds - 1) -> 0..Len(program.required)] :
              /\ Discovery(program, c)
              /\ c[program.rounds - 1] = Len(program.required)
                 \/ program.rounds > MaxIterationsBound
              /\ Len(remaining) = c[iteration - 1]

OInv == TypeOK /\ Progress /\ ResolutionOutcome

\* A simulation that ends the call with an error naming its iteration
\* keeps OInv: the iteration named is the number of simulations run.
LEMMA FailInRoundStep ==
    ASSUME OInv, NEW r, Simulated(r), NEW e \in RoundErrors, FailInRound(e)
    PROVE  Progress' /\ ResolutionOutcome'
<1>1. Len(sent) = iteration - 1 /\ iteration <= maxIterations
    BY DEF OInv, Progress, Simulated
<1>2. Len(sent') = Len(sent) + 1 /\ sent \in Seq(Seq(Keys))
    BY DEF Simulated, OInv, TypeOK
<1>3. iteration \in Nat /\ maxIterations \in Nat
    BY BoundsAssumption DEF OInv, TypeOK
<1>4. Len(sent') = iteration
    BY <1>1, <1>2, <1>3
<1>5. QED
    BY <1>1, <1>2, <1>3, <1>4 DEF FailInRound, Progress, ResolutionOutcome, Running,
                                  RoundErrors

\* A simulation that ends the call with an error naming no iteration
\* keeps OInv.
LEMMA FailBareStep ==
    ASSUME OInv, NEW r, Simulated(r), NEW e \in BareErrors, FailBare(e)
    PROVE  Progress' /\ ResolutionOutcome'
<1>1. Len(sent) = iteration - 1 /\ iteration <= maxIterations
    BY DEF OInv, Progress, Simulated
<1>2. Len(sent') = Len(sent) + 1 /\ sent \in Seq(Seq(Keys))
    BY DEF Simulated, OInv, TypeOK
<1>3. iteration \in Nat /\ maxIterations \in Nat
    BY BoundsAssumption DEF OInv, TypeOK
<1>4. QED
    BY <1>1, <1>2, <1>3 DEF FailBare, Progress, ResolutionOutcome, Running,
                            BareErrors, RoundErrors

\* The resolving simulation is the program's rounds-th: a simulation
\* before it finds accounts still missing.
LEMMA ResolvedStep ==
    ASSUME OInv, Resolved
    PROVE  Progress' /\ ResolutionOutcome'
<1> USE DEF OInv
<1>1. PICK r \in Outcomes(program, remaining) :
         /\ r.tag = "Resolved"
         /\ Simulated(r)
         /\ result' = [status |-> "Ok", groups |-> r.groups, iterations |-> iteration]
         /\ UNCHANGED <<program, maxIterations, iteration, remaining>>
    BY DEF Resolved
<1>2. /\ program \in Programs /\ remaining \in Seq(Keys)
      /\ iteration \in Nat /\ maxIterations \in Nat /\ sent \in Seq(Seq(Keys))
    BY BoundsAssumption DEF TypeOK
<1>3. r.groups = remaining /\ Len(remaining) >= Len(program.required)
    BY <1>1, <1>2, OutcomeCases
<1>4. program.rounds \in Nat \ {0}
    BY <1>2, ProgramShape
<1>5. /\ Len(sent) = iteration - 1
      /\ iteration <= program.rounds
      /\ iteration <= maxIterations
      /\ result = Running
    BY <1>1 DEF Progress, Simulated
<1>6. PICK c \in [0..(program.rounds - 1) -> 0..Len(program.required)] :
         /\ Discovery(program, c)
         /\ Len(remaining) = c[iteration - 1]
    BY <1>5 DEF Progress
<1>7. iteration = program.rounds
    <2>1. SUFFICES ASSUME iteration - 1 \in 0..(program.rounds - 2) PROVE FALSE
        BY <1>2, <1>4, <1>5
    <2>2. c[iteration - 1] < Len(program.required)
        BY <2>1, <1>6 DEF Discovery
    <2>3. QED
        BY <2>2, <1>3, <1>6
<1>8. Len(remaining) = Len(program.required)
    BY <1>3, <1>6, <1>2, <1>4, <1>5, <1>7
<1>9. Len(sent') = iteration
    BY <1>1, <1>2, <1>5 DEF Simulated
<1>10. QED
    BY <1>1, <1>3, <1>5, <1>7, <1>8, <1>9 DEF Progress, ResolutionOutcome, Running

\* A Missing answer moves the loop one step along the discovery, and
\* comes before the resolving round.
LEMMA MissingStep ==
    ASSUME OInv, Missing
    PROVE  Progress' /\ ResolutionOutcome'
<1> USE DEF OInv
<1>1. PICK r \in Outcomes(program, remaining) :
         /\ r.tag = "Missing"
         /\ Simulated(r)
         /\ remaining' = remaining \o Substituted(r.accounts)
         /\ iteration' = iteration + 1
         /\ UNCHANGED <<program, maxIterations, result>>
    BY DEF Missing
<1>2. /\ program \in Programs /\ remaining \in Seq(Keys)
      /\ iteration \in Nat /\ maxIterations \in Nat /\ sent \in Seq(Seq(Keys))
      /\ iteration >= 1
      /\ maxIterations <= MaxIterationsBound /\ MaxIterationsBound \in Nat
    BY BoundsAssumption DEF TypeOK
<1> DEFINE n == Len(remaining)
<1>3. /\ program.next[n] \in n..Len(program.required)
      /\ r.accounts \in Seq(Keys)
      /\ Len(r.accounts) = program.next[n] - n
      /\ n < Len(program.required)
    BY <1>1, <1>2, MissingBatch, OutcomeCases
<1>4. Len(remaining') = program.next[n]
    <2>1. Substituted(r.accounts) \in Seq(Keys)
          /\ Len(Substituted(r.accounts)) = program.next[n] - n
        BY <1>3, SubstitutedType
    <2>2. Len(remaining') = n + Len(Substituted(r.accounts))
        BY <1>1, <1>2, <2>1, ConcatProperties
    <2>3. QED
        BY <2>1, <2>2, <1>2, <1>3
<1>5. program.rounds \in Nat \ {0}
    BY <1>2, ProgramShape
<1>6. /\ Len(sent) = iteration - 1
      /\ iteration <= program.rounds
      /\ iteration <= maxIterations
      /\ result = Running
    BY <1>1 DEF Progress, Simulated
<1>7. PICK c \in [0..(program.rounds - 1) -> 0..Len(program.required)] :
         /\ Discovery(program, c)
         /\ c[program.rounds - 1] = Len(program.required)
            \/ program.rounds > MaxIterationsBound
         /\ n = c[iteration - 1]
    BY <1>6 DEF Progress
<1>8. iteration < program.rounds
    <2>1. SUFFICES ASSUME iteration = program.rounds PROVE FALSE
        BY <1>2, <1>5, <1>6
    <2>2. c[program.rounds - 1] # Len(program.required)
        BY <2>1, <1>3, <1>7
    <2>3. QED
        BY <2>1, <2>2, <1>2, <1>5, <1>6, <1>7
<1>9. c[iteration] = program.next[n]
    <2>1. iteration - 1 \in 0..(program.rounds - 2)
        BY <1>2, <1>5, <1>8
    <2>2. QED
        BY <2>1, <1>2, <1>7 DEF Discovery
<1>10. Len(sent') = iteration
    BY <1>1, <1>2, <1>6 DEF Simulated
<1>11. Progress'
    <2>1. iteration' = iteration + 1 /\ program' = program
        BY <1>1
    <2>2. iteration' - 1 = iteration
        BY <2>1, <1>2
    <2>3. Len(sent') = iteration' - 1
        BY <2>2, <1>10
    <2>4. iteration' <= program'.rounds
        BY <2>1, <1>2, <1>5, <1>8
    <2>5. Len(remaining') = c[iteration' - 1]
        BY <2>2, <1>4, <1>9
    <2>6. QED
        BY <2>1, <2>3, <2>4, <2>5, <1>7 DEF Progress
<1>12. QED
    BY <1>1, <1>6, <1>10, <1>11 DEF ResolutionOutcome, Running

\* The return after the loop comes after max_iterations simulations, all
\* before the program's resolving round.
LEMMA ExhaustedStep ==
    ASSUME OInv, Exhausted
    PROVE  Progress' /\ ResolutionOutcome'
<1>1. /\ iteration \in 1..(maxIterations + 1) /\ maxIterations \in Nat
      /\ program.rounds \in Nat
    BY BoundsAssumption, ProgramShape DEF OInv, TypeOK
<1>2. /\ Len(sent) = iteration - 1
      /\ iteration <= program.rounds
      /\ iteration > maxIterations
    BY DEF OInv, Progress, Exhausted
<1>3. Len(sent') = maxIterations /\ maxIterations < program'.rounds
    <2>1. iteration = maxIterations + 1
        BY <1>1, <1>2
    <2>2. QED
        BY <2>1, <1>1, <1>2 DEF Exhausted
<1>4. result' = [status |-> "Err", error |-> "Exhausted", iteration |-> maxIterations']
    BY DEF Exhausted
<1>5. result'.status = "Err" /\ result' # Running
    BY <1>4 DEF Running
<1>6. Len(sent') <= maxIterations' /\ maxIterations' = maxIterations
    BY <1>1, <1>3 DEF Exhausted
<1>7. QED
    BY <1>3, <1>4, <1>5, <1>6 DEF Progress, ResolutionOutcome

LEMMA OInvStep == OInv /\ [Next]_vars => OInv'
<1> SUFFICES ASSUME OInv, [Next]_vars PROVE OInv'
    OBVIOUS
<1>1. TypeOK'
    BY TypeOKStep DEF OInv
<1>2. Progress' /\ ResolutionOutcome'
    <2>1. CASE SimulationError
        BY <2>1, FailInRoundStep DEF SimulationError, RoundErrors
    <2>2. CASE NoReturnData
        BY <2>2, FailInRoundStep DEF NoReturnData, RoundErrors
    <2>3. CASE DeserializeError
        BY <2>3, FailBareStep DEF DeserializeError, BareErrors
    <2>4. CASE AccountUnsupported
        BY <2>4, FailBareStep DEF AccountUnsupported, BareErrors
    <2>5. CASE Resolved
        BY <2>5, ResolvedStep
    <2>6. CASE Missing
        BY <2>6, MissingStep
    <2>7. CASE Exhausted
        BY <2>7, ExhaustedStep
    <2>8. CASE UNCHANGED vars
        BY <2>8 DEF OInv, Progress, ResolutionOutcome, vars
    <2>9. QED
        BY <2>1, <2>2, <2>3, <2>4, <2>5, <2>6, <2>7, <2>8 DEF Next
<1>3. QED
    BY <1>1, <1>2 DEF OInv

\* For every program whose rounds count its discovery, every budget and
\* every failure the environment injects: Ok comes with every required
\* account, after exactly the program's rounds of simulations, and the
\* exhaustion error only after max_iterations simulations that all came
\* before the program's resolving round.
THEOREM OutcomeCorrect == Spec => []ResolutionOutcome
<1>1. Init => OInv
    <2> SUFFICES ASSUME Init PROVE OInv
        OBVIOUS
    <2>1. TypeOK
        BY BoundsAssumption DEF Init, TypeOK, Results, Running
    <2>2. PICK c \in [0..(program.rounds - 1) -> 0..Len(program.required)] :
             /\ Discovery(program, c)
             /\ c[program.rounds - 1] = Len(program.required)
                \/ program.rounds > MaxIterationsBound
        BY ProgramDiscovery DEF Init
    <2>3. program.rounds \in Nat \ {0} /\ c[0] = 0
        BY <2>2, ProgramShape DEF Init, Discovery
    <2>4. Progress
        BY <2>2, <2>3 DEF Init, Progress
    <2>5. ResolutionOutcome
        BY BoundsAssumption DEF Init, ResolutionOutcome, Running
    <2>6. QED
        BY <2>1, <2>4, <2>5 DEF OInv
<1>2. QED
    BY <1>1, OInvStep, PTL DEF Spec, OInv

=============================================================================
