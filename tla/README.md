# Formal model of wormhole-svm-test

TLA+ modules, TLC runs and TLAPS proofs for the testing crate
`crates/wormhole-svm-test` (guardian signing and the executor-account-resolver
client loop) and the example program `programs/vaa-verifier-example`. Run everything from this directory:

    tlasany Resolver.tla
    tlc -workers 2 -config MCResolver.cfg MCResolver
    tlapm ResolverProofs.tla
    tlc -workers 2 -config MCVaaVerifier.cfg MCVaaVerifier
    tlapm VaaVerifierProofs.tla
    tlc -workers 2 -config MCGuardianSet.cfg MCGuardianSet
    tlapm GuardianSetProofs.tla

## 1. Inventory

### Components

| Component | Source | State it keeps | Operations |
|---|---|---|---|
| Resolution client | `src/crates/wormhole-svm-test/src/resolver.rs` | one session per call: `remaining_accounts` (append-only), the loop counter `iteration`, the `max_iterations` budget | `resolve_execute_vaa_v1` (the loop), `substitute_placeholder` |
| Guardian / guardian set | `src/crates/wormhole-svm-test/src/guardian.rs` | a guardian: secret key, public key, Ethereum address, index (u8); a set: a `Vec` of guardians | `TestGuardian::new`, `from_hex`, `sign`, `sign_vaa_body`, `default`; `TestGuardianSet::new`, `single`, `generate`, `sign_vaa_body`, `sign_vaa_body_with`, `eth_addresses`, `len`, `is_empty`, `get`, `iter`, `default` |
| VAA verifier example | `src/programs/vaa-verifier-example/src/lib.rs` | none of its own (reads its accounts and instruction data) | `process_instruction` (account checks, shim id check, instruction-data parsing, VAA parse, double keccak digest, `verify_hash` CPI), `build_instruction_data`, `build_verify_vaa_instruction` |
| TestVaa (`vaa.rs`) | declared in `lib.rs`, source not in this snapshot | an immutable record (chain, emitter, sequence, payload) | `new`, `sign`, `guardian_signatures`, digest |
| LiteSVM helpers (`litesvm.rs`) | declared in `lib.rs`, source not in this snapshot | the simulated chain | `setup_wormhole`, `post_signatures`, `close_signatures`, `with_posted_signatures` |
| Integration tests | `src/crates/wormhole-svm-test/tests/verify_vaa_example.rs` | test drivers | end-to-end: set up, sign, post signatures, verify, close |

### How they interact

A test builds a guardian set, signs a VAA body with it (each record is
`[index, r, s, v]` over `keccak256(keccak256(body))`), posts the signatures to
the verify-VAA shim and calls the verifier program, which recomputes the same
double hash from the parsed VAA and asks the shim (CPI) to check the posted
signatures against the guardian-set account. Separately, the resolution client
drives a target program's `resolve_execute_vaa_v1` query: it simulates the
query transaction with the accounts accumulated so far, and the program answers
`Resolved(groups)`, `Missing(accounts, lookup tables)` or `Account()`. The
program and the simulator are the environment of the client; the client's
state is owned by one call and discarded when it returns.

### What is hard

Everything here is single-threaded and synchronous (spec section 5), so the
hard behaviours are sequences, not interleavings:

* the resolver loop's **round sequence**: accumulated state carried from round
  to round, placeholder substitution, the 1-based iteration counter and the
  budget boundary (0 included), a failure in any round after successful ones,
  a program that stops making progress, accounts piling up past the
  transaction limit;
* **numeric edges** in signing: the guardian index is a `u8` (`i as u8` in
  `generate`), signatures are tagged with the guardian's stored index rather
  than its position;
* **ordering** of signature records: `sign_vaa_body_with` keeps the caller's
  order and duplicates and silently drops out-of-range indices;
* in the verifier, **parsing boundaries** of the instruction data (a 1-byte
  bump, a 4-byte little-endian length, the VAA bytes).

### Properties that make each component correct

* Resolution client: the accumulated accounts are exactly the requested ones,
  substituted, in order (never truncated); Ok reports the number of simulations
  and only after the program has every account; exhaustion only after
  `max_iterations` simulations and only when the program needed more; every
  call returns.
* Guardian set: every record's index byte names, in the set's
  `eth_addresses()`, the guardian that signed it, over the double hash of the
  body; `sign_vaa_body_with` returns one record per in-range index, in the
  order asked.
* Verifier: well-formed instruction data with a VAA signed by the guardian set
  is accepted; malformed data is rejected with `InvalidInstructionData`; the
  digest it verifies is the digest the guardians signed.

The hazards, each at its line and with the properties that cover it, are
listed in `PROJECT.json` under `"hazards"`.

## 2. Status

1. **Resolver** (done): the client loop. `MCResolver` explores five target
   programs. `AbstractResolver` states what a session promises, and `Resolver`
   is shown to refine it (TLC and TLAPS). Proofs are in `ResolverProofs`.
2. **GuardianSet** (done): guardian and set construction (`default`,
   `generate`, `new`/`single`) and signing, as a state machine over the calls
   a test makes. Its three invariants are proved in `GuardianSetProofs`.
3. **VaaVerifier** (done): `process_instruction` with every early return, and
   the builders, with the round trip model-checked and proved
   (`VaaVerifierProofs`).
4. **EndToEnd** (open): compose `GuardianSet`, a spec-modelled `TestVaa` and
   `VaaVerifier`, with the shim's quorum check (ascending distinct indices, each
   recovering to the address at its index) as the environment. The question is
   which calls of the signing API produce a VAA that verifies.
5. **Proofs**: every safety property of the passing runs is proved
   (section 4). `SignaturesAttributable` is proved under the hypothesis
   `GenerateFits`.

## 3. Modules

### Resolver (`Resolver.tla`, `MCResolver.tla`, `MCResolver.cfg`)

State: `program` (the target program of the session, fixed), `maxIterations`
(the argument, chosen in `Init` from `0..MaxIterationsBound`), `iteration`
(the `for` variable), `remaining` (`remaining_accounts`), `sent` (history: the
account list of each simulation), `result` (`Running`, `Ok` with groups and
iteration count, or `Err` with the error kind and, for the errors whose
message names one, the iteration: `RoundErrors` (simulation failure, no return
data) carry it, `BareErrors` (undecodable return data, `Account()`) do not,
and the exhaustion error carries `max_iterations`).

One action per exit of a loop iteration, each the whole body of the iteration
(build instruction, simulate, decode, dispatch), since the loop is synchronous:
`SimulationError`, `NoReturnData` (both end in `FailInRound`),
`DeserializeError`, `AccountUnsupported` (both end in `FailBare`),
`Resolved`, `Missing` (pushes the substituted batch and increments the
counter), and `Exhausted` (the return after the loop). `substitute_placeholder`
is the code's function; `Substituted` maps it over a `Missing` batch.

The environment: a target program is `[required, next, rounds]`. Given `n`
accounts it answers `Resolved` when it has all of `required`, otherwise
`Missing` with `required[n+1 .. next[n]]`; it is a pure function of the account
list, as the spec demands (idempotence). `rounds` is the number of simulations
it needs. `ProgramsAssumption` ties it to `next` through `Discovery(p, c)`:
`c[k]` is the number of accounts the program has at its `(k+1)`-th
simulation when every earlier one answered `Missing`. Then `c[rounds - 1]` is
all of `required`, or `rounds` exceeds every budget for a program that never
gets there (the stalling one). TLC evaluates the assumption on every run. A simulation may also fail in each of the ways the code handles
(set `Faults`), and always fails when the transaction would carry more than
`TxAccountLimit` accounts. The programs of `MCResolver`: one that needs
nothing, the two-round program of the tests (payer, guardian set, signatures
placeholder), a three-batch program that asks for the payer twice (once as the
placeholder, once as the key), one that asks for more accounts than the limit,
and one that stalls (answers `Missing` with no account forever).

Bounds: budgets `0..4` cover 0, budgets below, equal to and above the rounds
every program needs (1, 2, 3, 3 and never); `TxAccountLimit = 4` is crossed by
one program only; seven keys include all three placeholders, the real payer
and guardian set and two plain accounts.

Fairness: none. The specification is safety only. That a call returns is
not a question for the model: the loop is a Rust `for` over the finite range
`1..=max_iterations`, and each iteration is a blocking call that returns.
`CHECK_DEADLOCK FALSE` because the function returns: a state with a result is
final.

Refinement. `AbstractResolver` is the session as its caller sees it. It has an
account list, a 1-based round, a limit and an outcome. While rounds remain, a
round does one of three things:

* `Discover`: it extends the list without changing what is there, and goes on;
* `Resolve`: it ends with the list and the round;
* `Abort`: it ends with an error. A simulation failure or an empty reply
  carries the round; an undecodable reply or one of an unsupported kind
  carries none, which is what the code returns.

Past the limit, `GiveUp` ends with the exhaustion error. `Resolver` maps onto
it as follows: `remaining` is the list, `iteration` the round,
`maxIterations` the limit and `result` the outcome. This is
`Abstract == INSTANCE AbstractResolver WITH ...`, and `ImplementsAbstract ==
Abstract!Spec` is a property of `resolver_safety`. The abstract spec is a
safety specification, with no fairness. It states what the code promises,
not what spec section 7 promises; the gap between the two is the run
`resolver_error_round` below.

Run `resolver_safety` checks:

* `TypeOK`;
* `AccumulatedIsRequestedPrefix` — the accounts are exactly the requested
  prefix, each position substituted as documented;
* `ResolutionOutcome` — Ok only with every required account and with the
  iteration count equal to both the number of simulations and the rounds the
  program needs; a simulation or empty-data error names the iteration of the
  simulation that failed (the last one sent); exhaustion only after
  `max_iterations` simulations and only when the program needs more;
* `ImplementsAbstract` — the refinement above. It also covers the claim that
  `remaining` is only ever extended (`Discover`).

Run `resolver_error_round` (violation) checks `ErrorsCarryRound`, spec
section 7's "terminal failure with round context" for every fatal error. TLC
finds it violated in two steps: a simulation whose return data does not
decode ends the call with "Failed to deserialize resolver return data", which
names no iteration (`resolver.rs:115`); `Account()` does the same
(`resolver.rs:134-137`). Only the simulation and empty-data errors (`:102`,
`:107-110`) name the iteration. Recorded as a finding in `PROJECT.json`.

### GuardianSet (`GuardianSet.tla`, `MCGuardianSet.tla`, two cfgs)

State: `guardians` (the set a test holds), `signatures` (what the last signing
call returned), `request` (that call). Actions: `Generate(count, seed)`,
`UseDefault`, `SignAll(body)`, `SignWith(body, indices)`. keccak256 and the
secp256k1 derivations are injective functions (a value records its inputs);
a record keeps its index byte, the address `ecrecover` yields and the digest.
The index byte has `IndexBase` values (2^8 in the code, 4 here, so that a set
of 4 fills it and a set of 5 wraps it, which is the same arithmetic as 256 and
257 guardians with 8 bits). `sign_vaa_body_with`'s
`filter_map(|&i| guardians.get(i))` is `Selected`. `Kept` is the set of
positions of the request whose index names a guardian, and the k-th selected
index is the one at the kept position of rank k (`KeptAt`, `Rank`). This
definition has no recursion, so the provers can reason about it. A temporary
TLC comparison found it equal to `SelectSeq(indices, LAMBDA i : i < Len(set))`
for every index list of up to 4 values in 0..4 and every set of 0 to 5
guardians.

`NewSet(list)` is `TestGuardianSet::new` (and `single`, a list of one): the
guardians come from `TestGuardian::new` with a key from the default key and
`OtherSecrets`, and any u2 index. Lists have up to `MaxNew = 2` guardians. So
a hand-built set can have indices that are not positions, and two guardians
can share an index. The variable `built` records which constructor made the
set that is held.

* `guardian_signing` (pass; counts 0..4, two seeds, two bodies, index lists of
  length up to 3 over the whole u2 range, so out-of-range, duplicate and
  unsorted requests all happen; hand-built sets of up to 2 guardians):
  * `TypeOK`;
  * `SignaturesAttributable`: stated for default and generated sets;
  * `SubsetSelection`: for every set, a hand-built one included, the records
    follow the in-range requested positions in request order, and the record
    made from the guardian at each position carries that guardian's key and
    its stored index.

  Sets from `new()` are the reason `SignaturesAttributable` is restricted. The
  code tags a record with `self.index` (`guardian.rs:74`), not with the
  position the guardian was selected from. For a hand-built set whose indices
  are not positions, a verifier that looks the index up in `eth_addresses()`
  finds another guardian. Neither the code nor the spec promises otherwise, so
  this is a gap in what the spec states, not a divergence. `SubsetSelection`
  states what does hold for every set.
* `guardian_index_wrap` (violation; counts up to 5): `SignaturesAttributable`
  fails: the fifth guardian gets index 0 and its record names the first
  guardian's address. With 8 bits this is a set of 257 guardians. The spec
  says guardian `i` of a generated set has index `i`; `generate` accepts any
  count and casts silently. Recorded as a finding in `PROJECT.json`.

### VaaVerifier (`VaaVerifier.tla`, `MCVaaVerifier.tla`, two cfgs)

State:

* `ix`: the one instruction of the run, either built by
  `build_verify_vaa_instruction` (with the arguments kept) or submitted raw by
  another caller;
* `cpi`: the `verify_hash` request made, if any;
* `outcome`: what `process_instruction` returned.

The handler is synchronous, and its CPI returns before it goes on. So one run
of it is one step, with one action per way it returns: `NotEnoughAccountKeys`,
`IncorrectProgramId`, `EmptyData`, `SlicePanic`, `TooShort`, `ParseError`,
`VerifyHashFailed` and `Verified`. The guards are the code's checks, in the
code's order. Bytes are integers below `ByteBase`. `to_le_bytes` and
`from_le_bytes` are modelled by what they do (base-`ByteBase` digits, least
significant first), and `vaa.len() as u32` keeps its truncation
(`% U32Size`).

The environment:

* `Vaa::parse` accepts a string that starts with the version byte and is long
  enough for the header and a body; the body is what follows the header;
* keccak is injective;
* the shim accepts when the guardian-set account and bump are the real ones
  and the signatures account holds signatures posted for the digest (`Posted`).

The runs:

* `vaa_verifier_roundtrip` (pass): `TypeOK` and `BuiltRoundTrip`. A built
  instruction is never rejected for its accounts or layout. If its VAA parses,
  the program asks the shim about exactly the test's guardian set, signatures
  account, bump and double-keccak body digest, and succeeds exactly when the
  shim accepts. Otherwise it fails with `InvalidInstructionData` and makes no
  CPI.
* `vaa_verifier_short_data` (violation): `MalformedRejected` fails. The data
  `<<0>>` passes the empty check and then panics on `instruction_data[1..5]`,
  before the `map_err` meant to return `InvalidInstructionData`. This is
  recorded as a finding.

Bounds: `ByteBase = 2`, so a u32 is 4 bits and the length digits are
exercised. There are five VAAs: three that parse, one of them the VAA whose digest is
posted; one too short for a body; one with the wrong version. The signatures
accounts `sigsA` (signatures posted for that digest) and `sigsB` (nothing
posted) are tried with the real and another guardian-set account and every
bump.
Raw data is every byte string of up to 8 bytes, which covers empty data,
1..4 bytes, declared lengths longer and shorter than the data, and exact
lengths. Four account lists cover too few accounts, a wrong shim and the right
one. `CHECK_DEADLOCK FALSE`: the program returns once.

## 4. Proofs

`ResolverProofs.tla` (EXTENDS `Resolver`, `SequenceTheorems`, `TLAPS`), for
every value of the constants satisfying `KeysAssumption` (the placeholders are
keys, distinct from each other and from the real payer and guardian set),
`BoundsAssumption`, `ProgramsAssumption` (a program's `next` maps each count
to a batch end not before it and within `required`, and `rounds` is the
simulation at which its discovery completes) and `FaultsAssumption`:

* `TypeCorrect == Spec => []TypeOK`, from `TypeOKStep` (one case per action).
  Lemmas: `SubstitutedType`, `OutcomeCases` (a `Resolved` answer carries the
  accounts it was given and comes only with all of them; a `Missing` answer is
  the next batch), `MissingBatch` (the batch is a list of keys of length
  `next[n] - n` starting right after the `n` accounts given).
* `AccumulatedPrefixCorrect == Spec => []AccumulatedIsRequestedPrefix`. The
  invariant is not inductive alone (a `Missing` step needs `remaining` to be a
  list of keys and `program` to satisfy `ProgramsAssumption`), so the proof
  uses `IInv == TypeOK /\ AccumulatedIsRequestedPrefix`. Only `Missing`
  changes `remaining`; `MissingKeepsPrefix` shows position by position that
  the old prefix is kept and the appended batch is the substituted
  continuation (`ConcatProperties`, `SubSeqProperties`, `SubstituteSpec`).

* `Refinement == Spec => ImplementsAbstract`. `Init` maps to the abstract
  `Init`, and `StepRefines` shows that every step maps to an abstract step or
  a stutter, one case per action:
  * a failure is `Abort`: with the round for `FailInRound`
    (`FailInRoundIsAbort`), without one for `FailBare` (`FailBareIsAbort`);
  * `Resolved` is `Resolve`;
  * `Missing` is `Discover`: the old accounts stay a prefix (`MissingIsDiscover`,
    from `MissingBatch` and `ConcatProperties`);
  * `Exhausted` is `GiveUp`.

  The steps are combined with `TypeCorrect` by PTL.
* `OutcomeCorrect == Spec => []ResolutionOutcome`. `ResolutionOutcome` speaks
  only of a finished call, so it is not inductive: the step that resolves must
  know how many simulations were made and how many accounts were gathered.
  The proof uses `OInv == TypeOK /\ Progress /\ ResolutionOutcome`. While the
  call runs, `Progress` states three things:
  * `iteration - 1` simulations were sent;
  * `iteration` has not passed `program.rounds`;
  * `Len(remaining)` is `c[iteration - 1]` for a discovery `c` of the program.

  A `Resolved` answer needs all of `required`. So it comes at round `rounds`,
  because `c` is strictly short of `required` before it (`ResolvedStep`). A
  `Missing` answer moves to `c[iteration]` (`MissingStep`, from `Discovery`
  and `MissingBatch`). A failing simulation is the `iteration`-th, so the
  iteration `FailInRound` reports is `Len(sent')` (`FailInRoundStep`,
  `FailBareStep`). `Exhausted` fires only after `max_iterations`
  simulations, all before `rounds` (`ExhaustedStep`). `OInv` was checked as
  a TLC invariant on the `resolver_safety` instance before it was proved.

`VaaVerifierProofs.tla` (EXTENDS `VaaVerifier`, `SequenceTheorems`, `TLAPS`)
assumes `ConstantsAssumption` (a byte base of at least 2, the shim and
guardian-set keys are keys, VAAs are byte strings) and `VaasAssumption` (every
VAA is shorter than 2^32 bytes, which the transaction size guarantees). It
proves the following for every byte width:

* `LeRoundTrip`: `from_le_bytes(to_le_bytes(n)) = n` for every u32. The lemmas
  `DivMod`, `DivDiv` and `Horner` split the non-linear arithmetic.
* `BuiltLayout`: the built data has the bump at byte 0, reads back the VAA's
  length, passes the length check and slices back to the VAA
  (`ConcatProperties`, `SeqDef`).
* `TypeCorrect == Spec => []TypeOK` and
  `RoundTripCorrect == Spec => []BuiltRoundTrip`, from the inductive invariant
  `IInv == TypeOK /\ BuiltShape /\ Fresh /\ BuiltRoundTrip`:
  * `BuiltShape`: a built instruction is what the builder returns for its
    kept arguments;
  * `Fresh`: there is no outcome before an instruction, and no CPI before a
    return.

  `BuiltRoundTrip` alone is not inductive. The step that processes a built
  instruction needs `BuiltShape`, and an early return needs `Fresh` to know
  that `cpi` is still empty. `IInv` was checked as a TLC invariant on the
  `vaa_verifier_roundtrip` instance before it was proved. `IInvStep` has one
  case per action. `RequestType` gives the type of the CPI request
  (`SubSeqProperties` twice).

`GuardianSetProofs.tla` (EXTENDS `GuardianSet`, `FiniteSetTheorems`, `TLAPS`)
assumes only `ConstantsAssumption` (an index byte with at least one value and
natural bounds). It proves the following for every index width, seed set, body
set, key set and bound:

* Lemmas on the selection. `RankBase`, `RankRange`, `RankStrict`, `RankOnto`
  and `RankInjective` show that `Rank` maps a finite set of positions one to
  one, in order, onto `1..Cardinality(K)`. `RankOnto` uses `FS_Injection`: an
  injection into a set of the same size is onto. From them, `KeptAtSpec`,
  `KeptAtIncreasing`, `KeptAtOnto`, `SelectedSpec` and `SignWithSpec` say what
  `filter_map` returns: one kept index per rank, in request order, each naming
  a guardian of the set.
* `TypeCorrect == Spec => []TypeOK`, from `TypeOKStep`.
* `SelectionCorrect == Spec => []SubsetSelection`. `SelectionWitness` gives
  the witness: the map from the k-th record to `KeptAt(set, indices, k)`.
* `AttributableCorrect == GenerateFits => (Spec => []SignaturesAttributable)`,
  where `GenerateFits == MaxCount <= IndexBase`: `generate` is never asked for
  more guardians than the index byte has values.
  * The hypothesis is needed. The code takes `count: usize` and casts
    `i as u8`, and the `guardian_index_wrap` run shows the property failing
    without it.
  * The hypothesis is satisfiable: the `guardian_signing` instance meets it
    with equality.
  * `SignaturesAttributable` alone is not inductive. A signing step must know
    that the guardian at position p of a default or generated set carries
    index p - 1. The proof therefore uses
    `AInv == TypeOK /\ Positional /\ SignaturesAttributable`, which TLC
    checked on the `guardian_signing` instance before it was proved.

Only model-checked:

* Nothing of a passing run. The violated properties (`ErrorsCarryRound`,
  `MalformedRejected`, and `SignaturesAttributable` without `GenerateFits`)
  are shown false by TLC's counterexamples. No liveness is stated: the
  resolver's termination is guaranteed by its bounded `for` loop, and the
  other components are single calls.

## 5. Not modelled

* `vaa.rs` and `litesvm.rs` are not in this snapshot. `TestVaa` is planned
  from the spec; the LiteSVM helpers are environment.
* The crate root `lib.rs` holds only module declarations and re-exports.
* In the verifier:
  * the `msg!` logging and the payload-prefix log, which change no state;
  * the layout of `Vaa::parse` beyond version and length;
  * the shim's signature check itself: `Posted` abstracts posted signatures
    and the guardian-set account, and the quorum check belongs to the planned
    end-to-end model.
* `TestGuardian::from_hex` (hex decoding) and the read-only accessors of a set.
* The secp256k1 and keccak computations themselves (modelled as injective
  functions; `SecretKey::parse` failing on a hash output is negligible and
  would panic).
* Error message texts: the model keeps the error kind and whether the
  message names an iteration (and which one); the wording and the wrapped
  simulator or decoder error are left out.
