----------------------------- MODULE GuardianSet -----------------------------
(***************************************************************************)
(* TestGuardian and TestGuardianSet of                                     *)
(* crates/wormhole-svm-test/src/guardian.rs.                               *)
(*                                                                         *)
(* A guardian is its secret key, the Ethereum address derived from it and *)
(* the index it was given.  A set is a sequence of guardians; it is built *)
(* by Default (one guardian holding the fixture key), by generate (keys   *)
(* keccak256(seed || i), index i as u8) and signs a VAA body with all its *)
(* guardians or with those at the positions asked for.  A signature is    *)
(* the 66-byte record [index, r, s, v]; the model keeps what a verifier   *)
(* reads from it: the index byte, the address that ecrecover yields and   *)
(* the digest that was signed.                                            *)
(*                                                                         *)
(* keccak256 and the secp256k1 derivations are modelled as the injective  *)
(* functions they are taken to be (no collisions): a value records what   *)
(* it was computed from.  The index byte keeps its width: IndexBase      *)
(* values (2^8 in the code, fewer on small instances so that wrap-around  *)
(* is reachable).                                                          *)
(*                                                                         *)
(* The state is the set a test holds, the signature list the last call    *)
(* returned and the call that returned it.                                *)
(***************************************************************************)
EXTENDS Naturals, Sequences, SequencesExt, FiniteSets

CONSTANTS
    IndexBase,      \* values of the index byte (u8: 2^8)
    Seeds,          \* seeds given to generate
    Bodies,         \* VAA bodies signed
    DefaultSecret,  \* DEFAULT_GUARDIAN_SECRET_KEY
    MaxCount,       \* largest count given to generate
    MaxRequest,     \* longest index list given to sign_vaa_body_with
    OtherSecrets,   \* secret keys a test passes to TestGuardian::new
    MaxNew          \* longest guardian list given to TestGuardianSet::new

ASSUME ConstantsAssumption ==
    /\ IndexBase \in Nat \ {0}
    /\ MaxCount \in Nat
    /\ MaxRequest \in Nat
    /\ MaxNew \in Nat

IndexRange == 0..(IndexBase - 1)

-----------------------------------------------------------------------------
(* Keys, addresses and digests.                                            *)

\* keccak256(seed.to_le_bytes() || (i as u64).to_le_bytes() || zeros)
GeneratedSecret(seed, i) == <<"keccak256", seed, i>>

\* keccak256(pubkey[1..])[12..32] of the public key of the secret
EthAddress(secret) == <<"address", secret>>

\* keccak256(keccak256(vaa_body))
VaaDigest(body) == <<"keccak256", <<"keccak256", body>>>>

-----------------------------------------------------------------------------
(* Operations.                                                             *)

\* TestGuardian::new
NewGuardian(secret, index) ==
    [secret |-> secret, eth_address |-> EthAddress(secret), index |-> index]

\* TestGuardianSet::default: a single guardian with the fixture key, index 0.
DefaultSet == <<NewGuardian(DefaultSecret, 0)>>

\* TestGuardianSet::generate: guardian i gets index i as u8.
generate(count, seed) ==
    [i \in 1..count |-> NewGuardian(GeneratedSecret(seed, i - 1), (i - 1) % IndexBase)]

\* The positions of the requested indices that name a guardian of the set
\* (guardians.get(i as usize) is Some).
Kept(set, indices) == {j \in 1..Len(indices) : indices[j] < Len(set)}

\* The number of positions of K up to and including j.
Rank(K, j) == Cardinality({i \in K : i <= j})

\* The kept position of rank k.
KeptAt(set, indices, k) ==
    CHOOSE j \in Kept(set, indices) : Rank(Kept(set, indices), j) = k

\* indices.iter().filter_map(|&i| guardians.get(i)): the requested indices
\* that are inside the set, in the order requested.
Selected(set, indices) ==
    [k \in 1..Cardinality(Kept(set, indices)) |-> indices[KeptAt(set, indices, k)]]

\* Mutant: the body is hashed once instead of twice.
SignVaaBody_SingleHash(g, body) ==
    [index |-> g.index, signer |-> g.eth_address, digest |-> <<"keccak256", body>>]

\* Mutant: the index byte of the record is left at zero.
SignVaaBody_Untagged(g, body) ==
    [index |-> 0, signer |-> g.eth_address, digest |-> VaaDigest(body)]

\* TestGuardian::sign_vaa_body: the record tagged with the guardian's own
\* index, signed over the double keccak256 of the body.
SignVaaBody(g, body) ==
    [index |-> g.index, signer |-> g.eth_address, digest |-> VaaDigest(body)]

\* TestGuardianSet::sign_vaa_body: every guardian, in set order.
SignAllOf(set, body) == [k \in 1..Len(set) |-> SignVaaBody(set[k], body)]

\* Mutant: the requested indices are signed in ascending order.
SignWithOf_Sorted(set, body, indices) ==
    LET valid == SortSeq(Selected(set, indices), <)
    IN  [k \in 1..Len(valid) |-> SignVaaBody(set[valid[k] + 1], body)]

\* TestGuardianSet::sign_vaa_body_with: the guardians at the requested
\* positions, in the order requested; a position past the end is skipped
\* (guardians.get(i) is None).
SignWithOf(set, body, indices) ==
    LET valid == Selected(set, indices)
    IN  [k \in 1..Len(valid) |-> SignVaaBody(set[valid[k] + 1], body)]

\* TestGuardianSet::eth_addresses
EthAddresses(set) == [k \in 1..Len(set) |-> set[k].eth_address]

-----------------------------------------------------------------------------

VARIABLES
    guardians,   \* the TestGuardianSet held
    signatures,  \* the Vec<[u8; 66]> the last signing call returned
    request,     \* that call: its body and, for sign_vaa_body_with, indices
    built        \* the constructor that made the set held

vars == <<guardians, signatures, request, built>>

NoRequest == [kind |-> "none"]

Init ==
    /\ guardians = DefaultSet
    /\ signatures = <<>>
    /\ request = NoRequest
    /\ built = "default"

\* TestGuardianSet::generate(count, seed) replaces the set held.
Generate(count, seed) ==
    /\ guardians' = generate(count, seed)
    /\ signatures' = <<>>
    /\ request' = NoRequest
    /\ built' = "generate"

\* TestGuardianSet::default()
UseDefault ==
    /\ guardians' = DefaultSet
    /\ signatures' = <<>>
    /\ request' = NoRequest
    /\ built' = "default"

\* TestGuardianSet::new(guardians): the guardians as given, each made by
\* TestGuardian::new with a caller-chosen key and index; single(g) is the
\* list <<g>>.
NewSet(list) ==
    /\ guardians' = list
    /\ signatures' = <<>>
    /\ request' = NoRequest
    /\ built' = "new"

SignAll(body) ==
    /\ signatures' = SignAllOf(guardians, body)
    /\ request' = [kind |-> "all", body |-> body]
    /\ UNCHANGED <<guardians, built>>

SignWith(body, indices) ==
    /\ signatures' = SignWithOf(guardians, body, indices)
    /\ request' = [kind |-> "with", body |-> body, indices |-> indices]
    /\ UNCHANGED <<guardians, built>>

\* Index lists of at most MaxRequest u8 values.
IndexLists == UNION {[1..n -> IndexRange] : n \in 0..MaxRequest}

\* Guardian lists a test builds by hand, of at most MaxNew guardians.
NewLists ==
    LET made == {NewGuardian(x, i) : x \in {DefaultSecret} \cup OtherSecrets, i \in IndexRange}
    IN  UNION {[1..n -> made] : n \in 0..MaxNew}

Next ==
    \/ \E count \in 0..MaxCount, seed \in Seeds : Generate(count, seed)
    \/ UseDefault
    \/ \E list \in NewLists : NewSet(list)
    \/ \E body \in Bodies : SignAll(body)
    \/ \E body \in Bodies, indices \in IndexLists : SignWith(body, indices)

Spec == Init /\ [][Next]_vars

-----------------------------------------------------------------------------
(* Properties.                                                             *)

Secrets == {DefaultSecret} \cup OtherSecrets
           \cup {GeneratedSecret(s, i) : s \in Seeds, i \in 0..MaxCount}

Guardians == [secret : Secrets, eth_address : {EthAddress(x) : x \in Secrets},
              index : IndexRange]

SignatureRecords == [index : IndexRange,
                     signer : {g.eth_address : g \in Guardians},
                     digest : {VaaDigest(b) : b \in Bodies}]

\* Every variable has its type: guardians carry u8 indices, and every
\* record has a u8 index byte, a guardian's address and the digest of a
\* VAA body.
TypeOK ==
    /\ guardians \in Seq(Guardians)
    /\ signatures \in Seq(SignatureRecords)
    /\ request \in {NoRequest} \cup [kind : {"all"}, body : Bodies]
                   \cup [kind : {"with"}, body : Bodies, indices : IndexLists]
    /\ built \in {"default", "generate", "new"}

\* For a set made by default() or generate(), a verifier that reads a
\* record's index byte and looks the address up in the set's
\* eth_addresses() finds the guardian that signed it, and the record is
\* over the digest of the body that was asked for.
SignaturesAttributable ==
    built # "new" =>
    \A k \in DOMAIN signatures :
        LET s == signatures[k] IN
        /\ s.index < Len(guardians)
        /\ EthAddresses(guardians)[s.index + 1] = s.signer
        /\ s.digest = VaaDigest(request.body)

\* sign_vaa_body_with returns one record per requested index that is
\* inside the set, in the order requested: there is an increasing map from
\* the records to the positions of the in-range requested indices, onto
\* them, and each record is the one the guardian at the requested
\* position makes (its key, its stored index byte).
SubsetSelection ==
    request.kind = "with" =>
        LET ix == request.indices
            inRange == {j \in DOMAIN ix : ix[j] < Len(guardians)}
        IN  \E f \in [DOMAIN signatures -> inRange] :
                /\ \A a, b \in DOMAIN signatures : a < b => f[a] < f[b]
                /\ {f[a] : a \in DOMAIN signatures} = inRange
                /\ \A a \in DOMAIN signatures :
                      LET g == guardians[ix[f[a]] + 1] IN
                      /\ signatures[a].signer = g.eth_address
                      /\ signatures[a].index = g.index

=============================================================================
