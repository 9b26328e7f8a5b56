-------------------------- MODULE GuardianSetProofs --------------------------
(***************************************************************************)
(* Proofs about GuardianSet: the selection sign_vaa_body_with makes, the   *)
(* types of every set and record, and the invariants of the signing calls *)
(* for every index width, seed set, body set and bound.                    *)
(***************************************************************************)
EXTENDS GuardianSet, FiniteSetTheorems, TLAPS

-----------------------------------------------------------------------------
(* The rank of a position among a finite set of positions.                 *)

\* The positions up to j are a finite part of K.
LEMMA RankBase ==
    ASSUME NEW K, IsFiniteSet(K), NEW j
    PROVE  /\ IsFiniteSet({i \in K : i <= j})
           /\ Rank(K, j) \in Nat
           /\ Rank(K, j) <= Cardinality(K)
<1>1. {i \in K : i <= j} \in SUBSET K
    OBVIOUS
<1>2. QED
    BY <1>1, FS_Subset, FS_CardinalityType DEF Rank

\* A position of K has a rank between 1 and the size of K.
LEMMA RankRange ==
    ASSUME NEW K, IsFiniteSet(K), K \subseteq Nat, NEW j \in K
    PROVE  Rank(K, j) \in 1..Cardinality(K)
<1>1. {i \in K : i <= j} # {}
    BY DEF Rank
<1>2. Rank(K, j) # 0
    BY <1>1, RankBase, FS_EmptySet DEF Rank
<1>3. Rank(K, j) \in Nat /\ Rank(K, j) <= Cardinality(K)
    BY RankBase
<1>4. Cardinality(K) \in Nat
    BY FS_CardinalityType
<1>5. QED
    BY <1>2, <1>3, <1>4

\* A later position of K has a larger rank.
LEMMA RankStrict ==
    ASSUME NEW K, IsFiniteSet(K), K \subseteq Nat,
           NEW a \in K, NEW b \in K, a < b
    PROVE  Rank(K, a) < Rank(K, b)
<1> DEFINE A == {i \in K : i <= a}
           B == {i \in K : i <= b}
<1>1. IsFiniteSet(A) /\ IsFiniteSet(B)
    BY RankBase
<1>2. b \notin A /\ A \cup {b} \in SUBSET B
    <2>1. a \in Nat /\ b \in Nat
        OBVIOUS
    <2>2. b \notin A
        BY <2>1
    <2>3. \A i \in A : i \in B
        BY <2>1
    <2>4. b \in B
        BY <2>1
    <2>5. QED
        BY <2>2, <2>3, <2>4
<1>3. Cardinality(A \cup {b}) = Cardinality(A) + 1
    BY <1>1, <1>2, FS_AddElement
<1>4. Cardinality(A \cup {b}) <= Cardinality(B)
    BY <1>1, <1>2, FS_Subset
<1>5. QED
    BY <1>3, <1>4, <1>1, FS_CardinalityType DEF Rank

\* Every rank from 1 to the size of K is the rank of a position of K: the
\* ranks are one-to-one into 1..Cardinality(K), which has as many values.
LEMMA RankOnto ==
    ASSUME NEW K, IsFiniteSet(K), K \subseteq Nat, NEW k \in 1..Cardinality(K)
    PROVE  \E j \in K : Rank(K, j) = k
<1> DEFINE f == [j \in K |-> Rank(K, j)]
           T == 1..Cardinality(K)
<1>1. Cardinality(K) \in Nat
    BY FS_CardinalityType
<1>2. IsFiniteSet(T) /\ Cardinality(T) = Cardinality(K)
    BY <1>1, FS_Interval
<1>3. f \in Injection(K, T)
    <2>1. f \in [K -> T]
        BY RankRange
    <2>2. \A a, b \in K : f[a] = f[b] => a = b
        <3> SUFFICES ASSUME NEW a \in K, NEW b \in K, a # b PROVE f[a] # f[b]
            OBVIOUS
        <3>0. /\ f[a] = Rank(K, a) /\ f[b] = Rank(K, b)
              /\ Rank(K, a) \in Nat /\ Rank(K, b) \in Nat
            BY RankBase
        <3>1. CASE a < b
            <4>1. Rank(K, a) < Rank(K, b)
                BY <3>1, RankStrict
            <4>2. QED
                BY <4>1, <3>0
        <3>2. CASE b < a
            <4>1. Rank(K, b) < Rank(K, a)
                BY <3>2, RankStrict
            <4>2. QED
                BY <4>1, <3>0
        <3>3. QED
            BY <3>1, <3>2
    <2>3. QED
        BY <2>1, <2>2 DEF Injection, IsInjective
<1>4. f \in Surjection(K, T)
    BY <1>2, <1>3, FS_Injection
<1>5. QED
    BY <1>4 DEF Surjection

-----------------------------------------------------------------------------
(* What indices.iter().filter_map(|&i| guardians.get(i)) returns.          *)

\* The kept positions are a finite set of positions of the index list.
LEMMA KeptFinite ==
    ASSUME NEW S, NEW set \in Seq(S), NEW indices \in Seq(Nat)
    PROVE  /\ Kept(set, indices) \subseteq 1..Len(indices)
           /\ IsFiniteSet(Kept(set, indices))
           /\ Cardinality(Kept(set, indices)) \in Nat
<1>1. Kept(set, indices) \subseteq 1..Len(indices)
    BY DEF Kept
<1>2. IsFiniteSet(1..Len(indices))
    BY FS_Interval
<1>3. QED
    BY <1>1, <1>2, FS_Subset, FS_CardinalityType

\* The k-th selected position is a kept position, and its rank is k.
LEMMA KeptAtSpec ==
    ASSUME NEW S, NEW set \in Seq(S), NEW indices \in Seq(Nat),
           NEW k \in 1..Cardinality(Kept(set, indices))
    PROVE  /\ KeptAt(set, indices, k) \in Kept(set, indices)
           /\ Rank(Kept(set, indices), KeptAt(set, indices, k)) = k
<1>1. \E j \in Kept(set, indices) : Rank(Kept(set, indices), j) = k
    BY KeptFinite, RankOnto
<1>2. QED
    BY <1>1 DEF KeptAt

\* Two kept positions of the same rank are the same position.
LEMMA RankInjective ==
    ASSUME NEW K, IsFiniteSet(K), K \subseteq Nat, NEW a \in K, NEW b \in K,
           Rank(K, a) = Rank(K, b)
    PROVE  a = b
<1>0. Rank(K, a) \in Nat /\ Rank(K, b) \in Nat
    BY RankBase
<1>1. CASE a < b
    <2>1. Rank(K, a) < Rank(K, b)
        BY <1>1, RankStrict
    <2>2. QED
        BY <2>1, <1>0
<1>2. CASE b < a
    <2>1. Rank(K, b) < Rank(K, a)
        BY <1>2, RankStrict
    <2>2. QED
        BY <2>1, <1>0
<1>3. QED
    BY <1>1, <1>2

\* The selection keeps the order of the request: a later selected record
\* comes from a later position of the index list.
LEMMA KeptAtIncreasing ==
    ASSUME NEW S, NEW set \in Seq(S), NEW indices \in Seq(Nat),
           NEW a \in 1..Cardinality(Kept(set, indices)),
           NEW b \in 1..Cardinality(Kept(set, indices)), a < b
    PROVE  KeptAt(set, indices, a) < KeptAt(set, indices, b)
<1> DEFINE K == Kept(set, indices)
           x == KeptAt(set, indices, a)
           y == KeptAt(set, indices, b)
<1>1. IsFiniteSet(K) /\ K \subseteq Nat
    BY KeptFinite
<1>2. x \in K /\ y \in K /\ Rank(K, x) = a /\ Rank(K, y) = b
    BY KeptAtSpec
<1>3. x # y
    BY <1>2
<1>4. ~(y < x)
    <2>1. SUFFICES ASSUME y < x PROVE FALSE
        OBVIOUS
    <2>2. Rank(K, y) < Rank(K, x)
        BY <2>1, <1>1, <1>2, RankStrict
    <2>3. QED
        BY <2>2, <1>2
<1>5. QED
    BY <1>1, <1>2, <1>3, <1>4

\* Every kept position is selected, at its rank.
LEMMA KeptAtOnto ==
    ASSUME NEW S, NEW set \in Seq(S), NEW indices \in Seq(Nat),
           NEW j \in Kept(set, indices)
    PROVE  /\ Rank(Kept(set, indices), j) \in 1..Cardinality(Kept(set, indices))
           /\ KeptAt(set, indices, Rank(Kept(set, indices), j)) = j
<1> DEFINE K == Kept(set, indices)
<1>1. IsFiniteSet(K) /\ K \subseteq Nat
    BY KeptFinite
<1>2. Rank(K, j) \in 1..Cardinality(K)
    BY <1>1, RankRange
<1>3. KeptAt(set, indices, Rank(K, j)) \in K
      /\ Rank(K, KeptAt(set, indices, Rank(K, j))) = Rank(K, j)
    BY <1>2, KeptAtSpec
<1>4. QED
    BY <1>1, <1>2, <1>3, RankInjective

\* The selection is a list of indices of guardians of the set, each the
\* index requested at its kept position.
LEMMA SelectedSpec ==
    ASSUME NEW S, NEW set \in Seq(S), NEW indices \in Seq(Nat)
    PROVE  /\ Len(Selected(set, indices)) = Cardinality(Kept(set, indices))
           /\ \A k \in 1..Cardinality(Kept(set, indices)) :
                 /\ Selected(set, indices)[k] = indices[KeptAt(set, indices, k)]
                 /\ Selected(set, indices)[k] \in 0..(Len(set) - 1)
<1>1. Cardinality(Kept(set, indices)) \in Nat
    BY KeptFinite
<1>2. \A k \in 1..Cardinality(Kept(set, indices)) :
         KeptAt(set, indices, k) \in Kept(set, indices)
    BY KeptAtSpec
<1>3. QED
    BY <1>1, <1>2 DEF Selected, Kept

\* sign_vaa_body_with returns, for the k-th kept position, the record of
\* the guardian the index at that position names.
LEMMA SignWithSpec ==
    ASSUME NEW S, NEW set \in Seq(S), NEW indices \in Seq(Nat), NEW body
    PROVE  LET n == Cardinality(Kept(set, indices))
               sigs == SignWithOf(set, body, indices)
           IN  /\ sigs = [k \in 1..n |->
                            SignVaaBody(set[indices[KeptAt(set, indices, k)] + 1], body)]
               /\ \A k \in 1..n : indices[KeptAt(set, indices, k)] + 1 \in 1..Len(set)
<1> DEFINE n == Cardinality(Kept(set, indices))
           valid == Selected(set, indices)
<1>1. n \in Nat
    BY KeptFinite
<1>2. /\ Len(valid) = n
      /\ \A k \in 1..n : valid[k] = indices[KeptAt(set, indices, k)]
                        /\ valid[k] \in 0..(Len(set) - 1)
    BY SelectedSpec
<1>3. SignWithOf(set, body, indices)
        = [k \in 1..n |-> SignVaaBody(set[indices[KeptAt(set, indices, k)] + 1], body)]
    BY <1>2 DEF SignWithOf
<1>4. \A k \in 1..n : indices[KeptAt(set, indices, k)] + 1 \in 1..Len(set)
    BY <1>2
<1>5. QED
    BY <1>3, <1>4

-----------------------------------------------------------------------------
(* Types.                                                                  *)

\* Index lists are lists of u8 values.
LEMMA IndexListsType == IndexLists \subseteq Seq(IndexRange)
BY DEF IndexLists

\* Every guardian a test builds is a guardian of the model.
LEMMA GenerateType ==
    ASSUME NEW count \in 0..MaxCount, NEW seed \in Seeds
    PROVE  generate(count, seed) \in Seq(Guardians)
BY ConstantsAssumption DEF generate, NewGuardian, Guardians, Secrets, IndexRange

LEMMA NewListsType == NewLists \subseteq Seq(Guardians)
<1> DEFINE made == {NewGuardian(x, i) : x \in {DefaultSecret} \cup OtherSecrets,
                                      i \in IndexRange}
<1>1. made \subseteq Guardians
    BY DEF NewGuardian, Guardians, Secrets
<1>2. \A n \in 0..MaxNew : [1..n -> made] \subseteq Seq(Guardians)
    BY <1>1, ConstantsAssumption
<1>3. QED
    BY <1>2 DEF NewLists

LEMMA DefaultSetType == DefaultSet \in Seq(Guardians)
BY ConstantsAssumption DEF DefaultSet, NewGuardian, Guardians, Secrets, IndexRange

\* A guardian's record over a body of the model is a signature record.
LEMMA SignVaaBodyType ==
    ASSUME NEW g \in Guardians, NEW body \in Bodies
    PROVE  SignVaaBody(g, body) \in SignatureRecords
BY DEF SignVaaBody, SignatureRecords, Guardians

LEMMA TypeOKStep == TypeOK /\ [Next]_vars => TypeOK'
<1> SUFFICES ASSUME TypeOK, [Next]_vars PROVE TypeOK'
    OBVIOUS
<1>1. guardians \in Seq(Guardians)
    BY DEF TypeOK
<1>2. ASSUME NEW count \in 0..MaxCount, NEW seed \in Seeds, Generate(count, seed)
      PROVE  TypeOK'
    BY <1>2, GenerateType DEF Generate, TypeOK, NoRequest
<1>3. CASE UseDefault
    BY <1>3, DefaultSetType DEF UseDefault, TypeOK, NoRequest
<1>4. ASSUME NEW list \in NewLists, NewSet(list) PROVE TypeOK'
    BY <1>4, NewListsType DEF NewSet, TypeOK, NoRequest
<1>5. ASSUME NEW body \in Bodies, SignAll(body) PROVE TypeOK'
    <2>1. SignAllOf(guardians, body) \in Seq(SignatureRecords)
        BY <1>1, SignVaaBodyType DEF SignAllOf
    <2>2. QED
        BY <1>5, <2>1 DEF SignAll, TypeOK
<1>6. ASSUME NEW body \in Bodies, NEW indices \in IndexLists, SignWith(body, indices)
      PROVE  TypeOK'
    <2>1. indices \in Seq(Nat)
        BY IndexListsType, ConstantsAssumption DEF IndexRange
    <2>2. SignWithOf(guardians, body, indices) \in Seq(SignatureRecords)
        <3> DEFINE n == Cardinality(Kept(guardians, indices))
        <3>1. n \in Nat
            BY <1>1, <2>1, KeptFinite
        <3>2. \A k \in 1..n :
                 SignVaaBody(guardians[indices[KeptAt(guardians, indices, k)] + 1], body)
                    \in SignatureRecords
            BY <1>1, <2>1, SignWithSpec, SignVaaBodyType
        <3>3. QED
            BY <1>1, <2>1, <3>1, <3>2, SignWithSpec
    <2>3. QED
        BY <1>6, <2>2 DEF SignWith, TypeOK
<1>7. CASE UNCHANGED vars
    BY <1>7 DEF vars, TypeOK
<1>8. QED
    BY <1>2, <1>3, <1>4, <1>5, <1>6, <1>7 DEF Next

\* TypeOK: whatever constructors and signing calls a test makes, every
\* guardian carries a u8 index and every record returned has a u8 index
\* byte, a guardian's address and the digest of a body.
THEOREM TypeCorrect == Spec => []TypeOK
<1>1. Init => TypeOK
    BY DefaultSetType DEF Init, TypeOK, NoRequest
<1>2. QED
    BY <1>1, TypeOKStep, PTL DEF Spec

-----------------------------------------------------------------------------
(* Attribution of the records of default and generated sets.               *)

\* generate is never asked for more guardians than the index byte has
\* values (256 for the u8 of the code); beyond that, i as u8 wraps and the
\* guardian_index_wrap run shows SignaturesAttributable failing.
GenerateFits == MaxCount <= IndexBase

\* In a set made by default() or generate() the guardian at position p
\* carries the index p - 1.
Positional ==
    built # "new" => \A p \in DOMAIN guardians : guardians[p].index = p - 1

AInv == TypeOK /\ Positional /\ SignaturesAttributable

\* A signing call on a positional set yields attributable records: the
\* record of the guardian at position q carries q - 1, which eth_addresses
\* maps back to that guardian's address.
LEMMA SignedAttributable ==
    ASSUME TypeOK, Positional, built # "new", NEW body, NEW q \in 1..Len(guardians)
    PROVE  LET s == SignVaaBody(guardians[q], body) IN
           /\ s.index < Len(guardians)
           /\ EthAddresses(guardians)[s.index + 1] = s.signer
           /\ s.digest = VaaDigest(body)
<1>1. guardians[q].index = q - 1 /\ guardians \in Seq(Guardians)
    BY DEF Positional, TypeOK
<1>2. QED
    BY <1>1 DEF SignVaaBody, EthAddresses

LEMMA AInvStep ==
    ASSUME GenerateFits
    PROVE  AInv /\ [Next]_vars => AInv'
<1> SUFFICES ASSUME AInv, [Next]_vars PROVE AInv'
    OBVIOUS
<1>0. TypeOK /\ guardians \in Seq(Guardians)
    BY DEF AInv, TypeOK
<1>1. TypeOK'
    BY <1>0, TypeOKStep
<1>2. ASSUME NEW count \in 0..MaxCount, NEW seed \in Seeds, Generate(count, seed)
      PROVE  AInv'
    <2>1. \A p \in 1..count : (p - 1) % IndexBase = p - 1
        BY ConstantsAssumption DEF GenerateFits
    <2>2. Positional'
        BY <1>2, <2>1 DEF Generate, generate, NewGuardian, Positional
    <2>3. SignaturesAttributable'
        BY <1>2 DEF Generate, SignaturesAttributable
    <2>4. QED
        BY <1>1, <2>2, <2>3 DEF AInv
<1>3. CASE UseDefault
    BY <1>1, <1>3 DEF UseDefault, DefaultSet, NewGuardian, Positional,
                      SignaturesAttributable, AInv
<1>4. ASSUME NEW list \in NewLists, NewSet(list) PROVE AInv'
    BY <1>1, <1>4 DEF NewSet, Positional, SignaturesAttributable, AInv
<1>5. ASSUME NEW body \in Bodies, SignAll(body) PROVE AInv'
    <2>1. Positional'
        BY <1>5 DEF SignAll, Positional, AInv
    <2>2. SignaturesAttributable'
        <3>1. CASE built = "new"
            BY <1>5, <3>1 DEF SignAll, SignaturesAttributable
        <3>2. CASE built # "new"
            BY <1>0, <1>5, <3>2, SignedAttributable
               DEF SignAll, SignAllOf, SignaturesAttributable, AInv
        <3>3. QED
            BY <3>1, <3>2
    <2>3. QED
        BY <1>1, <2>1, <2>2 DEF AInv
<1>6. ASSUME NEW body \in Bodies, NEW indices \in IndexLists, SignWith(body, indices)
      PROVE  AInv'
    <2>1. indices \in Seq(Nat)
        BY IndexListsType, ConstantsAssumption DEF IndexRange
    <2>2. Positional'
        BY <1>6 DEF SignWith, Positional, AInv
    <2>3. SignaturesAttributable'
        <3>1. CASE built = "new"
            BY <1>6, <3>1 DEF SignWith, SignaturesAttributable
        <3>2. CASE built # "new"
            <4> DEFINE n == Cardinality(Kept(guardians, indices))
                       q(k) == indices[KeptAt(guardians, indices, k)] + 1
            <4>1. /\ signatures' = [k \in 1..n |-> SignVaaBody(guardians[q(k)], body)]
                  /\ \A k \in 1..n : q(k) \in 1..Len(guardians)
                BY <1>0, <1>6, <2>1, SignWithSpec DEF SignWith
            <4>2. \A k \in 1..n :
                     LET s == SignVaaBody(guardians[q(k)], body) IN
                     /\ s.index < Len(guardians)
                     /\ EthAddresses(guardians)[s.index + 1] = s.signer
                     /\ s.digest = VaaDigest(body)
                BY <1>0, <3>2, <4>1, SignedAttributable DEF AInv
            <4>3. n \in Nat
                BY <1>0, <2>1, KeptFinite
            <4>4. QED
                BY <1>6, <4>1, <4>2, <4>3 DEF SignWith, SignaturesAttributable
        <3>3. QED
            BY <3>1, <3>2
    <2>4. QED
        BY <1>1, <2>2, <2>3 DEF AInv
<1>7. CASE UNCHANGED vars
    BY <1>7 DEF vars, AInv, TypeOK, Positional, SignaturesAttributable
<1>8. QED
    BY <1>2, <1>3, <1>4, <1>5, <1>6, <1>7 DEF Next

\* SignaturesAttributable: as long as generate is never asked for more
\* guardians than the u8 index has values, every record that sign_vaa_body
\* or sign_vaa_body_with returns for a default or generated set names, in
\* its index byte, the position of its signer in eth_addresses(), and is
\* over the digest of the body that was asked for.
THEOREM AttributableCorrect == GenerateFits => (Spec => []SignaturesAttributable)
<1> SUFFICES ASSUME GenerateFits PROVE Spec => []SignaturesAttributable
    OBVIOUS
<1>1. Init => AInv
    BY DefaultSetType DEF Init, AInv, TypeOK, NoRequest, Positional,
                          SignaturesAttributable, DefaultSet, NewGuardian
<1>2. AInv /\ [Next]_vars => AInv'
    BY AInvStep
<1>3. QED
    BY <1>1, <1>2, PTL DEF Spec, AInv

-----------------------------------------------------------------------------
(* The selection of sign_vaa_body_with.                                     *)

\* The selection of a sign_vaa_body_with call on the set held, in the
\* terms of SubsetSelection, is witnessed by the kept positions in order.
LEMMA SelectionWitness ==
    ASSUME NEW set \in Seq(Guardians), NEW body, NEW ix \in Seq(Nat)
    PROVE  LET sigs == SignWithOf(set, body, ix)
               inRange == {j \in DOMAIN ix : ix[j] < Len(set)}
               f == [a \in DOMAIN sigs |-> KeptAt(set, ix, a)]
           IN  /\ f \in [DOMAIN sigs -> inRange]
               /\ \A a, b \in DOMAIN sigs : a < b => f[a] < f[b]
               /\ {f[a] : a \in DOMAIN sigs} = inRange
               /\ \A a \in DOMAIN sigs :
                     /\ sigs[a].signer = set[ix[f[a]] + 1].eth_address
                     /\ sigs[a].index = set[ix[f[a]] + 1].index
<1> DEFINE n == Cardinality(Kept(set, ix))
           sigs == SignWithOf(set, body, ix)
           f == [a \in DOMAIN sigs |-> KeptAt(set, ix, a)]
<1>1. n \in Nat /\ Kept(set, ix) = {j \in DOMAIN ix : ix[j] < Len(set)}
    <2>1. n \in Nat
        BY KeptFinite
    <2>2. Kept(set, ix) = {j \in DOMAIN ix : ix[j] < Len(set)}
        BY DEF Kept
    <2>3. QED
        BY <2>1, <2>2
<1>2. sigs = [k \in 1..n |-> SignVaaBody(set[ix[KeptAt(set, ix, k)] + 1], body)]
    BY SignWithSpec
<1>3. DOMAIN sigs = 1..n
    BY <1>2
<1>4. f \in [DOMAIN sigs -> Kept(set, ix)]
    BY <1>3, KeptAtSpec
<1>5. \A a, b \in DOMAIN sigs : a < b => f[a] < f[b]
    BY <1>3, KeptAtIncreasing
<1>6. {f[a] : a \in DOMAIN sigs} = Kept(set, ix)
    <2>1. \A j \in Kept(set, ix) : \E a \in DOMAIN sigs : f[a] = j
        BY <1>3, KeptAtOnto
    <2>2. QED
        BY <1>4, <2>1
<1>7. \A a \in DOMAIN sigs :
         /\ sigs[a].signer = set[ix[f[a]] + 1].eth_address
         /\ sigs[a].index = set[ix[f[a]] + 1].index
    BY <1>2, <1>3 DEF SignVaaBody
<1>8. QED
    BY <1>1, <1>4, <1>5, <1>6, <1>7

LEMMA SelectionStep == TypeOK /\ SubsetSelection /\ [Next]_vars => SubsetSelection'
<1> SUFFICES ASSUME TypeOK, SubsetSelection, [Next]_vars PROVE SubsetSelection'
    OBVIOUS
<1>0. guardians \in Seq(Guardians)
    BY DEF TypeOK
<1>1. ASSUME NEW count \in 0..MaxCount, NEW seed \in Seeds, Generate(count, seed)
      PROVE  SubsetSelection'
    BY <1>1 DEF Generate, NoRequest, SubsetSelection
<1>2. CASE UseDefault
    BY <1>2 DEF UseDefault, NoRequest, SubsetSelection
<1>3. ASSUME NEW list \in NewLists, NewSet(list) PROVE SubsetSelection'
    BY <1>3 DEF NewSet, NoRequest, SubsetSelection
<1>4. ASSUME NEW body \in Bodies, SignAll(body) PROVE SubsetSelection'
    BY <1>4 DEF SignAll, SubsetSelection
<1>5. ASSUME NEW body \in Bodies, NEW indices \in IndexLists, SignWith(body, indices)
      PROVE  SubsetSelection'
    <2>1. indices \in Seq(Nat)
        BY IndexListsType, ConstantsAssumption DEF IndexRange
    <2>2. request'.kind = "with" /\ request'.indices = indices
          /\ guardians' = guardians
          /\ signatures' = SignWithOf(guardians, body, indices)
        BY <1>5 DEF SignWith
    <2>3. LET sigs == SignWithOf(guardians, body, indices)
              inRange == {j \in DOMAIN indices : indices[j] < Len(guardians)}
              f == [a \in DOMAIN sigs |-> KeptAt(guardians, indices, a)]
          IN  /\ f \in [DOMAIN sigs -> inRange]
              /\ \A a, b \in DOMAIN sigs : a < b => f[a] < f[b]
              /\ {f[a] : a \in DOMAIN sigs} = inRange
              /\ \A a \in DOMAIN sigs :
                    /\ sigs[a].signer = guardians[indices[f[a]] + 1].eth_address
                    /\ sigs[a].index = guardians[indices[f[a]] + 1].index
        BY <1>0, <2>1, SelectionWitness
    <2>4. LET sigs == SignWithOf(guardians, body, indices)
              inRange == {j \in DOMAIN indices : indices[j] < Len(guardians)}
          IN  \E f \in [DOMAIN sigs -> inRange] :
                /\ \A a, b \in DOMAIN sigs : a < b => f[a] < f[b]
                /\ {f[a] : a \in DOMAIN sigs} = inRange
                /\ \A a \in DOMAIN sigs :
                      /\ sigs[a].signer = guardians[indices[f[a]] + 1].eth_address
                      /\ sigs[a].index = guardians[indices[f[a]] + 1].index
        BY <2>3
    <2>5. QED
        BY <2>2, <2>4 DEF SubsetSelection
<1>6. CASE UNCHANGED vars
    BY <1>6 DEF vars, SubsetSelection
<1>7. QED
    BY <1>1, <1>2, <1>3, <1>4, <1>5, <1>6 DEF Next

\* SubsetSelection: for every set a test holds, sign_vaa_body_with returns
\* exactly one record per requested index that names a guardian of the set,
\* in the order the indices were requested, each made by the guardian at
\* that position; the indices past the end are skipped.
THEOREM SelectionCorrect == Spec => []SubsetSelection
<1>1. Init => SubsetSelection
    BY DEF Init, NoRequest, SubsetSelection
<1>2. QED
    BY <1>1, SelectionStep, TypeCorrect, PTL DEF Spec

=============================================================================
