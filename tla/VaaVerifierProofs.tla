-------------------------- MODULE VaaVerifierProofs --------------------------
(***************************************************************************)
(* Proofs about the example verifier of VaaVerifier, for every byte width *)
(* (ByteBase), VAA format (VaaHeaderLen, BodyMinLen, VaaVersion), shim    *)
(* configuration and set of VAAs whose lengths a u32 holds: the type      *)
(* invariant, and that process_instruction decodes what                   *)
(* build_verify_vaa_instruction encodes.                                   *)
(***************************************************************************)
EXTENDS VaaVerifier, SequenceTheorems, TLAPS

-----------------------------------------------------------------------------
(* The little-endian length.                                              *)

LEMMA BaseFacts ==
    /\ ByteBase \in Nat \ {0, 1}
    /\ ByteBase * ByteBase \in Nat \ {0}
    /\ ByteBase * ByteBase * ByteBase \in Nat \ {0}
    /\ U32Size \in Nat \ {0}
BY ConstantsAssumption DEF U32Size

\* Euclidean division by the base.
LEMMA DivMod ==
    ASSUME NEW x \in Nat
    PROVE  /\ x = (x % ByteBase) + ByteBase * (x \div ByteBase)
           /\ x \div ByteBase \in Nat
           /\ x % ByteBase \in Byte
BY BaseFacts DEF Byte

\* Dividing twice is dividing by the product.
LEMMA DivDiv ==
    ASSUME NEW x \in Nat, NEW c \in Nat \ {0}
    PROVE  (x \div ByteBase) \div c = x \div (ByteBase * c)
BY BaseFacts

\* A four-digit number read back from its digits (Horner's rule).
LEMMA Horner ==
    ASSUME NEW a \in Nat, NEW b \in Nat, NEW c \in Nat, NEW d \in Nat
    PROVE  a + b * ByteBase + c * (ByteBase * ByteBase) + d * (ByteBase * ByteBase * ByteBase)
             = a + ByteBase * (b + ByteBase * (c + ByteBase * d))
BY BaseFacts

\* to_le_bytes gives four bytes, and from_le_bytes reads back any u32.
LEMMA LeRoundTrip ==
    ASSUME NEW n \in 0..(U32Size - 1)
    PROVE  /\ ToLe(n) \in [1..4 -> Byte]
           /\ FromLe(ToLe(n)) = n
<1> DEFINE B == ByteBase
           q1 == n \div B
           q2 == q1 \div B
           q3 == q2 \div B
<1>1. n \in Nat /\ q1 \in Nat /\ q2 \in Nat /\ q3 \in Nat
    BY DivMod
<1>2. n \div (B * B) = q2 /\ n \div (B * B * B) = q3
    <2>1. n \div (B * B) = q2
        BY <1>1, BaseFacts, DivDiv
    <2>2. q1 \div (B * B) = q3
        BY <1>1, BaseFacts, DivDiv
    <2>3. n \div (B * (B * B)) = q3
        BY <2>2, <1>1, BaseFacts, DivDiv
    <2>4. QED
        BY <2>1, <2>3, BaseFacts
<1>3. ToLe(n) = <<n % B, q1 % B, q2 % B, q3 % B>>
    BY <1>2 DEF ToLe
<1>4. ToLe(n) \in [1..4 -> Byte]
    BY <1>1, <1>3, DivMod
<1>5. q3 < B
    BY <1>2, BaseFacts DEF U32Size
<1>6. n = (n % B) + B * ((q1 % B) + B * ((q2 % B) + B * (q3 % B)))
    BY <1>1, <1>5, DivMod, BaseFacts
<1>7. FromLe(ToLe(n)) = (n % B) + (q1 % B) * B + (q2 % B) * (B * B) + (q3 % B) * (B * B * B)
    BY <1>3 DEF FromLe
<1>8. (n % B) + (q1 % B) * B + (q2 % B) * (B * B) + (q3 % B) * (B * B * B)
        = (n % B) + B * ((q1 % B) + B * ((q2 % B) + B * (q3 % B)))
    <2>1. n % B \in Nat /\ q1 % B \in Nat /\ q2 % B \in Nat /\ q3 % B \in Nat
        BY <1>1, BaseFacts
    <2>2. QED
        BY <2>1, Horner
<1>9. QED
    BY <1>4, <1>6, <1>7, <1>8

-----------------------------------------------------------------------------
(* The instruction data build_instruction_data lays out.                   *)

\* The data of a built instruction has the bump first, the VAA's length
\* where process_instruction reads it, and the VAA where it slices it.
LEMMA BuiltLayout ==
    ASSUME NEW bump \in Byte, NEW vaa \in Seq(Byte), Len(vaa) < U32Size
    PROVE  LET d == build_instruction_data(bump, vaa) IN
           /\ d \in Seq(Byte)
           /\ Len(d) = 5 + Len(vaa)
           /\ d[1] = bump
           /\ VaaLen(d) = Len(vaa)
           /\ ~DataTooShort(d)
           /\ VaaBytes(d) = vaa
<1> DEFINE L == Len(vaa)
           T == ToLe(L % U32Size)
           d == build_instruction_data(bump, vaa)
<1>1. L % U32Size = L /\ L \in 0..(U32Size - 1)
    BY BaseFacts
<1>2. T \in [1..4 -> Byte] /\ FromLe(T) = L
    BY <1>1, LeRoundTrip
<1>3. T \in Seq(Byte) /\ Len(T) = 4
    <2>1. T \in UNION {[1..n -> Byte] : n \in Nat}
        BY <1>2
    <2>2. QED
        BY <2>1, <1>2, SeqDef
<1>4. DEFINE H == <<bump>> \o T
<1>5. /\ H \in Seq(Byte)
      /\ Len(H) = 5
      /\ H[1] = bump
      /\ \A i \in 1..4 : H[i + 1] = T[i]
    <2>1. <<bump>> \in Seq(Byte) /\ Len(<<bump>>) = 1
        OBVIOUS
    <2>2. /\ <<bump>> \o T \in Seq(Byte)
          /\ Len(<<bump>> \o T) = Len(<<bump>>) + Len(T)
          /\ \A i \in 1..(Len(<<bump>>) + Len(T)) :
                (<<bump>> \o T)[i] = IF i <= Len(<<bump>>) THEN <<bump>>[i] ELSE T[i - Len(<<bump>>)]
        BY <2>1, <1>3, ConcatProperties, Zenon
    <2>3. QED
        BY <2>1, <2>2, <1>3
<1>6. /\ d \in Seq(Byte)
      /\ Len(d) = 5 + L
      /\ d[1] = bump
      /\ \A i \in 1..4 : d[i + 1] = T[i]
      /\ \A i \in 1..L : d[5 + i] = vaa[i]
    <2>1. d = H \o vaa
        BY DEF build_instruction_data
    <2>2. QED
        BY <2>1, <1>5, ConcatProperties
<1>7. SubSeq(d, 2, 5) = T
    BY <1>3, <1>6
<1>8. VaaLen(d) = L
    BY <1>2, <1>7 DEF VaaLen
<1>9. SubSeq(d, 6, 5 + L) = vaa
    BY <1>6
<1>10. QED
    BY <1>6, <1>8, <1>9 DEF DataTooShort, VaaBytes

-----------------------------------------------------------------------------
(* The inductive invariant.  BuiltRoundTrip alone is not inductive: the   *)
(* step that processes a built instruction needs its accounts and data to *)
(* be what build_verify_vaa_instruction made, and a step that returns     *)
(* early needs that no CPI was made before the return.                    *)

\* A built instruction is what build_verify_vaa_instruction returns for
\* the arguments kept with it.
BuiltShape ==
    ix.origin = "built" =>
        /\ \E payer \in Keys : ix.accounts = <<payer, ix.gs, ix.sigs, SHIM_ID>>
        /\ ix.data = build_instruction_data(ix.bump, ix.vaa)
        /\ ix.vaa \in Vaas

\* Nothing is returned before an instruction is submitted, and no CPI is
\* made before process_instruction returns.
Fresh ==
    /\ ix = NoIx => outcome = Pending
    /\ outcome = Pending => cpi = NoCpi

IInv == TypeOK /\ BuiltShape /\ Fresh /\ BuiltRoundTrip

\* The verify_hash requests TypeOK allows.
Requests ==
    [guardian_set : Keys, guardian_signatures : Keys, bump : Byte,
     digest : {"keccak256"} \X ({"keccak256"} \X Seq(Byte))]

\* Instruction data other callers submit is a byte string.
LEMMA DataSpaceSeq == DataSpace \subseteq Seq(Byte)
BY ConstantsAssumption, SeqDef DEF DataSpace

\* A submitted instruction has a list of accounts and a byte string.
LEMMA IxFields ==
    ASSUME TypeOK, ix # NoIx
    PROVE  ix.accounts \in Seq(Keys) /\ ix.data \in Seq(Byte)
BY DEF TypeOK, Instructions

\* A length of at least five bytes is not one of 1..4.
LEMMA LongNotShort ==
    ASSUME NEW x, x >= 5, x \in 1..4
    PROVE  FALSE
OBVIOUS

\* A built instruction passes every account and layout check and its VAA
\* is sliced back out of its data.
LEMMA BuiltFacts ==
    ASSUME TypeOK, BuiltShape, ix.origin = "built"
    PROVE  /\ Len(ix.accounts) = 4
           /\ ix.accounts[2] = ix.gs /\ ix.accounts[3] = ix.sigs
           /\ ix.accounts[4] = SHIM_ID
           /\ Len(ix.data) = 5 + Len(ix.vaa)
           /\ Len(ix.data) >= 5
           /\ ix.data[1] = ix.bump
           /\ ~DataTooShort(ix.data)
           /\ VaaBytes(ix.data) = ix.vaa
<1>1. /\ ix.bump \in Byte
      /\ ix.vaa \in Vaas
      /\ ix.data = build_instruction_data(ix.bump, ix.vaa)
      /\ \E payer \in Keys : ix.accounts = <<payer, ix.gs, ix.sigs, SHIM_ID>>
    BY DEF TypeOK, Instructions, BuiltShape, NoIx
<1>2. ix.vaa \in Seq(Byte) /\ Len(ix.vaa) < U32Size
    BY <1>1, ConstantsAssumption, VaasAssumption
<1>3. Len(ix.vaa) \in Nat
    BY <1>2, LenProperties
<1>4. QED
    BY <1>1, <1>2, <1>3, BuiltLayout

\* The request the CPI makes has the type TypeOK allows: the accounts
\* exist, the bump is the first byte and the digest is over bytes of the
\* data.
LEMMA RequestType ==
    ASSUME TypeOK, LengthRead, ~DataTooShort(ix.data)
    PROVE  VerifyHashRequest(ix) \in Requests
<1> DEFINE a == ix.accounts
           d == ix.data
           v == VaaBytes(d)
<1>1. a \in Seq(Keys) /\ d \in Seq(Byte) /\ Len(a) >= 4 /\ Len(d) >= 5
    BY IxFields DEF LengthRead, AccountsChecked, Processing
<1>2. a[2] \in Keys /\ a[3] \in Keys /\ d[1] \in Byte
    BY <1>1, ElementOfSeq
<1>3. SubSeq(d, 2, 5) \in Seq(Byte) /\ \A i \in 1..4 : SubSeq(d, 2, 5)[i] = d[i + 1]
    <2>1. \A i \in 2..5 : d[i] \in Byte
        BY <1>1, ElementOfSeq
    <2>2. QED
        BY <2>1, SubSeqProperties
<1>4. VaaLen(d) \in Nat
    <2>1. \A i \in 1..4 : SubSeq(d, 2, 5)[i] \in Nat
        BY <1>1, <1>3, ElementOfSeq DEF Byte
    <2> DEFINE s == SubSeq(d, 2, 5)
    <2>2. s[1] \in Nat /\ s[2] \in Nat /\ s[3] \in Nat /\ s[4] \in Nat
        BY <2>1
    <2>3. /\ s[2] * ByteBase \in Nat
          /\ s[3] * (ByteBase * ByteBase) \in Nat
          /\ s[4] * (ByteBase * ByteBase * ByteBase) \in Nat
        BY <2>2, BaseFacts
    <2>4. QED
        BY <2>2, <2>3 DEF VaaLen, FromLe
<1>5. v \in Seq(Byte)
    <2>1. \A i \in 6..(5 + VaaLen(d)) : d[i] \in Byte
        BY <1>1, <1>4, ElementOfSeq DEF DataTooShort
    <2>2. QED
        BY <2>1, <1>4, SubSeqProperties DEF VaaBytes
<1>6. Body(v) \in Seq(Byte)
    <2>1. \A i \in (VaaHeaderLen + 1)..Len(v) : v[i] \in Byte
        BY <1>5, ConstantsAssumption, ElementOfSeq
    <2>2. QED
        BY <2>1, <1>5, ConstantsAssumption, SubSeqProperties DEF Body
<1>7. QED
    BY <1>2, <1>6 DEF VerifyHashRequest, Requests, Keccak

-----------------------------------------------------------------------------
(* Every step keeps IInv: one case per action.                             *)

\* An early return of process_instruction keeps the instruction and makes
\* no CPI; it keeps every conjunct but BuiltRoundTrip.
LEMMA EarlyReturnStep ==
    ASSUME IInv, Processing, NEW o \in Outcomes \ {Pending},
           outcome' = o, UNCHANGED <<ix, cpi>>
    PROVE  TypeOK' /\ BuiltShape' /\ Fresh'
BY DEF IInv, TypeOK, BuiltShape, Fresh, Processing

\* The CPI step keeps every conjunct but BuiltRoundTrip.
LEMMA InvokedStep ==
    ASSUME IInv, Invoked, NEW o \in Outcomes \ {Pending}, outcome' = o
    PROVE  TypeOK' /\ BuiltShape' /\ Fresh'
<1>1. VerifyHashRequest(ix) \in Requests
    BY RequestType DEF IInv, Invoked
<1>2. cpi' \in Requests /\ ix' = ix /\ ix # NoIx
    BY <1>1 DEF Invoked, LengthRead, AccountsChecked, Processing
<1>3. QED
    BY <1>2 DEF IInv, TypeOK, Requests, BuiltShape, Fresh

LEMMA IInvStep == IInv /\ [Next]_vars => IInv'
<1> SUFFICES ASSUME IInv, [Next]_vars PROVE IInv'
    OBVIOUS
<1>0. TypeOK /\ BuiltShape /\ Fresh /\ BuiltRoundTrip
    BY DEF IInv
<1>1. ASSUME NEW payer \in Keys, NEW gs \in Keys, NEW sigs \in Keys,
             NEW bump \in Byte, NEW vaa \in Vaas,
             Build(payer, gs, sigs, bump, vaa)
      PROVE  IInv'
    <2>1. vaa \in Seq(Byte) /\ Len(vaa) < U32Size
        BY ConstantsAssumption, VaasAssumption
    <2>2. build_instruction_data(bump, vaa) \in Seq(Byte)
        BY <2>1, BuiltLayout
    <2>3. <<payer, gs, sigs, SHIM_ID>> \in Seq(Keys)
        BY ConstantsAssumption
    <2>4. outcome' = Pending /\ cpi' = NoCpi
        BY <1>0, <1>1 DEF Build, Fresh
    <2>5. TypeOK'
        BY <1>0, <1>1, <2>1, <2>2, <2>3 DEF Build, build_verify_vaa_instruction, TypeOK, Instructions
    <2>6. BuiltShape'
        BY <1>1 DEF Build, build_verify_vaa_instruction, BuiltShape
    <2>7. QED
        BY <2>4, <2>5, <2>6 DEF IInv, Fresh, BuiltRoundTrip, Pending
<1>2. ASSUME NEW accounts \in AccountLists, NEW data \in DataSpace,
             Submit(accounts, data)
      PROVE  IInv'
    <2>1. accounts \in Seq(Keys) /\ data \in Seq(Byte)
        BY ConstantsAssumption, DataSpaceSeq
    <2>2. outcome' = Pending /\ cpi' = NoCpi
        BY <1>0, <1>2 DEF Submit, Fresh
    <2>3. QED
        BY <1>0, <1>2, <2>1, <2>2
        DEF Submit, IInv, TypeOK, Instructions, BuiltShape, Fresh, BuiltRoundTrip, Pending
<1>3. CASE NotEnoughAccountKeys
    <2>1. TypeOK' /\ BuiltShape' /\ Fresh'
        BY <1>3, EarlyReturnStep DEF NotEnoughAccountKeys, Return, Err, Outcomes, Pending
    <2>2. ix.origin # "built"
        BY <1>0, <1>3, BuiltFacts DEF NotEnoughAccountKeys
    <2>3. QED
        BY <2>1, <2>2, <1>3 DEF NotEnoughAccountKeys, Return, IInv, BuiltRoundTrip
<1>4. CASE IncorrectProgramId
    <2>1. TypeOK' /\ BuiltShape' /\ Fresh'
        BY <1>4, EarlyReturnStep DEF IncorrectProgramId, Return, Err, Outcomes, Pending
    <2>2. ix.origin # "built"
        BY <1>0, <1>4, BuiltFacts DEF IncorrectProgramId
    <2>3. QED
        BY <2>1, <2>2, <1>4 DEF IncorrectProgramId, Return, IInv, BuiltRoundTrip
<1>5. CASE EmptyData
    <2>1. TypeOK' /\ BuiltShape' /\ Fresh'
        BY <1>5, EarlyReturnStep DEF EmptyData, AccountsChecked, Return, Err, Outcomes, Pending
    <2>2. ix.origin # "built"
        BY <1>0, <1>5, BuiltFacts DEF EmptyData
    <2>3. QED
        BY <2>1, <2>2, <1>5 DEF EmptyData, Return, IInv, BuiltRoundTrip
<1>6. CASE SlicePanic
    <2>1. TypeOK' /\ BuiltShape' /\ Fresh'
        BY <1>6, EarlyReturnStep DEF SlicePanic, AccountsChecked, Return, Outcomes, Pending
    <2>2. ix.origin # "built"
        <3> SUFFICES ASSUME ix.origin = "built" PROVE FALSE
            OBVIOUS
        <3>1. Len(ix.data) >= 5
            <4>1. ix.data \in Seq(Byte)
                BY <1>0, IxFields DEF NoIx
            <4>2. QED
                BY <4>1, <1>0, BuiltFacts, LenProperties
        <3>2. Len(ix.data) \in 1..4
            BY <1>6 DEF SlicePanic
        <3>3. QED
            BY <3>1, <3>2, LongNotShort
    <2>3. QED
        BY <2>1, <2>2, <1>6 DEF SlicePanic, Return, IInv, BuiltRoundTrip
<1>7. CASE TooShort
    <2>1. TypeOK' /\ BuiltShape' /\ Fresh'
        BY <1>7, EarlyReturnStep DEF TooShort, LengthRead, AccountsChecked, Return, Err, Outcomes, Pending
    <2>2. ix.origin # "built"
        BY <1>0, <1>7, BuiltFacts DEF TooShort
    <2>3. QED
        BY <2>1, <2>2, <1>7 DEF TooShort, Return, IInv, BuiltRoundTrip
<1>8. CASE ParseError
    <2>1. TypeOK' /\ BuiltShape' /\ Fresh'
        BY <1>8, EarlyReturnStep DEF ParseError, LengthRead, AccountsChecked, Return, Err, Outcomes, Pending
    <2>2. ix.origin = "built" => ~ParsesVaa(ix.vaa)
        BY <1>0, <1>8, BuiltFacts DEF ParseError
    <2>3. cpi = NoCpi
        BY <1>0, <1>8 DEF ParseError, LengthRead, AccountsChecked, Processing, Fresh
    <2>4. QED
        BY <2>1, <2>2, <2>3, <1>8 DEF ParseError, Return, IInv, BuiltRoundTrip
<1>9. ASSUME Invoked, NEW o \in Outcomes \ {Pending}, outcome' = o,
             o = IF ShimAccepts(cpi') THEN [status |-> "Ok"] ELSE Err("VerifyHashFailed")
      PROVE  IInv'
    <2>1. TypeOK' /\ BuiltShape' /\ Fresh'
        BY <1>9, InvokedStep DEF IInv
    <2>2. ASSUME ix.origin = "built"
          PROVE  /\ ParsesVaa(ix.vaa)
                 /\ cpi' = [guardian_set |-> ix.gs, guardian_signatures |-> ix.sigs,
                            bump |-> ix.bump, digest |-> Keccak(Keccak(Body(ix.vaa)))]
        BY <1>0, <1>9, <2>2, BuiltFacts DEF Invoked, VerifyHashRequest
    <2>3. QED
        BY <2>1, <2>2, <1>9 DEF Invoked, IInv, BuiltRoundTrip
<1>10. CASE VerifyHashFailed
    BY <1>10, <1>9 DEF VerifyHashFailed, Outcomes, Err, Pending
<1>11. CASE Verified
    BY <1>11, <1>9 DEF Verified, Outcomes, Pending
<1>12. CASE UNCHANGED vars
    BY <1>0, <1>12 DEF vars, IInv, TypeOK, BuiltShape, Fresh, BuiltRoundTrip
<1>13. QED
    BY <1>1, <1>2, <1>3, <1>4, <1>5, <1>6, <1>7, <1>8, <1>10, <1>11, <1>12 DEF Next

\* The type invariant holds in every state.
THEOREM TypeCorrect == Spec => []TypeOK
<1>1. Init => IInv
    BY DEF Init, IInv, TypeOK, Instructions, Outcomes, BuiltShape, Fresh, BuiltRoundTrip, NoIx
<1>2. QED
    BY <1>1, IInvStep, PTL DEF Spec, IInv

\* For every byte width, VAA format, shim state and set of VAAs, what
\* build_verify_vaa_instruction encodes process_instruction decodes: a
\* built instruction ends in the CPI the test meant or in
\* InvalidInstructionData for a VAA that does not parse.
THEOREM RoundTripCorrect == Spec => []BuiltRoundTrip
<1>1. Init => IInv
    BY DEF Init, IInv, TypeOK, Instructions, Outcomes, BuiltShape, Fresh, BuiltRoundTrip, NoIx
<1>2. QED
    BY <1>1, IInvStep, PTL DEF Spec, IInv

=============================================================================
