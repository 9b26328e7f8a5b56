----------------------------- MODULE VaaVerifier -----------------------------
(***************************************************************************)
(* The example program programs/vaa-verifier-example/src/lib.rs: the      *)
(* client-side builders build_instruction_data and                         *)
(* build_verify_vaa_instruction, and the handler process_instruction.     *)
(*                                                                         *)
(* One instruction is built (or submitted by any other caller) and then   *)
(* processed.  The handler is synchronous and its CPI returns before it   *)
(* goes on, so one run of process_instruction, from its first             *)
(* next_account_info to its return, is one step; there is one action per  *)
(* way it returns.                                                        *)
(*                                                                         *)
(* Instruction data is a sequence of bytes, a byte an integer below       *)
(* ByteBase (256 in the code, fewer on small instances); the 4-byte       *)
(* little-endian length is decoded by what from_le_bytes does.            *)
(*                                                                         *)
(* The environment: Vaa::parse (wormhole_raw_vaas) accepts a byte string  *)
(* that starts with the version byte and is long enough for the header    *)
(* and a body, and its body is what follows the header.  The Verify VAA   *)
(* Shim's verify_hash, called by CPI, succeeds when the guardian-set      *)
(* account and bump are the real ones and the signatures account holds    *)
(* signatures posted for the digest asked about (Posted).                 *)
(***************************************************************************)
EXTENDS Naturals, Sequences, FiniteSets

CONSTANTS
    ByteBase,            \* values of a byte (u8: 256)
    Keys,                \* account addresses
    SHIM_ID,             \* VERIFY_VAA_SHIM_PROGRAM_ID
    VaaVersion,          \* the version byte Vaa::parse expects
    VaaHeaderLen,        \* bytes of a VAA before its body
    BodyMinLen,          \* bytes of the shortest body Vaa::parse accepts
    GuardianSetAccount,  \* the Core Bridge guardian-set account
    GuardianSetBump,     \* its PDA bump
    Posted,              \* signatures account -> digest its signatures are for
    AccountLists,        \* account lists other callers submit
    MaxDataLen,          \* longest instruction data submitted
    Vaas                 \* VAA byte strings given to the builder

Byte == 0..(ByteBase - 1)

\* Values of a u32: four bytes.
U32Size == ByteBase * ByteBase * ByteBase * ByteBase

ASSUME ConstantsAssumption ==
    /\ ByteBase \in Nat \ {0, 1}
    /\ SHIM_ID \in Keys /\ GuardianSetAccount \in Keys
    /\ VaaVersion \in Byte /\ GuardianSetBump \in Byte
    /\ VaaHeaderLen \in Nat \ {0} /\ BodyMinLen \in Nat
    /\ DOMAIN Posted \subseteq Keys
    /\ AccountLists \subseteq Seq(Keys)
    /\ MaxDataLen \in Nat
    /\ Vaas \subseteq Seq(Byte)

\* The VAAs a test builds with have lengths a u32 holds (the Solana
\* transaction size keeps them far below 2^32 bytes).
ASSUME VaasAssumption == \A v \in Vaas : Len(v) < U32Size

-----------------------------------------------------------------------------
(* The environment.                                                        *)

\* keccak::hash, as the injective function it is taken to be.
Keccak(x) == <<"keccak256", x>>

\* Vaa::parse succeeds on these byte strings ...
ParsesVaa(v) ==
    /\ Len(v) >= VaaHeaderLen + BodyMinLen
    /\ v[1] = VaaVersion

\* ... and vaa.body() is the rest after the header.
Body(v) == SubSeq(v, VaaHeaderLen + 1, Len(v))

\* verify_hash of the shim, run by the CPI.
ShimAccepts(req) ==
    /\ req.guardian_set = GuardianSetAccount
    /\ req.bump = GuardianSetBump
    /\ req.guardian_signatures \in DOMAIN Posted
    /\ Posted[req.guardian_signatures] = req.digest

-----------------------------------------------------------------------------
(* Encoding and decoding.                                                  *)

\* Mutant: the length is written most significant byte first.
ToLe_BigEndian(n) ==
    <<(n \div (ByteBase * ByteBase * ByteBase)) % ByteBase,
      (n \div (ByteBase * ByteBase)) % ByteBase, (n \div ByteBase) % ByteBase,
      n % ByteBase>>

\* u32::to_le_bytes: the four base-ByteBase digits, least significant first.
ToLe(n) ==
    <<n % ByteBase, (n \div ByteBase) % ByteBase,
      (n \div (ByteBase * ByteBase)) % ByteBase,
      (n \div (ByteBase * ByteBase * ByteBase)) % ByteBase>>

\* u32::from_le_bytes
FromLe(b) ==
    b[1] + b[2] * ByteBase + b[3] * (ByteBase * ByteBase)
         + b[4] * (ByteBase * ByteBase * ByteBase)

\* build_instruction_data: the bump, (vaa.len() as u32) little-endian, the VAA.
build_instruction_data(bump, vaa) ==
    <<bump>> \o ToLe(Len(vaa) % U32Size) \o vaa

\* build_verify_vaa_instruction: payer, guardian set, signatures, shim.
build_verify_vaa_instruction(payer, gs, sigs, bump, vaa) ==
    [accounts |-> <<payer, gs, sigs, SHIM_ID>>,
     data |-> build_instruction_data(bump, vaa)]

\* vaa_len: instruction_data[1..5] read as a little-endian u32.
VaaLen(data) == FromLe(SubSeq(data, 2, 5))

\* Mutant: the length check also rejects data of exactly 5 + vaa_len bytes.
DataTooShort_Inclusive(data) == Len(data) <= 5 + VaaLen(data)

\* instruction_data.len() < 5 + vaa_len
DataTooShort(data) == Len(data) < 5 + VaaLen(data)

\* Mutant: the VAA is sliced one byte early, from the last length byte.
VaaBytes_OffByOne(data) == SubSeq(data, 5, 4 + VaaLen(data))

\* &instruction_data[5..5 + vaa_len]
VaaBytes(data) == SubSeq(data, 6, 5 + VaaLen(data))

\* Mutant: the body is hashed once.
VerifyHashRequest_SingleHash(instr) ==
    [guardian_set |-> instr.accounts[2],
     guardian_signatures |-> instr.accounts[3],
     bump |-> instr.data[1],
     digest |-> Keccak(Body(VaaBytes(instr.data)))]

\* The verify_hash CPI: the accounts given, the bump, and the double
\* keccak of the parsed body.
VerifyHashRequest(instr) ==
    [guardian_set |-> instr.accounts[2],
     guardian_signatures |-> instr.accounts[3],
     bump |-> instr.data[1],
     digest |-> Keccak(Keccak(Body(VaaBytes(instr.data))))]

-----------------------------------------------------------------------------

VARIABLES
    ix,       \* the instruction submitted, and how it was made
    cpi,      \* the verify_hash request the program made, if any
    outcome   \* what process_instruction returned, or Pending

vars == <<ix, cpi, outcome>>

NoIx == [origin |-> "none"]
NoCpi == [guardian_set |-> "none"]
Pending == [status |-> "Pending"]
Err(e) == [status |-> "Err", error |-> e]

Init ==
    /\ ix = NoIx
    /\ cpi = NoCpi
    /\ outcome = Pending

\* A test builds the instruction with build_verify_vaa_instruction; the
\* arguments are kept with it.
Build(payer, gs, sigs, bump, vaa) ==
    LET built == build_verify_vaa_instruction(payer, gs, sigs, bump, vaa) IN
    /\ ix = NoIx
    /\ ix' = [origin |-> "built", accounts |-> built.accounts,
              data |-> built.data, gs |-> gs, sigs |-> sigs,
              bump |-> bump, vaa |-> vaa]
    /\ UNCHANGED <<cpi, outcome>>

\* Any other caller submits any accounts and data.
Submit(accounts, data) ==
    /\ ix = NoIx
    /\ ix' = [origin |-> "raw", accounts |-> accounts, data |-> data]
    /\ UNCHANGED <<cpi, outcome>>

\* process_instruction runs once on the submitted instruction.
Processing == ix # NoIx /\ outcome = Pending

Return(o) == outcome' = o /\ UNCHANGED ix

\* A next_account_info call found no account.
NotEnoughAccountKeys ==
    /\ Processing
    /\ Len(ix.accounts) < 4
    /\ Return(Err("NotEnoughAccountKeys")) /\ UNCHANGED cpi

\* The fourth account is not the shim.
IncorrectProgramId ==
    /\ Processing
    /\ Len(ix.accounts) >= 4
    /\ ix.accounts[4] # SHIM_ID
    /\ Return(Err("IncorrectProgramId")) /\ UNCHANGED cpi

AccountsChecked ==
    /\ Processing
    /\ Len(ix.accounts) >= 4
    /\ ix.accounts[4] = SHIM_ID

\* instruction_data.is_empty()
EmptyData ==
    /\ AccountsChecked
    /\ ix.data = <<>>
    /\ Return(Err("InvalidInstructionData")) /\ UNCHANGED cpi

\* instruction_data[1..5] with fewer than 5 bytes: the slice index panics
\* before try_into, so its map_err never runs.
SlicePanic ==
    /\ AccountsChecked
    /\ Len(ix.data) \in 1..4
    /\ Return([status |-> "Panic"]) /\ UNCHANGED cpi

LengthRead == AccountsChecked /\ Len(ix.data) >= 5

\* The data is shorter than the VAA length it declares.
TooShort ==
    /\ LengthRead
    /\ DataTooShort(ix.data)
    /\ Return(Err("InvalidInstructionData")) /\ UNCHANGED cpi

\* Vaa::parse failed.
ParseError ==
    /\ LengthRead
    /\ ~DataTooShort(ix.data)
    /\ ~ParsesVaa(VaaBytes(ix.data))
    /\ Return(Err("InvalidInstructionData")) /\ UNCHANGED cpi

Invoked ==
    /\ LengthRead
    /\ ~DataTooShort(ix.data)
    /\ ParsesVaa(VaaBytes(ix.data))
    /\ cpi' = VerifyHashRequest(ix)
    /\ UNCHANGED ix

\* The digest is computed and verify_hash invoked; the shim fails and the
\* ? returns its error.
VerifyHashFailed ==
    /\ Invoked
    /\ ~ShimAccepts(cpi')
    /\ outcome' = Err("VerifyHashFailed")

\* verify_hash succeeds; the payload is logged and Ok(()) returned.
Verified ==
    /\ Invoked
    /\ ShimAccepts(cpi')
    /\ outcome' = [status |-> "Ok"]

\* The instructions a test builds and other callers submit.
DataSpace == UNION {[1..n -> Byte] : n \in 0..MaxDataLen}

Next ==
    \/ \E payer, gs, sigs \in Keys, bump \in Byte, vaa \in Vaas :
          Build(payer, gs, sigs, bump, vaa)
    \/ \E accounts \in AccountLists, data \in DataSpace : Submit(accounts, data)
    \/ NotEnoughAccountKeys
    \/ IncorrectProgramId
    \/ EmptyData
    \/ SlicePanic
    \/ TooShort
    \/ ParseError
    \/ VerifyHashFailed
    \/ Verified

Spec == Init /\ [][Next]_vars

-----------------------------------------------------------------------------
(* Properties.                                                             *)

Instructions ==
    {NoIx}
    \cup [origin : {"raw"}, accounts : Seq(Keys), data : Seq(Byte)]
    \cup [origin : {"built"}, accounts : Seq(Keys), data : Seq(Byte),
          gs : Keys, sigs : Keys, bump : Byte, vaa : Seq(Byte)]

Outcomes ==
    {Pending, [status |-> "Ok"], [status |-> "Panic"]}
    \cup [status : {"Err"}, error : {"NotEnoughAccountKeys", "IncorrectProgramId",
                                     "InvalidInstructionData", "VerifyHashFailed"}]

\* Every variable has its type; a CPI is made with a byte bump.
TypeOK ==
    /\ ix \in Instructions
    /\ cpi \in {NoCpi} \cup [guardian_set : Keys, guardian_signatures : Keys,
                              bump : Byte,
                              digest : {"keccak256"} \X ({"keccak256"} \X Seq(Byte))]
    /\ outcome \in Outcomes

\* What build_verify_vaa_instruction encodes, process_instruction decodes:
\* an instruction a test builds is never rejected for its accounts or its
\* layout; if its VAA parses, the program asks the shim to verify exactly
\* the guardian set, signatures account, bump and double-keccak body digest
\* the test gave, and succeeds exactly when the shim accepts them; if it
\* does not parse, it is rejected as invalid data without a CPI.
BuiltRoundTrip ==
    (ix.origin = "built" /\ outcome # Pending) =>
        IF ParsesVaa(ix.vaa)
        THEN LET req == [guardian_set |-> ix.gs, guardian_signatures |-> ix.sigs,
                         bump |-> ix.bump, digest |-> Keccak(Keccak(Body(ix.vaa)))]
             IN  /\ cpi = req
                 /\ outcome = IF ShimAccepts(req) THEN [status |-> "Ok"]
                              ELSE Err("VerifyHashFailed")
        ELSE /\ cpi = NoCpi
             /\ outcome = Err("InvalidInstructionData")

\* Malformed instruction data is rejected with InvalidInstructionData (the
\* map_err on the length bytes says so): process_instruction never panics.
MalformedRejected == outcome.status # "Panic"

=============================================================================
