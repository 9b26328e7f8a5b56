---------------------------- MODULE MCVaaVerifier ----------------------------
(* VaaVerifier on a small instance: 2-valued bytes, a one-byte VAA header  *)
(* (the version), one signatures account holding signatures for the body  *)
(* <<0>>.                                                                  *)
EXTENDS VaaVerifier

CONSTANTS payer, gsAcc, sigsA, sigsB, shim, other

MCKeys == {payer, gsAcc, sigsA, sigsB, shim, other}

\* sigsA holds signatures for the VAA <<1, 0>> (body <<0>>).
MCPosted == [a \in {sigsA} |-> Keccak(Keccak(<<0>>))]

\* Account lists of other callers: too few, a wrong shim, the test's layout.
MCAccountLists ==
    {<<>>, <<payer, gsAcc, sigsA>>, <<payer, gsAcc, sigsA, other>>,
     <<payer, gsAcc, sigsA, shim>>}

\* VAAs the test builds: parsing ones with each body, one without a body,
\* one with the wrong version.
MCVaas == {<<1, 0>>, <<1, 1>>, <<1, 0, 1>>, <<1>>, <<0, 0>>}

=============================================================================
