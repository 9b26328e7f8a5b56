----------------------------- MODULE MCResolver -----------------------------
(***************************************************************************)
(* Resolver on a small instance: four target programs, up to four         *)
(* iterations, every environment failure enabled.                         *)
(***************************************************************************)
EXTENDS Resolver

CONSTANTS pPayerPh, pGuardianSetPh, pShimPh, pPayer, pGuardianSet, pA, pB

MCKeys == {pPayerPh, pGuardianSetPh, pShimPh, pPayer, pGuardianSet, pA, pB}

\* A staged program that needs `req` and whose batches end at the
\* positions in `cuts` (the last one being Len(req)).
MkProgram(req, cuts) ==
    [required |-> req,
     next     |-> [n \in 0..(Len(req) - 1) |-> Min({c \in cuts : c > n})],
     rounds   |-> Cardinality(cuts) + 1]

MCPrograms ==
    {
      \* needs nothing: resolves on the first simulation
      MkProgram(<<>>, {}),
      \* the two-round program of the integration tests
      MkProgram(<<pPayerPh, pGuardianSetPh, pShimPh>>, {3}),
      \* three batches, with the payer asked for twice (placeholder and key)
      MkProgram(<<pGuardianSetPh, pA, pPayer, pShimPh, pPayerPh>>, {2, 3, 5}),
      \* asks for more accounts than a transaction can carry
      MkProgram(<<pA, pB, pPayerPh, pGuardianSetPh, pShimPh, pA>>, {2, 6}),
      \* needs one account but never asks for it: answers Missing with no
      \* account on every simulation
      [required |-> <<pA>>, next |-> [n \in {0} |-> 0],
       rounds |-> MaxIterationsBound + 1]
    }

MCFaults == FaultKinds
=============================================================================
