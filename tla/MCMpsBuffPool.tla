---------------------------- MODULE MCMpsBuffPool ----------------------------
(***************************************************************************)
(* Small instances of MpsBuffPool.                                         *)
(***************************************************************************)
EXTENDS MpsBuffPool, TLC

BufSymmetry == Permutations(Bufs)
CtxSymmetry == Permutations(Ctx0) \cup Permutations(Ctx1)
Symmetry    == BufSymmetry \cup CtxSymmetry

\* What two cores do once a queue was used after a stale test is explored no
\* further: nothing about the buffers is promised then.
BeforeOverrun == ~overrun
=============================================================================
