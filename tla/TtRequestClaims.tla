-------------------------- MODULE TtRequestClaims --------------------------
(***************************************************************************)
(* A statement that a comment of ttsession's code makes about requests and *)
(* that the code, as TtRequest models it, does not keep.  A run of its own *)
(* checks it; the README describes the counterexample.                     *)
(***************************************************************************)
EXTENDS TtRequest

(* mp_procid.C, _Tt_procid::processing: "if message state is already final  *)
(* then it can't be handled by anyone".  A request whose verdict was        *)
(* reported is not handed to a process to handle it.                        *)
FinalIsNotHandled ==
    Idle => \A m \in Msgs : Answered(m) => Holders(m) = {}
=============================================================================
