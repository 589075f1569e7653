---------------------------- MODULE ReleaseStore ----------------------------
(***************************************************************************)
(* Closure and Releases together: approve_release and load_approved_release *)
(* call validate_release on the content they have read before they write   *)
(* or return anything (releases.py:363 and 410). The content is that of    *)
(* one digest, and validate_release reads nothing else, so that all its    *)
(* calls decide alike: the model makes one, first.                         *)
(***************************************************************************)
EXTENDS Releases, Closure

StoreInit == Init /\ ClosureInit

Validate == ClosureNext /\ UNCHANGED vars

Proceed == verdict = "accepted" /\ Next /\ UNCHANGED closureVars

StoreNext == Validate \/ Proceed

StoreSpec == StoreInit /\ [][StoreNext]_<<vars, closureVars>>

-----------------------------------------------------------------------------

\* What a load returns, or an approval writes, is a release that embeds
\* exactly what its entry needs.
UsedIsWhole ==
  (\E c \in Calls : pc[c] = "loaded") \/ (\E f \in FileSet : file[f] = "signed")
    => Whole /\ Acyclic
=============================================================================
