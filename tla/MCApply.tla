------------------------------ MODULE MCApply ------------------------------
(* Instances of Apply: one candidate the runtime can take live, two that   *)
(* need a restart, one content that only the external writer produces.     *)
EXTENDS Apply

CONSTANTS hot, cold1, cold2, ext

MCCandidates == {hot, cold1, cold2}
MCEdits      == {ext}
MCRebind     == {cold1, cold2}
=============================================================================
