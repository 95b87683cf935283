---------------------------- MODULE MCSealManager ----------------------------
(***************************************************************************)
(* Small trees for SealManager.                                            *)
(***************************************************************************)
EXTENDS SealManager

CONSTANTS me, p1

(* A branch of two blocks against a branch of one. *)
MCFork == {<<>>, <<1>>, <<1, 1>>, <<2>>}

(* Two blocks compete for one height. *)
MCRivals == {<<>>, <<1>>, <<2>>}

MCSigners == {me, p1}
MCAlone == {me}

=============================================================================
