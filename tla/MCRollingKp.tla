---------------------------- MODULE MCRollingKp ----------------------------
(***************************************************************************)
(* Instance of RollingKp for TLC. The tags span more than two windows, so  *)
(* that events expire, a gap empties the window of all but the new event,  *)
(* and the boundary tag (exactly Window old) occurs; the values lie below, *)
(* at and above the threshold.                                             *)
(***************************************************************************)
EXTENDS RollingKp

MCTimeTags == 0..5
MCKpValues == {5, 6, 7}
=============================================================================
