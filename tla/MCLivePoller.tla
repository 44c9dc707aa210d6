---------------------------- MODULE MCLivePoller ----------------------------
(***************************************************************************)
(* Instance of LivePoller for TLC: observation times at whole seconds and  *)
(* between them.                                                           *)
(***************************************************************************)
EXTENDS LivePoller

MCTimeTags == {2, 3, 4}
=============================================================================
