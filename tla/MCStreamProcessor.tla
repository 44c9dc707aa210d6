------------------------- MODULE MCStreamProcessor -------------------------
(***************************************************************************)
(* Instance of StreamProcessor for TLC: three expected events out of a     *)
(* topic that may hold four messages, so that duplicates, late and         *)
(* malformed messages, messages left unread and an idle topic all occur.   *)
(***************************************************************************)
EXTENDS StreamProcessor

MCTimeTags == {0, 1, 2}
MCKpValues == {5, 6}
=============================================================================
