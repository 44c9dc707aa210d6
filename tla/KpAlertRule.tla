---------------------------- MODULE KpAlertRule ----------------------------
(***************************************************************************)
(* What the monitor promises, with no deque, no armed flag and no eviction *)
(* (README.md:144-154, "Alert behavior"): the observations that have been  *)
(* accepted are a set that only grows, a new observation is newer than all *)
(* of them, and it raises an alert exactly when the maximum of the         *)
(* inclusive window ending at the previous observation is below the        *)
(* threshold and the maximum of the window ending at the new one is not.   *)
(* RollingKp is shown to implement this module.                            *)
(***************************************************************************)
EXTENDS Integers

CONSTANTS TimeTags, KpValues, Window, Threshold

VARIABLES readings,   \* every observation accepted so far
          alerts      \* the time tags at which an alert was raised

vars == <<readings, alerts>>

KpEvents == [time_tag : TimeTags, kp_value : KpValues]

\* The observations of S inside the inclusive window ending at time t.
InWindow(S, t) == {r \in S : t - Window <= r.time_tag /\ r.time_tag <= t}

\* "maximum < threshold" of a window, true of the window of no observation.
Quiet(S) == \A r \in S : r.kp_value < Threshold

\* The window as it stood at the previous (that is, the newest) observation.
PreviousWindow ==
  {r \in readings : \A newest \in readings : newest.time_tag - Window <= r.time_tag}

Crosses(e) ==
  Quiet(PreviousWindow) /\ ~ Quiet(InWindow(readings \cup {e}, e.time_tag))

Init == readings = {} /\ alerts = {}

Observe(e) ==
  /\ \A r \in readings : r.time_tag < e.time_tag
  /\ readings' = readings \cup {e}
  /\ alerts' = IF Crosses(e) THEN alerts \cup {e.time_tag} ELSE alerts

Next == \E e \in KpEvents : Observe(e)

Spec == Init /\ [][Next]_vars
=============================================================================
