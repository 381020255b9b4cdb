---------------------------- MODULE SetTransaction ----------------------------
(***************************************************************************)
(* What prlctl set and prlsrvctl set promise: some options take effect at  *)
(* once, one by one; all the others take effect together, in one step, or  *)
(* never; and nothing changes any more once success was reported.          *)
(***************************************************************************)
CONSTANTS
  Option,      \* what can be asked for
  Immediate    \* what takes effect at once, a part of Option

VARIABLES
  effect,   \* the options that are in effect, in the dispatcher
  result    \* "none", "ok" or "failed": what was reported

vars == <<effect, result>>

Init == effect = {} /\ result = "none"

(* One change that does not wait for the others. *)
Change ==
  /\ result = "none" /\ result' \in {"none", "failed"}
  /\ \E o \in Immediate : effect' = effect \cup {o}

(* All others at once: with the success, after a failure was reported (of  *)
(* a job that was given up), but never after the success.                  *)
Apply ==
  /\ effect \subseteq Immediate
  /\ effect \subseteq effect' /\ effect' \subseteq Option
  /\ \/ result = "none" /\ result' = "ok"
     \/ result = "failed" /\ UNCHANGED result

Report == result = "none" /\ result' \in {"ok", "failed"} /\ UNCHANGED effect

Next == Change \/ Apply \/ Report

Spec == Init /\ [][Next]_vars
=============================================================================
