------------------------------ MODULE SendOnce ------------------------------
(***************************************************************************)
(* What the callers of a sender may count on: the instructions run at most *)
(* once; an answer comes; "done" means that they have run, "failed" that   *)
(* they never will, and "unknown" nothing at all.                          *)
(***************************************************************************)
EXTENDS Naturals

VARIABLES
  runs,  \* how often the instructions have taken effect
  answer \* waiting, done, failed, unknown

onceVars == <<runs, answer>>

OnceInit == runs = 0 /\ answer = "waiting"

\* Also after the answer, if that is unknown.
Run == runs = 0 /\ answer # "failed" /\ runs' = 1 /\ UNCHANGED answer

Answer ==
  /\ answer = "waiting"
  /\ \/ runs = 1 /\ answer' = "done"
     \/ runs = 0 /\ answer' = "failed"
     \/ answer' = "unknown"
  /\ UNCHANGED runs

OnceSafe == OnceInit /\ [][Run \/ Answer]_onceVars
OnceSpec == OnceSafe /\ WF_onceVars(Answer)
=============================================================================
