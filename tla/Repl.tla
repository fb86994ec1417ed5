-------------------------------- MODULE Repl --------------------------------
(***************************************************************************)
(* What the interpreter promises to whoever types at it: the library is    *)
(* loaded before the first prompt; a form that was read is answered with a *)
(* value or with an error, one form at a time; a form adds at most one     *)
(* binding to the toplevel environment, and a form that is answered with   *)
(* an error has added none.  Every step may be the last one, and no more   *)
(* is promised of an answer or an error whose printing does not end: the   *)
(* printer does not know a list that is tied into a circle.                *)
(***************************************************************************)
EXTENDS Naturals

VARIABLES
  phase,   \* "loading", "ready", "evaluating", "printing" for ever, "stopped"
  defs     \* bindings added by the form that is being evaluated

vars == <<phase, defs>>

TypeOK ==
  phase \in {"loading", "ready", "evaluating", "printing", "stopped"} /\ defs \in 0..1

Init == phase = "loading" /\ defs = 0

Boot == phase = "loading" /\ phase' = "ready" /\ UNCHANGED defs

ReadForm == phase = "ready" /\ phase' = "evaluating" /\ UNCHANGED defs

Define == phase = "evaluating" /\ defs = 0 /\ defs' = 1 /\ UNCHANGED phase

Answer == phase = "evaluating" /\ phase' = "ready" /\ defs' = 0

Error == phase = "evaluating" /\ defs = 0 /\ phase' = "ready" /\ UNCHANGED defs

Stop == phase \notin {"printing", "stopped"} /\ phase' = "stopped" /\ defs' = 0

PrintForever ==
  phase \in {"loading", "evaluating"} /\ phase' = "printing" /\ defs' = 0

Next == Boot \/ ReadForm \/ Define \/ Answer \/ Error \/ Stop \/ PrintForever

(* How the evaluation of a form comes to its end.                          *)
Finish == Answer \/ Error \/ (phase = "evaluating" /\ (Stop \/ PrintForever))

(* Only the user may be slow: an evaluation comes to its end.              *)
Spec == Init /\ [][Next]_vars /\ WF_vars(Finish)
=============================================================================
