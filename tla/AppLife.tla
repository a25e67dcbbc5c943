-------------------------------- MODULE AppLife --------------------------------
(***************************************************************************)
(* What a supervisor of applications promises whoever uses its numbers: a  *)
(* number stands for one application from its start until it is forgotten. *)
(* Applications do not come back to life, a number in use is not given to  *)
(* another one, and only one is started at a time.                         *)
(***************************************************************************)
CONSTANT Numbers

VARIABLE entry   \* number -> "free", "runs" or "dead"

LifeInit == entry = [x \in Numbers |-> "free"]

\* a start, which may fail, also forgets about dead ones
Start(x) ==
  /\ entry[x] = "free"
  /\ entry' \in [Numbers -> {"free", "runs", "dead"}]
  /\ entry'[x] \in {"runs", "dead"}
  /\ \A y \in Numbers \ {x} :
       entry'[y] = entry[y] \/ (entry[y] = "dead" /\ entry'[y] = "free")

\* some end, of which some are kept for the user to look at; dead ones may be
\* forgotten
End ==
  /\ entry' \in [Numbers -> {"free", "runs", "dead"}]
  /\ \A y \in Numbers :
       \/ entry'[y] = entry[y]
       \/ entry[y] = "runs"
       \/ entry[y] = "dead" /\ entry'[y] = "free"

LifeNext == End \/ \E x \in Numbers : Start(x)

Life == LifeInit /\ [][LifeNext]_entry
=============================================================================
