--------------------------- MODULE ProgramHistory ---------------------------
(***************************************************************************)
(* What a workflow's program registry promises, whatever its files are: a  *)
(* history of versions that only grows, in which every version is a        *)
(* configured base or its parent with one more patch, and a current        *)
(* version, which moves to the newest version or back to a base.  It is    *)
(* lost (0) while the file that names it is being rewritten.               *)
(***************************************************************************)
EXTENDS Naturals, Sequences

CONSTANTS Bases, NoPatch

VARIABLES history, current

Init == history = <<>> /\ current = 0

IsBase(version) ==
  /\ version.parent = 0
  /\ version.patch = NoPatch
  /\ \E b \in Bases : version.program = <<b>>

IsDerived(version) ==
  /\ version.parent \in DOMAIN history
  /\ \E patch \in {version.program[Len(version.program)]} :
       /\ patch.id = version.patch
       /\ version.program = Append(history[version.parent].program, patch)

Install ==
  /\ Len(history') = Len(history) + 1
  /\ SubSeq(history', 1, Len(history)) = history
  /\ LET new == history'[Len(history')] IN IF new.parent = 0 THEN IsBase(new) ELSE IsDerived(new)
  /\ UNCHANGED current

Move ==
  /\ UNCHANGED history
  /\ current' \in {0} \cup {v \in DOMAIN history : v = Len(history) \/ history[v].patch = NoPatch}

Spec == Init /\ [][Install \/ Move]_<<history, current>>
=============================================================================
