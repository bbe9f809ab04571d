---------------------------- MODULE LevelTriggered ----------------------------
(***************************************************************************)
(* What a level-triggered controller promises, whatever it controls: users  *)
(* change what they want, and while the controller owes them an answer it   *)
(* may tell them anything, old verdicts included.  It rests only with a      *)
(* right answer, and whatever changes afterwards makes it owe one again.    *)
(***************************************************************************)
CONSTANTS
  Right(_, _)  \* Right(w, t): is t the answer to w?

VARIABLES
  want,  \* what the users of the controller ask for
  told,  \* what it has told and written
  owed   \* does it still have something to do?

vars == <<want, told, owed>>

Change  == owed' = TRUE /\ UNCHANGED told
Attempt == owed /\ owed' = TRUE /\ UNCHANGED want
Rest    == owed /\ owed' = FALSE /\ UNCHANGED want /\ Right(want, told')

Init == owed \in BOOLEAN /\ (owed \/ Right(want, told))
Next == Change \/ Attempt \/ Rest
Spec == Init /\ [][Next]_vars

(* A controller at rest has told what is right.                              *)
RestIsRight == owed \/ Right(want, told)

=============================================================================
