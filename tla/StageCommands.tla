--------------------------- MODULE StageCommands ---------------------------
(***************************************************************************)
(* What a managed execution promises about its START commands, whoever     *)
(* runs it and whatever fails: at most one is outstanding; the agent takes *)
(* up a command at most once, and only while it is outstanding; a command  *)
(* is given up only if it was not taken up, and then never is; stages      *)
(* complete in order, each through a command of its own that was taken up. *)
(***************************************************************************)
EXTENDS Integers, Sequences

CONSTANT NStages

VARIABLES issued,     \* the stage of every START ever made durable, in order
          open,       \* the outstanding START, or 0
          taken,      \* the STARTs that became part of a turn
          completed   \* the completed stages, in order

commandVars == <<issued, open, taken, completed>>

Init ==
  /\ issued = <<>>
  /\ open = 0
  /\ taken = {}
  /\ completed = <<>>

Issue ==
  /\ open = 0
  /\ Len(completed) < NStages
  /\ issued' = Append(issued, Len(completed) + 1)
  /\ open' = Len(issued) + 1
  /\ UNCHANGED <<taken, completed>>

TakeUp ==
  /\ open # 0
  /\ open \notin taken
  /\ taken' = taken \cup {open}
  /\ UNCHANGED <<issued, open, completed>>

GiveUp ==
  /\ open # 0
  /\ open \notin taken
  /\ open' = 0
  /\ UNCHANGED <<issued, taken, completed>>

End ==
  /\ open \in taken
  /\ open' = 0
  /\ completed' \in {completed, Append(completed, issued[open])}
  /\ UNCHANGED <<issued, taken>>

Next == Issue \/ TakeUp \/ GiveUp \/ End

Spec == Init /\ [][Next]_commandVars
=============================================================================
