------------------------------ MODULE MCPlayLog ------------------------------
(* A minute at the play log for the model checker.                         *)
EXTENDS PlayLog

CONSTANTS
  x,             \* an item
  loop, viewer,  \* goroutines that change the current item
  logger, runner \* and that flush

MCItems    == {x}
MCCallers  == {loop, viewer}

=============================================================================
