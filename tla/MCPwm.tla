-------------------------------- MODULE MCPwm --------------------------------
(* Five pins: all off, or each at a duty of its own but for two.            *)
EXTENDS Pwm, TLC
MCPins == {0, 2, 4, 5, 12}
MCStarts ==
  {[p \in MCPins |-> 0],
   (0 :> 1) @@ (2 :> 400) @@ (4 :> 100) @@ (5 :> 400) @@ (12 :> 101)}
=============================================================================
