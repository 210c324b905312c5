------------------------------ MODULE MCTailnet ------------------------------
(* Two machines that install and remove one service each, three host labels.   *)
EXTENDS Tailnet

CONSTANTS m1, m2, x, y, z
===============================================================================
