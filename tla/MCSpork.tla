------------------------------ MODULE MCSpork ------------------------------
(* An instance of Spork for TLC. *)
EXTENDS Spork

CONSTANTS s, p, q

\* Two sporks of the same second and one of the next.
MCMessages ==
  {[nSporkID |-> 12, nValue |-> 0, nTimeSigned |-> 1],
   [nSporkID |-> 12, nValue |-> 1, nTimeSigned |-> 1],
   [nSporkID |-> 12, nValue |-> 0, nTimeSigned |-> 2]}
=============================================================================
