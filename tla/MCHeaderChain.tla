---------------------------- MODULE MCHeaderChain ----------------------------
(* HeaderChain with a target of 4 seconds and ln scaled by 2^16.  Unit is    *)
(* smaller than the largest decrease (2544), so that the bound on the change *)
(* is reached.                                                               *)
EXTENDS HeaderChain

\* round(ln(t) * 2^16) for t in 1 .. 48
MCLog == <<0, 45426, 71999, 90852, 105476, 117425, 127527, 136278, 143997,
  150902, 157148, 162851, 168097, 172953, 177475, 181704, 185677, 189423,
  192967, 196328, 199526, 202575, 205488, 208277, 210952, 213523, 215996,
  218379, 220679, 222901, 225050, 227130, 229147, 231104, 233003, 234849,
  236645, 238393, 240095, 241754, 243373, 244952, 246494, 248001, 249473,
  250914, 252323, 253703>>

MCTimeSteps  == {-2, -1, 1, 4, 50}
MCClockSteps == {1, 4, 48}
=============================================================================
