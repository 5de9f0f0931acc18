---------------------------- MODULE MCAvReceiver ----------------------------
EXTENDS AvReceiver

\* Frames of one to five units, without and with redundant ones; the profile
\* changes once, and one frame names a profile that does not exist.  With four
\* slots frame 7 has too many units, and packets of five others are flawed.
MCTotalOf ==
  [f \in 0 .. MaxVideo |->
     IF f = 7 THEN 5 ELSE CASE f % 3 = 0 -> 1 [] f % 3 = 1 -> 3 [] f % 3 = 2 -> 4]
MCFecOf == [f \in 0 .. MaxVideo |-> f % 3]
MCProfileOf == [f \in 0 .. MaxVideo |-> IF f < 4 THEN 0 ELSE IF f = 6 THEN 2 ELSE 1]
MCFlaws ==
  [f \in 0 .. MaxVideo |->
     CASE f = 1 -> {<<2, "counts">>}
       [] f = 2 -> {<<0, "byte">>, <<1, "padding">>}
       [] f = 4 -> {<<0, "empty">>}
       [] f = 5 -> {<<0, "byte">>, <<3, "byte">>, <<2, "empty">>}
       [] f = 8 -> {<<1, "counts">>}
       [] OTHER -> {}]
=============================================================================
