--------------------------- MODULE MCQemuMachine ---------------------------
(* Instances of QemuMachine for TLC.                                       *)
EXTENDS QemuMachine, TLC

CONSTANTS r1, s1, s2, t1, p1, x1

OneRun == {r1}
Attended == {s2}
TwoStarts == {s1, s2}
OneStop == {t1}
OnePause == {p1}
OneRemove == {x1}
Steering == {t1, p1, x1}
============================================================================
