----------------------------- MODULE MCQmiServices -----------------------------
(* Instances of QmiServices: calls x1, x2 and x3 go to one service, y1 to    *)
(* another, z1 to CTL.                                                       *)
EXTENDS QmiServices

CONSTANTS dms, nas, x1, x2, x3, y1, z1

OneService == {dms}
TwoServices == {dms, nas}

TwoCalls == {x1, x2}
MixedCalls == {x1, x2, y1}
ManyCalls == {x1, x2, x3, z1}
ToTargets(calls) == [c \in calls |-> IF c = y1 THEN nas ELSE IF c = z1 THEN CTL ELSE dms]
TwoTargets == ToTargets(TwoCalls)
MixedTargets == ToTargets(MixedCalls)
ManyTargets == ToTargets(ManyCalls)

(* Wide enough that no counter wraps, and so narrow that they all can.      *)
WideTids == [s \in AllServices |-> 8]
NarrowTids == [s \in AllServices |-> IF s = CTL THEN 3 ELSE 2]
=============================================================================
