-------------------------- MODULE MCControlPlane ---------------------------
(* Small instances of ControlPlane for TLC.  Nothing is traded in them.    *)
EXTENDS ControlPlane

CONSTANTS h1, h2

NoLimits ==
  [capital |-> 0, order |-> 0, cluster |-> 0, total |-> 0, realizedLoss |-> 0,
   drawdown |-> 0, businessLoss |-> 0, businessDrawdown |-> 0]
NoDepth == [k \in Levels \X Sides |-> 0]
=============================================================================
