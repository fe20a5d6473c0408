-------------------------- MODULE MCLegalContext --------------------------
(* Instances of LegalContext for TLC.  Publish calls are interchangeable.  *)
EXTENDS LegalContext, TLC

CONSTANTS rebalance, run, prepare

MCActions == {rebalance, run, prepare}
MCKind == [a \in MCActions |->
             CASE a = rebalance -> "rebalance"
               [] a = run -> "executeRun"
               [] a = prepare -> "prepareRun"]

TwoActions == {rebalance, run}
TwoKinds == [a \in TwoActions |->
               IF a = rebalance THEN "yield" ELSE "executeRun"]

PublisherSymmetry == Permutations(Publishers)
=============================================================================
