------------------------- MODULE MCCaptureSegments -------------------------
(* CaptureSegments for TLC.  In one behaviour the process crashes and calls
   fail, in another power is lost.  A loss of power after one of the others
   is the subject of a run of its own. *)
EXTENDS CaptureSegments

MCFaultBudgets ==
    {[process |-> 2, power |-> 0, io |-> 2], [process |-> 0, power |-> 2, io |-> 0]}

MCCrashThenPowerLoss == {[process |-> 1, power |-> 1, io |-> 0]}
=============================================================================
