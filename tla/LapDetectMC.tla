---------------------------- MODULE LapDetectMC ----------------------------
(* Values of the constants of LapDetect for model checking.               *)
EXTENDS LapDetect

\* A narrow and a wide setting; the host writes the fields one at a time, so
\* every mixture of the two is reached.
MCSettings ==
    {[triggerThreshold |-> 0, calibrationThreshold |-> 1, calibrationOffset |-> 1],
     [triggerThreshold |-> 1, calibrationThreshold |-> 2, calibrationOffset |-> 3]}

MCOneSetting ==
    {[triggerThreshold |-> 1, calibrationThreshold |-> 1, calibrationOffset |-> 1]}

MCGaps == {1, 2}
MCOneGap == {1}
=============================================================================
