------------------------ MODULE MCEngineerAssignment ------------------------
(***************************************************************************)
(* Small instances of EngineerAssignment for TLC: one engineer in the      *)
(* unit's city who is full with one assignment, and one elsewhere in the   *)
(* country who takes two.                                                  *)
(***************************************************************************)
EXTENDS EngineerAssignment

CONSTANTS near, far

CityOf == [u \in Unit |-> {near}]
CountryOf == [u \in Unit |-> {near, far}]

\* Both commission; neither takes the GENERAL stage that follows.
Specialists == [e \in Engineer |-> "COMMISSIONING"]

MaxConcurrent == [e \in Engineer |-> IF e = near THEN 1 ELSE 2]

\* Everything at the same time, on one stage with faults and on two in a row
\* without; one handler or task at a time; and the same with the near engineer
\* created unavailable and a stage no engineer is called to.
Racing == [overlap |-> TRUE, faulty |-> TRUE, created |-> {near, far},
           stages |-> {"HOT_COMMISSION"}]
Faultless == [overlap |-> TRUE, faulty |-> FALSE, created |-> {near, far},
              stages |-> {"COLD_COMMISSION", "HOT_COMMISSION"}]
OneAtATime == [overlap |-> FALSE, faulty |-> FALSE, created |-> {near, far},
               stages |-> {"COLD_COMMISSION", "HOT_COMMISSION"}]
NearOnLeave == [overlap |-> FALSE, faulty |-> FALSE, created |-> {far},
                stages |-> {"PRE_DELIVERY", "HOT_COMMISSION"}]
AllModes == {Racing, Faultless, OneAtATime, NearOnLeave}

FaultlessOnOne == {[Faultless EXCEPT !.stages = {"HOT_COMMISSION"}]}
OneAtATimeOnOne == {[OneAtATime EXCEPT !.stages = {"HOT_COMMISSION"}]}
=============================================================================
