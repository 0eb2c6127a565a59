SPECIFICATION Spec
CONSTANTS
    Candidates <- PlanActions
    MaxAdds = 3
INVARIANTS StopsFirst TwoStages OneChangePerService DirectoryOrder EveryStepHandled RunsInPlanOrder
CHECK_DEADLOCK FALSE
