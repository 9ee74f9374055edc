SPECIFICATION Spec
CONSTANTS t1=t1 t2=t2 thor=thor nonlogs=nonlogs None=None
 Task <- Tasks
 Swap <- Swaps
 Memo = {thor}
 Scenario <- OneShown
INVARIANTS SlateIsAsShown
CHECK_DEADLOCK FALSE
