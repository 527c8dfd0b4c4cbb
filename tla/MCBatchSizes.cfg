SPECIFICATION Spec
CONSTANTS
 P = 1009
 Shapes <- MCSizesShapes
 Assignments <- MCSizesAssignments
 Challenges = {2, 700}
 Threads = 1
INVARIANT SizesMayDiffer
CHECK_DEADLOCK FALSE
