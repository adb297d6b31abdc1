CONSTANTS
  Tasks <- AllTasks
  Jobs <- AllJobs
  Threads = {"m", "n"}
  MaxLeft = 3
  Workers = {"w1", "w2"}
  MaxDelay = 2
  MaxLosses = 2
SPECIFICATION Spec
\* Tasks may all wait for what never comes.
CHECK_DEADLOCK FALSE
INVARIANTS NothingTwice
PROPERTIES NeverEarly Settles
