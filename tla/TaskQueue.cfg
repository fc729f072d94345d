SPECIFICATION Spec
CONSTANTS
    Task = {t1, t2, t3, t4}
    MaxPriority = 2
    NoTask = none
    ThreadsNum = 3
INVARIANTS EachOnce WaitMeansDone
