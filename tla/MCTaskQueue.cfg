SPECIFICATION Spec
CONSTANTS
    Pusher = {p1}
    Popper = {w1, w2}
    Owner = w1
    Capacity = 1
    MaxTasks = 3
INVARIANTS TypeOK TakesItsTask NotOverfull AllFreed
PROPERTIES ImplementsFifo StopEndsWait EveryTaskTaken
