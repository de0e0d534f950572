SPECIFICATION OutboxSpec
CONSTANTS
    Consumers = {notifier, courier}
    Workers = {w1, w2}
    MaxAttempts = 2
    MaxTasks = 1
    MaxFaults = 1
    MaxRetries = 1
SYMMETRY Symmetry
INVARIANTS HandledOnce DoneEventIsHandled
CHECK_DEADLOCK FALSE
