\* A queue of one, two calls at a time, and the window of the guard passes twice.
SPECIFICATION EmailSpec
CONSTANTS Threads = {t1, t2}
          WorkerCount = 1
          MaxQueueSize = 1
          MaxRetries = 1
          MaxEmails = 3
          MinInterval = 1
          MaxPerIP = 1
          Duration = 3
          MaxTime = 7
          MaxCallers = 2
CHECK_DEADLOCK FALSE
INVARIANTS EmailsAccounted SpamLimits
PROPERTIES StopReturns HandledWhileWorking
