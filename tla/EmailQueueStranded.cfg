SPECIFICATION FairSpec
CONSTANTS Threads = {t1, t2}
          WorkerCount = 1
          MaxQueueSize = 1
          MaxRetries = 0
          MaxEmails = 2
PROPERTY EveryEmailHandled
CHECK_DEADLOCK FALSE
