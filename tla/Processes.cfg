SPECIFICATION MCSpec
CONSTANTS
  Procs = {proc1, proc2, proc3}
  First = proc1
  Nobody = nobody1
  MaxArrivals = 1
  MaxDeaths = 1
  Workers = {worker1, worker2}
  Senders = {sender1, sender2}
  Objects = {object1, object2}
  NoObject = noObject
  MaxSent = 2
  Threads = {thread1, thread2}
  Callers = {main1}
  Jobs = {job1, job2, job3}
  NoJob = noJob
  NoThread = noThread
CHECK_DEADLOCK FALSE
INVARIANTS WatcherHoldsMutex ObjectRunsAlone PoolTypeOK PopFindsThread FreeIsIdle JobIsHeld
PROPERTIES PendingIsAccepted MessageIsHandled JobRuns
