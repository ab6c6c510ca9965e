------------------------------ MODULE SpeEpoll -------------------------------
(***************************************************************************)
(* The registration table of src/spe/spe_epoll.c: which task wants to run  *)
(* when a descriptor is readable or writable, and the mask the kernel was  *)
(* told.  The operations are functions from one table to the next, like    *)
(* those of TaskQueue; epoll_ctl is taken to succeed.                      *)
(***************************************************************************)
EXTENDS TaskQueue

CONSTANTS Fds,          \* the slots of all_epoll in use
          NoTask        \* a NULL task pointer

SPE_EPOLL_READ  == "READ"
SPE_EPOLL_WRITE == "WRITE"

EpollTable ==
  [Fds -> [readTask  : Tasks \cup {NoTask},
           writeTask : Tasks \cup {NoTask},
           mask      : SUBSET {SPE_EPOLL_READ, SPE_EPOLL_WRITE}]]

EpollEmpty ==
  [fd \in Fds |-> [readTask |-> NoTask, writeTask |-> NoTask, mask |-> {}]]

\* The pointer a call stores for one direction of its mask.
Pointed(old, direction, mask, task) == IF direction \in mask THEN task ELSE old

epollEnable(table, fd, mask, task) ==
  [table EXCEPT
     ![fd].readTask  = Pointed(@, SPE_EPOLL_READ, mask, task),
     ![fd].writeTask = Pointed(@, SPE_EPOLL_WRITE, mask, task),
     ![fd].mask      = @ \cup mask]

\* Faulty variant: the pointers are cleared but the kernel is not told.
epollDisableKeepsMask(table, fd, mask) ==
  [table EXCEPT
     ![fd].readTask  = Pointed(@, SPE_EPOLL_READ, mask, NoTask),
     ![fd].writeTask = Pointed(@, SPE_EPOLL_WRITE, mask, NoTask)]

epollDisable(table, fd, mask) ==
  [table EXCEPT
     ![fd].readTask  = Pointed(@, SPE_EPOLL_READ, mask, NoTask),
     ![fd].writeTask = Pointed(@, SPE_EPOLL_WRITE, mask, NoTask),
     ![fd].mask      = @ \ mask]

\* One round of the event loop of epollProcess: the kernel reported the
\* directions `ready` for fd, and both enqueue operations see the same task
\* state as the code does, reading before writing.
DispatchEvent(s, table, fd, ready) ==
  LET entry == table[fd]
      hit   == ready \cap entry.mask
      r     == IF SPE_EPOLL_READ \in hit THEN SpeTaskEnqueue(s, entry.readTask) ELSE s
  IN  IF SPE_EPOLL_WRITE \in hit THEN SpeTaskEnqueue(r, entry.writeTask) ELSE r
=============================================================================
