----------------------------- MODULE CheckQueue -----------------------------
(***************************************************************************)
(* CCheckQueue and CCheckQueueControl (checkqueue.h), which run the script *)
(* checks of a block on several threads.  The thread that connects a block *)
(* (the master) adds checks while the workers take them, then joins the    *)
(* workers in Loop until nothing is left, and takes the common answer.     *)
(*                                                                         *)
(* What a thread does under m_mutex is one step.  A check is its outcome.  *)
(* A condition variable may wake a thread for no reason.  The workers are  *)
(* stopped when no thread connects blocks any more: PrepareShutdown has    *)
(* joined them all.                                                        *)
(***************************************************************************)
EXTENDS Integers, Sequences, FiniteSets, SequencesExt

CONSTANTS
    Workers, Master,
    BatchSize,      \* nBatchSize
    AddSizes,       \* how many checks a call of Add may bring
    MaxChecks,      \* bound on the checks of a block
    MaxBlocks       \* bound on the blocks of a behaviour

ASSUME ThreadsAssumption == IsFiniteSet(Workers) /\ Master \notin Workers
ASSUME SizesAssumption ==
    /\ BatchSize \in Nat \ {0} /\ MaxChecks \in Nat /\ MaxBlocks \in Nat
    /\ AddSizes \subseteq 1..MaxChecks

Threads == Workers \cup {Master}

VARIABLES
    queue, nTodo, nIdle, nTotal, fAllOk, stop,  \* the queue (stop: m_request_stop)
    thread,     \* of every thread: where it is, vChecks, nNow and fOk
    notify,     \* the call of notify that Add still has to make
    added,      \* the outcomes of the checks of this block (history)
    answer,     \* what the last Wait has returned
    blocks

vars == <<queue, nTodo, nIdle, nTotal, fAllOk, stop, thread, notify, added, answer, blocks>>
counters == <<nTodo, nIdle, nTotal, fAllOk>>
session == <<added, answer, blocks>>

Where(t) == thread[t].at
Off == [at |-> "off", batch |-> <<>>, now |-> 0, ok |-> TRUE]
Fresh == [Off EXCEPT !.at = "loop"]
Woken(t) == [thread[t] EXCEPT !.at = "woken"]

Init ==
    /\ queue = <<>> /\ nTodo = 0 /\ nIdle = 0 /\ nTotal = 0 /\ fAllOk = TRUE
    /\ stop = FALSE /\ thread = [t \in Threads |-> Off] /\ notify = "none"
    /\ added = <<>> /\ answer = <<>> /\ blocks = 0

-----------------------------------------------------------------------------
StartWorkerThreads ==
    /\ \A t \in Threads : thread[t] = Off
    /\ ~stop
    /\ nIdle' = 0 /\ nTotal' = 0 /\ fAllOk' = TRUE
    /\ thread' = [t \in Threads |-> IF t \in Workers THEN Fresh ELSE Off]
    /\ UNCHANGED <<queue, nTodo, stop, notify, session>>

\* The constructor of CCheckQueueControl, for the next block.
Control ==
    /\ Where(Master) = "off" /\ ~stop /\ blocks < MaxBlocks
    /\ thread' = [thread EXCEPT ![Master].at = "control"]
    /\ added' = <<>> /\ answer' = <<>> /\ blocks' = blocks + 1
    /\ UNCHANGED <<queue, counters, stop, notify>>

\* Add, up to the end of its critical section.
Add(checks) ==
    /\ Where(Master) = "control" /\ notify = "none"
    /\ Len(added) + Len(checks) <= MaxChecks
    /\ queue' = queue \o checks
    /\ nTodo' = nTodo + Len(checks)
    /\ notify' = IF Len(checks) = 1 THEN "one" ELSE "all"
    /\ added' = added \o checks
    /\ UNCHANGED <<nIdle, nTotal, fAllOk, stop, thread, answer, blocks>>

\* notify_one or notify_all of m_worker_cv, at the end of Add.
Notify ==
    /\ notify # "none" /\ notify' = "none"
    /\ LET waiting == {t \in Workers : Where(t) = "wait"}
       IN  IF notify = "one" /\ waiting # {}
           THEN \E w \in waiting : thread' = [thread EXCEPT ![w] = Woken(w)]
           ELSE thread' = [t \in Threads |-> IF t \in waiting THEN Woken(t) ELSE thread[t]]
    /\ UNCHANGED <<queue, counters, stop, session>>

\* Wait, called by ConnectBlock or by the destructor of the control.
Wait ==
    /\ Where(Master) = "control" /\ notify = "none"
    /\ thread' = [thread EXCEPT ![Master] = Fresh]
    /\ UNCHANGED <<queue, counters, stop, notify, session>>

-----------------------------------------------------------------------------
\* How many checks a thread takes.
BatchOf(size, total, idle) ==
    LET share == size \div (total + idle + 1)
        small == IF share < BatchSize THEN share ELSE BatchSize
    IN  IF small < 1 THEN 1 ELSE small

AtLock(t) == Where(t) \in {"loop", "woken"}

\* The counters after a thread has the lock (again) in Loop: it has counted
\* itself, or put in the results of its batch, or come back from waiting.
Entered(t) ==
    LET now == [todo |-> nTodo, idle |-> nIdle, total |-> nTotal, ok |-> fAllOk]
    IN  CASE Where(t) = "woken" -> [now EXCEPT !.idle = @ - 1]
          [] Where(t) = "loop" /\ thread[t].now = 0 -> [now EXCEPT !.total = @ + 1]
          [] OTHER -> [now EXCEPT !.todo = @ - thread[t].now, !.ok = @ /\ thread[t].ok]

\* Fault: the thread that has finished the last batch tells nobody.
NotifiedSilent(t) == thread

\* The threads after m_master_cv has been notified, if t has to.
Notified(t) ==
    IF /\ t # Master /\ Where(t) = "loop" /\ thread[t].now # 0
       /\ Entered(t).todo = 0 /\ Where(Master) = "wait"
    THEN [thread EXCEPT ![Master] = Woken(Master)] ELSE thread

Counters(e) == nTodo' = e.todo /\ nIdle' = e.idle /\ nTotal' = e.total /\ fAllOk' = e.ok

\* Loop, in the critical section: take a batch from the end of the queue.
Take(t) ==
    LET e == Entered(t)
        n == BatchOf(Len(queue), e.total, e.idle)
        left == Len(queue) - n
    IN  /\ AtLock(t) /\ queue # <<>> /\ ~stop
        /\ Counters(e)
        /\ queue' = SubSeq(queue, 1, left)
        /\ thread' = [Notified(t) EXCEPT ![t] =
              [at |-> "work", batch |-> Reverse(SubSeq(queue, left + 1, Len(queue))),
               now |-> n, ok |-> e.ok]]
        /\ UNCHANGED <<stop, notify, session>>

\* Loop: nothing to take, wait on the condition variable.
Sleep(t) ==
    LET e == Entered(t)
    IN  /\ AtLock(t) /\ queue = <<>> /\ ~stop
        /\ t # Master \/ e.todo # 0
        /\ Counters([e EXCEPT !.idle = @ + 1])
        /\ thread' = [Notified(t) EXCEPT ![t] = [Off EXCEPT !.at = "wait"]]
        /\ UNCHANGED <<queue, stop, notify, session>>

\* Fault: the master leaves when there is nothing to take.
ReturnEarly ==
    LET e == Entered(Master)
    IN  /\ AtLock(Master) /\ queue = <<>> /\ ~stop
        /\ Counters([e EXCEPT !.total = @ - 1, !.ok = TRUE])
        /\ answer' = <<e.ok>> /\ thread' = [thread EXCEPT ![Master] = Off]
        /\ UNCHANGED <<queue, stop, notify, added, blocks>>

\* Fault: the master leaves the answer for the next block.
ReturnKeepsStatus ==
    LET e == Entered(Master)
    IN  /\ AtLock(Master) /\ queue = <<>> /\ ~stop /\ e.todo = 0
        /\ Counters([e EXCEPT !.total = @ - 1])
        /\ answer' = <<e.ok>> /\ thread' = [thread EXCEPT ![Master] = Off]
        /\ UNCHANGED <<queue, stop, notify, added, blocks>>

\* Loop: the master returns the common answer.
Return ==
    LET e == Entered(Master)
    IN  /\ AtLock(Master) /\ queue = <<>> /\ ~stop /\ e.todo = 0
        /\ Counters([e EXCEPT !.total = @ - 1, !.ok = TRUE])
        /\ answer' = <<e.ok>> /\ thread' = [thread EXCEPT ![Master] = Off]
        /\ UNCHANGED <<queue, stop, notify, added, blocks>>

\* Loop outside the lock: run the batch until a check fails.
Execute(t) ==
    /\ Where(t) = "work"
    /\ thread' = [thread EXCEPT ![t].at = "loop", ![t].batch = <<>>,
                     ![t].ok = @ /\ \A i \in DOMAIN thread[t].batch : thread[t].batch[i]]
    /\ UNCHANGED <<queue, counters, stop, notify, session>>

\* A condition variable wakes a thread for no reason.
Spurious(t) ==
    /\ Where(t) = "wait" /\ thread' = [thread EXCEPT ![t] = Woken(t)]
    /\ UNCHANGED <<queue, counters, stop, notify, session>>

-----------------------------------------------------------------------------
\* Fault: the flag is set, but nobody told.
StopSilently ==
    /\ Where(Master) = "off" /\ ~stop /\ \E w \in Workers : thread[w] # Off
    /\ stop' = TRUE
    /\ UNCHANGED <<queue, counters, thread, notify, session>>

\* StopWorkerThreads: the flag and notify_all ...
Stop ==
    /\ Where(Master) = "off" /\ ~stop /\ \E w \in Workers : thread[w] # Off
    /\ stop' = TRUE
    /\ thread' = [t \in Threads |-> IF Where(t) = "wait" THEN Woken(t) ELSE thread[t]]
    /\ UNCHANGED <<queue, counters, notify, session>>

\* ... a worker that meets the flag ...
Leave(t) ==
    /\ t \in Workers /\ AtLock(t) /\ stop
    /\ Counters(Entered(t))
    /\ thread' = [Notified(t) EXCEPT ![t] = Off]
    /\ UNCHANGED <<queue, stop, notify, session>>

\* ... and the join of all workers.
Joined ==
    /\ stop /\ \A w \in Workers : thread[w] = Off
    /\ stop' = FALSE
    /\ UNCHANGED <<queue, counters, thread, notify, session>>

Checks == UNION {[1..n -> BOOLEAN] : n \in AddSizes}

Step(t) == Take(t) \/ Sleep(t) \/ Leave(t) \/ Execute(t) \/ (t = Master /\ Return)

Next ==
    \/ StartWorkerThreads \/ Control \/ Notify \/ Wait \/ Stop \/ Joined
    \/ \E checks \in Checks : Add(checks)
    \/ \E t \in Threads : Step(t) \/ Spurious(t)

\* Every thread goes on while it has something to do, and ConnectBlock, or the
\* destructor of its control, calls Wait in the end.
Fairness ==
    /\ \A t \in Threads : WF_vars(Step(t))
    /\ WF_vars(Notify) /\ WF_vars(Wait) /\ WF_vars(Joined)

Spec == Init /\ [][Next]_vars /\ Fairness

-----------------------------------------------------------------------------
\* What a thread has taken and not yet reported.
Held(t) == IF Where(t) \in {"work", "loop"} THEN thread[t].now ELSE 0

\* Wait returns TRUE exactly if every check of this block holds: a failed check
\* is not lost between the threads, and not charged to the next block.
AnswerIsExact == answer # <<>> => answer[1] = \A i \in DOMAIN added : added[i]

\* CCheckQueueControl "guarantees the passed queue is finished before
\* continuing": once the master is out, no check is queued, taken or counted.
QueueFinished ==
    Where(Master) = "off" =>
        queue = <<>> /\ nTodo = 0 /\ \A t \in Threads : Held(t) = 0

\* The master that waits for the workers is woken: Wait always returns.
WaitReturns == (Where(Master) = "control") ~> (Where(Master) = "off")

\* StopWorkerThreads always returns: no worker sleeps through the flag.
StopReturns == stop ~> ~stop
=============================================================================
