----------------------------- MODULE JmsReceiver -----------------------------
(***************************************************************************)
(* src/grinder/examples/jmsreceiver.py: the worker threads of a process,  *)
(* each with its own TestRunner, share the one queue connection the       *)
(* script starts at import.  In every run a worker opens a queue session,  *)
(* whose JMS delivery                                                      *)
(* thread calls onMessage for each message, and takes MsgsPerRun delivery *)
(* times from self.messageQueue, waiting on self.cv while it is empty,     *)
(* before closing the session.  The TestRunner, with its messageQueue and  *)
(* cv, lives as long as the thread, across runs.                           *)
(*                                                                         *)
(* Both sides touch messageQueue only while holding cv, so each critical   *)
(* section is one step.  A message is represented by the run in which it  *)
(* was delivered (its delivery time is taken then).                       *)
(*                                                                         *)
(* The messages come from a worker thread of jmssender.py on the same     *)
(* queue: in each of its runs it opens a queue session and a sender and    *)
(* sends MsgsPerRun messages (range(0, 10) as well) before closing the     *)
(* session.  The queue holds what is sent until the receiver's session,    *)
(* while open, has it delivered to onMessage.                              *)
(***************************************************************************)
EXTENDS Naturals, Sequences

CONSTANTS
    Receivers,    \* the worker threads of the jmsreceiver.py process
    MsgsPerRun,   \* range(0, 10): the messages read per run
    MaxRuns,      \* grinder.runs
    SenderRuns    \* grinder.runs of the jmssender.py worker

ASSUME /\ Receivers # {}
       /\ MsgsPerRun \in Nat \ {0} /\ MaxRuns \in Nat \ {0} /\ SenderRuns \in Nat

\* The messages sent to the JMS queue over all the sender's runs.
MaxMsgs == SenderRuns * MsgsPerRun

VARIABLES
    messageQueue,  \* each TestRunner's self.messageQueue
    sessionOpen,   \* the thread's session of this run is open, with self as listener
    pc,            \* each worker: "idle", "loop", "waiting", "woken", "finished"
    i,             \* each worker's loop counter of range(0, 10)
    runNumber,     \* each worker's grinder.runNumber
    sent,          \* messages taken off the JMS queue so far
    recorded,      \* per worker and run, the delivery times recorded
    failed,        \* the workers whose pop(0) raised IndexError on an empty list
    queued,        \* messages on the JMS queue, sent and not yet delivered
    spc,           \* the sender: "idle", "sending", "finished"
    si,            \* the sender's loop counter of range(0, 10)
    sruns          \* the sender's grinder.runNumber

receiverVars == <<messageQueue, sessionOpen, pc, i, runNumber, sent, recorded, failed>>
senderVars == <<spc, si, sruns>>
vars == <<receiverVars, queued, senderVars>>

\* The connection is created and started once, at import; each thread's
\* TestRunner starts with an empty messageQueue.
Init ==
    /\ messageQueue = [t \in Receivers |-> <<>>]
    /\ sessionOpen = [t \in Receivers |-> FALSE]
    /\ pc = [t \in Receivers |-> "idle"]
    /\ i = [t \in Receivers |-> 0]
    /\ runNumber = [t \in Receivers |-> 0]
    /\ sent = 0
    /\ recorded = [t \in Receivers |-> [r \in 0..(MaxRuns - 1) |-> <<>>]]
    /\ failed = {}
    /\ queued = 0
    /\ spc = IF SenderRuns > 0 THEN "idle" ELSE "finished"
    /\ si = 0
    /\ sruns = 0

\* __call__ up to the loop: createQueueSession, createReceiver, and
\* receiver.messageListener = self, from which point messages arrive.
StartRun(t) ==
    /\ pc[t] = "idle"
    /\ sessionOpen' = [sessionOpen EXCEPT ![t] = TRUE]
    /\ pc' = [pc EXCEPT ![t] = "loop"]
    /\ i' = [i EXCEPT ![t] = 0]
    /\ UNCHANGED <<messageQueue, runNumber, sent, recorded, failed, queued, senderVars>>

\* The message taken off the JMS queue and appended, holding cv.
Deliver(t) ==
    /\ sessionOpen[t]
    /\ queued > 0
    /\ queued' = queued - 1
    /\ sent' = sent + 1
    /\ messageQueue' = [messageQueue EXCEPT ![t] = Append(@, runNumber[t])]

\* Mutation-testing variant: onMessage without notifyAll.
OnMessageNoNotify(t) ==
    /\ Deliver(t)
    /\ UNCHANGED <<sessionOpen, pc, i, runNumber, recorded, failed, senderVars>>

\* onMessage, on the delivery thread of t's session (the JMS provider
\* gives each message to one of the open sessions on the queue): append
\* the delivery time and notifyAll, holding cv.
OnMessage(t) ==
    /\ Deliver(t)
    /\ pc' = [pc EXCEPT ![t] = IF @ = "waiting" THEN "woken" ELSE @]
    /\ UNCHANGED <<sessionOpen, i, runNumber, recorded, failed, senderVars>>

\* With cv held and the while loop done: pop(0), release, record the
\* delivery time; the loop moves on to the next message.
PopAndRecord(t) ==
    IF messageQueue[t] = <<>>
    THEN /\ failed' = failed \cup {t}
         /\ UNCHANGED <<messageQueue, pc, i, recorded>>
    ELSE /\ messageQueue' = [messageQueue EXCEPT ![t] = Tail(@)]
         /\ recorded' = [recorded EXCEPT ![t][runNumber[t]] = Append(@, Head(messageQueue[t]))]
         /\ i' = [i EXCEPT ![t] = @ + 1]
         /\ pc' = [pc EXCEPT ![t] = "loop"]
         /\ UNCHANGED failed

\* The while condition, tested with cv held: wait, or take a message.
WhileEmptyWait(t) ==
    IF messageQueue[t] = <<>>
    THEN /\ pc' = [pc EXCEPT ![t] = "waiting"]
         /\ UNCHANGED <<messageQueue, i, recorded, failed>>
    ELSE PopAndRecord(t)

\* Mutation-testing variant: the loop bound not tested.
AcquirePastEnd(t) ==
    /\ pc[t] = "loop"
    /\ t \notin failed
    /\ WhileEmptyWait(t)
    /\ UNCHANGED <<sessionOpen, runNumber, sent, queued, senderVars>>

\* cv.acquire() at the top of an iteration of range(0, 10).
Acquire(t) ==
    /\ pc[t] = "loop"
    /\ t \notin failed
    /\ i[t] < MsgsPerRun
    /\ WhileEmptyWait(t)
    /\ UNCHANGED <<sessionOpen, runNumber, sent, queued, senderVars>>

\* cv.wait() returns without a notify.
SpuriousWakeup(t) ==
    /\ pc[t] = "waiting"
    /\ pc' = [pc EXCEPT ![t] = "woken"]
    /\ UNCHANGED <<messageQueue, sessionOpen, i, runNumber, sent, recorded, failed, queued, senderVars>>

\* Mutation-testing variant: "if" for "while", the list not re-tested.
ReacquireNoRecheck(t) ==
    /\ pc[t] = "woken"
    /\ PopAndRecord(t)
    /\ UNCHANGED <<sessionOpen, runNumber, sent, queued, senderVars>>

\* cv.wait() re-acquires cv and the while condition is tested again.
Reacquire(t) ==
    /\ pc[t] = "woken"
    /\ WhileEmptyWait(t)
    /\ UNCHANGED <<sessionOpen, runNumber, sent, queued, senderVars>>

\* session.close(): no onMessage runs after it returns.  The messages
\* still in messageQueue are logged as "additional" and left there.
CloseSession(t) ==
    /\ pc[t] = "loop"
    /\ i[t] = MsgsPerRun
    /\ sessionOpen' = [sessionOpen EXCEPT ![t] = FALSE]
    /\ runNumber' = [runNumber EXCEPT ![t] = @ + 1]
    /\ pc' = [pc EXCEPT ![t] = IF runNumber[t] + 1 < MaxRuns THEN "idle" ELSE "finished"]
    /\ UNCHANGED <<messageQueue, i, sent, recorded, failed, queued, senderVars>>

\* jmssender.py __call__ up to the loop: createQueueSession, createSender,
\* test1.record and createBytesMessage.
SenderStartRun ==
    /\ spc = "idle"
    /\ spc' = "sending"
    /\ si' = 0
    /\ UNCHANGED <<receiverVars, queued, sruns>>

\* sender.send(message), then grinder.sleep(100): the message is on the
\* queue.
Send ==
    /\ spc = "sending"
    /\ si < MsgsPerRun
    /\ queued' = queued + 1
    /\ si' = si + 1
    /\ UNCHANGED <<receiverVars, spc, sruns>>

\* session.close() once the ten messages are sent; the next run, if any.
SenderClose ==
    /\ spc = "sending"
    /\ si = MsgsPerRun
    /\ sruns' = sruns + 1
    /\ spc' = IF sruns + 1 < SenderRuns THEN "idle" ELSE "finished"
    /\ UNCHANGED <<receiverVars, queued, si>>

\* Both workers have finished their runs.
Terminated ==
    /\ \A t \in Receivers : pc[t] = "finished"
    /\ spc = "finished"
    /\ UNCHANGED vars

Next ==
    \/ \E t \in Receivers :
          \/ StartRun(t) \/ OnMessage(t) \/ Acquire(t) \/ SpuriousWakeup(t)
          \/ Reacquire(t) \/ CloseSession(t)
    \/ SenderStartRun \/ Send \/ SenderClose \/ Terminated

\* The worker threads of both scripts and the JMS delivery thread are
\* scheduled fairly; spurious wake-ups are never required.
Fairness ==
    /\ \A t \in Receivers :
          /\ WF_vars(StartRun(t)) /\ WF_vars(Acquire(t)) /\ WF_vars(Reacquire(t))
          /\ WF_vars(CloseSession(t)) /\ WF_vars(OnMessage(t))
    /\ WF_vars(SenderStartRun) /\ WF_vars(Send) /\ WF_vars(SenderClose)

Spec == Init /\ [][Next]_vars /\ Fairness

-----------------------------------------------------------------------------
(* Properties                                                              *)

TypeOK ==
    /\ messageQueue \in [Receivers -> Seq(0..(MaxRuns - 1))]
    /\ sessionOpen \in [Receivers -> BOOLEAN]
    /\ pc \in [Receivers -> {"idle", "loop", "waiting", "woken", "finished"}]
    /\ i \in [Receivers -> 0..MsgsPerRun]
    /\ runNumber \in [Receivers -> 0..MaxRuns]
    /\ sent \in 0..MaxMsgs
    /\ failed \subseteq Receivers
    /\ queued \in 0..MaxMsgs
    /\ spc \in {"idle", "sending", "finished"}
    /\ si \in 0..MsgsPerRun
    /\ sruns \in 0..SenderRuns

\* No worker ever pops an empty messageQueue: it leaves the while loop
\* only with a message to take, however cv.wait() returned.
NoPopFromEmpty == failed = {}

\* Given as many messages as the runs read, every run reads its MsgsPerRun
\* messages and every worker finishes: each notifyAll of onMessage reaches
\* a waiting worker, and no message is stranded where no run reads it.
AllRunsComplete == <>(\A t \in Receivers : pc[t] = "finished")

\* The delivery times recorded in a run are those of messages received by
\* that run's session: the comment before the final log says the
\* additional messages read are discarded.
RecordsOwnRun ==
    \A t \in Receivers : \A r \in DOMAIN recorded[t] :
        \A k \in 1..Len(recorded[t][r]) : recorded[t][r][k] = r
=============================================================================
