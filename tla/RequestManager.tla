--------------------------- MODULE RequestManager ---------------------------
(***************************************************************************)
(* The request manager (lib/samehada/request_manager.go): callers of       *)
(* ExecuteSQL queue a request, one goroutine (Run) starts a goroutine per  *)
(* request, at most MaxTxnThreadNum at a time, and hands the results back. *)
(*                                                                         *)
(* Run is woken only by messages on the buffered channel inCh: a nil per   *)
(* appended request and a result per finished execution.  It starts at     *)
(* most one request per message, so whether every queued request is ever   *)
(* started depends on how wake-ups, results and the cap interleave.        *)
(*                                                                         *)
(* A caller waits for its answer before it sends another request, so a     *)
(* request is named by its caller.  Errors other than QueryAbortedErr are  *)
(* handed back like results.                                               *)
(***************************************************************************)
EXTENDS Integers, Sequences, FiniteSets

CONSTANTS Caller,            \* goroutines that call ExecuteSQL
          MaxTxnThreadNum,   \* cap on concurrent executions
          ChanCap,           \* capacity of inCh
          Nil                \* the wake-up message

ASSUME RequestManagerAssumption ==
  /\ IsFiniteSet(Caller)
  /\ MaxTxnThreadNum \in Nat \ {0}
  /\ ChanCap \in Nat \ {0}
  /\ Nil \notin Caller \cup [req : Caller, err : BOOLEAN]

VARIABLES
  caller,             \* Caller -> "idle", "waking" (in inCh <- nil), "waiting" (for the answer)
  execQue,            \* requests to start
  inCh,               \* messages to Run
  curExectingReqNum,
  worker,             \* Caller -> goroutine executing its request, or its unsent outcome
  run,                \* where Run is: "receive", "deliver", "dispatch" or "stopped"
  answering,          \* the request whose result Run holds
  isExecutionActive,
  stopper             \* StopTh: "none", "signalling" (in inCh <- nil), "done"

vars == <<caller, execQue, inCh, curExectingReqNum, worker, run, answering,
          isExecutionActive, stopper>>

Result(c, aborted) == [req |-> c, err |-> aborted]
Results == [req : Caller, err : BOOLEAN]

HasRoom == Len(inCh) < ChanCap
Send(m) == HasRoom /\ inCh' = Append(inCh, m)

-----------------------------------------------------------------------------
\* ExecuteSQL: append under the mutex, wake Run up, then wait on callerCh.
AppendRequest(c) ==
  /\ caller[c] = "idle"
  /\ execQue' = Append(execQue, c)
  /\ caller' = [caller EXCEPT ![c] = "waking"]
  /\ UNCHANGED <<inCh, curExectingReqNum, worker, run, answering, isExecutionActive, stopper>>

\* Faulty variant: a caller that waits may wake Run up again.
WakeUpAgain(c) ==
  /\ caller[c] \in {"waking", "waiting"}
  /\ Send(Nil)
  /\ caller' = [caller EXCEPT ![c] = "waiting"]
  /\ UNCHANGED <<execQue, curExectingReqNum, worker, run, answering, isExecutionActive, stopper>>

WakeUp(c) ==
  /\ caller[c] = "waking"
  /\ Send(Nil)
  /\ caller' = [caller EXCEPT ![c] = "waiting"]
  /\ UNCHANGED <<execQue, curExectingReqNum, worker, run, answering, isExecutionActive, stopper>>

-----------------------------------------------------------------------------
\* ExecuteSQLForTxnTh: the statement commits or fails, or it is aborted by
\* concurrency control; then the outcome goes to Run.
Finish(c) ==
  /\ worker[c] = "running"
  /\ worker' = [worker EXCEPT ![c] = "finished"]
  /\ UNCHANGED <<caller, execQue, inCh, curExectingReqNum, run, answering, isExecutionActive, stopper>>

AbortedByCC(c) ==
  /\ worker[c] = "running"
  /\ worker' = [worker EXCEPT ![c] = "aborted"]
  /\ UNCHANGED <<caller, execQue, inCh, curExectingReqNum, run, answering, isExecutionActive, stopper>>

SendResult(c) ==
  /\ worker[c] \in {"finished", "aborted"}
  /\ Send(Result(c, worker[c] = "aborted"))
  /\ worker' = [worker EXCEPT ![c] = "none"]
  /\ UNCHANGED <<caller, execQue, curExectingReqNum, run, answering, isExecutionActive, stopper>>

-----------------------------------------------------------------------------
\* Faulty variant: the counter goes down for a wake-up, too.
ReceiveWakeUpCounted ==
  /\ run = "receive" /\ inCh # <<>>
  /\ Head(inCh) = Nil
  /\ inCh' = Tail(inCh)
  /\ curExectingReqNum' = curExectingReqNum - 1
  /\ run' = "dispatch"
  /\ UNCHANGED <<caller, execQue, worker, answering, isExecutionActive, stopper>>

\* Run takes a message.  A result ends an execution; that of an aborted
\* request puts it back at the head of the queue.
ReceiveWakeUp ==
  /\ run = "receive" /\ inCh # <<>>
  /\ Head(inCh) = Nil
  /\ inCh' = Tail(inCh)
  /\ run' = "dispatch"
  /\ UNCHANGED <<caller, execQue, curExectingReqNum, worker, answering, isExecutionActive, stopper>>

\* Faulty variant: Run waits for the next message without starting anything.
HandleAbortedAndWait ==
  /\ run = "receive" /\ inCh # <<>>
  /\ Head(inCh) # Nil /\ Head(inCh).err
  /\ inCh' = Tail(inCh)
  /\ curExectingReqNum' = curExectingReqNum - 1
  /\ execQue' = <<Head(inCh).req>> \o execQue
  /\ UNCHANGED <<caller, run, worker, answering, isExecutionActive, stopper>>

HandleAbortedByCCTxn ==
  /\ run = "receive" /\ inCh # <<>>
  /\ Head(inCh) # Nil /\ Head(inCh).err
  /\ inCh' = Tail(inCh)
  /\ curExectingReqNum' = curExectingReqNum - 1
  /\ execQue' = <<Head(inCh).req>> \o execQue
  /\ run' = "dispatch"
  /\ UNCHANGED <<caller, worker, answering, isExecutionActive, stopper>>

ReceiveResult ==
  /\ run = "receive" /\ inCh # <<>>
  /\ Head(inCh) # Nil /\ ~Head(inCh).err
  /\ inCh' = Tail(inCh)
  /\ curExectingReqNum' = curExectingReqNum - 1
  /\ run' = "deliver"
  /\ answering' = Head(inCh).req
  /\ UNCHANGED <<caller, execQue, worker, isExecutionActive, stopper>>

\* Faulty variant: after an answer Run goes back to waiting at once.
DeliverAndWait ==
  /\ run = "deliver"
  /\ caller[answering] = "waiting"
  /\ caller' = [caller EXCEPT ![answering] = "idle"]
  /\ run' = "receive"
  /\ answering' = Nil
  /\ UNCHANGED <<execQue, inCh, curExectingReqNum, worker, isExecutionActive, stopper>>

\* callerCh has no buffer: Run waits until the caller is there.
Deliver ==
  /\ run = "deliver"
  /\ caller[answering] = "waiting"
  /\ caller' = [caller EXCEPT ![answering] = "idle"]
  /\ run' = "dispatch"
  /\ answering' = Nil
  /\ UNCHANGED <<execQue, inCh, curExectingReqNum, worker, isExecutionActive, stopper>>

\* Faulty variant: the request stays in the queue while it is executed.
ExecuteQuedTxnsKept ==
  /\ execQue' = execQue
  /\ worker' = [worker EXCEPT ![Head(execQue)] = "running"]
  /\ curExectingReqNum' = curExectingReqNum + 1

\* executeQuedTxns
ExecuteQuedTxns ==
  /\ execQue' = Tail(execQue)
  /\ worker' = [worker EXCEPT ![Head(execQue)] = "running"]
  /\ curExectingReqNum' = curExectingReqNum + 1

MayStart == Len(execQue) > 0 /\ curExectingReqNum < MaxTxnThreadNum

Dispatch ==
  /\ run = "dispatch" /\ isExecutionActive
  /\ IF MayStart THEN ExecuteQuedTxns ELSE UNCHANGED <<execQue, worker, curExectingReqNum>>
  /\ run' = "receive"
  /\ UNCHANGED <<caller, inCh, answering, isExecutionActive, stopper>>

Break ==
  /\ run = "dispatch" /\ ~isExecutionActive
  /\ run' = "stopped"
  /\ UNCHANGED <<caller, execQue, inCh, curExectingReqNum, worker, answering, isExecutionActive, stopper>>

-----------------------------------------------------------------------------
\* StopTh: clear the flag, then wake Run up.
StopTh ==
  /\ stopper = "none"
  /\ isExecutionActive' = FALSE
  /\ stopper' = "signalling"
  /\ UNCHANGED <<caller, execQue, inCh, curExectingReqNum, worker, run, answering>>

StopSignal ==
  /\ stopper = "signalling"
  /\ Send(Nil)
  /\ stopper' = "done"
  /\ UNCHANGED <<caller, execQue, curExectingReqNum, worker, run, answering, isExecutionActive>>

-----------------------------------------------------------------------------
Init ==
  /\ caller = [c \in Caller |-> "idle"]
  /\ execQue = <<>>
  /\ inCh = <<>>
  /\ curExectingReqNum = 0
  /\ worker = [c \in Caller |-> "none"]
  /\ run = "receive"
  /\ answering = Nil
  /\ isExecutionActive = TRUE
  /\ stopper = "none"

Run == ReceiveWakeUp \/ HandleAbortedByCCTxn \/ ReceiveResult \/ Deliver \/ Dispatch \/ Break

Work(c) == Finish(c) \/ AbortedByCC(c) \/ SendResult(c)

Next ==
  \/ Run
  \/ StopTh \/ StopSignal
  \/ \E c \in Caller : AppendRequest(c) \/ WakeUp(c) \/ Work(c)

Spec == Init /\ [][Next]_vars

\* Every goroutine that can go on goes on: Run, the executions, a caller that
\* has appended a request, StopTh once called.  Whether anybody appends a
\* request or calls StopTh is left open.
Fairness ==
  /\ WF_vars(Run) /\ WF_vars(StopSignal)
  /\ \A c \in Caller : WF_vars(WakeUp(c)) /\ WF_vars(Work(c))

FairSpec == Spec /\ Fairness

-----------------------------------------------------------------------------
\* The fields of the manager and the states of its goroutines are well formed:
\* inCh carries wake-ups and results only, and the counter is never negative.
TypeOK ==
  /\ caller \in [Caller -> {"idle", "waking", "waiting"}]
  /\ execQue \in Seq(Caller)
  /\ inCh \in Seq({Nil} \cup Results)
  /\ curExectingReqNum \in Nat
  /\ worker \in [Caller -> {"none", "running", "finished", "aborted"}]
  /\ run \in {"receive", "deliver", "dispatch", "stopped"}
  /\ answering \in Caller \cup {Nil}
  /\ isExecutionActive \in BOOLEAN
  /\ stopper \in {"none", "signalling", "done"}

Queued(c) == {i \in DOMAIN execQue : execQue[i] = c}
Sent(c) == {i \in DOMAIN inCh : inCh[i] # Nil /\ inCh[i].req = c}

\* The places a caller's request can be in.
Places(c) ==
  Cardinality(Queued(c)) + Cardinality(Sent(c))
    + (IF worker[c] # "none" THEN 1 ELSE 0)
    + (IF run = "deliver" /\ answering = c THEN 1 ELSE 0)

\* A request is in exactly one place from AppendRequest to its answer: it is
\* neither lost nor executed twice by the retries, and an answered caller has
\* left nothing behind.
RequestInOnePlace == \A c \in Caller : Places(c) = (IF caller[c] = "idle" THEN 0 ELSE 1)

\* curExectingReqNum counts the executions whose result Run has not seen yet;
\* the unsigned counter never wraps and the cap is never exceeded.
Executing == {c \in Caller : worker[c] # "none" \/ Sent(c) # {}}
ExecutionsCounted ==
  curExectingReqNum = Cardinality(Executing) /\ curExectingReqNum <= MaxTxnThreadNum

\* Requests and executions are accounted for, whatever is retried and in
\* whatever order results and wake-ups arrive.
RequestsAccounted == RequestInOnePlace /\ ExecutionsCounted

\* Wake-ups on their way to Run.
NilsInCh == {i \in DOMAIN inCh : inCh[i] = Nil}
WakeUps == Cardinality(NilsInCh) + Cardinality({c \in Caller : caller[c] = "waking"})

\* No lost wake-up.  Run starts at most one request per message and throws a
\* wake-up away when the cap is reached, so fewer wake-ups than queued requests
\* may be on their way only while the cap is reached (or Run is about to start
\* the request that reaches it).
InTransit == IF run \in {"deliver", "dispatch"} THEN 1 ELSE 0
NoLostWakeUp ==
  run # "stopped" /\ Len(execQue) > WakeUps + InTransit
    => curExectingReqNum + InTransit >= MaxTxnThreadNum

\* Nobody is ever held up in inCh <- ..., not even once Run has stopped, as long
\* as the channel has room for two wake-ups per caller (one may be left from the
\* previous request), a result per execution, the stop signal and one message
\* more.  In a full inCh, Run would wait in Deliver for a caller that waits for
\* room, for ever.
SendsNeverBlock == HasRoom

\* Every request is answered, unless the manager is stopped or concurrency
\* control never stops aborting requests.  An aborted request goes to the head
\* of the queue, so as many as MaxTxnThreadNum that are aborted again and again
\* keep all the others waiting.
EveryRequestAnswered ==
  \/ []<><<\E c \in Caller : AbortedByCC(c)>>_vars
  \/ \A c \in Caller : (caller[c] # "idle") ~> (caller[c] = "idle" \/ ~isExecutionActive)

=============================================================================
