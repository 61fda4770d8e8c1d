------------------------ MODULE RequestManagerProofs ------------------------
(***************************************************************************)
(* The request manager, for any number of callers, any cap on executions   *)
(* and any channel capacity: no wake-up is lost, every request is in one   *)
(* place, the executions are counted, and a channel that holds two         *)
(* wake-ups per caller, a result per execution and the stop signal never   *)
(* blocks a sender.                                                        *)
(*                                                                         *)
(* IInv is inductive.  Its parts rest on one another: that the counter is  *)
(* a natural number and that a started request is not executed already     *)
(* follow from RequestInOnePlace, and so does that an idle caller has no   *)
(* result left in inCh, which the bound on wake-ups needs.                 *)
(***************************************************************************)
EXTENDS RequestManager, FiniteSetTheorems, TLAPS

CountersOK ==
  /\ caller \in [Caller -> {"idle", "waking", "waiting"}]
  /\ execQue \in Seq(Caller)
  /\ inCh \in Seq({Nil} \cup Results)
  /\ curExectingReqNum \in Int
  /\ worker \in [Caller -> {"none", "running", "finished", "aborted"}]
  /\ answering \in Caller \cup {Nil}
  /\ run = "deliver" => answering \in Caller
  /\ run \in {"receive", "deliver", "dispatch", "stopped"}
  /\ isExecutionActive \in BOOLEAN
  /\ stopper \in {"none", "signalling", "done"}

\* The positions of a sequence that hold a member of V.
At(s, V) == {i \in DOMAIN s : s[i] \in V}

Nils(s) == At(s, {Nil})
Waking(f) == {c \in Caller : f[c] = "waking"}

\* They are finitely many.
LEMMA AtFinite ==
  ASSUME NEW S, NEW s \in Seq(S), NEW V
  PROVE IsFiniteSet(At(s, V)) /\ Cardinality(At(s, V)) \in Nat
<1>1. IsFiniteSet(1..Len(s)) BY FS_Interval
<1>2. At(s, V) \subseteq 1..Len(s) BY DEF At
<1> QED BY <1>1, <1>2, FS_Subset, FS_CardinalityType

\* Appending m adds one exactly if m is in V.
LEMMA AtAppend ==
  ASSUME NEW S, NEW s \in Seq(S), NEW m \in S, NEW V
  PROVE Cardinality(At(Append(s, m), V)) = Cardinality(At(s, V)) + (IF m \in V THEN 1 ELSE 0)
<1>1. IsFiniteSet(At(s, V)) /\ Cardinality(At(s, V)) \in Nat BY AtFinite
<1>2. CASE m \in V
  <2>1. At(Append(s, m), V) = At(s, V) \cup {Len(s) + 1} BY <1>2 DEF At
  <2>2. Len(s) + 1 \notin At(s, V) BY DEF At
  <2> QED BY <1>1, <1>2, <2>1, <2>2, FS_AddElement
<1>3. CASE m \notin V
  <2>1. At(Append(s, m), V) = At(s, V) BY <1>3 DEF At
  <2> QED BY <1>1, <1>3, <2>1
<1> QED BY <1>2, <1>3

\* Taking the head away takes one away exactly if the head is in V.
LEMMA AtTail ==
  ASSUME NEW S, NEW s \in Seq(S), s # <<>>, NEW V
  PROVE Cardinality(At(Tail(s), V)) = Cardinality(At(s, V)) - (IF Head(s) \in V THEN 1 ELSE 0)
<1> DEFINE Rest == At(s, V) \ {1}
<1>1. IsFiniteSet(At(s, V)) /\ Cardinality(At(s, V)) \in Nat BY AtFinite
<1>2. Tail(s) \in Seq(S) /\ Len(Tail(s)) = Len(s) - 1 /\ Len(s) \in Nat \ {0}
      /\ \A i \in 1..(Len(s) - 1) : Tail(s)[i] = s[i + 1]
  OBVIOUS
<1>3. IsFiniteSet(At(Tail(s), V)) BY <1>2, AtFinite
<1>4. Cardinality(At(Tail(s), V)) = Cardinality(Rest)
  <2> DEFINE f == [i \in At(Tail(s), V) |-> i + 1]
  <2>1. f \in Bijection(At(Tail(s), V), Rest)
    <3>1. \A i \in At(Tail(s), V) : i \in Int /\ i + 1 \in Rest BY <1>2 DEF At
    <3>2. \A j \in Rest : j \in Int /\ j - 1 \in At(Tail(s), V) /\ f[j - 1] = j BY <1>2 DEF At
    <3>3. f \in [At(Tail(s), V) -> Rest] BY <3>1
    <3>4. \A i, k \in At(Tail(s), V) : f[i] = f[k] => i = k BY <3>1
    <3> HIDE DEF f, Rest
    <3>5. f \in Injection(At(Tail(s), V), Rest) BY <3>3, <3>4 DEF Injection, IsInjective
    <3>6. f \in Surjection(At(Tail(s), V), Rest) BY <3>2, <3>3 DEF Surjection
    <3> QED BY <3>5, <3>6 DEF Bijection
  <2> QED BY <2>1, <1>3, FS_Bijection DEF ExistsBijection
<1>5. CASE Head(s) \in V
  <2>1. 1 \in At(s, V) BY <1>2, <1>5 DEF At
  <2> QED BY <1>1, <1>4, <1>5, <2>1, FS_RemoveElement
<1>6. CASE Head(s) \notin V
  <2>1. Rest = At(s, V) BY <1>2, <1>6 DEF At
  <2>2. Cardinality(Rest) = Cardinality(At(s, V)) BY <2>1
  <2> HIDE DEF Rest
  <2> QED BY <1>1, <1>4, <1>6, <2>2
<1> QED BY <1>5, <1>6

\* Putting m in front adds one exactly if m is in V.
LEMMA AtPrepend ==
  ASSUME NEW S, NEW s \in Seq(S), NEW m \in S, NEW V
  PROVE Cardinality(At(<<m>> \o s, V)) = Cardinality(At(s, V)) + (IF m \in V THEN 1 ELSE 0)
<1> DEFINE t == <<m>> \o s
<1>1. t \in Seq(S) /\ t # <<>> /\ Head(t) = m /\ Len(t) = Len(s) + 1 /\ Tail(t) \in Seq(S)
  OBVIOUS
<1>2. Tail(t) = s
  <2>1. Len(Tail(t)) = Len(s) /\ \A i \in 1..Len(s) : Tail(t)[i] = s[i] BY <1>1
  <2> QED BY <1>1, <2>1
<1> HIDE DEF t
<1>3. Cardinality(At(s, V)) = Cardinality(At(t, V)) - (IF m \in V THEN 1 ELSE 0)
  BY <1>1, <1>2, AtTail
<1>4. Cardinality(At(t, V)) \in Nat BY <1>1, AtFinite
<1> QED BY <1>3, <1>4 DEF t

\* Sending and receiving, for the wake-ups.
LEMMA NilsAppend ==
  ASSUME NEW S, NEW s \in Seq(S), NEW m \in S
  PROVE Cardinality(Nils(Append(s, m))) = Cardinality(Nils(s)) + (IF m = Nil THEN 1 ELSE 0)
  BY AtAppend DEF Nils

LEMMA NilsTail ==
  ASSUME NEW S, NEW s \in Seq(S), s # <<>>
  PROVE Cardinality(Nils(Tail(s))) = Cardinality(Nils(s)) - (IF Head(s) = Nil THEN 1 ELSE 0)
  BY AtTail DEF Nils

\* A caller that starts to wake Run up is one more that does ...
LEMMA WakingAdd ==
  ASSUME NEW f \in [Caller -> {"idle", "waking", "waiting"}], NEW c \in Caller, f[c] # "waking"
  PROVE /\ Cardinality(Waking(f)) \in Nat
        /\ Cardinality(Waking([f EXCEPT ![c] = "waking"])) = Cardinality(Waking(f)) + 1
<1>1. IsFiniteSet(Waking(f)) /\ Cardinality(Waking(f)) \in Nat
  BY RequestManagerAssumption, FS_Subset, FS_CardinalityType DEF Waking
<1>2. Waking([f EXCEPT ![c] = "waking"]) = Waking(f) \cup {c} /\ c \notin Waking(f)
  BY DEF Waking
<1> QED BY <1>1, <1>2, FS_AddElement

\* ... and one that has done so is one less.
LEMMA WakingRemove ==
  ASSUME NEW f \in [Caller -> {"idle", "waking", "waiting"}], NEW c \in Caller, f[c] = "waking"
  PROVE /\ Cardinality(Waking(f)) \in Nat
        /\ Cardinality(Waking([f EXCEPT ![c] = "waiting"])) = Cardinality(Waking(f)) - 1
<1>1. IsFiniteSet(Waking(f)) /\ Cardinality(Waking(f)) \in Nat
  BY RequestManagerAssumption, FS_Subset, FS_CardinalityType DEF Waking
<1>2. Waking([f EXCEPT ![c] = "waiting"]) = Waking(f) \ {c} /\ c \in Waking(f)
  BY DEF Waking
<1> QED BY <1>1, <1>2, FS_RemoveElement

\* The counts of NoLostWakeUp are natural numbers.
LEMMA Counts ==
  ASSUME NEW f \in [Caller -> {"idle", "waking", "waiting"}],
         NEW s \in Seq({Nil} \cup Results), NEW e \in Seq(Caller)
  PROVE Cardinality(Nils(s)) \in Nat /\ Cardinality(Waking(f)) \in Nat /\ Len(e) \in Nat
<1>1. Cardinality(Nils(s)) \in Nat BY AtFinite DEF Nils
<1>2. Cardinality(Waking(f)) \in Nat
  BY RequestManagerAssumption, FS_Subset, FS_CardinalityType DEF Waking
<1> QED BY <1>1, <1>2

-----------------------------------------------------------------------------
LEMMA InitNoLost == Init => CountersOK /\ NoLostWakeUp
<1> SUFFICES ASSUME Init PROVE CountersOK /\ NoLostWakeUp OBVIOUS
<1>1. CountersOK BY DEF Init, CountersOK
<1>2. NoLostWakeUp
  <2>1. Len(execQue) = 0 /\ InTransit = 0 BY DEF Init, InTransit
  <2>2. Cardinality(Nils(inCh)) \in Nat /\ Cardinality(Waking(caller)) \in Nat
    BY <1>1, Counts DEF CountersOK
  <2>3. WakeUps \in Nat BY <2>2 DEF WakeUps, NilsInCh, Nils, At, Waking
  <2> QED BY <2>1, <2>3 DEF NoLostWakeUp
<1> QED BY <1>1, <1>2

\* The types are preserved by every step.
LEMMA CountersStep == CountersOK /\ [Next]_vars => CountersOK'
<1> SUFFICES ASSUME CountersOK, [Next]_vars PROVE CountersOK' OBVIOUS
<1> USE DEF CountersOK
<1>1. CASE UNCHANGED vars BY <1>1 DEF vars
<1>2. ASSUME NEW c \in Caller, AppendRequest(c) PROVE CountersOK' BY <1>2 DEF AppendRequest
<1>3. ASSUME NEW c \in Caller, WakeUp(c) PROVE CountersOK' BY <1>3 DEF WakeUp, Send
<1>4. ASSUME NEW c \in Caller, Finish(c) \/ AbortedByCC(c) PROVE CountersOK'
  BY <1>4 DEF Finish, AbortedByCC
<1>5. ASSUME NEW c \in Caller, SendResult(c) PROVE CountersOK'
  <2>1. Result(c, worker[c] = "aborted") \in Results BY DEF Result, Results
  <2> QED BY <1>5, <2>1 DEF SendResult, Send
<1>6. CASE ReceiveWakeUp BY <1>6 DEF ReceiveWakeUp
<1>7. CASE HandleAbortedByCCTxn
  <2>1. Head(inCh) \in Results BY <1>7 DEF HandleAbortedByCCTxn
  <2>2. Head(inCh).req \in Caller BY <2>1 DEF Results
  <2> QED BY <1>7, <2>2 DEF HandleAbortedByCCTxn
<1>8. CASE ReceiveResult
  <2>1. Head(inCh) \in Results BY <1>8 DEF ReceiveResult
  <2>2. Head(inCh).req \in Caller BY <2>1 DEF Results
  <2> QED BY <1>8, <2>2 DEF ReceiveResult
<1>9. CASE Deliver BY <1>9 DEF Deliver
<1>10. CASE Dispatch
  <2>1. CASE MayStart
    <3>1. execQue # <<>> BY <2>1 DEF MayStart
    <3>2. Tail(execQue) \in Seq(Caller) BY <3>1
    <3>3. /\ execQue' = Tail(execQue) /\ curExectingReqNum' = curExectingReqNum + 1
          /\ run' = "receive"
          /\ worker' = [worker EXCEPT ![Head(execQue)] = "running"]
          /\ UNCHANGED <<caller, inCh, answering, isExecutionActive, stopper>>
      BY <1>10, <2>1, Zenon DEF Dispatch, ExecuteQuedTxns
    <3> QED BY <3>2, <3>3
  <2>2. CASE ~MayStart BY <1>10, <2>2 DEF Dispatch
  <2> QED BY <2>1, <2>2
<1>11. CASE Break BY <1>11 DEF Break
<1>12. CASE StopTh BY <1>12 DEF StopTh
<1>13. CASE StopSignal BY <1>13 DEF StopSignal, Send
<1> QED
  BY <1>1, <1>2, <1>3, <1>4, <1>5, <1>6, <1>7, <1>8, <1>9, <1>10, <1>11, <1>12, <1>13
  DEF Next, Run, Work

\* What a step must change to endanger NoLostWakeUp.
LEMMA NoLostFrame ==
  ASSUME NoLostWakeUp,
         Len(execQue)' = Len(execQue), WakeUps' = WakeUps, run' = run,
         curExectingReqNum' = curExectingReqNum
  PROVE NoLostWakeUp'
  BY DEF NoLostWakeUp, InTransit

LEMMA NoLostStep == CountersOK /\ NoLostWakeUp /\ [Next]_vars => NoLostWakeUp'
<1> SUFFICES ASSUME CountersOK, NoLostWakeUp, [Next]_vars PROVE NoLostWakeUp' OBVIOUS
<1> USE RequestManagerAssumption
<1>0. CountersOK /\ NoLostWakeUp /\ CountersOK' BY CountersStep
<1> DEFINE n == Cardinality(Nils(inCh))
           w == Cardinality(Waking(caller))
           q == Len(execQue)
<1>a. WakeUps = n + w /\ n \in Nat /\ w \in Nat /\ q \in Nat
  BY <1>0, Counts DEF CountersOK, WakeUps, NilsInCh, Nils, At, Waking
<1>b. WakeUps' = n' + w' /\ n' \in Nat /\ w' \in Nat /\ q' \in Nat
  BY <1>0, Counts DEF CountersOK, WakeUps, NilsInCh, Nils, At, Waking
<1>c. curExectingReqNum \in Int /\ MaxTxnThreadNum \in Nat BY <1>0 DEF CountersOK
<1> HIDE DEF n, w, q
<1>q. q = Len(execQue) /\ q' = Len(execQue)' BY DEF q
<1>1. CASE UNCHANGED vars
  BY <1>0, <1>1 DEF vars, NoLostWakeUp, InTransit, WakeUps, NilsInCh
<1>2. ASSUME NEW c \in Caller, AppendRequest(c) PROVE NoLostWakeUp'
  <2>1. n' = n BY <1>2 DEF AppendRequest, n
  <2>2. w' = w + 1 BY <1>0, <1>2, WakingAdd DEF AppendRequest, w, CountersOK
  <2>3. q' = q + 1 BY <1>0, <1>2 DEF AppendRequest, q, CountersOK
  <2>4. run' = run /\ curExectingReqNum' = curExectingReqNum BY <1>2 DEF AppendRequest
  <2> QED BY <1>0, <1>a, <1>b, <1>c, <1>q, <2>1, <2>2, <2>3, <2>4 DEF NoLostWakeUp, InTransit
<1>3. ASSUME NEW c \in Caller, WakeUp(c) PROVE NoLostWakeUp'
  <2>1. n' = n + 1 BY <1>0, <1>3, NilsAppend, Nil \in {Nil} \cup Results DEF WakeUp, Send, n, CountersOK
  <2>2. w' = w - 1 BY <1>0, <1>3, WakingRemove DEF WakeUp, w, CountersOK
  <2>3. WakeUps' = WakeUps BY <1>a, <1>b, <2>1, <2>2
  <2> QED BY <1>0, <1>3, <2>3, NoLostFrame DEF WakeUp
<1>4. ASSUME NEW c \in Caller, Finish(c) \/ AbortedByCC(c) PROVE NoLostWakeUp'
  BY <1>0, <1>4, NoLostFrame DEF Finish, AbortedByCC, WakeUps, NilsInCh
<1>5. ASSUME NEW c \in Caller, SendResult(c) PROVE NoLostWakeUp'
  <2>1. Result(c, worker[c] = "aborted") \in Results BY DEF Result, Results
  <2>2. Result(c, worker[c] = "aborted") # Nil BY <2>1 DEF Results
  <2>3. n' = n BY <1>0, <1>5, <1>a, <2>1, <2>2, NilsAppend DEF SendResult, Send, n, CountersOK
  <2>4. w' = w BY <1>5 DEF SendResult, w
  <2>5. WakeUps' = WakeUps BY <1>a, <1>b, <2>3, <2>4
  <2> QED BY <1>0, <1>5, <2>5, NoLostFrame DEF SendResult
<1>6. CASE ReceiveWakeUp
  <2>1. n' = n - 1 BY <1>0, <1>6, <1>a, NilsTail DEF ReceiveWakeUp, n, CountersOK
  <2>2. w' = w BY <1>6 DEF ReceiveWakeUp, w
  <2>3. q' = q /\ curExectingReqNum' = curExectingReqNum /\ run = "receive" /\ run' = "dispatch"
    BY <1>6 DEF ReceiveWakeUp, q
  <2> QED BY <1>0, <1>a, <1>b, <1>c, <1>q, <2>1, <2>2, <2>3 DEF NoLostWakeUp, InTransit
<1>7. CASE HandleAbortedByCCTxn
  <2>1. n' = n BY <1>0, <1>7, <1>a, NilsTail DEF HandleAbortedByCCTxn, n, CountersOK
  <2>2. w' = w BY <1>7 DEF HandleAbortedByCCTxn, w
  <2>3. Head(inCh) \in Results BY <1>0, <1>7 DEF HandleAbortedByCCTxn, CountersOK
  <2>4. q' = q + 1 BY <1>0, <1>7, <2>3 DEF HandleAbortedByCCTxn, q, CountersOK, Results
  <2>5. curExectingReqNum' = curExectingReqNum - 1 /\ run = "receive" /\ run' = "dispatch"
    BY <1>7 DEF HandleAbortedByCCTxn
  <2> QED BY <1>0, <1>a, <1>b, <1>c, <1>q, <2>1, <2>2, <2>4, <2>5 DEF NoLostWakeUp, InTransit
<1>8. CASE ReceiveResult
  <2>1. n' = n BY <1>0, <1>8, <1>a, NilsTail DEF ReceiveResult, n, CountersOK
  <2>2. w' = w BY <1>8 DEF ReceiveResult, w
  <2>3. /\ q' = q /\ curExectingReqNum' = curExectingReqNum - 1
        /\ run = "receive" /\ run' = "deliver"
    BY <1>8 DEF ReceiveResult, q
  <2> QED BY <1>0, <1>a, <1>b, <1>c, <1>q, <2>1, <2>2, <2>3 DEF NoLostWakeUp, InTransit
<1>9. CASE Deliver
  <2>1. n' = n /\ q' = q BY <1>9 DEF Deliver, n, q
  <2>2. Waking(caller') = Waking(caller) BY <1>0, <1>9 DEF Deliver, Waking, CountersOK
  <2>3. w' = w BY <2>2 DEF w
  <2>4. curExectingReqNum' = curExectingReqNum /\ run = "deliver" /\ run' = "dispatch"
    BY <1>9 DEF Deliver
  <2> QED BY <1>0, <1>a, <1>b, <1>c, <1>q, <2>1, <2>3, <2>4 DEF NoLostWakeUp, InTransit
<1>10. CASE Dispatch
  <2>1. n' = n /\ w' = w BY <1>10 DEF Dispatch, n, w
  <2>2. run = "dispatch" /\ run' = "receive" BY <1>10 DEF Dispatch
  <2>3. CASE MayStart
    <3>1. q' = q - 1 /\ curExectingReqNum' = curExectingReqNum + 1
      BY <1>0, <1>10, <2>3 DEF Dispatch, MayStart, ExecuteQuedTxns, q, CountersOK
    <3> QED BY <1>0, <1>a, <1>b, <1>c, <1>q, <2>1, <2>2, <3>1 DEF NoLostWakeUp, InTransit
  <2>4. CASE ~MayStart
    <3>1. q' = q /\ curExectingReqNum' = curExectingReqNum
      BY <1>10, <2>4 DEF Dispatch, q
    <3>2. q = 0 \/ curExectingReqNum >= MaxTxnThreadNum BY <1>a, <1>c, <1>q, <2>4 DEF MayStart
    <3> QED BY <1>a, <1>b, <1>c, <1>q, <2>1, <2>2, <3>1, <3>2 DEF NoLostWakeUp, InTransit
  <2> QED BY <2>3, <2>4
<1>11. CASE Break BY <1>11 DEF Break, NoLostWakeUp
<1>12. CASE StopTh BY <1>0, <1>12, NoLostFrame DEF StopTh, WakeUps, NilsInCh
<1>13. CASE StopSignal
  <2>1. n' = n + 1
    BY <1>0, <1>13, NilsAppend, Nil \in {Nil} \cup Results DEF StopSignal, Send, n, CountersOK
  <2>2. w' = w /\ q' = q BY <1>13 DEF StopSignal, w, q
  <2>3. run' = run /\ curExectingReqNum' = curExectingReqNum BY <1>13 DEF StopSignal
  <2> QED BY <1>0, <1>a, <1>b, <1>c, <1>q, <2>1, <2>2, <2>3 DEF NoLostWakeUp, InTransit
<1> QED
  BY <1>1, <1>2, <1>3, <1>4, <1>5, <1>6, <1>7, <1>8, <1>9, <1>10, <1>11, <1>12, <1>13
  DEF Next, Run, Work

-----------------------------------------------------------------------------
\* Every request is in one place.

\* The results of c's request, and the terms of Places(c).
Answers(c) == {m \in Results : m.req = c}
Que(c) == Cardinality(At(execQue, {c}))
Res(c) == Cardinality(At(inCh, Answers(c)))
Wrk(c) == IF worker[c] # "none" THEN 1 ELSE 0
Dlv(c) == IF run = "deliver" /\ answering = c THEN 1 ELSE 0

\* The executions whose result Run has not seen, and what a step does to them.
Exe(c) == Res(c) + Wrk(c)
Started(c) == run = "dispatch" /\ run' = "receive" /\ MayStart /\ Head(execQue) = c
Ended(c) ==
  /\ run = "receive" /\ run' \in {"dispatch", "deliver"}
  /\ Head(inCh) # Nil /\ Head(inCh).req = c
Change(c) == IF Started(c) THEN 1 ELSE IF Ended(c) THEN -1 ELSE 0

\* A message that is not a wake-up is a result.
LEMMA Messages ==
  ASSUME NEW m \in {Nil} \cup Results, NEW c \in Caller
  PROVE /\ m \in Answers(c) <=> m # Nil /\ m.req = c
        /\ m # Nil => m.req \in Caller
<1>1. Nil \notin Results BY RequestManagerAssumption DEF Results
<1> QED BY <1>1 DEF Answers, Results

\* A wake-up leaves the results in the channel alone, and a result adds itself.
LEMMA SendNil ==
  ASSUME NEW ch \in Seq({Nil} \cup Results), NEW c \in Caller
  PROVE Cardinality(At(Append(ch, Nil), Answers(c))) = Cardinality(At(ch, Answers(c)))
<1>1. Nil \notin Answers(c) BY Messages
<1>2. Cardinality(At(ch, Answers(c))) \in Nat BY AtFinite
<1>3. Cardinality(At(Append(ch, Nil), Answers(c)))
        = Cardinality(At(ch, Answers(c))) + (IF Nil \in Answers(c) THEN 1 ELSE 0)
  BY AtAppend, Nil \in {Nil} \cup Results
<1> QED BY <1>1, <1>2, <1>3

LEMMA SendAnswer ==
  ASSUME NEW ch \in Seq({Nil} \cup Results), NEW c \in Caller, NEW d \in Caller,
         NEW b \in BOOLEAN
  PROVE /\ Result(c, b) \in Results
        /\ Cardinality(At(Append(ch, Result(c, b)), Answers(d)))
             = Cardinality(At(ch, Answers(d))) + (IF c = d THEN 1 ELSE 0)
<1> DEFINE r == Result(c, b)
<1>1. r \in Results /\ (r \in Answers(d) <=> c = d) BY DEF Result, Results, Answers
<1> HIDE DEF r
<1>2. Cardinality(At(Append(ch, r), Answers(d)))
        = Cardinality(At(ch, Answers(d))) + (IF r \in Answers(d) THEN 1 ELSE 0)
  BY <1>1, AtAppend
<1> QED BY <1>1, <1>2 DEF r

\* The positions that Places counts, in any queue q and any channel ch.
LEMMA Terms ==
  ASSUME NEW q \in Seq(Caller), NEW ch \in Seq({Nil} \cup Results), NEW c \in Caller
  PROVE /\ {i \in DOMAIN q : q[i] = c} = At(q, {c})
        /\ {i \in DOMAIN ch : ch[i] # Nil /\ ch[i].req = c} = At(ch, Answers(c))
        /\ Cardinality(At(q, {c})) \in Nat /\ Cardinality(At(ch, Answers(c))) \in Nat
        /\ At(ch, Answers(c)) = {} <=> Cardinality(At(ch, Answers(c))) = 0
        /\ (\E i \in DOMAIN q : q[i] = c) => Cardinality(At(q, {c})) > 0
<1>1. {i \in DOMAIN q : q[i] = c} = At(q, {c}) BY DEF At
<1>2. {i \in DOMAIN ch : ch[i] # Nil /\ ch[i].req = c} = At(ch, Answers(c))
  <2>1. \A i \in DOMAIN ch : ch[i] \in Answers(c) <=> ch[i] # Nil /\ ch[i].req = c
    <3> SUFFICES ASSUME NEW i \in DOMAIN ch
                 PROVE ch[i] \in Answers(c) <=> ch[i] # Nil /\ ch[i].req = c
      OBVIOUS
    <3>1. ch[i] \in {Nil} \cup Results OBVIOUS
    <3> QED BY <3>1, Messages
  <2> QED BY <2>1 DEF At
<1>3. IsFiniteSet(At(q, {c})) /\ Cardinality(At(q, {c})) \in Nat BY AtFinite
<1>4. IsFiniteSet(At(ch, Answers(c))) /\ Cardinality(At(ch, Answers(c))) \in Nat BY AtFinite
<1>5. At(ch, Answers(c)) = {} <=> Cardinality(At(ch, Answers(c))) = 0 BY <1>4, FS_EmptySet
<1>6. (\E i \in DOMAIN q : q[i] = c) => Cardinality(At(q, {c})) > 0
  <2> SUFFICES ASSUME \E i \in DOMAIN q : q[i] = c PROVE Cardinality(At(q, {c})) > 0
    OBVIOUS
  <2>1. At(q, {c}) # {} BY DEF At
  <2>2. Cardinality(At(q, {c})) # 0 BY <1>3, <2>1, FS_EmptySet
  <2> QED BY <1>3, <2>2
<1> QED BY <1>1, <1>2, <1>3, <1>4, <1>5, <1>6, Zenon

LEMMA PlacesTerms ==
  ASSUME CountersOK, NEW c \in Caller
  PROVE /\ Places(c) = Que(c) + Res(c) + Wrk(c) + Dlv(c)
        /\ Que(c) \in Nat /\ Res(c) \in Nat /\ Wrk(c) \in {0, 1} /\ Dlv(c) \in {0, 1}
        /\ Sent(c) = {} <=> Res(c) = 0
        /\ (\E i \in DOMAIN execQue : execQue[i] = c) => Que(c) > 0
<1>1. execQue \in Seq(Caller) /\ inCh \in Seq({Nil} \cup Results) BY DEF CountersOK
<1>2. Queued(c) = At(execQue, {c}) /\ Sent(c) = At(inCh, Answers(c))
  BY <1>1, Terms, Zenon DEF Queued, Sent
<1>3. /\ Que(c) \in Nat /\ Res(c) \in Nat
      /\ At(inCh, Answers(c)) = {} <=> Res(c) = 0
      /\ (\E i \in DOMAIN execQue : execQue[i] = c) => Que(c) > 0
  BY <1>1, Terms DEF Que, Res
<1> QED BY <1>2, <1>3 DEF Places, Que, Res, Wrk, Dlv

LEMMA OnePlaceInit == Init => RequestInOnePlace
<1> SUFFICES ASSUME Init, NEW c \in Caller PROVE Places(c) = 0
  BY DEF Init, RequestInOnePlace
<1>1. Queued(c) = {} /\ Sent(c) = {} BY DEF Init, Queued, Sent
<1> QED BY <1>1, FS_EmptySet DEF Init, Places

LEMMA PlacesStep ==
  ASSUME CountersOK, RequestInOnePlace, [Next]_vars, NEW d \in Caller
  PROVE /\ Places(d)' = (IF caller'[d] = "idle" THEN 0 ELSE 1)
        /\ Exe(d)' = Exe(d) + Change(d)
<1> DEFINE Goal == /\ Places(d)' = (IF caller'[d] = "idle" THEN 0 ELSE 1)
                   /\ Exe(d)' = Exe(d) + Change(d)
<1>0. CountersOK' BY CountersStep
<1>a. /\ Places(d) = Que(d) + Res(d) + Wrk(d) + Dlv(d)
      /\ Que(d) \in Nat /\ Res(d) \in Nat /\ Wrk(d) \in {0, 1} /\ Dlv(d) \in {0, 1}
  BY PlacesTerms
<1>b. Places(d)' = Que(d)' + Res(d)' + Wrk(d)' + Dlv(d)'
  <2>1. execQue' \in Seq(Caller) /\ inCh' \in Seq({Nil} \cup Results) BY <1>0 DEF CountersOK
  <2>2. Queued(d)' = At(execQue', {d}) /\ Sent(d)' = At(inCh', Answers(d))
    BY <2>1, Terms, Zenon DEF Queued, Sent
  <2> QED BY <2>2 DEF Places, Que, Res, Wrk, Dlv
<1>c. Places(d) = (IF caller[d] = "idle" THEN 0 ELSE 1) BY DEF RequestInOnePlace
<1>d. d # Nil BY RequestManagerAssumption
<1>e. run' = run => Change(d) = 0 BY DEF Change, Started, Ended
<1>f. Exe(d) = Res(d) + Wrk(d) /\ Exe(d)' = Res(d)' + Wrk(d)' BY DEF Exe
<1>1. CASE UNCHANGED vars
  <2>1. Change(d) = 0 BY <1>1, <1>e DEF vars
  <2> QED BY <1>1, <1>a, <1>b, <1>c, <1>f, <2>1 DEF vars, Que, Res, Wrk, Dlv
<1>2. ASSUME NEW c \in Caller, AppendRequest(c) PROVE Goal
  <2>1. Que(d)' = Que(d) + (IF c = d THEN 1 ELSE 0)
    BY <1>2, AtAppend DEF CountersOK, AppendRequest, Que
  <2>2. Res(d)' = Res(d) /\ Wrk(d)' = Wrk(d) /\ Dlv(d)' = Dlv(d)
    BY <1>2 DEF AppendRequest, Res, Wrk, Dlv
  <2>3. caller'[d] = IF c = d THEN "waking" ELSE caller[d]
    BY <1>2 DEF CountersOK, AppendRequest
  <2>4. c = d => caller[d] = "idle" BY <1>2 DEF AppendRequest
  <2>9. Change(d) = 0 BY <1>2, <1>e DEF AppendRequest
  <2> QED BY <1>a, <1>b, <1>c, <1>f, <2>9, <2>1, <2>2, <2>3, <2>4
<1>3. ASSUME NEW c \in Caller, WakeUp(c) PROVE Goal
  <2>2. Res(d)' = Res(d) BY <1>3, SendNil DEF CountersOK, WakeUp, Send, Res
  <2>3. Que(d)' = Que(d) /\ Wrk(d)' = Wrk(d) /\ Dlv(d)' = Dlv(d)
    BY <1>3 DEF WakeUp, Que, Wrk, Dlv
  <2>4. caller'[d] = "idle" <=> caller[d] = "idle" BY <1>3 DEF CountersOK, WakeUp
  <2>9. Change(d) = 0 BY <1>3, <1>e DEF WakeUp
  <2> QED BY <1>a, <1>b, <1>c, <1>f, <2>9, <2>2, <2>3, <2>4
<1>4. ASSUME NEW c \in Caller, Finish(c) \/ AbortedByCC(c) PROVE Goal
  <2>1. Wrk(d)' = Wrk(d) BY <1>4 DEF CountersOK, Finish, AbortedByCC, Wrk
  <2>2. Que(d)' = Que(d) /\ Res(d)' = Res(d) /\ Dlv(d)' = Dlv(d) /\ caller' = caller
    BY <1>4 DEF Finish, AbortedByCC, Que, Res, Dlv
  <2>9. Change(d) = 0 BY <1>4, <1>e DEF Finish, AbortedByCC
  <2> QED BY <1>a, <1>b, <1>c, <1>f, <2>9, <2>1, <2>2
<1>5. ASSUME NEW c \in Caller, SendResult(c) PROVE Goal
  <2>2. Res(d)' = Res(d) + (IF c = d THEN 1 ELSE 0)
    BY <1>5, SendAnswer DEF CountersOK, SendResult, Send, Res
  <2>3. Wrk(d)' = Wrk(d) - (IF c = d THEN 1 ELSE 0) BY <1>5 DEF CountersOK, SendResult, Wrk
  <2>4. Que(d)' = Que(d) /\ Dlv(d)' = Dlv(d) /\ caller' = caller
    BY <1>5 DEF SendResult, Que, Dlv
  <2>9. Change(d) = 0 BY <1>5, <1>e DEF SendResult
  <2> QED BY <1>a, <1>b, <1>c, <1>f, <2>9, <2>2, <2>3, <2>4
<1>6. CASE ReceiveWakeUp
  <2>1. Nil \notin Answers(d) BY Messages
  <2>2. Res(d)' = Res(d) BY <1>6, <1>a, <2>1, AtTail DEF CountersOK, ReceiveWakeUp, Res
  <2>3. Que(d)' = Que(d) /\ Wrk(d)' = Wrk(d) /\ Dlv(d)' = Dlv(d) /\ caller' = caller
    BY <1>6 DEF ReceiveWakeUp, Que, Wrk, Dlv
  <2>9. Change(d) = 0 BY <1>6 DEF ReceiveWakeUp, Change, Started, Ended
  <2> QED BY <1>a, <1>b, <1>c, <1>f, <2>9, <2>2, <2>3
<1>h. inCh # <<>> /\ Head(inCh) # Nil
        => /\ Head(inCh).req \in Caller
           /\ Cardinality(At(Tail(inCh), Answers(d)))
                 = Res(d) - (IF Head(inCh).req = d THEN 1 ELSE 0)
  <2> SUFFICES ASSUME inCh # <<>>, Head(inCh) # Nil
               PROVE  /\ Head(inCh).req \in Caller
                      /\ Cardinality(At(Tail(inCh), Answers(d)))
                            = Res(d) - (IF Head(inCh).req = d THEN 1 ELSE 0)
    OBVIOUS
  <2>1. Head(inCh) \in {Nil} \cup Results BY DEF CountersOK
  <2>2. Head(inCh).req \in Caller /\ (Head(inCh) \in Answers(d) <=> Head(inCh).req = d)
    BY <2>1, Messages
  <2> QED BY <2>2, AtTail DEF CountersOK, Res
<1>7. CASE HandleAbortedByCCTxn
  <2>1. Res(d)' = Res(d) - (IF Head(inCh).req = d THEN 1 ELSE 0)
    BY <1>7, <1>h DEF HandleAbortedByCCTxn, Res
  <2>2. Que(d)' = Que(d) + (IF Head(inCh).req = d THEN 1 ELSE 0)
    <3>1. Head(inCh).req \in Caller BY <1>7, <1>h DEF HandleAbortedByCCTxn
    <3> QED BY <1>7, <3>1, AtPrepend DEF CountersOK, HandleAbortedByCCTxn, Que
  <2>3. Wrk(d)' = Wrk(d) /\ Dlv(d)' = Dlv(d) /\ caller' = caller
    BY <1>7 DEF HandleAbortedByCCTxn, Wrk, Dlv
  <2>9. Change(d) = (IF Head(inCh).req = d THEN -1 ELSE 0)
    BY <1>7 DEF HandleAbortedByCCTxn, Change, Started, Ended
  <2>10. CASE Head(inCh).req = d BY <1>a, <1>b, <1>c, <1>f, <2>9, <2>1, <2>2, <2>3, <2>10
  <2>11. CASE Head(inCh).req # d BY <1>a, <1>b, <1>c, <1>f, <2>9, <2>1, <2>2, <2>3, <2>11
  <2> QED BY <2>10, <2>11
<1>8. CASE ReceiveResult
  <2>1. Res(d)' = Res(d) - (IF Head(inCh).req = d THEN 1 ELSE 0)
    BY <1>8, <1>h DEF ReceiveResult, Res
  <2>2. Dlv(d)' = (IF Head(inCh).req = d THEN 1 ELSE 0) /\ Dlv(d) = 0
    BY <1>8 DEF ReceiveResult, Dlv
  <2>3. Que(d)' = Que(d) /\ Wrk(d)' = Wrk(d) /\ caller' = caller
    BY <1>8 DEF ReceiveResult, Wrk, Que
  <2>9. Change(d) = (IF Head(inCh).req = d THEN -1 ELSE 0)
    BY <1>8 DEF ReceiveResult, Change, Started, Ended
  <2>10. CASE Head(inCh).req = d BY <1>a, <1>b, <1>c, <1>f, <2>9, <2>1, <2>2, <2>3, <2>10
  <2>11. CASE Head(inCh).req # d BY <1>a, <1>b, <1>c, <1>f, <2>9, <2>1, <2>2, <2>3, <2>11
  <2> QED BY <2>10, <2>11
<1>9. CASE Deliver
  <2>1. Dlv(d) = (IF answering = d THEN 1 ELSE 0) /\ Dlv(d)' = 0 BY <1>9 DEF Deliver, Dlv
  <2>2. caller'[d] = IF answering = d THEN "idle" ELSE caller[d]
    BY <1>9 DEF CountersOK, Deliver
  <2>3. answering = d => caller[d] # "idle" BY <1>9 DEF Deliver
  <2>4. Que(d)' = Que(d) /\ Res(d)' = Res(d) /\ Wrk(d)' = Wrk(d)
    BY <1>9 DEF Deliver, Que, Res, Wrk
  <2>9. Change(d) = 0 BY <1>9 DEF Deliver, Change, Started, Ended
  <2> QED BY <1>a, <1>b, <1>c, <1>f, <2>9, <2>1, <2>2, <2>3, <2>4
<1>10. CASE Dispatch
  <2>1. Res(d)' = Res(d) /\ Dlv(d)' = Dlv(d) /\ caller' = caller
    BY <1>10 DEF Dispatch, Res, Dlv
  <2>2. CASE MayStart
    <3>1. execQue # <<>> BY <2>2 DEF MayStart
    <3>2. execQue' = Tail(execQue) /\ worker' = [worker EXCEPT ![Head(execQue)] = "running"]
      BY <1>10, <2>2 DEF Dispatch, ExecuteQuedTxns
    <3>3. Que(d)' = Que(d) - (IF Head(execQue) = d THEN 1 ELSE 0)
      BY <3>1, <3>2, AtTail DEF CountersOK, Que
    <3>4. Head(execQue) = d => Que(d) > 0 BY <3>1, PlacesTerms DEF CountersOK
    <3>5. Wrk(d)' = IF Head(execQue) = d THEN 1 ELSE Wrk(d)
      BY <3>1, <3>2 DEF CountersOK, Wrk
    <3>6. Change(d) = (IF Head(execQue) = d THEN 1 ELSE 0)
      BY <1>10, <2>2 DEF Dispatch, Change, Started, Ended
    <3> QED BY <1>a, <1>b, <1>c, <1>f, <2>1, <3>3, <3>4, <3>5, <3>6
  <2>3. CASE ~MayStart
    <3>1. Que(d)' = Que(d) /\ Wrk(d)' = Wrk(d) BY <1>10, <2>3 DEF Dispatch, Que, Wrk
    <3>2. Change(d) = 0 BY <1>10, <2>3 DEF Dispatch, Change, Started, Ended
    <3> QED BY <1>a, <1>b, <1>c, <1>f, <2>1, <3>1, <3>2
  <2> QED BY <2>2, <2>3
<1>11. CASE Break
  <2>1. Change(d) = 0 BY <1>11 DEF Break, Change, Started, Ended
  <2> QED BY <1>11, <1>a, <1>b, <1>c, <1>f, <2>1 DEF Break, Que, Res, Wrk, Dlv
<1>12. CASE StopTh
  <2>1. Change(d) = 0 BY <1>12, <1>e DEF StopTh
  <2> QED BY <1>12, <1>a, <1>b, <1>c, <1>f, <2>1 DEF StopTh, Que, Res, Wrk, Dlv
<1>13. CASE StopSignal
  <2>2. Res(d)' = Res(d) BY <1>13, SendNil DEF CountersOK, StopSignal, Send, Res
  <2>3. Que(d)' = Que(d) /\ Wrk(d)' = Wrk(d) /\ Dlv(d)' = Dlv(d) /\ caller' = caller
    BY <1>13 DEF StopSignal, Que, Wrk, Dlv
  <2>9. Change(d) = 0 BY <1>13, <1>e DEF StopSignal
  <2> QED BY <1>a, <1>b, <1>c, <1>f, <2>9, <2>2, <2>3
<1> QED
  BY <1>1, <1>2, <1>3, <1>4, <1>5, <1>6, <1>7, <1>8, <1>9, <1>10, <1>11, <1>12, <1>13
  DEF Next, Run, Work

LEMMA OnePlaceStep == CountersOK /\ RequestInOnePlace /\ [Next]_vars => RequestInOnePlace'
  BY PlacesStep DEF RequestInOnePlace

-----------------------------------------------------------------------------
\* The counter counts the executions.

LEMMA ExecutingTerms ==
  ASSUME CountersOK
  PROVE /\ Executing = {c \in Caller : Exe(c) > 0}
        /\ \A c \in Caller : Exe(c) \in Nat
  BY PlacesTerms DEF Executing, Exe, Wrk

LEMMA CountedInit == Init => ExecutionsCounted
<1> SUFFICES ASSUME Init PROVE ExecutionsCounted OBVIOUS
<1>1. Executing = {} BY DEF Init, Executing, Sent
<1> QED BY <1>1, FS_EmptySet, RequestManagerAssumption DEF Init, ExecutionsCounted

LEMMA CountedStep == CountersOK /\ RequestsAccounted /\ [Next]_vars => ExecutionsCounted'
<1> SUFFICES ASSUME CountersOK, RequestInOnePlace, ExecutionsCounted, [Next]_vars
             PROVE ExecutionsCounted'
  BY DEF RequestsAccounted
<1> USE RequestManagerAssumption
<1>0. CountersOK' BY CountersStep
<1>1. /\ Executing = {c \in Caller : Exe(c) > 0}
      /\ \A c \in Caller : Exe(c) \in Nat
  BY ExecutingTerms
<1>2. /\ Executing' = {c \in Caller : Exe(c)' > 0}
      /\ \A c \in Caller : Exe(c)' \in Nat
  <2>1. execQue' \in Seq(Caller) /\ inCh' \in Seq({Nil} \cup Results) BY <1>0 DEF CountersOK
  <2>2. \A c \in Caller : Sent(c)' = At(inCh', Answers(c)) BY <2>1, Terms, Zenon DEF Sent
  <2>3. \A c \in Caller : Res(c)' \in Nat /\ (At(inCh', Answers(c)) = {} <=> Res(c)' = 0)
    BY <2>1, Terms DEF Res
  <2> QED BY <2>2, <2>3 DEF Executing, Exe, Wrk
<1>3. IsFiniteSet(Executing) BY FS_Subset DEF Executing
<1>4. \A c \in Caller : Exe(c)' = Exe(c) + Change(c) BY PlacesStep
<1>5. \A c \in Caller : Exe(c) <= 1 BY <1>1, PlacesTerms DEF RequestInOnePlace, Exe
<1>6. /\ curExectingReqNum = Cardinality(Executing) /\ curExectingReqNum <= MaxTxnThreadNum
      /\ curExectingReqNum \in Nat
  BY <1>3, FS_CardinalityType DEF ExecutionsCounted
<1>7. ASSUME \A c \in Caller : ~Started(c) /\ ~Ended(c),
             curExectingReqNum' = curExectingReqNum
      PROVE ExecutionsCounted'
  <2>1. \A c \in Caller : Exe(c)' = Exe(c) BY <1>1, <1>4, <1>7 DEF Change
  <2>2. Executing' = Executing BY <1>1, <1>2, <2>1
  <2> QED BY <1>6, <1>7, <2>2 DEF ExecutionsCounted
<1>8. ASSUME NEW h \in Caller, Ended(h), curExectingReqNum' = curExectingReqNum - 1
      PROVE ExecutionsCounted'
  <2>1. \A c \in Caller : Exe(c)' = IF c = h THEN Exe(c) - 1 ELSE Exe(c)
    <3>1. \A c \in Caller : Change(c) = IF c = h THEN -1 ELSE 0
      BY <1>8 DEF Change, Started, Ended
    <3> QED BY <1>1, <1>4, <3>1
  <2>2. Exe(h) = 1 /\ Exe(h)' = 0 BY <1>1, <1>2, <1>5, <2>1
  <2>3. h \in Executing BY <1>1, <2>2
  <2>4. Executing' = Executing \ {h} BY <1>1, <1>2, <2>1, <2>2
  <2>5. Cardinality(Executing \ {h}) = Cardinality(Executing) - 1 BY <1>3, <2>3, FS_RemoveElement
  <2>6. curExectingReqNum' = Cardinality(Executing)' BY <1>6, <1>8, <2>4, <2>5
  <2> QED BY <1>6, <1>8, <2>6 DEF ExecutionsCounted
<1>9. CASE UNCHANGED vars BY <1>9, <1>7 DEF vars, Started, Ended
<1>10. ASSUME NEW c \in Caller, AppendRequest(c) PROVE ExecutionsCounted'
  BY <1>10, <1>7 DEF AppendRequest, Started, Ended
<1>11. ASSUME NEW c \in Caller, WakeUp(c) PROVE ExecutionsCounted'
  BY <1>11, <1>7 DEF WakeUp, Started, Ended
<1>12. ASSUME NEW c \in Caller, Work(c) PROVE ExecutionsCounted'
  BY <1>12, <1>7 DEF Work, Finish, AbortedByCC, SendResult, Started, Ended
<1>13. CASE ReceiveWakeUp BY <1>13, <1>7 DEF ReceiveWakeUp, Started, Ended
<1>14. CASE HandleAbortedByCCTxn \/ ReceiveResult
  <2>1. Head(inCh) \in {Nil} \cup Results /\ Head(inCh) # Nil
    BY <1>14 DEF CountersOK, HandleAbortedByCCTxn, ReceiveResult
  <2>2. Head(inCh).req \in Caller BY <2>1 DEF Results
  <2>3. Ended(Head(inCh).req) /\ curExectingReqNum' = curExectingReqNum - 1
    BY <1>14 DEF HandleAbortedByCCTxn, ReceiveResult, Ended
  <2> QED BY <1>8, <2>2, <2>3
<1>15. CASE Deliver BY <1>15, <1>7 DEF Deliver, Started, Ended
<1>16. CASE Dispatch
  <2>1. CASE ~MayStart BY <1>16, <1>7, <2>1 DEF Dispatch, Started, Ended
  <2>2. CASE MayStart
    <3> DEFINE h == Head(execQue)
    <3>1. execQue # <<>> /\ curExectingReqNum < MaxTxnThreadNum BY <2>2 DEF MayStart
    <3>2. h \in Caller /\ 1 \in DOMAIN execQue /\ execQue[1] = h BY <3>1 DEF CountersOK
    <3>3. curExectingReqNum' = curExectingReqNum + 1
      BY <1>16, <2>2 DEF Dispatch, ExecuteQuedTxns
    <3>4. Que(h) > 0 BY <3>2, PlacesTerms
    <3>5. Exe(h) = 0 BY <1>1, <3>2, <3>4, PlacesTerms DEF RequestInOnePlace, Exe
    <3>6. \A c \in Caller : Change(c) = IF c = h THEN 1 ELSE 0
      BY <1>16, <2>2 DEF Dispatch, Change, Started, Ended
    <3> HIDE DEF h
    <3>7. \A c \in Caller : Exe(c)' = IF c = h THEN Exe(c) + 1 ELSE Exe(c) BY <1>1, <1>4, <3>6
    <3>8. h \notin Executing BY <1>1, <3>5
    <3>9. Executing' = Executing \cup {h} BY <1>1, <1>2, <3>2, <3>5, <3>7
    <3>10. Cardinality(Executing \cup {h}) = Cardinality(Executing) + 1 BY <1>3, <3>8, FS_AddElement
    <3>11. curExectingReqNum' = Cardinality(Executing)' BY <1>6, <3>3, <3>9, <3>10
    <3> QED BY <1>6, <3>1, <3>3, <3>11 DEF ExecutionsCounted
  <2> QED BY <2>1, <2>2
<1>17. CASE Break BY <1>17, <1>7 DEF Break, Started, Ended
<1>18. CASE StopTh \/ StopSignal BY <1>18, <1>7 DEF StopTh, StopSignal, Started, Ended
<1> QED
  BY <1>9, <1>10, <1>11, <1>12, <1>13, <1>14, <1>15, <1>16, <1>17, <1>18 DEF Next, Run

-----------------------------------------------------------------------------
\* The wake-ups in inCh can be attributed: at most one to the current request of
\* a caller ("new"), at most one to its previous request ("old"), at most one to
\* StopTh.  A result of the current request comes after the old wake-up, which
\* was sent before the previous answer was taken; so by the time a request is
\* answered the old wake-up is gone.

Slots == (Caller \X {"old", "new"}) \cup {<<Nil, "stop">>}

Owned(f, ch, cl, rn, an, st) ==
  /\ f \in [Nils(ch) -> Slots]
  /\ \A i, j \in Nils(ch) : f[i] = f[j] => i = j
  /\ \A i \in Nils(ch), c \in Caller : f[i] = <<c, "old">> =>
       /\ cl[c] # "idle"
       /\ ~(rn = "deliver" /\ an = c)
       /\ \A j \in DOMAIN ch : ch[j] \in Answers(c) => i < j
  /\ \A i \in Nils(ch), c \in Caller : f[i] = <<c, "new">> => cl[c] # "waking"
  /\ \A i \in Nils(ch) : f[i] = <<Nil, "stop">> => st = "done"

WakeUpsOwned == \E f : Owned(f, inCh, caller, run, answering, stopper)

\* Where the wake-ups of a channel are after a send and after a receive.
LEMMA NilsAt ==
  ASSUME NEW ch \in Seq({Nil} \cup Results)
  PROVE /\ Nils(ch) \subseteq 1..Len(ch) /\ Len(ch) \in Nat
        /\ \A i \in 1..Len(ch) : i \in Nils(ch) <=> ch[i] = Nil
  BY DEF Nils, At

LEMMA OwnedInit == Init => WakeUpsOwned
<1> SUFFICES ASSUME Init PROVE WakeUpsOwned OBVIOUS
<1>1. Nils(inCh) = {} BY DEF Init, Nils, At
<1>2. Owned([i \in {} |-> <<Nil, "stop">>], inCh, caller, run, answering, stopper)
  BY <1>1 DEF Owned
<1> QED BY <1>2 DEF WakeUpsOwned

LEMMA OwnedReceive ==
  ASSUME NEW f, NEW ch \in Seq({Nil} \cup Results), ch # <<>>,
         NEW cl, NEW rn, NEW an, NEW st, NEW rn1, NEW an1,
         Owned(f, ch, cl, rn, an, st),
         rn1 = "deliver" => Head(ch) \in Answers(an1)
  PROVE  \E g : Owned(g, Tail(ch), cl, rn1, an1, st)
<1> DEFINE tl == Tail(ch)
           g == [i \in Nils(tl) |-> f[i + 1]]
<1>1. /\ tl \in Seq({Nil} \cup Results) /\ Len(tl) = Len(ch) - 1 /\ Len(ch) \in Nat \ {0}
      /\ \A i \in 1..Len(tl) : tl[i] = ch[i + 1]
  OBVIOUS
<1> HIDE DEF tl
<1>2. \A i \in Nils(tl) : i \in 1..Len(tl) /\ i + 1 \in Nils(ch) BY <1>1, NilsAt
<1>3. g \in [Nils(tl) -> Slots] BY <1>2 DEF Owned
<1>4. ASSUME NEW i \in Nils(tl), NEW j \in Nils(tl), g[i] = g[j] PROVE i = j
  <2>1. f[i + 1] = f[j + 1] BY <1>4
  <2>2. i + 1 = j + 1 BY <1>2, <2>1 DEF Owned
  <2> QED BY <1>2, <2>2
<1>5. ASSUME NEW i \in Nils(tl), NEW c \in Caller, g[i] = <<c, "old">>
      PROVE /\ cl[c] # "idle"
            /\ ~(rn1 = "deliver" /\ an1 = c)
            /\ \A j \in DOMAIN tl : tl[j] \in Answers(c) => i < j
  <2>1. i + 1 \in Nils(ch) /\ f[i + 1] = <<c, "old">> BY <1>2, <1>5
  <2>2. cl[c] # "idle" /\ \A j \in DOMAIN ch : ch[j] \in Answers(c) => i + 1 < j
    BY <2>1 DEF Owned
  <2>3. ~(rn1 = "deliver" /\ an1 = c)
    <3> SUFFICES ASSUME rn1 = "deliver", an1 = c PROVE FALSE OBVIOUS
    <3>1. ch[1] \in Answers(c) /\ 1 \in DOMAIN ch BY <1>1
    <3>2. i + 1 < 1 BY <2>2, <3>1
    <3> QED BY <1>1, <1>2, <3>2
  <2>4. ASSUME NEW j \in DOMAIN tl, tl[j] \in Answers(c) PROVE i < j
    <3>1. j \in 1..Len(tl) /\ j + 1 \in DOMAIN ch /\ ch[j + 1] \in Answers(c) BY <1>1, <2>4
    <3>2. i + 1 < j + 1 BY <2>2, <3>1
    <3> QED BY <1>1, <1>2, <3>1, <3>2
  <2> QED BY <2>2, <2>3, <2>4
<1>6. \A i \in Nils(tl), c \in Caller : g[i] = <<c, "new">> => cl[c] # "waking"
  BY <1>2 DEF Owned
<1>7. \A i \in Nils(tl) : g[i] = <<Nil, "stop">> => st = "done" BY <1>2 DEF Owned
<1> HIDE DEF g
<1>8. Owned(g, tl, cl, rn1, an1, st) BY <1>3, <1>4, <1>5, <1>6, <1>7 DEF Owned
<1> QED BY <1>8 DEF tl

\* The slot o is free for a wake-up whose sending changes callers and stopper.
FreeSlot(o, f, ch, cl, st, cl1, st1) ==
  /\ o \in Slots
  /\ \A i \in Nils(ch) : f[i] # o
  /\ \A c \in Caller : cl[c] # "idle" => cl1[c] # "idle"
  /\ \A c \in Caller : cl1[c] = "waking" => cl[c] = "waking" /\ o # <<c, "new">>
  /\ \A c \in Caller : o # <<c, "old">>
  /\ o = <<Nil, "stop">> \/ st = "done" => st1 = "done"

LEMMA OwnedSendNil ==
  ASSUME NEW f, NEW ch \in Seq({Nil} \cup Results), NEW o,
         NEW cl, NEW rn, NEW an, NEW st, NEW cl1, NEW st1,
         Owned(f, ch, cl, rn, an, st), FreeSlot(o, f, ch, cl, st, cl1, st1)
  PROVE  \E g : Owned(g, Append(ch, Nil), cl1, rn, an, st1)
<1> DEFINE t == Append(ch, Nil)
           n == Len(ch) + 1
           g == [i \in Nils(t) |-> IF i = n THEN o ELSE f[i]]
<1>1. /\ t \in Seq({Nil} \cup Results) /\ Len(t) = n /\ Len(ch) \in Nat
      /\ t[n] = Nil /\ \A i \in 1..Len(ch) : t[i] = ch[i]
  BY Nil \in {Nil} \cup Results
<1> HIDE DEF t
<1>2. Nils(t) = Nils(ch) \cup {n} /\ n \notin Nils(ch)
  <2>1. \A i : i \in Nils(t) <=> i \in 1..Len(t) /\ t[i] = Nil BY <1>1, NilsAt
  <2>2. \A i : i \in Nils(ch) <=> i \in 1..Len(ch) /\ ch[i] = Nil BY <1>1, NilsAt
  <2> QED BY <1>1, <2>1, <2>2
<1>3. /\ \A i \in Nils(ch) : i \in Nils(t) /\ g[i] = f[i]
      /\ n \in Nils(t) /\ g[n] = o
  BY <1>2
<1>4. g \in [Nils(t) -> Slots] BY <1>2 DEF Owned, FreeSlot
<1> HIDE DEF g
<1>5. \A i, j \in Nils(t) : g[i] = g[j] => i = j BY <1>2, <1>3 DEF Owned, FreeSlot
<1>6. ASSUME NEW i \in Nils(t), NEW c \in Caller, g[i] = <<c, "old">>
      PROVE /\ cl1[c] # "idle"
            /\ ~(rn = "deliver" /\ an = c)
            /\ \A j \in DOMAIN t : t[j] \in Answers(c) => i < j
  <2>1. i \in Nils(ch) /\ f[i] = <<c, "old">> BY <1>2, <1>3, <1>6 DEF FreeSlot
  <2>2. cl[c] # "idle" /\ ~(rn = "deliver" /\ an = c) BY <2>1 DEF Owned
  <2>3. ASSUME NEW j \in DOMAIN t, t[j] \in Answers(c) PROVE i < j
    <3>1. Nil \notin Answers(c) BY Messages
    <3>2. j \in DOMAIN ch /\ ch[j] \in Answers(c) BY <1>1, <2>3, <3>1
    <3> QED BY <2>1, <3>2 DEF Owned
  <2> QED BY <2>2, <2>3 DEF FreeSlot
<1>7. ASSUME NEW i \in Nils(t), NEW c \in Caller, g[i] = <<c, "new">> PROVE cl1[c] # "waking"
  <2>1. CASE i = n BY <1>3, <1>7, <2>1 DEF FreeSlot
  <2>2. CASE i \in Nils(ch) BY <1>3, <1>7, <2>2 DEF Owned, FreeSlot
  <2> QED BY <1>2, <2>1, <2>2
<1>8. \A i \in Nils(t) : g[i] = <<Nil, "stop">> => st1 = "done" BY <1>2, <1>3 DEF Owned, FreeSlot
<1>9. Owned(g, t, cl1, rn, an, st1) BY <1>4, <1>5, <1>6, <1>7, <1>8 DEF Owned
<1> QED BY <1>9 DEF t

LEMMA OwnedStep == CountersOK /\ RequestInOnePlace /\ WakeUpsOwned /\ [Next]_vars => WakeUpsOwned'
<1> SUFFICES ASSUME CountersOK, RequestInOnePlace, WakeUpsOwned, [Next]_vars
             PROVE WakeUpsOwned'
  OBVIOUS
<1>0. PICK f : Owned(f, inCh, caller, run, answering, stopper) BY DEF WakeUpsOwned
<1>a. /\ inCh \in Seq({Nil} \cup Results)
      /\ caller \in [Caller -> {"idle", "waking", "waiting"}]
  BY DEF CountersOK
<1>b. /\ <<Nil, "stop">> \in Slots
      /\ \A c \in Caller : <<c, "new">> \in Slots /\ <<c, "old">> \in Slots
  BY DEF Slots
<1>1. ASSUME UNCHANGED <<inCh, caller, answering>>, run' = "deliver" => run = "deliver",
             stopper = "done" => stopper' = "done"
      PROVE WakeUpsOwned'
  <2>1. Owned(f, inCh', caller', run', answering', stopper') BY <1>0, <1>1 DEF Owned
  <2> QED BY <2>1 DEF WakeUpsOwned
<1>2. ASSUME NEW c \in Caller, AppendRequest(c) PROVE WakeUpsOwned'
  <2> DEFINE g == [i \in Nils(inCh) |-> IF f[i] = <<c, "new">> THEN <<c, "old">> ELSE f[i]]
  <2>1. caller[c] = "idle" /\ caller' = [caller EXCEPT ![c] = "waking"]
        /\ UNCHANGED <<inCh, run, answering, stopper>>
    BY <1>2 DEF AppendRequest
  <2>2. Res(c) = 0 /\ Dlv(c) = 0 BY <2>1, PlacesTerms DEF RequestInOnePlace
  <2>3. \A j \in DOMAIN inCh : inCh[j] \notin Answers(c)
    <3>1. Cardinality(At(inCh, Answers(c))) = 0 /\ IsFiniteSet(At(inCh, Answers(c)))
      BY <2>2, <1>a, AtFinite DEF Res
    <3>2. At(inCh, Answers(c)) = {} BY <3>1, FS_EmptySet
    <3> QED BY <3>2 DEF At
  <2>4. ~(run = "deliver" /\ answering = c) BY <2>2 DEF Dlv
  <2>5. \A i \in Nils(inCh) : f[i] # <<c, "old">> BY <1>0, <2>1 DEF Owned
  <2>6. g \in [Nils(inCh) -> Slots] BY <1>0, <1>b DEF Owned
  <2>7. \A i, j \in Nils(inCh) : g[i] = g[j] => i = j BY <1>0, <2>5 DEF Owned
  <2>8. ASSUME NEW i \in Nils(inCh), NEW d \in Caller, g[i] = <<d, "old">>
        PROVE /\ caller'[d] # "idle" /\ ~(run = "deliver" /\ answering = d)
              /\ \A j \in DOMAIN inCh : inCh[j] \in Answers(d) => i < j
    <3>1. CASE d = c BY <1>a, <2>1, <2>3, <2>4, <3>1
    <3>2. CASE d # c
      <4>1. f[i] = <<d, "old">> BY <2>8, <3>2
      <4> QED BY <1>0, <1>a, <2>1, <3>2, <4>1 DEF Owned
    <3> QED BY <3>1, <3>2
  <2>9. ASSUME NEW i \in Nils(inCh), NEW d \in Caller, g[i] = <<d, "new">>
        PROVE caller'[d] # "waking"
    <3>1. d # c /\ f[i] = <<d, "new">> BY <2>9
    <3> QED BY <1>0, <1>a, <2>1, <3>1 DEF Owned
  <2>10. \A i \in Nils(inCh) : g[i] = <<Nil, "stop">> => stopper = "done" BY <1>0 DEF Owned
  <2> HIDE DEF g
  <2>11. Owned(g, inCh', caller', run', answering', stopper')
    BY <2>1, <2>6, <2>7, <2>8, <2>9, <2>10 DEF Owned
  <2> QED BY <2>11 DEF WakeUpsOwned
<1>3. ASSUME NEW c \in Caller, WakeUp(c) PROVE WakeUpsOwned'
  <2>1. /\ caller[c] = "waking" /\ caller' = [caller EXCEPT ![c] = "waiting"]
        /\ inCh' = Append(inCh, Nil) /\ UNCHANGED <<run, answering, stopper>>
    BY <1>3 DEF WakeUp, Send
  <2>2. \A i \in Nils(inCh) : f[i] # <<c, "new">> BY <1>0, <2>1 DEF Owned
  <2>3. FreeSlot(<<c, "new">>, f, inCh, caller, stopper, caller', stopper)
    BY <1>a, <1>b, <2>1, <2>2 DEF FreeSlot
  <2>4. \E g : Owned(g, Append(inCh, Nil), caller', run, answering, stopper)
    BY <1>0, <1>a, <2>3, OwnedSendNil
  <2> QED BY <2>1, <2>4 DEF WakeUpsOwned
<1>4. ASSUME NEW c \in Caller, Finish(c) \/ AbortedByCC(c) PROVE WakeUpsOwned'
  BY <1>1, <1>4 DEF Finish, AbortedByCC
<1>5. ASSUME NEW c \in Caller, SendResult(c) PROVE WakeUpsOwned'
  <2> DEFINE r == Result(c, worker[c] = "aborted")
  <2>1. inCh' = Append(inCh, r) /\ UNCHANGED <<caller, run, answering, stopper>>
    BY <1>5 DEF SendResult, Send
  <2>2. r \in Results /\ r # Nil
    <3>1. r \in Results BY DEF Result, Results
    <3>2. Nil \notin Results BY RequestManagerAssumption DEF Results
    <3> QED BY <3>1, <3>2
  <2> HIDE DEF r
  <2>3. /\ Len(inCh') = Len(inCh) + 1 /\ Len(inCh) \in Nat
        /\ \A i \in 1..Len(inCh) : inCh'[i] = inCh[i] /\ inCh'[Len(inCh) + 1] = r
        /\ DOMAIN inCh' = 1..(Len(inCh) + 1) /\ DOMAIN inCh = 1..Len(inCh)
    BY <1>a, <2>1, <2>2
  <2>4. Nils(inCh') = Nils(inCh) /\ Nils(inCh) \subseteq 1..Len(inCh)
    BY <1>a, <2>1, <2>2 DEF Nils, At
  <2>5. ASSUME NEW i \in Nils(inCh), NEW d \in Caller, f[i] = <<d, "old">>,
               NEW j \in DOMAIN inCh', inCh'[j] \in Answers(d)
        PROVE i < j
    <3>1. CASE j = Len(inCh) + 1 BY <2>3, <2>4, <3>1
    <3>2. CASE j \in DOMAIN inCh BY <1>0, <2>3, <2>5, <3>2 DEF Owned
    <3> QED BY <2>3, <3>1, <3>2
  <2>6. Owned(f, inCh', caller', run', answering', stopper')
    BY <1>0, <2>1, <2>4, <2>5 DEF Owned
  <2> QED BY <2>6 DEF WakeUpsOwned
<1>6. CASE ReceiveWakeUp \/ HandleAbortedByCCTxn
  <2>1. /\ inCh # <<>> /\ inCh' = Tail(inCh) /\ run' = "dispatch"
        /\ UNCHANGED <<caller, answering, stopper>>
    BY <1>6 DEF ReceiveWakeUp, HandleAbortedByCCTxn
  <2>2. \E g : Owned(g, Tail(inCh), caller, run', answering, stopper)
    BY <1>0, <1>a, <2>1, OwnedReceive
  <2> QED BY <2>1, <2>2 DEF WakeUpsOwned
<1>7. CASE ReceiveResult
  <2>1. /\ inCh # <<>> /\ inCh' = Tail(inCh) /\ Head(inCh) # Nil
        /\ answering' = Head(inCh).req /\ UNCHANGED <<caller, stopper>>
    BY <1>7 DEF ReceiveResult
  <2>2. Head(inCh) \in {Nil} \cup Results BY <1>a, <2>1
  <2>3. Head(inCh) \in Answers(answering') BY <2>1, <2>2 DEF Answers
  <2>4. \E g : Owned(g, Tail(inCh), caller, run', answering', stopper)
    BY <1>0, <1>a, <2>1, <2>3, OwnedReceive
  <2> QED BY <2>1, <2>4 DEF WakeUpsOwned
<1>8. CASE Deliver
  <2>1. /\ run = "deliver" /\ caller[answering] = "waiting" /\ run' = "dispatch"
        /\ caller' = [caller EXCEPT ![answering] = "idle"] /\ UNCHANGED <<inCh, stopper>>
    BY <1>8 DEF Deliver
  <2>2. Owned(f, inCh', caller', run', answering', stopper')
    BY <1>0, <1>a, <2>1 DEF Owned
  <2> QED BY <2>2 DEF WakeUpsOwned
<1>9. CASE Dispatch \/ Break BY <1>1, <1>9 DEF Dispatch, Break
<1>10. CASE StopTh BY <1>1, <1>10 DEF StopTh
<1>11. CASE StopSignal
  <2> DEFINE o == <<Nil, "stop">>
  <2>1. /\ stopper = "signalling" /\ stopper' = "done" /\ inCh' = Append(inCh, Nil)
        /\ UNCHANGED <<caller, run, answering>>
    BY <1>11 DEF StopSignal, Send
  <2>2. \A i \in Nils(inCh) : f[i] # o BY <1>0, <2>1 DEF Owned
  <2>3. FreeSlot(o, f, inCh, caller, stopper, caller, stopper')
    BY <1>b, <2>1, <2>2 DEF FreeSlot
  <2> HIDE DEF o
  <2>4. \E g : Owned(g, Append(inCh, Nil), caller, run, answering, stopper')
    BY <1>0, <1>a, <2>3, OwnedSendNil
  <2> QED BY <2>1, <2>4 DEF WakeUpsOwned
<1>12. CASE UNCHANGED vars BY <1>1, <1>12 DEF vars
<1> QED
  BY <1>2, <1>3, <1>4, <1>5, <1>6, <1>7, <1>8, <1>9, <1>10, <1>11, <1>12 DEF Next, Run, Work

\* A sequence is at most as long as the wake-ups and the results it holds.
LEMMA OwnedBound ==
  ASSUME CountersOK, RequestsAccounted, WakeUpsOwned
  PROVE Len(inCh) <= 2 * Cardinality(Caller) + 1 + MaxTxnThreadNum
<1> USE RequestManagerAssumption
<1> DEFINE N == Nils(inCh)
           R == At(inCh, Results)
<1>a. inCh \in Seq({Nil} \cup Results) BY DEF CountersOK
<1>b. Cardinality(Caller) \in Nat BY FS_CardinalityType
<1>1. IsFiniteSet(Slots) /\ Cardinality(Slots) <= 2 * Cardinality(Caller) + 1
  <2> DEFINE P == Caller \X {"old", "new"}
  <2>1. IsFiniteSet({"old", "new"}) /\ Cardinality({"old", "new"}) = 2
    <3> DEFINE old == {"old"}
    <3>1. {"old", "new"} = old \cup {"new"} /\ "new" \notin old OBVIOUS
    <3>2. IsFiniteSet(old) /\ Cardinality(old) = 1 BY FS_Singleton
    <3> HIDE DEF old
    <3>3. IsFiniteSet(old \cup {"new"}) /\ Cardinality(old \cup {"new"}) = Cardinality(old) + 1
      BY <3>1, <3>2, FS_AddElement
    <3> QED BY <3>1, <3>2, <3>3
  <2>2. IsFiniteSet(P) /\ Cardinality(P) = Cardinality(Caller) * 2 BY <2>1, FS_Product
  <2> DEFINE o == <<Nil, "stop">>
  <2> HIDE DEF P, o
  <2>3. Cardinality(P) \in Nat /\ IsFiniteSet(P) BY <1>b, <2>2
  <2>4. IsFiniteSet(P \cup {o}) /\ Cardinality(P \cup {o}) <= Cardinality(P) + 1
    <3>1. /\ IsFiniteSet(P \cup {o})
          /\ Cardinality(P \cup {o}) = IF o \in P THEN Cardinality(P) ELSE Cardinality(P) + 1
      BY <2>3, FS_AddElement, Zenon
    <3> QED BY <2>3, <3>1
  <2>5. Slots = P \cup {o} BY DEF Slots, P, o
  <2> QED BY <1>b, <2>2, <2>4, <2>5
<1>2. IsFiniteSet(N) /\ Cardinality(N) <= 2 * Cardinality(Caller) + 1
  <2>1. PICK f : Owned(f, inCh, caller, run, answering, stopper) BY DEF WakeUpsOwned
  <2>2. f \in Injection(N, Slots) BY <2>1 DEF Owned, Injection, IsInjective
  <2>3. IsFiniteSet(N) /\ Cardinality(N) <= Cardinality(Slots) BY <1>1, <2>2, FS_Injection
  <2>4. Cardinality(N) \in Nat /\ Cardinality(Slots) \in Nat BY <1>1, <2>3, FS_CardinalityType
  <2> QED BY <1>1, <1>b, <2>3, <2>4
<1>3. IsFiniteSet(R) /\ Cardinality(R) <= MaxTxnThreadNum
  <2> DEFINE g == [i \in R |-> inCh[i].req]
  <2>1. \A i \in R : inCh[i] \in Results /\ inCh[i].req \in Caller /\ i \in DOMAIN inCh
    BY DEF At, Results
  <2>2. \A i \in R : inCh[i].req \in Executing
    <3> SUFFICES ASSUME NEW i \in R PROVE inCh[i].req \in Executing OBVIOUS
    <3>1. inCh[i] # Nil BY <2>1 DEF Results
    <3>2. i \in Sent(inCh[i].req) BY <2>1, <3>1 DEF Sent
    <3> QED BY <2>1, <3>2 DEF Executing
  <2>3. ASSUME NEW i \in R, NEW j \in R, inCh[i].req = inCh[j].req PROVE i = j
    <3> DEFINE c == inCh[i].req
               A == At(inCh, Answers(c))
    <3>1. c \in Caller /\ i \in A /\ j \in A BY <2>1, <2>3 DEF At, Answers
    <3>2. IsFiniteSet(A) /\ Cardinality(A) = Res(c) /\ Res(c) \in Nat BY <1>a, AtFinite DEF Res
    <3>3. Res(c) <= 1 BY <3>1, PlacesTerms DEF RequestsAccounted, RequestInOnePlace
    <3> HIDE DEF A, c
    <3>4. A # {} BY <3>1
    <3>5. Cardinality(A) # 0 BY <3>2, <3>4, FS_EmptySet
    <3>6. Cardinality(A) = 1 BY <3>2, <3>3, <3>5
    <3>7. \E x : A = {x} BY <3>2, <3>6, FS_Singleton
    <3> QED BY <3>1, <3>7
  <2>4. g \in Injection(R, Executing) BY <2>2, <2>3 DEF Injection, IsInjective
  <2>5. IsFiniteSet(Executing) /\ Cardinality(Executing) <= MaxTxnThreadNum
        /\ Cardinality(Executing) \in Nat
    BY FS_Subset, FS_CardinalityType DEF Executing, RequestsAccounted, ExecutionsCounted
  <2> HIDE DEF g, R
  <2>6. IsFiniteSet(R) /\ Cardinality(R) <= Cardinality(Executing) BY <2>4, <2>5, FS_Injection
  <2>7. Cardinality(R) \in Nat BY <2>6, FS_CardinalityType
  <2> QED BY <2>5, <2>6, <2>7
<1>4. 1..Len(inCh) = N \cup R /\ Len(inCh) \in Nat BY <1>a DEF Nils, At
<1>5. Cardinality(1..Len(inCh)) = Len(inCh) BY <1>4, FS_Interval
<1> HIDE DEF N, R
<1>6. Cardinality(N) \in Nat /\ Cardinality(R) \in Nat /\ Cardinality(N \cap R) \in Nat
  BY <1>2, <1>3, FS_CardinalityType, FS_Intersection
<1>7. Cardinality(N \cup R) = Cardinality(N) + Cardinality(R) - Cardinality(N \cap R)
  BY <1>2, <1>3, FS_Union
<1>8. Len(inCh) = Cardinality(N \cup R) BY <1>4, <1>5
<1> QED BY <1>2, <1>3, <1>4, <1>6, <1>7, <1>8, <1>b

-----------------------------------------------------------------------------
\* The inductive invariant, and what follows from it.
IInv == CountersOK /\ RequestsAccounted /\ NoLostWakeUp /\ WakeUpsOwned

\* IInv holds in every reachable state, however callers, executions and Run
\* interleave.
THEOREM Inductive == Spec => []IInv
<1>1. Init => IInv
  BY InitNoLost, OnePlaceInit, CountedInit, OwnedInit DEF IInv, RequestsAccounted
<1>2. IInv /\ [Next]_vars => IInv'
  BY CountersStep, NoLostStep, OnePlaceStep, CountedStep, OwnedStep DEF IInv, RequestsAccounted
<1> QED BY <1>1, <1>2, PTL DEF Spec

\* The fields of the manager keep their types; the counter, unsigned in the code,
\* never goes below zero.
THEOREM TypeCorrect == Spec => []TypeOK
<1>1. IInv => TypeOK
  <2> SUFFICES ASSUME IInv PROVE TypeOK OBVIOUS
  <2>1. IsFiniteSet(Executing) BY RequestManagerAssumption, FS_Subset DEF Executing
  <2>2. curExectingReqNum \in Nat
    BY <2>1, FS_CardinalityType DEF IInv, RequestsAccounted, ExecutionsCounted
  <2> QED BY <2>2 DEF IInv, CountersOK, TypeOK
<1> QED BY <1>1, Inductive, PTL

\* A request is in one place from AppendRequest to its answer and the executions
\* are counted, whatever is aborted and retried: no request is lost or executed
\* twice and the cap is never exceeded.
THEOREM AllRequestsAccounted == Spec => []RequestsAccounted
<1>1. IInv => RequestsAccounted BY DEF IInv
<1> QED BY <1>1, Inductive, PTL

\* Nobody is held up in inCh <- ... if the channel is large enough for the
\* callers: the capacity the code must have for any number of them.
THEOREM SendersNeverBlock ==
  ASSUME ChanCap >= 2 * Cardinality(Caller) + MaxTxnThreadNum + 2
  PROVE Spec => []SendsNeverBlock
<1>1. IInv => SendsNeverBlock
  <2> SUFFICES ASSUME IInv PROVE SendsNeverBlock OBVIOUS
  <2>1. Len(inCh) <= 2 * Cardinality(Caller) + 1 + MaxTxnThreadNum BY OwnedBound DEF IInv
  <2>2. Len(inCh) \in Nat /\ Cardinality(Caller) \in Nat
    BY RequestManagerAssumption, FS_CardinalityType DEF IInv, CountersOK
  <2> QED BY <2>1, <2>2, RequestManagerAssumption DEF SendsNeverBlock, HasRoom
<1> QED BY <1>1, Inductive, PTL

\* No lost wake-up, for any number of callers, cap and channel capacity: when
\* Run waits for a message and more requests are queued than wake-ups are on
\* their way, the cap is reached, so a result will wake Run up.
THEOREM NoWakeUpIsLost == Spec => []NoLostWakeUp
<1>1. IInv => NoLostWakeUp BY DEF IInv
<1> QED BY <1>1, Inductive, PTL

=============================================================================
