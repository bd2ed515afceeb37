------------------------- MODULE EventListenerProofs -------------------------
(***************************************************************************)
(* Proofs about the EventListener model, for every number of workers,     *)
(* every channel capacity and every set of events:                        *)
(*  - TypeOK is an invariant; in particular eventChannel never holds more *)
(*    than backlog events (the producer's send blocks when it is full);   *)
(*  - with the code's single worker, the listener implements the lossy   *)
(*    FIFO of AbstractForwarder.                                          *)
(***************************************************************************)
EXTENDS EventListener, SequenceTheorems, TLAPS

-----------------------------------------------------------------------------
(* Type correctness.                                                        *)

\* A worker that is about to process holds a real event.
CurValid == \A w \in Workers : workerPc[w] = "process" => cur[w] \in Events

TypeInv == TypeOK /\ CurValid

\* TypeOK split: the program counters and flags, and the data.
ControlOK ==
    /\ startPc \in {"sleep", "init", "mkchan", "done"}
    /\ enabled \in BOOLEAN /\ conn \in Ptr /\ ch \in Ptr
    /\ sub \in {"nil", "active", "failed", "unsubscribed"}
    /\ watcherPc \in {"none", "subscribe", "loop", "sleep"}
    /\ workerPc \in [Workers -> {"none", "recv", "process", "exited"}]
    /\ closePc \in {"none", "check", "unsub", "closechan", "closeconn", "done"}
    /\ stopping \in BOOLEAN /\ panicked \in BOOLEAN

DataOK ==
    /\ buf \in Seq(Events) /\ Len(buf) <= backlog
    /\ cur \in [Workers -> Events \cup {NoEvent}]
    /\ logs \in Seq(Events) /\ emitted \in Seq(Events) /\ running \subseteq Events
    /\ processed \in Seq(Events) /\ forwarded \in Seq(Events)

LEMMA TypeSplit == TypeOK <=> ControlOK /\ DataOK
  BY DEF TypeOK, ControlOK, DataOK

LEMMA TypeInit == Init => TypeInv
  <1> SUFFICES ASSUME Init PROVE ControlOK /\ DataOK /\ CurValid
    BY TypeSplit DEF TypeInv
  <1>1. ControlOK
    BY Zenon DEF Init, ControlOK, Ptr
  <1>2. DataOK
    BY ListenerAssumption DEF Init, DataOK
  <1>3. CurValid
    BY DEF Init, CurValid
  <1> QED
    BY <1>1, <1>2, <1>3

LEMMA TypeStep == TypeInv /\ [Next]_vars => TypeInv'
  <1> SUFFICES ASSUME TypeInv, [Next]_vars PROVE ControlOK' /\ DataOK' /\ CurValid'
    BY Zenon DEF TypeInv, TypeOK, ControlOK, DataOK
  <1>0. ControlOK /\ DataOK /\ CurValid
    BY TypeSplit DEF TypeInv
  <1> USE <1>0, ListenerAssumption

  <1>1. CASE StartEnable
    <2>1. ControlOK'
      BY <1>1 DEF StartEnable, ControlOK, Ptr
    <2>2. DataOK'
      BY <1>1 DEF StartEnable, DataOK
    <2>3. CurValid'
      BY <1>1, <2>1 DEF StartEnable, CurValid, ControlOK
    <2> QED
      BY <2>1, <2>2, <2>3
  <1>2. CASE StartInit
    <2>1. ControlOK'
      BY <1>2 DEF StartInit, ControlOK, Ptr
    <2>2. DataOK'
      BY <1>2 DEF StartInit, DataOK
    <2>3. CurValid'
      BY <1>2, <2>1 DEF StartInit, CurValid, ControlOK
    <2> QED
      BY <2>1, <2>2, <2>3
  <1>3. CASE StartSpawn
    <2>1. ControlOK'
      BY <1>3 DEF StartSpawn, ControlOK, Ptr
    <2>2. DataOK'
      BY <1>3 DEF StartSpawn, DataOK
    <2>3. CurValid'
      BY <1>3, <2>1 DEF StartSpawn, CurValid, ControlOK
    <2> QED
      BY <2>1, <2>2, <2>3
  <1>4. CASE WatcherSubscribe
    <2>1. ControlOK'
      BY <1>4 DEF WatcherSubscribe, Panic, ControlOK, Ptr
    <2>2. DataOK'
      BY <1>4 DEF WatcherSubscribe, Panic, DataOK
    <2>3. CurValid'
      BY <1>4, <2>1 DEF WatcherSubscribe, Panic, CurValid, ControlOK
    <2> QED
      BY <2>1, <2>2, <2>3
  <1>5. CASE WatcherErr
    <2>1. ControlOK'
      BY <1>5 DEF WatcherErr, ControlOK, Ptr
    <2>2. DataOK'
      BY <1>5 DEF WatcherErr, DataOK
    <2>3. CurValid'
      BY <1>5, <2>1 DEF WatcherErr, CurValid, ControlOK
    <2> QED
      BY <2>1, <2>2, <2>3
  <1>6. CASE WatcherSleep
    <2>1. ControlOK'
      BY <1>6 DEF WatcherSleep, ControlOK, Ptr
    <2>2. DataOK'
      BY <1>6 DEF WatcherSleep, DataOK
    <2>3. CurValid'
      BY <1>6, <2>1 DEF WatcherSleep, CurValid, ControlOK
    <2> QED
      BY <2>1, <2>2, <2>3
  <1>7. CASE Feed
    <2>1. ControlOK'
      BY <1>7 DEF Feed, ControlOK, Ptr
    <2>2. DataOK'
      BY <1>7 DEF Feed, DataOK
    <2>3. CurValid'
      BY <1>7, <2>1 DEF Feed, CurValid, ControlOK
    <2> QED
      BY <2>1, <2>2, <2>3
  <1>8. CASE SubFail
    <2>1. ControlOK'
      BY <1>8 DEF SubFail, ControlOK, Ptr
    <2>2. DataOK'
      BY <1>8 DEF SubFail, DataOK
    <2>3. CurValid'
      BY <1>8, <2>1 DEF SubFail, CurValid, ControlOK
    <2> QED
      BY <2>1, <2>2, <2>3
  <1>9. CASE Shutdown
    <2>1. ControlOK'
      BY <1>9 DEF Shutdown, ControlOK, Ptr
    <2>2. DataOK'
      BY <1>9 DEF Shutdown, DataOK
    <2>3. CurValid'
      BY <1>9, <2>1 DEF Shutdown, CurValid, ControlOK
    <2> QED
      BY <2>1, <2>2, <2>3
  <1>10. CASE CloseCheck
    <2>1. ControlOK'
      BY <1>10 DEF CloseCheck, ControlOK, Ptr
    <2>2. DataOK'
      BY <1>10 DEF CloseCheck, DataOK
    <2>3. CurValid'
      BY <1>10, <2>1 DEF CloseCheck, CurValid, ControlOK
    <2> QED
      BY <2>1, <2>2, <2>3
  <1>11. CASE CloseUnsubscribe
    <2>1. ControlOK'
      BY <1>11 DEF CloseUnsubscribe, Panic, ControlOK, Ptr
    <2>2. DataOK'
      <3>1. CASE sub = "nil"
        BY <1>11, <3>1 DEF CloseUnsubscribe, Panic, DataOK
      <3>2. CASE sub # "nil"
        BY <1>11, <3>2, EmptySeq DEF CloseUnsubscribe, DataOK
      <3> QED
        BY <3>1, <3>2
    <2>3. CurValid'
      BY <1>11, <2>1 DEF CloseUnsubscribe, Panic, CurValid, ControlOK
    <2> QED
      BY <2>1, <2>2, <2>3
  <1>12. CASE CloseChannel
    <2>1. ControlOK'
      BY <1>12 DEF CloseChannel, Panic, ControlOK, Ptr
    <2>2. DataOK'
      BY <1>12 DEF CloseChannel, Panic, DataOK
    <2>3. CurValid'
      BY <1>12, <2>1 DEF CloseChannel, Panic, CurValid, ControlOK
    <2> QED
      BY <2>1, <2>2, <2>3
  <1>13. CASE CloseConn
    <2>1. ControlOK'
      BY <1>13 DEF CloseConn, Panic, ControlOK, Ptr
    <2>2. DataOK'
      BY <1>13 DEF CloseConn, Panic, DataOK
    <2>3. CurValid'
      BY <1>13, <2>1 DEF CloseConn, Panic, CurValid, ControlOK
    <2> QED
      BY <2>1, <2>2, <2>3
  <1>14. CASE \E e \in Events : Emit(e)
    <2>0. PICK e \in Events : Emit(e)
      BY <1>14
    <2>1. ControlOK'
      BY <2>0 DEF Emit, ControlOK, Ptr
    <2>2. DataOK'
      BY <2>0 DEF Emit, DataOK
    <2>3. CurValid'
      BY <2>0, <2>1 DEF Emit, CurValid, ControlOK
    <2> QED
      BY <2>1, <2>2, <2>3
  <1>15. CASE \E w \in Workers : WorkerRecv(w)
    <2>0. PICK w \in Workers : WorkerRecv(w)
      BY <1>15
    <2>1. CASE buf # <<>> /\ cur' = [cur EXCEPT ![w] = Head(buf)] /\ buf' = Tail(buf)
               /\ workerPc' = [workerPc EXCEPT ![w] = "process"]
      <3>1. ControlOK'
        BY <2>0, <2>1 DEF WorkerRecv, ControlOK, Ptr
      <3>2. DataOK'
        BY <2>0, <2>1, HeadTailProperties DEF WorkerRecv, DataOK
      <3>3. CurValid'
        BY <2>0, <2>1, HeadTailProperties DEF WorkerRecv, CurValid, DataOK
      <3> QED
        BY <3>1, <3>2, <3>3
    <2>2. CASE buf = <<>> /\ ch = "closed" /\ workerPc' = [workerPc EXCEPT ![w] = "exited"]
               /\ UNCHANGED <<cur, buf>>
      <3>1. ControlOK'
        BY <2>0, <2>2 DEF WorkerRecv, ControlOK, Ptr
      <3>2. DataOK'
        BY <2>0, <2>2 DEF WorkerRecv, DataOK
      <3>3. CurValid'
        BY <2>0, <2>2 DEF WorkerRecv, CurValid
      <3> QED
        BY <3>1, <3>2, <3>3
    <2> QED
      BY <2>0, <2>1, <2>2 DEF WorkerRecv
  <1>16. CASE \E w \in Workers : WorkerProcess(w)
    <2>0. PICK w \in Workers : WorkerProcess(w)
      BY <1>16
    <2>1. ControlOK'
      BY <2>0 DEF WorkerProcess, ControlOK, Ptr
    <2>2. DataOK'
      BY <2>0 DEF WorkerProcess, DataOK, CurValid
    <2>3. CurValid'
      BY <2>0, <2>1 DEF WorkerProcess, CurValid, ControlOK
    <2> QED
      BY <2>1, <2>2, <2>3
  <1>17. CASE UNCHANGED vars
    BY <1>17 DEF vars, ControlOK, DataOK, CurValid
  <1> QED
    BY <1>1, <1>2, <1>3, <1>4, <1>5, <1>6, <1>7, <1>8, <1>9, <1>10, <1>11, <1>12, <1>13, <1>14, <1>15, <1>16, <1>17 DEF Next

\* Every variable of the listener keeps its type; eventChannel never holds
\* more than backlog events, however the producer, the workers and Close
\* interleave.
THEOREM ListenerTypeCorrect == Spec => []TypeOK
  <1>1. Init => TypeInv
    BY TypeInit
  <1>2. TypeInv /\ [Next]_vars => TypeInv'
    BY TypeStep
  <1>3. TypeInv => TypeOK
    BY DEF TypeInv
  <1> QED
    BY <1>1, <1>2, <1>3, PTL DEF Spec

-----------------------------------------------------------------------------
(* The listener implements AbstractForwarder (single worker).              *)

\* A nonempty sequence is its head followed by its tail.
LEMMA ConsHeadTail ==
    ASSUME NEW S, NEW s \in Seq(S), s # <<>>
    PROVE  <<Head(s)>> \o Tail(s) = s
  <1>1. /\ Head(s) \in S /\ Tail(s) \in Seq(S) /\ Len(Tail(s)) = Len(s) - 1
        /\ \A i \in 1..Len(Tail(s)) : Tail(s)[i] = s[i + 1]
        /\ Len(s) >= 1 /\ Head(s) = s[1]
    BY HeadTailProperties, EmptySeq, LenProperties
  <1>2. <<Head(s)>> \in Seq(S) /\ Len(<<Head(s)>>) = 1
    BY <1>1
  <1>3. /\ <<Head(s)>> \o Tail(s) \in Seq(S)
        /\ Len(<<Head(s)>> \o Tail(s)) = Len(s)
        /\ \A i \in 1..Len(s) : (<<Head(s)>> \o Tail(s))[i] = s[i]
    BY <1>1, <1>2, ConcatProperties
  <1> QED
    BY <1>3, SeqEqual

\* The head and tail of an element put in front of a sequence.
LEMMA HeadTailCons ==
    ASSUME NEW S, NEW c \in S, NEW t \in Seq(S)
    PROVE  Head(<<c>> \o t) = c /\ Tail(<<c>> \o t) = t
  <1>1. /\ <<c>> \o t \in Seq(S) /\ <<c>> \o t # <<>>
        /\ Len(<<c>> \o t) = 1 + Len(t)
        /\ \A i \in 1..(1 + Len(t)) : (<<c>> \o t)[i] = IF i <= 1 THEN c ELSE t[i - 1]
    BY ConcatProperties, EmptySeq
  <1>2. Head(<<c>> \o t) = c
    BY <1>1
  <1>3. /\ Tail(<<c>> \o t) \in Seq(S) /\ Len(Tail(<<c>> \o t)) = Len(t)
        /\ \A i \in 1..Len(t) : Tail(<<c>> \o t)[i] = t[i]
    BY <1>1, HeadTailProperties
  <1> QED
    BY <1>2, <1>3, SeqEqual

\* Moving the head of l to the end of b leaves b \o l unchanged.
LEMMA MoveHead ==
    ASSUME NEW S, NEW b \in Seq(S), NEW l \in Seq(S), l # <<>>
    PROVE  Append(b, Head(l)) \o Tail(l) = b \o l
  <1>1. Head(l) \in S /\ Tail(l) \in Seq(S) /\ <<Head(l)>> \in Seq(S)
    BY HeadTailProperties
  <1>2. Append(b, Head(l)) = b \o <<Head(l)>>
    BY <1>1, AppendIsConcat
  <1>3. (b \o <<Head(l)>>) \o Tail(l) = b \o (<<Head(l)>> \o Tail(l))
    BY <1>1, ConcatAssociative
  <1> QED
    BY <1>2, <1>3, ConsHeadTail

\* Appending to the last part appends to the whole.
LEMMA AppendConcat ==
    ASSUME NEW S, NEW x \in Seq(S), NEW y \in Seq(S), NEW e \in S
    PROVE  x \o Append(y, e) = Append(x \o y, e)
  <1>1. <<e>> \in Seq(S) /\ x \o y \in Seq(S)
    BY ConcatProperties
  <1>2. Append(y, e) = y \o <<e>> /\ Append(x \o y, e) = (x \o y) \o <<e>>
    BY <1>1, AppendIsConcat
  <1> QED
    BY <1>1, <1>2, ConcatAssociative

\* Cutting x \o y after x leaves x.
LEMMA PrefixOfConcat ==
    ASSUME NEW S, NEW x \in Seq(S), NEW y \in Seq(S)
    PROVE  Len(x) \in 0..Len(x \o y) /\ SubSeq(x \o y, 1, Len(x)) = x
  <1>1. x \o y \in Seq(S) /\ Len(x \o y) = Len(x) + Len(y) /\ Len(x) \in Nat /\ Len(y) \in Nat
    BY ConcatProperties, LenProperties
  <1>2. CASE Len(x) = 0
    <2>1. x = <<>>
      BY <1>2, EmptySeq
    <2> QED
      BY <1>1, <1>2, <2>1, SubSeqEmpty
  <1>3. CASE Len(x) > 0
    <2>1. SubSeq(x \o y, 1, Len(x)) = SubSeq(x, 1, Len(x))
      BY <1>1, <1>3, SubSeqOfConcat1
    <2> QED
      BY <1>1, <2>1, SubSeqFull
  <1> QED
    BY <1>1, <1>2, <1>3

\* The workers do not run before Start has spawned them.
SpawnInv == startPc # "done" => \A w \in Workers : workerPc[w] = "none"

LEMMA SpawnStep == SpawnInv /\ [Next]_vars => SpawnInv'
  <1> SUFFICES ASSUME SpawnInv, [Next]_vars PROVE SpawnInv'
    OBVIOUS
  <1>1. CASE \E w \in Workers : WorkerRecv(w) \/ WorkerProcess(w)
    BY <1>1 DEF WorkerRecv, WorkerProcess, SpawnInv
  <1>2. CASE ~(\E w \in Workers : WorkerRecv(w) \/ WorkerProcess(w))
    BY <1>2 DEF Next, vars, SpawnInv, StartEnable, StartInit, StartSpawn,
                WatcherSubscribe, WatcherErr, WatcherSleep, Feed, Emit, SubFail,
                Shutdown, CloseCheck, CloseUnsubscribe, CloseChannel, CloseConn, Panic
  <1> QED
    BY <1>1, <1>2

\* Every step of the listener is a step of AbstractForwarder under the
\* mapping pending = Held \o buf \o logs, out = forwarded, or leaves all
\* three unchanged.
LEMMA ForwarderStep ==
    ASSUME numOfWorkers = 1, TypeInv, SpawnInv, [Next]_vars
    PROVE  [Forwarder!Next]_<<emitted, Held \o buf \o logs, forwarded>>
  <1> DEFINE P == Held \o buf \o logs
  <1>0. /\ Workers = {1}
        /\ Held = IF workerPc[1] = "process" THEN <<cur[1]>> ELSE <<>>
        /\ Held' = IF workerPc'[1] = "process" THEN <<cur'[1]>> ELSE <<>>
    BY DEF Workers, Held
  <1>1. /\ Held \in Seq(Events) /\ buf \in Seq(Events) /\ logs \in Seq(Events)
        /\ emitted \in Seq(Events) /\ forwarded \in Seq(Events)
        /\ Held \o buf \in Seq(Events) /\ P \in Seq(Events)
    <2>1. Held \in Seq(Events)
      BY <1>0 DEF TypeInv, CurValid
    <2> QED
      BY <2>1, ConcatProperties DEF TypeInv, TypeOK
  <1>2. ASSUME UNCHANGED <<emitted, forwarded, buf, logs, workerPc, cur>>
        PROVE  [Forwarder!Next]_<<emitted, P, forwarded>>
    BY <1>0, <1>2
  <1>3. ASSUME UNCHANGED <<emitted, forwarded, buf, workerPc, cur>>, logs' = <<>>
        PROVE  [Forwarder!Next]_<<emitted, P, forwarded>>
    <2>1. P' = Held \o buf
      BY <1>0, <1>1, <1>3, ConcatEmptySeq
    <2>2. Len(Held \o buf) \in 0..Len(P) /\ SubSeq(P, 1, Len(Held \o buf)) = Held \o buf
      BY <1>1, PrefixOfConcat
    <2>3. Forwarder!Truncate
      BY <1>3, <2>1, <2>2 DEF Forwarder!Truncate
    <2> QED
      BY <2>3 DEF Forwarder!Next
  <1>4. CASE StartEnable \/ StartInit \/ WatcherSubscribe \/ WatcherErr \/ WatcherSleep
             \/ Shutdown \/ CloseCheck \/ CloseChannel \/ CloseConn \/ UNCHANGED vars
    BY <1>2, <1>4 DEF StartEnable, StartInit, WatcherSubscribe, WatcherErr, WatcherSleep,
                      Shutdown, CloseCheck, CloseChannel, CloseConn, vars, Panic
  <1>5. CASE StartSpawn
    <2>1. workerPc[1] = "none" /\ workerPc'[1] = "recv"
      BY <1>0, <1>5 DEF StartSpawn, SpawnInv
    <2>2. Held' = Held /\ UNCHANGED <<emitted, forwarded, buf, logs>>
      BY <1>0, <1>5, <2>1 DEF StartSpawn
    <2> QED
      BY <2>2
  <1>6. CASE SubFail
    BY <1>3, <1>6 DEF SubFail
  <1>7. CASE CloseUnsubscribe
    <2>1. CASE sub = "nil"
      BY <1>2, <1>7, <2>1 DEF CloseUnsubscribe, Panic
    <2>2. CASE sub # "nil"
      BY <1>3, <1>7, <2>2 DEF CloseUnsubscribe
    <2> QED
      BY <2>1, <2>2
  <1>8. CASE \E e \in Events : Emit(e)
    <2>1. PICK e \in Events : Emit(e)
      BY <1>8
    <2>2. /\ e \notin Range(emitted) /\ emitted' = Append(emitted, e)
          /\ logs' \in {logs, Append(logs, e)}
          /\ UNCHANGED <<forwarded, buf, workerPc, cur>>
      BY <2>1 DEF Emit
    <2>3. (Held \o buf) \o Append(logs, e) = Append(P, e)
      BY <1>1, AppendConcat
    <2>4. P' \in {P, Append(P, e)}
      BY <1>0, <2>2, <2>3
    <2>5. Forwarder!Emit(e)
      BY <2>2, <2>4 DEF Forwarder!Emit, Forwarder!Range, Range
    <2> QED
      BY <2>5 DEF Forwarder!Next
  <1>9. CASE Feed
    <2>1. /\ logs # <<>> /\ buf' = Append(buf, Head(logs)) /\ logs' = Tail(logs)
          /\ UNCHANGED <<emitted, forwarded, workerPc, cur>>
      BY <1>9 DEF Feed
    <2>2. Append(buf, Head(logs)) \o Tail(logs) = buf \o logs
      BY <1>1, <2>1, MoveHead
    <2>3. Head(logs) \in Events /\ Tail(logs) \in Seq(Events)
      BY <1>1, <2>1, HeadTailProperties
    <2>4. Append(buf, Head(logs)) \in Seq(Events)
      BY <1>1, <2>3, AppendProperties
    <2>5. /\ Held \o Append(buf, Head(logs)) \o Tail(logs)
             = Held \o (Append(buf, Head(logs)) \o Tail(logs))
          /\ P = Held \o (buf \o logs)
      <3>0. \A x, y, z \in Seq(Events) : (x \o y) \o z = x \o (y \o z)
        BY ConcatAssociative
      <3>1. Held \o Append(buf, Head(logs)) \o Tail(logs)
             = Held \o (Append(buf, Head(logs)) \o Tail(logs))
        <4> DEFINE a == Append(buf, Head(logs))
                   t == Tail(logs)
        <4>1. a \in Seq(Events) /\ t \in Seq(Events) /\ Held \in Seq(Events)
          BY <1>1, <2>3, <2>4
        <4> HIDE DEF a, t
        <4>2. (Held \o a) \o t = Held \o (a \o t)
          BY <4>1, <3>0
        <4> QED
          BY <4>2 DEF a, t
      <3>2. P = Held \o (buf \o logs)
        BY <1>1, <3>0
      <3> QED
        BY <3>1, <3>2
    <2> QED
      BY <1>0, <2>1, <2>2, <2>5
  <1>10. CASE \E w \in Workers : WorkerRecv(w)
    <2>1. WorkerRecv(1)
      BY <1>0, <1>10
    <2>2. workerPc[1] = "recv" /\ Held = <<>> /\ UNCHANGED <<emitted, forwarded, logs>>
      BY <1>0, <2>1 DEF WorkerRecv
    <2>3. CASE buf # <<>> /\ cur' = [cur EXCEPT ![1] = Head(buf)] /\ buf' = Tail(buf)
               /\ workerPc' = [workerPc EXCEPT ![1] = "process"]
      <3>1. Held' = <<Head(buf)>>
        BY <1>0, <2>3 DEF TypeInv, TypeOK
      <3>2. <<Head(buf)>> \o Tail(buf) = buf /\ <<>> \o buf = buf
        BY <1>1, <2>3, ConsHeadTail, ConcatEmptySeq
      <3> QED
        BY <2>2, <2>3, <3>1, <3>2
    <2>4. CASE buf = <<>> /\ ch = "closed" /\ workerPc' = [workerPc EXCEPT ![1] = "exited"]
               /\ UNCHANGED <<cur, buf>>
      <3>1. Held' = <<>>
        BY <1>0, <2>4 DEF TypeInv, TypeOK
      <3> QED
        BY <2>2, <2>4, <3>1
    <2> QED
      BY <2>1, <2>3, <2>4 DEF WorkerRecv
  <1>11. CASE \E w \in Workers : WorkerProcess(w)
    <2>1. WorkerProcess(1)
      BY <1>0, <1>11
    <2> DEFINE c == cur[1]
    <2>2. workerPc[1] = "process" /\ c \in Events /\ Held = <<c>>
      BY <1>0, <2>1 DEF WorkerProcess, TypeInv, CurValid
    <2>3. /\ Held' = <<>>
          /\ forwarded' = IF conn = "open" THEN Append(forwarded, c) ELSE forwarded
          /\ UNCHANGED <<emitted, buf, logs>>
      BY <1>0, <2>1 DEF WorkerProcess, TypeInv, TypeOK
    <2>4. /\ P = <<c>> \o (buf \o logs) /\ P # <<>>
          /\ Head(P) = c /\ Tail(P) = buf \o logs
          /\ P' = buf \o logs
      <3>1. buf \o logs \in Seq(Events) /\ <<c>> \in Seq(Events)
        BY <1>1, <2>2, ConcatProperties
      <3>2. P = <<c>> \o (buf \o logs)
        BY <1>1, <2>2, <3>1, ConcatAssociative
      <3>3. P' = buf \o logs
        BY <1>1, <2>3, ConcatEmptySeq
      <3> QED
        BY <2>2, <3>1, <3>2, <3>3, HeadTailCons, ConcatProperties, EmptySeq
    <2>5. CASE conn = "open"
      <3>1. Forwarder!Deliver
        BY <2>3, <2>4, <2>5 DEF Forwarder!Deliver
      <3> QED
        BY <3>1 DEF Forwarder!Next
    <2>6. CASE conn # "open"
      <3>1. Forwarder!Discard
        BY <2>3, <2>4, <2>6 DEF Forwarder!Discard
      <3> QED
        BY <3>1 DEF Forwarder!Next
    <2> QED
      BY <2>5, <2>6
  <1> QED
    BY <1>4, <1>5, <1>6, <1>7, <1>8, <1>9, <1>10, <1>11 DEF Next

\* With the code's single worker, the listener implements AbstractForwarder
\* under pending = Held \o buf \o logs and out = forwarded: events leave the
\* pipeline only at its head (to AddToQueue, or dropped when validation fails
\* on a closed client) or at its end (logs lost when the subscription ends),
\* and nothing is reordered, duplicated or invented.
THEOREM ForwarderRefinement ==
    ASSUME numOfWorkers = 1
    PROVE  Spec => AbstractForwarding
  <1>1. Init => Forwarder!Init
    <2> SUFFICES ASSUME Init PROVE Forwarder!Init
      OBVIOUS
    <2>1. Held = <<>>
      BY DEF Init, Held, Workers
    <2>2. <<>> \o <<>> \o <<>> = <<>>
      BY ConcatEmptySeq
    <2> QED
      BY <2>1, <2>2 DEF Init, Forwarder!Init
  <1>2. Init => TypeInv /\ SpawnInv
    BY TypeInit DEF Init, SpawnInv
  <1>3. TypeInv /\ SpawnInv /\ [Next]_vars => TypeInv' /\ SpawnInv'
    BY SpawnStep, TypeStep
  <1>4. TypeInv /\ SpawnInv /\ [Next]_vars
          => [Forwarder!Next]_<<emitted, Held \o buf \o logs, forwarded>>
    BY ForwarderStep
  <1> QED
    BY <1>1, <1>2, <1>3, <1>4, PTL DEF Spec, AbstractForwarding, Forwarder!Spec

=============================================================================
