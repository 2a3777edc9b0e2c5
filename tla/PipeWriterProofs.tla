-------------------------- MODULE PipeWriterProofs --------------------------
(***************************************************************************)
(* Proofs about class PipeWriter, for buffers and pipes of any size and    *)
(* any number of bytes.                                                    *)
(***************************************************************************)
EXTENDS PipeWriter, FlattenLemmas

Byte == 1..MaxBytes

-----------------------------------------------------------------------------
(* Buffers.                                                                *)

\* The bytes from m to n, counted.
LEMMA BytesType ==
  ASSUME NEW m \in 0..MaxBytes, NEW n \in 0..MaxBytes, m <= n
  PROVE  /\ Bytes(m, n) \in Seq(Byte) /\ Len(Bytes(m, n)) = n - m
         /\ \A i \in 1..(n - m) : Bytes(m, n)[i] = m + i
<1> USE PipeWriterAssumption
<1>1. n - m \in Nat /\ \A i \in 1..(n - m) : m + i \in Byte
  BY DEF Byte
<1> QED BY <1>1 DEF Bytes

\* What is written next continues what was written before.
LEMMA BytesJoin ==
  ASSUME NEW m \in 0..MaxBytes, NEW n \in 0..MaxBytes, m <= n
  PROVE  Bytes(0, m) \o Bytes(m, n) = Bytes(0, n)
<1> USE PipeWriterAssumption
<1> DEFINE s == Bytes(0, m)  t == Bytes(m, n)  u == Bytes(0, n)
<1>1. /\ s \in Seq(Byte) /\ Len(s) = m /\ \A i \in 1..m : s[i] = i
      /\ t \in Seq(Byte) /\ Len(t) = n - m /\ \A i \in 1..(n - m) : t[i] = m + i
      /\ u \in Seq(Byte) /\ Len(u) = n /\ \A i \in 1..n : u[i] = i
  <2>1. 0 \in 0..MaxBytes /\ 0 <= m /\ 0 <= n /\ m - 0 = m /\ n - 0 = n
    OBVIOUS
  <2>2. \A i \in 1..n : 0 + i = i
    OBVIOUS
  <2>3. s \in Seq(Byte) /\ Len(s) = m /\ \A i \in 1..m : s[i] = 0 + i
    BY <2>1, BytesType
  <2>4. t \in Seq(Byte) /\ Len(t) = n - m /\ \A i \in 1..(n - m) : t[i] = m + i
    BY BytesType
  <2>5. u \in Seq(Byte) /\ Len(u) = n /\ \A i \in 1..n : u[i] = 0 + i
    BY <2>1, BytesType
  <2> HIDE DEF s, t, u
  <2> QED BY <2>2, <2>3, <2>4, <2>5
<1> HIDE DEF s, t, u
<1>2. /\ s \o t \in Seq(Byte) /\ Len(s \o t) = n
      /\ \A i \in 1..n : (s \o t)[i] = IF i <= m THEN s[i] ELSE t[i - m]
  <2>1. m + (n - m) = n /\ Len(s) + Len(t) = n BY <1>1
  <2> QED BY <1>1, <2>1
<1>3. ASSUME NEW i \in 1..n PROVE (s \o t)[i] = u[i]
  <2>1. CASE i <= m BY <1>1, <1>2, <2>1
  <2>2. CASE ~(i <= m)
    <3>1. i - m \in 1..(n - m) /\ m + (i - m) = i BY <2>2
    <3> QED BY <1>1, <1>2, <2>2, <3>1
  <2> QED BY <2>1, <2>2
<1> DEFINE v == s \o t
<1>4. v \in Seq(Byte) /\ Len(v) = Len(u) /\ \A i \in 1..Len(v) : v[i] = u[i]
  BY <1>1, <1>2, <1>3
<1> HIDE DEF v
<1>5. v = u
  BY <1>1, <1>4, SeqEqual
<1> QED BY <1>5 DEF s, t, u, v

\* A byte that moves from the head of one sequence to the end of another.
LEMMA MoveHead ==
  ASSUME NEW S, NEW s \in Seq(S), NEW t \in Seq(S), t # <<>>
  PROVE  /\ Append(s, Head(t)) \in Seq(S) /\ Tail(t) \in Seq(S)
         /\ Append(s, Head(t)) \o Tail(t) = s \o t
<1>1. Head(t) \in S /\ Tail(t) \in Seq(S) /\ t = <<Head(t)>> \o Tail(t)
  OBVIOUS
<1>2. Append(s, Head(t)) = s \o <<Head(t)>>
  BY <1>1
<1> DEFINE h == <<Head(t)>>  r == Tail(t)
<1>3. h \in Seq(S) /\ r \in Seq(S)
  BY <1>1
<1> HIDE DEF h, r
<1>4. (s \o h) \o r = s \o (h \o r)
  BY <1>3
<1> QED BY <1>1, <1>2, <1>4 DEF h, r

-----------------------------------------------------------------------------
(* Types.                                                                  *)

\* The types are right initially.
LEMMA TypeInit == Init => TypeOK
<1> SUFFICES ASSUME Init PROVE TypeOK
  OBVIOUS
<1>1. <<>> \in Seq(Byte) /\ <<>> \in Seq(Seq(Byte)) /\ Len(<<>>) = 0
  BY EmptySeq
<1>2. /\ queue \in Seq(Seq(Byte)) /\ buf \in Seq(Byte) /\ pipe \in Seq(Byte)
      /\ received \in Seq(Byte)
  BY <1>1 DEF Init
<1>3. sent \in 0..MaxBytes /\ Len(pipe) <= Capacity
  BY <1>1, PipeWriterAssumption DEF Init
<1>4. /\ owner \in {"idle", "notify", "join", "gone"}
      /\ shouldRun \in BOOLEAN /\ broken \in BOOLEAN /\ writer = "loop"
  BY DEF Init
<1> QED BY <1>2, <1>3, <1>4 DEF TypeOK, Byte

\* Every step keeps the types.
LEMMA TypeNext == TypeOK /\ [Next]_vars => TypeOK'
<1> SUFFICES ASSUME TypeOK, [Next]_vars PROVE TypeOK'
  OBVIOUS
<1> USE PipeWriterAssumption
<1>0. /\ owner \in {"idle", "notify", "join", "gone"} /\ sent \in 0..MaxBytes
      /\ queue \in Queues(Byte) /\ shouldRun \in BOOLEAN
      /\ buf \in Seq(Byte) /\ pipe \in Seq(Byte) /\ Len(pipe) <= Capacity
      /\ received \in Seq(Byte) /\ broken \in BOOLEAN
  BY DEF TypeOK, Queues, Byte
<1>1. /\ owner' \in {"idle", "notify", "join", "gone"} /\ shouldRun' \in BOOLEAN
      /\ broken' \in BOOLEAN
      /\ writer' \in {"loop", "get", "locked", "towait", "waiting", "woken",
                      "write", "writing", "exit"}
  BY DEF TypeOK, vars, threadVars, pipeVars, Next, Write, NotifyAll, Destructor,
         ClearShouldRun, DestructorNotifies, Join, WriterStep, Goto, TestShouldRun, Lock,
         FindEmpty, Wait, WakeUp, Pop, TestRemaining, PutByte, WriteFileReturns,
         SpuriousWakeup, ReadByte, CloseReadEnd
<1>2. /\ sent' \in 0..MaxBytes /\ queue' \in Queues(Byte)
      /\ buf' \in Seq(Byte)
      /\ pipe' \in Seq(Byte) /\ Len(pipe') <= Capacity /\ received' \in Seq(Byte)
  <2>1. CASE UNCHANGED <<sent, queue, buf, pipe, received>>
    BY <1>0, <2>1
  <2>2. ASSUME NEW n \in 1..MaxBuffer, Write(n)
        PROVE  sent' \in 0..MaxBytes /\ queue' \in Queues(Byte)
               /\ UNCHANGED <<buf, pipe, received>>
    <3>1. sent + n \in 0..MaxBytes /\ sent <= sent + n BY <1>0, <2>2 DEF Write
    <3>2. Bytes(sent, sent + n) \in Seq(Byte) BY <1>0, <3>1, BytesType
    <3>3. queue' = Append(queue, Bytes(sent, sent + n)) /\ sent' = sent + n
      BY <2>2 DEF Write
    <3>4. queue' \in Queues(Byte)
      BY <1>0, <3>2, <3>3, AppendProperties DEF Queues
    <3> QED BY <2>2, <3>1, <3>3, <3>4 DEF Write, pipeVars
  <2>3. CASE Pop
    <3>1. Head(queue) \in Seq(Byte) /\ Tail(queue) \in Queues(Byte)
      BY <1>0, <2>3, HeadTailProperties DEF Pop, Queues
    <3> QED BY <1>0, <2>3, <3>1 DEF Pop, pipeVars
  <2>4. CASE TestRemaining
    <3>1. buf' = buf \/ buf' = <<>> BY <2>4 DEF TestRemaining
    <3>2. UNCHANGED <<sent, queue, pipe, received>> BY <2>4 DEF TestRemaining, pipeVars
    <3>3. buf' \in Seq(Byte) BY <1>0, <3>1, EmptySeq
    <3> QED BY <1>0, <3>2, <3>3
  <2>5. CASE PutByte
    <3>1. Append(pipe, Head(buf)) \in Seq(Byte) /\ Tail(buf) \in Seq(Byte)
          /\ Len(Append(pipe, Head(buf))) = Len(pipe) + 1 /\ Len(pipe) \in Nat
      BY <1>0, <2>5, HeadTailProperties DEF PutByte
    <3> QED BY <1>0, <2>5, <3>1 DEF PutByte
  <2>6. CASE ReadByte
    <3>1. Append(received, Head(pipe)) \in Seq(Byte) /\ Tail(pipe) \in Seq(Byte)
          /\ Len(Tail(pipe)) = Len(pipe) - 1 /\ Len(pipe) \in Nat
      BY <1>0, <2>6, HeadTailProperties DEF ReadByte
    <3> QED BY <1>0, <2>6, <3>1 DEF ReadByte, threadVars
  <2> QED
    BY <1>0, <2>1, <2>2, <2>3, <2>4, <2>5, <2>6
    DEF vars, threadVars, pipeVars, Next, Destructor, ClearShouldRun, DestructorNotifies,
        Join, WriterStep, TestShouldRun, Lock, FindEmpty, Wait, WakeUp, WriteFileReturns,
        SpuriousWakeup, CloseReadEnd
<1> QED BY <1>1, <1>2 DEF TypeOK, Queues, Byte

-----------------------------------------------------------------------------
(* Where the bytes are, and where the owner and the thread are.            *)

\* The thread has dropped what it had, and takes no other buffer.
Dropped == ~shouldRun /\ writer \in {"loop", "exit"}

Ahead == (received \o pipe) \o buf

\* Nothing is dropped but by a thread that is about to end.
StreamInv == ~Dropped => Ahead \o FlattenSeq(queue) = Bytes(0, sent)

\* What is ahead of the queue was written first.
PrefixInv == \E rest \in Seq(Byte) : Ahead \o rest = Bytes(0, sent)

\* The thread has a buffer only while it writes.
HandInv == writer \notin {"write", "writing"} => buf = <<>>

\* The thread ends only in a destructor, which waits for it.
OwnerInv ==
  /\ shouldRun <=> owner = "idle"
  /\ writer = "exit" => ~shouldRun
  /\ owner = "gone" => writer = "exit"

PipeInv == TypeOK /\ WaitsOnlyWhenEmpty /\ OwnerInv /\ HandInv /\ StreamInv /\ PrefixInv

\* The inductive invariant holds initially.
LEMMA PipeInit == Init => PipeInv
<1> SUFFICES ASSUME Init PROVE PipeInv
  OBVIOUS
<1>1. TypeOK BY TypeInit
<1>2. WaitsOnlyWhenEmpty /\ OwnerInv /\ HandInv
  BY DEF Init, WaitsOnlyWhenEmpty, OwnerInv, HandInv
<1>3. Ahead = <<>> /\ Bytes(0, sent) = <<>> /\ FlattenSeq(queue) = <<>>
  BY FlattenEmpty DEF Init, Ahead, Bytes
<1>4. <<>> \in Seq(Byte) /\ <<>> \o <<>> = <<>>
  OBVIOUS
<1> QED BY <1>1, <1>2, <1>3, <1>4 DEF PipeInv, StreamInv, PrefixInv

\* The thread never waits for a notification that was given before it waited:
\* from its test of the queue to its wait it holds the mutex Write needs.
LEMMA WaitsNext == WaitsOnlyWhenEmpty /\ [Next]_vars => WaitsOnlyWhenEmpty'
BY DEF WaitsOnlyWhenEmpty, HoldsMutex, vars, threadVars, pipeVars, Next, Write, NotifyAll,
       Destructor, ClearShouldRun, DestructorNotifies, Join, WriterStep, Goto,
       TestShouldRun, Lock, FindEmpty, Wait, WakeUp, Pop, TestRemaining, PutByte,
       WriteFileReturns, SpuriousWakeup, ReadByte, CloseReadEnd

\* Every step keeps the owner's position and the thread's in agreement.
LEMMA OwnerNext == TypeOK /\ OwnerInv /\ [Next]_vars => OwnerInv'
BY DEF TypeOK, OwnerInv, vars, threadVars, pipeVars, Next, Write, NotifyAll,
       Destructor, ClearShouldRun, DestructorNotifies, Join, WriterStep, Goto,
       TestShouldRun, Lock, FindEmpty, Wait, WakeUp, Pop, TestRemaining, PutByte,
       WriteFileReturns, SpuriousWakeup, ReadByte, CloseReadEnd

\* Every step keeps the hand of a thread that does not write empty.
LEMMA HandNext == HandInv /\ [Next]_vars => HandInv'
BY DEF HandInv, vars, threadVars, pipeVars, Next, Write, NotifyAll,
       Destructor, ClearShouldRun, DestructorNotifies, Join, WriterStep, Goto,
       TestShouldRun, Lock, FindEmpty, Wait, WakeUp, Pop, TestRemaining, PutByte,
       WriteFileReturns, SpuriousWakeup, ReadByte, CloseReadEnd

-----------------------------------------------------------------------------
\* What each step does with the bytes.  Whatever a byte passes, all of them
\* together stay in order.
LEMMA StreamNext ==
  PipeInv /\ [Next]_vars => StreamInv' /\ PrefixInv'
<1> SUFFICES ASSUME PipeInv, [Next]_vars PROVE StreamInv' /\ PrefixInv'
  OBVIOUS
<1> USE PipeWriterAssumption
<1> DEFINE rest == FlattenSeq(queue)
<1>0. /\ sent \in 0..MaxBytes /\ queue \in Queues(Byte)
      /\ buf \in Seq(Byte) /\ pipe \in Seq(Byte) /\ received \in Seq(Byte)
  BY DEF PipeInv, TypeOK, Queues, Byte
<1>1. rest \in Seq(Byte) /\ received \o pipe \in Seq(Byte) /\ Ahead \in Seq(Byte)
  BY <1>0, FlattenType, ConcatProperties DEF Ahead
<1>2. ASSUME UNCHANGED <<sent, queue, received, pipe, buf>>, Dropped => Dropped'
      PROVE  StreamInv' /\ PrefixInv'
  BY <1>2 DEF PipeInv, StreamInv, PrefixInv, Ahead
<1>3. ASSUME NEW n \in 1..MaxBuffer, Write(n) PROVE StreamInv' /\ PrefixInv'
  <2> DEFINE new == Bytes(sent, sent + n)
  <2>1. sent + n \in 0..MaxBytes /\ sent <= sent + n BY <1>0, <1>3 DEF Write
  <2>2. new \in Seq(Byte) /\ Bytes(0, sent) \o new = Bytes(0, sent + n)
    BY <1>0, <2>1, BytesType, BytesJoin
  <2>3. ~Dropped BY <1>3 DEF Write, Dropped, PipeInv, OwnerInv
  <2>4. sent' = sent + n /\ queue' = Append(queue, new) /\ Ahead' = Ahead
    BY <1>3 DEF Write, Ahead, pipeVars
  <2>5. Bytes(0, sent)' = Bytes(0, sent + n) BY <2>4 DEF Bytes
  <2> HIDE DEF new
  <2>6. FlattenSeq(queue') = rest \o new BY <1>0, <2>2, <2>4, FlattenAppend
  <2> HIDE DEF rest
  <2>7. Ahead \o (rest \o new) = (Ahead \o rest) \o new
    <3>1. Ahead \in Seq(Byte) /\ rest \in Seq(Byte) /\ new \in Seq(Byte) BY <1>1, <2>2
    <3> QED BY <3>1
  <2>8. Ahead \o rest = Bytes(0, sent) BY <2>3 DEF PipeInv, StreamInv, rest
  <2>9. Ahead' \o FlattenSeq(queue') = Bytes(0, sent)'
    BY <2>2, <2>4, <2>5, <2>6, <2>7, <2>8
  <2>10. rest \o new \in Seq(Byte) BY <1>1, <2>2
  <2>11. \E r \in Seq(Byte) : Ahead' \o r = Bytes(0, sent)'
    BY <2>6, <2>9, <2>10
  <2> QED BY <2>9, <2>11 DEF StreamInv, PrefixInv
<1>4. CASE Pop
  <2> DEFINE h == Head(queue)  t == FlattenSeq(Tail(queue))
  <2>1. ~Dropped /\ buf = <<>> BY <1>4 DEF Pop, Goto, Dropped, PipeInv, HandInv
  <2>2. h \in Seq(Byte) /\ Tail(queue) \in Queues(Byte)
    BY <1>0, <1>4, HeadTailProperties DEF Pop, Queues
  <2>3. t \in Seq(Byte) BY <2>2, FlattenType
  <2>4. rest = h \o t BY <1>0, <1>4, FlattenHead DEF Pop
  <2>5. /\ UNCHANGED <<received, pipe, sent>>
        /\ buf' = h /\ FlattenSeq(queue') = t
    BY <1>4 DEF Pop, pipeVars
  <2>6. Ahead = received \o pipe /\ Ahead' = (received \o pipe) \o h
    BY <1>1, <2>1, <2>5, ConcatEmptySeq DEF Ahead
  <2>7. Ahead \o rest = Bytes(0, sent) BY <2>1 DEF PipeInv, StreamInv
  <2>8. Bytes(0, sent)' = Bytes(0, sent) BY <2>5 DEF Bytes
  <2> HIDE DEF h, t, rest
  <2>9. Ahead \o (h \o t) = (Ahead \o h) \o t BY <1>1, <2>2, <2>3
  <2>10. Ahead' \o t = Bytes(0, sent)' BY <2>4, <2>6, <2>7, <2>8, <2>9
  <2> QED BY <2>3, <2>5, <2>10 DEF StreamInv, PrefixInv
<1>5. CASE TestRemaining
  <2>0. UNCHANGED <<sent, queue, received, pipe, shouldRun>>
    BY <1>5 DEF TestRemaining, pipeVars
  <2>1. CASE buf' = buf
    <3>1. writer = "write" BY <1>5 DEF TestRemaining, Goto
    <3> QED BY <1>2, <2>0, <2>1, <3>1 DEF Dropped
  <2>2. CASE buf' # buf
    <3>1. buf' = <<>> /\ buf # <<>> /\ ~shouldRun /\ writer' = "loop"
      BY <1>5, <2>2 DEF TestRemaining, Goto
    <3>2. Dropped' BY <2>0, <3>1 DEF Dropped
    <3>3. PICK r \in Seq(Byte) : Ahead \o r = Bytes(0, sent) BY DEF PipeInv, PrefixInv
    <3> DEFINE a == received \o pipe
    <3>4. Ahead = a \o buf /\ Ahead' = a BY <1>1, <2>0, <3>1, ConcatEmptySeq DEF Ahead
    <3>5. a \in Seq(Byte) BY <1>1
    <3> HIDE DEF a
    <3>6. (a \o buf) \o r = a \o (buf \o r) /\ buf \o r \in Seq(Byte)
      <4>1. a \in Seq(Byte) /\ buf \in Seq(Byte) /\ r \in Seq(Byte) BY <1>0, <3>5
      <4> QED BY <4>1
    <3>7. Bytes(0, sent)' = Bytes(0, sent) BY <2>0 DEF Bytes
    <3>8. Ahead' \o (buf \o r) = Bytes(0, sent)' BY <3>3, <3>4, <3>6, <3>7
    <3> QED BY <3>2, <3>6, <3>8 DEF StreamInv, PrefixInv
  <2> QED BY <2>1, <2>2
<1>6. ASSUME Ahead' = Ahead, UNCHANGED <<sent, queue, shouldRun, writer>>
      PROVE  StreamInv' /\ PrefixInv'
  <2>1. Bytes(0, sent)' = Bytes(0, sent) BY <1>6 DEF Bytes
  <2> QED BY <1>6, <2>1 DEF PipeInv, StreamInv, PrefixInv, Dropped
<1>7. CASE PutByte
  <2>1. pipe' = Append(pipe, Head(buf)) /\ buf' = Tail(buf) /\ received' = received
        /\ buf # <<>> /\ UNCHANGED <<sent, queue, shouldRun, writer>>
    BY <1>7 DEF PutByte
  <2>2. /\ pipe' \in Seq(Byte) /\ buf' \in Seq(Byte) /\ pipe' \o buf' = pipe \o buf
    BY <1>0, <2>1, MoveHead
  <2> DEFINE p == pipe'  b == buf'
  <2>3. Ahead' = (received \o p) \o b BY <2>1 DEF Ahead
  <2>4. p \in Seq(Byte) /\ b \in Seq(Byte) /\ p \o b = pipe \o buf BY <2>2
  <2> HIDE DEF p, b
  <2>5. (received \o p) \o b = received \o (p \o b)
    <3>1. p \in Seq(Byte) /\ b \in Seq(Byte) /\ received \in Seq(Byte) BY <1>0, <2>4
    <3> QED BY <3>1
  <2>6. (received \o pipe) \o buf = received \o (pipe \o buf) BY <1>0
  <2> QED BY <1>6, <2>1, <2>3, <2>4, <2>5, <2>6 DEF Ahead
<1>8. CASE ReadByte
  <2>1. received' = Append(received, Head(pipe)) /\ pipe' = Tail(pipe) /\ buf' = buf
        /\ pipe # <<>> /\ UNCHANGED <<sent, queue, shouldRun, writer>>
    BY <1>8 DEF ReadByte, threadVars
  <2>2. received' \o pipe' = received \o pipe
    BY <1>0, <2>1, MoveHead
  <2>3. Ahead' = Ahead BY <2>1, <2>2 DEF Ahead
  <2> QED BY <1>6, <2>1, <2>3
<1>9. ASSUME UNCHANGED vars \/ ClearShouldRun \/ DestructorNotifies \/ Join \/ TestShouldRun
             \/ Lock \/ FindEmpty \/ Wait \/ WakeUp \/ WriteFileReturns \/ SpuriousWakeup
             \/ CloseReadEnd
      PROVE  StreamInv' /\ PrefixInv'
  <2>1. UNCHANGED <<sent, queue, received, pipe, buf>>
    BY <1>9 DEF vars, threadVars, pipeVars, ClearShouldRun, DestructorNotifies, Join,
         TestShouldRun, Lock, FindEmpty, Wait, WakeUp, WriteFileReturns, SpuriousWakeup,
         CloseReadEnd
  <2>2. Dropped => Dropped'
    BY <1>9 DEF Dropped, vars, threadVars, pipeVars, ClearShouldRun, DestructorNotifies, Join,
         NotifyAll, Goto, TestShouldRun, Lock, FindEmpty, Wait, WakeUp, WriteFileReturns,
         SpuriousWakeup, CloseReadEnd
  <2> QED BY <1>2, <2>1, <2>2
<1> QED
  BY <1>3, <1>4, <1>5, <1>7, <1>8, <1>9 DEF Next, Destructor, WriterStep

\* Every step keeps the inductive invariant.
LEMMA PipeNext == PipeInv /\ [Next]_vars => PipeInv'
BY TypeNext, WaitsNext, OwnerNext, HandNext, StreamNext DEF PipeInv

\* Every reachable state satisfies the inductive invariant.
LEMMA PipeInvariant == Spec => []PipeInv
BY PipeInit, PipeNext, PTL DEF Spec

\* Every variable keeps its type, and the pipe its capacity.
THEOREM TypeCorrect == Spec => []TypeOK
BY PipeInvariant, PTL DEF PipeInv

\* The write thread never waits un-notified while there is something to write:
\* GetNextBuffer tests the queue and waits under one lock, which Write takes.
THEOREM WaitsCorrect == Spec => []WaitsOnlyWhenEmpty
BY PipeInvariant, PTL DEF PipeInv

\* Between Write and the reader nothing is lost, duplicated or reordered, and what
\* a destructor drops is a part from some buffer on.
THEOREM OrderCorrect == Spec => []InOrder
<1> DEFINE rest == FlattenSeq(queue)
<1>1. PipeInv => InOrder
  <2> SUFFICES ASSUME PipeInv PROVE InOrder
    OBVIOUS
  <2>0. /\ sent \in 0..MaxBytes /\ queue \in Queues(Byte) /\ shouldRun \in BOOLEAN
        /\ buf \in Seq(Byte) /\ pipe \in Seq(Byte) /\ received \in Seq(Byte)
    BY DEF PipeInv, TypeOK, Queues, Byte
  <2>1. rest \in Seq(Byte) /\ received \o pipe \in Seq(Byte) /\ Ahead \in Seq(Byte)
    BY <2>0, FlattenType, ConcatProperties DEF Ahead
  <2>2. CASE shouldRun
    <3>1. Ahead \o rest = Bytes(0, sent) BY <2>2 DEF PipeInv, StreamInv, Dropped
    <3> HIDE DEF rest
    <3> DEFINE a == received \o pipe
    <3>2. a \in Seq(Byte) /\ Ahead = a \o buf BY <2>1 DEF Ahead
    <3> HIDE DEF a
    <3>3. (a \o buf) \o rest = a \o (buf \o rest) BY <2>0, <2>1, <3>2
    <3>4. a \o (buf \o rest) = Bytes(0, sent) BY <3>1, <3>2, <3>3
    <3> QED BY <2>2, <3>4 DEF InOrder, a, rest
  <2>3. CASE ~shouldRun
    <3>1. PICK r \in Seq(Byte) : Ahead \o r = Bytes(0, sent) BY DEF PipeInv, PrefixInv
    <3>2. IsPrefix(Ahead, Ahead \o r) BY <2>1 DEF IsPrefix
    <3> QED BY <2>3, <3>1, <3>2 DEF InOrder, Ahead
  <2> QED BY <2>0, <2>2, <2>3
<1> QED BY <1>1, PipeInvariant, PTL

-----------------------------------------------------------------------------
(* The refinement of Channel.                                              *)

\* The channel a state stands for.
State == IF shouldRun THEN "open" ELSE IF owner = "gone" THEN "closed" ELSE "closing"
Map == [accepted |-> Bytes(0, sent),
        out      |-> received \o pipe,
        state    |-> IF shouldRun THEN "open"
                     ELSE IF owner = "gone" THEN "closed" ELSE "closing"]

Parts(a, o, s) == [accepted |-> a, out |-> o, state |-> s]

\* A channel, taken apart and changed part by part.
LEMMA PartsChange ==
  ASSUME NEW a, NEW o, NEW s, NEW x
  PROVE  /\ Parts(a, o, s).accepted = a /\ Parts(a, o, s).out = o
         /\ Parts(a, o, s).state = s
         /\ [Parts(a, o, s) EXCEPT !.accepted = x] = Parts(x, o, s)
         /\ [Parts(a, o, s) EXCEPT !.out = x] = Parts(a, x, s)
         /\ [Parts(a, o, s) EXCEPT !.state = x] = Parts(a, o, x)
BY DEF Parts

\* The channel before and after a step, by its parts.
LEMMA MapParts == /\ Map = Parts(Bytes(0, sent), received \o pipe, State)
                  /\ Map' = Parts(Bytes(0, sent)', received' \o pipe', State')
BY DEF Map, Parts, State

\* The initial states are initial states of the channel.
LEMMA ChanInit == Init => Chan!Init
<1> SUFFICES ASSUME Init PROVE Chan!Init
  OBVIOUS
<1>1. Bytes(0, sent) = <<>> /\ received \o pipe = <<>>
  BY DEF Init, Bytes
<1> QED BY <1>1 DEF Init, Chan!Init, Chan!Fresh

\* Every step is a step of the channel or leaves it unchanged.
LEMMA ChanNext == PipeInv /\ [Next]_vars => Chan!Next \/ UNCHANGED Map
<1> SUFFICES ASSUME PipeInv, [Next]_vars PROVE Chan!Next \/ UNCHANGED Map
  OBVIOUS
<1> USE PipeWriterAssumption
<1>0. /\ sent \in 0..MaxBytes /\ shouldRun \in BOOLEAN
      /\ buf \in Seq(Byte) /\ pipe \in Seq(Byte) /\ received \in Seq(Byte)
  BY DEF PipeInv, TypeOK, Byte
<1>1. ASSUME UNCHANGED <<sent, received, pipe, shouldRun>>, (owner = "gone") <=> (owner' = "gone")
      PROVE  UNCHANGED Map
  BY <1>1 DEF Bytes, Map
<1>2. ASSUME NEW n \in 1..MaxBuffer, Write(n) PROVE Chan!Next
  <2> DEFINE new == Bytes(sent, sent + n)
  <2>1. /\ sent \in 0..MaxBytes /\ sent + n \in 0..MaxBytes /\ sent <= sent + n
        /\ sent' = sent + n
    BY <1>0, <1>2 DEF Write
  <2>2. Bytes(0, sent') = Bytes(0, sent) \o new BY <2>1, BytesJoin
  <2>3. shouldRun /\ UNCHANGED <<shouldRun, received, pipe, owner>>
    BY <1>2 DEF Write, pipeVars, PipeInv, OwnerInv
  <2>4. new \in {Bytes(m, k) : m, k \in 0..MaxBytes} BY <2>1
  <2> HIDE DEF new
  <2>5. Bytes(0, sent)' = Bytes(0, sent') /\ received' \o pipe' = received \o pipe
    BY <2>3 DEF Bytes
  <2>6. Map' = [Map EXCEPT !.accepted = @ \o new] /\ Map.state = "open"
    <3>1. State = "open" /\ State' = "open" BY <2>3 DEF State
    <3>2. Bytes(0, sent)' = Bytes(0, sent) \o new BY <2>2, <2>5
    <3>3. Map.accepted = Bytes(0, sent) /\ Map.state = "open"
      BY <3>1, MapParts, PartsChange
    <3> DEFINE longer == Map.accepted \o new
    <3>4. longer = Bytes(0, sent)' BY <3>2, <3>3
    <3> HIDE DEF longer
    <3>5. Map' = [Map EXCEPT !.accepted = longer]
      BY <2>5, <3>1, <3>4, MapParts, PartsChange
    <3> QED BY <3>3, <3>5 DEF longer
  <2>7. Chan!Accept(new) BY <2>6 DEF Chan!Accept, Chan!Accepting, Map
  <2> QED BY <2>4, <2>7 DEF Chan!Next
<1>3. CASE ClearShouldRun
  <2>1. /\ shouldRun /\ ~shouldRun' /\ owner' # "gone"
        /\ UNCHANGED <<sent, received, pipe>>
    BY <1>3 DEF ClearShouldRun, pipeVars, PipeInv, OwnerInv
  <2>2. Bytes(0, sent)' = Bytes(0, sent) BY <2>1 DEF Bytes
  <2>3. received' \o pipe' = received \o pipe BY <2>1
  <2>4. Map' = [Map EXCEPT !.state = "closing"] /\ Map.state = "open"
    <3>1. State = "open" /\ State' = "closing" BY <2>1 DEF State
    <3> QED BY <2>2, <2>3, <3>1, MapParts, PartsChange
  <2>5. Chan!Close BY <2>4 DEF Chan!Close, Map
  <2> QED BY <2>5 DEF Chan!Next
<1>4. CASE Join
  <2>1. /\ ~shouldRun /\ ~shouldRun' /\ owner # "gone" /\ owner' = "gone"
        /\ UNCHANGED <<sent, received, pipe>>
    BY <1>4 DEF Join, pipeVars, PipeInv, OwnerInv
  <2>2. Bytes(0, sent)' = Bytes(0, sent) BY <2>1 DEF Bytes
  <2>3. received' \o pipe' = received \o pipe BY <2>1
  <2>4. Map' = [Map EXCEPT !.state = "closed"] /\ Map.state = "closing"
    <3>1. State = "closing" /\ State' = "closed" BY <2>1 DEF State
    <3> QED BY <2>2, <2>3, <3>1, MapParts, PartsChange
  <2>5. Chan!Closed BY <2>4 DEF Chan!Closed, Map
  <2> QED BY <2>5 DEF Chan!Next
<1>5. CASE PutByte
  <2>1. /\ pipe' = Append(pipe, Head(buf)) /\ UNCHANGED <<sent, owner, shouldRun, received>>
        /\ buf # <<>> /\ writer = "writing"
    BY <1>5 DEF PutByte
  <2>2. State # "closed" /\ State' = State BY <2>1 DEF State, PipeInv, OwnerInv
  <2>3. PICK r \in Seq(Byte) : Ahead \o r = Bytes(0, sent) BY DEF PipeInv, PrefixInv
  <2> DEFINE out == received \o pipe  all == Bytes(0, sent)
  <2>4. out \in Seq(Byte) /\ Ahead = out \o buf BY <1>0 DEF Ahead
  <2>5. Bytes(0, sent)' = all BY <2>1 DEF Bytes
  <2>6. Head(buf) \in Byte /\ Head(buf) = buf[1] /\ Len(buf) \in Nat \ {0} BY <1>0, <2>1
  <2>7. received' \o pipe' = Append(out, Head(buf))
    <3>1. Head(buf) \in Byte /\ received \in Seq(Byte) /\ pipe \in Seq(Byte) BY <1>0, <2>6
    <3>2. received \o Append(pipe, Head(buf)) = Append(received \o pipe, Head(buf)) BY <3>1
    <3> QED BY <2>1, <3>2
  <2> HIDE DEF out
  <2>8. Len(out) < Len(all) /\ all[Len(out) + 1] = Head(buf)
    <3>1. all = (out \o buf) \o r BY <2>3, <2>4 DEF all
    <3> HIDE DEF all
    <3>2. /\ out \o buf \in Seq(Byte) /\ Len(out) \in Nat /\ Len(r) \in Nat
          /\ Len(out \o buf) = Len(out) + Len(buf)
          /\ (out \o buf)[Len(out) + 1] = buf[1]
      BY <2>4, <2>6, <1>0
    <3> QED BY <2>3, <2>6, <3>1, <3>2, <1>0
  <2> HIDE DEF all
  <2>9. /\ Map' = [Map EXCEPT !.out = Append(@, Map.accepted[Len(@) + 1])]
        /\ Map.state # "closed" /\ Len(Map.out) < Len(Map.accepted)
    <3>1. Map = Parts(all, out, State)
      BY MapParts DEF out, all
    <3>2. Map.accepted = all /\ Map.out = out /\ Map.state = State
      BY <3>1, PartsChange
    <3> DEFINE longer == Append(Map.out, Map.accepted[Len(Map.out) + 1])
    <3>3. longer = Append(out, Head(buf)) BY <2>8, <3>2
    <3> HIDE DEF longer
    <3>4. Map' = Parts(all, longer, State)
      BY <2>2, <2>5, <2>7, <3>3, MapParts DEF all
    <3>5. Map' = [Map EXCEPT !.out = longer] BY <3>1, <3>4, PartsChange
    <3> QED BY <2>2, <2>8, <3>2, <3>5 DEF longer
  <2>10. Chan!Deliver BY <2>9 DEF Chan!Deliver, Chan!Owes, Chan!Delivering, Map
  <2> QED BY <2>10 DEF Chan!Next
<1>6. CASE ReadByte
  <2>1. received' = Append(received, Head(pipe)) /\ pipe' = Tail(pipe)
        /\ pipe # <<>> /\ UNCHANGED <<sent, owner, shouldRun>>
    BY <1>6 DEF ReadByte, threadVars
  <2>2. received' \o pipe' = received \o pipe
    BY <1>0, <2>1, MoveHead
  <2> QED BY <2>1, <2>2 DEF Map, Bytes
<1>7. ASSUME UNCHANGED vars \/ DestructorNotifies \/ TestShouldRun \/ Lock \/ FindEmpty
             \/ Wait \/ WakeUp \/ Pop \/ TestRemaining \/ WriteFileReturns
             \/ SpuriousWakeup \/ CloseReadEnd
      PROVE  UNCHANGED Map
  BY <1>1, <1>7 DEF vars, threadVars, pipeVars, DestructorNotifies, TestShouldRun, Lock, FindEmpty,
     Wait, WakeUp, Pop, TestRemaining, WriteFileReturns, SpuriousWakeup, CloseReadEnd
<1> QED
  BY <1>2, <1>3, <1>4, <1>5, <1>6, <1>7 DEF Next, Destructor, WriterStep

\* The class with its thread, queue and lock implements the channel: what is
\* handed to Write comes out byte by byte and in order, the destructor lets at
\* most some more of it out, and nothing comes out once it has returned.
THEOREM ChannelImplemented == Spec => ImplementsChannel
BY ChanInit, ChanNext, PipeInvariant, PTL DEF Spec, ImplementsChannel, Chan!Spec, Map

=============================================================================
