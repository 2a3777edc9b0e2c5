------------------------- MODULE RedirectionProofs --------------------------
(***************************************************************************)
(* Proofs about the way of data between OnConsole and its process, for     *)
(* buffers of any size and any amount of input and output, whenever the    *)
(* process ends, the input ends or the server fails.                       *)
(***************************************************************************)
EXTENDS Redirection, FlattenLemmas

Item   == 1..MaxInput
States == {"open", "closing", "closed"}

-----------------------------------------------------------------------------
(* Sequences.                                                              *)

\* An element appended to the second of two sequences is appended to both.
LEMMA ConcatAppend ==
  ASSUME NEW S, NEW s \in Seq(S), NEW t \in Seq(S), NEW e \in S
  PROVE  s \o Append(t, e) = Append(s \o t, e)
OBVIOUS

\* Cut in two, a sequence is what was cut off and the rest.
LEMMA CutSeq ==
  ASSUME NEW S, NEW s \in Seq(S), NEW n \in 0..Len(s)
  PROVE  /\ SubSeq(s, 1, n) \in Seq(S) /\ Len(SubSeq(s, 1, n)) = n
         /\ SubSeq(s, n + 1, Len(s)) \in Seq(S)
         /\ SubSeq(s, 1, n) \o SubSeq(s, n + 1, Len(s)) = s
<1>0. Len(s) \in Nat /\ n \in Nat /\ n <= Len(s) /\ \A i \in 1..Len(s) : s[i] \in S
  OBVIOUS
<1>1. SubSeq(s, 1, n) \in Seq(S) /\ Len(SubSeq(s, 1, n)) = n
  BY <1>0, SubSeqProperties
<1>2. SubSeq(s, n + 1, Len(s)) \in Seq(S)
  BY <1>0, SubSeqProperties
<1>3. SubSeq(s, 1, n) \o SubSeq(s, n + 1, Len(s)) = SubSeq(s, 1, Len(s))
  <2>1. 1 \in 1..Len(s) + 1 /\ n \in 1 - 1..Len(s) /\ Len(s) \in n..Len(s)
    BY <1>0
  <2> QED BY <2>1, ConcatAdjacentSubSeq
<1>4. SubSeq(s, 1, Len(s)) = s
  BY SubSeqFull
<1> QED BY <1>1, <1>2, <1>3, <1>4

\* The items up to n and the next one.
LEMMA NumberedNext ==
  ASSUME NEW n \in Nat
  PROVE  Numbered(n) \in Seq(Nat) /\ Append(Numbered(n), n + 1) = Numbered(n + 1)
<1> DEFINE s == Numbered(n)  t == Numbered(n + 1)  u == Append(s, n + 1)
<1>1. /\ s \in Seq(Nat) /\ Len(s) = n /\ \A i \in 1..n : s[i] = i
      /\ t \in Seq(Nat) /\ Len(t) = n + 1 /\ \A i \in 1..(n + 1) : t[i] = i
  BY DEF Numbered
<1> HIDE DEF s, t
<1>2. u \in Seq(Nat) /\ Len(u) = n + 1 /\ \A i \in 1..(n + 1) : u[i] = i
  BY <1>1
<1> HIDE DEF u
<1>3. u = t
  BY <1>1, <1>2, SeqEqual
<1> QED BY <1>1, <1>3 DEF s, t, u

-----------------------------------------------------------------------------
(* The three channels.                                                     *)

ChanOK ==
  /\ chan \in [Streams -> [accepted : Seq(Nat), out : Seq(Nat), state : States]]
  /\ chan["stdin"].accepted \in Seq(Item)

SameAccepted == \A s \in Streams : chan'[s].accepted = chan[s].accepted

\* A writer that accepts data changes its own channel only.
LEMMA AcceptingSteps ==
  ASSUME ChanOK, NEW s \in Streams, NEW data \in Seq(Nat),
         s = "stdin" => data \in Seq(Item),
         chan' = [chan EXCEPT ![s] = Writer(s)!Accepting(@, data)]
  PROVE  /\ ChanOK'
         /\ chan'[s].accepted = chan[s].accepted \o data
         /\ \A t \in Streams \ {s} : chan'[t] = chan[t]
<1> DEFINE all == chan[s].accepted \o data
<1>1. /\ chan[s] \in [accepted : Seq(Nat), out : Seq(Nat), state : States]
      /\ chan[s].accepted \in Seq(Nat) /\ chan["stdin"].accepted \in Seq(Item)
  BY DEF ChanOK
<1>2. all \in Seq(Nat) /\ (s = "stdin" => all \in Seq(Item))
  BY <1>1
<1>3. chan' = [chan EXCEPT ![s] = [chan[s] EXCEPT !.accepted = all]]
  BY DEF Writer!Accepting
<1> HIDE DEF all
<1>4. /\ chan' \in [Streams -> [accepted : Seq(Nat), out : Seq(Nat), state : States]]
      /\ chan'[s].accepted = all
      /\ \A t \in Streams \ {s} : chan'[t] = chan[t]
  BY <1>1, <1>2, <1>3 DEF ChanOK
<1>5. "stdin" \in Streams
  BY DEF Streams
<1> QED BY <1>1, <1>2, <1>4, <1>5 DEF ChanOK, all

\* A write thread that delivers changes nothing of what was accepted.
LEMMA DeliveringSteps ==
  ASSUME ChanOK, NEW s \in Streams, Writer(s)!Owes(chan[s]),
         chan' = [chan EXCEPT ![s] = Writer(s)!Delivering(@)]
  PROVE  ChanOK' /\ SameAccepted
<1> DEFINE next == chan[s].accepted[Len(chan[s].out) + 1]
           longer == Append(chan[s].out, next)
<1>1. /\ chan[s] \in [accepted : Seq(Nat), out : Seq(Nat), state : States]
      /\ chan[s].accepted \in Seq(Nat) /\ chan[s].out \in Seq(Nat)
  BY DEF ChanOK
<1>2. Len(chan[s].out) < Len(chan[s].accepted)
  BY DEF Writer!Owes
<1>3. next \in Nat
  BY <1>1, <1>2
<1> HIDE DEF next
<1>4. longer \in Seq(Nat)
  BY <1>1, <1>3
<1>5. chan' = [chan EXCEPT ![s] = [chan[s] EXCEPT !.out = longer]]
  BY DEF Writer!Delivering, next
<1> HIDE DEF longer
<1>6. /\ chan' \in [Streams -> [accepted : Seq(Nat), out : Seq(Nat), state : States]]
      /\ SameAccepted
  <2> DEFINE c == [chan[s] EXCEPT !.out = longer]
  <2>1. c \in [accepted : Seq(Nat), out : Seq(Nat), state : States]
        /\ c.accepted = chan[s].accepted
    BY <1>1, <1>4
  <2>2. chan' = [chan EXCEPT ![s] = c]
    BY <1>5
  <2> HIDE DEF c
  <2> QED BY <2>1, <2>2 DEF ChanOK, SameAccepted
<1>7. "stdin" \in Streams
  BY DEF Streams
<1> QED BY <1>6, <1>7 DEF ChanOK, SameAccepted

\* A channel that closes keeps what was accepted.
LEMMA ClosingSteps ==
  ASSUME ChanOK, NEW s \in Streams, NEW x \in States,
         chan' = [chan EXCEPT ![s].state = x]
  PROVE  ChanOK' /\ SameAccepted
<1>1. /\ chan' \in [Streams -> [accepted : Seq(Nat), out : Seq(Nat), state : States]]
      /\ SameAccepted
  BY DEF ChanOK, SameAccepted
<1>2. "stdin" \in Streams
  BY DEF Streams
<1> QED BY <1>1, <1>2 DEF ChanOK, SameAccepted

-----------------------------------------------------------------------------
(* Types.                                                                  *)

OutputOK ==
  /\ outPipe \in [Outputs -> Seq(Nat)]
  /\ written \in [Outputs -> Nat] /\ written["stdout"] + written["stderr"] <= MaxOutput

FlagsOK ==
  /\ kind \in {"console", "pipe", "file"} /\ ended \in BOOLEAN
  /\ reader \in ReaderPositions /\ shouldRun \in BOOLEAN
  /\ orphaned \subseteq {"heap", "mutex"}
  /\ client \in Loop \cup Ending
  /\ hadData \in BOOLEAN /\ terminated \in BOOLEAN /\ comFailed \in BOOLEAN
  /\ warning \in {<<>>, <<Warning>>}
  /\ hung \subseteq Outputs /\ inWrite \subseteq Outputs
  /\ running \in BOOLEAN

\* The thread has a buffer, and not an empty one, only while it hands it over.
InputOK ==
  /\ supplied \in 0..MaxInput
  /\ unread \in Seq(Item) /\ readBuf \in Seq(Item)
  /\ inQueue \in Seq(Seq(Item) \ {<<>>})
  /\ reader = "put" => readBuf # <<>>
  /\ reader \notin {"put", "killed"} => readBuf = <<>>

LostOK == lost \in [Streams -> Seq(Nat)] /\ lost["stdin"] \in Seq(Item)

RedirectionType == FlagsOK /\ InputOK /\ ChanOK /\ OutputOK /\ LostOK

\* A call fails at most once, because it ends the loop; until then nothing is lost.
LostInv == (client \in Loop => ~comFailed) /\ LossIsOneCall

\* The invariant of types implies the types that are checked.
LEMMA TypeParts == RedirectionType => TypeOK
<1> SUFFICES ASSUME RedirectionType PROVE TypeOK
  OBVIOUS
<1>1. /\ kind \in {"console", "pipe", "file"} /\ ended \in BOOLEAN
      /\ reader \in ReaderPositions /\ shouldRun \in BOOLEAN
      /\ orphaned \subseteq {"heap", "mutex"}
      /\ client \in Loop \cup Ending
      /\ hadData \in BOOLEAN /\ terminated \in BOOLEAN /\ comFailed \in BOOLEAN
      /\ warning \in {<<>>, <<Warning>>}
      /\ \A s \in Streams : lost[s] \in Seq(Nat)
      /\ hung \subseteq Outputs /\ inWrite \subseteq Outputs
      /\ running \in BOOLEAN
  BY DEF RedirectionType, FlagsOK, LostOK
<1>2. /\ supplied \in 0..MaxInput
      /\ unread \in Seq(1..MaxInput) /\ readBuf \in Seq(1..MaxInput)
      /\ inQueue \in Seq(Seq(1..MaxInput) \ {<<>>})
  BY DEF RedirectionType, InputOK, Item
<1>3. \A s \in Streams : chan[s].state \in {"open", "closing", "closed"}
  BY DEF RedirectionType, ChanOK, States
<1>4. ASSUME NEW s \in Outputs PROVE outPipe[s] \in Seq(Nat) /\ written[s] \in 0..MaxOutput
  <2>1. outPipe[s] \in Seq(Nat) BY DEF RedirectionType, OutputOK
  <2>2. written[s] \in 0..MaxOutput
    BY RedirectionAssumption DEF RedirectionType, OutputOK, Outputs
  <2> QED BY <2>1, <2>2
<1> QED BY <1>1, <1>2, <1>3, <1>4 DEF TypeOK

\* The streams by name.
LEMMA NameFacts ==
  /\ Outputs \subseteq Streams /\ "stdin" \in Streams /\ "stdin" \notin Outputs
  /\ "stdout" \in Outputs /\ "stderr" \in Outputs
  /\ \A s \in Outputs : s = "stdout" \/ s = "stderr"
BY DEF Outputs, Streams

\* What the server takes: the warning, or the first data of the pipe, which are none
\* only if there are none.
LEMMA TakeSteps ==
  ASSUME RedirectionType, NEW s \in Outputs, Take(s)
  PROVE  /\ ServerRead(s) \in Seq(Nat)
         /\ outPipe' \in [Outputs -> Seq(Nat)]
         /\ \A t \in Outputs \ {s} : outPipe'[t] = outPipe[t]
         /\ warning' \in {<<>>, <<Warning>>}
         /\ s = "stderr" => warning' = warning
         /\ IF s = "stdout"
            THEN ServerRead(s) \o (warning' \o outPipe'[s]) = warning \o outPipe[s]
            ELSE ServerRead(s) \o outPipe'[s] = outPipe[s]
         /\ ServerRead(s) = <<>> => /\ outPipe[s] = <<>> /\ outPipe'[s] = <<>>
                                    /\ s = "stdout" => warning = <<>> /\ warning' = <<>>
<1> DEFINE data == ServerRead(s)
           p == outPipe[s]
           injected == s = "stdout" /\ warning # <<>>
<1> USE RedirectionAssumption
<1>1. /\ p \in Seq(Nat) /\ outPipe \in [Outputs -> Seq(Nat)] /\ warning \in {<<>>, <<Warning>>}
  BY DEF RedirectionType, FlagsOK, OutputOK
<1>2. /\ warning' = IF injected THEN <<>> ELSE warning
      /\ outPipe' = IF injected THEN outPipe
                    ELSE [outPipe EXCEPT ![s] = SubSeq(@, Len(data) + 1, Len(@))]
  BY DEF Take
<1>3. <<Warning>> \in Seq(Nat) /\ <<Warning>> # <<>> /\ \A q \in Seq(Nat) : <<>> \o q = q /\ q \o <<>> = q
  BY DEF Warning
<1>4. s = "stdout" \/ s = "stderr"
  BY NameFacts
<1>5. CASE injected
  <2>1. data = <<Warning>> /\ s = "stdout" BY <1>1, <1>5 DEF ServerRead
  <2>2. warning' = <<>> /\ outPipe' = outPipe
    BY <1>2, <1>5
  <2>3. data \o (warning' \o outPipe'[s]) = warning \o outPipe[s]
    BY <1>1, <1>3, <1>5, <2>1, <2>2
  <2> HIDE DEF data
  <2>4. data \in Seq(Nat) /\ data # <<>> BY <1>3, <2>1
  <2> QED BY <1>1, <2>1, <2>2, <2>3, <2>4 DEF data
<1>6. CASE ~injected
  <2> DEFINE k == IF Len(p) < BufferSize THEN Len(p) ELSE BufferSize
  <2>1. data = SubSeq(p, 1, k) BY <1>6 DEF ServerRead
  <2>2. k \in 0..Len(p) /\ (k = 0 => Len(p) = 0) BY <1>1
  <2> HIDE DEF k
  <2>3. /\ data \in Seq(Nat) /\ Len(data) = k /\ SubSeq(p, k + 1, Len(p)) \in Seq(Nat)
        /\ data \o SubSeq(p, k + 1, Len(p)) = p
    <3>1. p \in Seq(Nat) BY <1>1
    <3> HIDE DEF p, data
    <3>2. /\ SubSeq(p, 1, k) \in Seq(Nat) /\ Len(SubSeq(p, 1, k)) = k
          /\ SubSeq(p, k + 1, Len(p)) \in Seq(Nat)
          /\ SubSeq(p, 1, k) \o SubSeq(p, k + 1, Len(p)) = p
      BY <3>1, <2>2, CutSeq, Zenon
    <3> QED BY <2>1, <3>2, Zenon
  <2>4. s = "stdout" => warning = <<>> BY <1>6
  <2> HIDE DEF data, injected
  <2>5. /\ warning' = warning
        /\ outPipe' = [outPipe EXCEPT ![s] = SubSeq(p, k + 1, Len(p))]
    BY <1>2, <1>6, <2>3
  <2>6. /\ outPipe' \in [Outputs -> Seq(Nat)] /\ outPipe'[s] = SubSeq(p, k + 1, Len(p))
        /\ \A t \in Outputs \ {s} : outPipe'[t] = outPipe[t]
    <3> DEFINE r == SubSeq(p, k + 1, Len(p))
    <3>1. r \in Seq(Nat) /\ outPipe' = [outPipe EXCEPT ![s] = r] BY <2>3, <2>5
    <3> HIDE DEF r, p
    <3> QED BY <1>1, <3>1 DEF r
  <2>7. data \o outPipe'[s] = outPipe[s] BY <2>3, <2>6
  <2>8. ASSUME data = <<>> PROVE outPipe[s] = <<>> /\ outPipe'[s] = <<>>
    <3>2. k = 0 BY <2>3, <2>8
    <3>3. p = <<>> BY <1>1, <2>2, <3>2
    <3>4. SubSeq(p, k + 1, Len(p)) = <<>> BY <3>2, <3>3, SubSeqEmpty
    <3> QED BY <2>6, <3>3, <3>4
  <2>10. s = "stdout" => warning' \o outPipe'[s] = outPipe'[s] /\ warning \o outPipe[s] = outPipe[s]
    <3>1. outPipe'[s] \in Seq(Nat) BY <2>3, <2>6
    <3> QED BY <1>1, <1>3, <2>4, <2>5, <3>1
  <2>11. IF s = "stdout" THEN data \o (warning' \o outPipe'[s]) = warning \o outPipe[s]
                         ELSE data \o outPipe'[s] = outPipe[s]
    BY <2>7, <2>10
  <2> HIDE DEF p
  <2> QED BY <1>1, <2>3, <2>4, <2>5, <2>6, <2>8, <2>11 DEF data
<1> QED BY <1>5, <1>6

\* What a call of ReadStdout or ReadStderr takes is passed on to its PipeWriter.
LEMMA ReceiveSteps ==
  ASSUME RedirectionType, NEW s \in Outputs, Receive(s)
  PROVE  /\ ChanOK' /\ Take(s)
         /\ hadData' \in BOOLEAN /\ (hadData => hadData')
         /\ \A t \in Streams \ {s} : chan'[t] = chan[t]
         /\ chan'[s].accepted = chan[s].accepted \o ServerRead(s)
         /\ ~hadData' => /\ outPipe[s] = <<>> /\ outPipe'[s] = <<>>
                         /\ s = "stdout" => warning = <<>> /\ warning' = <<>>
<1> DEFINE data == ServerRead(s)
<1>1. /\ Take(s) /\ hadData' = (hadData \/ data # <<>>)
      /\ chan' = [chan EXCEPT ![s] = Writer(s)!Accepting(@, data)]
  BY DEF Receive
<1>2. data \in Seq(Nat) BY <1>1, TakeSteps
<1>3. data = <<>> => /\ outPipe[s] = <<>> /\ outPipe'[s] = <<>>
                     /\ s = "stdout" => warning = <<>> /\ warning' = <<>>
  BY <1>1, TakeSteps
<1>4. ChanOK /\ hadData \in BOOLEAN /\ s \in Streams /\ s # "stdin"
  BY NameFacts DEF RedirectionType, FlagsOK
<1> HIDE DEF data
<1>5. /\ ChanOK' /\ chan'[s].accepted = chan[s].accepted \o data
      /\ \A t \in Streams \ {s} : chan'[t] = chan[t]
  BY <1>1, <1>2, <1>4, AcceptingSteps
<1> QED BY <1>1, <1>3, <1>4, <1>5 DEF data

\* The types are right initially.
LEMMA RedirectionInitType == Init => RedirectionType
<1> SUFFICES ASSUME Init PROVE RedirectionType
  OBVIOUS
<1> USE RedirectionAssumption
<1>1. FlagsOK
  BY DEF Init, FlagsOK, ReaderPositions, Loop
<1>2. InputOK
  <2>1. <<>> \in Seq(Item) /\ <<>> \in Seq(Seq(Item) \ {<<>>}) BY EmptySeq
  <2> QED BY <2>1 DEF Init, InputOK
<1>3. ChanOK
  <2>1. <<>> \in Seq(Item) /\ <<>> \in Seq(Nat) BY EmptySeq
  <2>2. [accepted |-> <<>>, out |-> <<>>, state |-> "open"]
          \in [accepted : Seq(Nat), out : Seq(Nat), state : States]
    BY <2>1 DEF States
  <2>3. chan = [s \in Streams |-> [accepted |-> <<>>, out |-> <<>>, state |-> "open"]]
    BY DEF Init, Writer!Fresh
  <2>4. chan["stdin"].accepted = <<>> BY <2>3 DEF Streams
  <2> QED BY <2>1, <2>2, <2>3, <2>4 DEF ChanOK
<1>4. OutputOK
  <2>1. <<>> \in Seq(Nat) BY EmptySeq
  <2> QED BY <2>1 DEF Init, OutputOK, Outputs
<1>5. LostOK
  <2>1. <<>> \in Seq(Nat) /\ <<>> \in Seq(Item) BY EmptySeq
  <2> QED BY <2>1, NameFacts DEF Init, LostOK
<1> QED BY <1>1, <1>2, <1>3, <1>4, <1>5 DEF RedirectionType

\* The steps that do something to the data, and what the others leave alone.
LEMMA Frames ==
  [Next]_vars =>
    /\ \/ Supply \/ ReadSome \/ PutBuffer \/ TransmitStdin \/ WriteStdinFails
       \/ Free \/ StopReader
       \/ UNCHANGED <<supplied, unread, inQueue, readBuf>>
    /\ \/ TransmitStdin \/ WriteStdinFails \/ ReceiveStdout \/ ReceiveStderr
       \/ CloseStderr \/ CloseStdout \/ ClosedStderr \/ ClosedStdout
       \/ \E s \in Streams : Deliver(s)
       \/ UNCHANGED chan
    /\ \/ ReceiveStdout \/ ReceiveStderr \/ \E s \in Outputs : ProcessWrites(s)
       \/ \E s \in Outputs : ReadFails(s)
       \/ UNCHANGED <<warning, outPipe, written>>
    /\ \/ WriteStdinFails \/ \E s \in Outputs : ReadFails(s)
       \/ UNCHANGED lost
<1> SUFFICES ASSUME [Next]_vars
             PROVE  /\ \/ Supply \/ ReadSome \/ PutBuffer \/ TransmitStdin \/ WriteStdinFails
                       \/ Free \/ StopReader
                       \/ UNCHANGED <<supplied, unread, inQueue, readBuf>>
                    /\ \/ TransmitStdin \/ WriteStdinFails \/ ReceiveStdout \/ ReceiveStderr
                       \/ CloseStderr \/ CloseStdout \/ ClosedStderr \/ ClosedStdout
                       \/ \E s \in Streams : Deliver(s)
                       \/ UNCHANGED chan
                    /\ \/ ReceiveStdout \/ ReceiveStderr \/ \E s \in Outputs : ProcessWrites(s)
                       \/ \E s \in Outputs : ReadFails(s)
                       \/ UNCHANGED <<warning, outPipe, written>>
                    /\ \/ WriteStdinFails \/ \E s \in Outputs : ReadFails(s)
                       \/ UNCHANGED lost
  OBVIOUS
<1> USE DEF sourceVars, readerVars, clientVars, writerVars, procVars
<1>1. CASE ClientStep
  BY <1>1 DEF ClientStep, GetTerminationStatus, TransmitStdin, ReceiveStdout, ReceiveStderr,
     CloseStderr, ClosedStderr, CloseStdout, ClosedStdout, Close, Closed, StopReader, Join, Free
<1>2. CASE CallFails
  BY <1>2 DEF CallFails, StatusFails, WriteStdinFails, ReadFails, Fails
<1>3. CASE ReaderStep
  BY <1>3 DEF ReaderStep, TestShouldRun, ReadSome, ReadEnd, PutBuffer, OthersUnchanged
<1>4. CASE \E s \in Streams : Deliver(s)
  BY <1>4 DEF Deliver
<1>5. CASE Supply \/ EndOfInput \/ ProcessEnds \/ \E s \in Outputs : ProcessWrites(s)
  BY <1>5 DEF Supply, EndOfInput, ProcessEnds, ProcessWrites
<1>6. CASE UNCHANGED vars
  BY <1>6 DEF vars
<1> QED BY <1>1, <1>2, <1>3, <1>4, <1>5, <1>6 DEF Next

\* Every step keeps the types of positions and flags.
LEMMA FlagsNext == RedirectionType /\ [Next]_vars => FlagsOK'
<1> SUFFICES ASSUME RedirectionType, [Next]_vars PROVE FlagsOK'
  OBVIOUS
<1>1. ASSUME ReceiveStdout \/ ReceiveStderr PROVE FlagsOK'
  <2>1. hadData' \in BOOLEAN /\ warning' \in {<<>>, <<Warning>>}
    BY <1>1, NameFacts, ReceiveSteps, TakeSteps DEF ReceiveStdout, ReceiveStderr
  <2> QED
    BY <1>1, <2>1 DEF RedirectionType, FlagsOK, ReceiveStdout, ReceiveStderr, Goto, Loop,
       Ending, Unwind, sourceVars, readerVars
<1>2. CASE StopReader
  BY <1>2 DEF RedirectionType, FlagsOK, StopReader, Goto, Loop, Ending, Held, ReaderPositions,
     sourceVars, writerVars, procVars
<1>3. ASSUME NEW s \in Outputs, NEW f, NEW t \in Ending, Closed(s, f, t) PROVE FlagsOK'
  <2>1. hung' \subseteq Outputs /\ client' \in Loop \cup Ending
    BY <1>3 DEF RedirectionType, FlagsOK, Closed
  <2> QED
    BY <1>3, <2>1 DEF RedirectionType, FlagsOK, Closed, sourceVars, readerVars, procVars
<1>4. CASE ClosedStderr \/ ClosedStdout
  BY <1>3, <1>4, NameFacts DEF ClosedStderr, ClosedStdout, Ending
<1>5. CASE ReaderStep
  <2>1. reader' \in ReaderPositions
    BY <1>5 DEF ReaderStep, TestShouldRun, ReadSome, ReadEnd, PutBuffer, ReaderGoes,
       ReaderPositions
  <2>2. UNCHANGED <<shouldRun, orphaned, sourceVars, clientVars, warning, writerVars, procVars>>
    BY <1>5 DEF ReaderStep, TestShouldRun, ReadSome, ReadEnd, PutBuffer, OthersUnchanged
  <2> QED
    BY <2>1, <2>2 DEF RedirectionType, FlagsOK, sourceVars, clientVars, writerVars, procVars
<1>6. CASE GetTerminationStatus \/ TransmitStdin \/ Join \/ Free
  <2>1. /\ client' \in Loop \cup Ending /\ hadData' \in BOOLEAN
        /\ terminated' \in BOOLEAN /\ comFailed' \in BOOLEAN
    BY <1>6 DEF RedirectionType, FlagsOK, GetTerminationStatus, TransmitStdin,
       Join, Free, Goto, Loop, Ending
  <2>2. UNCHANGED <<kind, ended, reader, shouldRun, orphaned, warning, hung, inWrite, running>>
    BY <1>6 DEF GetTerminationStatus, TransmitStdin,
       Join, Free, sourceVars, readerVars, writerVars, procVars
  <2> QED BY <2>1, <2>2 DEF RedirectionType, FlagsOK
<1>7. ASSUME \/ Supply \/ EndOfInput \/ \E s \in Outputs : ProcessWrites(s)
             \/ ProcessEnds \/ UNCHANGED vars
      PROVE  FlagsOK'
  <2>1. ended' \in BOOLEAN /\ running' \in BOOLEAN
    BY <1>7 DEF RedirectionType, FlagsOK, Supply, EndOfInput, ProcessWrites,
       ProcessEnds, vars, sourceVars, procVars
  <2>2. UNCHANGED <<kind, reader, shouldRun, orphaned, client, hadData, terminated, comFailed,
                    warning, hung, inWrite>>
    BY <1>7 DEF Supply, EndOfInput, ProcessWrites, ProcessEnds, vars, sourceVars,
       readerVars, clientVars, writerVars
  <2> QED BY <2>1, <2>2 DEF RedirectionType, FlagsOK
<1>8. ASSUME NEW s \in Outputs, NEW f, NEW t \in Ending, Close(s, f, t) PROVE FlagsOK'
  <2>1. inWrite' \subseteq Outputs /\ client' \in Loop \cup Ending
    BY <1>8 DEF RedirectionType, FlagsOK, Close, Goto
  <2> QED
    BY <1>8, <2>1 DEF RedirectionType, FlagsOK, Close, sourceVars, readerVars, procVars
<1>9. CASE CloseStderr \/ CloseStdout
  BY <1>8, <1>9, NameFacts DEF CloseStderr, CloseStdout, Ending
<1>10. ASSUME NEW s \in Streams, Deliver(s) PROVE FlagsOK'
  <2>1. inWrite' \subseteq Outputs
    BY <1>10 DEF RedirectionType, FlagsOK, Deliver
  <2> QED
    BY <1>10, <2>1 DEF RedirectionType, FlagsOK, Deliver, sourceVars, readerVars, clientVars,
       procVars
<1>11. CASE CallFails
  <2>1. /\ client' \in Ending /\ hadData' = FALSE /\ terminated' = FALSE /\ comFailed' = TRUE
        /\ UNCHANGED <<kind, ended, hung, inWrite, running>>
    BY <1>11 DEF CallFails, StatusFails, WriteStdinFails, ReadFails, Fails, Goto, Unwind,
       Ending, sourceVars
  <2>2. UNCHANGED <<reader, shouldRun, orphaned>>
    BY <1>11 DEF CallFails, StatusFails, WriteStdinFails, ReadFails, readerVars
  <2>3. warning' \in {<<>>, <<Warning>>}
    <3>1. warning' = warning \/ \E s \in Outputs : Take(s)
      BY <1>11 DEF CallFails, StatusFails, WriteStdinFails, ReadFails
    <3> QED BY <3>1, TakeSteps DEF RedirectionType, FlagsOK
  <2> QED BY <2>1, <2>2, <2>3 DEF RedirectionType, FlagsOK
<1> QED
  BY <1>1, <1>2, <1>4, <1>5, <1>6, <1>7, <1>9, <1>10, <1>11 DEF Next, ClientStep

\* Every step keeps the types of the input.
LEMMA InputNextType == RedirectionType /\ [Next]_vars => InputOK'
<1> SUFFICES ASSUME RedirectionType, [Next]_vars PROVE InputOK'
  OBVIOUS
<1> USE RedirectionAssumption
<1> DEFINE Filled == Seq(Item) \ {<<>>}
<1>0. /\ supplied \in 0..MaxInput /\ unread \in Seq(Item) /\ readBuf \in Seq(Item)
      /\ inQueue \in Seq(Filled)
  BY DEF RedirectionType, InputOK
<1> HIDE DEF Filled
<1>1. CASE Supply
  <2>1. supplied + 1 \in Item /\ supplied' = supplied + 1 /\ unread' = Append(unread, supplied + 1)
        /\ UNCHANGED <<reader, readBuf, inQueue>>
    BY <1>0, <1>1 DEF Supply, Item
  <2>2. supplied' \in 0..MaxInput /\ unread' \in Seq(Item)
    BY <1>0, <2>1, AppendProperties DEF Item
  <2> QED BY <2>1, <2>2 DEF RedirectionType, InputOK
<1>2. CASE ReadSome
  <2>1. PICK n \in 1..BufferSize :
          /\ n <= Len(unread) /\ readBuf' = SubSeq(unread, 1, n)
          /\ unread' = SubSeq(unread, n + 1, Len(unread))
    BY <1>2 DEF ReadSome
  <2>2. n \in 0..Len(unread) /\ n # 0 BY <1>0, <2>1
  <2>3. readBuf' \in Seq(Item) /\ Len(readBuf') = n /\ unread' \in Seq(Item)
    BY <1>0, <2>1, <2>2, CutSeq
  <2>4. readBuf' # <<>> BY <2>2, <2>3
  <2>5. reader' = "put" /\ UNCHANGED <<supplied, inQueue>>
    BY <1>2 DEF ReadSome, ReaderGoes, OthersUnchanged, sourceVars
  <2> QED BY <2>3, <2>4, <2>5 DEF RedirectionType, InputOK
<1>3. CASE PutBuffer
  <2>1. readBuf \in Filled BY <1>0, <1>3 DEF RedirectionType, InputOK, PutBuffer, ReaderGoes, Filled
  <2>2. inQueue' = Append(inQueue, readBuf) /\ readBuf' = <<>> /\ reader' = "loop"
        /\ UNCHANGED <<supplied, unread>>
    BY <1>3 DEF PutBuffer, ReaderGoes, OthersUnchanged, sourceVars
  <2>3. inQueue' \in Seq(Filled) BY <1>0, <2>1, <2>2, AppendProperties
  <2>4. readBuf' \in Seq(Item) BY <2>2, EmptySeq
  <2> QED BY <1>0, <2>2, <2>3, <2>4 DEF InputOK, Filled
<1>4. CASE TransmitStdin \/ WriteStdinFails
  <2>1. /\ UNCHANGED <<supplied, unread, readBuf, reader>>
        /\ inQueue' = inQueue \/ (inQueue # <<>> /\ inQueue' = Tail(inQueue))
    BY <1>4 DEF TransmitStdin, WriteStdinFails, Fails, sourceVars
  <2>2. inQueue' \in Seq(Filled) BY <1>0, <2>1, HeadTailProperties
  <2> QED BY <2>1, <2>2 DEF RedirectionType, InputOK, Filled
<1>5. CASE Free
  <2>1. UNCHANGED <<supplied, unread, readBuf, reader>> /\ inQueue' = <<>>
    BY <1>5 DEF Free, sourceVars
  <2>2. inQueue' \in Seq(Filled) BY <2>1, EmptySeq
  <2> QED BY <2>1, <2>2 DEF RedirectionType, InputOK, Filled
<1>6. CASE StopReader
  BY <1>6 DEF RedirectionType, InputOK, StopReader, Goto, sourceVars
<1>7. ASSUME UNCHANGED <<supplied, unread, inQueue, readBuf>> 
      PROVE  \/ InputOK' \/ Supply \/ ReadSome \/ PutBuffer \/ TransmitStdin
             \/ WriteStdinFails \/ Free \/ StopReader
  <2>1. \/ reader' = reader
        \/ reader' \notin {"put", "killed"} /\ reader \notin {"put", "killed"}
        \/ ReadSome \/ PutBuffer \/ StopReader
    BY DEF vars, sourceVars, readerVars, clientVars, writerVars, procVars, Next, ClientStep,
       CallFails, StatusFails, WriteStdinFails, ReadFails, Fails, ReaderStep, Supply, EndOfInput, ProcessWrites, ProcessEnds, Deliver,
       GetTerminationStatus, TransmitStdin, ReceiveStdout, ReceiveStderr, CloseStderr,
       ClosedStderr, CloseStdout, ClosedStdout, Close, Closed, Join, Free,
       TestShouldRun, ReadEnd, OthersUnchanged, ReaderGoes
  <2> QED BY <1>7, <2>1 DEF RedirectionType, InputOK
<1> QED BY <1>1, <1>2, <1>3, <1>4, <1>5, <1>6, <1>7, Frames

\* The next buffer for the process is one of items.
LEMMA HeadOfQueue ==
  RedirectionType /\ inQueue # <<>> => Head(inQueue) \in Seq(Item) /\ Head(inQueue) \in Seq(Nat)
<1> SUFFICES ASSUME RedirectionType, inQueue # <<>>
             PROVE  Head(inQueue) \in Seq(Item) /\ Head(inQueue) \in Seq(Nat)
  OBVIOUS
<1> DEFINE h == Head(inQueue)
<1>1. h \in Seq(Item) BY HeadTailProperties DEF RedirectionType, InputOK
<1>2. Item \subseteq Nat BY DEF Item
<1> HIDE DEF h
<1>3. h \in Seq(Nat) BY <1>1, <1>2, SeqMonotonic
<1> QED BY <1>1, <1>3 DEF h

\* Every step keeps the types of the channels.
LEMMA ChanNextType == RedirectionType /\ [Next]_vars => ChanOK'
<1> SUFFICES ASSUME RedirectionType, [Next]_vars PROVE ChanOK'
  OBVIOUS
<1>0. ChanOK BY DEF RedirectionType
<1>1. CASE TransmitStdin \/ WriteStdinFails
  <2>1. CASE chan' = chan
    BY <1>0, <2>1 DEF ChanOK
  <2>2. CASE chan' # chan
    <3> DEFINE h == Head(inQueue)
    <3>1. inQueue # <<>> /\ chan' = [chan EXCEPT !["stdin"] = Writer("stdin")!Accepting(@, h)]
      BY <1>1, <2>2 DEF TransmitStdin, WriteStdinFails
    <3>2. h \in Seq(Item) /\ h \in Seq(Nat)
      BY <3>1, HeadOfQueue
    <3> HIDE DEF h
    <3> QED BY <1>0, <3>1, <3>2, NameFacts, AcceptingSteps
  <2> QED BY <2>1, <2>2
<1>2. CASE ReceiveStdout \/ ReceiveStderr
  BY <1>2, NameFacts, ReceiveSteps DEF ReceiveStdout, ReceiveStderr
<1>3. ASSUME NEW s \in Streams, Deliver(s) PROVE ChanOK'
  BY <1>0, <1>3, DeliveringSteps DEF Deliver, Owing
<1>4. ASSUME NEW s \in Outputs, NEW f, NEW t, Close(s, f, t) PROVE ChanOK'
  <2>1. chan' = [chan EXCEPT ![s].state = "closing"] BY <1>4 DEF Close
  <2> QED BY <1>0, <2>1, NameFacts, ClosingSteps DEF States
<1>5. ASSUME NEW s \in Outputs, NEW f, NEW t, Closed(s, f, t) PROVE ChanOK'
  <2>1. chan' = [chan EXCEPT ![s].state = "closed"] \/ chan' = chan BY <1>5 DEF Closed
  <2>2. chan' = chan => ChanOK' BY <1>0 DEF ChanOK
  <2> QED BY <1>0, <2>1, <2>2, NameFacts, ClosingSteps DEF States
<1>6. UNCHANGED chan => ChanOK'
  BY <1>0 DEF ChanOK
<1> QED
  BY <1>1, <1>2, <1>3, <1>4, <1>5, <1>6, Frames, NameFacts
  DEF CloseStderr, CloseStdout, ClosedStderr, ClosedStdout

\* Every step keeps the types of the output.
LEMMA OutputNextType == RedirectionType /\ [Next]_vars => OutputOK'
<1> SUFFICES ASSUME RedirectionType, [Next]_vars PROVE OutputOK'
  OBVIOUS
<1> USE RedirectionAssumption
<1>0. OutputOK BY DEF RedirectionType
<1>1. CASE ReceiveStdout \/ ReceiveStderr
  <2>1. outPipe' \in [Outputs -> Seq(Nat)] /\ written' = written
    BY <1>1, NameFacts, ReceiveSteps, TakeSteps DEF ReceiveStdout, ReceiveStderr
  <2> QED BY <1>0, <2>1 DEF OutputOK
<1>2. ASSUME NEW s \in Outputs, ProcessWrites(s) PROVE OutputOK'
  <2>1. outPipe[s] \in Seq(Nat) /\ written[s] \in Nat BY <1>0 DEF OutputOK
  <2> DEFINE longer == Append(outPipe[s], written[s] + 1)
  <2>2. longer \in Seq(Nat) BY <2>1, AppendProperties
  <2>3. /\ outPipe' = [outPipe EXCEPT ![s] = longer]
        /\ written' = [written EXCEPT ![s] = written[s] + 1]
        /\ written["stdout"] + written["stderr"] < MaxOutput
    BY <1>2 DEF ProcessWrites
  <2> HIDE DEF longer
  <2>4. outPipe' \in [Outputs -> Seq(Nat)] BY <1>0, <2>2, <2>3 DEF OutputOK
  <2>5. written' \in [Outputs -> Nat] /\ written'["stdout"] + written'["stderr"] <= MaxOutput
    BY <1>0, <2>3, NameFacts DEF OutputOK
  <2> QED BY <2>4, <2>5 DEF OutputOK
<1>3. UNCHANGED <<warning, outPipe, written>> => OutputOK'
  BY <1>0 DEF OutputOK
<1>4. ASSUME NEW s \in Outputs, ReadFails(s) PROVE OutputOK'
  <2>1. written' = written /\ (outPipe' = outPipe \/ Take(s))
    BY <1>4 DEF ReadFails, Fails
  <2>2. outPipe' \in [Outputs -> Seq(Nat)] BY <1>0, <2>1, TakeSteps DEF OutputOK
  <2> QED BY <1>0, <2>1, <2>2 DEF OutputOK
<1> QED BY <1>1, <1>2, <1>3, <1>4, Frames

\* Every step keeps the type of what is lost.
LEMMA LostNextType == RedirectionType /\ [Next]_vars => LostOK'
<1> SUFFICES ASSUME RedirectionType, [Next]_vars PROVE LostOK'
  OBVIOUS
<1>0. LostOK BY DEF RedirectionType
<1>1. CASE WriteStdinFails
  <2> DEFINE h == Head(inQueue)
  <2>1. inQueue # <<>> /\ (lost' = lost \/ lost' = [lost EXCEPT !["stdin"] = h])
    BY <1>1 DEF WriteStdinFails
  <2>2. h \in Seq(Item) /\ h \in Seq(Nat) BY <2>1, HeadOfQueue
  <2> HIDE DEF h
  <2> QED BY <1>0, <2>1, <2>2, NameFacts DEF LostOK
<1>2. ASSUME NEW s \in Outputs, ReadFails(s) PROVE LostOK'
  <2> DEFINE data == ServerRead(s)
  <2>1. lost' = lost \/ (Take(s) /\ lost' = [lost EXCEPT ![s] = data])
    BY <1>2 DEF ReadFails
  <2>2. Take(s) => data \in Seq(Nat) BY TakeSteps
  <2> HIDE DEF data
  <2> QED BY <1>0, <2>1, <2>2, NameFacts DEF LostOK
<1> QED BY <1>0, <1>1, <1>2, Frames DEF LostOK

\* Every reachable state satisfies the invariant of types.
LEMMA RedirectionTypeInvariant == Spec => []RedirectionType
<1>1. RedirectionType /\ [Next]_vars => RedirectionType'
  BY FlagsNext, InputNextType, ChanNextType, OutputNextType, LostNextType DEF RedirectionType
<1> QED BY RedirectionInitType, <1>1, PTL DEF Spec

\* Every variable keeps its type; the thread never queues an empty buffer.
THEOREM TypeCorrect == Spec => []TypeOK
BY RedirectionTypeInvariant, TypeParts, PTL

-----------------------------------------------------------------------------
(* Input.                                                                  *)

\* Free is the last step of OnConsole's main thread.
LEMMA ReturnedStays == [Next]_vars /\ client' # "returned" => client # "returned" /\ ~Free
BY DEF vars, sourceVars, readerVars, clientVars, writerVars, procVars, Next, ClientStep,
       CallFails, StatusFails, WriteStdinFails, ReadFails, Fails, Outputs,
       ReaderStep, Supply, EndOfInput, ProcessWrites, ProcessEnds, Deliver,
       GetTerminationStatus, TransmitStdin, ReceiveStdout, ReceiveStderr, CloseStderr,
       ClosedStderr, CloseStdout, ClosedStdout, Close, Closed, StopReader, Join, Free,
       TestShouldRun, ReadSome, ReadEnd, PutBuffer, OthersUnchanged, ReaderGoes, Goto, Loop

\* Only a failing call is recorded as one, and no step comes back to the loop.
LEMMA FailFrame ==
  [Next]_vars => \/ CallFails
                 \/ comFailed' = comFailed /\ (client' \in Loop => client \in Loop)
BY DEF vars, sourceVars, readerVars, clientVars, writerVars, procVars, Next, ClientStep,
       ReaderStep, Supply, EndOfInput, ProcessWrites, ProcessEnds, Deliver,
       GetTerminationStatus, TransmitStdin, ReceiveStdout, ReceiveStderr, CloseStderr,
       ClosedStderr, CloseStdout, ClosedStdout, Close, Closed, StopReader, Join, Free,
       TestShouldRun, ReadSome, ReadEnd, PutBuffer, OthersUnchanged, ReaderGoes, Goto, Loop

\* Every step keeps the losses to those of one call.
LEMMA LostNext == RedirectionType /\ LostInv /\ [Next]_vars => LostInv'
<1> SUFFICES ASSUME RedirectionType, LostInv, [Next]_vars PROVE LostInv'
  OBVIOUS
<1>1. lost \in [Streams -> Seq(Nat)] BY DEF RedirectionType, LostOK
<1>2. CASE CallFails
  <2>1. client \in Loop /\ client' \notin Loop /\ comFailed' = TRUE
    BY <1>2, NameFacts
       DEF CallFails, StatusFails, WriteStdinFails, ReadFails, Fails, Goto, Unwind, Loop, Outputs
  <2>2. \A s \in Streams : lost[s] = <<>>
    BY <2>1 DEF LostInv, LossIsOneCall
  <2>3. lost' = lost \/ \E s \in Streams : \E data : lost' = [lost EXCEPT ![s] = data]
    BY <1>2, NameFacts DEF CallFails, StatusFails, WriteStdinFails, ReadFails
  <2>4. \A s, t \in Streams : lost'[s] # <<>> /\ lost'[t] # <<>> => s = t
    BY <1>1, <2>2, <2>3
  <2> QED BY <2>1, <2>4 DEF LostInv, LossIsOneCall
<1>3. CASE ~CallFails
  <2>1. comFailed' = comFailed /\ (client' \in Loop => client \in Loop)
    BY <1>3, FailFrame
  <2>2. lost' = lost BY <1>3, Frames DEF CallFails
  <2> QED BY <2>1, <2>2 DEF LostInv, LossIsOneCall
<1> QED BY <1>2, <1>3

\* What has left the parts before the PipeWriters, in order: passed on, or lost.
Passed(s) == chan[s].accepted \o lost[s]

\* While the loop runs, nothing is lost, and what is taken now is passed on or lost.
LEMMA PassedNext ==
  ASSUME RedirectionType, LostInv, client \in Loop, NEW s \in Streams, NEW data \in Seq(Nat),
         \/ chan'[s].accepted = chan[s].accepted \o data /\ lost' = lost
         \/ chan'[s].accepted = chan[s].accepted /\ lost' = [lost EXCEPT ![s] = data]
  PROVE  Passed(s)' = Passed(s) \o data
<1> DEFINE a == chan[s].accepted
<1>1. a \in Seq(Nat) /\ lost \in [Streams -> Seq(Nat)] /\ lost[s] = <<>>
  BY DEF RedirectionType, ChanOK, LostOK, LostInv, LossIsOneCall
<1>2. a \o <<>> = a /\ a \o data \in Seq(Nat) /\ (a \o data) \o <<>> = a \o data
  BY <1>1
<1>3. Passed(s) = a BY <1>1, <1>2 DEF Passed
<1>4. CASE chan'[s].accepted = a \o data /\ lost' = lost
  BY <1>1, <1>2, <1>3, <1>4 DEF Passed
<1>5. CASE chan'[s].accepted = a /\ lost' = [lost EXCEPT ![s] = data]
  BY <1>1, <1>3, <1>5 DEF Passed
<1> QED BY <1>4, <1>5

\* What steps on the outputs and of the write threads do to what was accepted.
LEMMA AcceptedFrame ==
  ASSUME RedirectionType, [Next]_vars
  PROVE  /\ ~TransmitStdin /\ ~WriteStdinFails => chan'["stdin"].accepted = chan["stdin"].accepted
         /\ ~ReceiveStdout => chan'["stdout"].accepted = chan["stdout"].accepted
         /\ ~ReceiveStderr => chan'["stderr"].accepted = chan["stderr"].accepted
<1>0. ChanOK BY DEF RedirectionType
<1>1. CASE TransmitStdin \/ WriteStdinFails
  <2>1. chan' = chan \/ \E h : chan' = [chan EXCEPT !["stdin"] = h]
    BY <1>1 DEF TransmitStdin, WriteStdinFails
  <2>2. ~ReceiveStdout /\ ~ReceiveStderr
    BY <1>1 DEF TransmitStdin, WriteStdinFails, Fails, ReceiveStdout, ReceiveStderr, Goto
  <2> QED BY <1>0, <1>1, <2>1, NameFacts DEF ChanOK
<1>2. CASE ReceiveStdout
  <2>1. \A t \in Streams \ {"stdout"} : chan'[t] = chan[t]
    BY <1>2, NameFacts, ReceiveSteps DEF ReceiveStdout
  <2> QED BY <1>2, <2>1, NameFacts
<1>3. CASE ReceiveStderr
  <2>1. \A t \in Streams \ {"stderr"} : chan'[t] = chan[t]
    BY <1>3, NameFacts, ReceiveSteps DEF ReceiveStderr
  <2> QED BY <1>3, <2>1, NameFacts
<1>4. ASSUME \/ CloseStderr \/ CloseStdout \/ ClosedStderr \/ ClosedStdout
             \/ \E s \in Streams : Deliver(s)
             \/ UNCHANGED chan
      PROVE  SameAccepted
  <2>1. ASSUME NEW s \in Streams, Deliver(s) PROVE SameAccepted
    BY <1>0, <2>1, DeliveringSteps DEF Deliver, Owing
  <2>2. ASSUME NEW s \in Outputs, NEW f, NEW t, Close(s, f, t) PROVE SameAccepted
    <3>1. chan' = [chan EXCEPT ![s].state = "closing"] BY <2>2 DEF Close
    <3> QED BY <1>0, <3>1, NameFacts, ClosingSteps DEF States
  <2>3. ASSUME NEW s \in Outputs, NEW f, NEW t, Closed(s, f, t) PROVE SameAccepted
    <3>1. chan' = [chan EXCEPT ![s].state = "closed"] \/ chan' = chan BY <2>3 DEF Closed
    <3>2. chan' = chan => SameAccepted BY DEF SameAccepted
    <3> QED BY <1>0, <3>1, <3>2, NameFacts, ClosingSteps DEF States
  <2> QED
    BY <1>4, <2>1, <2>2, <2>3, NameFacts
    DEF CloseStderr, CloseStdout, ClosedStderr, ClosedStdout, SameAccepted
<1> QED BY <1>1, <1>2, <1>3, <1>4, Frames, NameFacts DEF SameAccepted

\* The places where input can be are sequences of items.
LEMMA InputTypes ==
  RedirectionType =>
    /\ chan["stdin"].accepted \in Seq(Item) /\ inQueue \in Queues(Item)
    /\ FlattenSeq(inQueue) \in Seq(Item)
    /\ readBuf \in Seq(Item) /\ unread \in Seq(Item) /\ supplied \in Nat
<1> SUFFICES ASSUME RedirectionType
             PROVE  /\ chan["stdin"].accepted \in Seq(Item) /\ inQueue \in Queues(Item)
                    /\ FlattenSeq(inQueue) \in Seq(Item)
                    /\ readBuf \in Seq(Item) /\ unread \in Seq(Item) /\ supplied \in Nat
  OBVIOUS
<1> DEFINE Filled == Seq(Item) \ {<<>>}
<1>1. inQueue \in Queues(Item)
  <2>1. inQueue \in Seq(Filled) BY DEF RedirectionType, InputOK
  <2>2. Filled \subseteq Seq(Item) OBVIOUS
  <2> HIDE DEF Filled
  <2> QED BY <2>1, <2>2, SeqMonotonic DEF Queues
<1> QED BY <1>1, FlattenType DEF RedirectionType, InputOK, ChanOK

\* Every step keeps the input in order.
LEMMA InputNext ==
  RedirectionType /\ LostInv /\ InputInOrder /\ [Next]_vars => InputInOrder'
<1> DEFINE A == Passed("stdin")  F == FlattenSeq(inQueue)
           X == A \o F  Y == X \o readBuf
           Goal == A' \o FlattenSeq(inQueue') \o readBuf' \o unread' = Numbered(supplied')
<1> SUFFICES ASSUME RedirectionType, LostInv, InputInOrder, [Next]_vars, client' # "returned"
             PROVE  Goal
  BY DEF InputInOrder, Passed
<1>0. chan["stdin"].accepted \in Seq(Item) /\ lost["stdin"] \in Seq(Item)
  BY InputTypes DEF RedirectionType, LostOK
<1>1. /\ A \in Seq(Item) /\ inQueue \in Queues(Item) /\ F \in Seq(Item)
      /\ readBuf \in Seq(Item) /\ unread \in Seq(Item) /\ supplied \in Nat
  BY <1>0, InputTypes, ConcatProperties DEF Passed
<1>2. X \in Seq(Item) /\ Y \in Seq(Item)
  BY <1>1, ConcatProperties
<1>3. Y \o unread = Numbered(supplied) /\ ~Free
  BY ReturnedStays DEF InputInOrder, Passed
<1>4. ~TransmitStdin /\ ~WriteStdinFails => A' = A
  <2> SUFFICES ASSUME ~TransmitStdin, ~WriteStdinFails PROVE A' = A
    OBVIOUS
  <2>1. chan'["stdin"].accepted = chan["stdin"].accepted BY AcceptedFrame
  <2>2. lost'["stdin"] = lost["stdin"]
    <3>1. lost' = lost \/ \E s \in Outputs : \E data : lost' = [lost EXCEPT ![s] = data]
      BY Frames DEF ReadFails
    <3> QED BY <3>1, NameFacts DEF RedirectionType, LostOK
  <2> QED BY <2>1, <2>2 DEF Passed
<1>5. CASE Supply
  <2>1. /\ supplied' = supplied + 1 /\ unread' = Append(unread, supplied + 1)
        /\ UNCHANGED <<chan, lost, inQueue, readBuf>> /\ supplied < MaxInput
    BY <1>5 DEF Supply, writerVars
  <2>2. supplied + 1 \in Item BY <1>1, <2>1, RedirectionAssumption DEF Item
  <2>3. A' \o FlattenSeq(inQueue') \o readBuf' = Y
    BY <2>1 DEF Passed
  <2> HIDE DEF Y
  <2>4. Y \o Append(unread, supplied + 1) = Append(Y \o unread, supplied + 1)
    BY <1>1, <1>2, <2>2, ConcatAppend
  <2> QED BY <1>1, <1>3, <2>1, <2>3, <2>4, NumberedNext
<1> HIDE DEF A
<1>6. CASE ReadSome
  <2>1. PICK n \in 1..BufferSize :
          /\ n <= Len(unread) /\ readBuf' = SubSeq(unread, 1, n)
          /\ unread' = SubSeq(unread, n + 1, Len(unread))
    BY <1>6 DEF ReadSome
  <2>2. n \in 0..Len(unread) BY <1>1, <2>1, RedirectionAssumption
  <2> DEFINE r == readBuf'  u == unread'
  <2>3. r \in Seq(Item) /\ u \in Seq(Item) /\ r \o u = unread
    BY <1>1, <2>1, <2>2, CutSeq
  <2>4. readBuf = <<>> BY <1>6 DEF ReadSome, ReaderGoes, RedirectionType, InputOK
  <2>5. A' = A /\ inQueue' = inQueue /\ supplied' = supplied
    <3>1. ~TransmitStdin /\ ~WriteStdinFails
      BY <1>6 DEF ReadSome, OthersUnchanged, clientVars, TransmitStdin, WriteStdinFails, Fails,
         Goto, Unwind
    <3> QED BY <1>4, <1>6, <3>1 DEF ReadSome, OthersUnchanged, sourceVars
  <2>6. A' \o FlattenSeq(inQueue') \o readBuf' = X \o r
    BY <2>5
  <2>7. Y = X BY <1>2, <2>4, ConcatEmptySeq
  <2> HIDE DEF X, Y, r, u
  <2>8. (X \o r) \o u = X \o (r \o u)
    <3>1. X \in Seq(Item) /\ r \in Seq(Item) /\ u \in Seq(Item) BY <1>2, <2>3
    <3> QED BY <3>1
  <2>9. (X \o r) \o u = Numbered(supplied) BY <1>3, <2>3, <2>7, <2>8
  <2> QED BY <2>5, <2>6, <2>9 DEF u
<1>7. CASE PutBuffer
  <2>0. ~TransmitStdin /\ ~WriteStdinFails
    BY <1>7 DEF PutBuffer, OthersUnchanged, clientVars, TransmitStdin, WriteStdinFails, Fails,
       Goto, Unwind
  <2>1. /\ inQueue' = Append(inQueue, readBuf) /\ readBuf' = <<>>
        /\ A' = A /\ unread' = unread /\ supplied' = supplied
    BY <1>4, <1>7, <2>0 DEF PutBuffer, OthersUnchanged, sourceVars
  <2>2. FlattenSeq(inQueue') = F \o readBuf
    BY <1>1, <2>1, FlattenAppend
  <2>3. A \o FlattenSeq(inQueue') = Y
    <3> HIDE DEF F
    <3>1. A \o (F \o readBuf) = (A \o F) \o readBuf BY <1>1
    <3> QED BY <2>2, <3>1
  <2>4. Y \o <<>> = Y BY <1>2, ConcatEmptySeq
  <2> HIDE DEF Y
  <2> QED BY <1>3, <2>1, <2>3, <2>4
<1>8. CASE (TransmitStdin \/ WriteStdinFails) /\ inQueue # <<>>
  <2>1. UNCHANGED <<unread, readBuf, supplied>>
    BY <1>8 DEF TransmitStdin, WriteStdinFails, Fails, sourceVars
  <2> DEFINE h == Head(inQueue)  t == FlattenSeq(Tail(inQueue))
  <2>2. inQueue' = Tail(inQueue) /\ client \in Loop
    BY <1>8 DEF TransmitStdin, WriteStdinFails, Fails, Goto, Loop
  <2>3. h \in Seq(Item) /\ h \in Seq(Nat) /\ Tail(inQueue) \in Queues(Item)
    BY <1>1, <1>8, HeadOfQueue, HeadTailProperties DEF Queues
  <2>4. t \in Seq(Item) /\ F = h \o t BY <1>1, <1>8, <2>3, FlattenType, FlattenHead
  <2>5. A' = A \o h
    <3>1. \/ /\ chan' = [chan EXCEPT !["stdin"] = Writer("stdin")!Accepting(@, h)]
             /\ lost' = lost
          \/ chan' = chan /\ lost' = [lost EXCEPT !["stdin"] = h]
      BY <1>8 DEF TransmitStdin, WriteStdinFails
    <3> HIDE DEF h
    <3>2. \/ chan'["stdin"].accepted = chan["stdin"].accepted \o h /\ lost' = lost
          \/ chan'["stdin"].accepted = chan["stdin"].accepted
             /\ lost' = [lost EXCEPT !["stdin"] = h]
      BY <2>3, <3>1, NameFacts, AcceptingSteps DEF RedirectionType
    <3> QED BY <2>2, <2>3, <3>2, NameFacts, PassedNext DEF A
  <2>6. FlattenSeq(inQueue') = t BY <2>2
  <2> HIDE DEF h, t, F
  <2>7. (A \o h) \o t = A \o (h \o t)
    <3>1. A \in Seq(Item) /\ h \in Seq(Item) /\ t \in Seq(Item) BY <1>1, <2>3, <2>4
    <3> QED BY <3>1
  <2>8. A' \o FlattenSeq(inQueue') = X BY <2>4, <2>5, <2>6, <2>7
  <2> QED BY <1>3, <2>1, <2>8
<1>9. CASE TransmitStdin /\ inQueue = <<>>
  <2>1. UNCHANGED <<unread, readBuf, supplied, inQueue, chan, lost>>
    BY <1>9 DEF TransmitStdin, sourceVars
  <2>2. A' = A BY <2>1 DEF A, Passed
  <2> QED BY <1>3, <2>1, <2>2
<1>10. ASSUME ~TransmitStdin, ~WriteStdinFails, UNCHANGED <<supplied, unread, inQueue, readBuf>>
       PROVE  Goal
  BY <1>3, <1>4, <1>10
<1>11. CASE StopReader
  <2>1. /\ UNCHANGED <<supplied, unread, inQueue, readBuf>>
        /\ ~TransmitStdin /\ ~WriteStdinFails
    BY <1>11 DEF StopReader, TransmitStdin, WriteStdinFails, Fails, Goto, sourceVars
  <2> QED BY <2>1, <1>10
<1>12. WriteStdinFails => inQueue # <<>>
  BY DEF WriteStdinFails
<1> QED BY <1>3, <1>5, <1>6, <1>7, <1>8, <1>9, <1>10, <1>11, <1>12, Frames

-----------------------------------------------------------------------------
(* Output.                                                                 *)

\* The places where output can be are sequences of numbers.
LEMMA OutputTypes ==
  RedirectionType =>
    \A s \in Outputs : /\ Passed(s) \in Seq(Nat) /\ outPipe[s] \in Seq(Nat)
                       /\ warning \in Seq(Nat) /\ written[s] \in Nat
<1> SUFFICES ASSUME RedirectionType, NEW s \in Outputs
             PROVE  /\ Passed(s) \in Seq(Nat) /\ outPipe[s] \in Seq(Nat)
                    /\ warning \in Seq(Nat) /\ written[s] \in Nat
  OBVIOUS
<1>1. Passed(s) \in Seq(Nat)
  <2>1. chan[s].accepted \in Seq(Nat) /\ lost[s] \in Seq(Nat)
    BY NameFacts DEF RedirectionType, ChanOK, LostOK
  <2> QED BY <2>1, ConcatProperties DEF Passed
<1>2. outPipe[s] \in Seq(Nat) /\ written[s] \in Nat BY DEF RedirectionType, OutputOK
<1>3. warning \in Seq(Nat)
  <2>1. <<>> \in Seq(Nat) /\ <<Warning>> \in Seq(Nat) BY DEF Warning
  <2> QED BY <2>1 DEF RedirectionType, FlagsOK
<1> QED BY <1>1, <1>2, <1>3

\* What is taken from the later parts of a sequence and put behind its first part
\* leaves the whole as it was.
LEMMA CatMoved ==
  ASSUME NEW S, NEW a \in Seq(S), NEW b \in Seq(S), NEW c \in Seq(S),
         NEW d \in Seq(S), NEW e \in Seq(S), NEW f \in Seq(S),
         Cat(d, Cat(e, f)) = Cat(b, c)
  PROVE  Cat(Cat(Cat(a, d), e), f) = Cat(Cat(a, b), c)
<1>1. Cat(Cat(a, b), c) = Cat(a, Cat(b, c)) BY CatAssociative
<1>2. Cat(a, d) \in Seq(S) /\ Cat(e, f) \in Seq(S) BY CatAssociative
<1>3. Cat(Cat(Cat(a, d), e), f) = Cat(Cat(a, d), Cat(e, f)) BY <1>2, CatAssociative
<1>4. Cat(Cat(a, d), Cat(e, f)) = Cat(a, Cat(d, Cat(e, f))) BY <1>2, CatAssociative
<1> QED BY <1>1, <1>3, <1>4

\* What a process has written, with or without a warning before it.
Written(n) == {Numbered(n), <<Warning>> \o Numbered(n)}

\* What a process has written and the next item.
LEMMA WrittenNext ==
  ASSUME NEW n \in Nat, NEW all \in Written(n)
  PROVE  all \in Seq(Nat) /\ Append(all, n + 1) \in Written(n + 1)
<1> DEFINE s == Numbered(n)  w == <<Warning>>
<1>1. /\ s \in Seq(Nat) /\ w \in Seq(Nat) /\ n + 1 \in Nat
      /\ Append(s, n + 1) = Numbered(n + 1)
  BY NumberedNext DEF Warning
<1>2. all = s \/ all = w \o s
  BY DEF Written
<1> HIDE DEF s, w
<1>3. w \o s \in Seq(Nat) BY <1>1, ConcatProperties
<1>5. w \o Append(s, n + 1) = Append(w \o s, n + 1) BY <1>1, ConcatAppend
<1>4. Append(all, n + 1) = Numbered(n + 1) \/ Append(all, n + 1) = w \o Numbered(n + 1)
  BY <1>1, <1>2, <1>5
<1>6. all \in Seq(Nat) BY <1>1, <1>2, <1>3
<1> QED BY <1>4, <1>6, Zenon DEF w, Written

\* A call that receives output, or fails while it does, passes on what is first in the
\* warning and the pipe, and nothing of the other stream.
LEMMA OutputTaken ==
  ASSUME RedirectionType, LostInv, NEW s \in Outputs,
         \/ s = "stdout" /\ ReceiveStdout
         \/ s = "stderr" /\ ReceiveStderr
         \/ ReadFails(s)
  PROVE  /\ written' = written /\ outPipe'[s] \in Seq(Nat)
         /\ \A t \in Outputs \ {s} : Passed(t)' = Passed(t) /\ outPipe'[t] = outPipe[t]
         /\ warning' \in Seq(Nat)
         /\ s = "stderr" => warning' = warning
         /\ \E data \in Seq(Nat) :
              /\ Passed(s)' = Passed(s) \o data
              /\ IF s = "stdout"
                 THEN data \o (warning' \o outPipe'[s]) = warning \o outPipe[s]
                 ELSE data \o outPipe'[s] = outPipe[s]
<1> DEFINE data == ServerRead(s)
           Moved(d) == IF s = "stdout"
                       THEN d \o (warning' \o outPipe'[s]) = warning \o outPipe[s]
                       ELSE d \o outPipe'[s] = outPipe[s]
<1>0. s \in Streams /\ client \in Loop
  BY NameFacts DEF ReceiveStdout, ReceiveStderr, ReadFails, Fails, Goto, Loop
<1>1. written' = written
  BY DEF ReceiveStdout, ReceiveStderr, ReadFails, Fails
<1>2. /\ <<>> \in Seq(Nat) /\ <<Warning>> \in Seq(Nat) /\ warning \in Seq(Nat)
      /\ outPipe[s] \in Seq(Nat) /\ lost \in [Streams -> Seq(Nat)]
      /\ \A q \in Seq(Nat) : <<>> \o q = q /\ q \o <<>> = q
  <2>1. <<>> \in Seq(Nat) /\ <<Warning>> \in Seq(Nat) BY DEF Warning
  <2> QED BY <2>1, OutputTypes DEF RedirectionType, LostOK
<1>3. CASE Take(s)
  <2>1. /\ data \in Seq(Nat) /\ outPipe' \in [Outputs -> Seq(Nat)]
        /\ \A t \in Outputs \ {s} : outPipe'[t] = outPipe[t]
        /\ warning' \in Seq(Nat)
        /\ s = "stderr" => warning' = warning
        /\ Moved(data)
    BY <1>2, <1>3, TakeSteps
  <2>2. /\ \/ chan'[s].accepted = chan[s].accepted \o data /\ lost' = lost
           \/ chan'[s].accepted = chan[s].accepted /\ lost' = [lost EXCEPT ![s] = data]
           \/ chan' = chan /\ lost' = lost /\ UNCHANGED <<warning, outPipe>>
        /\ \A t \in Streams \ {s} : chan'[t] = chan[t] /\ lost'[t] = lost[t]
    <3>1. CASE ReadFails(s)
      BY <1>2, <3>1 DEF ReadFails
    <3>2. CASE Receive(s) /\ lost' = lost
      BY <3>2, ReceiveSteps
    <3> QED BY <3>1, <3>2 DEF ReceiveStdout, ReceiveStderr
  <2>3. \A t \in Outputs \ {s} : Passed(t)' = Passed(t)
    BY <2>2, NameFacts DEF Passed
  <2>4. CASE chan' = chan /\ lost' = lost /\ UNCHANGED <<warning, outPipe>>
    <3>1. Passed(s)' = Passed(s) \o <<>> /\ Moved(<<>>)
      <4>1. Passed(s) \in Seq(Nat) /\ warning \o outPipe[s] \in Seq(Nat)
        BY <1>2, OutputTypes, ConcatProperties
      <4> QED BY <1>2, <2>4, <4>1 DEF Passed
    <3> HIDE DEF Moved
    <3> QED BY <1>1, <1>2, <2>1, <2>3, <3>1 DEF Moved
  <2>5. CASE \/ chan'[s].accepted = chan[s].accepted \o data /\ lost' = lost
             \/ chan'[s].accepted = chan[s].accepted /\ lost' = [lost EXCEPT ![s] = data]
    <3> HIDE DEF data, Moved
    <3>1. Passed(s)' = Passed(s) \o data
      BY <1>0, <2>1, <2>5, PassedNext
    <3> QED BY <1>1, <2>1, <2>3, <3>1 DEF Moved
  <2> QED BY <2>2, <2>4, <2>5
<1>4. CASE ~Take(s)
  <2>1. chan' = chan /\ lost' = lost /\ UNCHANGED <<warning, outPipe>>
    BY <1>4 DEF ReceiveStdout, ReceiveStderr, Receive, ReadFails
  <2>2. \A t \in Outputs : Passed(t)' = Passed(t)
    BY <2>1 DEF Passed
  <2>3. Passed(s)' = Passed(s) \o <<>> /\ Moved(<<>>)
    <3>1. Passed(s) \in Seq(Nat) /\ warning \o outPipe[s] \in Seq(Nat)
      BY <1>2, OutputTypes, ConcatProperties
    <3> QED BY <1>2, <2>1, <2>2, <3>1
  <2> HIDE DEF Moved
  <2> QED BY <1>1, <1>2, <2>1, <2>2, <2>3 DEF Moved
<1> QED BY <1>3, <1>4

\* Other steps pass on no output.
LEMMA OutputFrame ==
  ASSUME RedirectionType, [Next]_vars, ~ReceiveStdout, ~ReceiveStderr,
         \A s \in Outputs : ~ReadFails(s)
  PROVE  \A s \in Outputs : Passed(s)' = Passed(s)
<1>1. lost' = lost \/ \E h : lost' = [lost EXCEPT !["stdin"] = h]
  BY Frames DEF WriteStdinFails
<1>2. \A s \in Outputs : lost'[s] = lost[s]
  BY <1>1, NameFacts DEF RedirectionType, LostOK
<1> QED BY <1>2, AcceptedFrame, NameFacts DEF Passed

\* Every step keeps the output in order.
LEMMA OutputNext ==
  RedirectionType /\ LostInv /\ OutputInOrder /\ [Next]_vars => OutputInOrder'
<1> SUFFICES ASSUME RedirectionType, LostInv, OutputInOrder, [Next]_vars PROVE OutputInOrder'
  OBVIOUS
<1> DEFINE Out == Passed("stdout") \o warning \o outPipe["stdout"]
           Err == Passed("stderr") \o outPipe["stderr"]
<1>1. /\ Passed("stdout") \in Seq(Nat) /\ outPipe["stdout"] \in Seq(Nat)
      /\ Passed("stderr") \in Seq(Nat) /\ outPipe["stderr"] \in Seq(Nat)
      /\ warning \in Seq(Nat) /\ written["stdout"] \in Nat /\ written["stderr"] \in Nat
  BY OutputTypes, NameFacts
<1>2. Out \in Written(written["stdout"]) /\ Err = Numbered(written["stderr"])
  BY DEF OutputInOrder, Written, Passed
<1>3. SUFFICES Out' \in Written(written'["stdout"]) /\ Err' = Numbered(written'["stderr"])
  BY DEF OutputInOrder, Written, Passed
<1>4. CASE ReceiveStdout \/ ReadFails("stdout")
  <2>1. /\ written' = written /\ outPipe'["stdout"] \in Seq(Nat) /\ warning' \in Seq(Nat)
        /\ Passed("stderr")' = Passed("stderr") /\ outPipe'["stderr"] = outPipe["stderr"]
    BY <1>4, NameFacts, OutputTaken
  <2>3. PICK data \in Seq(Nat) :
          /\ Passed("stdout")' = Passed("stdout") \o data
          /\ data \o (warning' \o outPipe'["stdout"]) = warning \o outPipe["stdout"]
    BY <1>4, NameFacts, OutputTaken
  <2>5. Cat(data, Cat(warning', outPipe'["stdout"])) = Cat(warning, outPipe["stdout"])
    BY <2>3 DEF Cat
  <2>6. /\ Out = Cat(Cat(Passed("stdout"), warning), outPipe["stdout"])
        /\ Out' = Cat(Cat(Cat(Passed("stdout"), data), warning'), outPipe'["stdout"])
    BY <2>3 DEF Cat
  <2> HIDE DEF Out
  <2>7. Cat(Cat(Cat(Passed("stdout"), data), warning'), outPipe'["stdout"])
          = Cat(Cat(Passed("stdout"), warning), outPipe["stdout"])
    <3> DEFINE a == Passed("stdout")
               c == outPipe["stdout"]
               f == outPipe'["stdout"]
    <3>1. a \in Seq(Nat) /\ warning \in Seq(Nat) /\ c \in Seq(Nat) /\ f \in Seq(Nat)
      BY <1>1, <2>1
    <3>2. Cat(data, Cat(warning', f)) = Cat(warning, c) BY <2>5
    <3> HIDE DEF a, c, f
    <3>3. Cat(Cat(Cat(a, data), warning'), f) = Cat(Cat(a, warning), c)
      BY <2>1, <3>1, <3>2, CatMoved
    <3> QED BY <3>3 DEF a, c, f
  <2>8. Out' = Out
    BY <2>6, <2>7
  <2>9. Err' = Err BY <2>1
  <2> QED BY <1>2, <2>1, <2>8, <2>9
<1>5. CASE ReceiveStderr \/ ReadFails("stderr")
  <2>1. /\ written' = written /\ outPipe'["stderr"] \in Seq(Nat) /\ warning' = warning
        /\ Passed("stdout")' = Passed("stdout") /\ outPipe'["stdout"] = outPipe["stdout"]
    BY <1>5, NameFacts, OutputTaken
  <2>3. PICK data \in Seq(Nat) :
          /\ Passed("stderr")' = Passed("stderr") \o data
          /\ data \o outPipe'["stderr"] = outPipe["stderr"]
    BY <1>5, NameFacts, OutputTaken
  <2> DEFINE a == Passed("stderr")  q == outPipe'["stderr"]
  <2>4. a \in Seq(Nat) /\ q \in Seq(Nat) BY <1>1, <2>1
  <2>5. Err' = (a \o data) \o q /\ Err = a \o (data \o q) BY <2>3
  <2> HIDE DEF a, q
  <2>6. (a \o data) \o q = a \o (data \o q) BY <2>4
  <2>7. Err' = Err BY <2>5, <2>6
  <2>8. Out' = Out BY <2>1
  <2> HIDE DEF Out, Err
  <2> QED BY <1>2, <2>1, <2>7, <2>8
<1>6. CASE ~ReceiveStdout /\ ~ReceiveStderr /\ \A s \in Outputs : ~ReadFails(s)
  <2>0. Passed("stdout")' = Passed("stdout") /\ Passed("stderr")' = Passed("stderr")
    BY <1>6, OutputFrame, NameFacts
  <2>1. CASE UNCHANGED <<warning, outPipe, written>>
    BY <1>2, <2>0, <2>1
  <2>2. CASE ProcessWrites("stdout")
    <3> DEFINE n == written["stdout"]
    <3>1. /\ outPipe' = [outPipe EXCEPT !["stdout"] = Append(outPipe["stdout"], n + 1)]
          /\ written' = [written EXCEPT !["stdout"] = n + 1] /\ warning' = warning
      BY <2>2 DEF ProcessWrites
    <3>2. /\ outPipe'["stdout"] = Append(outPipe["stdout"], n + 1)
          /\ outPipe'["stderr"] = outPipe["stderr"]
          /\ written'["stdout"] = n + 1 /\ written'["stderr"] = written["stderr"]
      BY <3>1, NameFacts DEF RedirectionType, OutputOK
    <3> DEFINE b == Passed("stdout") \o warning  p == outPipe["stdout"]
    <3>3. b \in Seq(Nat) /\ p \in Seq(Nat) /\ n + 1 \in Nat /\ n \in Nat
      BY <1>1, ConcatProperties
    <3>4. Out = b \o p /\ Out' = b \o Append(p, n + 1) BY <2>0, <3>1, <3>2
    <3> HIDE DEF b, p, n, Out
    <3>5. Out' = Append(Out, n + 1) BY <3>3, <3>4, ConcatAppend
    <3>6. Out \in Written(n) BY <1>2 DEF n
    <3>7. Err' = Err BY <2>0, <3>2
    <3> HIDE DEF Out, Err
    <3>8. Out' \in Written(n + 1) BY <3>3, <3>5, <3>6, WrittenNext
    <3> QED BY <1>2, <3>2, <3>7, <3>8
  <2>3. CASE ProcessWrites("stderr")
    <3> DEFINE n == written["stderr"]
    <3>1. /\ outPipe' = [outPipe EXCEPT !["stderr"] = Append(outPipe["stderr"], n + 1)]
          /\ written' = [written EXCEPT !["stderr"] = n + 1] /\ warning' = warning
      BY <2>3 DEF ProcessWrites
    <3>2. /\ outPipe'["stderr"] = Append(outPipe["stderr"], n + 1)
          /\ outPipe'["stdout"] = outPipe["stdout"]
          /\ written'["stderr"] = n + 1 /\ written'["stdout"] = written["stdout"]
      BY <3>1, NameFacts DEF RedirectionType, OutputOK
    <3> DEFINE a == Passed("stderr")  p == outPipe["stderr"]
    <3>3. a \in Seq(Nat) /\ p \in Seq(Nat) /\ n + 1 \in Nat /\ n \in Nat
      BY <1>1
    <3>4. Err = a \o p /\ Err' = a \o Append(p, n + 1) BY <2>0, <3>2
    <3> HIDE DEF a, p, n, Err
    <3>5. Err' = Append(Err, n + 1) BY <3>3, <3>4, ConcatAppend
    <3>6. Err = Numbered(n) BY <1>2 DEF n
    <3>7. Out' = Out BY <2>0, <3>1, <3>2
    <3> HIDE DEF Out, Err
    <3>8. Err' = Numbered(n + 1) BY <3>3, <3>5, <3>6, NumberedNext
    <3> QED BY <1>2, <3>2, <3>7, <3>8
  <2> QED BY <1>6, <2>1, <2>2, <2>3, Frames, NameFacts
<1> QED BY <1>4, <1>5, <1>6, NameFacts

\* Whatever the threads and the process do meanwhile, and wherever a terminated
\* thread was, data of all three streams are passed on completely, once and in
\* order, up to the PipeWriters, except for the data of one call that fails.
THEOREM DataCorrect == Spec => []DataInOrder
<1>1. Init => InputInOrder
  <2> SUFFICES ASSUME Init PROVE InputInOrder
    OBVIOUS
  <2>1. /\ chan["stdin"].accepted = <<>> /\ lost["stdin"] = <<>> /\ inQueue = <<>> /\ readBuf = <<>> /\ unread = <<>>
    BY NameFacts DEF Init, Writer!Fresh
  <2>2. FlattenSeq(inQueue) = <<>> BY <2>1, FlattenEmpty
  <2>3. Numbered(supplied) = <<>> BY DEF Init, Numbered
  <2>4. <<>> \o <<>> = <<>> OBVIOUS
  <2> QED BY <2>1, <2>2, <2>3, <2>4 DEF InputInOrder
<1>2. Init => OutputInOrder
  <2> SUFFICES ASSUME Init PROVE OutputInOrder
    OBVIOUS
  <2>1. /\ chan["stdout"].accepted = <<>> /\ chan["stderr"].accepted = <<>>
        /\ lost["stdout"] = <<>> /\ lost["stderr"] = <<>>
        /\ outPipe["stdout"] = <<>> /\ outPipe["stderr"] = <<>>
        /\ written["stdout"] = 0 /\ written["stderr"] = 0
        /\ (warning = <<>> \/ warning = <<Warning>>)
    BY NameFacts DEF Init, Writer!Fresh
  <2>2. Numbered(0) = <<>> BY DEF Numbered
  <2>3. <<Warning>> \in Seq(Nat) BY DEF Warning
  <2>4. \A q \in Seq(Nat) : <<>> \o q = q /\ q \o <<>> = q OBVIOUS
  <2>5. <<>> \o <<>> = <<>> OBVIOUS
  <2> QED BY <2>1, <2>2, <2>3, <2>4, <2>5 DEF OutputInOrder
<1>3. Init => LostInv
  BY DEF Init, LostInv, LossIsOneCall
<1>4. LostInv => LossIsOneCall
  BY DEF LostInv
<1> QED
  BY <1>1, <1>2, <1>3, <1>4, InputNext, OutputNext, LostNext, RedirectionTypeInvariant, PTL
     DEF Spec, DataInOrder

-----------------------------------------------------------------------------
(* The end.                                                                *)

\* What OnConsole's loop knows: a process that was seen to have ended has ended; and
\* if no data have come by since, the standard output of an ended process is empty.
LoopInv ==
  /\ terminated => ~running
  /\ client = "stderr" /\ terminated /\ ~hadData => warning = <<>> /\ outPipe["stdout"] = <<>>

\* No other step revives the process, or comes to the destructors or to standard
\* error; a failed call comes there too, but says so.
LoopStays ==
  /\ running' => running
  /\ terminated' => terminated \/ ~running
  /\ client' \in Ending /\ ~comFailed' => client \in Ending /\ ~comFailed
  /\ client' = "stderr" => client = "stderr" /\ hadData' = hadData /\ terminated' = terminated

\* Only the calls that receive output bring the loop to its end.
LEMMA LoopFrame ==
  [Next]_vars => ReceiveStdout \/ ReceiveStderr \/ LoopStays
<1> SUFFICES ASSUME [Next]_vars, ~ReceiveStdout, ~ReceiveStderr PROVE LoopStays
  OBVIOUS
<1>1. CASE running' = running /\ UNCHANGED clientVars
  BY <1>1 DEF clientVars, LoopStays
<1>2. CASE ProcessEnds
  BY <1>2 DEF ProcessEnds, clientVars, LoopStays
<1>3. CASE CallFails
  <2>1. client' = "closeStderr" /\ comFailed' = TRUE /\ terminated' = FALSE /\ running' = running
    BY <1>3 DEF CallFails, StatusFails, WriteStdinFails, ReadFails, Fails, Goto, Unwind
  <2> QED BY <2>1 DEF LoopStays
<1>4. CASE GetTerminationStatus
  BY <1>4 DEF GetTerminationStatus, Goto, procVars, LoopStays, Ending
<1>5. CASE TransmitStdin
  BY <1>5 DEF TransmitStdin, Goto, procVars, LoopStays, Ending
<1>6. CASE /\ running' = running /\ UNCHANGED <<hadData, terminated, comFailed>>
           /\ client' \in Ending /\ client \in Ending
  <2>1. client' # "stderr" BY <1>6 DEF Ending
  <2> QED BY <1>6, <2>1 DEF LoopStays
<1>7. CASE CloseStderr \/ CloseStdout
  BY <1>6, <1>7 DEF CloseStderr, CloseStdout, Close, Goto, procVars, Ending
<1>8. CASE ClosedStderr \/ ClosedStdout
  BY <1>6, <1>8 DEF ClosedStderr, ClosedStdout, Closed, procVars, Ending
<1>9. CASE StopReader \/ Join \/ Free
  BY <1>6, <1>9 DEF StopReader, Join, Free, Goto, procVars, Ending
<1>10. CASE ReaderStep
  BY <1>1, <1>10 DEF ReaderStep, TestShouldRun, ReadSome, ReadEnd, PutBuffer,
     OthersUnchanged, procVars
<1>11. CASE Supply \/ EndOfInput \/ \E s \in Streams : Deliver(s)
  BY <1>1, <1>11 DEF Supply, EndOfInput, Deliver, procVars
<1>12. CASE \E s \in Outputs : ProcessWrites(s)
  BY <1>1, <1>12 DEF ProcessWrites
<1>13. CASE UNCHANGED vars
  BY <1>1, <1>13 DEF vars, procVars
<1> QED
  BY <1>2, <1>3, <1>4, <1>5, <1>7, <1>8, <1>9, <1>10, <1>11, <1>12, <1>13 DEF Next, ClientStep

\* Every step keeps what the loop knows, and that it ends only after that.
LEMMA EndsNext ==
  RedirectionType /\ LoopInv /\ EndsAfterLastOutput /\ [Next]_vars
    => LoopInv' /\ EndsAfterLastOutput'
<1> SUFFICES ASSUME RedirectionType, LoopInv, EndsAfterLastOutput, [Next]_vars
             PROVE  LoopInv' /\ EndsAfterLastOutput'
  OBVIOUS
<1>1. CASE ReceiveStdout
  <2>1. /\ client = "stdout" /\ client' = "stderr" /\ Receive("stdout")
        /\ UNCHANGED <<terminated, running>>
    BY <1>1 DEF ReceiveStdout, Goto
  <2>2. ~hadData' => warning' = <<>> /\ outPipe'["stdout"] = <<>>
    BY <2>1, NameFacts, ReceiveSteps
  <2> QED BY <2>1, <2>2 DEF LoopInv, EndsAfterLastOutput, Ending
<1>2. CASE ReceiveStderr
  <2>1. /\ client = "stderr" /\ Receive("stderr")
        /\ client' = IF ~terminated \/ hadData' THEN "status" ELSE "closeStderr"
        /\ UNCHANGED <<terminated, running, comFailed>>
    BY <1>2 DEF ReceiveStderr, Goto, Unwind
  <2>2. /\ ~hadData' => outPipe'["stderr"] = <<>>
        /\ warning' = warning /\ outPipe'["stdout"] = outPipe["stdout"]
        /\ hadData => hadData'
    BY <2>1, NameFacts, ReceiveSteps, TakeSteps
  <2> QED BY <2>1, <2>2, NameFacts DEF LoopInv, EndsAfterLastOutput, Ending
<1>3. ASSUME NEW s \in Outputs, ProcessWrites(s) PROVE LoopInv' /\ EndsAfterLastOutput'
  <2>1. /\ running /\ running' = running /\ warning' = warning
        /\ client' = client /\ terminated' = terminated
        /\ hadData' = hadData /\ comFailed' = comFailed
    BY <1>3 DEF ProcessWrites, clientVars
  <2>2. ~terminated /\ ~(client \in Ending /\ ~comFailed)
    BY <2>1 DEF LoopInv, EndsAfterLastOutput
  <2> QED BY <2>1, <2>2 DEF LoopInv, EndsAfterLastOutput
<1>4. ASSUME UNCHANGED <<warning, outPipe, written>>, ~ReceiveStdout, ~ReceiveStderr
      PROVE  LoopInv' /\ EndsAfterLastOutput'
  <2>1. (running' => running) /\ (terminated' => terminated \/ ~running)
    BY <1>4, LoopFrame DEF LoopStays
  <2>2. client' \in Ending /\ ~comFailed' => client \in Ending /\ ~comFailed
    BY <1>4, LoopFrame DEF LoopStays
  <2>3. client' = "stderr"
          => client = "stderr" /\ hadData' = hadData /\ terminated' = terminated
    BY <1>4, LoopFrame DEF LoopStays
  <2>4. warning' = warning /\ outPipe' = outPipe BY <1>4
  <2>5. LoopInv' BY <2>1, <2>3, <2>4 DEF LoopInv
  <2>6. EndsAfterLastOutput' BY <2>1, <2>2, <2>4 DEF EndsAfterLastOutput
  <2> QED BY <2>5, <2>6
<1>5. ASSUME NEW s \in Outputs, ReadFails(s) PROVE LoopInv' /\ EndsAfterLastOutput'
  <2>1. comFailed' = TRUE /\ terminated' = FALSE
    BY <1>5 DEF ReadFails, Fails
  <2> QED BY <2>1 DEF LoopInv, EndsAfterLastOutput
<1> QED BY <1>1, <1>2, <1>3, <1>4, <1>5, Frames

\* The last output of a program is not left behind: unless the server fails, OnConsole
\* ends only when the process has, and nothing it wrote is still in its pipes.
THEOREM EndsCorrect == Spec => []EndsAfterLastOutput
<1>1. Init => LoopInv /\ EndsAfterLastOutput
  BY DEF Init, LoopInv, EndsAfterLastOutput, Ending
<1> QED BY <1>1, EndsNext, RedirectionTypeInvariant, PTL DEF Spec

=============================================================================
