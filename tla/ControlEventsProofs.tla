------------------------- MODULE ControlEventsProofs -------------------------
(***************************************************************************)
(* Proofs about the control events, for any number of clients, kinds of    *)
(* events and key presses.                                                 *)
(***************************************************************************)
EXTENDS ControlEvents, FlattenLemmas

-----------------------------------------------------------------------------
(* The inductive invariant.                                                *)

\* An event that the loop may find, and one that it passes on, is one.
EventInv ==
  \A c \in Clients :
    /\ handler[c] = "set" \/ pending[c] \/ loop[c] = "read" => event[c] \in Events
    /\ loop[c] = "call" => argument[c] \in Events

\* The process has an order in hand between taking it and being done with it, and
\* between attaching and detaching it is attached to the console the order names.
\* Otherwise it is attached to none, unless it once failed to register its handler or
\* to detach.
OrderInv ==
  /\ at \in {"poll", "left"} => order = None
  /\ at \in {"attach", "handle", "generate", "free"} => order \in Order
  /\ at \in {"handle", "generate", "free"} => attached = order.client
  /\ ~stuck /\ at \in {"poll", "attach", "left"} => attached = None

ControlInv == TypeOK /\ EventInv /\ OrderInv

-----------------------------------------------------------------------------
(* Types.                                                                  *)

\* None is neither a client, an event nor an order; orders are records.
LEMMA OrderFacts ==
  /\ None \notin Clients /\ None \notin Events /\ None \notin Order
  /\ \A o \in Order : o.client \in Clients /\ o.event \in Events /\ o # None
  /\ \A c \in Clients, e \in Events : [client |-> c, event |-> e] \in Order
BY ControlEventsAssumption DEF Order

\* What the queue of orders is after each of the operations on it.
LEMMA QueueFacts ==
  ASSUME NEW os \in Seq(Order)
  PROVE  /\ \A o \in Order : Append(os, o) \in Seq(Order)
         /\ os # <<>> => Head(os) \in Order /\ Tail(os) \in Seq(Order)
         /\ <<>> \in Seq(Order)
BY HeadTailProperties, AppendProperties, EmptySeq

\* A step of one client.
ClientSteps(c) == (\E e \in Events : Press(c, e)) \/ RaiseFlag(c) \/ LoopStep(c) \/ SessionEnds(c)

\* A step is one of a client, one of the executing process, or a stutter.
LEMMA NextCases ==
  [Next]_vars => (\E c \in Clients : ClientSteps(c)) \/ ProcessStep \/ UNCHANGED vars
BY DEF Next, ClientSteps

\* The steps of a client keep the inductive invariant.
LEMMA InvClient ==
  ASSUME NEW c \in Clients, ControlInv, ClientSteps(c)
  PROVE  ControlInv'
<1> USE DEF ControlInv, processVars, histories, clientVars
<1> USE DEF pressVars
<1>1. ASSUME NEW e \in Events, Press(c, e) PROVE ControlInv'
  <2>1. TypeOK'
    <3>1. \A s \in Seq(Events) : Append(s, e) \in Seq(Events) BY AppendProperties
    <3> QED BY <1>1, <3>1 DEF Press, TypeOK
  <2>2. EventInv' /\ OrderInv' BY <1>1 DEF Press, TypeOK, EventInv, OrderInv
  <2> QED BY <2>1, <2>2
<1>2. CASE RaiseFlag(c)
  BY <1>2 DEF RaiseFlag, TypeOK, EventInv, OrderInv
<1>3. CASE TestFlag(c)
  BY <1>3 DEF TestFlag, Goto, TypeOK, EventInv, OrderInv
<1>4. CASE ReadEvent(c)
  <2>1. Len(pressed[c]) \in Nat BY LenProperties DEF TypeOK
  <2> QED BY <1>4, <2>1 DEF ReadEvent, Goto, TypeOK, EventInv, OrderInv
<1>5. CASE SendControl(c)
  <2> DEFINE o == [client |-> c, event |-> argument[c]]
  <2>1. argument[c] \in Events BY <1>5 DEF SendControl, Goto, EventInv
  <2>2. orders' = Append(orders, o) /\ o \in Order BY <1>5, <2>1, OrderFacts DEF SendControl
  <2> HIDE DEF o
  <2>3. orders' \in Seq(Order) BY <2>2, QueueFacts DEF TypeOK
  <2>4. sent' \in [Clients -> Seq(Events)]
    <3>1. \A s \in Seq(Events) : Append(s, argument[c]) \in Seq(Events)
      BY <2>1, AppendProperties
    <3> QED BY <1>5, <3>1 DEF SendControl, TypeOK
  <2>7. sources' \in [Clients -> Seq(Nat)]
    <3>1. \A s \in Seq(Nat) : Append(s, source[c]) \in Seq(Nat)
      BY AppendProperties DEF TypeOK
    <3> QED BY <1>5, <3>1 DEF SendControl, TypeOK
  <2>5. TypeOK' BY <1>5, <2>3, <2>4, <2>7 DEF SendControl, Goto, TypeOK
  <2>6. EventInv' /\ OrderInv' BY <1>5 DEF SendControl, Goto, TypeOK, EventInv, OrderInv
  <2> QED BY <2>5, <2>6
<1>6. CASE ClearFlag(c)
  BY <1>6 DEF ClearFlag, Goto, TypeOK, EventInv, OrderInv
<1>7. CASE SessionEnds(c)
  <2>1. orders' \in Seq(Order) BY <1>7, QueueFacts DEF SessionEnds, TypeOK
  <2>2. TypeOK' BY <1>7, <2>1 DEF SessionEnds, TypeOK
  <2>3. EventInv' /\ OrderInv' BY <1>7 DEF SessionEnds, EventInv, OrderInv
  <2> QED BY <2>2, <2>3
<1> QED BY <1>1, <1>2, <1>3, <1>4, <1>5, <1>6, <1>7 DEF ClientSteps, LoopStep

\* An order that is done with is recorded for its client.
LEMMA DoneSteps ==
  ASSUME ControlInv, NEW reached \in BOOLEAN, order \in Order, Done(reached)
  PROVE  outcomes' \in [Clients -> Seq(Outcome)]
<1> DEFINE o == [event |-> order.event, reached |-> reached]
<1>1. order.client \in Clients /\ order.event \in Events BY OrderFacts
<1>2. o \in Outcome BY <1>1 DEF Outcome
<1>3. outcomes \in [Clients -> Seq(Outcome)] BY DEF ControlInv, TypeOK
<1>4. outcomes' = outcomes \/ outcomes' = [outcomes EXCEPT ![order.client] = Append(@, o)]
  BY DEF Done
<1> HIDE DEF o
<1>5. \A s \in Seq(Outcome) : Append(s, o) \in Seq(Outcome)
  BY <1>2, AppendProperties
<1> QED BY <1>1, <1>3, <1>4, <1>5

\* The steps of the executing process keep the inductive invariant.
LEMMA InvProcess ==
  ASSUME ControlInv, ProcessStep
  PROVE  ControlInv'
<1> USE DEF ControlInv, processVars, histories, pressVars, clientVars
<1>0. EventInv'
  BY DEF EventInv, ProcessStep, TakeOrder, Leave, Attach, AttachFails, Register, Generate,
     GenerateFails, Free, FreeFails
<1>1. CASE TakeOrder
  <2>1. order' \in Order /\ orders' \in Seq(Order)
    BY <1>1, QueueFacts DEF TakeOrder, TypeOK
  <2> QED BY <1>0, <1>1, <2>1 DEF TakeOrder, TypeOK, OrderInv
<1>2. CASE Leave
  BY <1>0, <1>2 DEF Leave, TypeOK, OrderInv
<1>3. CASE Attach
  BY <1>0, <1>3, OrderFacts DEF Attach, TypeOK, OrderInv
<1>7. CASE AttachFails
  <2>1. outcomes' \in [Clients -> Seq(Outcome)]
    BY <1>7, DoneSteps DEF AttachFails, OrderInv, TypeOK
  <2> QED BY <1>0, <1>7, <2>1 DEF AttachFails, TypeOK, OrderInv
<1>4. CASE Register
  BY <1>0, <1>4 DEF Register, TypeOK, OrderInv
<1>5. CASE Generate \/ GenerateFails
  <2>1. order \in Order /\ attached = order.client
    BY <1>5 DEF Generate, GenerateFails, OrderInv
  <2>2. Done(TRUE) \/ Done(FALSE)
    BY <1>5, <2>1 DEF Generate, GenerateFails, Done
  <2>3. outcomes' \in [Clients -> Seq(Outcome)]
    BY <2>1, <2>2, DoneSteps
  <2> QED BY <1>0, <1>5, <2>3 DEF Generate, GenerateFails, TypeOK, OrderInv
<1>6. CASE Free \/ FreeFails
  BY <1>0, <1>6 DEF Free, FreeFails, TypeOK, OrderInv
<1> QED BY <1>1, <1>2, <1>3, <1>4, <1>5, <1>6, <1>7 DEF ProcessStep

\* The invariant holds initially.
LEMMA InvInit == Init => ControlInv
<1> SUFFICES ASSUME Init PROVE ControlInv
  OBVIOUS
<1>1. TypeOK BY EmptySeq DEF Init, TypeOK
<1>2. EventInv /\ OrderInv BY DEF Init, EventInv, OrderInv
<1> QED BY <1>1, <1>2 DEF ControlInv

\* Every step keeps the inductive invariant.
LEMMA InvNext == ControlInv /\ [Next]_vars => ControlInv'
<1>1. ControlInv /\ UNCHANGED vars => ControlInv'
  BY DEF ControlInv, TypeOK, EventInv, OrderInv, vars, clientVars, processVars, histories,
     pressVars
<1> QED BY <1>1, NextCases, InvClient, InvProcess

\* Every reachable state satisfies the inductive invariant.
LEMMA ControlInvariant == Spec => []ControlInv
BY InvInit, InvNext, PTL DEF Spec

\* Every variable keeps its type; in particular what the loop passes to SendControl
\* is an event, although it reads it after the flag and the handler may be at work.
THEOREM TypeCorrect == Spec => []TypeOK
BY ControlInvariant, PTL DEF ControlInv

-----------------------------------------------------------------------------
(* Orders and key presses.                                                 *)

\* An order the loop will make for what it has found, and one that it may make for
\* an event whose flag is not raised yet.  A raised flag that the loop is about to
\* clear makes none: this is the event that is lost.
Owed(c)   == IF loop[c] \in {"read", "call"} \/ (loop[c] = "test" /\ pending[c]) THEN 1 ELSE 0
Rising(c) == IF handler[c] = "set" THEN 1 ELSE 0

Count(c) == Len(sources[c]) + Owed(c) + Rising(c) <= Len(pressed[c])

\* What OrdersFollowPresses says of one client.
Follows(c) ==
  LET s == sources[c]
  IN  /\ Len(sent[c]) = Len(s)
      /\ \A i \in 1..Len(s) :
           /\ i <= s[i] /\ s[i] <= Len(pressed[c])
           /\ sent[c][i] = pressed[c][s[i]]
      /\ \A i, j \in 1..Len(s) :
           /\ i < j => s[i] <= s[j]
           /\ i + 1 < j => s[i] < s[j]

\* The variable holds the last event.  The one in hand is not older than the last
\* order, is newer than an event that has made two, and there are enough of them.
InHandInv(c) ==
  LET s == sources[c]  k == Len(s)
  IN  /\ pressed[c] # <<>> => event[c] = pressed[c][Len(pressed[c])]
      /\ loop[c] = "call" =>
           /\ k < source[c] /\ source[c] <= Len(pressed[c])
           /\ argument[c] = pressed[c][source[c]]
           /\ k > 0 => s[k] <= source[c]
           /\ k > 1 /\ s[k - 1] = s[k] => s[k] < source[c]

\* The last event may make a second order when it has made one before its flag was
\* raised, but not a third.
LastInv(c) ==
  LET s == sources[c]  k == Len(s)  n == Len(pressed[c])
  IN  /\ k > 0 /\ s[k] = n /\ Owed(c) = 1 => Rising(c) = 0
      /\ k > 1 /\ s[k - 1] = n /\ s[k] = n => Owed(c) = 0 /\ Rising(c) = 0

SourceInv(c) == Count(c) /\ Follows(c) /\ InHandInv(c) /\ LastInv(c)

\* Nothing is ordered before anything is pressed.
LEMMA SourceInit == Init => \A c \in Clients : SourceInv(c)
<1> SUFFICES ASSUME Init, NEW c \in Clients PROVE SourceInv(c)
  OBVIOUS
<1>1. /\ sent[c] = <<>> /\ pressed[c] = <<>> /\ sources[c] = <<>> /\ loop[c] = "test"
      /\ Owed(c) = 0 /\ Rising(c) = 0
  BY DEF Init, Owed, Rising
<1> QED BY <1>1 DEF SourceInv, Count, Follows, InHandInv, LastInv

\* The types of what the invariant is about.
LEMMA SourceTypes ==
  ASSUME ControlInv, NEW c \in Clients
  PROVE  /\ sources[c] \in Seq(Nat) /\ Len(sources[c]) \in Nat
         /\ \A i \in 1..Len(sources[c]) : sources[c][i] \in Nat
         /\ pressed[c] \in Seq(Events) /\ Len(pressed[c]) \in Nat
         /\ sent[c] \in Seq(Events) /\ source[c] \in Nat
         /\ Owed(c) \in {0, 1} /\ Rising(c) \in {0, 1}
BY LenProperties, ElementOfSeq DEF ControlInv, TypeOK, Owed, Rising

\* Whatever leaves the variables of a client alone keeps its invariant.
LEMMA SourceSame ==
  ASSUME NEW c, SourceInv(c), event'[c] = event[c], loop'[c] = loop[c],
         argument'[c] = argument[c], handler'[c] = handler[c], pending'[c] = pending[c],
         pressed'[c] = pressed[c], sent'[c] = sent[c], source'[c] = source[c],
         sources'[c] = sources[c]
  PROVE  SourceInv(c)'
BY DEF SourceInv, Count, Follows, InHandInv, LastInv, Owed, Rising

\* A new event is newer than all that have made orders.
LEMMA SourcePress ==
  ASSUME NEW c \in Clients, NEW e \in Events, ControlInv, SourceInv(c), Press(c, e)
  PROVE  SourceInv(c)'
<1> DEFINE n == Len(pressed[c])  s == sources[c]  k == Len(s)
<1>1. /\ s \in Seq(Nat) /\ k \in Nat /\ n \in Nat /\ \A i \in 1..k : s[i] \in Nat
      /\ pressed[c] \in Seq(Events) /\ source[c] \in Nat
      /\ Owed(c) \in {0, 1}
  BY SourceTypes
<1>2. /\ pressed'[c] = Append(pressed[c], e) /\ event'[c] = e
      /\ handler[c] = "idle" /\ handler'[c] = "set"
      /\ loop'[c] = loop[c] /\ argument'[c] = argument[c] /\ pending'[c] = pending[c]
      /\ sent'[c] = sent[c] /\ source'[c] = source[c] /\ sources'[c] = s
  BY DEF Press, ControlInv, TypeOK
<1>3. /\ Len(pressed'[c]) = n + 1 /\ pressed'[c][n + 1] = e
      /\ \A i \in 1..n : pressed'[c][i] = pressed[c][i]
      /\ pressed'[c] # <<>>
  BY <1>1, <1>2, AppendProperties
<1>4. Owed(c)' = Owed(c) /\ Rising(c)' = 1 /\ Rising(c) = 0
  BY <1>2 DEF Owed, Rising
<1>5. Count(c)' BY <1>1, <1>2, <1>3, <1>4 DEF SourceInv, Count
<1>6. Follows(c)'
  <2>1. \A i \in 1..k : s[i] \in 1..n BY <1>1 DEF SourceInv, Follows
  <2> QED BY <1>1, <1>2, <1>3, <2>1 DEF SourceInv, Follows
<1>7. InHandInv(c)'
  <2>1. loop[c] = "call" => source[c] \in 1..n BY <1>1 DEF SourceInv, InHandInv
  <2> QED BY <1>1, <1>2, <1>3, <2>1 DEF SourceInv, InHandInv
<1>8. LastInv(c)'
  <2>1. \A i \in 1..k : s[i] <= n BY DEF SourceInv, Follows
  <2>2. \A i \in 1..k : s[i] # n + 1 BY <1>1, <2>1
  <2> QED BY <1>1, <1>2, <1>3, <2>2 DEF LastInv
<1> QED BY <1>5, <1>6, <1>7, <1>8 DEF SourceInv

\* The order is made from the event in hand.
LEMMA SourceSend ==
  ASSUME NEW c \in Clients, ControlInv, SourceInv(c), SendControl(c)
  PROVE  SourceInv(c)'
<1> DEFINE n == Len(pressed[c])  s == sources[c]  k == Len(s)
           x == source[c]  t == sources'[c]
<1>1. /\ s \in Seq(Nat) /\ k \in Nat /\ n \in Nat /\ \A i \in 1..k : s[i] \in Nat
      /\ sent[c] \in Seq(Events) /\ x \in Nat /\ Rising(c) \in {0, 1}
  BY SourceTypes
<1>2. /\ t = Append(s, x) /\ sent'[c] = Append(sent[c], argument[c])
      /\ loop[c] = "call" /\ loop'[c] = "clear"
      /\ handler'[c] = handler[c] /\ event'[c] = event[c] /\ pressed'[c] = pressed[c]
  BY DEF SendControl, Goto, ControlInv, TypeOK
<1>3. argument[c] \in Events BY <1>2 DEF ControlInv, EventInv
<1>4. /\ k < x /\ x <= n /\ argument[c] = pressed[c][x]
      /\ k > 0 => s[k] <= x
      /\ k > 1 /\ s[k - 1] = s[k] => s[k] < x
  BY <1>2 DEF SourceInv, InHandInv
<1>5. /\ Len(sent[c]) = k
      /\ \A i \in 1..k : i <= s[i] /\ s[i] <= n /\ sent[c][i] = pressed[c][s[i]]
      /\ \A i, j \in 1..k : (i < j => s[i] <= s[j]) /\ (i + 1 < j => s[i] < s[j])
  BY DEF SourceInv, Follows
<1>6. /\ Len(t) = k + 1 /\ t[k + 1] = x /\ \A i \in 1..k : t[i] = s[i]
      /\ Len(sent'[c]) = k + 1 /\ sent'[c][k + 1] = argument[c]
      /\ \A i \in 1..k : sent'[c][i] = sent[c][i]
  BY <1>1, <1>2, <1>3, <1>5, AppendProperties
<1>7. Owed(c) = 1 /\ Owed(c)' = 0 /\ Rising(c)' = Rising(c)
  BY <1>2 DEF Owed, Rising
<1>8. Count(c)'
  BY <1>1, <1>2, <1>6, <1>7 DEF SourceInv, Count
<1>9. \A i \in 1..k : s[i] <= x /\ (i < k => s[i] < x)
  <2> SUFFICES ASSUME NEW i \in 1..k PROVE s[i] <= x /\ (i < k => s[i] < x)
    OBVIOUS
  <2> HIDE DEF s, k, x
  <2>1. CASE i = k BY <1>4, <2>1
  <2>2. CASE i < k
    <3>1. k \in 1..k /\ k - 1 \in 1..k /\ k > 1 BY <1>1, <2>2
    <3>2. s[i] <= s[k - 1]
      <4>1. CASE i < k - 1 BY <1>5, <3>1, <4>1
      <4>2. CASE i = k - 1 BY <1>1, <3>1, <4>2
      <4> QED BY <1>1, <2>2, <4>1, <4>2
    <3>3. s[k - 1] <= s[k] /\ s[k] <= x BY <1>4, <1>5, <3>1
    <3>4. s[k - 1] < x
      <4>1. s[k - 1] \in Nat /\ s[k] \in Nat /\ x \in Nat BY <1>1, <3>1
      <4>2. CASE s[k - 1] = s[k] BY <1>4, <3>1, <4>2
      <4>3. CASE s[k - 1] # s[k] BY <3>3, <4>1, <4>3
      <4> QED BY <4>2, <4>3
    <3>5. s[i] \in Nat /\ s[k - 1] \in Nat BY <1>1, <3>1
    <3> QED BY <1>1, <3>2, <3>4, <3>5
  <2> QED BY <1>1, <2>1, <2>2
<1>10. Follows(c)'
  <2>1. \A i \in 1..(k + 1) : i \in 1..k \/ i = k + 1 BY <1>1
  <2>2. \A i \in 1..(k + 1) :
          i <= t[i] /\ t[i] <= n /\ sent'[c][i] = pressed[c][t[i]]
    <3> SUFFICES ASSUME NEW i \in 1..(k + 1)
                 PROVE  i <= t[i] /\ t[i] <= n /\ sent'[c][i] = pressed[c][t[i]]
      OBVIOUS
    <3> HIDE DEF s, k, x, t
    <3>1. CASE i \in 1..k BY <1>5, <1>6, <3>1
    <3>2. CASE i = k + 1 BY <1>1, <1>4, <1>6, <3>2
    <3> QED BY <2>1, <3>1, <3>2
  <2>3. \A i, j \in 1..(k + 1) : (i < j => t[i] <= t[j]) /\ (i + 1 < j => t[i] < t[j])
    <3> SUFFICES ASSUME NEW i \in 1..(k + 1), NEW j \in 1..(k + 1), i < j
                 PROVE  t[i] <= t[j] /\ (i + 1 < j => t[i] < t[j])
      BY <1>1
    <3>1. i \in 1..k BY <1>1
    <3>2. CASE j \in 1..k BY <1>5, <1>6, <3>1, <3>2
    <3>3. CASE j = k + 1 BY <1>1, <1>6, <1>9, <3>1, <3>3
    <3> QED BY <2>1, <3>2, <3>3
  <2> QED BY <1>2, <1>6, <2>2, <2>3 DEF Follows
<1>11. InHandInv(c)'
  BY <1>2 DEF SourceInv, InHandInv
<1>12. LastInv(c)'
  <2>1. t[k + 1] = n /\ k + 1 > 1 /\ t[k] = n => Rising(c) = 0
    <3>1. k > 0 => t[k] = s[k] BY <1>1, <1>6
    <3> QED BY <1>1, <1>7, <3>1 DEF SourceInv, LastInv
  <2> QED BY <1>1, <1>2, <1>6, <1>7, <2>1 DEF LastInv
<1> QED BY <1>8, <1>10, <1>11, <1>12 DEF SourceInv

\* The other steps of OnConsole.
LEMMA SourceLoop ==
  ASSUME NEW c \in Clients, ControlInv, SourceInv(c),
         RaiseFlag(c) \/ TestFlag(c) \/ ReadEvent(c) \/ ClearFlag(c)
  PROVE  SourceInv(c)'
<1> DEFINE n == Len(pressed[c])  s == sources[c]  k == Len(s)
<1> USE DEF histories, pressVars
<1>1. /\ k \in Nat /\ n \in Nat /\ \A i \in 1..k : s[i] \in Nat
      /\ Owed(c) \in {0, 1} /\ Rising(c) \in {0, 1}
  BY SourceTypes
<1>2. /\ sent' = sent /\ pressed' = pressed /\ sources' = sources /\ event' = event
  BY DEF RaiseFlag, TestFlag, ReadEvent, ClearFlag
<1>3. Follows(c)' BY <1>2 DEF SourceInv, Follows
<1>4. CASE RaiseFlag(c)
  <2>1. /\ Rising(c) = 1 /\ Rising(c)' = 0 /\ Owed(c)' \in {0, 1} /\ UNCHANGED <<loop, source, argument>>
    BY <1>4 DEF RaiseFlag, Rising, Owed, ControlInv, TypeOK
  <2>2. Count(c)' BY <1>1, <1>2, <2>1 DEF SourceInv, Count
  <2>3. InHandInv(c)' BY <1>2, <2>1 DEF SourceInv, InHandInv
  <2>4. LastInv(c)' BY <1>2, <2>1 DEF SourceInv, LastInv
  <2> QED BY <1>3, <2>2, <2>3, <2>4 DEF SourceInv
<1>5. CASE TestFlag(c)
  <2>1. /\ Rising(c)' = Rising(c) /\ Owed(c)' = 1 /\ Owed(c) = 1 /\ loop'[c] = "read"
    BY <1>5 DEF TestFlag, Goto, Rising, Owed, ControlInv, TypeOK
  <2>2. Count(c)' /\ InHandInv(c)' /\ LastInv(c)'
    BY <1>2, <2>1 DEF SourceInv, Count, InHandInv, LastInv
  <2> QED BY <1>3, <2>2 DEF SourceInv
<1>6. CASE ReadEvent(c)
  <2>1. /\ Rising(c)' = Rising(c) /\ Owed(c)' = 1 /\ Owed(c) = 1 /\ loop'[c] = "call"
        /\ source'[c] = n /\ argument'[c] = event[c]
    BY <1>6 DEF ReadEvent, Goto, Rising, Owed, ControlInv, TypeOK
  <2>2. Count(c)' /\ LastInv(c)'
    BY <1>2, <2>1 DEF SourceInv, Count, LastInv
  <2>3. k < n BY <1>1, <2>1 DEF SourceInv, Count
  <2>4. k > 0 => s[k] <= n
    BY <1>1 DEF SourceInv, Follows
  <2>5. k > 1 /\ s[k - 1] = s[k] => s[k] < n
    BY <1>1, <2>1, <2>4 DEF SourceInv, LastInv
  <2>6. argument'[c] = pressed[c][n]
    <3>1. pressed[c] # <<>> BY <1>1, <2>3
    <3> QED BY <2>1, <3>1 DEF SourceInv, InHandInv
  <2>7. InHandInv(c)'
    BY <1>1, <1>2, <2>1, <2>3, <2>4, <2>5, <2>6 DEF SourceInv, InHandInv
  <2> QED BY <1>3, <2>2, <2>7 DEF SourceInv
<1>7. CASE ClearFlag(c)
  <2>1. /\ Rising(c)' = Rising(c) /\ Owed(c)' = 0 /\ loop'[c] = "test"
    BY <1>7 DEF ClearFlag, Goto, Rising, Owed, ControlInv, TypeOK
  <2>2. Count(c)' BY <1>1, <1>2, <2>1 DEF SourceInv, Count
  <2>3. InHandInv(c)' /\ LastInv(c)'
    BY <1>2, <2>1 DEF SourceInv, InHandInv, LastInv
  <2> QED BY <1>3, <2>2, <2>3 DEF SourceInv
<1> QED BY <1>4, <1>5, <1>6, <1>7

\* Every step keeps the invariant of every client.
LEMMA SourceNext ==
  ControlInv /\ (\A c \in Clients : SourceInv(c)) /\ [Next]_vars
    => (\A c \in Clients : SourceInv(c))'
<1> SUFFICES ASSUME ControlInv, [Next]_vars, NEW c \in Clients, SourceInv(c)
             PROVE  SourceInv(c)'
  OBVIOUS
<1> USE DEF processVars, histories, pressVars, clientVars
<1>1. CASE ProcessStep \/ UNCHANGED vars
  BY <1>1, SourceSame
     DEF ProcessStep, TakeOrder, Leave, Attach, AttachFails, Register, Generate, GenerateFails,
         Free, FreeFails, vars
<1>2. ASSUME NEW d \in Clients, ClientSteps(d) PROVE SourceInv(c)'
  <2>1. CASE d # c \/ SessionEnds(d)
    <3>1. /\ event'[c] = event[c] /\ loop'[c] = loop[c] /\ argument'[c] = argument[c]
          /\ handler'[c] = handler[c] /\ pending'[c] = pending[c]
          /\ pressed'[c] = pressed[c] /\ sent'[c] = sent[c] /\ source'[c] = source[c]
          /\ sources'[c] = sources[c]
      BY <1>2, <2>1 DEF ControlInv, TypeOK, ClientSteps, Press, RaiseFlag, LoopStep, TestFlag,
         ReadEvent, SendControl, ClearFlag, SessionEnds, Goto
    <3> QED BY <3>1, SourceSame
  <2>2. CASE d = c /\ ~SessionEnds(d)
    BY <1>2, <2>2, SourcePress, SourceSend, SourceLoop DEF ClientSteps, LoopStep
  <2> QED BY <2>1, <2>2
<1> QED BY <1>1, <1>2, NextCases

\* However often the keys are pressed and wherever the handler interrupts the loop
\* between its test of the flag and its reset, orders are made from events, in their
\* order and never more than there were; an event makes two only in the place of one
\* it has overwritten, and none makes three.
THEOREM OrdersFromPresses == Spec => []OrdersFollowPresses
<1>1. (\A c \in Clients : SourceInv(c)) => OrdersFollowPresses
  BY DEF SourceInv, Follows, OrdersFollowPresses
<1> QED BY <1>1, SourceInit, SourceNext, ControlInvariant, PTL DEF Spec

-----------------------------------------------------------------------------
(* Orders and deliveries.                                                  *)

\* The events of one client among orders, one piece for each order.
Pieces(d, os) == [i \in DOMAIN os |-> EventFor(d, os[i])]

\* What an order contributes to a client is a sequence of events.
LEMMA PieceType ==
  ASSUME NEW d \in Clients, NEW o \in Order
  PROVE  EventFor(d, o) \in Seq(Events)
<1>1. <<>> \in Seq(Events) /\ <<o.event>> \in Seq(Events)
  BY OrderFacts, EmptySeq
<1> QED BY <1>1 DEF EventFor

\* There is a piece for each order.
LEMMA PiecesType ==
  ASSUME NEW d \in Clients, NEW os \in Seq(Order)
  PROVE  Pieces(d, os) \in Queues(Events) /\ Len(Pieces(d, os)) = Len(os)
<1>1. DOMAIN os = 1..Len(os) /\ Len(os) \in Nat /\ \A i \in 1..Len(os) : os[i] \in Order
  BY LenProperties, ElementOfSeq
<1>2. Pieces(d, os) \in [1..Len(os) -> Seq(Events)]
  BY <1>1, PieceType DEF Pieces
<1> QED BY <1>1, <1>2, SeqDef, LenProperties DEF Queues

\* A new order comes last.
LEMMA OfAppend ==
  ASSUME NEW d \in Clients, NEW os \in Seq(Order), NEW o \in Order
  PROVE  Of(d, Append(os, o)) = Of(d, os) \o EventFor(d, o)
<1>1. /\ Pieces(d, os) \in Queues(Events) /\ EventFor(d, o) \in Seq(Events)
  BY PiecesType, PieceType
<1>2. Pieces(d, Append(os, o)) = Append(Pieces(d, os), EventFor(d, o))
  BY AppendProperties, LenProperties, PiecesType DEF Pieces, Queues
<1> QED BY <1>1, <1>2, FlattenAppend DEF Of, Pieces

\* The first order is the first to be taken.
LEMMA OfHead ==
  ASSUME NEW d \in Clients, NEW os \in Seq(Order), os # <<>>
  PROVE  Of(d, os) = EventFor(d, Head(os)) \o Of(d, Tail(os))
<1>1. Pieces(d, os) \in Queues(Events) /\ Len(Pieces(d, os)) = Len(os)
  BY PiecesType
<1>2. Pieces(d, os) # <<>> /\ Head(Pieces(d, os)) = EventFor(d, Head(os))
  BY <1>1, LenProperties, HeadTailProperties DEF Pieces
<1>3. Pieces(d, Tail(os)) = Tail(Pieces(d, os))
  BY <1>1, LenProperties, HeadTailProperties DEF Pieces, Queues
<1> QED BY <1>1, <1>2, <1>3, FlattenHead DEF Of, Pieces

\* A client's part of a queue of orders is a sequence of events.
LEMMA OfType ==
  ASSUME NEW d \in Clients, NEW os \in Seq(Order)
  PROVE  Of(d, os) \in Seq(Events)
BY PiecesType, FlattenType DEF Of, Pieces

\* While a process runs, what its client has ordered is what is done with, what is
\* in hand and what is queued.
Balance(d) == sent[d] = Cat(Cat(Finished(d), InHand(d)), Of(d, orders))

\* The balance of every client is the property, with a name for \o.
LEMMA BalanceIsDelivery ==
  OrdersDelivered <=> \A d \in Clients : session[d] = "running" /\ ~stuck => Balance(d)
BY DEF OrdersDelivered, Balance, Cat

\* What is done with is a sequence of events.
LEMMA FinishedType ==
  ASSUME NEW d \in Clients, outcomes[d] \in Seq(Outcome)
  PROVE  /\ Finished(d) \in Seq(Events) /\ Len(Finished(d)) = Len(outcomes[d])
         /\ Len(outcomes[d]) \in Nat
<1>1. /\ DOMAIN outcomes[d] = 1..Len(outcomes[d]) /\ Len(outcomes[d]) \in Nat
      /\ \A i \in 1..Len(outcomes[d]) : outcomes[d][i] \in Outcome
  BY LenProperties, ElementOfSeq
<1>2. Finished(d) \in [1..Len(outcomes[d]) -> Events]
  BY <1>1 DEF Finished, Outcome
<1> QED BY <1>1, <1>2, SeqDef, LenProperties

\* The parts of the balance are sequences of events.
LEMMA HandTypes ==
  ASSUME ControlInv, NEW d \in Clients
  PROVE  /\ sent[d] \in Seq(Events) /\ Finished(d) \in Seq(Events)
         /\ InHand(d) \in Seq(Events) /\ Of(d, orders) \in Seq(Events)
<1>1. order \in Order => EventFor(d, order) \in Seq(Events)
  BY PieceType
<1>2. <<>> \in Seq(Events) BY EmptySeq
<1>3. InHand(d) \in Seq(Events)
  BY <1>1, <1>2 DEF InHand, ControlInv, TypeOK
<1>4. Finished(d) \in Seq(Events) BY FinishedType DEF ControlInv, TypeOK
<1> QED BY <1>3, <1>4, OfType DEF ControlInv, TypeOK

\* An order that is done with comes last among those of its client.
LEMMA FinishedDone ==
  ASSUME NEW d \in Clients, ControlInv, session[d] = "running", order \in Order,
         NEW reached \in BOOLEAN, Done(reached)
  PROVE  Finished(d)' = Cat(Finished(d), EventFor(d, order))
<1> DEFINE o == [event |-> order.event, reached |-> reached]
           f == Finished(d)
<1>1. order.client \in Clients /\ order.event \in Events BY OrderFacts
<1>2. /\ outcomes \in [Clients -> Seq(Outcome)] /\ outcomes[d] \in Seq(Outcome)
      /\ f \in Seq(Events) /\ Len(f) = Len(outcomes[d]) /\ Len(f) \in Nat
  BY FinishedType DEF ControlInv, TypeOK
<1>3. CASE order.client = d
  <2>1. o \in Outcome /\ o.event = order.event BY <1>1 DEF Outcome
  <2>2. outcomes'[d] = Append(outcomes[d], o)
    BY <1>2, <1>3 DEF Done
  <2> HIDE DEF o
  <2>3. /\ DOMAIN outcomes'[d] = 1..(Len(f) + 1)
        /\ outcomes'[d][Len(f) + 1] = o
        /\ \A i \in 1..Len(f) : outcomes'[d][i] = outcomes[d][i]
    BY <1>2, <2>1, <2>2, AppendProperties, LenProperties
  <2>4. Finished(d)' = Append(f, order.event)
    <3>1. Finished(d)' = [i \in 1..(Len(f) + 1) |-> outcomes'[d][i].event]
      BY <2>3 DEF Finished
    <3>2. \A i \in 1..Len(f) : f[i] = outcomes[d][i].event
      BY <1>2, LenProperties DEF Finished
    <3> HIDE DEF f
    <3>3. /\ Append(f, order.event) \in Seq(Events)
          /\ DOMAIN Append(f, order.event) = 1..(Len(f) + 1)
          /\ \A i \in 1..(Len(f) + 1) :
               Append(f, order.event)[i] = IF i \in 1..Len(f) THEN f[i] ELSE order.event
      BY <1>1, <1>2, AppendProperties, LenProperties
    <3>4. Append(f, order.event)
            = [i \in 1..(Len(f) + 1) |-> IF i \in 1..Len(f) THEN f[i] ELSE order.event]
      BY <1>1, <1>2, <3>3
    <3>5. \A i \in 1..(Len(f) + 1) :
            outcomes'[d][i].event = IF i \in 1..Len(f) THEN f[i] ELSE order.event
      BY <1>2, <2>1, <2>3, <3>2
    <3> QED BY <3>1, <3>4, <3>5
  <2> HIDE DEF f
  <2>5. EventFor(d, order) = <<order.event>> BY <1>3 DEF EventFor
  <2>6. Append(f, order.event) = Cat(f, <<order.event>>)
    BY <1>1, <1>2, AppendIsConcat DEF Cat
  <2> QED BY <2>4, <2>5, <2>6 DEF f
<1>4. CASE order.client # d
  <2>1. outcomes'[d] = outcomes[d] BY <1>1, <1>2, <1>4 DEF Done
  <2>2. Finished(d)' = f BY <2>1 DEF Finished
  <2>3. EventFor(d, order) = <<>> BY <1>4 DEF EventFor
  <2> HIDE DEF f
  <2> QED BY <1>2, <2>2, <2>3, ConcatEmptySeq DEF Cat, f
<1> QED BY <1>3, <1>4

\* An order that is queued is owed; one that is lost because nobody is left is
\* owed to nobody.
LEMMA BalanceClient ==
  ASSUME NEW c \in Clients, NEW d \in Clients, ControlInv, ClientSteps(c),
         session[d] = "running" => Balance(d)
  PROVE  session'[d] = "running" => Balance(d)'
<1> SUFFICES ASSUME session'[d] = "running" PROVE Balance(d)'
  OBVIOUS
<1> USE DEF processVars, histories, pressVars, clientVars
<1>1. session[d] = "running"
  BY DEF ControlInv, TypeOK, ClientSteps, Press, RaiseFlag, LoopStep, TestFlag, ReadEvent,
     SendControl, ClearFlag, SessionEnds
<1>2. Finished(d)' = Finished(d) /\ InHand(d)' = InHand(d)
  BY DEF Finished, InHand, ClientSteps, Press, RaiseFlag, LoopStep, TestFlag, ReadEvent,
     SendControl, ClearFlag, SessionEnds
<1>3. CASE SendControl(c)
  <2> DEFINE o == [client |-> c, event |-> argument[c]]
             g == Finished(d)  h == InHand(d)  q == Of(d, orders)
  <2>1. argument[c] \in Events
    BY <1>3 DEF SendControl, Goto, ControlInv, EventInv
  <2>2. o \in Order /\ o.client = c /\ o.event = argument[c]
    BY <2>1, OrderFacts
  <2>3. orders' = Append(orders, o) BY <1>3 DEF SendControl
  <2> HIDE DEF o
  <2>4. Of(d, orders') = Cat(q, EventFor(d, o))
    BY <2>2, <2>3, OfAppend DEF Cat, ControlInv, TypeOK
  <2>5. sent'[d] = Cat(sent[d], EventFor(d, o))
    <3>1. CASE c = d
      <4>1. EventFor(d, o) = <<argument[c]>> BY <2>2, <3>1 DEF EventFor
      <4>2. sent'[d] = Append(sent[d], argument[c])
        BY <1>3, <3>1 DEF SendControl, ControlInv, TypeOK
      <4>3. sent[d] \in Seq(Events) BY HandTypes
      <4> QED BY <2>1, <4>1, <4>2, <4>3, AppendIsConcat DEF Cat
    <3>2. CASE c # d
      <4>1. EventFor(d, o) = <<>> BY <2>2, <3>2 DEF EventFor
      <4>2. sent'[d] = sent[d] BY <1>3, <3>2 DEF SendControl, ControlInv, TypeOK
      <4>3. sent[d] \in Seq(Events) BY HandTypes
      <4> QED BY <4>1, <4>2, <4>3, ConcatEmptySeq DEF Cat
    <3> QED BY <3>1, <3>2
  <2>6. /\ g \in Seq(Events) /\ h \in Seq(Events) /\ q \in Seq(Events)
        /\ EventFor(d, o) \in Seq(Events)
    BY <2>2, HandTypes, PieceType
  <2>7. sent[d] = Cat(Cat(g, h), q) BY <1>1 DEF Balance
  <2> HIDE DEF g, h, q
  <2>8. Cat(g, h) \in Seq(Events) BY <2>6, CatAssociative
  <2>9. Cat(Cat(Cat(g, h), q), EventFor(d, o)) = Cat(Cat(g, h), Cat(q, EventFor(d, o)))
    BY <2>6, <2>8, CatAssociative
  <2>10. sent'[d] = Cat(Cat(g, h), Of(d, orders'))
    BY <2>4, <2>5, <2>7, <2>9
  <2> QED BY <1>2, <2>10 DEF Balance, g, h
<1>4. CASE ~SendControl(c)
  <2>1. sent' = sent /\ orders' = orders
    BY <1>4 DEF ControlInv, TypeOK, ClientSteps, Press, RaiseFlag, LoopStep, TestFlag, ReadEvent,
       ClearFlag, SessionEnds
  <2> QED BY <1>1, <1>2, <2>1 DEF Balance
<1> QED BY <1>3, <1>4

\* PrepareWindowStation.exe takes an order from the queue into its hand, and it stays
\* there until it is done with, which it is at once if the process has ended.
LEMMA BalanceProcess ==
  ASSUME NEW d \in Clients, ControlInv, ProcessStep, ~stuck, session[d] = "running",
         Balance(d)
  PROVE  stuck' \/ Balance(d)'
<1> USE DEF processVars, histories, pressVars, clientVars
<1>0. UNCHANGED <<sent, session>>
  BY DEF ProcessStep, TakeOrder, Leave, Attach, AttachFails, Register, Generate, GenerateFails,
     Free, FreeFails
<1> DEFINE g == Finished(d)  h == InHand(d)  q == Of(d, orders)
<1>00. /\ g \in Seq(Events) /\ h \in Seq(Events) /\ q \in Seq(Events)
  BY HandTypes
<1>1. CASE TakeOrder
  <2>1. /\ orders # <<>> /\ orders' = Tail(orders) /\ order' = Head(orders)
        /\ order = None /\ at' = "attach" /\ outcomes' = outcomes
        /\ orders \in Seq(Order)
    BY <1>1 DEF TakeOrder, ControlInv, TypeOK, OrderInv
  <2>2. order' \in Order /\ Tail(orders) \in Seq(Order) BY <2>1, QueueFacts
  <2>3. q = Cat(EventFor(d, order'), Of(d, orders'))
    BY <2>1, OfHead DEF Cat
  <2>4. h = <<>> /\ InHand(d)' = EventFor(d, order')
    BY <2>1, <2>2, OrderFacts DEF InHand
  <2>5. Cat(g, h) = g
    BY <1>00, <2>4, ConcatEmptySeq DEF Cat
  <2>6. EventFor(d, order') \in Seq(Events) /\ Of(d, orders') \in Seq(Events)
    BY <2>1, <2>2, PieceType, OfType
  <2>7. Cat(g, Cat(EventFor(d, order'), Of(d, orders')))
          = Cat(Cat(g, EventFor(d, order')), Of(d, orders'))
    <3>1. \A a, b, e \in Seq(Events) : Cat(a, Cat(b, e)) = Cat(Cat(a, b), e)
      BY CatAssociative
    <3> QED BY <1>00, <2>6, <3>1
  <2>8. sent[d] = Cat(Cat(g, h), q) BY DEF Balance
  <2>9. Finished(d)' = g BY <2>1 DEF Finished
  <2> QED BY <1>0, <2>1, <2>3, <2>4, <2>5, <2>7, <2>8, <2>9 DEF Balance
<1>2. CASE Leave \/ Free
  <2>1. /\ InHand(d)' = h /\ outcomes' = outcomes /\ orders' = orders
    BY <1>2 DEF Leave, Free, InHand, ControlInv, OrderInv
  <2>2. Finished(d)' = g BY <2>1 DEF Finished
  <2> QED BY <1>0, <2>1, <2>2 DEF Balance
<1>3. CASE Attach
  <2>1. /\ InHand(d)' = h /\ outcomes' = outcomes /\ orders' = orders
    BY <1>3 DEF Attach, InHand
  <2>2. Finished(d)' = g BY <2>1 DEF Finished
  <2> QED BY <1>0, <2>1, <2>2 DEF Balance
<1>4. CASE Register
  <2>1. stuck' \/ (InHand(d)' = h /\ outcomes' = outcomes /\ orders' = orders)
    BY <1>4 DEF Register, InHand
  <2>2. outcomes' = outcomes => Finished(d)' = g BY DEF Finished
  <2> QED BY <1>0, <2>1, <2>2 DEF Balance
<1>5. CASE AttachFails \/ Generate \/ GenerateFails
  <2>1. /\ order \in Order /\ at \in {"attach", "generate"} /\ orders' = orders
        /\ Done(TRUE) \/ Done(FALSE)
        /\ order' = None \/ at' = "free"
    BY <1>5 DEF AttachFails, Generate, GenerateFails, Done, ControlInv, OrderInv
  <2>2. InHand(d)' = <<>> /\ h = EventFor(d, order)
    BY <2>1, OrderFacts DEF InHand
  <2>3. Finished(d)' = Cat(g, h)
    BY <2>1, <2>2, FinishedDone
  <2>4. Cat(Cat(g, h), <<>>) = Cat(g, h)
    <3>1. Cat(g, h) \in Seq(Events) BY <1>00, CatAssociative
    <3> QED BY <3>1, ConcatEmptySeq DEF Cat
  <2> QED BY <1>0, <2>1, <2>2, <2>3, <2>4 DEF Balance
<1>6. CASE FreeFails
  BY <1>6 DEF FreeFails
<1> QED BY <1>1, <1>2, <1>3, <1>4, <1>5, <1>6 DEF ProcessStep

\* For any number of clients that share a preparation, while the process they are for
\* runs, orders are done with one by one in the order in which they were made: none is
\* swapped, forgotten unless a call of the console failed for it, or executed for
\* another client; until a console is once not detached from.
THEOREM DeliveryCorrect == Spec => []OrdersDelivered
<1>1. Init => OrdersDelivered
  <2> SUFFICES ASSUME Init, NEW d \in Clients PROVE Balance(d)
    BY BalanceIsDelivery
  <2>1. /\ sent[d] = <<>> /\ outcomes[d] = <<>> /\ InHand(d) = <<>> /\ orders = <<>>
    BY DEF Init, InHand
  <2>2. Of(d, <<>>) = <<>>
    <3>1. [i \in DOMAIN <<>> |-> EventFor(d, <<>>[i])] = <<>> OBVIOUS
    <3> QED BY <3>1, FlattenEmpty DEF Of
  <2>3. <<>> \o <<>> = <<>> OBVIOUS
  <2>4. Finished(d) = <<>> BY <2>1 DEF Finished
  <2> QED BY <2>1, <2>2, <2>3, <2>4 DEF Balance, Cat
<1>2. ControlInv /\ OrdersDelivered /\ [Next]_vars => OrdersDelivered'
  <2> SUFFICES ASSUME ControlInv, OrdersDelivered, [Next]_vars,
                      NEW d \in Clients, session'[d] = "running", ~stuck'
               PROVE  Balance(d)'
    BY DEF OrdersDelivered, Balance, Cat
  <2>1. stuck => stuck'
    BY DEF Next, Press, RaiseFlag, LoopStep, TestFlag, ReadEvent, SendControl, ClearFlag,
       SessionEnds, ProcessStep, TakeOrder, Leave, Attach, AttachFails, Register, Generate,
       GenerateFails, Free, FreeFails, vars, histories, pressVars
  <2>2. session[d] = "running" => Balance(d)
    BY <2>1, BalanceIsDelivery
  <2>3. CASE \E c \in Clients : ClientSteps(c)
    BY <2>2, <2>3, BalanceClient
  <2>4. CASE ProcessStep
    <3>1. session' = session
      BY <2>4 DEF ProcessStep, TakeOrder, Leave, Attach, AttachFails, Register, Generate,
         GenerateFails, Free, FreeFails, clientVars
    <3> QED BY <2>1, <2>2, <2>4, <3>1, BalanceProcess
  <2>5. CASE UNCHANGED vars
    <3>1. InHand(d)' = InHand(d) /\ Finished(d)' = Finished(d)
      BY <2>5 DEF vars, processVars, histories, InHand, Finished
    <3> QED BY <2>2, <2>5, <3>1 DEF vars, clientVars, histories, pressVars, Balance
  <2> QED BY <2>3, <2>4, <2>5, NextCases
<1> QED BY <1>1, <1>2, ControlInvariant, PTL DEF Spec

=============================================================================
