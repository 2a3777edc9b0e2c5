---------------------------- MODULE ControlEvents ----------------------------
(***************************************************************************)
(* The way of a Ctrl-C or Ctrl-Break from the console of an OnConsole.exe  *)
(* to the console of the process it has started:                           *)
(*                                                                         *)
(*  - the handler, on a thread of its own, leaves the event in two global  *)
(*    variables of OnConsole;                                              *)
(*  - the loop of OnConsole finds it and calls SendControl, which queues   *)
(*    an order in the preparation that all clients of a user share;        *)
(*  - the PrepareWindowStation.exe of the preparation asks for an order    *)
(*    again and again, attaches to the console of the process named in it, *)
(*    generates the event, and detaches.                                   *)
(*                                                                         *)
(* The clients of one preparation are modelled, with one such process.     *)
(***************************************************************************)
EXTENDS Naturals, Sequences, SequencesExt

CONSTANTS
  Clients,         \* OnConsole processes that share a preparation
  Events,          \* Ctrl-C and Ctrl-Break
  None,
  MaxPresses       \* bound: events at the console of each OnConsole

Order   == [client : Clients, event : Events]
Outcome == [event : Events, reached : BOOLEAN]

ASSUME ControlEventsAssumption ==
  /\ None \notin Clients \cup Events \cup Order
  /\ MaxPresses \in [Clients -> Nat]

VARIABLES
  handler,    \* each OnConsole's CtrlHandler: "idle", or "set" the event
  event,      \* ConsoleSignalEvent
  pending,    \* ConsoleSignalPending
  loop,       \* position of the loop of OnConsole
  argument,   \* the event it passes to SendControl
  session,    \* its process: "running", "exited"; "released": its CExec is gone
  orders,     \* mConsoleEventOrders of the preparation
  at,         \* position of PrepareWindowStation.exe
  order,      \* the order it executes, or None
  attached,   \* the client to whose process's console it is attached, or None
  pressed,    \* history: the events at each OnConsole's console
  source,     \* history: which of them, by its number, is the argument
  sent,       \* history: the orders of each client
  sources,    \* history: the numbers of the events they were made from
  outcomes,   \* history: the orders done with, and whether the event reached the process
  stuck       \* history: a console was not detached from

clientVars  == <<handler, event, pending, loop, argument, session>>
processVars == <<at, order, attached>>
pressVars   == <<pressed, source, sent, sources>>
histories   == <<pressVars, outcomes, stuck>>
vars == <<clientVars, orders, processVars, histories>>

TypeOK ==
  /\ handler \in [Clients -> {"idle", "set"}]
  /\ event \in [Clients -> Events \cup {None}]
  /\ pending \in [Clients -> BOOLEAN]
  /\ loop \in [Clients -> {"test", "read", "call", "clear"}]
  /\ argument \in [Clients -> Events \cup {None}]
  /\ session \in [Clients -> {"running", "exited", "released"}]
  /\ orders \in Seq(Order)
  /\ at \in {"poll", "attach", "handle", "generate", "free", "left"}
  /\ order \in Order \cup {None}
  /\ attached \in Clients \cup {None}
  /\ pressed \in [Clients -> Seq(Events)]
  /\ source \in [Clients -> Nat]
  /\ sent \in [Clients -> Seq(Events)]
  /\ sources \in [Clients -> Seq(Nat)]
  /\ outcomes \in [Clients -> Seq(Outcome)]
  /\ stuck \in BOOLEAN

Init ==
  /\ handler = [c \in Clients |-> "idle"]
  /\ event = [c \in Clients |-> None]
  /\ pending = [c \in Clients |-> FALSE]
  /\ loop = [c \in Clients |-> "test"]
  /\ argument = [c \in Clients |-> None]
  /\ session = [c \in Clients |-> "running"]
  /\ orders = <<>>
  /\ at = "poll" /\ order = None /\ attached = None
  /\ pressed = [c \in Clients |-> <<>>]
  /\ source = [c \in Clients |-> 0]
  /\ sent = [c \in Clients |-> <<>>]
  /\ sources = [c \in Clients |-> <<>>]
  /\ outcomes = [c \in Clients |-> <<>>]
  /\ stuck = FALSE

-----------------------------------------------------------------------------
(* OnConsole.                                                              *)

\* CtrlHandler: first the event, then the flag.  The handlers of one process are
\* called one after the other.
Press(c, e) ==
  /\ session[c] # "released"
  /\ handler[c] = "idle" /\ Len(pressed[c]) < MaxPresses[c]
  /\ event' = [event EXCEPT ![c] = e]
  /\ pressed' = [pressed EXCEPT ![c] = Append(@, e)]
  /\ handler' = [handler EXCEPT ![c] = "set"]
  /\ UNCHANGED <<pending, loop, argument, session, orders, processVars>>
  /\ UNCHANGED <<source, sent, sources, outcomes, stuck>>

RaiseFlag(c) ==
  /\ session[c] # "released"
  /\ handler[c] = "set"
  /\ pending' = [pending EXCEPT ![c] = TRUE]
  /\ handler' = [handler EXCEPT ![c] = "idle"]
  /\ UNCHANGED <<event, loop, argument, session, orders, processVars, histories>>

Goto(c, from, to) ==
  /\ session[c] # "released"
  /\ loop[c] = from /\ loop' = [loop EXCEPT ![c] = to]

TestFlag(c) ==
  /\ pending[c]
  /\ Goto(c, "test", "read")
  /\ UNCHANGED <<handler, event, pending, argument, session, orders, processVars,
                 histories>>

ReadEvent(c) ==
  /\ Goto(c, "read", "call")
  /\ argument' = [argument EXCEPT ![c] = event[c]]
  /\ source' = [source EXCEPT ![c] = Len(pressed[c])]
  /\ UNCHANGED <<handler, event, pending, session, orders, processVars>>
  /\ UNCHANGED <<pressed, sent, sources, outcomes, stuck>>

\* Mutant: a new order goes to the front of the queue.
SendControlFirst(c) ==
  /\ Goto(c, "call", "clear")
  /\ orders' = <<[client |-> c, event |-> argument[c]]>> \o orders
  /\ sent' = [sent EXCEPT ![c] = Append(@, argument[c])]
  /\ sources' = [sources EXCEPT ![c] = Append(@, source[c])]
  /\ UNCHANGED <<handler, event, pending, argument, session, processVars>>
  /\ UNCHANGED <<pressed, source, outcomes, stuck>>

\* CExec::SendControl, OrderConsoleEvent.
SendControl(c) ==
  /\ Goto(c, "call", "clear")
  /\ orders' = Append(orders, [client |-> c, event |-> argument[c]])
  /\ sent' = [sent EXCEPT ![c] = Append(@, argument[c])]
  /\ sources' = [sources EXCEPT ![c] = Append(@, source[c])]
  /\ UNCHANGED <<handler, event, pending, argument, session, processVars>>
  /\ UNCHANGED <<pressed, source, outcomes, stuck>>

\* Mutant: the flag stays up.
KeepFlag(c) ==
  /\ Goto(c, "clear", "test")
  /\ UNCHANGED <<handler, event, pending, argument, session, orders, processVars,
                 histories>>

ClearFlag(c) ==
  /\ Goto(c, "clear", "test")
  /\ pending' = [pending EXCEPT ![c] = FALSE]
  /\ UNCHANGED <<handler, event, argument, session, orders, processVars,
                 histories>>

LoopStep(c) == TestFlag(c) \/ ReadEvent(c) \/ SendControl(c) \/ ClearFlag(c)

\* The process ends, and later OnConsole ends and its CExec is destructed.  With
\* the last one goes the preparation, with the orders it still holds.
SessionEnds(c) ==
  /\ \/ /\ session[c] = "running"
        /\ session' = [session EXCEPT ![c] = "exited"]
     \/ /\ session[c] = "exited"
        /\ session' = [session EXCEPT ![c] = "released"]
  /\ orders' = IF \A d \in Clients : session'[d] = "released" THEN <<>> ELSE orders
  /\ UNCHANGED <<handler, event, pending, loop, argument, processVars,
                 histories>>

-----------------------------------------------------------------------------
(* PrepareWindowStation.exe: ExecuteConsoleEventOrders.                    *)

Active == \E c \in Clients : session[c] # "released"

\* GetConsoleEventOrder takes the first order; it fails when the preparation
\* is gone, which ends WaitWhileActive.
TakeOrder ==
  /\ at = "poll" /\ Active /\ orders # <<>>
  /\ order' = Head(orders) /\ orders' = Tail(orders)
  /\ at' = "attach"
  /\ UNCHANGED <<clientVars, attached, histories>>

Leave ==
  /\ at = "poll" /\ ~Active
  /\ at' = "left"
  /\ UNCHANGED <<clientVars, orders, order, attached, histories>>

\* The order in hand is done with, while the process it is for runs.
Done(reached) ==
  outcomes' = IF session[order.client] = "running"
              THEN [outcomes EXCEPT ![order.client] =
                      Append(@, [event |-> order.event, reached |-> reached])]
              ELSE outcomes

\* AttachConsole fails if the process has ended, and if this process is still
\* attached to a console.  It may also fail for a process that runs: it has left its
\* console, or access is denied.  The order is forgotten then.
Attach ==
  /\ at = "attach" /\ attached = None /\ session[order.client] = "running"
  /\ at' = "handle" /\ attached' = order.client
  /\ UNCHANGED <<clientVars, orders, order, histories>>

AttachFails ==
  /\ at = "attach"
  /\ at' = "poll" /\ order' = None
  /\ IF attached = None THEN Done(FALSE) ELSE UNCHANGED outcomes
  /\ UNCHANGED <<clientVars, orders, attached, pressVars, stuck>>

\* The process registers its own handler.  If that fails it returns, and stays
\* attached to the console.
Register ==
  /\ at = "handle"
  /\ \/ at' = "generate" /\ UNCHANGED <<order, stuck>>
     \/ at' = "poll" /\ order' = None /\ stuck' = TRUE
  /\ UNCHANGED <<clientVars, orders, attached, pressVars, outcomes>>

\* The event reaches the processes on the console this process is attached to.
Generate ==
  /\ at = "generate" /\ at' = "free"
  /\ outcomes' = IF session[attached] = "running"
                 THEN [outcomes EXCEPT ![attached] =
                         Append(@, [event |-> order.event, reached |-> TRUE])]
                 ELSE outcomes
  /\ UNCHANGED <<clientVars, orders, order, attached, pressVars, stuck>>

\* GenerateConsoleCtrlEvent fails, and nobody looks at its result.
GenerateFails ==
  /\ at = "generate" /\ at' = "free"
  /\ Done(FALSE)
  /\ UNCHANGED <<clientVars, orders, order, attached, pressVars, stuck>>

\* Mutant: the console is not detached.
KeepConsole ==
  /\ at = "free" /\ at' = "poll"
  /\ order' = None
  /\ UNCHANGED <<clientVars, orders, attached, histories>>

Free ==
  /\ at = "free" /\ at' = "poll"
  /\ order' = None /\ attached' = None
  /\ UNCHANGED <<clientVars, orders, histories>>

\* FreeConsole fails: the process stays attached to the console.
FreeFails ==
  /\ at = "free" /\ at' = "poll"
  /\ order' = None /\ stuck' = TRUE
  /\ UNCHANGED <<clientVars, orders, attached, pressVars, outcomes>>

ProcessStep ==
  \/ TakeOrder \/ Leave \/ Attach \/ AttachFails \/ Register
  \/ Generate \/ GenerateFails \/ Free \/ FreeFails

Next ==
  \/ \E c \in Clients :
       \/ \E e \in Events : Press(c, e)
       \/ RaiseFlag(c) \/ LoopStep(c) \/ SessionEnds(c)
  \/ ProcessStep

Spec == Init /\ [][Next]_vars

\* The handlers, the loops and the process run on.
FairSpec ==
  /\ Spec
  /\ WF_vars(ProcessStep)
  /\ \A c \in Clients : WF_vars(RaiseFlag(c)) /\ WF_vars(LoopStep(c))

-----------------------------------------------------------------------------
(* Properties.                                                             *)

\* The events of a client among orders.
EventFor(c, o) == IF o.client = c THEN <<o.event>> ELSE <<>>
Of(c, os) == FlattenSeq([i \in DOMAIN os |-> EventFor(c, os[i])])

\* What is still to be delivered of the order the process has taken.
InHand(c) ==
  IF order # None /\ at # "free" THEN EventFor(c, order) ELSE <<>>

\* What has become of a client's orders, and what they were.
Finished(c) == [i \in DOMAIN outcomes[c] |-> outcomes[c][i].event]

\* Orders of several clients go through one queue and one process and are
\* neither lost, nor swapped, nor delivered to the console of another client's
\* process: as long as its process runs, what a client has ordered is what is done
\* with, in that order, followed by what is on its way.  A failing AttachConsole or
\* GenerateConsoleCtrlEvent costs the order in hand and no other.  This ends when
\* the process once fails to register its handler or to detach from a console.
OrdersDelivered ==
  \A c \in Clients : session[c] = "running" /\ ~stuck =>
    sent[c] = Finished(c) \o InHand(c) \o Of(c, orders)

\* However the handler interleaves with the loop, orders are made from events at the
\* console, in their order, and never more of them than there were events so far.
\* An event that overwrites another before the loop has read it may make two orders,
\* the second in the place of the overwritten one: it is read between the event and
\* the flag of its handler.  No event makes three.
OrdersFollowPresses ==
  \A c \in Clients :
    LET s == sources[c]
    IN  /\ Len(sent[c]) = Len(s)
        /\ \A i \in 1..Len(s) :
             /\ i <= s[i] /\ s[i] <= Len(pressed[c])
             /\ sent[c][i] = pressed[c][s[i]]
        /\ \A i, j \in 1..Len(s) :
             /\ i < j => s[i] <= s[j]
             /\ i + 1 < j => s[i] < s[j]

\* An order is done with in the end, whatever the other clients order, unless the
\* process it is for ends first or a console was not detached from.
OrdersExecuted ==
  \A c \in Clients : \A n \in 1..MaxPresses[c] :
    Len(sent[c]) >= n ~> (Len(outcomes[c]) >= n \/ session[c] # "running" \/ stuck)

=============================================================================
