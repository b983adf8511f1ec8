----------------------------- MODULE EventEmitter -----------------------------
(***************************************************************************)
(* The analytics package's event emitter                                   *)
(* (packages/analytics/src/emitter/EventEmitter.ts): a queue of events     *)
(* that is drained synchronously, and lists of handlers by event name.     *)
(*                                                                         *)
(* The code is single-threaded but re-entrant.  A handler that flush is    *)
(* calling may itself call track, flush, on, off and clear, so that the    *)
(* state of the emitter is its fields together with the call stack of the  *)
(* flushes in progress.  User code runs when that stack is empty and while *)
(* its top frame is inside a handler.                                      *)
(***************************************************************************)
EXTENDS Integers, Sequences, FiniteSets, SequencesExt, Selections

CONSTANTS
  Names,        \* known event names
  UnknownName,  \* a name that is not in the EventName list
  Handlers,     \* functions that user code registers
  MaxEvents,    \* bound on the events accepted; the code has none
  MaxOns,       \* bound on calls of on; the code has none
  MaxFlushes    \* bound on calls of flush by user code; the code has none

ASSUME EmitterAssumption ==
  /\ UnknownName \notin Names
  /\ MaxEvents \in Nat /\ MaxOns \in Nat /\ MaxFlushes \in Nat

VARIABLES
  queue,        \* events waiting, named by the order in which they were tracked
  handlers,     \* handlers[n]: the array registered for n, <<>> if there is none
  draining,
  stack,        \* the flushes in progress, innermost last
  nameOf,       \* history: nameOf[e] is the name of event e
  log,          \* history: the calls of handlers, as [event, handler]
  begun,        \* history: events that left the queue to be delivered
  due,          \* history: due[e] are the handlers registered when e left it
  cleared,      \* history: events thrown away by clear
  ons,          \* history: how often on(n, h) was called
  flushes       \* history: how often user code called flush

vars == <<queue, handlers, draining, stack, nameOf, log, begun, due, cleared, ons, flushes>>

history == <<nameOf, log, begun, due, cleared, ons, flushes>>

\* A flush in progress.  While `attached' it iterates over the array that is
\* registered for its event's name; otherwise over an array of its own, which
\* nothing else refers to any more.
Frame == [phase : {"loop", "deliver", "handler"},
          event : 0 .. MaxEvents, index : Nat \ {0},
          attached : BOOLEAN, own : Seq(Handlers)]

NewFrame == [phase |-> "loop", event |-> 0, index |-> 1, attached |-> FALSE, own |-> <<>>]

Tracked == 1 .. Len(nameOf)

Iterated(f) == IF f.attached THEN handlers[nameOf[f.event]] ELSE f.own

Top == Last(stack)

ReplaceTop(f) == stack' = Append(Front(stack), f)

\* Control is with user code: at top level, or in a handler that flush called.
UserCode == stack # <<>> => Top.phase = "handler"

-----------------------------------------------------------------------------

Init ==
  /\ queue = <<>>
  /\ handlers = [n \in Names |-> <<>>]
  /\ draining = FALSE
  /\ stack = <<>>
  /\ nameOf = <<>>
  /\ log = <<>>
  /\ begun = {}
  /\ due = [e \in 1 .. MaxEvents |-> {}]
  /\ cleared = {}
  /\ ons = [n \in Names |-> [h \in Handlers |-> 0]]
  /\ flushes = 0

\* on pushes onto the array in place, so that a flush that iterates over that
\* array will come to the new handler too.
On(n, h) ==
  /\ UserCode
  /\ FoldFunction(LAMBDA counts, sum : sum + FoldFunction(+, 0, counts), 0, ons) < MaxOns
  /\ handlers' = [handlers EXCEPT ![n] = Append(@, h)]
  /\ ons' = [ons EXCEPT ![n][h] = @ + 1]
  /\ UNCHANGED <<queue, draining, stack, nameOf, log, begun, due, cleared, flushes>>

\* The list s with no occurrence of h left in it.
Without(s, h) == Selection(s, {i \in 1 .. Len(s) : s[i] # h})

\* Mutant: off splices the shared array instead of replacing it.
OffInPlace(n, h) ==
  /\ UserCode
  /\ handlers[n] # <<>>
  /\ handlers' = [handlers EXCEPT ![n] = Without(@, h)]
  /\ UNCHANGED <<queue, draining, stack, history>>

\* off registers a filtered copy, or nothing; a flush that iterates over the old
\* array keeps it.
Off(n, h) ==
  /\ UserCode
  /\ handlers[n] # <<>>
  /\ handlers' = [handlers EXCEPT ![n] = Without(@, h)]
  /\ stack' = [i \in DOMAIN stack |->
                 IF stack[i].attached /\ nameOf[stack[i].event] = n
                   THEN [stack[i] EXCEPT !.attached = FALSE, !.own = handlers[n]]
                   ELSE stack[i]]
  /\ UNCHANGED <<queue, draining, history>>

\* Mutant: an unknown name is queued after the warning.
TrackUnknownAnyway(n) ==
  /\ UserCode
  /\ n \notin Names
  /\ Len(nameOf) < MaxEvents
  /\ nameOf' = Append(nameOf, n)
  /\ queue' = Append(queue, Len(nameOf) + 1)
  /\ UNCHANGED <<handlers, draining, stack, log, begun, due, cleared, ons, flushes>>

\* track of a name that is not in the list only warns.
TrackUnknown(n) ==
  /\ UserCode
  /\ n \notin Names
  /\ UNCHANGED vars

\* Mutant: track flushes without looking at draining.
TrackAlwaysFlushes(n) ==
  /\ UserCode
  /\ n \in Names
  /\ Len(nameOf) < MaxEvents
  /\ nameOf' = Append(nameOf, n)
  /\ queue' = Append(queue, Len(nameOf) + 1)
  /\ draining' = TRUE
  /\ stack' = Append(stack, NewFrame)
  /\ UNCHANGED <<handlers, log, begun, due, cleared, ons, flushes>>

\* track queues the event, and drains the queue unless somebody is doing so.
Track(n) ==
  /\ UserCode
  /\ n \in Names
  /\ Len(nameOf) < MaxEvents
  /\ nameOf' = Append(nameOf, n)
  /\ queue' = Append(queue, Len(nameOf) + 1)
  /\ draining' = TRUE
  /\ stack' = IF draining THEN stack ELSE Append(stack, NewFrame)
  /\ UNCHANGED <<handlers, log, begun, due, cleared, ons, flushes>>

\* flush is public: it drains even while another flush is in progress.
Flush ==
  /\ UserCode
  /\ flushes < MaxFlushes
  /\ flushes' = flushes + 1
  /\ stack' = Append(stack, NewFrame)
  /\ UNCHANGED <<queue, handlers, draining, nameOf, log, begun, due, cleared, ons>>

Clear ==
  /\ UserCode
  /\ cleared' = cleared \cup ToSet(queue)
  /\ queue' = <<>>
  /\ UNCHANGED <<handlers, draining, stack, nameOf, log, begun, due, ons, flushes>>

\* The while loop of flush takes the oldest event and looks up its handlers.
NextEvent ==
  /\ stack # <<>> /\ Top.phase = "loop"
  /\ queue # <<>>
  /\ LET e == Head(queue)
         registered == handlers[nameOf[e]] IN
       /\ ReplaceTop([phase |-> "deliver", event |-> e, index |-> 1,
                      attached |-> registered # <<>>, own |-> <<>>])
       /\ begun' = begun \cup {e}
       /\ due' = [due EXCEPT ![e] = ToSet(registered)]
  /\ queue' = Tail(queue)
  /\ UNCHANGED <<handlers, draining, nameOf, log, cleared, ons, flushes>>

\* Mutant: flush waits for draining, which a nested flush has reset.
FlushReturnsDraining ==
  /\ stack # <<>> /\ Top.phase = "loop"
  /\ queue = <<>>
  /\ draining
  /\ draining' = FALSE
  /\ stack' = Front(stack)
  /\ UNCHANGED <<queue, handlers, history>>

\* The while loop of flush finds the queue empty: flush resets draining, even
\* if it was called from a handler of a flush that goes on, and returns.
FlushReturns ==
  /\ stack # <<>> /\ Top.phase = "loop"
  /\ queue = <<>>
  /\ draining' = FALSE
  /\ stack' = Front(stack)
  /\ UNCHANGED <<queue, handlers, history>>

\* The for loop calls the next handler, or is done with the event.
CallHandler ==
  /\ stack # <<>> /\ Top.phase = "deliver"
  /\ Top.index <= Len(Iterated(Top))
  /\ ReplaceTop([Top EXCEPT !.phase = "handler"])
  /\ log' = Append(log, [event |-> Top.event, handler |-> Iterated(Top)[Top.index]])
  /\ UNCHANGED <<queue, handlers, draining, nameOf, begun, due, cleared, ons, flushes>>

EventDone ==
  /\ stack # <<>> /\ Top.phase = "deliver"
  /\ Top.index > Len(Iterated(Top))
  /\ ReplaceTop(NewFrame)
  /\ UNCHANGED <<queue, handlers, draining, history>>

\* Mutant: the catch around a handler call is missing, so that an exception
\* unwinds every flush in progress.
HandlerThrowsThrough ==
  /\ stack # <<>> /\ Top.phase = "handler"
  /\ stack' = <<>>
  /\ UNCHANGED <<queue, handlers, draining, history>>

\* Mutant: the catch stands around the for loop, so that an exception skips the
\* remaining handlers.
HandlerThrowsPastLoop ==
  /\ stack # <<>> /\ Top.phase = "handler"
  /\ ReplaceTop(NewFrame)
  /\ UNCHANGED <<queue, handlers, draining, history>>

\* Mutant: the for loop forgets to go on to the next handler.
HandlerEndsInPlace ==
  /\ stack # <<>> /\ Top.phase = "handler"
  /\ ReplaceTop([Top EXCEPT !.phase = "deliver"])
  /\ UNCHANGED <<queue, handlers, draining, history>>

\* A handler returns, or throws and is caught: the for loop goes on either way.
HandlerEnds ==
  /\ stack # <<>> /\ Top.phase = "handler"
  /\ ReplaceTop([Top EXCEPT !.phase = "deliver", !.index = @ + 1])
  /\ UNCHANGED <<queue, handlers, draining, history>>

User ==
  \/ \E n \in Names, h \in Handlers : On(n, h) \/ Off(n, h)
  \/ \E n \in Names \cup {UnknownName} : TrackUnknown(n) \/ Track(n)
  \/ Flush
  \/ Clear

Emitter == NextEvent \/ FlushReturns \/ CallHandler \/ EventDone

Next == User \/ Emitter \/ HandlerEnds

Spec == Init /\ [][Next]_vars

\* The emitter runs synchronously, and each call of a handler comes to an end.
\* That does not make a flush end, see FlushEnds.
FairSpec == Spec /\ WF_vars(Emitter) /\ WF_vars(HandlerEnds)

-----------------------------------------------------------------------------
(* Properties *)

\* Type invariant.
TypeOK ==
  /\ nameOf \in Seq(Names) /\ Len(nameOf) <= MaxEvents
  /\ queue \in Seq(Tracked)
  /\ handlers \in [Names -> Seq(Handlers)]
  /\ draining \in BOOLEAN
  /\ stack \in Seq(Frame)
  /\ \A i \in 1 .. Len(stack) : stack[i].phase # "loop" => stack[i].event \in Tracked
  /\ log \in Seq([event : Tracked, handler : Handlers])
  /\ cleared \subseteq Tracked

\* When no flush is in progress the emitter is at rest: nothing waits in the
\* queue, and draining does not stay set, which would make every later track
\* queue its event for nobody.
AtRestWhenIdle == stack = <<>> => queue = <<>> /\ ~draining

HandledBy(e, h) == {i \in 1 .. Len(log) : log[i] = [event |-> e, handler |-> h]}

InProgress == {stack[i].event : i \in {j \in 1 .. Len(stack) : stack[j].phase # "loop"}}

\* No event is lost or kept: each event tracked is waiting, thrown away by
\* clear, in delivery, or was handed to every handler that was registered when
\* its delivery began - whatever handlers throw, register or remove meanwhile.
EveryHandlerIsCalled ==
  \A e \in Tracked :
    \/ e \in ToSet(queue) \cup cleared \cup InProgress
    \/ e \in begun /\ \A h \in due[e] : HandledBy(e, h) # {}

\* A handler is called for an event no more often than it was registered for the
\* event's name, even if flushes are nested and handlers come and go.
NoDuplicateCalls ==
  \A e \in Tracked, h \in Handlers :
    Cardinality(HandledBy(e, h)) <= ons[nameOf[e]][h]

\* As long as user code leaves flush alone, events are delivered one at a time
\* in the order in which they were tracked: every handler is done with one
\* before any handler sees the next.
InOrderWithoutFlush ==
  flushes = 0 =>
    /\ Len(stack) <= 1
    /\ \A i, j \in 1 .. Len(log) : i < j => log[i].event <= log[j].event

\* The calls that give a flush in progress more to do.
Prolong == Flush \/ \E n \in Names : Track(n) \/ \E h \in Handlers : On(n, h)

\* Handlers make finitely many such calls.  Nothing in the code sees to that: a
\* handler that tracks an event whenever it is called, or that each time registers
\* another handler like itself for its own event, returns from every call and
\* keeps flush going for ever.
HandlersRelent == <>[][stack # <<>> => ~Prolong]_vars

\* If each call of a handler comes to an end and handlers track, register and
\* flush finitely often, every flush ends: control returns to the top level with
\* all events delivered or cleared, however flushes were nested.
FlushEnds == HandlersRelent => (stack # <<>> ~> stack = <<>>)
=============================================================================
