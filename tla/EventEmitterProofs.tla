--------------------------- MODULE EventEmitterProofs ---------------------------
(***************************************************************************)
(* The emitter comes to rest, keeps the order of events and calls every    *)
(* handler that it should and none too often, for any number of events,    *)
(* handlers, registrations and nested flushes.                             *)
(***************************************************************************)
EXTENDS EventEmitter, FiniteSetTheorems, FunctionTheorems, SequenceTheorems, TLAPS

\* Frames whose lists are in O.
FrameOf(O) ==
  [phase : {"loop", "deliver", "handler"}, event : Nat, index : Nat, attached : BOOLEAN, own : O]

StackIsSequence == \E O : stack \in Seq(FrameOf(O))
LogIsSequence == \E H : log \in Seq([event : Nat, handler : H])

\* Events wait in the order in which they were tracked, behind all that left.
QueueIsOrdered ==
  /\ nameOf \in Seq(Names) /\ queue \in Seq(Nat) /\ begun \subseteq Nat /\ flushes \in Nat
  /\ \A i, j \in 1 .. Len(queue) : i < j => queue[i] < queue[j]
  /\ \A i \in 1 .. Len(queue) : queue[i] <= Len(nameOf) /\ \A e \in begun : e < queue[i]
  /\ \A e \in begun : e <= Len(nameOf)

Shape == StackIsSequence /\ LogIsSequence /\ QueueIsOrdered

LogInOrder ==
  /\ \A i \in 1 .. Len(log) : log[i].event \in begun
  /\ \A i, j \in 1 .. Len(log) : i < j => log[i].event <= log[j].event

\* As long as only track begins a flush there is one, which draining stands for,
\* and what it delivers is the latest event that left the queue.
OneFlush ==
  flushes = 0 =>
    /\ Len(stack) <= 1
    /\ stack # <<>> <=> draining
    /\ stack # <<>> /\ Top.phase # "loop" =>
         Top.event \in begun /\ \A e \in begun : e <= Top.event
    /\ LogInOrder

IInv == Shape /\ AtRestWhenIdle /\ draining \in BOOLEAN /\ OneFlush

Typed ==
  /\ TypeOK
  /\ begun \subseteq Tracked
  /\ due \in [1 .. MaxEvents -> SUBSET Handlers]
  /\ ons \in [Names -> [Handlers -> Nat]]

\* Where h occurs in the list s.
Positions(s, h) == {k \in 1 .. Len(s) : s[k] = h}

\* The positions of its list that frame f has called so far.
Called(f) == {k \in 1 .. f.index : k < f.index \/ f.phase = "handler"}

\* Frame f delivers its event to the handlers of its list in turn: the list still
\* holds all that are due, and each call so far is that of a position of its own.
Delivers(f) ==
  /\ f.event \in begun
  /\ Called(f) \subseteq 1 .. Len(Iterated(f))
  /\ \A h \in due[f.event] : Positions(Iterated(f), h) # {}
  /\ \A k \in Called(f) : HandledBy(f.event, Iterated(f)[k]) # {}
  /\ \A h \in Handlers :
       /\ Cardinality(HandledBy(f.event, h)) <= Cardinality(Positions(Iterated(f), h) \cap Called(f))
       /\ Cardinality(Positions(Iterated(f), h)) <= ons[nameOf[f.event]][h]

Delivering == {i \in 1 .. Len(stack) : stack[i].phase # "loop"}

\* Each flush in progress delivers an event of its own, and a list never holds a
\* handler more often than it was registered.
DeliveryInv ==
  /\ \A i \in Delivering : Delivers(stack[i])
  /\ \A i, j \in Delivering : stack[i].event = stack[j].event => i = j
  /\ \A n \in Names, h \in Handlers : Cardinality(Positions(handlers[n], h)) <= ons[n][h]
  /\ \A l \in 1 .. Len(log) : log[l].event \in begun

CallsInv == Typed /\ DeliveryInv /\ EveryHandlerIsCalled /\ NoDuplicateCalls

-----------------------------------------------------------------------------
(* Sequences *)

LEMMA FunctionIsSeq ==
  ASSUME NEW S, NEW n \in Nat, NEW f \in [1 .. n -> S]
  PROVE  f \in Seq(S) /\ Len(f) = n
<1>1. f \in Seq(S)
  BY SeqDef
<1>2. DOMAIN f = 1 .. Len(f) /\ Len(f) \in Nat /\ DOMAIN f = 1 .. n
  BY <1>1, LenProperties
<1> QED
  BY <1>1, <1>2

LEMMA LastOfAppend ==
  ASSUME NEW S, NEW s \in Seq(S), NEW e \in S
  PROVE  /\ Append(s, e) \in Seq(S) /\ Append(s, e) # <<>>
         /\ Len(Append(s, e)) = Len(s) + 1 /\ Last(Append(s, e)) = e
         /\ \A i \in 1 .. Len(s) : Append(s, e)[i] = s[i]
<1>1. /\ Append(s, e) \in Seq(S) /\ Append(s, e) # <<>> /\ Len(Append(s, e)) = Len(s) + 1
      /\ \A i \in 1 .. Len(s) : Append(s, e)[i] = s[i]
      /\ Append(s, e)[Len(s) + 1] = e
  BY AppendProperties
<1> DEFINE t == Append(s, e)
<1>2. Last(t) = t[Len(t)]
  BY DEF Last
<1> HIDE DEF t
<1>3. Last(t) = e
  BY <1>1, <1>2 DEF t
<1> QED
  BY <1>1, <1>3 DEF t

LEMMA FrontOfSeq ==
  ASSUME NEW S, NEW s \in Seq(S), s # <<>>
  PROVE  Front(s) \in Seq(S) /\ Len(Front(s)) = Len(s) - 1 /\ Last(s) \in S
<1>1. Len(s) \in Nat \ {0} /\ \A i \in 1 .. Len(s) - 1 : s[i] \in S
  BY EmptySeq, LenProperties
<1>2. SubSeq(s, 1, Len(s) - 1) \in Seq(S) /\ Len(SubSeq(s, 1, Len(s) - 1)) = Len(s) - 1
  <2>1. 1 \in Int /\ Len(s) - 1 \in Int /\ \A i \in 1 .. Len(s) - 1 : s[i] \in S
    BY <1>1
  <2>2. /\ SubSeq(s, 1, Len(s) - 1) \in Seq(S)
        /\ Len(SubSeq(s, 1, Len(s) - 1)) = IF 1 <= Len(s) - 1 THEN (Len(s) - 1) - 1 + 1 ELSE 0
    BY <2>1, SubSeqProperties
  <2>3. \A n \in Nat \ {0} : (IF 1 <= n - 1 THEN (n - 1) - 1 + 1 ELSE 0) = n - 1
    OBVIOUS
  <2> QED
    BY <1>1, <2>2, <2>3
<1>3. s[Len(s)] \in S
  BY <1>1, ElementOfSeq
<1> QED
  BY <1>2, <1>3 DEF Front, Last

LEMMA ReplaceTopProperties ==
  ASSUME NEW S, stack \in Seq(S), stack # <<>>, NEW f \in S, ReplaceTop(f)
  PROVE  stack' \in Seq(S) /\ stack' # <<>> /\ Len(stack') = Len(stack) /\ Last(stack') = f
<1>1. Front(stack) \in Seq(S) /\ Len(Front(stack)) = Len(stack) - 1
  BY FrontOfSeq
<1>2. Len(stack) \in Nat
  BY LenProperties
<1> QED
  BY <1>1, <1>2, LastOfAppend DEF ReplaceTop

-----------------------------------------------------------------------------
(* User code *)

LEMMA InitInv == Init => IInv
<1> SUFFICES ASSUME Init PROVE IInv
  OBVIOUS
<1>1. /\ queue = <<>> /\ nameOf = <<>> /\ stack = <<>> /\ log = <<>> /\ begun = {} /\ flushes = 0
      /\ \A S : <<>> \in Seq(S) /\ Len(<<>>) = 0
  BY EmptySeq DEF Init
<1>2. StackIsSequence /\ LogIsSequence
  BY <1>1 DEF StackIsSequence, LogIsSequence
<1>3. Shape
  BY <1>1, <1>2 DEF Shape, QueueIsOrdered
<1>4. draining = FALSE
  BY DEF Init
<1>5. LogInOrder
  BY <1>1 DEF LogInOrder
<1>6. OneFlush
  BY <1>1, <1>4, <1>5 DEF OneFlush
<1> QED
  BY <1>1, <1>3, <1>4, <1>6 DEF IInv, AtRestWhenIdle

\* on and off change no more of the stack than the lists frames refer to.
LEMMA ListsKeep ==
  ASSUME IInv, UNCHANGED <<queue, draining, nameOf, log, begun, flushes>>,
         \/ UNCHANGED stack
         \/ \E n \in Names, h \in Handlers : Off(n, h)
  PROVE  IInv'
<1>1. PICK O : stack \in Seq(FrameOf(O))
  BY DEF IInv, Shape, StackIsSequence
<1>2. \E P : /\ stack' \in Seq(FrameOf(P)) /\ Len(stack') = Len(stack)
             /\ \A i \in 1 .. Len(stack) : stack'[i].phase = stack[i].phase /\ stack'[i].event = stack[i].event
  <2>1. CASE UNCHANGED stack
    BY <1>1, <2>1
  <2>2. CASE ~UNCHANGED stack
    <3>1. PICK n \in Names, h \in Handlers : Off(n, h)
      BY <2>2
    <3> DEFINE P == O \cup {handlers[n]}
               f == [i \in 1 .. Len(stack) |->
                       IF stack[i].attached /\ nameOf[stack[i].event] = n
                         THEN [stack[i] EXCEPT !.attached = FALSE, !.own = handlers[n]]
                         ELSE stack[i]]
    <3>2. Len(stack) \in Nat /\ DOMAIN stack = 1 .. Len(stack)
          /\ \A i \in 1 .. Len(stack) : stack[i] \in FrameOf(O)
      BY <1>1, LenProperties, ElementOfSeq
    <3>3. stack' = f
      BY <3>1, <3>2 DEF Off
    <3>4. \A i \in 1 .. Len(stack) : /\ f[i] \in FrameOf(P)
                                    /\ f[i].phase = stack[i].phase /\ f[i].event = stack[i].event
      BY <3>2 DEF FrameOf
    <3> HIDE DEF P
    <3>5. f \in [1 .. Len(stack) -> FrameOf(P)]
      BY <3>4
    <3> HIDE DEF f
    <3>6. f \in Seq(FrameOf(P)) /\ Len(f) = Len(stack)
      BY <3>2, <3>5, FunctionIsSeq
    <3> QED
      BY <3>3, <3>4, <3>6
  <2> QED
    BY <2>1, <2>2
<1>3. PICK P : /\ stack' \in Seq(FrameOf(P)) /\ Len(stack') = Len(stack)
               /\ \A i \in 1 .. Len(stack) : stack'[i].phase = stack[i].phase /\ stack'[i].event = stack[i].event
  BY <1>2
<1>4. stack' = <<>> <=> stack = <<>>
  BY <1>1, <1>3, EmptySeq
<1>5. stack # <<>> => Top'.phase = Top.phase /\ Top'.event = Top.event
  BY <1>1, <1>3, EmptySeq DEF Top, Last
<1>6. Shape'
  BY <1>3 DEF IInv, Shape, StackIsSequence, LogIsSequence, QueueIsOrdered
<1>7. AtRestWhenIdle' /\ draining' \in BOOLEAN
  BY <1>4 DEF IInv, AtRestWhenIdle
<1>8. OneFlush'
  BY <1>3, <1>4, <1>5 DEF IInv, OneFlush, LogInOrder
<1> QED
  BY <1>6, <1>7, <1>8 DEF IInv

\* A flush begins.
LEMMA PushedFrame ==
  ASSUME StackIsSequence, stack' = Append(stack, NewFrame)
  PROVE  /\ StackIsSequence' /\ stack' # <<>>
         /\ Len(stack') = Len(stack) + 1 /\ Top' = NewFrame
<1>1. PICK O : stack \in Seq(FrameOf(O))
  BY DEF StackIsSequence
<1> DEFINE P == O \cup {<<>>}
<1>2. FrameOf(O) \subseteq FrameOf(P) /\ NewFrame \in FrameOf(P)
  BY DEF FrameOf, NewFrame
<1>3. stack \in Seq(FrameOf(P))
  BY <1>1, <1>2, SeqMonotonic
<1>4. /\ Append(stack, NewFrame) \in Seq(FrameOf(P)) /\ Append(stack, NewFrame) # <<>>
      /\ Len(Append(stack, NewFrame)) = Len(stack) + 1 /\ Last(Append(stack, NewFrame)) = NewFrame
  BY <1>2, <1>3, LastOfAppend
<1> QED
  BY <1>4 DEF StackIsSequence, Top

LEMMA TrackKeeps == ASSUME IInv, NEW n, Track(n) PROVE IInv'
<1>1. /\ n \in Names /\ nameOf' = Append(nameOf, n) /\ queue' = Append(queue, Len(nameOf) + 1)
      /\ draining' = TRUE /\ stack' = IF draining THEN stack ELSE Append(stack, NewFrame)
      /\ UNCHANGED <<log, begun, flushes>>
  BY DEF Track
<1>2. /\ nameOf \in Seq(Names) /\ queue \in Seq(Nat) /\ Len(nameOf) \in Nat /\ Len(queue) \in Nat
  BY LenProperties DEF IInv, Shape, QueueIsOrdered
<1>3. /\ nameOf' \in Seq(Names) /\ Len(nameOf') = Len(nameOf) + 1
      /\ queue' \in Seq(Nat) /\ Len(queue') = Len(queue) + 1
      /\ \A i \in 1 .. Len(queue) : queue'[i] = queue[i]
      /\ queue'[Len(queue) + 1] = Len(nameOf) + 1
  BY <1>1, <1>2, AppendProperties
<1>4. QueueIsOrdered'
  <2>1. \A i \in 1 .. Len(queue) :
          /\ queue[i] \in Nat /\ queue[i] <= Len(nameOf) /\ \A e \in begun : e < queue[i]
          /\ \A j \in 1 .. Len(queue) : i < j => queue[i] < queue[j]
    BY <1>2, ElementOfSeq DEF IInv, Shape, QueueIsOrdered
  <2>2. \A i \in 1 .. Len(queue') : i \in 1 .. Len(queue) \/ i = Len(queue) + 1
    BY <1>2, <1>3
  <2>3. \A e \in begun : e \in Nat /\ e < Len(nameOf) + 1
    BY <1>2 DEF IInv, Shape, QueueIsOrdered
  <2>4. ASSUME NEW i \in 1 .. Len(queue')
        PROVE  /\ queue'[i] <= Len(nameOf') /\ \A e \in begun : e < queue'[i]
               /\ \A j \in 1 .. Len(queue') : i < j => queue'[i] < queue'[j]
    <3>1. CASE i \in 1 .. Len(queue)
      <4>1. queue'[i] \in Nat /\ queue'[i] <= Len(nameOf) /\ \A e \in begun : e < queue'[i]
        BY <1>3, <2>1, <3>1
      <4>2. ASSUME NEW j \in 1 .. Len(queue'), i < j PROVE queue'[i] < queue'[j]
        <5>1. CASE j \in 1 .. Len(queue)
          BY <1>3, <2>1, <3>1, <4>2, <5>1
        <5>2. CASE j = Len(queue) + 1
          BY <1>2, <1>3, <4>1, <5>2
        <5> QED
          BY <2>2, <5>1, <5>2
      <4> QED
        BY <1>2, <1>3, <4>1, <4>2
    <3>2. CASE i = Len(queue) + 1
      BY <1>2, <1>3, <2>3, <3>2
    <3> QED
      BY <2>2, <3>1, <3>2
  <2>5. \A e \in begun : e <= Len(nameOf')
    BY <1>2, <1>3, <2>3
  <2> QED
    BY <1>1, <1>3, <2>4, <2>5 DEF IInv, Shape, QueueIsOrdered
<1>5. CASE draining
  <2>1. UNCHANGED stack /\ stack # <<>>
    BY <1>1, <1>5 DEF IInv, AtRestWhenIdle
  <2> QED
    BY <1>1, <1>4, <1>5, <2>1
    DEF IInv, Shape, StackIsSequence, LogIsSequence, AtRestWhenIdle, OneFlush, LogInOrder, Top
<1>6. CASE ~draining
  <2>1. StackIsSequence' /\ stack' # <<>> /\ Len(stack') = Len(stack) + 1 /\ Top' = NewFrame
    BY <1>1, <1>6, PushedFrame DEF IInv, Shape
  <2>2. flushes = 0 => Len(stack') <= 1
    BY <1>6, <2>1, EmptySeq DEF IInv, OneFlush, LogInOrder
  <2> QED
    BY <1>1, <1>4, <2>1, <2>2
    DEF IInv, Shape, LogIsSequence, AtRestWhenIdle, OneFlush, LogInOrder, NewFrame
<1> QED
  BY <1>5, <1>6 DEF IInv

LEMMA FlushKeeps == ASSUME IInv, Flush PROVE IInv'
<1>1. StackIsSequence' /\ stack' # <<>>
  BY PushedFrame DEF Flush, IInv, Shape
<1>2. flushes' # 0 /\ flushes' \in Nat
  BY DEF Flush, IInv, Shape, QueueIsOrdered
<1> QED
  BY <1>1, <1>2 DEF Flush, IInv, Shape, LogIsSequence, QueueIsOrdered, AtRestWhenIdle, OneFlush

LEMMA ClearKeeps == ASSUME IInv, Clear PROVE IInv'
<1>1. queue' = <<>> /\ <<>> \in Seq(Nat) /\ Len(<<>>) = 0
  BY EmptySeq DEF Clear
<1>2. QueueIsOrdered'
  BY <1>1 DEF Clear, IInv, Shape, QueueIsOrdered
<1> QED
  BY <1>1, <1>2 DEF Clear, IInv, Shape, StackIsSequence, LogIsSequence, AtRestWhenIdle, OneFlush, LogInOrder, Top

-----------------------------------------------------------------------------
(* Flushes *)

LEMMA NextEventKeeps == ASSUME IInv, NextEvent PROVE IInv'
<1> DEFINE e == Head(queue)
           f == [phase |-> "deliver", event |-> e, index |-> 1,
                 attached |-> handlers[nameOf[e]] # <<>>, own |-> <<>>]
<1>1. /\ stack # <<>> /\ queue # <<>> /\ ReplaceTop(f)
      /\ begun' = begun \cup {e} /\ queue' = Tail(queue)
      /\ UNCHANGED <<draining, nameOf, log, flushes>>
  BY DEF NextEvent
<1>2. PICK O : stack \in Seq(FrameOf(O))
  BY DEF IInv, Shape, StackIsSequence
<1>3. queue \in Seq(Nat) /\ Len(queue) \in Nat \ {0} /\ begun \subseteq Nat /\ e = queue[1] /\ e \in Nat
  BY <1>1, EmptySeq, HeadTailProperties DEF IInv, Shape, QueueIsOrdered
<1>4. /\ queue' \in Seq(Nat) /\ Len(queue') = Len(queue) - 1
      /\ \A i \in 1 .. Len(queue') : queue'[i] = queue[i + 1]
  BY <1>1, <1>3, HeadTailProperties
<1>5. StackIsSequence' /\ stack' # <<>> /\ Len(stack') = Len(stack) /\ Top' = f
  <2> DEFINE P == O \cup {<<>>}
  <2>1. FrameOf(O) \subseteq FrameOf(P) /\ f \in FrameOf(P)
    BY <1>3 DEF FrameOf
  <2>2. stack \in Seq(FrameOf(P))
    BY <1>2, <2>1, SeqMonotonic
  <2> HIDE DEF f, P
  <2>3. stack' \in Seq(FrameOf(P)) /\ stack' # <<>> /\ Len(stack') = Len(stack) /\ Last(stack') = f
    BY <1>1, <2>1, <2>2, ReplaceTopProperties
  <2> QED
    BY <2>3 DEF StackIsSequence, Top
<1>6. \A b \in begun : b < e
  BY <1>3 DEF IInv, Shape, QueueIsOrdered
<1>7. QueueIsOrdered'
  <2>1. \A i \in 1 .. Len(queue') : i + 1 \in 1 .. Len(queue) /\ 1 \in 1 .. Len(queue)
    BY <1>3, <1>4
  <2>2. ASSUME NEW i \in 1 .. Len(queue')
        PROVE  queue'[i] <= Len(nameOf) /\ \A b \in begun' : b < queue'[i]
    <3>1. queue'[i] = queue[i + 1] /\ 1 < i + 1
      BY <1>4
    <3>2. queue[1] < queue[i + 1] /\ queue[i + 1] <= Len(nameOf) /\ \A b \in begun : b < queue[i + 1]
      BY <2>1, <3>1 DEF IInv, Shape, QueueIsOrdered
    <3> QED
      BY <1>1, <1>3, <3>1, <3>2
  <2>3. ASSUME NEW i \in 1 .. Len(queue'), NEW j \in 1 .. Len(queue'), i < j
        PROVE  queue'[i] < queue'[j]
    <3>1. queue'[i] = queue[i + 1] /\ queue'[j] = queue[j + 1] /\ i + 1 < j + 1
      BY <1>4, <2>3
    <3> QED
      BY <2>1, <3>1 DEF IInv, Shape, QueueIsOrdered
  <2>4. e <= Len(nameOf)
    BY <1>3 DEF IInv, Shape, QueueIsOrdered
  <2> QED
    BY <1>1, <1>3, <1>4, <2>2, <2>3, <2>4 DEF IInv, Shape, QueueIsOrdered
<1>8. LogIsSequence'
  BY <1>1 DEF IInv, Shape, LogIsSequence
<1>9. OneFlush'
  BY <1>1, <1>3, <1>5, <1>6 DEF IInv, OneFlush, LogInOrder
<1> QED
  BY <1>1, <1>5, <1>7, <1>8, <1>9 DEF IInv, Shape, AtRestWhenIdle

\* flush returns only when nothing waits; without other flushes it is the last.
LEMMA FlushReturnsKeeps == ASSUME IInv, FlushReturns PROVE IInv'
<1>1. /\ stack # <<>> /\ queue = <<>> /\ draining' = FALSE /\ stack' = Front(stack)
      /\ UNCHANGED <<queue, nameOf, log, begun, flushes>>
  BY DEF FlushReturns, history
<1>2. PICK O : stack \in Seq(FrameOf(O))
  BY DEF IInv, Shape, StackIsSequence
<1>3. stack' \in Seq(FrameOf(O)) /\ Len(stack') = Len(stack) - 1 /\ Len(stack) \in Nat \ {0}
  BY <1>1, <1>2, FrontOfSeq, EmptySeq
<1>4. flushes = 0 => stack' = <<>> /\ Len(stack') <= 1
  BY <1>3, EmptySeq DEF IInv, OneFlush, LogInOrder
<1>5. Shape'
  BY <1>1, <1>3 DEF IInv, Shape, StackIsSequence, LogIsSequence, QueueIsOrdered
<1> QED
  BY <1>1, <1>4, <1>5 DEF IInv, AtRestWhenIdle, OneFlush, LogInOrder

\* The top frame goes on, and perhaps calls a handler.
LEMMA FrameGoesOn ==
  ASSUME IInv, stack # <<>>, UNCHANGED <<queue, draining, nameOf, begun, flushes>>,
         LogIsSequence', NEW f, ReplaceTop(f),
         \A O : stack \in Seq(FrameOf(O)) => \E P : O \subseteq P /\ f \in FrameOf(P),
         f.phase # "loop" => Top.phase # "loop" /\ f.event = Top.event,
         flushes = 0 => LogInOrder'
  PROVE  IInv'
<1>1. PICK O : stack \in Seq(FrameOf(O))
  BY DEF IInv, Shape, StackIsSequence
<1>2. PICK P : O \subseteq P /\ f \in FrameOf(P)
  BY <1>1
<1>3. stack \in Seq(FrameOf(P))
  <2>1. FrameOf(O) \subseteq FrameOf(P)
    BY <1>2 DEF FrameOf
  <2> QED
    BY <1>1, <2>1, SeqMonotonic
<1>4. stack' \in Seq(FrameOf(P)) /\ stack' # <<>> /\ Len(stack') = Len(stack) /\ Last(stack') = f
  BY <1>2, <1>3, ReplaceTopProperties
<1>5. Shape'
  BY <1>4 DEF IInv, Shape, StackIsSequence, QueueIsOrdered
<1>6. OneFlush'
  BY <1>4 DEF IInv, OneFlush, LogInOrder, LogInOrder, Top
<1> QED
  BY <1>4, <1>5, <1>6 DEF IInv, AtRestWhenIdle

LEMMA TopIsFrame ==
  ASSUME stack # <<>>, NEW O, stack \in Seq(FrameOf(O))
  PROVE  Top \in FrameOf(O)
BY FrontOfSeq DEF Top

LEMMA SameLog ==
  ASSUME IInv, UNCHANGED <<log, begun>>
  PROVE  /\ LogIsSequence'
         /\ flushes = 0 => LogInOrder'
BY DEF IInv, Shape, LogIsSequence, OneFlush, LogInOrder

\* Without other flushes the event in delivery is the latest that left the queue,
\* so that a call for it comes after all calls before.
LEMMA CallHandlerKeeps == ASSUME IInv, CallHandler PROVE IInv'
<1> DEFINE h == Iterated(Top)[Top.index]
           call == [event |-> Top.event, handler |-> h]
           f == [Top EXCEPT !.phase = "handler"]
<1>1. /\ stack # <<>> /\ Top.phase = "deliver" /\ ReplaceTop(f) /\ log' = Append(log, call)
      /\ UNCHANGED <<queue, draining, nameOf, begun, flushes>>
  BY DEF CallHandler
<1>2. ASSUME NEW O, stack \in Seq(FrameOf(O)) PROVE f \in FrameOf(O) /\ f.event = Top.event
  BY <1>1, <1>2, TopIsFrame DEF FrameOf
<1>3. PICK O : stack \in Seq(FrameOf(O))
  BY DEF IInv, Shape, StackIsSequence
<1>4. Top.event \in Nat
  BY <1>1, <1>3, TopIsFrame DEF FrameOf
<1>5. PICK H : log \in Seq([event : Nat, handler : H])
  BY DEF IInv, Shape, LogIsSequence
<1>6. \E G : log' \in Seq([event : Nat, handler : G])
  <2> DEFINE G == H \cup {h}
  <2>1. [event : Nat, handler : H] \subseteq [event : Nat, handler : G] /\ call \in [event : Nat, handler : G]
    BY <1>4
  <2>2. log \in Seq([event : Nat, handler : G])
    BY <1>5, <2>1, SeqMonotonic
  <2> HIDE DEF call
  <2>3. log' \in Seq([event : Nat, handler : G])
    BY <1>1, <2>1, <2>2, AppendProperties
  <2> QED
    BY <2>3
<1>7. /\ Len(log') = Len(log) + 1 /\ Len(log) \in Nat
      /\ \A i \in 1 .. Len(log) : log'[i] = log[i]
      /\ log'[Len(log) + 1] = call
  <2> DEFINE S == [event : Nat, handler : H] \cup {call}
  <2>1. log \in Seq(S) /\ call \in S
    BY <1>5, SeqMonotonic
  <2> HIDE DEF S, call
  <2> QED
    BY <1>1, <2>1, AppendProperties, LenProperties
<1>8. ASSUME flushes = 0 PROVE LogInOrder'
  <2>1. Top.event \in begun /\ \A e \in begun : e <= Top.event
    BY <1>1, <1>8 DEF IInv, OneFlush
  <2>2. LogInOrder
    BY <1>8 DEF IInv, OneFlush
  <2>3. call.event = Top.event
    OBVIOUS
  <2> HIDE DEF call
  <2>4. \A i \in 1 .. Len(log') : i \in 1 .. Len(log) \/ i = Len(log) + 1
    BY <1>7
  <2>5. \A i \in 1 .. Len(log') : log'[i].event \in begun
    BY <1>7, <2>1, <2>2, <2>3, <2>4 DEF LogInOrder
  <2>6. ASSUME NEW i \in 1 .. Len(log'), NEW j \in 1 .. Len(log'), i < j
        PROVE  log'[i].event <= log'[j].event
    <3>1. i \in 1 .. Len(log)
      BY <1>7, <2>6
    <3>2. CASE j \in 1 .. Len(log)
      BY <1>7, <2>2, <2>6, <3>1, <3>2 DEF LogInOrder
    <3>3. CASE j = Len(log) + 1
      BY <1>7, <2>1, <2>2, <2>3, <3>1, <3>3 DEF LogInOrder
    <3> QED
      BY <2>4, <3>2, <3>3
  <2> QED
    BY <1>1, <2>5, <2>6 DEF LogInOrder
<1>9. f.phase # "loop" => Top.phase # "loop" /\ f.event = Top.event
  BY <1>1, <1>2, <1>3
<1> HIDE DEF f, call
<1>10. LogIsSequence'
  BY <1>6 DEF LogIsSequence
<1> QED
  BY <1>1, <1>2, <1>8, <1>9, <1>10, FrameGoesOn

LEMMA EventDoneKeeps == ASSUME IInv, EventDone PROVE IInv'
<1>1. /\ stack # <<>> /\ ReplaceTop(NewFrame)
      /\ UNCHANGED <<queue, draining, nameOf, log, begun, flushes>>
  BY DEF EventDone, history
<1>2. ASSUME NEW O PROVE NewFrame \in FrameOf(O \cup {<<>>})
  BY DEF FrameOf, NewFrame
<1>3. NewFrame.phase = "loop"
  BY DEF NewFrame
<1> QED
  BY <1>1, <1>2, <1>3, SameLog, FrameGoesOn

LEMMA HandlerEndsKeeps == ASSUME IInv, HandlerEnds PROVE IInv'
<1> DEFINE f == [Top EXCEPT !.phase = "deliver", !.index = @ + 1]
<1>1. /\ stack # <<>> /\ Top.phase = "handler" /\ ReplaceTop(f)
      /\ UNCHANGED <<queue, draining, nameOf, log, begun, flushes>>
  BY DEF HandlerEnds, history
<1>2. ASSUME NEW O, stack \in Seq(FrameOf(O)) PROVE f \in FrameOf(O) /\ f.event = Top.event
  <2>1. Top \in FrameOf(O)
    BY <1>1, <1>2, TopIsFrame
  <2>2. Top.index + 1 \in Nat
    BY <2>1 DEF FrameOf
  <2> DEFINE k == Top.index + 1
  <2> HIDE DEF k
  <2>3. [Top EXCEPT !.phase = "deliver", !.index = k] \in FrameOf(O)
    BY <2>1, <2>2 DEF FrameOf, k
  <2> QED
    BY <2>1, <2>3 DEF FrameOf, k
<1>3. PICK O : stack \in Seq(FrameOf(O))
  BY DEF IInv, Shape, StackIsSequence
<1>4. f.phase # "loop" => Top.phase # "loop" /\ f.event = Top.event
  BY <1>1, <1>2, <1>3
<1> HIDE DEF f
<1> QED
  BY <1>1, <1>2, <1>4, SameLog, FrameGoesOn

-----------------------------------------------------------------------------

\* The strengthened invariant, whatever handlers call.
THEOREM InvHolds == Spec => []IInv
<1>1. Init => IInv
  BY InitInv
<1>2. IInv /\ [Next]_vars => IInv'
  <2> SUFFICES ASSUME IInv, [Next]_vars PROVE IInv'
    OBVIOUS
  <2>1. CASE UNCHANGED vars
    BY <2>1, ListsKeep DEF vars
  <2>2. CASE \E n \in Names, h \in Handlers : On(n, h) \/ Off(n, h)
    BY <2>2, ListsKeep DEF On, Off, history
  <2>3. CASE \E n \in Names \cup {UnknownName} : TrackUnknown(n) \/ Track(n)
    BY <2>1, <2>3, TrackKeeps DEF TrackUnknown
  <2>4. CASE Flush \/ Clear
    BY <2>4, FlushKeeps, ClearKeeps
  <2>5. CASE Emitter \/ HandlerEnds
    BY <2>5, NextEventKeeps, FlushReturnsKeeps, CallHandlerKeeps, EventDoneKeeps, HandlerEndsKeeps DEF Emitter
  <2> QED
    BY <2>1, <2>2, <2>3, <2>4, <2>5 DEF Next, User
<1> QED
  BY <1>1, <1>2, PTL DEF Spec

\* Whatever nested flushes do to draining, the emitter is at rest when the last
\* of them returns: a later track is never queued for nobody (track, flush).
THEOREM ComesToRest == Spec => []AtRestWhenIdle
<1>1. IInv => AtRestWhenIdle
  BY DEF IInv
<1> QED
  BY <1>1, InvHolds, PTL

\* Events tracked by handlers wait for the one in delivery, and keep their order
\* (track, flush).
THEOREM TracksInOrder == Spec => []InOrderWithoutFlush
<1>1. IInv => InOrderWithoutFlush
  BY DEF IInv, OneFlush, LogInOrder, InOrderWithoutFlush
<1> QED
  BY <1>1, InvHolds, PTL

-----------------------------------------------------------------------------
(* Selections *)

\* Places count the members of a set of positions, in their order.
LEMMA PlaceIsMonotone ==
  ASSUME NEW I, IsFiniteSet(I), I \subseteq Nat
  PROVE  /\ Cardinality(I) \in Nat
         /\ \A i \in I : Place(I, i) \in 1 .. Cardinality(I)
         /\ \A i, k \in I : i < k => Place(I, i) < Place(I, k)
<1> DEFINE upTo(i) == {j \in I : j <= i}
<1>1. Cardinality(I) \in Nat
  BY FS_CardinalityType
<1>2. ASSUME NEW i \in I
      PROVE  /\ IsFiniteSet(upTo(i)) /\ i \in upTo(i)
             /\ Cardinality(upTo(i)) \in Nat \ {0} /\ Cardinality(upTo(i)) <= Cardinality(I)
  <2>1. upTo(i) \subseteq I /\ i \in upTo(i)
    OBVIOUS
  <2>2. IsFiniteSet(upTo(i)) /\ Cardinality(upTo(i)) <= Cardinality(I)
    BY <2>1, FS_Subset
  <2>3. Cardinality(upTo(i)) \in Nat /\ Cardinality(upTo(i)) # 0
    BY <2>1, <2>2, FS_CardinalityType, FS_EmptySet
  <2> QED
    BY <2>1, <2>2, <2>3
<1>3. ASSUME NEW i \in I, NEW k \in I, i < k
      PROVE  Cardinality(upTo(i)) < Cardinality(upTo(k))
  <2>1. upTo(i) \subseteq upTo(k) /\ k \in upTo(k) /\ k \notin upTo(i)
    <3>1. \A j \in I : j <= i => j <= k
      BY <1>3
    <3>2. ~(k <= i) /\ k <= k
      BY <1>3
    <3> QED
      BY <3>1, <3>2
  <2>2. Cardinality(upTo(i)) <= Cardinality(upTo(k)) /\ Cardinality(upTo(i)) # Cardinality(upTo(k))
    BY <1>2, <2>1, FS_Subset
  <2> QED
    BY <1>2, <2>2
<1>4. \A i : Place(I, i) = Cardinality(upTo(i))
  BY DEF Place
<1> HIDE DEF upTo
<1> QED
  BY <1>1, <1>2, <1>3, <1>4

\* Nth is the inverse of Place: every place up to the number of members is taken,
\* because no two members share one.
LEMMA NthProperties ==
  ASSUME NEW I, IsFiniteSet(I), I \subseteq Nat
  PROVE  /\ \A n \in 1 .. Cardinality(I) : Nth(I, n) \in I /\ Place(I, Nth(I, n)) = n
         /\ \A i \in I : Nth(I, Place(I, i)) = i
         /\ \A m, n \in 1 .. Cardinality(I) : m < n => Nth(I, m) < Nth(I, n)
<1> DEFINE f == [i \in I |-> Place(I, i)]
           T == 1 .. Cardinality(I)
<1>1. /\ Cardinality(I) \in Nat
      /\ \A i \in I : Place(I, i) \in T
      /\ \A i, k \in I : i < k => Place(I, i) < Place(I, k)
  BY PlaceIsMonotone
<1>2. \A i, k \in I : Place(I, i) = Place(I, k) => i = k
  BY <1>1
<1>3. IsFiniteSet(T) /\ Cardinality(T) = Cardinality(I)
  BY <1>1, FS_Interval
<1>4. f \in [I -> T] /\ \A i, k \in I : f[i] = f[k] => i = k
  BY <1>1, <1>2
<1> HIDE DEF T
<1>5. f \in Surjection(I, T)
  <2>1. f \in Injection(I, T)
    BY <1>4, Fun_IsInj
  <2> HIDE DEF f
  <2> QED
    BY <1>3, <2>1, FS_Injection
<1>6. \A n \in T : \E i \in I : Place(I, i) = n
  BY <1>5 DEF Surjection
<1>7. \A n \in T : Nth(I, n) \in I /\ Place(I, Nth(I, n)) = n
  BY <1>6 DEF Nth
<1>8. \A i \in I : Nth(I, Place(I, i)) = i
  BY <1>1, <1>2, <1>7
<1>9. ASSUME NEW m \in T, NEW n \in T, m < n PROVE Nth(I, m) < Nth(I, n)
  <2> DEFINE a == Nth(I, m)
             b == Nth(I, n)
  <2>1. a \in I /\ b \in I /\ a \in Nat /\ b \in Nat /\ Place(I, a) = m /\ Place(I, b) = n
    BY <1>7
  <2>2. m \in Nat /\ n \in Nat
    BY <1>1 DEF T
  <2> HIDE DEF a, b
  <2>3. ~(b < a) /\ b # a
    BY <1>1, <1>9, <2>1, <2>2
  <2>4. a < b
    BY <2>1, <2>3
  <2> QED
    BY <2>4 DEF a, b
<1> QED
  BY <1>7, <1>8, <1>9 DEF T

LEMMA PositionsAreFinite ==
  ASSUME NEW S, NEW s \in Seq(S), NEW h
  PROVE  /\ Positions(s, h) \subseteq 1 .. Len(s) /\ Positions(s, h) \subseteq Nat
         /\ IsFiniteSet(Positions(s, h)) /\ Cardinality(Positions(s, h)) \in Nat
<1>1. Len(s) \in Nat
  BY LenProperties
<1>2. IsFiniteSet(1 .. Len(s)) /\ 1 .. Len(s) \subseteq Nat
  BY <1>1, FS_Interval
<1>3. Positions(s, h) \subseteq 1 .. Len(s)
  BY DEF Positions
<1>4. IsFiniteSet(Positions(s, h))
  BY <1>2, <1>3, FS_Subset
<1> QED
  BY <1>2, <1>3, <1>4, FS_CardinalityType

LEMMA PositionsAfterAppend ==
  ASSUME NEW S, NEW s \in Seq(S), NEW e \in S, NEW h
  PROVE  /\ Positions(s, h) \subseteq Positions(Append(s, e), h)
         /\ h # e => Positions(Append(s, e), h) = Positions(s, h)
         /\ h = e => Positions(Append(s, e), h) = Positions(s, h) \cup {Len(s) + 1}
         /\ Cardinality(Positions(Append(s, e), h)) <= Cardinality(Positions(s, h)) + 1
<1> DEFINE t == Append(s, e)
<1>1. Len(s) \in Nat /\ Len(t) = Len(s) + 1
  BY AppendProperties, LenProperties
<1>2. \A i \in 1 .. Len(s) : t[i] = s[i]
  BY AppendProperties
<1>3. t[Len(s) + 1] = e
  BY AppendProperties
<1> HIDE DEF t
<1>4. \A i : i \in 1 .. Len(t) <=> i \in 1 .. Len(s) \/ i = Len(s) + 1
  BY <1>1
<1>5. Positions(s, h) \subseteq Positions(t, h)
  BY <1>2, <1>4 DEF Positions
<1>6. h # e => Positions(t, h) = Positions(s, h)
  BY <1>2, <1>3, <1>4 DEF Positions
<1>7. h = e => Positions(t, h) = Positions(s, h) \cup {Len(s) + 1}
  BY <1>2, <1>3, <1>4 DEF Positions
<1>8. IsFiniteSet(Positions(s, h)) /\ Cardinality(Positions(s, h)) \in Nat
  BY PositionsAreFinite
<1> DEFINE P == Positions(s, h)
<1>9. Cardinality(P \cup {Len(s) + 1}) = IF Len(s) + 1 \in P THEN Cardinality(P) ELSE Cardinality(P) + 1
  BY <1>8, FS_AddElement
<1>10. Cardinality(Positions(t, h)) <= Cardinality(P) + 1
  <2>1. Positions(t, h) = P \/ Positions(t, h) = P \cup {Len(s) + 1}
    BY <1>6, <1>7
  <2> HIDE DEF P
  <2>2. Cardinality(Positions(t, h)) = Cardinality(P) \/ Cardinality(Positions(t, h)) = Cardinality(P) + 1
    BY <1>9, <2>1
  <2>3. Cardinality(P) \in Nat
    BY <1>8 DEF P
  <2> QED
    BY <2>2, <2>3
<1> QED
  BY <1>5, <1>6, <1>7, <1>10 DEF t

\* A filtered list holds no handler more often than the list it was made from.
LEMMA WithoutProperties ==
  ASSUME NEW S, NEW s \in Seq(S), NEW g
  PROVE  /\ Without(s, g) \in Seq(S)
         /\ \A h : Cardinality(Positions(Without(s, g), h)) <= Cardinality(Positions(s, h))
<1> DEFINE I == {i \in 1 .. Len(s) : s[i] # g}
           t == Without(s, g)
<1>1. Len(s) \in Nat /\ I \subseteq 1 .. Len(s) /\ I \subseteq Nat
  BY LenProperties
<1>2. IsFiniteSet(I) /\ Cardinality(I) \in Nat
  <2>1. IsFiniteSet(1 .. Len(s))
    BY <1>1, FS_Interval
  <2>2. IsFiniteSet(I)
    BY <1>1, <2>1, FS_Subset
  <2> QED
    BY <2>2, FS_CardinalityType
<1>3. /\ \A n \in 1 .. Cardinality(I) : Nth(I, n) \in I
      /\ \A m, n \in 1 .. Cardinality(I) : m < n => Nth(I, m) < Nth(I, n)
  BY <1>1, <1>2, NthProperties
<1>4. t = [n \in 1 .. Cardinality(I) |-> s[Nth(I, n)]]
  BY DEF Without, Selection
<1>5. \A i \in 1 .. Len(s) : s[i] \in S
  BY ElementOfSeq
<1> HIDE DEF I, t
<1>6. t \in [1 .. Cardinality(I) -> S]
  BY <1>1, <1>3, <1>4, <1>5
<1>7. t \in Seq(S) /\ Len(t) = Cardinality(I)
  BY <1>2, <1>6, FunctionIsSeq
<1>8. ASSUME NEW h PROVE Cardinality(Positions(t, h)) <= Cardinality(Positions(s, h))
  <2> DEFINE f == [n \in Positions(t, h) |-> Nth(I, n)]
  <2>1. \A n \in Positions(t, h) : n \in 1 .. Cardinality(I) /\ s[Nth(I, n)] = h
    BY <1>4, <1>7 DEF Positions
  <2>2. \A n \in Positions(t, h) : Nth(I, n) \in Positions(s, h)
    BY <1>1, <1>3, <2>1 DEF Positions
  <2>3. \A m, n \in Positions(t, h) : Nth(I, m) = Nth(I, n) => m = n
    <3> SUFFICES ASSUME NEW m \in Positions(t, h), NEW n \in Positions(t, h), Nth(I, m) = Nth(I, n)
                 PROVE  m = n
      OBVIOUS
    <3>1. m \in 1 .. Cardinality(I) /\ n \in 1 .. Cardinality(I) /\ Nth(I, m) \in Nat
      BY <1>1, <1>3, <2>1
    <3>2. ~(m < n) /\ ~(n < m)
      BY <1>3, <3>1
    <3> QED
      BY <3>1, <3>2
  <2>4. f \in [Positions(t, h) -> Positions(s, h)]
    BY <2>2
  <2>5. f \in Injection(Positions(t, h), Positions(s, h))
    BY <2>3, <2>4, Fun_IsInj
  <2>6. IsFiniteSet(Positions(s, h))
    BY PositionsAreFinite
  <2> QED
    BY <2>5, <2>6, FS_Injection
<1> QED
  BY <1>7, <1>8 DEF t

-----------------------------------------------------------------------------
(* Types *)

\* The element last appended; the others stay.
LEMMA FramePushed ==
  ASSUME NEW S, stack \in Seq(S), NEW f \in S, stack' = Append(stack, f)
  PROVE  /\ stack' \in Seq(S) /\ Len(stack') = Len(stack) + 1 /\ Len(stack) \in Nat
         /\ stack'[Len(stack) + 1] = f
         /\ \A i \in 1 .. Len(stack) : stack'[i] = stack[i]
<1>1. Len(stack) \in Nat
  BY LenProperties
<1> QED
  BY <1>1, AppendProperties

LEMMA FrontElements ==
  ASSUME NEW S, NEW s \in Seq(S), s # <<>>
  PROVE  /\ Front(s) \in Seq(S) /\ Len(Front(s)) = Len(s) - 1 /\ Len(s) \in Nat \ {0}
         /\ Last(s) = s[Len(s)] /\ Last(s) \in S
         /\ \A i \in 1 .. Len(s) - 1 : Front(s)[i] = s[i]
<1>1. Len(s) \in Nat \ {0}
  BY EmptySeq, LenProperties
<1>2. Front(s) \in Seq(S) /\ Len(Front(s)) = Len(s) - 1 /\ Last(s) \in S
  BY FrontOfSeq
<1>3. \A i \in 1 .. Len(s) - 1 : Front(s)[i] = s[i]
  <2>1. 1 \in Int /\ Len(s) - 1 \in Int
    BY <1>1
  <2>2. Front(s) = [i \in 1 .. (1 + (Len(s) - 1) - 1) |-> s[i + 1 - 1]]
    BY <2>1 DEF Front
  <2>3. 1 + (Len(s) - 1) - 1 = Len(s) - 1 /\ \A i \in 1 .. Len(s) - 1 : i + 1 - 1 = i
    BY <1>1
  <2> QED
    BY <2>2, <2>3
<1> QED
  BY <1>1, <1>2, <1>3 DEF Last

LEMMA FramePopped ==
  ASSUME NEW S, stack \in Seq(S), stack # <<>>, stack' = Front(stack)
  PROVE  /\ stack' \in Seq(S) /\ Len(stack') = Len(stack) - 1 /\ Len(stack) \in Nat \ {0}
         /\ Top = stack[Len(stack)] /\ Top \in S
         /\ \A i \in 1 .. Len(stack') : stack'[i] = stack[i]
BY FrontElements DEF Top

LEMMA FrameReplaced ==
  ASSUME NEW S, stack \in Seq(S), stack # <<>>, NEW f \in S, ReplaceTop(f)
  PROVE  /\ stack' \in Seq(S) /\ Len(stack') = Len(stack) /\ Len(stack) \in Nat \ {0}
         /\ Top = stack[Len(stack)] /\ Top \in S
         /\ stack'[Len(stack)] = f
         /\ \A i \in 1 .. Len(stack) : i # Len(stack) => stack'[i] = stack[i]
<1> DEFINE s == Front(stack)
           n == Len(stack)
<1>1. /\ s \in Seq(S) /\ Len(s) = n - 1 /\ n \in Nat \ {0} /\ Top = stack[n] /\ Top \in S
      /\ \A i \in 1 .. n - 1 : s[i] = stack[i]
  BY FrontElements DEF Top
<1>2. stack' = Append(s, f)
  BY DEF ReplaceTop
<1> HIDE DEF s
<1>3. /\ stack' \in Seq(S) /\ Len(stack') = Len(s) + 1 /\ stack'[Len(s) + 1] = f
      /\ \A i \in 1 .. Len(s) : stack'[i] = s[i]
  BY <1>1, <1>2, AppendProperties
<1> QED
  BY <1>1, <1>3

LEMMA IteratedIsList ==
  ASSUME TypeOK, NEW f \in Frame, f.event \in Tracked
  PROVE  nameOf[f.event] \in Names /\ Iterated(f) \in Seq(Handlers)
<1>1. nameOf[f.event] \in Names
  BY ElementOfSeq DEF TypeOK, Tracked
<1>2. handlers[nameOf[f.event]] \in Seq(Handlers) /\ f.own \in Seq(Handlers)
  BY <1>1 DEF TypeOK, Frame
<1> QED
  BY <1>1, <1>2 DEF Iterated

LEMMA NewFrameIsFrame == NewFrame \in Frame /\ NewFrame.phase = "loop"
<1>1. 0 \in 0 .. MaxEvents /\ <<>> \in Seq(Handlers)
  BY EmptySeq, EmitterAssumption
<1> QED
  BY <1>1 DEF NewFrame, Frame

LEMMA InitTyped == Init => Typed
<1> SUFFICES ASSUME Init PROVE Typed
  OBVIOUS
<1>1. \A S : <<>> \in Seq(S) /\ Len(<<>>) = 0
  BY EmptySeq
<1>2. 0 <= MaxEvents
  BY EmitterAssumption
<1>3. handlers \in [Names -> Seq(Handlers)]
  BY <1>1 DEF Init
<1>4. /\ nameOf \in Seq(Names) /\ Len(nameOf) <= MaxEvents /\ queue \in Seq(Tracked) /\ draining \in BOOLEAN
      /\ stack \in Seq(Frame) /\ Len(stack) = 0 /\ log \in Seq([event : Tracked, handler : Handlers])
  BY <1>1, <1>2 DEF Init
<1>5. TypeOK
  BY <1>3, <1>4 DEF Init, TypeOK
<1> QED
  BY <1>5 DEF Init, Typed

LEMMA OnTyped == ASSUME Typed, NEW n \in Names, NEW h \in Handlers, On(n, h) PROVE Typed'
<1>1. Append(handlers[n], h) \in Seq(Handlers)
  BY AppendProperties DEF Typed, TypeOK
<1>2. handlers' \in [Names -> Seq(Handlers)]
  BY <1>1 DEF On, Typed, TypeOK
<1>3. ons' \in [Names -> [Handlers -> Nat]]
  <2>1. ons' = [ons EXCEPT ![n] = [ons[n] EXCEPT ![h] = ons[n][h] + 1]]
    BY DEF On
  <2>2. ons \in [Names -> [Handlers -> Nat]] /\ ons[n] \in [Handlers -> Nat] /\ ons[n][h] + 1 \in Nat
    BY DEF Typed
  <2>3. [ons[n] EXCEPT ![h] = ons[n][h] + 1] \in [Handlers -> Nat]
    BY <2>2
  <2> QED
    BY <2>1, <2>2, <2>3
<1> QED
  BY <1>2, <1>3 DEF On, Typed, TypeOK, Tracked

\* off leaves each frame in its place, and with a list.
LEMMA OffFrames ==
  ASSUME TypeOK, NEW n \in Names, NEW h \in Handlers, Off(n, h)
  PROVE  /\ stack' \in Seq(Frame) /\ Len(stack') = Len(stack)
         /\ \A i \in 1 .. Len(stack) :
              /\ stack[i] \in Frame /\ stack'[i] \in Frame
              /\ stack'[i].phase = stack[i].phase /\ stack'[i].event = stack[i].event
              /\ stack'[i].index = stack[i].index
              /\ \A g : g = stack'[i] /\ g.phase # "loop" => Iterated(g)' = Iterated(stack[i])
<1>1. Len(stack) \in Nat /\ DOMAIN stack = 1 .. Len(stack) /\ \A i \in 1 .. Len(stack) : stack[i] \in Frame
  BY ElementOfSeq, LenProperties DEF TypeOK
<1>2. \A i \in 1 .. Len(stack) :
        stack'[i] = IF stack[i].attached /\ nameOf[stack[i].event] = n
                      THEN [stack[i] EXCEPT !.attached = FALSE, !.own = handlers[n]]
                      ELSE stack[i]
  BY <1>1 DEF Off
<1>3. handlers[n] \in Seq(Handlers)
  BY DEF TypeOK
<1>4. ASSUME NEW i \in 1 .. Len(stack)
      PROVE  /\ stack'[i] \in Frame
             /\ stack'[i].phase = stack[i].phase /\ stack'[i].event = stack[i].event
             /\ stack'[i].index = stack[i].index
             /\ \A g : g = stack'[i] /\ g.phase # "loop" => Iterated(g)' = Iterated(stack[i])
  <2>1. CASE stack[i].attached /\ nameOf[stack[i].event] = n
    <3>1. stack'[i] = [stack[i] EXCEPT !.attached = FALSE, !.own = handlers[n]]
      BY <1>2, <2>1
    <3>2. stack'[i] \in Frame
      BY <1>1, <1>3, <3>1 DEF Frame
    <3>3. ~stack'[i].attached /\ stack'[i].own = handlers[n]
      BY <1>1, <3>1 DEF Frame
    <3>4. stack'[i].phase = stack[i].phase /\ stack'[i].event = stack[i].event /\ stack'[i].index = stack[i].index
      BY <1>1, <3>1 DEF Frame
    <3> QED
      BY <2>1, <3>2, <3>3, <3>4 DEF Iterated
  <2>2. CASE ~(stack[i].attached /\ nameOf[stack[i].event] = n)
    <3>1. stack'[i] = stack[i] /\ stack'[i] \in Frame
      BY <1>1, <1>2, <2>2
    <3>2. stack[i].attached /\ stack[i].phase # "loop" =>
            handlers'[nameOf'[stack[i].event]] = handlers[nameOf[stack[i].event]]
      <4> SUFFICES ASSUME stack[i].attached, stack[i].phase # "loop"
                   PROVE  handlers'[nameOf'[stack[i].event]] = handlers[nameOf[stack[i].event]]
        OBVIOUS
      <4>1. nameOf[stack[i].event] \in Names
        BY <1>1, IteratedIsList DEF TypeOK
      <4> QED
        BY <2>2, <4>1 DEF Off, history, TypeOK
    <3> QED
      BY <3>1, <3>2 DEF Iterated
  <2> QED
    BY <2>1, <2>2
<1>5. stack' \in [1 .. Len(stack) -> Frame]
  <2>1. stack' = [i \in 1 .. Len(stack) |-> stack'[i]]
    BY <1>1 DEF Off
  <2> QED
    BY <1>4, <2>1
<1>6. stack' \in Seq(Frame) /\ Len(stack') = Len(stack)
  BY <1>1, <1>5, FunctionIsSeq
<1> QED
  BY <1>1, <1>4, <1>6

LEMMA OffTyped == ASSUME Typed, NEW n \in Names, NEW h \in Handlers, Off(n, h) PROVE Typed'
<1>1. Without(handlers[n], h) \in Seq(Handlers)
  BY WithoutProperties DEF Typed, TypeOK
<1>2. handlers' \in [Names -> Seq(Handlers)]
  BY <1>1 DEF Off, Typed, TypeOK
<1>3. /\ stack' \in Seq(Frame) /\ Len(stack') = Len(stack)
      /\ \A i \in 1 .. Len(stack) : stack'[i].phase = stack[i].phase /\ stack'[i].event = stack[i].event
  BY OffFrames DEF Typed
<1> QED
  BY <1>2, <1>3 DEF Off, history, Typed, TypeOK, Tracked

\* What track makes of the names, and of a type that refers to them.
LEMMA TrackNames ==
  ASSUME Typed, NEW n \in Names, Track(n)
  PROVE  /\ nameOf' \in Seq(Names) /\ Len(nameOf') = Len(nameOf) + 1 /\ Len(nameOf') <= MaxEvents
         /\ Len(nameOf) + 1 \in Tracked' /\ Tracked \subseteq Tracked'
         /\ \A e \in Tracked' : e \in Tracked \/ e = Len(nameOf) + 1
         /\ \A e \in Tracked : nameOf'[e] = nameOf[e]
<1>1. nameOf' = Append(nameOf, n) /\ nameOf \in Seq(Names) /\ Len(nameOf) \in Nat /\ Len(nameOf) < MaxEvents
  BY LenProperties DEF Track, Typed, TypeOK
<1>2. /\ nameOf' \in Seq(Names) /\ Len(nameOf') = Len(nameOf) + 1
      /\ \A e \in 1 .. Len(nameOf) : nameOf'[e] = nameOf[e]
  BY <1>1, AppendProperties
<1>3. Len(nameOf') <= MaxEvents
  BY <1>1, <1>2, EmitterAssumption
<1> QED
  BY <1>1, <1>2, <1>3 DEF Tracked

\* A stack onto which a new flush is pushed keeps its type.
LEMMA FlushPushedTyped ==
  ASSUME Typed, stack' = Append(stack, NewFrame)
  PROVE  /\ stack' \in Seq(Frame)
         /\ \A i \in 1 .. Len(stack') : stack'[i].phase # "loop" => stack'[i].event \in Tracked
<1>1. stack \in Seq(Frame) /\ \A i \in 1 .. Len(stack) : stack[i].phase # "loop" => stack[i].event \in Tracked
  BY DEF Typed, TypeOK
<1>2. /\ stack' \in Seq(Frame) /\ Len(stack') = Len(stack) + 1 /\ Len(stack) \in Nat
      /\ stack'[Len(stack) + 1] = NewFrame
      /\ \A i \in 1 .. Len(stack) : stack'[i] = stack[i]
  <2>1. NewFrame \in Frame /\ stack \in Seq(Frame)
    BY <1>1, NewFrameIsFrame
  <2> HIDE DEF NewFrame, Frame
  <2> QED
    BY <2>1, FramePushed
<1>3. ASSUME NEW i \in 1 .. Len(stack'), stack'[i].phase # "loop"
      PROVE  stack'[i].event \in Tracked
  <2>1. i \in 1 .. Len(stack) \/ i = Len(stack) + 1
    BY <1>2, <1>3
  <2>2. i # Len(stack) + 1
    BY <1>2, <1>3, NewFrameIsFrame
  <2> QED
    BY <1>1, <1>2, <1>3, <2>1, <2>2
<1> QED
  BY <1>2, <1>3

LEMMA TrackTyped == ASSUME Typed, NEW n \in Names, Track(n) PROVE Typed'
<1>1. /\ nameOf' \in Seq(Names) /\ Len(nameOf') <= MaxEvents
      /\ Len(nameOf) + 1 \in Tracked' /\ Tracked \subseteq Tracked'
  BY TrackNames
<1>2. queue' \in Seq(Tracked')
  <2>1. queue \in Seq(Tracked')
    BY <1>1, SeqMonotonic DEF Typed, TypeOK
  <2>2. queue' = Append(queue, Len(nameOf) + 1)
    BY DEF Track
  <2> QED
    BY <1>1, <2>1, <2>2, AppendProperties
<1>3. log' \in Seq([event : Tracked', handler : Handlers])
  <2>1. log \in Seq([event : Tracked, handler : Handlers]) /\ log' = log
    BY DEF Track, Typed, TypeOK
  <2>2. [event : Tracked, handler : Handlers] \subseteq [event : Tracked', handler : Handlers]
    BY <1>1
  <2> QED
    BY <2>1, <2>2, SeqMonotonic
<1>4. stack' \in Seq(Frame) /\ \A i \in 1 .. Len(stack') : stack'[i].phase # "loop" => stack'[i].event \in Tracked
  <2>1. stack' = stack \/ stack' = Append(stack, NewFrame)
    BY DEF Track
  <2>2. CASE stack' = Append(stack, NewFrame)
    BY <2>2, FlushPushedTyped
  <2> QED
    BY <2>1, <2>2 DEF Typed, TypeOK
<1>5. /\ draining' \in BOOLEAN /\ begun' \subseteq Tracked /\ cleared' \subseteq Tracked
      /\ UNCHANGED <<handlers, due, ons>>
  BY DEF Track, Typed, TypeOK
<1>6. TypeOK'
  BY <1>1, <1>2, <1>3, <1>4, <1>5 DEF Typed, TypeOK
<1> QED
  BY <1>1, <1>5, <1>6 DEF Typed

LEMMA FlushTyped == ASSUME Typed, Flush PROVE Typed'
<1>1. stack' \in Seq(Frame) /\ \A i \in 1 .. Len(stack') : stack'[i].phase # "loop" => stack'[i].event \in Tracked
  BY FlushPushedTyped DEF Flush
<1> QED
  BY <1>1 DEF Flush, Typed, TypeOK, Tracked

LEMMA ClearTyped == ASSUME Typed, Clear PROVE Typed'
<1>1. ToSet(queue) \subseteq Tracked
  BY ElementOfSeq DEF ToSet, Typed, TypeOK
<1>2. <<>> \in Seq(Tracked)
  BY EmptySeq
<1> QED
  BY <1>1, <1>2 DEF Clear, Typed, TypeOK, Tracked

\* The oldest event, the handlers that are due, and the frame that delivers it.
LEMMA NextEventFrame ==
  ASSUME Typed, NextEvent, NEW e, e = Head(queue),
         NEW f, f = [phase |-> "deliver", event |-> e, index |-> 1,
                     attached |-> handlers[nameOf[e]] # <<>>, own |-> <<>>]
  PROVE  /\ e \in Tracked /\ e = queue[1] /\ Len(queue) \in Nat \ {0}
         /\ nameOf[e] \in Names /\ handlers[nameOf[e]] \in Seq(Handlers)
         /\ queue' \in Seq(Tracked) /\ \A i \in 1 .. Len(queue') : queue'[i] = queue[i + 1]
         /\ Len(queue') = Len(queue) - 1
         /\ f \in Frame /\ ReplaceTop(f) /\ Iterated(f) = handlers[nameOf[e]]
         /\ due' = [due EXCEPT ![e] = ToSet(handlers[nameOf[e]])] /\ begun' = begun \cup {e}
<1>1. queue \in Seq(Tracked) /\ queue # <<>> /\ queue' = Tail(queue)
  BY DEF NextEvent, Typed, TypeOK
<1>2. e \in Tracked /\ e = queue[1] /\ Len(queue) \in Nat \ {0}
  BY <1>1, EmptySeq, HeadTailProperties, LenProperties
<1>3. nameOf[e] \in Names /\ handlers[nameOf[e]] \in Seq(Handlers)
  BY <1>2, ElementOfSeq DEF Tracked, Typed, TypeOK
<1>4. f \in Frame
  <2>1. e \in 0 .. MaxEvents
    BY <1>2, EmitterAssumption, LenProperties DEF Tracked, Typed, TypeOK
  <2>2. <<>> \in Seq(Handlers)
    BY EmptySeq
  <2> QED
    BY <2>1, <2>2 DEF Frame
<1>5. Iterated(f) = handlers[nameOf[e]]
  BY DEF Iterated
<1>6. queue' \in Seq(Tracked) /\ Len(queue') = Len(queue) - 1 /\ \A i \in 1 .. Len(queue') : queue'[i] = queue[i + 1]
  BY <1>1, HeadTailProperties
<1> QED
  BY <1>2, <1>3, <1>4, <1>5, <1>6 DEF NextEvent

\* A frame takes the place of the top one.
LEMMA ReplacedTyped ==
  ASSUME TypeOK, stack # <<>>, NEW f \in Frame, ReplaceTop(f), f.phase # "loop" => f.event \in Tracked
  PROVE  /\ stack' \in Seq(Frame)
         /\ \A i \in 1 .. Len(stack') : stack'[i].phase # "loop" => stack'[i].event \in Tracked
<1>1. /\ stack' \in Seq(Frame) /\ Len(stack') = Len(stack) /\ stack'[Len(stack)] = f
      /\ \A i \in 1 .. Len(stack) : i # Len(stack) => stack'[i] = stack[i]
  BY FrameReplaced DEF TypeOK
<1> QED
  BY <1>1 DEF TypeOK

LEMMA NextEventTyped == ASSUME Typed, NextEvent PROVE Typed'
<1> DEFINE e == Head(queue)
           f == [phase |-> "deliver", event |-> e, index |-> 1,
                 attached |-> handlers[nameOf[e]] # <<>>, own |-> <<>>]
<1>1. f.event = e
  OBVIOUS
<1> HIDE DEF f, e
<1>2. /\ e \in Tracked /\ handlers[nameOf[e]] \in Seq(Handlers) /\ queue' \in Seq(Tracked)
      /\ f \in Frame /\ ReplaceTop(f)
      /\ due' = [due EXCEPT ![e] = ToSet(handlers[nameOf[e]])] /\ begun' = begun \cup {e}
  BY NextEventFrame DEF e, f
<1>3. /\ stack' \in Seq(Frame)
      /\ \A i \in 1 .. Len(stack') : stack'[i].phase # "loop" => stack'[i].event \in Tracked
  BY <1>1, <1>2, ReplacedTyped DEF NextEvent, Typed
<1>4. ToSet(handlers[nameOf[e]]) \subseteq Handlers
  BY <1>2, ElementOfSeq DEF ToSet
<1>5. due' \in [1 .. MaxEvents -> SUBSET Handlers]
  BY <1>2, <1>4 DEF Typed
<1>6. UNCHANGED <<handlers, draining, nameOf, log, cleared, ons>>
  BY DEF NextEvent
<1>7. TypeOK'
  BY <1>2, <1>3, <1>6 DEF Typed, TypeOK, Tracked
<1> QED
  BY <1>2, <1>5, <1>6, <1>7 DEF Typed, Tracked

\* The top frame, when it is in delivery.
LEMMA TopFrame ==
  ASSUME TypeOK, stack # <<>>
  PROVE  /\ Top \in Frame /\ Len(stack) \in 1 .. Len(stack) /\ Top = stack[Len(stack)]
         /\ Top.phase # "loop" =>
              /\ Len(stack) \in Delivering /\ Top.event \in Tracked
              /\ nameOf[Top.event] \in Names /\ Iterated(Top) \in Seq(Handlers)
<1>1. Len(stack) \in 1 .. Len(stack) /\ Top = stack[Len(stack)] /\ Top \in Frame
  BY FrontElements DEF Top, TypeOK
<1>2. Top.phase # "loop" => Len(stack) \in Delivering /\ Top.event \in Tracked
  BY <1>1 DEF Delivering, TypeOK
<1> QED
  BY <1>1, <1>2, IteratedIsList

LEMMA CalledFrame ==
  ASSUME TypeOK, stack # <<>>, Top.phase = "deliver",
         NEW f, f = [Top EXCEPT !.phase = "handler"]
  PROVE  /\ f \in Frame /\ f.phase = "handler" /\ f.event = Top.event
         /\ f.attached = Top.attached /\ f.own = Top.own
         /\ Top.index \in Nat \ {0} /\ Top.index \notin Called(Top)
         /\ Called(f) = Called(Top) \cup {Top.index}
<1>1. Top \in Frame
  BY TopFrame
<1>2. /\ f \in Frame /\ f.phase = "handler" /\ f.event = Top.event /\ f.index = Top.index
      /\ f.attached = Top.attached /\ f.own = Top.own /\ Top.index \in Nat \ {0}
  BY <1>1 DEF Frame
<1> QED
  BY <1>2 DEF Called

LEMMA EndedFrame ==
  ASSUME TypeOK, stack # <<>>, Top.phase = "handler",
         NEW f, f = [Top EXCEPT !.phase = "deliver", !.index = @ + 1]
  PROVE  /\ f \in Frame /\ f.phase = "deliver" /\ f.event = Top.event
         /\ f.attached = Top.attached /\ f.own = Top.own
         /\ Called(f) = Called(Top)
<1>1. Top \in Frame
  BY TopFrame
<1>2. Top.index \in Nat \ {0} /\ Top.index + 1 \in Nat \ {0}
  BY <1>1 DEF Frame
<1> DEFINE k == Top.index + 1
<1>3. k = Top.index + 1 /\ k \in Nat \ {0}
  BY <1>2
<1> HIDE DEF k
<1>4. f = [Top EXCEPT !.phase = "deliver", !.index = k]
  BY DEF k
<1>5. /\ f \in Frame /\ f.phase = "deliver" /\ f.event = Top.event /\ f.index = k
      /\ f.attached = Top.attached /\ f.own = Top.own
  BY <1>1, <1>3, <1>4 DEF Frame
<1>6. \A i : i \in 1 .. k /\ i < k <=> i \in 1 .. Top.index
  BY <1>2, <1>3
<1>7. Called(f) = 1 .. Top.index
  BY <1>5, <1>6 DEF Called
<1>8. Called(Top) = 1 .. Top.index
  BY DEF Called
<1> QED
  BY <1>5, <1>7, <1>8

LEMMA CallHandlerTyped ==
  ASSUME Typed, CallHandler
  PROVE  /\ Typed'
         /\ [event |-> Top.event, handler |-> Iterated(Top)[Top.index]]
              \in [event : Tracked, handler : Handlers]
<1> DEFINE f == [Top EXCEPT !.phase = "handler"]
           h == Iterated(Top)[Top.index]
           call == [event |-> Top.event, handler |-> h]
<1>1. /\ stack # <<>> /\ Top.phase = "deliver" /\ Top.index <= Len(Iterated(Top))
      /\ ReplaceTop(f) /\ log' = Append(log, call)
      /\ UNCHANGED <<queue, handlers, draining, nameOf, begun, due, cleared, ons, flushes>>
  BY DEF CallHandler
<1>2. Top.event \in Tracked /\ Iterated(Top) \in Seq(Handlers)
  BY <1>1, TopFrame DEF Typed
<1>3. f \in Frame /\ f.event = Top.event /\ Top.index \in Nat \ {0}
  BY <1>1, CalledFrame DEF Typed
<1>4. h \in Handlers
  BY <1>1, <1>2, <1>3, ElementOfSeq, LenProperties
<1>5. call \in [event : Tracked, handler : Handlers]
  BY <1>2, <1>4
<1> HIDE DEF f, call, h
<1>6. log' \in Seq([event : Tracked, handler : Handlers])
  BY <1>1, <1>5, AppendProperties DEF Typed, TypeOK
<1>7. /\ stack' \in Seq(Frame)
      /\ \A i \in 1 .. Len(stack') : stack'[i].phase # "loop" => stack'[i].event \in Tracked
  BY <1>1, <1>2, <1>3, ReplacedTyped DEF Typed
<1>8. TypeOK'
  BY <1>1, <1>6, <1>7 DEF Typed, TypeOK, Tracked
<1>9. Typed'
  BY <1>1, <1>8 DEF Typed, Tracked
<1> QED
  BY <1>5, <1>9 DEF call, h

\* The other steps of a flush leave everything but the stack and draining alone.
LEMMA StackTyped ==
  ASSUME Typed, draining' \in BOOLEAN, UNCHANGED <<queue, handlers, history>>, stack # <<>>,
         \/ stack' = Front(stack)
         \/ \E f \in Frame : ReplaceTop(f) /\ (f.phase # "loop" => f.event \in Tracked)
  PROVE  Typed'
<1>1. /\ stack' \in Seq(Frame)
      /\ \A i \in 1 .. Len(stack') : stack'[i].phase # "loop" => stack'[i].event \in Tracked
  <2>1. CASE stack' = Front(stack)
    <3>1. /\ stack' \in Seq(Frame) /\ Len(stack') = Len(stack) - 1 /\ Len(stack) \in Nat \ {0}
          /\ \A i \in 1 .. Len(stack') : stack'[i] = stack[i]
      BY <2>1, FramePopped DEF Typed, TypeOK
    <3>2. \A i \in 1 .. Len(stack') : i \in 1 .. Len(stack)
      BY <3>1
    <3> QED
      BY <3>1, <3>2 DEF Typed, TypeOK
  <2>2. CASE \E f \in Frame : ReplaceTop(f) /\ (f.phase # "loop" => f.event \in Tracked)
    BY <2>2, ReplacedTyped DEF Typed
  <2> QED
    BY <2>1, <2>2
<1> QED
  BY <1>1 DEF history, Typed, TypeOK, Tracked

LEMMA NextTyped == Typed /\ [Next]_vars => Typed'
<1> SUFFICES ASSUME Typed, [Next]_vars PROVE Typed'
  OBVIOUS
<1>1. CASE UNCHANGED vars
  BY <1>1 DEF vars, Typed, TypeOK, Tracked
<1>2. CASE \E n \in Names, h \in Handlers : On(n, h) \/ Off(n, h)
  BY <1>2, OnTyped, OffTyped
<1>3. CASE \E n \in Names \cup {UnknownName} : TrackUnknown(n) \/ Track(n)
  BY <1>1, <1>3, TrackTyped DEF TrackUnknown, Track
<1>4. CASE Flush \/ Clear \/ NextEvent \/ CallHandler
  BY <1>4, FlushTyped, ClearTyped, NextEventTyped, CallHandlerTyped
<1>5. CASE FlushReturns
  BY <1>5, StackTyped DEF FlushReturns
<1>6. CASE EventDone
  BY <1>6, StackTyped, NewFrameIsFrame DEF EventDone, Typed, TypeOK
<1>7. CASE HandlerEnds
  <2> DEFINE f == [Top EXCEPT !.phase = "deliver", !.index = @ + 1]
  <2>1. /\ stack # <<>> /\ Top.phase = "handler" /\ ReplaceTop(f)
        /\ UNCHANGED <<queue, handlers, draining, history>>
    BY <1>7 DEF HandlerEnds
  <2>2. f \in Frame /\ f.event = Top.event /\ Top.event \in Tracked
    BY <2>1, EndedFrame, TopFrame DEF Typed
  <2> HIDE DEF f
  <2>3. draining' \in BOOLEAN
    BY <2>1 DEF Typed, TypeOK
  <2> QED
    BY <2>1, <2>2, <2>3, StackTyped
<1> QED
  BY <1>1, <1>2, <1>3, <1>4, <1>5, <1>6, <1>7 DEF Next, User, Emitter

\* Type correctness (EventEmitter).
THEOREM EmitterTypeCorrect == Spec => []TypeOK
<1>1. Spec => []Typed
  BY InitTyped, NextTyped, PTL DEF Spec
<1>2. Typed => TypeOK
  BY DEF Typed
<1> QED
  BY <1>1, <1>2, PTL

-----------------------------------------------------------------------------
(* Calls of handlers *)

\* Frame i goes on with its event, and its list at most grows.
Continues(i) ==
  /\ i \in Delivering
  /\ stack'[i].event = stack[i].event
  /\ Called(stack'[i]) = Called(stack[i])
  /\ \A g : g = stack'[i] =>
       /\ \A k \in 1 .. Len(Iterated(stack[i])) :
            k \in 1 .. Len(Iterated(g)') /\ Iterated(g)'[k] = Iterated(stack[i])[k]
       /\ \A h \in Handlers : Cardinality(Positions(Iterated(g)', h)) <= ons'[nameOf'[g.event]][h]

LEMMA HandledByPositions ==
  ASSUME NEW e, NEW h PROVE HandledBy(e, h) = Positions(log, [event |-> e, handler |-> h])
BY DEF HandledBy, Positions

LEMMA HandledByIsFinite ==
  ASSUME TypeOK, NEW e, NEW h
  PROVE  IsFiniteSet(HandledBy(e, h)) /\ Cardinality(HandledBy(e, h)) \in Nat
BY PositionsAreFinite, HandledByPositions DEF TypeOK

LEMMA StillDelivers ==
  ASSUME NEW f, Delivers(f), NEW g, g.event = f.event, Called(g) = Called(f),
         NEW s, s = Iterated(f), NEW t, t = Iterated(g)',
         \A k \in 1 .. Len(s) : k \in 1 .. Len(t) /\ t[k] = s[k],
         \A h \in Handlers : Cardinality(Positions(t, h)) <= ons'[nameOf'[g.event]][h],
         f.event \in begun', due'[f.event] = due[f.event],
         \A h : HandledBy(f.event, h)' = HandledBy(f.event, h)
  PROVE  Delivers(g)'
<1>1. Called(g) \subseteq 1 .. Len(s) /\ Called(g) \subseteq 1 .. Len(t) /\ \A k \in Called(g) : t[k] = s[k]
  BY DEF Delivers
<1>2. \A h : Positions(s, h) \subseteq Positions(t, h)
  BY DEF Positions
<1>3. \A h : Positions(t, h) \cap Called(g) = Positions(s, h) \cap Called(f)
  BY <1>1 DEF Positions
<1>4. \A h \in due'[g.event] : Positions(t, h) # {}
  BY <1>2 DEF Delivers
<1>5. \A k \in Called(g) : HandledBy(g.event, t[k])' # {}
  BY <1>1 DEF Delivers
<1>6. \A h \in Handlers : Cardinality(HandledBy(g.event, h)') <= Cardinality(Positions(t, h) \cap Called(g))
  BY <1>3 DEF Delivers
<1> QED
  BY <1>1, <1>4, <1>5, <1>6 DEF Delivers

LEMMA ContinuesDelivering ==
  ASSUME DeliveryInv, NEW i, Continues(i), begun \subseteq begun',
         NEW e, e = stack[i].event, due'[e] = due[e],
         \A h : HandledBy(e, h)' = HandledBy(e, h)
  PROVE  Delivers(stack[i])'
<1>1. Delivers(stack[i]) /\ i \in Delivering
  BY DEF DeliveryInv, Continues
<1> DEFINE f == stack[i]
<1>2. PICK g : g = stack'[i]
  OBVIOUS
<1>3. Delivers(f) /\ f.event = e /\ g.event = e /\ Called(g) = Called(f) /\ e \in begun'
  BY <1>1, <1>2 DEF Continues, Delivers
<1>4. PICK s, t : s = Iterated(f) /\ t = Iterated(g)'
  OBVIOUS
<1>5. /\ \A k \in 1 .. Len(s) : k \in 1 .. Len(t) /\ t[k] = s[k]
      /\ \A h \in Handlers : Cardinality(Positions(t, h)) <= ons'[nameOf'[g.event]][h]
  BY <1>2, <1>4 DEF Continues
<1> HIDE DEF f
<1>6. Delivers(g)'
  BY <1>3, <1>4, <1>5, StillDelivers
<1> QED
  BY <1>2, <1>6

\* A step that calls no handler and begins no delivery, and ends one only when
\* all that are due have been called.
LEMMA QuietStep ==
  ASSUME CallsInv, Typed', UNCHANGED <<log, begun, due>>,
         \A i \in Delivering' : Continues(i),
         \A i \in Delivering :
           i \in Delivering' \/ \A h \in due[stack[i].event] : HandledBy(stack[i].event, h) # {},
         \A n \in Names, h \in Handlers : /\ Cardinality(Positions(handlers'[n], h)) <= ons'[n][h]
                                          /\ ons[n][h] <= ons'[n][h],
         \A e \in Tracked : nameOf'[e] = nameOf[e],
         \A e \in Tracked' : e \in Tracked \/ e \in ToSet(queue'),
         ToSet(queue) \cup cleared \subseteq ToSet(queue') \cup cleared'
  PROVE  CallsInv'
<1>1. \A e, h : HandledBy(e, h)' = HandledBy(e, h)
  BY DEF HandledBy
<1>2. DeliveryInv'
  <2>1. \A i \in Delivering' : i \in Delivering /\ stack'[i].event = stack[i].event
    BY DEF Continues
  <2>2. \A i \in Delivering' : Delivers(stack[i])'
    BY <1>1, ContinuesDelivering DEF CallsInv
  <2>3. \A i, j \in Delivering' : stack'[i].event = stack'[j].event => i = j
    BY <2>1 DEF CallsInv, DeliveryInv
  <2> QED
    BY <2>2, <2>3 DEF CallsInv, DeliveryInv
<1>3. EveryHandlerIsCalled'
  <2> SUFFICES ASSUME NEW e \in Tracked'
               PROVE  \/ e \in (ToSet(queue) \cup cleared \cup InProgress)'
                      \/ e \in begun' /\ \A h \in due'[e] : HandledBy(e, h)' # {}
    BY DEF EveryHandlerIsCalled
  <2>1. CASE e \in ToSet(queue')
    BY <2>1
  <2>2. CASE e \in Tracked
    <3>1. CASE e \in ToSet(queue) \cup cleared
      BY <3>1
    <3>2. CASE e \in InProgress
      <4>1. PICK i \in Delivering : stack[i].event = e
        BY <3>2 DEF InProgress, Delivering
      <4>2. CASE i \in Delivering'
        <5>1. stack'[i].event = e
          BY <4>1, <4>2 DEF Continues
        <5> QED
          BY <4>2, <5>1 DEF InProgress, Delivering
      <4>3. CASE i \notin Delivering'
        BY <1>1, <4>1, <4>3 DEF CallsInv, DeliveryInv, Delivers
      <4> QED
        BY <4>2, <4>3
    <3>3. CASE e \in begun /\ \A h \in due[e] : HandledBy(e, h) # {}
      BY <1>1, <3>3
    <3> QED
      BY <2>2, <3>1, <3>2, <3>3 DEF CallsInv, EveryHandlerIsCalled
  <2> QED
    BY <2>1, <2>2
<1>4. NoDuplicateCalls'
  <2> SUFFICES ASSUME NEW e \in Tracked', NEW h \in Handlers
               PROVE  Cardinality(HandledBy(e, h)) <= ons'[nameOf'[e]][h]
    BY <1>1 DEF NoDuplicateCalls
  <2>1. nameOf'[e] \in Names /\ ons'[nameOf'[e]][h] \in Nat
    BY ElementOfSeq DEF Typed, TypeOK, Tracked
  <2>2. CASE e \in Tracked
    <3>1. nameOf'[e] = nameOf[e] /\ nameOf[e] \in Names
      BY <2>1, <2>2
    <3>2. Cardinality(HandledBy(e, h)) <= ons[nameOf[e]][h]
      BY <2>2 DEF CallsInv, NoDuplicateCalls
    <3>3. ons[nameOf[e]][h] <= ons'[nameOf[e]][h] /\ ons[nameOf[e]][h] \in Nat
      BY <3>1 DEF CallsInv, Typed
    <3>4. Cardinality(HandledBy(e, h)) \in Nat
      BY HandledByIsFinite DEF CallsInv, Typed
    <3> QED
      BY <2>1, <3>1, <3>2, <3>3, <3>4
  <2>3. CASE e \notin Tracked
    <3>1. HandledBy(e, h) = {}
      BY <2>3 DEF HandledBy, CallsInv, DeliveryInv, Typed
    <3> QED
      BY <2>1, <3>1, FS_EmptySet
  <2> QED
    BY <2>2, <2>3
<1> QED
  BY <1>2, <1>3, <1>4 DEF CallsInv

\* A frame that stays goes on, as long as no list changes.
LEMMA SameFrameContinues ==
  ASSUME CallsInv, NEW i \in Delivering, NEW g, g = stack'[i],
         g.event = stack[i].event, g.attached = stack[i].attached, g.own = stack[i].own,
         Called(g) = Called(stack[i]), UNCHANGED <<handlers, ons>>,
         \A e \in Tracked : nameOf'[e] = nameOf[e]
  PROVE  Continues(i)
<1>1. Delivers(stack[i]) /\ stack[i].event \in Tracked /\ stack[i] \in Frame
  <2>1. i \in 1 .. Len(stack) /\ stack[i].phase # "loop"
    BY DEF Delivering
  <2> QED
    BY <2>1, ElementOfSeq DEF CallsInv, DeliveryInv, Typed, TypeOK
<1>2. nameOf'[g.event] = nameOf[stack[i].event]
  BY <1>1
<1>3. Iterated(g)' = Iterated(stack[i])
  BY <1>2 DEF Iterated
<1>4. \A h \in Handlers : Cardinality(Positions(Iterated(stack[i]), h)) <= ons[nameOf[stack[i].event]][h]
  BY <1>1 DEF Delivers
<1> QED
  BY <1>2, <1>3, <1>4 DEF Continues

\* The lists stay, and so do the frames in delivery, except one that is done.
LEMMA ListsStay ==
  ASSUME CallsInv, Typed', UNCHANGED <<handlers, log, begun, due, ons>>,
         \A i \in Delivering' :
           /\ i \in Delivering
           /\ stack'[i].event = stack[i].event /\ Called(stack'[i]) = Called(stack[i])
           /\ stack'[i].attached = stack[i].attached /\ stack'[i].own = stack[i].own,
         \A i \in Delivering :
           i \in Delivering' \/ \A h \in due[stack[i].event] : HandledBy(stack[i].event, h) # {},
         \A e \in Tracked : nameOf'[e] = nameOf[e],
         \A e \in Tracked' : e \in Tracked \/ e \in ToSet(queue'),
         ToSet(queue) \cup cleared \subseteq ToSet(queue') \cup cleared'
  PROVE  CallsInv'
<1>1. \A i \in Delivering' : Continues(i)
  <2> SUFFICES ASSUME NEW i \in Delivering' PROVE Continues(i)
    OBVIOUS
  <2>1. PICK g : g = stack'[i]
    OBVIOUS
  <2> QED
    BY <2>1, SameFrameContinues
<1>2. \A n \in Names, h \in Handlers : /\ Cardinality(Positions(handlers'[n], h)) <= ons'[n][h]
                                       /\ ons[n][h] <= ons'[n][h]
  BY DEF CallsInv, DeliveryInv, Typed
<1> QED
  BY <1>1, <1>2, QuietStep

LEMMA FlushKeepsCalls == ASSUME CallsInv, Typed', Flush PROVE CallsInv'
<1>1. /\ stack' = Append(stack, NewFrame)
      /\ UNCHANGED <<queue, handlers, nameOf, log, begun, due, cleared, ons>>
  BY DEF Flush
<1>2. /\ Len(stack') = Len(stack) + 1 /\ Len(stack) \in Nat /\ stack'[Len(stack) + 1] = NewFrame
      /\ \A i \in 1 .. Len(stack) : stack'[i] = stack[i]
  BY <1>1, FramePushed, NewFrameIsFrame DEF CallsInv, Typed, TypeOK
<1>3. \A i \in 1 .. Len(stack') : i \in 1 .. Len(stack) \/ i = Len(stack) + 1
  BY <1>2
<1>4. \A i : i \in Delivering' <=> i \in Delivering
  BY <1>2, <1>3, NewFrameIsFrame DEF Delivering
<1>5. \A i \in Delivering : stack'[i] = stack[i]
  BY <1>2 DEF Delivering
<1> QED
  BY <1>1, <1>4, <1>5, ListsStay DEF Tracked

LEMMA ClearKeepsCalls == ASSUME CallsInv, Typed', Clear PROVE CallsInv'
<1>1. \A i : i \in Delivering' <=> i \in Delivering
  BY DEF Clear, Delivering
<1> QED
  BY <1>1, ListsStay DEF Clear, Tracked

LEMMA TrackKeepsCalls == ASSUME CallsInv, Typed', NEW n \in Names, Track(n) PROVE CallsInv'
<1>1. /\ stack' = stack \/ stack' = Append(stack, NewFrame)
      /\ queue' = Append(queue, Len(nameOf) + 1)
      /\ UNCHANGED <<handlers, log, begun, due, cleared, ons>>
  BY DEF Track
<1>2. CallsInv => TypeOK
  BY DEF CallsInv, Typed
<1>3. /\ \A i : i \in Delivering' <=> i \in Delivering
      /\ \A i \in Delivering : stack'[i] = stack[i]
  <2>1. CASE stack' = stack
    BY <2>1 DEF Delivering
  <2>2. CASE stack' = Append(stack, NewFrame)
    <3>1. /\ Len(stack') = Len(stack) + 1 /\ Len(stack) \in Nat /\ stack'[Len(stack) + 1] = NewFrame
          /\ \A i \in 1 .. Len(stack) : stack'[i] = stack[i]
      BY <2>2, FramePushed, NewFrameIsFrame DEF CallsInv, Typed, TypeOK
    <3>2. \A i \in 1 .. Len(stack') : i \in 1 .. Len(stack) \/ i = Len(stack) + 1
      BY <3>1
    <3> QED
      BY <3>1, <3>2, NewFrameIsFrame DEF Delivering
  <2> QED
    BY <1>1, <2>1, <2>2
<1>4. /\ \A e \in Tracked' : e \in Tracked \/ e = Len(nameOf) + 1
      /\ \A e \in Tracked : nameOf'[e] = nameOf[e]
  BY TrackNames DEF CallsInv
<1>5. ToSet(queue') = ToSet(queue) \cup {Len(nameOf) + 1}
  <2>1. queue \in Seq(Nat) /\ Len(nameOf) + 1 \in Nat /\ Len(queue) \in Nat
    <3>1. queue \in Seq(Tracked) /\ Len(nameOf) \in Nat /\ Tracked \subseteq Nat
      BY <1>2, LenProperties DEF TypeOK, Tracked
    <3>2. queue \in Seq(Nat)
      BY <3>1, SeqMonotonic
    <3>3. Len(queue) \in Nat
      BY <3>2, LenProperties
    <3> QED
      BY <3>1, <3>2, <3>3
  <2>2. /\ Len(queue') = Len(queue) + 1 /\ queue'[Len(queue) + 1] = Len(nameOf) + 1
        /\ \A i \in 1 .. Len(queue) : queue'[i] = queue[i]
    BY <1>1, <2>1, AppendProperties
  <2>3. DOMAIN queue = 1 .. Len(queue) /\ DOMAIN queue' = 1 .. Len(queue')
    BY <1>1, <2>1, AppendProperties, LenProperties
  <2>4. \A i : i \in 1 .. Len(queue') <=> i \in 1 .. Len(queue) \/ i = Len(queue) + 1
    BY <2>1, <2>2
  <2> QED
    BY <2>2, <2>3, <2>4 DEF ToSet
<1> QED
  BY <1>1, <1>3, <1>4, <1>5, ListsStay

LEMMA FlushReturnsKeepsCalls == ASSUME CallsInv, Typed', FlushReturns PROVE CallsInv'
<1>1. /\ stack # <<>> /\ Top.phase = "loop" /\ stack' = Front(stack)
      /\ UNCHANGED <<queue, handlers, nameOf, log, begun, due, cleared, ons>>
  BY DEF FlushReturns, history
<1>2. /\ Len(stack') = Len(stack) - 1 /\ Len(stack) \in Nat \ {0} /\ Top = stack[Len(stack)]
      /\ \A i \in 1 .. Len(stack') : stack'[i] = stack[i]
  BY <1>1, FramePopped DEF CallsInv, Typed, TypeOK
<1>3. \A i : i \in 1 .. Len(stack) <=> i \in 1 .. Len(stack') \/ i = Len(stack)
  BY <1>2
<1>4. /\ \A i : i \in Delivering' <=> i \in Delivering
      /\ \A i \in Delivering : stack'[i] = stack[i]
  BY <1>1, <1>2, <1>3 DEF Delivering
<1> QED
  BY <1>1, <1>4, ListsStay DEF Tracked

\* The for loop is done with an event only after it has called every position of
\* its list.
LEMMA EventDoneKeepsCalls == ASSUME CallsInv, Typed', EventDone PROVE CallsInv'
<1>1. /\ stack # <<>> /\ Top.phase = "deliver" /\ Top.index > Len(Iterated(Top))
      /\ ReplaceTop(NewFrame)
      /\ UNCHANGED <<queue, handlers, nameOf, log, begun, due, cleared, ons>>
  BY DEF EventDone, history
<1>2. TypeOK
  BY DEF CallsInv, Typed
<1>3. /\ Len(stack') = Len(stack) /\ Len(stack) \in Nat \ {0} /\ stack'[Len(stack)] = NewFrame
      /\ \A i \in 1 .. Len(stack) : i # Len(stack) => stack'[i] = stack[i]
  BY <1>1, <1>2, FrameReplaced, NewFrameIsFrame DEF TypeOK
<1>4. \A i : i \in Delivering' <=> i \in Delivering /\ i # Len(stack)
  BY <1>3, NewFrameIsFrame DEF Delivering
<1>5. \A i \in Delivering' : stack'[i] = stack[i]
  BY <1>3, <1>4 DEF Delivering
<1>6. \A h \in due[Top.event] : HandledBy(Top.event, h) # {}
  <2>1. Top = stack[Len(stack)] /\ Len(stack) \in Delivering /\ Top \in Frame /\ Iterated(Top) \in Seq(Handlers)
    BY <1>1, <1>2, TopFrame
  <2>2. Delivers(Top)
    BY <2>1 DEF CallsInv, DeliveryInv
  <2>3. Len(Iterated(Top)) \in Nat /\ Top.index \in Nat
    BY <2>1, LenProperties DEF Frame
  <2>4. \A k \in 1 .. Len(Iterated(Top)) : k \in Called(Top)
    BY <1>1, <2>3 DEF Called
  <2> SUFFICES ASSUME NEW h \in due[Top.event] PROVE HandledBy(Top.event, h) # {}
    OBVIOUS
  <2>5. PICK k \in 1 .. Len(Iterated(Top)) : Iterated(Top)[k] = h
    BY <2>2 DEF Delivers, Positions
  <2> QED
    BY <2>2, <2>4, <2>5 DEF Delivers
<1>7. \A i \in Delivering : i \in Delivering' \/ \A h \in due[stack[i].event] : HandledBy(stack[i].event, h) # {}
  <2>1. Top = stack[Len(stack)]
    BY <1>1, <1>2, TopFrame
  <2> QED
    BY <1>4, <1>6, <2>1
<1> QED
  BY <1>1, <1>4, <1>5, <1>7, ListsStay DEF Tracked

LEMMA HandlerEndsKeepsCalls == ASSUME CallsInv, Typed', HandlerEnds PROVE CallsInv'
<1> DEFINE f == [Top EXCEPT !.phase = "deliver", !.index = @ + 1]
<1>1. /\ stack # <<>> /\ Top.phase = "handler" /\ ReplaceTop(f)
      /\ UNCHANGED <<queue, handlers, nameOf, log, begun, due, cleared, ons>>
  BY DEF HandlerEnds, history
<1>2. TypeOK
  BY DEF CallsInv, Typed
<1>3. /\ f \in Frame /\ f.phase = "deliver" /\ f.event = Top.event
      /\ f.attached = Top.attached /\ f.own = Top.own /\ Called(f) = Called(Top)
  BY <1>1, <1>2, EndedFrame
<1> HIDE DEF f
<1>4. /\ Len(stack') = Len(stack) /\ stack'[Len(stack)] = f /\ Top = stack[Len(stack)]
      /\ \A i \in 1 .. Len(stack) : i # Len(stack) => stack'[i] = stack[i]
  BY <1>1, <1>2, <1>3, FrameReplaced DEF TypeOK
<1>5. \A i : i \in Delivering' <=> i \in Delivering
  BY <1>1, <1>3, <1>4 DEF Delivering
<1>6. \A i \in Delivering :
        /\ stack'[i].event = stack[i].event /\ Called(stack'[i]) = Called(stack[i])
        /\ stack'[i].attached = stack[i].attached /\ stack'[i].own = stack[i].own
  BY <1>3, <1>4 DEF Delivering
<1> QED
  BY <1>1, <1>5, <1>6, ListsStay DEF Tracked

LEMMA OffKeepsCalls ==
  ASSUME CallsInv, Typed', NEW n \in Names, NEW h \in Handlers, Off(n, h)
  PROVE  CallsInv'
<1>1. /\ handlers' = [handlers EXCEPT ![n] = Without(handlers[n], h)]
      /\ UNCHANGED <<queue, nameOf, log, begun, due, cleared, ons>>
  BY DEF Off, history
<1>2. TypeOK
  BY DEF CallsInv, Typed
<1>3. /\ Len(stack') = Len(stack)
      /\ \A i \in 1 .. Len(stack) :
           /\ stack'[i].phase = stack[i].phase /\ stack'[i].event = stack[i].event
           /\ stack'[i].index = stack[i].index
           /\ \A g : g = stack'[i] /\ g.phase # "loop" => Iterated(g)' = Iterated(stack[i])
  BY <1>2, OffFrames
<1>4. \A i : i \in Delivering' <=> i \in Delivering
  BY <1>3 DEF Delivering
<1>5. \A i \in Delivering' : Continues(i)
  <2> SUFFICES ASSUME NEW i \in Delivering PROVE Continues(i)
    BY <1>4
  <2>1. i \in 1 .. Len(stack) /\ stack[i].phase # "loop"
    BY DEF Delivering
  <2>2. Called(stack'[i]) = Called(stack[i])
    BY <1>3, <2>1 DEF Called
  <2>3. Delivers(stack[i])
    BY DEF CallsInv, DeliveryInv
  <2>4. \A g : g = stack'[i] => Iterated(g)' = Iterated(stack[i]) /\ nameOf'[g.event] = nameOf[stack[i].event]
    BY <1>1, <1>3, <2>1
  <2>5. \A k \in Handlers : Cardinality(Positions(Iterated(stack[i]), k)) <= ons'[nameOf[stack[i].event]][k]
    BY <1>1, <2>3 DEF Delivers
  <2> QED
    BY <1>3, <2>1, <2>2, <2>4, <2>5 DEF Continues
<1>6. ASSUME NEW m \in Names, NEW k \in Handlers
      PROVE  /\ Cardinality(Positions(handlers'[m], k)) <= ons'[m][k]
             /\ ons[m][k] <= ons'[m][k]
  <2>1. Cardinality(Positions(handlers[m], k)) <= ons[m][k] /\ ons[m][k] \in Nat
    BY DEF CallsInv, DeliveryInv, Typed
  <2>2. handlers[m] \in Seq(Handlers) /\ handlers'[m] \in Seq(Handlers)
    BY <1>2 DEF Typed, TypeOK
  <2>3. Cardinality(Positions(handlers'[m], k)) <= Cardinality(Positions(handlers[m], k))
    <3>1. CASE m = n
      BY <1>1, <1>2, <2>2, <3>1, WithoutProperties DEF TypeOK
    <3>2. CASE m # n
      <4>1. handlers'[m] = handlers[m]
        BY <1>1, <1>2, <3>2 DEF TypeOK
      <4>2. Cardinality(Positions(handlers[m], k)) \in Nat
        BY <2>2, PositionsAreFinite
      <4> QED
        BY <4>1, <4>2
    <3> QED
      BY <3>1, <3>2
  <2>4. /\ Cardinality(Positions(handlers[m], k)) \in Nat
        /\ Cardinality(Positions(handlers'[m], k)) \in Nat
    BY <2>2, PositionsAreFinite
  <2> QED
    BY <1>1, <2>1, <2>3, <2>4
<1> QED
  BY <1>1, <1>4, <1>5, <1>6, QuietStep DEF Tracked

\* on adds one to the list and to the count.
LEMMA OnKeepsCalls ==
  ASSUME CallsInv, Typed', NEW n \in Names, NEW h \in Handlers, On(n, h)
  PROVE  CallsInv'
<1>1. /\ handlers' = [handlers EXCEPT ![n] = Append(handlers[n], h)]
      /\ ons' = [ons EXCEPT ![n] = [ons[n] EXCEPT ![h] = ons[n][h] + 1]]
      /\ UNCHANGED <<queue, stack, nameOf, log, begun, due, cleared>>
  BY DEF On
<1>2. /\ handlers \in [Names -> Seq(Handlers)] /\ ons \in [Names -> [Handlers -> Nat]]
      /\ TypeOK
  BY DEF CallsInv, Typed, TypeOK
<1>3. /\ \A m \in Names : m # n => handlers'[m] = handlers[m]
      /\ handlers'[n] = Append(handlers[n], h) /\ handlers[n] \in Seq(Handlers)
  BY <1>1, <1>2
<1>4. /\ \A m \in Names, k \in Handlers : ons'[m][k] = IF m = n /\ k = h THEN ons[m][k] + 1 ELSE ons[m][k]
      /\ \A m \in Names, k \in Handlers : ons[m][k] \in Nat
  BY <1>1, <1>2
<1>5. ASSUME NEW k \in Handlers
      PROVE  Cardinality(Positions(handlers'[n], k)) <= ons'[n][k]
  <2>1. Cardinality(Positions(handlers[n], k)) <= ons[n][k] /\ Cardinality(Positions(handlers[n], k)) \in Nat
    BY <1>3, PositionsAreFinite DEF CallsInv, DeliveryInv
  <2>2. CASE k = h
    <3>1. Cardinality(Positions(handlers'[n], k)) <= Cardinality(Positions(handlers[n], k)) + 1
      BY <1>3, PositionsAfterAppend
    <3>2. Append(handlers[n], h) \in Seq(Handlers)
      BY <1>3, AppendProperties
    <3>3. Cardinality(Positions(handlers'[n], k)) \in Nat
      BY <1>3, <3>2, PositionsAreFinite
    <3> QED
      BY <1>4, <2>1, <2>2, <3>1, <3>3
  <2>3. CASE k # h
    <3>1. Positions(handlers'[n], k) = Positions(handlers[n], k)
      BY <1>3, <2>3, PositionsAfterAppend
    <3> QED
      BY <1>4, <2>1, <2>3, <3>1
  <2> QED
    BY <2>2, <2>3
<1>6. \A m \in Names, k \in Handlers : /\ Cardinality(Positions(handlers'[m], k)) <= ons'[m][k]
                                       /\ ons[m][k] <= ons'[m][k]
  <2> SUFFICES ASSUME NEW m \in Names, NEW k \in Handlers
               PROVE  Cardinality(Positions(handlers'[m], k)) <= ons'[m][k] /\ ons[m][k] <= ons'[m][k]
    OBVIOUS
  <2>1. ons[m][k] <= ons'[m][k]
    BY <1>4
  <2>2. m # n => Cardinality(Positions(handlers'[m], k)) <= ons'[m][k]
    BY <1>3, <1>4 DEF CallsInv, DeliveryInv
  <2> QED
    BY <1>5, <2>1, <2>2
<1>7. \A i : i \in Delivering' <=> i \in Delivering
  BY <1>1 DEF Delivering
<1>8. \A i \in Delivering' : Continues(i)
  <2> SUFFICES ASSUME NEW i \in Delivering, NEW g, g = stack[i] PROVE Continues(i)
    BY <1>7
  <2>1. i \in 1 .. Len(stack) /\ g.phase # "loop" /\ g \in Frame /\ g.event \in Tracked
    BY <1>2, ElementOfSeq DEF Delivering, TypeOK
  <2>2. PICK m : m = nameOf[g.event]
    OBVIOUS
  <2>3. m \in Names /\ Iterated(g) \in Seq(Handlers) /\ nameOf'[g.event] = m
    BY <1>1, <1>2, <2>1, <2>2, IteratedIsList
  <2>4. CASE g.attached /\ m = n
    <3>1. Iterated(g) = handlers[n] /\ Iterated(g)' = Append(handlers[n], h)
      BY <1>1, <1>3, <2>2, <2>4 DEF Iterated
    <3>2. /\ \A k \in 1 .. Len(handlers[n]) : Append(handlers[n], h)[k] = handlers[n][k]
          /\ Len(Append(handlers[n], h)) = Len(handlers[n]) + 1 /\ Len(handlers[n]) \in Nat
      BY <1>3, AppendProperties, LenProperties
    <3>3. \A k \in 1 .. Len(handlers[n]) : k \in 1 .. Len(Append(handlers[n], h))
      BY <3>2
    <3>4. \A k \in Handlers : Cardinality(Positions(Append(handlers[n], h), k)) <= ons'[m][k]
      BY <1>3, <1>5, <2>4
    <3> QED
      BY <1>1, <2>3, <3>1, <3>2, <3>3, <3>4 DEF Continues
  <2>5. CASE ~(g.attached /\ m = n)
    <3>1. Iterated(g)' = Iterated(g)
      BY <1>1, <1>3, <2>2, <2>3, <2>5 DEF Iterated
    <3>2. \A k \in Handlers : Cardinality(Positions(Iterated(g), k)) <= ons[m][k]
      BY <2>2 DEF CallsInv, DeliveryInv, Delivers
    <3>3. \A k \in Handlers : Cardinality(Positions(Iterated(g), k)) \in Nat
      BY <2>3, PositionsAreFinite
    <3>4. \A k \in Handlers : ons[m][k] \in Nat /\ ons'[m][k] \in Nat /\ ons[m][k] <= ons'[m][k]
      BY <1>4, <2>3
    <3>5. \A k \in Handlers : Cardinality(Positions(Iterated(g), k)) <= ons'[m][k]
      BY <3>2, <3>3, <3>4
    <3> QED
      BY <1>1, <2>3, <3>1, <3>5 DEF Continues
  <2> QED
    BY <2>4, <2>5
<1> QED
  BY <1>1, <1>6, <1>7, <1>8, QuietStep DEF Tracked

\* The oldest event has not been handed to anybody yet, and all handlers that
\* are registered for it become due.
LEMMA NextEventKeepsCalls == ASSUME IInv, CallsInv, Typed', NextEvent PROVE CallsInv'
<1> DEFINE top == Len(stack)
<1> PICK e, s : e = Head(queue) /\ s = handlers[nameOf[e]]
  OBVIOUS
<1> PICK f : f = [phase |-> "deliver", event |-> e, index |-> 1,
                  attached |-> handlers[nameOf[e]] # <<>>, own |-> <<>>]
  OBVIOUS
<1>1. Called(f) = {} /\ f.event = e /\ f.phase = "deliver"
  BY DEF Called
<1>2. /\ e \in Tracked /\ e = queue[1] /\ Len(queue) \in Nat \ {0}
      /\ nameOf[e] \in Names /\ s \in Seq(Handlers)
      /\ queue' \in Seq(Tracked) /\ \A i \in 1 .. Len(queue') : queue'[i] = queue[i + 1]
      /\ Len(queue') = Len(queue) - 1
      /\ f \in Frame /\ ReplaceTop(f) /\ Iterated(f) = s
      /\ due' = [due EXCEPT ![e] = ToSet(s)] /\ begun' = begun \cup {e}
  BY NextEventFrame DEF CallsInv
<1>3. /\ stack # <<>> /\ Top.phase = "loop"
      /\ UNCHANGED <<handlers, nameOf, log, cleared, ons>>
  BY DEF NextEvent
<1>4. /\ Len(stack') = Len(stack) /\ top \in Nat \ {0} /\ Top = stack[top] /\ stack'[top] = f
      /\ \A i \in 1 .. Len(stack) : i # top => stack'[i] = stack[i]
  BY <1>2, <1>3, FrameReplaced DEF CallsInv, Typed, TypeOK
<1>5. e \notin begun
  BY <1>2 DEF IInv, Shape, QueueIsOrdered
<1>6. /\ \A i : i \in Delivering' <=> i \in Delivering \/ i = top
      /\ top \notin Delivering
  BY <1>1, <1>3, <1>4 DEF Delivering
<1>7. \A i \in Delivering : stack'[i] = stack[i] /\ stack[i].event \in begun /\ stack[i].event # e
  BY <1>4, <1>5, <1>6 DEF CallsInv, DeliveryInv, Delivering, Delivers
<1>8. /\ due' \in [1 .. MaxEvents -> SUBSET Handlers] /\ due'[e] = ToSet(s)
      /\ \A b \in Tracked : b # e => due'[b] = due[b]
  <2>1. Tracked \subseteq 1 .. MaxEvents
    BY EmitterAssumption, LenProperties DEF Tracked, CallsInv, Typed, TypeOK
  <2>2. due \in [1 .. MaxEvents -> SUBSET Handlers] /\ due' \in [1 .. MaxEvents -> SUBSET Handlers]
    BY DEF CallsInv, Typed
  <2> QED
    BY <1>2, <2>1, <2>2
<1>9. \A b, h : HandledBy(b, h)' = HandledBy(b, h)
  BY <1>3 DEF HandledBy
<1>10. \A h : HandledBy(e, h) = {}
  BY <1>5 DEF HandledBy, CallsInv, DeliveryInv
<1>11. Delivers(f)'
  <2>1. Iterated(f)' = s
    BY <1>2, <1>3 DEF Iterated
  <2>2. \A h \in due'[e] : Positions(s, h) # {}
    <3>1. DOMAIN s = 1 .. Len(s)
      BY <1>2, LenProperties
    <3> QED
      BY <1>8, <3>1 DEF ToSet, Positions
  <2>3. \A h \in Handlers : Cardinality(Positions(s, h)) <= ons'[nameOf'[e]][h]
    BY <1>2, <1>3 DEF CallsInv, DeliveryInv
  <2>4. \A h : Cardinality(HandledBy(e, h)') <= Cardinality(Positions(s, h) \cap Called(f))
    <3>1. \A h : Positions(s, h) \cap Called(f) = {} /\ HandledBy(e, h)' = {}
      BY <1>1, <1>9, <1>10
    <3>2. Cardinality({}) = 0 /\ 0 <= 0
      BY FS_EmptySet
    <3> QED
      BY <3>1, <3>2
  <2>5. e \in begun'
    BY <1>2
  <2> QED
    BY <1>1, <2>1, <2>2, <2>3, <2>4, <2>5 DEF Delivers
<1>12. DeliveryInv'
  <2>1. ASSUME NEW i \in Delivering PROVE Delivers(stack[i])'
    <3>1. PICK g : g = stack'[i]
      OBVIOUS
    <3>2. Continues(i)
      BY <1>3, <1>7, <3>1, SameFrameContinues
    <3>3. stack[i].event \in Tracked
      BY <1>7 DEF CallsInv, Typed
    <3>4. PICK b : b = stack[i].event
      OBVIOUS
    <3>5. due'[b] = due[b] /\ begun \subseteq begun'
      BY <1>2, <1>7, <1>8, <3>3, <3>4
    <3> QED
      BY <1>9, <3>2, <3>4, <3>5, ContinuesDelivering DEF CallsInv
  <2>2. \A i \in Delivering' : Delivers(stack[i])'
    <3>1. ASSUME NEW i, i = top PROVE Delivers(stack[i])'
      <4>1. stack'[i] = f
        BY <1>4, <3>1
      <4> QED
        BY <1>11, <4>1
    <3> QED
      BY <1>6, <2>1, <3>1
  <2>3. \A i, j \in Delivering' : stack'[i].event = stack'[j].event => i = j
    BY <1>1, <1>4, <1>6, <1>7 DEF CallsInv, DeliveryInv
  <2> QED
    BY <1>2, <1>3, <2>2, <2>3 DEF CallsInv, DeliveryInv
<1>13. EveryHandlerIsCalled'
  <2> SUFFICES ASSUME NEW b \in Tracked
               PROVE  \/ b \in (ToSet(queue) \cup cleared \cup InProgress)'
                      \/ b \in begun' /\ \A h \in due'[b] : HandledBy(b, h)' # {}
    BY <1>3 DEF EveryHandlerIsCalled, Tracked
  <2>1. CASE b = e
    <3>1. top \in 1 .. Len(stack') /\ stack'[top].phase # "loop" /\ stack'[top].event = e
      BY <1>1, <1>4
    <3> QED
      BY <2>1, <3>1 DEF InProgress
  <2>2. CASE b # e
    <3>1. CASE b \in ToSet(queue)
      <4>1. DOMAIN queue = 1 .. Len(queue) /\ DOMAIN queue' = 1 .. Len(queue')
        BY <1>2, LenProperties DEF CallsInv, Typed, TypeOK
      <4>2. PICK i \in 1 .. Len(queue) : queue[i] = b
        BY <3>1, <4>1 DEF ToSet
      <4>3. i - 1 \in 1 .. Len(queue') /\ (i - 1) + 1 = i
        BY <1>2, <2>2, <4>2
      <4>4. queue'[i - 1] = b
        BY <1>2, <4>2, <4>3
      <4> QED
        BY <4>1, <4>3, <4>4 DEF ToSet
    <3>2. CASE b \in cleared
      BY <1>3, <3>2
    <3>3. CASE b \in InProgress
      <4>1. PICK i \in Delivering : stack[i].event = b
        BY <3>3 DEF InProgress, Delivering
      <4>2. i \in Delivering' /\ stack'[i].event = b
        BY <1>6, <1>7, <4>1
      <4> QED
        BY <4>2 DEF InProgress, Delivering
    <3>4. CASE b \in begun /\ \A h \in due[b] : HandledBy(b, h) # {}
      BY <1>2, <1>8, <1>9, <2>2, <3>4
    <3> QED
      BY <3>1, <3>2, <3>3, <3>4 DEF CallsInv, EveryHandlerIsCalled
  <2> QED
    BY <2>1, <2>2
<1>14. NoDuplicateCalls'
  BY <1>3, <1>9 DEF CallsInv, NoDuplicateCalls, Tracked
<1> QED
  BY <1>12, <1>13, <1>14 DEF CallsInv

\* A call is that of a position of the list that was not called before.
LEMMA CallHandlerKeepsCalls == ASSUME CallsInv, Typed', CallHandler PROVE CallsInv'
<1> DEFINE top == Len(stack)
<1> PICK e, s : e = Top.event /\ s = Iterated(Top)
  OBVIOUS
<1> PICK c : c = s[Top.index]
  OBVIOUS
<1> PICK call, f : call = [event |-> e, handler |-> c] /\ f = [Top EXCEPT !.phase = "handler"]
  OBVIOUS
<1>1. /\ stack # <<>> /\ Top.phase = "deliver" /\ Top.index <= Len(s)
      /\ ReplaceTop(f) /\ log' = Append(log, call)
      /\ UNCHANGED <<queue, handlers, nameOf, begun, due, cleared, ons>>
  BY DEF CallHandler
<1>2. TypeOK
  BY DEF CallsInv, Typed
<1>3. /\ f \in Frame /\ f.phase = "handler" /\ f.event = e
      /\ f.attached = Top.attached /\ f.own = Top.own
      /\ Top.index \in Nat \ {0} /\ Top.index \notin Called(Top)
      /\ Called(f) = Called(Top) \cup {Top.index}
  BY <1>1, <1>2, CalledFrame
<1>4. /\ Len(stack') = Len(stack) /\ Top = stack[top] /\ stack'[top] = f
      /\ \A i \in 1 .. Len(stack) : i # top => stack'[i] = stack[i]
  BY <1>1, <1>2, <1>3, FrameReplaced DEF TypeOK
<1>5. top \in Delivering /\ e \in Tracked /\ s \in Seq(Handlers)
  BY <1>1, <1>2, TopFrame
<1>6. \A i : i \in Delivering' <=> i \in Delivering
  BY <1>1, <1>3, <1>4 DEF Delivering
<1>7. \A i \in Delivering : stack'[i].event = stack[i].event
  BY <1>3, <1>4 DEF Delivering
<1>8. Delivers(Top) /\ e \in begun
  BY <1>4, <1>5 DEF CallsInv, DeliveryInv, Delivers
<1>9. call \in [event : Tracked, handler : Handlers] /\ log \in Seq([event : Tracked, handler : Handlers])
  BY <1>2, CallHandlerTyped DEF CallsInv, TypeOK
<1>10. c \in Handlers /\ Top.index \in 1 .. Len(s)
  <2>1. Len(s) \in Nat /\ Top.index \in 1 .. Len(s)
    BY <1>1, <1>3, <1>5, LenProperties
  <2> QED
    BY <1>5, <2>1, ElementOfSeq
<1>11. /\ \A b, h : HandledBy(b, h) \subseteq HandledBy(b, h)'
       /\ \A b, h : b # e \/ h # c => HandledBy(b, h)' = HandledBy(b, h)
       /\ HandledBy(e, c)' = HandledBy(e, c) \cup {Len(log) + 1}
       /\ Cardinality(HandledBy(e, c)') <= Cardinality(HandledBy(e, c)) + 1
       /\ IsFiniteSet(HandledBy(e, c)')
  <2>1. \A b, h : HandledBy(b, h)' = Positions(Append(log, call), [event |-> b, handler |-> h])
    BY <1>1 DEF HandledBy, Positions
  <2>2. \A b, h : HandledBy(b, h) = Positions(log, [event |-> b, handler |-> h])
    BY HandledByPositions
  <2>3. \A b, h : b # e \/ h # c => [event |-> b, handler |-> h] # call
    OBVIOUS
  <2>4. \A x : /\ Positions(log, x) \subseteq Positions(Append(log, call), x)
               /\ x # call => Positions(Append(log, call), x) = Positions(log, x)
               /\ x = call => Positions(Append(log, call), x) = Positions(log, x) \cup {Len(log) + 1}
               /\ Cardinality(Positions(Append(log, call), x)) <= Cardinality(Positions(log, x)) + 1
    <3> SUFFICES ASSUME NEW x
                 PROVE  /\ Positions(log, x) \subseteq Positions(Append(log, call), x)
                        /\ x # call => Positions(Append(log, call), x) = Positions(log, x)
                        /\ x = call => Positions(Append(log, call), x) = Positions(log, x) \cup {Len(log) + 1}
                        /\ Cardinality(Positions(Append(log, call), x)) <= Cardinality(Positions(log, x)) + 1
      OBVIOUS
    <3>1. PICK S : log \in Seq(S) /\ call \in S
      BY <1>9
    <3> QED
      BY <3>1, PositionsAfterAppend
  <2>5. HandledBy(e, c)' = HandledBy(e, c) \cup {Len(log) + 1}
    BY <2>1, <2>2, <2>4
  <2>6. IsFiniteSet(HandledBy(e, c))
    BY <1>2, HandledByIsFinite
  <2>7. IsFiniteSet(HandledBy(e, c) \cup {Len(log) + 1})
    BY <2>6, FS_AddElement
  <2> QED
    BY <2>1, <2>2, <2>3, <2>4, <2>5, <2>7
<1>12. Iterated(f)' = s
  <2>1. Iterated(f) = s
    BY <1>3 DEF Iterated
  <2> QED
    BY <1>1, <2>1 DEF Iterated
<1>13. Delivers(f)'
  <2>1. Called(f) \subseteq 1 .. Len(s)
    BY <1>3, <1>8, <1>10 DEF Delivers
  <2>2. \A k \in Called(f) : HandledBy(e, s[k])' # {}
    <3>1. \A k \in Called(Top) : HandledBy(e, s[k]) # {}
      BY <1>8 DEF Delivers
    <3>2. HandledBy(e, c)' # {}
      BY <1>11
    <3> QED
      BY <1>3, <1>11, <3>1, <3>2
  <2>3. ASSUME NEW h \in Handlers
        PROVE  Cardinality(HandledBy(e, h)') <= Cardinality(Positions(s, h) \cap Called(f))
    <3> DEFINE P == Positions(s, h) \cap Called(Top)
               Q == Positions(s, h) \cap Called(f)
    <3>1. Cardinality(HandledBy(e, h)) <= Cardinality(P)
      BY <1>8 DEF Delivers
    <3>2. CASE h # c
      <4>1. Q = P
        BY <1>3, <3>2 DEF Positions
      <4> QED
        BY <1>11, <3>1, <3>2, <4>1
    <3>3. CASE h = c
      <4>1. Q = P \cup {Top.index} /\ Top.index \notin P
        BY <1>3, <1>10, <3>3 DEF Positions
      <4>2. IsFiniteSet(P)
        <5>1. IsFiniteSet(Positions(s, h)) /\ P \subseteq Positions(s, h)
          BY <1>5, PositionsAreFinite
        <5> QED
          BY <5>1, FS_Subset
      <4> HIDE DEF P, Q
      <4>3. Cardinality(Q) = Cardinality(P) + 1 /\ Cardinality(P) \in Nat
        BY <4>1, <4>2, FS_AddElement, FS_CardinalityType
      <4>4. Cardinality(HandledBy(e, h)) \in Nat /\ Cardinality(HandledBy(e, h)') \in Nat
        <5>1. Cardinality(HandledBy(e, h)) \in Nat
          BY <1>2, HandledByIsFinite
        <5>2. IsFiniteSet(HandledBy(e, h)')
          BY <1>11, <3>3
        <5> QED
          BY <5>1, <5>2, FS_CardinalityType
      <4>5. Cardinality(HandledBy(e, h)') <= Cardinality(HandledBy(e, h)) + 1
        BY <1>11, <3>3
      <4>6. Cardinality(HandledBy(e, h)') <= Cardinality(Q)
        BY <3>1, <4>3, <4>4, <4>5
      <4> QED
        BY <4>6 DEF Q
    <3> QED
      BY <3>2, <3>3
  <2>4. \A h \in Handlers : Cardinality(Positions(s, h)) <= ons'[nameOf'[e]][h]
    BY <1>1, <1>8 DEF Delivers
  <2>5. \A h \in due'[e] : Positions(s, h) # {}
    BY <1>1, <1>8 DEF Delivers
  <2> QED
    <3>1. f.event = e /\ e \in begun'
      BY <1>1, <1>3, <1>8
    <3> QED
      BY <1>12, <2>1, <2>2, <2>3, <2>4, <2>5, <3>1 DEF Delivers
<1>14. DeliveryInv'
  <2>1. ASSUME NEW i \in Delivering, i # top PROVE Delivers(stack[i])'
    <3>1. stack'[i] = stack[i]
      BY <1>4, <2>1 DEF Delivering
    <3>2. Continues(i)
      BY <1>1, <3>1, SameFrameContinues
    <3>3. PICK b : b = stack[i].event
      OBVIOUS
    <3>4. b # e
      BY <1>4, <1>5, <2>1, <3>3 DEF CallsInv, DeliveryInv
    <3>5. due'[b] = due[b] /\ begun \subseteq begun' /\ \A h : HandledBy(b, h)' = HandledBy(b, h)
      BY <1>1, <1>11, <3>4
    <3> QED
      BY <3>2, <3>3, <3>5, ContinuesDelivering DEF CallsInv
  <2>2. ASSUME NEW i, i = top PROVE Delivers(stack[i])'
    <3>1. stack'[i] = f
      BY <1>4, <2>2
    <3> QED
      BY <1>13, <3>1
  <2>3. \A i \in Delivering' : Delivers(stack[i])'
    BY <1>6, <2>1, <2>2
  <2>4. \A i, j \in Delivering' : stack'[i].event = stack'[j].event => i = j
    BY <1>6, <1>7 DEF CallsInv, DeliveryInv
  <2>5. \A l \in 1 .. Len(log') : log'[l].event \in begun'
    <3>1. /\ Len(log') = Len(log) + 1 /\ Len(log) \in Nat /\ log'[Len(log) + 1] = call
          /\ \A l \in 1 .. Len(log) : log'[l] = log[l]
      BY <1>1, <1>9, AppendProperties, LenProperties
    <3>2. \A l \in 1 .. Len(log') : l \in 1 .. Len(log) \/ l = Len(log) + 1
      BY <3>1
    <3>3. call.event = e
      OBVIOUS
    <3> QED
      BY <1>1, <1>8, <3>1, <3>2, <3>3 DEF CallsInv, DeliveryInv
  <2> QED
    BY <1>1, <2>3, <2>4, <2>5 DEF CallsInv, DeliveryInv
<1>15. EveryHandlerIsCalled'
  <2>1. \A b \in InProgress : b \in InProgress'
    BY <1>6, <1>7 DEF InProgress, Delivering
  <2>2. \A b : (\A h \in due[b] : HandledBy(b, h) # {}) => \A h \in due'[b] : HandledBy(b, h)' # {}
    BY <1>1, <1>11
  <2> SUFFICES ASSUME NEW b \in Tracked
               PROVE  \/ b \in (ToSet(queue) \cup cleared \cup InProgress)'
                      \/ b \in begun' /\ \A h \in due'[b] : HandledBy(b, h)' # {}
    BY <1>1 DEF EveryHandlerIsCalled, Tracked
  <2> QED
    BY <1>1, <2>1, <2>2 DEF CallsInv, EveryHandlerIsCalled
<1>16. NoDuplicateCalls'
  <2> SUFFICES ASSUME NEW b \in Tracked, NEW h \in Handlers
               PROVE  Cardinality(HandledBy(b, h)') <= ons'[nameOf'[b]][h]
    BY <1>1 DEF NoDuplicateCalls, Tracked
  <2>1. CASE b # e \/ h # c
    BY <1>1, <1>11, <2>1 DEF CallsInv, NoDuplicateCalls
  <2>2. CASE b = e /\ h = c
    <3> DEFINE Q == Positions(s, h) \cap Called(f)
    <3>1. Cardinality(HandledBy(e, h)') <= Cardinality(Q)
      BY <1>3, <1>12, <1>13 DEF Delivers
    <3>2. IsFiniteSet(Positions(s, h)) /\ Cardinality(Positions(s, h)) \in Nat
      BY <1>5, PositionsAreFinite
    <3>3. Cardinality(Q) <= Cardinality(Positions(s, h)) /\ Cardinality(Q) \in Nat
      BY <3>2, FS_Subset, FS_CardinalityType
    <3>4. Cardinality(Positions(s, h)) <= ons[nameOf[e]][h] /\ ons[nameOf[e]][h] \in Nat
      <4>1. nameOf[e] \in Names
        BY <1>2, <1>5, ElementOfSeq DEF TypeOK, Tracked
      <4> QED
        BY <1>8, <4>1 DEF Delivers, CallsInv, Typed
    <3>5. Cardinality(HandledBy(e, h)') \in Nat
      BY <1>11, <2>2, FS_CardinalityType
    <3> HIDE DEF Q
    <3>6. Cardinality(HandledBy(e, h)') <= ons[nameOf[e]][h]
      BY <3>1, <3>2, <3>3, <3>4, <3>5
    <3> QED
      BY <1>1, <2>2, <3>6
  <2> QED
    BY <2>1, <2>2
<1> QED
  BY <1>14, <1>15, <1>16 DEF CallsInv

-----------------------------------------------------------------------------

LEMMA InitCalls == Init => CallsInv
<1> SUFFICES ASSUME Init PROVE CallsInv
  OBVIOUS
<1>1. /\ Len(log) = 0 /\ Len(stack) = 0 /\ Len(nameOf) = 0 /\ \A n \in Names : handlers[n] = <<>>
      /\ ons = [n \in Names |-> [h \in Handlers |-> 0]] /\ Len(<<>>) = 0
  BY EmptySeq DEF Init
<1>2. \A h : Cardinality(Positions(<<>>, h)) = 0
  BY <1>1, FS_EmptySet DEF Positions
<1>3. Delivering = {} /\ Tracked = {}
  BY <1>1 DEF Delivering, Tracked
<1>4. \A n \in Names, h \in Handlers : Cardinality(Positions(handlers[n], h)) <= ons[n][h]
  BY <1>1, <1>2
<1> QED
  BY <1>1, <1>3, <1>4, InitTyped DEF CallsInv, DeliveryInv, EveryHandlerIsCalled, NoDuplicateCalls

LEMMA NextCalls == IInv /\ CallsInv /\ [Next]_vars => CallsInv'
<1> SUFFICES ASSUME IInv, CallsInv, [Next]_vars PROVE CallsInv'
  OBVIOUS
<1>1. Typed'
  BY NextTyped DEF CallsInv
<1>2. CASE UNCHANGED vars
  BY <1>1, <1>2, ListsStay DEF vars, Delivering, Tracked
<1>3. CASE \E n \in Names, h \in Handlers : On(n, h) \/ Off(n, h)
  BY <1>1, <1>3, OnKeepsCalls, OffKeepsCalls
<1>4. CASE \E n \in Names \cup {UnknownName} : TrackUnknown(n) \/ Track(n)
  BY <1>1, <1>2, <1>4, TrackKeepsCalls DEF TrackUnknown, Track
<1>5. CASE Flush \/ Clear \/ Emitter \/ HandlerEnds
  BY <1>1, <1>5, FlushKeepsCalls, ClearKeepsCalls, NextEventKeepsCalls, FlushReturnsKeepsCalls,
     CallHandlerKeepsCalls, EventDoneKeepsCalls, HandlerEndsKeepsCalls DEF Emitter
<1> QED
  BY <1>2, <1>3, <1>4, <1>5 DEF Next, User

LEMMA CallsInvAlways == Spec => []CallsInv
BY InitCalls, NextCalls, InvHolds, PTL DEF Spec

\* No event is lost: whoever was registered when its delivery began is called,
\* however flushes are nested and lists change under them (flush, on, off).
THEOREM CallsEveryHandler == Spec => []EveryHandlerIsCalled
<1>1. CallsInv => EveryHandlerIsCalled
  BY DEF CallsInv
<1> QED
  BY <1>1, CallsInvAlways, PTL

\* No registration is called twice for an event (flush, on, off).
THEOREM CallsNoneTooOften == Spec => []NoDuplicateCalls
<1>1. CallsInv => NoDuplicateCalls
  BY DEF CallsInv
<1> QED
  BY <1>1, CallsInvAlways, PTL

=============================================================================
