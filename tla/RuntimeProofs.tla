---------------------------- MODULE RuntimeProofs ---------------------------
(***************************************************************************)
(* Proofs about what a translated program runs with and what it becomes:   *)
(* the software timer (SoftTimer), for any number of timers, any periods   *)
(* and callbacks that call anything; the builtins of the generated module  *)
(* (RuntimePrelude), for any strings and numbers, buffers of any size and  *)
(* files of any length; the texts of the statement by statement backends   *)
(* (Backends), for programs of any length and depth.                       *)
(***************************************************************************)
EXTENDS SoftTimer, RuntimePrelude, Backends, SharedLemmas, FiniteSetTheorems, TLAPS

\* What every step but Init relies on.
LEMMA BufferFacts ==
    ASSUME TypeOK
    PROVE  /\ Len(buffer) \in Nat /\ DOMAIN buffer = 1..Len(buffer)
           /\ size \in Nat /\ size <= Len(buffer)
           /\ \A i \in 1..Len(buffer) : buffer[i] \in Timer
<1>1. buffer \in Seq(Timer) /\ size \in 0..Len(buffer)
  BY DEF TypeOK
<1>2. Len(buffer) \in Nat /\ DOMAIN buffer = 1..Len(buffer)
  BY <1>1, LenProperties
<1>3. QED
  BY <1>1, <1>2, ElementOfSeq

\* A buffer with one timer replaced.
LEMMA ReplaceOne ==
    ASSUME TypeOK, NEW i \in 1..Len(buffer), NEW t \in Timer,
           buffer' = [buffer EXCEPT ![i] = t]
    PROVE  /\ buffer' \in Seq(Timer)
           /\ Len(buffer') = Len(buffer)
           /\ buffer'[i] = t
           /\ \A j \in 1..Len(buffer) : j # i => buffer'[j] = buffer[j]
<1>1. buffer \in Seq(Timer)
  BY DEF TypeOK
<1>2. QED
  BY <1>1, BufferFacts, ExceptSeq

\* What push_back does to the timers that are in the vector.
LEMMA PushBackFacts ==
    ASSUME TypeOK, NEW t \in Timer, PushBack(t)
    PROVE  /\ buffer' \in Seq(Timer)
           /\ size' = size + 1
           /\ size' <= Len(buffer')
           /\ capacity' \in Nat
           /\ Len(buffer') <= capacity'
           /\ buffer'[size + 1] = t
           /\ \A i \in 1..size : buffer'[i] = buffer[i]
           /\ \A i \in 1..Len(buffer') :
                 i = size + 1 \/ (i \in 1..Len(buffer) /\ buffer'[i] = buffer[i])
           /\ \/ loop' = loop /\ Len(buffer) <= Len(buffer')
              \/ loop' = [loop EXCEPT !.detached = (loop.pc = "callback")]
<1>1. /\ buffer \in Seq(Timer)
      /\ capacity \in Nat
      /\ Len(buffer) <= capacity
      /\ Len(buffer) \in Nat /\ size \in Nat /\ size <= Len(buffer)
  BY BufferFacts DEF TypeOK
<1>2. size' = size + 1
  BY DEF PushBack
<1>3. CASE size < capacity /\ size < Len(buffer)
  <2>1. /\ buffer' = [buffer EXCEPT ![size + 1] = t]
        /\ UNCHANGED <<capacity, loop>>
    BY <1>3 DEF PushBack
  <2>2. size + 1 \in 1..Len(buffer)
    BY <1>1, <1>3
  <2>3. /\ buffer' \in Seq(Timer)
        /\ Len(buffer') = Len(buffer)
        /\ buffer'[size + 1] = t
        /\ \A j \in 1..Len(buffer) : j # size + 1 => buffer'[j] = buffer[j]
    BY <2>1, <2>2, ReplaceOne
  <2>4. QED
    BY <1>1, <1>2, <2>1, <2>2, <2>3
<1>4. CASE size < capacity /\ ~(size < Len(buffer))
  <2>1. /\ buffer' = Append(buffer, t)
        /\ UNCHANGED <<capacity, loop>>
        /\ size = Len(buffer)
    BY <1>1, <1>4 DEF PushBack
  <2>2. /\ buffer' \in Seq(Timer)
        /\ Len(buffer') = Len(buffer) + 1
        /\ buffer'[Len(buffer) + 1] = t
        /\ \A i \in 1..Len(buffer) : buffer'[i] = buffer[i]
    BY <1>1, <2>1, AppendProperties
  <2>3. QED
    BY <1>1, <1>2, <1>4, <2>1, <2>2
<1>5. CASE ~(size < capacity)
  <2> DEFINE s == SubSeq(buffer, 1, size)
  <2>1. /\ buffer' = Append(s, t)
        /\ capacity' = IF capacity = 0 THEN 1 ELSE 2 * capacity
        /\ loop' = [loop EXCEPT !.detached = (loop.pc = "callback")]
    BY <1>5 DEF PushBack
  <2>2. size = capacity /\ size = Len(buffer)
    BY <1>1, <1>5
  <2>3. /\ s \in Seq(Timer)
        /\ Len(s) = size
        /\ \A i \in 1..size : s[i] = buffer[i]
    BY <1>1, <2>2, SubSeqProperties
  <2> HIDE DEF s
  <2>4. /\ buffer' \in Seq(Timer)
        /\ Len(buffer') = size + 1
        /\ buffer'[size + 1] = t
        /\ \A i \in 1..size : buffer'[i] = s[i]
    BY <2>1, <2>3, AppendProperties
  <2>5. QED
    BY <1>1, <1>2, <2>1, <2>2, <2>3, <2>4
<1>6. QED
  BY <1>3, <1>4, <1>5

\* find_if finds a timer where there is one: the first is the only one.
LEMMA FirstWithFound ==
    ASSUME TypeOK, IdsUnique, NEW id, \E i \in 1..size : buffer[i].id = id
    PROVE  FirstWith(id) \in 1..size
<1>1. size \in Nat
  BY BufferFacts
<1>2. PICK i \in 1..size : buffer[i].id = id
  OBVIOUS
<1>3. ASSUME NEW j \in 1..(i - 1)
      PROVE  buffer[j].id # id
  <2>1. j \in 1..size /\ j # i
    BY <1>1
  <2>2. QED
    BY <1>2, <2>1 DEF IdsUnique
<1>4. \E n \in 1..size : buffer[n].id = id /\ \A j \in 1..(n - 1) : buffer[j].id # id
  BY <1>2, <1>3
<1>5. QED
  BY <1>4 DEF FirstWith

LEMMA InitInv == Init => TypeOK /\ IdsUnique
BY BoundsAssumption DEF Init, TypeOK, NoLoop, Loop, Serials, IdsUnique

\* Where the vector keeps its timers and their ids, ids stay unique.
LEMMA SameIds ==
    ASSUME TypeOK, IdsUnique,
           UNCHANGED <<size, nextId>>,
           \A i \in 1..size : buffer'[i].id = buffer[i].id
    PROVE  IdsUnique'
BY DEF IdsUnique

LEMMA AddInv ==
    ASSUME TypeOK, IdsUnique, NEW period \in Periods, NEW periodic \in BOOLEAN,
           Add(period, periodic)
    PROVE  TypeOK' /\ IdsUnique'
<1> DEFINE t == NewTimer(period, periodic)
<1>1. /\ Calls("add") /\ made < MaxTimers
      /\ PushBack(t)
      /\ nextId' = nextId + 1 /\ made' = made + 1
      /\ UNCHANGED <<fires, dropped>>
  BY DEF Add
<1>2. nextId \in Nat /\ made \in 0..MaxTimers /\ loop \in Loop
  BY DEF TypeOK
<1>3. made + 1 \in Serials /\ 0 \in 0..MaxAge
  BY <1>1, <1>2, BoundsAssumption DEF Serials, MaxAge
<1>4. t \in Timer /\ t.id = nextId
  BY <1>2, <1>3 DEF NewTimer, Timer
<1>5. size \in Nat /\ size <= Len(buffer) /\ Len(buffer) \in Nat
  BY BufferFacts
<1> HIDE DEF t
<1>6. /\ buffer' \in Seq(Timer)
      /\ size' = size + 1
      /\ size' <= Len(buffer')
      /\ capacity' \in Nat
      /\ Len(buffer') <= capacity'
      /\ buffer'[size + 1] = t
      /\ \A i \in 1..size : buffer'[i] = buffer[i]
      /\ \/ loop' = loop /\ Len(buffer) <= Len(buffer')
         \/ loop' = [loop EXCEPT !.detached = (loop.pc = "callback")]
  BY <1>1, <1>4, PushBackFacts
<1>7. Len(buffer') \in Nat
  BY <1>6, LenProperties
<1>8. size' \in 0..Len(buffer')
  BY <1>5, <1>6, <1>7
<1>9. loop.pc = "idle" \/ loop.pc = "callback"
  BY <1>1 DEF Calls
<1>10. /\ loop' \in Loop
       /\ loop'.pc \in {"loop", "callback"} /\ ~loop'.detached => loop'.end <= Len(buffer')
       /\ loop'.pc \in {"loop", "callback"} => loop'.at \in 1..(loop'.end + 1)
       /\ loop'.pc = "callback" => loop'.at <= loop'.end
  <2>1. CASE loop' = loop /\ Len(buffer) <= Len(buffer')
    BY <2>1, <1>2, <1>5, <1>7 DEF TypeOK, Loop
  <2>2. CASE loop' = [loop EXCEPT !.detached = (loop.pc = "callback")]
    <3>1. /\ loop' \in Loop
          /\ loop'.pc = loop.pc /\ loop'.at = loop.at /\ loop'.end = loop.end
          /\ loop'.detached = (loop.pc = "callback")
      BY <2>2, <1>2 DEF Loop
    <3>2. QED
      BY <3>1, <1>9 DEF TypeOK
  <2>3. QED
    BY <1>6, <2>1, <2>2
<1>11. made' \in 0..MaxTimers /\ nextId' \in Nat
  BY <1>1, <1>2, BoundsAssumption
<1>12. TypeOK'
  BY <1>1, <1>6, <1>8, <1>10, <1>11 DEF TypeOK, Calls
<1>13. IdsUnique'
  <2>1. ASSUME NEW i \in 1..size'
        PROVE  /\ buffer'[i].id < nextId'
               /\ i \in 1..size => buffer'[i].id = buffer[i].id /\ buffer'[i].id < nextId
               /\ i \notin 1..size => i = size + 1 /\ buffer'[i].id = nextId
    <3>1. CASE i \in 1..size
      <4>1. buffer[i] \in Timer /\ buffer'[i] = buffer[i]
        BY <3>1, <1>5, <1>6, BufferFacts
      <4>2. buffer[i].id \in Nat /\ buffer[i].id < nextId
        BY <3>1, <4>1 DEF IdsUnique, Timer
      <4>3. QED
        BY <3>1, <4>1, <4>2, <1>1, <1>2
    <3>2. CASE i \notin 1..size
      <4>1. i = size + 1
        BY <3>2, <1>5, <1>6
      <4>2. QED
        BY <3>2, <4>1, <1>1, <1>2, <1>4, <1>6
    <3>3. QED
      BY <3>1, <3>2
  <2>2. ASSUME NEW i \in 1..size', NEW j \in 1..size', buffer'[i].id = buffer'[j].id
        PROVE  i = j
    BY <2>1, <2>2, <1>2 DEF IdsUnique
  <2>3. QED
    BY <2>1, <2>2 DEF IdsUnique
<1>14. QED
  BY <1>12, <1>13

LEMMA StopInv ==
    ASSUME TypeOK, IdsUnique, NEW id, Stop(id)
    PROVE  TypeOK' /\ IdsUnique'
<1> DEFINE n == FirstWith(id)
           t == [buffer[n] EXCEPT !.running = FALSE]
<1>1. n \in 1..size
  BY FirstWithFound DEF Stop
<1>2. n \in 1..Len(buffer) /\ buffer[n] \in Timer
  BY <1>1, BufferFacts
<1>3. t \in Timer /\ t.id = buffer[n].id /\ buffer[n].serial \in Serials
  BY <1>2 DEF Timer
<1>4. buffer' = [buffer EXCEPT ![n] = t]
  BY DEF Stop
<1> HIDE DEF t
<1>5. /\ buffer' \in Seq(Timer)
      /\ Len(buffer') = Len(buffer)
      /\ buffer'[n] = t
      /\ \A j \in 1..Len(buffer) : j # n => buffer'[j] = buffer[j]
  BY <1>2, <1>3, <1>4, ReplaceOne
<1>6. TypeOK'
  BY <1>3, <1>5 DEF Stop, TypeOK, Calls
<1>7. IdsUnique'
  <2>1. \A i \in 1..size : buffer'[i].id = buffer[i].id
    BY <1>3, <1>5, BufferFacts
  <2>2. QED
    BY <2>1, SameIds DEF Stop
<1>8. QED
  BY <1>6, <1>7

LEMMA ClearAllInv ==
    ASSUME TypeOK, IdsUnique, ClearAll
    PROVE  TypeOK' /\ IdsUnique'
<1>1. \A i \in 1..size : buffer[i].serial \in Serials
  BY BufferFacts DEF Timer
<1>2. dropped' \in SUBSET Serials
  BY <1>1 DEF ClearAll, TypeOK
<1>3. called' \in SUBSET {"add", "stop", "clear"}
  BY DEF ClearAll, Calls, TypeOK
<1>4. IdsUnique'
  BY BufferFacts DEF ClearAll, IdsUnique
<1>5. size' \in 0..Len(buffer') /\ nextId' \in Nat
  BY BufferFacts DEF ClearAll
<1>6. QED
  BY <1>2, <1>3, <1>4, <1>5 DEF ClearAll, TypeOK

LEMMA TickInv ==
    ASSUME TypeOK, IdsUnique, Tick
    PROVE  TypeOK' /\ IdsUnique'
<1>1. CASE TickStart
  <2>1. loop' = [pc |-> "loop", at |-> 1, end |-> size, since |-> 0, detached |-> FALSE]
    BY <1>1 DEF TickStart, NoLoop
  <2>2. loop' \in Loop /\ loop'.at = 1 /\ loop'.end = size /\ loop'.pc = "loop"
    BY <2>1, BufferFacts, BoundsAssumption DEF Loop
  <2>3. QED
    BY <1>1, <2>2, BufferFacts DEF TickStart, TypeOK, IdsUnique
<1>2. CASE Skip
  <2>1. loop' = [loop EXCEPT !.at = @ + 1] /\ loop.pc = "loop" /\ loop.at <= loop.end
    BY <1>2 DEF Skip, AtTimer
  <2>2. /\ loop' \in Loop /\ loop'.pc = "loop" /\ loop'.end = loop.end
        /\ loop'.detached = loop.detached /\ loop'.at = loop.at + 1
        /\ loop.at \in Nat /\ loop.end \in Nat
    BY <2>1 DEF TypeOK, Loop
  <2>3. QED
    BY <1>2, <2>1, <2>2 DEF Skip, TypeOK, IdsUnique
<1>3. CASE Fire
  <2>1. loop' = [loop EXCEPT !.pc = "callback"] /\ loop.pc = "loop" /\ loop.at <= loop.end
    BY <1>3 DEF Fire, AtTimer
  <2>2. /\ loop' \in Loop /\ loop'.pc = "callback" /\ loop'.end = loop.end
        /\ loop'.detached = loop.detached /\ loop'.at = loop.at
    BY <2>1 DEF TypeOK, Loop
  <2>3. fires' \in [Serials -> 0..2]
    <3> DEFINE n == buffer[loop.at].serial
    <3>1. /\ fires \in [Serials -> 0..2]
          /\ fires' = [fires EXCEPT ![n] = IF fires[n] = 0 THEN 1 ELSE 2]
      BY <1>3 DEF Fire, TypeOK
    <3>2. (IF fires[n] = 0 THEN 1 ELSE 2) \in 0..2
      OBVIOUS
    <3> HIDE DEF n
    <3>3. QED
      BY <3>1, <3>2
  <2>4. QED
    BY <1>3, <2>1, <2>2, <2>3 DEF Fire, TypeOK, IdsUnique
<1>4. CASE UseDestroyed
  <2>1. loop' \in Loop /\ loop'.pc = "aborted"
    BY <1>4 DEF UseDestroyed, TypeOK, Loop
  <2>2. QED
    BY <1>4, <2>1 DEF UseDestroyed, TypeOK, IdsUnique
<1>5. CASE CallbackReturns
  <2> DEFINE n == loop.at
             t == Fired(buffer[n])
  <2>1. /\ loop.pc = "callback" /\ ~loop.detached
        /\ buffer' = [buffer EXCEPT ![n] = t]
        /\ loop' = [loop EXCEPT !.pc = "loop", !.at = @ + 1]
        /\ UNCHANGED <<size, capacity, nextId, made, fires, dropped, called>>
    BY <1>5 DEF CallbackReturns
  <2>2. /\ loop \in Loop /\ loop.at <= loop.end /\ loop.end <= Len(buffer)
        /\ loop.at \in 1..(loop.end + 1)
    BY <2>1 DEF TypeOK
  <2>3. n \in 1..Len(buffer) /\ buffer[n] \in Timer
    BY <2>2, BufferFacts DEF Loop
  <2>4. loop.since \in 0..MaxAge
    BY <2>2, BoundsAssumption DEF Loop, MaxAge
  <2>5. t \in Timer /\ t.id = buffer[n].id
    BY <2>3, <2>4 DEF Fired, Timer
  <2>6. /\ loop' \in Loop /\ loop'.pc = "loop" /\ loop'.end = loop.end
        /\ loop'.detached = loop.detached /\ loop'.at = loop.at + 1
        /\ loop.at \in Nat /\ loop.end \in Nat
    <3>1. loop' = [loop EXCEPT !.pc = "loop", !.at = loop.at + 1]
      BY <2>1
    <3>2. loop.at + 1 \in Nat
      BY <2>2 DEF Loop
    <3>3. QED
      BY <3>1, <3>2, <2>2 DEF Loop
  <2> HIDE DEF t
  <2>7. /\ buffer' \in Seq(Timer)
        /\ Len(buffer') = Len(buffer)
        /\ buffer'[n] = t
        /\ \A j \in 1..Len(buffer) : j # n => buffer'[j] = buffer[j]
    BY <2>1, <2>3, <2>5, ReplaceOne
  <2>8. TypeOK'
    BY <2>1, <2>2, <2>6, <2>7 DEF TypeOK
  <2>9. \A i \in 1..size : buffer'[i].id = buffer[i].id
    BY <2>5, <2>7, BufferFacts
  <2>10. QED
    BY <2>1, <2>8, <2>9, SameIds
<1>6. CASE CallbackReturnsDetached
  <2>1. CASE loop' = NoLoop
    BY <1>6, <2>1, BoundsAssumption
      DEF CallbackReturnsDetached, TypeOK, IdsUnique, Loop, NoLoop
  <2>2. CASE loop' = [loop EXCEPT !.pc = "aborted"]
    BY <1>6, <2>2 DEF CallbackReturnsDetached, TypeOK, IdsUnique, Loop
  <2>3. QED
    BY <1>6, <2>1, <2>2 DEF CallbackReturnsDetached
<1>7. CASE TickEnd
  BY <1>7, BoundsAssumption DEF TickEnd, TypeOK, IdsUnique, Loop, NoLoop
<1>8. QED
  BY <1>1, <1>2, <1>3, <1>4, <1>5, <1>6, <1>7 DEF Tick

LEMMA ElapseInv ==
    ASSUME TypeOK, IdsUnique, Elapse
    PROVE  TypeOK' /\ IdsUnique'
<1>1. /\ buffer' = [i \in DOMAIN buffer |-> Older(buffer[i])]
      /\ UNCHANGED <<size, capacity, nextId, made, fires, dropped, called>>
  BY DEF Elapse
<1>2. \A i \in 1..Len(buffer) : buffer[i] \in Timer
  BY BufferFacts
<1>3. ASSUME NEW t \in Timer
      PROVE  Older(t) \in Timer /\ Older(t).id = t.id
  BY BoundsAssumption DEF Older, Timer, MaxAge
<1>4. /\ Len(buffer) \in Nat /\ DOMAIN buffer = 1..Len(buffer)
      /\ buffer' \in [1..Len(buffer) -> Timer]
  BY <1>1, <1>2, <1>3, BufferFacts
<1>5. buffer' \in Seq(Timer) /\ Len(buffer') = Len(buffer)
  BY <1>4, LenProperties
<1>6. /\ loop' \in Loop /\ loop'.pc = loop.pc /\ loop'.end = loop.end
      /\ loop'.detached = loop.detached /\ loop'.at = loop.at
  <2>1. CASE loop' = loop
    BY <2>1 DEF TypeOK
  <2>2. CASE loop.since < MaxTick /\ loop' = [loop EXCEPT !.since = @ + 1]
    BY <2>2, BoundsAssumption DEF TypeOK, Loop
  <2>3. QED
    BY <2>1, <2>2 DEF Elapse
<1>7. TypeOK'
  BY <1>1, <1>5, <1>6 DEF TypeOK
<1>8. \A i \in 1..size : buffer'[i].id = buffer[i].id
  BY <1>1, <1>2, <1>3, BufferFacts
<1>9. QED
  BY <1>1, <1>7, <1>8, SameIds

LEMMA NextInv ==
    TypeOK /\ IdsUnique /\ [Next]_vars => TypeOK' /\ IdsUnique'
<1> SUFFICES ASSUME TypeOK, IdsUnique, [Next]_vars
             PROVE  TypeOK' /\ IdsUnique'
  OBVIOUS
<1>1. CASE UNCHANGED vars
  BY <1>1 DEF vars, TypeOK, IdsUnique
<1>2. QED
  BY <1>1, AddInv, StopInv, ClearAllInv, TickInv, ElapseInv DEF Next

\* The loop of tick() stays within the buffer it iterates over, unless a
\* callback has made the vector move to another one.
THEOREM TypeCorrect == Spec => []TypeOK
<1>1. Init => TypeOK /\ IdsUnique
  BY InitInv
<1>2. TypeOK /\ IdsUnique /\ [Next]_vars => (TypeOK /\ IdsUnique)'
  BY NextInv
<1>3. QED
  BY <1>1, <1>2, PTL DEF Spec

\* Whatever the program and its callbacks add, stop and clear, an id means
\* one timer: stop(), isRunning() and remaining() act on the right one.
THEOREM AnIdMeansOneTimer == Spec => []IdsUnique
<1>1. Init => TypeOK /\ IdsUnique
  BY InitInv
<1>2. TypeOK /\ IdsUnique /\ [Next]_vars => (TypeOK /\ IdsUnique)'
  BY NextInv
<1>3. QED
  BY <1>1, <1>2, PTL DEF Spec

-----------------------------------------------------------------------------

\* Serials are those of the timers made so far, one timer of the vector each.
SerialsOnce ==
    /\ \A i \in 1..Len(buffer) : buffer[i].serial \in 1..made
    /\ \A i, j \in 1..size : buffer[i].serial = buffer[j].serial => i = j
    /\ dropped \subseteq 1..made
    /\ \A s \in Serials : s > made => fires[s] = 0

\* Only every() and once() make timers; a timer that is stopped is not started again.
Kept ==
    /\ made' = made
    /\ Len(buffer') = Len(buffer)
    /\ \A i \in 1..Len(buffer) :
          /\ buffer'[i].serial = buffer[i].serial
          /\ buffer'[i].periodic = buffer[i].periodic
          /\ buffer'[i].running => buffer[i].running

LEMMA SameTimers ==
    ASSUME TypeOK, UNCHANGED <<buffer, made>>
    PROVE  Kept
  BY DEF Kept

LEMMA StopKeeps ==
    ASSUME TypeOK, IdsUnique, NEW id, Stop(id)
    PROVE  /\ Kept
           /\ UNCHANGED <<size, loop, made, fires>>
           /\ FirstWith(id) \in 1..size
           /\ ~buffer'[FirstWith(id)].running
           /\ dropped' = dropped \cup {buffer[FirstWith(id)].serial}
<1> DEFINE n == FirstWith(id)
           t == [buffer[n] EXCEPT !.running = FALSE]
<1>1. n \in 1..size
  BY FirstWithFound DEF Stop
<1>2. n \in 1..Len(buffer) /\ buffer[n] \in Timer
  BY <1>1, BufferFacts
<1>3. /\ t \in Timer /\ t.serial = buffer[n].serial /\ t.periodic = buffer[n].periodic
      /\ ~t.running
  BY <1>2 DEF Timer
<1>4. /\ buffer' = [buffer EXCEPT ![n] = t]
      /\ dropped' = dropped \cup {buffer[n].serial}
      /\ UNCHANGED <<size, loop, made, fires>>
  BY DEF Stop
<1> HIDE DEF t
<1>5. /\ Len(buffer') = Len(buffer)
      /\ buffer'[n] = t
      /\ \A j \in 1..Len(buffer) : j # n => buffer'[j] = buffer[j]
  BY <1>2, <1>3, <1>4, ReplaceOne
<1>6. Kept
  BY <1>3, <1>4, <1>5 DEF Kept
<1>7. QED
  BY <1>1, <1>3, <1>4, <1>5, <1>6

LEMMA ReturnKeeps ==
    ASSUME TypeOK, CallbackReturns
    PROVE  /\ Kept
           /\ UNCHANGED <<size, made, fires, dropped>>
           /\ loop.at \in 1..Len(buffer)
           /\ ~buffer[loop.at].periodic => ~buffer'[loop.at].running
           /\ \A j \in 1..Len(buffer) : j # loop.at => buffer'[j] = buffer[j]
<1> DEFINE n == loop.at
           t == Fired(buffer[n])
<1>1. /\ loop.pc = "callback" /\ ~loop.detached
      /\ buffer' = [buffer EXCEPT ![n] = t]
      /\ UNCHANGED <<size, made, fires, dropped>>
  BY DEF CallbackReturns
<1>2. /\ loop \in Loop /\ loop.at <= loop.end /\ loop.end <= Len(buffer)
      /\ loop.at \in 1..(loop.end + 1)
  BY <1>1 DEF TypeOK
<1>3. n \in 1..Len(buffer) /\ buffer[n] \in Timer
  BY <1>2, BufferFacts DEF Loop
<1>4. loop.since \in 0..MaxAge
  BY <1>2, BoundsAssumption DEF Loop, MaxAge
<1>5. /\ t \in Timer /\ t.serial = buffer[n].serial /\ t.periodic = buffer[n].periodic
      /\ t.running => buffer[n].running /\ buffer[n].periodic
  BY <1>3, <1>4 DEF Fired, Timer
<1> HIDE DEF t
<1>6. /\ Len(buffer') = Len(buffer)
      /\ buffer'[n] = t
      /\ \A j \in 1..Len(buffer) : j # n => buffer'[j] = buffer[j]
  BY <1>1, <1>3, <1>5, ReplaceOne
<1>7. Kept
  BY <1>1, <1>5, <1>6 DEF Kept
<1>8. QED
  BY <1>1, <1>3, <1>5, <1>6, <1>7

LEMMA ElapseKeeps ==
    ASSUME TypeOK, Elapse
    PROVE  /\ Kept
           /\ UNCHANGED <<size, made, fires, dropped>>
           /\ \A i \in 1..Len(buffer) : buffer'[i].running = buffer[i].running
           /\ loop'.pc = loop.pc /\ loop'.at = loop.at /\ loop'.end = loop.end
           /\ loop'.detached = loop.detached
<1>1. /\ buffer' = [i \in DOMAIN buffer |-> Older(buffer[i])]
      /\ UNCHANGED <<size, made, fires, dropped>>
  BY DEF Elapse
<1>2. \A i \in 1..Len(buffer) : buffer[i] \in Timer
  BY BufferFacts
<1>3. ASSUME NEW t \in Timer
      PROVE  /\ Older(t) \in Timer /\ Older(t).serial = t.serial
             /\ Older(t).periodic = t.periodic /\ Older(t).running = t.running
  BY BoundsAssumption DEF Older, Timer, MaxAge
<1>4. /\ Len(buffer) \in Nat /\ DOMAIN buffer = 1..Len(buffer)
      /\ buffer' \in [1..Len(buffer) -> Timer]
  BY <1>1, <1>2, <1>3, BufferFacts
<1>5. Len(buffer') = Len(buffer)
  BY <1>4, LenProperties
<1>6. \A i \in 1..Len(buffer) : buffer'[i] = Older(buffer[i])
  BY <1>1, <1>4
<1>7. Kept /\ \A i \in 1..Len(buffer) : buffer'[i].running = buffer[i].running
  BY <1>1, <1>2, <1>3, <1>5, <1>6 DEF Kept
<1>8. loop'.pc = loop.pc /\ loop'.at = loop.at /\ loop'.end = loop.end
      /\ loop'.detached = loop.detached
  <2>1. CASE loop' = loop
    BY <2>1
  <2>2. CASE loop' = [loop EXCEPT !.since = @ + 1]
    BY <2>2 DEF TypeOK, Loop
  <2>3. QED
    BY <2>1, <2>2 DEF Elapse
<1>9. QED
  BY <1>1, <1>7, <1>8

\* What every() and once() do to the buffer.
LEMMA AddMakes ==
    ASSUME TypeOK, NEW period \in Periods, NEW periodic \in BOOLEAN, Add(period, periodic)
    PROVE  /\ size' = size + 1 /\ made' = made + 1
           /\ UNCHANGED <<fires, dropped>>
           /\ made + 1 \in Serials
           /\ buffer'[size + 1].serial = made + 1
           /\ buffer'[size + 1].periodic = periodic
           /\ \A i \in 1..size : buffer'[i] = buffer[i]
           /\ \A i \in 1..Len(buffer') :
                 i = size + 1 \/ (i \in 1..Len(buffer) /\ buffer'[i] = buffer[i])
           /\ \/ loop' = loop
              \/ loop' = [loop EXCEPT !.detached = (loop.pc = "callback")]
<1> DEFINE t == NewTimer(period, periodic)
<1>1. /\ made < MaxTimers
      /\ PushBack(t)
      /\ made' = made + 1
      /\ UNCHANGED <<fires, dropped>>
  BY DEF Add
<1>2. nextId \in Nat /\ made \in 0..MaxTimers
  BY DEF TypeOK
<1>3. made + 1 \in Serials /\ 0 \in 0..MaxAge
  BY <1>1, <1>2, BoundsAssumption DEF Serials, MaxAge
<1>4. t \in Timer /\ t.serial = made + 1 /\ t.periodic = periodic
  BY <1>2, <1>3 DEF NewTimer, Timer
<1> HIDE DEF t
<1>5. /\ size' = size + 1
      /\ buffer'[size + 1] = t
      /\ \A i \in 1..size : buffer'[i] = buffer[i]
      /\ \A i \in 1..Len(buffer') :
            i = size + 1 \/ (i \in 1..Len(buffer) /\ buffer'[i] = buffer[i])
      /\ \/ loop' = loop
         \/ loop' = [loop EXCEPT !.detached = (loop.pc = "callback")]
  BY <1>1, <1>4, PushBackFacts
<1>6. QED
  BY <1>1, <1>3, <1>4, <1>5

\* While the loop looks at timers, it looks at those of the vector's own buffer.
Attached == loop.pc = "loop" => ~loop.detached

LEMMA AttachedStep ==
    ASSUME TypeOK, Attached, [Next]_vars
    PROVE  Attached'
<1>0. loop \in Loop
  BY DEF TypeOK
<1>1. CASE \E period \in Periods, periodic \in BOOLEAN : Add(period, periodic)
  <2>1. loop.pc \in {"idle", "callback"}
    BY <1>1 DEF Add, Calls
  <2>2. loop' = loop \/ loop' = [loop EXCEPT !.detached = (loop.pc = "callback")]
    BY <1>1, AddMakes
  <2>3. loop'.pc = loop.pc
    BY <2>2, <1>0 DEF Loop
  <2>4. QED
    BY <2>1, <2>3 DEF Attached
<1>2. CASE (\E id \in 0..MaxTimers : Stop(id)) \/ ClearAll \/ UNCHANGED vars
  BY <1>2 DEF Stop, ClearAll, vars, Attached
<1>3. CASE TickStart \/ TickEnd \/ CallbackReturnsDetached
  <2>1. \/ loop' = [pc |-> "loop", at |-> 1, end |-> size, since |-> 0, detached |-> FALSE]
        \/ loop' = NoLoop
        \/ loop' = [loop EXCEPT !.pc = "aborted"]
    BY <1>3 DEF TickStart, TickEnd, CallbackReturnsDetached, NoLoop
  <2>2. loop'.pc # "loop" \/ ~loop'.detached
    BY <1>0, <2>1 DEF NoLoop, Loop
  <2>3. QED
    BY <2>2 DEF Attached
<1>4. CASE Skip \/ Fire \/ UseDestroyed
  BY <1>0, <1>4 DEF Skip, Fire, UseDestroyed, AtTimer, Attached, Loop
<1>5. CASE CallbackReturns
  <2>1. loop' = [loop EXCEPT !.pc = "loop", !.at = loop.at + 1] /\ ~loop.detached
    BY <1>5 DEF CallbackReturns
  <2>2. QED
    BY <1>0, <2>1 DEF Attached, Loop
<1>6. CASE Elapse
  BY <1>6, ElapseKeeps DEF Attached
<1>7. QED
  BY <1>1, <1>2, <1>3, <1>4, <1>5, <1>6 DEF Next, Tick

LEMMA SerialsStep ==
    ASSUME TypeOK, IdsUnique, Attached, SerialsOnce, [Next]_vars
    PROVE  SerialsOnce'
<1>b. /\ Len(buffer) \in Nat /\ size \in Nat /\ size <= Len(buffer) /\ made \in Nat
      /\ made \in 0..MaxTimers /\ MaxTimers \in Nat
  BY BufferFacts, BoundsAssumption DEF TypeOK
<1>1. ASSUME Kept, UNCHANGED fires, size' <= size, size' \in Nat,
             dropped' \subseteq dropped \cup {buffer[i].serial : i \in 1..size}
      PROVE  SerialsOnce'
  <2>1. \A i \in 1..Len(buffer) : buffer'[i].serial = buffer[i].serial
    BY <1>1 DEF Kept
  <2>2. \A i \in 1..size : i \in 1..Len(buffer)
    BY <1>b
  <2>3. \A i \in 1..size' : i \in 1..size
    BY <1>1, <1>b
  <2>4. dropped' \subseteq 1..made
    BY <1>1, <2>2 DEF SerialsOnce
  <2>5. made' = made /\ Len(buffer') = Len(buffer)
    BY <1>1 DEF Kept
  <2>6. QED
    BY <1>1, <2>1, <2>2, <2>3, <2>4, <2>5 DEF SerialsOnce
<1>2. CASE \E period \in Periods, periodic \in BOOLEAN : Add(period, periodic)
  <2>1. PICK period \in Periods, periodic \in BOOLEAN : Add(period, periodic)
    BY <1>2
  <2>2. /\ size' = size + 1 /\ made' = made + 1
        /\ UNCHANGED <<fires, dropped>>
        /\ buffer'[size + 1].serial = made + 1
        /\ \A i \in 1..size : buffer'[i] = buffer[i]
        /\ \A i \in 1..Len(buffer') :
              i = size + 1 \/ (i \in 1..Len(buffer) /\ buffer'[i] = buffer[i])
    BY <2>1, AddMakes
  <2>3. \A i \in 1..made : i \in 1..made + 1 /\ i # made + 1
    BY <1>b
  <2>4. made + 1 \in 1..made + 1
    BY <1>b
  <2>5. ASSUME NEW i \in 1..Len(buffer') PROVE buffer'[i].serial \in 1..made'
    BY <2>2, <2>3, <2>4, <2>5 DEF SerialsOnce
  <2>6. \A i \in 1..size' : i \in 1..size \/ i = size + 1
    BY <1>b, <2>2
  <2>7. \A i \in 1..size : i \in 1..Len(buffer)
    BY <1>b
  <2>8. ASSUME NEW i \in 1..size', NEW j \in 1..size', buffer'[i].serial = buffer'[j].serial
        PROVE  i = j
    BY <2>2, <2>3, <2>6, <2>7, <2>8 DEF SerialsOnce
  <2>9. dropped' \subseteq 1..made'
    BY <2>2, <2>3 DEF SerialsOnce
  <2>10. \A s \in Serials : s > made' => fires'[s] = 0
    <3>1. \A s \in Serials : s > made + 1 => s > made
      BY <1>b DEF Serials
    <3>2. QED
      BY <2>2, <3>1 DEF SerialsOnce
  <2>11. QED
    BY <2>5, <2>8, <2>9, <2>10 DEF SerialsOnce
<1>3. CASE \E id \in 0..MaxTimers : Stop(id)
  <2>1. PICK id \in 0..MaxTimers : Stop(id)
    BY <1>3
  <2>2. QED
    BY <1>1, <1>b, <2>1, StopKeeps
<1>4. CASE ClearAll
  <2>1. Kept /\ UNCHANGED fires /\ size' = 0
        /\ dropped' = dropped \cup {buffer[i].serial : i \in 1..size}
    BY <1>4, SameTimers DEF ClearAll
  <2>2. QED
    BY <1>1, <1>b, <2>1
<1>5. CASE TickStart \/ Skip \/ UseDestroyed \/ CallbackReturnsDetached \/ TickEnd
  <2>1. Kept /\ UNCHANGED <<fires, size, dropped>>
    BY <1>5, SameTimers DEF TickStart, Skip, UseDestroyed, CallbackReturnsDetached, TickEnd
  <2>2. QED
    BY <1>1, <1>b, <2>1
<1>6. CASE Fire
  <2> DEFINE n == buffer[loop.at].serial
  <2>1. /\ UNCHANGED <<buffer, size, made, dropped>>
        /\ fires' = [fires EXCEPT ![n] = IF @ = 0 THEN 1 ELSE 2]
    BY <1>6 DEF Fire
  <2>2. n \in 1..made
    <3>1. loop.at \in 1..Len(buffer)
      <4>1. /\ loop.pc = "loop" /\ loop.at <= loop.end /\ loop \in Loop
            /\ loop.at \in 1..(loop.end + 1)
        BY <1>6 DEF Fire, AtTimer, TypeOK
      <4>2. ~loop.detached
        BY <4>1 DEF Attached
      <4>3. QED
        BY <4>1, <4>2, <1>b DEF TypeOK, Loop
    <3>2. QED
      BY <3>1 DEF SerialsOnce
  <2>3. \A s \in Serials : s > made => s # n
    BY <2>2, <1>b DEF Serials
  <2>4. fires \in [Serials -> 0..2]
    BY DEF TypeOK
  <2> HIDE DEF n
  <2>5. \A s \in Serials : s # n => fires'[s] = fires[s]
    BY <2>1, <2>4
  <2>6. QED
    BY <2>1, <2>3, <2>5 DEF SerialsOnce
<1>7. CASE CallbackReturns
  <2>1. Kept /\ UNCHANGED <<fires, size, dropped>>
    BY <1>7, ReturnKeeps
  <2>2. QED
    BY <1>1, <1>b, <2>1
<1>8. CASE Elapse
  <2>1. Kept /\ UNCHANGED <<fires, size, dropped>>
    BY <1>8, ElapseKeeps
  <2>2. QED
    BY <1>1, <1>b, <2>1
<1>9. CASE UNCHANGED vars
  BY <1>9 DEF vars, SerialsOnce
<1>10. QED
  BY <1>2, <1>3, <1>4, <1>5, <1>6, <1>7, <1>8, <1>9 DEF Next, Tick

-----------------------------------------------------------------------------

\* Why DroppedIsSilent holds unless callbacks clear: tick() sees timers of the vector
\* only, and of those the ones that were stopped do not run.
DroppedStopped ==
    /\ loop.pc \in {"loop", "callback"} => loop.end <= size
    /\ \A i \in 1..size : buffer[i].serial \in dropped => ~buffer[i].running

LEMMA StillDropped ==
    ASSUME TypeOK, DroppedStopped, Kept, UNCHANGED <<size, dropped>>,
           loop'.pc \in {"loop", "callback"} => loop'.end <= size
    PROVE  DroppedStopped'
<1>1. \A i \in 1..size : i \in 1..Len(buffer)
  BY BufferFacts
<1>2. QED
  BY <1>1 DEF DroppedStopped, Kept

LEMMA DroppedStep ==
    ASSUME "clear" \notin called', TypeOK, IdsUnique, SerialsOnce, DroppedStopped,
           [Next]_vars
    PROVE  DroppedStopped'
<1>b. /\ size \in Nat /\ loop \in Loop /\ Len(buffer) \in Nat /\ size <= Len(buffer)
      /\ made \in Nat
      /\ \A i \in 1..size : i \in 1..Len(buffer)
  BY BufferFacts, BoundsAssumption DEF TypeOK
<1>1. CASE \E period \in Periods, periodic \in BOOLEAN : Add(period, periodic)
  <2>1. PICK period \in Periods, periodic \in BOOLEAN : Add(period, periodic)
    BY <1>1
  <2>2. /\ size' = size + 1
        /\ UNCHANGED dropped
        /\ buffer'[size + 1].serial = made + 1
        /\ \A i \in 1..size : buffer'[i] = buffer[i]
        /\ loop' = loop \/ loop' = [loop EXCEPT !.detached = (loop.pc = "callback")]
    BY <2>1, AddMakes
  <2>3. loop'.pc = loop.pc /\ loop'.end = loop.end
    BY <2>2, <1>b DEF Loop
  <2>4. made + 1 \notin dropped
    BY <1>b DEF SerialsOnce
  <2>5. \A i \in 1..size' : i \in 1..size \/ i = size + 1
    BY <1>b, <2>2
  <2>6. loop'.pc \in {"loop", "callback"} => loop'.end <= size'
    BY <1>b, <2>2, <2>3 DEF DroppedStopped, Loop
  <2>7. QED
    BY <2>2, <2>4, <2>5, <2>6 DEF DroppedStopped
<1>2. CASE \E id \in 0..MaxTimers : Stop(id)
  <2>1. PICK id \in 0..MaxTimers : Stop(id)
    BY <1>2
  <2> DEFINE n == FirstWith(id)
  <2>2. /\ Kept
        /\ UNCHANGED <<size, loop>>
        /\ n \in 1..size
        /\ ~buffer'[n].running
        /\ dropped' = dropped \cup {buffer[n].serial}
    BY <2>1, StopKeeps
  <2> HIDE DEF n
  <2>3. ASSUME NEW i \in 1..size', buffer'[i].serial \in dropped'
        PROVE  ~buffer'[i].running
    <3>1. /\ i \in 1..size /\ buffer'[i].serial = buffer[i].serial
          /\ buffer'[i].running => buffer[i].running
      BY <1>b, <2>2 DEF Kept
    <3>2. CASE buffer[i].serial = buffer[n].serial
      <4>1. i = n
        BY <2>2, <3>1, <3>2 DEF SerialsOnce
      <4>2. QED
        BY <2>2, <4>1
    <3>3. CASE buffer[i].serial \in dropped
      BY <3>1, <3>3 DEF DroppedStopped
    <3>4. QED
      BY <2>2, <2>3, <3>1, <3>2, <3>3
  <2>4. loop'.pc \in {"loop", "callback"} => loop'.end <= size'
    BY <2>2 DEF DroppedStopped
  <2>5. QED
    BY <2>3, <2>4 DEF DroppedStopped
<1>3. CASE ClearAll
  <2>1. loop.pc = "idle" /\ loop' = loop /\ size' = 0
    BY <1>3 DEF ClearAll, Calls
  <2>2. QED
    BY <2>1 DEF DroppedStopped
<1>4. CASE TickStart \/ Skip \/ Fire \/ UseDestroyed \/ CallbackReturnsDetached \/ TickEnd
  <2>1. Kept /\ UNCHANGED <<size, dropped>>
    BY <1>4, SameTimers DEF TickStart, Skip, Fire, UseDestroyed, CallbackReturnsDetached, TickEnd
  <2>2. \/ loop' = [pc |-> "loop", at |-> 1, end |-> size, since |-> 0, detached |-> FALSE]
        \/ loop' = NoLoop
        \/ loop' = [loop EXCEPT !.pc = "aborted"]
        \/ loop.pc = "loop" /\ loop' = [loop EXCEPT !.pc = "callback"]
        \/ loop.pc = "loop" /\ loop' = [loop EXCEPT !.at = loop.at + 1]
    BY <1>4 DEF TickStart, Skip, Fire, UseDestroyed, CallbackReturnsDetached, TickEnd, AtTimer,
       NoLoop
  <2>3. \/ loop'.pc \notin {"loop", "callback"}
        \/ loop'.end = size
        \/ loop.pc = "loop" /\ loop'.end = loop.end
    BY <2>2, <1>b DEF NoLoop, Loop
  <2>4. loop'.pc \in {"loop", "callback"} => loop'.end <= size
    BY <2>3, <1>b DEF DroppedStopped
  <2>5. QED
    BY <2>1, <2>4, StillDropped
<1>5. CASE CallbackReturns
  <2>1. Kept /\ UNCHANGED <<size, dropped>>
    BY <1>5, ReturnKeeps
  <2>2. loop.pc = "callback" /\ loop' = [loop EXCEPT !.pc = "loop", !.at = loop.at + 1]
    BY <1>5 DEF CallbackReturns
  <2>3. loop'.end = loop.end
    BY <2>2, <1>b DEF Loop
  <2>4. QED
    BY <2>1, <2>2, <2>3, StillDropped DEF DroppedStopped
<1>6. CASE Elapse
  BY <1>6, ElapseKeeps, StillDropped DEF DroppedStopped
<1>7. CASE UNCHANGED vars
  BY <1>7 DEF vars, DroppedStopped
<1>8. QED
  BY <1>1, <1>2, <1>3, <1>4, <1>5, <1>6, <1>7 DEF Next, Tick

\* What callbacks have called, they have called.
LEMMA CallsStay == [Next]_vars => called \subseteq called'
BY DEF Next, Tick, Add, Stop, ClearAll, Calls, TickStart, Skip, Fire, UseDestroyed,
   CallbackReturns, CallbackReturnsDetached, TickEnd, Elapse, vars

\* Only Fire calls a callback.
LEMMA CallsAreFires ==
    ASSUME TypeOK, Next, loop.pc = "loop", loop'.pc = "callback"
    PROVE  Fire
<1>0. loop \in Loop
  BY DEF TypeOK
<1>1. ~ \E period \in Periods, periodic \in BOOLEAN : Add(period, periodic)
  BY DEF Add, Calls
<1>2. ~ ClearAll /\ ~ \E id \in 0..MaxTimers : Stop(id)
  BY DEF ClearAll, Stop, Calls
<1>3. ~ Elapse
  <2>1. Elapse => loop'.pc = loop.pc
    BY ElapseKeeps
  <2>2. QED
    BY <2>1
<1>4. ~ TickStart /\ ~ CallbackReturns /\ ~ CallbackReturnsDetached
  BY DEF TickStart, CallbackReturns, CallbackReturnsDetached
<1>5. ~ Skip
  BY <1>0 DEF Skip, AtTimer, Loop
<1>6. ~ UseDestroyed /\ ~ TickEnd
  BY <1>0 DEF UseDestroyed, TickEnd, NoLoop, Loop
<1>7. QED
  BY <1>1, <1>2, <1>3, <1>4, <1>5, <1>6 DEF Next, Tick

LEMMA FiresUndropped ==
    ASSUME TypeOK, DroppedStopped, Fire
    PROVE  buffer[loop.at].serial \notin dropped
<1>1. /\ loop.pc = "loop" /\ loop.at <= loop.end /\ loop \in Loop
      /\ loop.at \in 1..(loop.end + 1)
      /\ buffer[loop.at].running
  BY DEF Fire, AtTimer, Due, TypeOK
<1>2. loop.at \in 1..size
  BY <1>1, BufferFacts DEF DroppedStopped, Loop
<1>3. QED
  BY <1>1, <1>2 DEF DroppedStopped

\* As long as no callback has called clearAll(), tick() never calls the callback of
\* a timer that was stopped or cleared before: also of one that another callback of
\* the same tick stopped, and when callbacks make timers and the vector moves.
THEOREM StoppedTimersAreSilent == Spec => DroppedIsSilent
<1> DEFINE Inv == /\ IdsUnique /\ Attached /\ SerialsOnce
                  /\ "clear" \notin called => DroppedStopped
<1>1. Init => TypeOK /\ Inv
  <2>1. Init => Attached /\ SerialsOnce /\ DroppedStopped
    BY DEF Init, NoLoop, Attached, SerialsOnce, DroppedStopped
  <2>2. QED
    BY <2>1, InitInv
<1>2. TypeOK /\ Inv /\ [Next]_vars => (TypeOK /\ Inv)'
  BY NextInv, AttachedStep, SerialsStep, DroppedStep, CallsStay
<1>3. TypeOK /\ Inv /\ [Next]_vars =>
         [loop.pc = "loop" /\ loop'.pc = "callback" /\ "clear" \notin called
            => buffer[loop.at].serial \notin dropped]_vars
  BY CallsAreFires, FiresUndropped
<1>4. QED
  BY <1>1, <1>2, <1>3, PTL DEF Spec, DroppedIsSilent

-----------------------------------------------------------------------------

\* Why OneShotOnce holds unless callbacks make timers: a one-shot that was called
\* runs no more, except while its callback does.
OneShotsStop ==
    /\ ~loop.detached
    /\ loop.pc \in {"loop", "callback"} => size = 0 \/ loop.end <= size
    /\ \A i \in 1..size : ~buffer[i].periodic =>
          /\ fires[buffer[i].serial] <= 1
          /\ fires[buffer[i].serial] = 1 =>
                ~buffer[i].running \/ (loop.pc = "callback" /\ loop.at = i)

LEMMA StillOneShots ==
    ASSUME TypeOK, OneShotsStop, Kept, UNCHANGED <<size, fires>>,
           ~loop'.detached,
           loop'.pc \in {"loop", "callback"} => size = 0 \/ loop'.end <= size,
           \A i \in 1..size : loop.pc = "callback" /\ loop.at = i =>
              \/ loop'.pc = "callback" /\ loop'.at = i
              \/ ~buffer[i].periodic => ~buffer'[i].running
    PROVE  OneShotsStop'
<1>1. \A i \in 1..size : i \in 1..Len(buffer)
  BY BufferFacts
<1>2. ASSUME NEW i \in 1..size, ~buffer'[i].periodic
      PROVE  /\ fires'[buffer'[i].serial] <= 1
             /\ fires'[buffer'[i].serial] = 1 =>
                   ~buffer'[i].running \/ (loop'.pc = "callback" /\ loop'.at = i)
  <2>1. /\ ~buffer[i].periodic /\ buffer'[i].serial = buffer[i].serial
        /\ buffer'[i].running => buffer[i].running
    BY <1>1, <1>2 DEF Kept
  <2>2. QED
    BY <2>1 DEF OneShotsStop
<1>3. QED
  BY <1>2 DEF OneShotsStop

LEMMA OneShotsStep ==
    ASSUME "add" \notin called', TypeOK, IdsUnique, SerialsOnce, OneShotsStop,
           [Next]_vars
    PROVE  OneShotsStop'
<1>b. /\ size \in Nat /\ loop \in Loop /\ Len(buffer) \in Nat /\ size <= Len(buffer)
      /\ made \in Nat /\ fires \in [Serials -> 0..2]
      /\ \A i \in 1..size : i \in 1..Len(buffer)
      /\ ~loop.detached
  BY BufferFacts, BoundsAssumption DEF TypeOK, OneShotsStop
<1>1. CASE \E period \in Periods, periodic \in BOOLEAN : Add(period, periodic)
  <2>1. PICK period \in Periods, periodic \in BOOLEAN : Add(period, periodic)
    BY <1>1
  <2>2. /\ size' = size + 1
        /\ UNCHANGED fires
        /\ made + 1 \in Serials
        /\ buffer'[size + 1].serial = made + 1
        /\ \A i \in 1..size : buffer'[i] = buffer[i]
        /\ loop' = loop \/ loop' = [loop EXCEPT !.detached = (loop.pc = "callback")]
    BY <2>1, AddMakes
  <2>3. loop.pc = "idle"
    BY <2>1 DEF Add, Calls
  <2>4. loop'.pc = "idle" /\ ~loop'.detached
    BY <2>2, <2>3, <1>b DEF Loop
  <2>5. fires[made + 1] = 0
    BY <1>b, <2>2 DEF SerialsOnce
  <2>6. \A i \in 1..size' : i \in 1..size \/ i = size + 1
    BY <1>b, <2>2
  <2>7. QED
    BY <2>2, <2>3, <2>4, <2>5, <2>6 DEF OneShotsStop
<1>2. CASE \E id \in 0..MaxTimers : Stop(id)
  <2>1. PICK id \in 0..MaxTimers : Stop(id)
    BY <1>2
  <2>2. Kept /\ UNCHANGED <<size, loop, fires>>
    BY <2>1, StopKeeps
  <2>3. QED
    BY <2>2, StillOneShots DEF OneShotsStop
<1>3. CASE ClearAll
  <2>1. size' = 0 /\ loop' = loop
    BY <1>3 DEF ClearAll
  <2>2. QED
    BY <2>1 DEF OneShotsStop
<1>4. CASE TickStart \/ Skip \/ TickEnd
  <2>1. Kept /\ UNCHANGED <<size, fires>> /\ loop.pc # "callback"
    BY <1>4, SameTimers DEF TickStart, Skip, TickEnd, AtTimer
  <2>2. \/ loop' = [pc |-> "loop", at |-> 1, end |-> size, since |-> 0, detached |-> FALSE]
        \/ loop' = NoLoop
        \/ loop.pc = "loop" /\ loop' = [loop EXCEPT !.at = loop.at + 1]
    BY <1>4 DEF TickStart, Skip, TickEnd, AtTimer, NoLoop
  <2>3. /\ ~loop'.detached
        /\ \/ loop'.pc \notin {"loop", "callback"}
           \/ loop'.end = size
           \/ loop.pc = "loop" /\ loop'.end = loop.end
    BY <2>2, <1>b DEF NoLoop, Loop
  <2>4. loop'.pc \in {"loop", "callback"} => size = 0 \/ loop'.end <= size
    BY <2>3, <1>b DEF OneShotsStop
  <2>5. QED
    BY <2>1, <2>3, <2>4, StillOneShots
<1>5. CASE Fire
  <2> DEFINE n == loop.at
             s == buffer[n].serial
  <2>1. /\ loop.pc = "loop" /\ loop.at <= loop.end /\ buffer[n].running
        /\ UNCHANGED <<buffer, size>>
        /\ fires' = [fires EXCEPT ![s] = IF @ = 0 THEN 1 ELSE 2]
        /\ loop' = [loop EXCEPT !.pc = "callback"]
    BY <1>5 DEF Fire, AtTimer, Due
  <2>2. /\ loop'.pc = "callback" /\ loop'.at = n /\ loop'.end = loop.end /\ ~loop'.detached
        /\ loop.at \in 1..(loop.end + 1) /\ loop.end \in Nat
    BY <2>1, <1>b DEF Loop, TypeOK
  <2>3. size = 0 \/ loop.end <= size
    BY <2>1 DEF OneShotsStop
  <2> HIDE DEF n
  <2>4. ASSUME NEW i \in 1..size, ~buffer[i].periodic
        PROVE  /\ fires'[buffer[i].serial] <= 1
               /\ fires'[buffer[i].serial] = 1 => ~buffer[i].running \/ n = i
    <3>1. buffer[i].serial \in Serials
      BY <1>b, <2>4, BufferFacts DEF Timer
    <3>2. CASE i = n
      <4>1. fires[s] <= 1 /\ fires[s] # 1 /\ fires[s] \in 0..2
        BY <1>b, <2>1, <2>4, <3>1, <3>2 DEF OneShotsStop
      <4>2. fires[s] = 0
        BY <4>1
      <4>3. fires'[s] = 1
        BY <1>b, <2>1, <3>1, <3>2, <4>2
      <4>4. QED
        BY <3>2, <4>3
    <3>3. CASE i # n
      <4>1. n \in 1..size
        BY <1>b, <2>1, <2>2, <2>3, <2>4 DEF n
      <4>2. buffer[i].serial # s
        BY <2>4, <3>3, <4>1 DEF SerialsOnce
      <4> HIDE DEF s
      <4>3. fires'[buffer[i].serial] = fires[buffer[i].serial]
        BY <1>b, <2>1, <3>1, <4>2
      <4>4. QED
        BY <2>1, <2>4, <4>3 DEF OneShotsStop
    <3>4. QED
      BY <3>2, <3>3
  <2>5. QED
    BY <2>1, <2>2, <2>3, <2>4 DEF OneShotsStop
<1>6. CASE UseDestroyed
  <2>1. /\ Kept /\ UNCHANGED <<size, fires>> /\ loop.at > size
        /\ loop' = [loop EXCEPT !.pc = "aborted"]
    BY <1>6, SameTimers DEF UseDestroyed
  <2>2. loop'.pc = "aborted" /\ ~loop'.detached /\ loop.at \in Nat
    BY <2>1, <1>b DEF Loop
  <2>3. \A i \in 1..size : loop.at # i
    BY <1>b, <2>1, <2>2
  <2>4. QED
    BY <2>1, <2>2, <2>3, StillOneShots
<1>7. CASE CallbackReturns
  <2>1. /\ Kept /\ UNCHANGED <<size, fires>>
        /\ ~buffer[loop.at].periodic => ~buffer'[loop.at].running
    BY <1>7, ReturnKeeps
  <2>2. loop.pc = "callback" /\ loop' = [loop EXCEPT !.pc = "loop", !.at = loop.at + 1]
    BY <1>7 DEF CallbackReturns
  <2>3. loop'.end = loop.end /\ ~loop'.detached
    BY <2>2, <1>b DEF Loop
  <2>4. size = 0 \/ loop'.end <= size
    BY <2>2, <2>3 DEF OneShotsStop
  <2>5. QED
    BY <2>1, <2>3, <2>4, StillOneShots
<1>8. CASE CallbackReturnsDetached
  BY <1>8, <1>b DEF CallbackReturnsDetached
<1>9. CASE Elapse
  BY <1>9, ElapseKeeps, StillOneShots DEF OneShotsStop
<1>10. CASE UNCHANGED vars
  BY <1>10 DEF vars, OneShotsStop
<1>11. QED
  BY <1>1, <1>2, <1>3, <1>4, <1>5, <1>6, <1>7, <1>8, <1>9, <1>10 DEF Next, Tick

\* As long as no callback has made a timer, a one-shot timer is called once at most,
\* whatever is stopped and cleared meanwhile, and although tick() may still see a
\* timer that a callback has cleared.
THEOREM OneShotsFireOnce == Spec => []OneShotOnce
<1> DEFINE Inv == /\ IdsUnique /\ Attached /\ SerialsOnce
                  /\ "add" \notin called => OneShotsStop
<1>1. Init => TypeOK /\ Inv
  <2>1. Init => Attached /\ SerialsOnce /\ OneShotsStop
    BY DEF Init, NoLoop, Attached, SerialsOnce, OneShotsStop
  <2>2. QED
    BY <2>1, InitInv
<1>2. TypeOK /\ Inv /\ [Next]_vars => (TypeOK /\ Inv)'
  BY NextInv, AttachedStep, SerialsStep, OneShotsStep, CallsStay
<1>3. Inv => OneShotOnce
  BY DEF OneShotsStop, OneShotOnce
<1>4. QED
  BY <1>1, <1>2, <1>3, PTL DEF Spec

-----------------------------------------------------------------------------
(* The builtins: strings and buffers.                                      *)

IsStream(s) == \E S : s \in Seq(S)
IsBuffer(b) == b = [size |-> b.size, cells |-> b.cells]

\* A buffer of this size that begins with s, and has nothing written outside.
Filled(b, s, n) ==
    /\ IsBuffer(b) /\ b.size = n /\ DOMAIN b.cells \subseteq 0..n - 1
    /\ \A i \in 0..Len(s) - 1 : i \in DOMAIN b.cells /\ b.cells[i] = s[i + 1]

LEMMA StreamIs ==
    ASSUME NEW s, IsStream(s)
    PROVE  Len(s) \in Nat /\ DOMAIN s = 1..Len(s) /\ s = [i \in 1..Len(s) |-> s[i]]
<1>1. PICK S : s \in Seq(S)
  BY DEF IsStream
<1>2. QED
  BY <1>1, LenProperties

LEMMA StreamMade ==
    ASSUME NEW n \in Nat, NEW f, f = [i \in 1..n |-> f[i]]
    PROVE  IsStream(f) /\ Len(f) = n
<1> DEFINE S == {f[i] : i \in 1..n}
<1>1. f \in [1..n -> S]
  OBVIOUS
<1>2. f \in Seq(S)
  BY <1>1, SeqDef
<1>3. Len(f) \in Nat /\ DOMAIN f = 1..Len(f) /\ DOMAIN f = 1..n
  BY <1>1, <1>2, LenProperties
<1>4. Len(f) = n
  <2>1. CASE Len(f) > n
    <3>1. Len(f) \in 1..Len(f) /\ Len(f) \notin 1..n
      BY <1>3, <2>1
    <3>2. QED
      BY <1>3, <3>1
  <2>2. CASE Len(f) < n
    <3>1. n \in 1..n /\ n \notin 1..Len(f)
      BY <1>3, <2>2
    <3>2. QED
      BY <1>3, <3>1
  <2>3. QED
    BY <1>3, <2>1, <2>2
<1> HIDE DEF S
<1>5. QED
  BY <1>2, <1>4 DEF IsStream

LEMMA Joined ==
    ASSUME NEW s, IsStream(s), NEW t, IsStream(t)
    PROVE  /\ IsStream(s \o t) /\ Len(s \o t) = Len(s) + Len(t)
           /\ \A i \in 1..Len(s) + Len(t) : (s \o t)[i] = IF i <= Len(s) THEN s[i] ELSE t[i - Len(s)]
<1>1. PICK S : s \in Seq(S)
  BY DEF IsStream
<1>2. PICK T : t \in Seq(T)
  BY DEF IsStream
<1> DEFINE U == S \cup T
<1>3. s \in Seq(U) /\ t \in Seq(U)
  BY <1>1, <1>2
<1> HIDE DEF U
<1>4. s \o t \in Seq(U)
  BY <1>3, ConcatProperties
<1>5. QED
  BY <1>3, <1>4, JoinElements, ConcatProperties DEF IsStream

LEMMA SameStream ==
    ASSUME NEW s, IsStream(s), NEW t, IsStream(t), Len(s) = Len(t), \A i \in 1..Len(s) : s[i] = t[i]
    PROVE  s = t
<1>1. s = [i \in 1..Len(s) |-> s[i]] /\ t = [i \in 1..Len(t) |-> t[i]]
  BY StreamIs
<1>2. QED
  BY <1>1

LEMMA JoinedThree ==
    ASSUME NEW s, IsStream(s), NEW t, IsStream(t), NEW u, IsStream(u)
    PROVE  s \o (t \o u) = (s \o t) \o u
<1>1. /\ IsStream(t \o u) /\ Len(t \o u) = Len(t) + Len(u)
      /\ IsStream(s \o t) /\ Len(s \o t) = Len(s) + Len(t)
      /\ IsStream(s \o (t \o u)) /\ Len(s \o (t \o u)) = Len(s) + (Len(t) + Len(u))
      /\ IsStream((s \o t) \o u) /\ Len((s \o t) \o u) = (Len(s) + Len(t)) + Len(u)
  BY Joined
<1>2. Len(s) \in Nat /\ Len(t) \in Nat /\ Len(u) \in Nat
  BY StreamIs
<1>3. ASSUME NEW i \in 1..Len(s) + (Len(t) + Len(u))
      PROVE  (s \o (t \o u))[i] = ((s \o t) \o u)[i]
  <2>1. i \in Nat /\ 1 <= i /\ i <= Len(s) + (Len(t) + Len(u)) /\ i \in 1..(Len(s) + Len(t)) + Len(u)
    BY <1>2
  <2>2. CASE i <= Len(s)
    <3>1. i \in 1..Len(s) + Len(t) /\ i <= Len(s) + Len(t)
      BY <1>2, <2>1, <2>2
    <3>2. (s \o (t \o u))[i] = s[i]
      BY <1>1, <2>1, <2>2, Joined
    <3>3. ((s \o t) \o u)[i] = (s \o t)[i] /\ (s \o t)[i] = s[i]
      BY <1>1, <2>1, <2>2, <3>1, Joined
    <3>4. QED
      BY <3>2, <3>3
  <2>3. CASE ~(i <= Len(s)) /\ i <= Len(s) + Len(t)
    <3>1. i \in 1..Len(s) + Len(t) /\ i - Len(s) \in 1..Len(t) + Len(u) /\ i - Len(s) <= Len(t)
      BY <1>2, <2>1, <2>3
    <3>2. (s \o (t \o u))[i] = (t \o u)[i - Len(s)] /\ (t \o u)[i - Len(s)] = t[i - Len(s)]
      BY <1>1, <2>1, <2>3, <3>1, Joined
    <3>3. ((s \o t) \o u)[i] = (s \o t)[i] /\ (s \o t)[i] = t[i - Len(s)]
      BY <1>1, <2>1, <2>3, <3>1, Joined
    <3>4. QED
      BY <3>2, <3>3
  <2>4. CASE ~(i <= Len(s) + Len(t))
    <3>1. /\ ~(i <= Len(s)) /\ i - Len(s) \in 1..Len(t) + Len(u) /\ ~(i - Len(s) <= Len(t))
          /\ (i - Len(s)) - Len(t) = i - (Len(s) + Len(t))
      BY <1>2, <2>1, <2>4
    <3>2. (s \o (t \o u))[i] = (t \o u)[i - Len(s)] /\ (t \o u)[i - Len(s)] = u[(i - Len(s)) - Len(t)]
      BY <1>1, <2>1, <2>4, <3>1, Joined
    <3>3. ((s \o t) \o u)[i] = u[i - (Len(s) + Len(t))]
      BY <1>1, <2>1, <2>4, <3>1, Joined
    <3>4. QED
      BY <3>1, <3>2, <3>3
  <2>5. QED
    BY <2>2, <2>3, <2>4
<1>4. QED
  BY <1>1, <1>2, <1>3, SameStream

LEMMA Cut ==
    ASSUME NEW s, IsStream(s), NEW a \in Nat, NEW n \in Nat, a + n <= Len(s)
    PROVE  /\ IsStream(SubSeq(s, a + 1, a + n)) /\ Len(SubSeq(s, a + 1, a + n)) = n
           /\ \A i \in 1..n : SubSeq(s, a + 1, a + n)[i] = s[a + i]
<1>1. PICK S : s \in Seq(S)
  BY DEF IsStream
<1>2. Len(s) \in Nat
  BY <1>1, LenProperties
<1>3. \A i \in a + 1 .. a + n : s[i] \in S
  BY <1>1, <1>2, LenProperties
<1>4. SubSeq(s, a + 1, a + n) = [i \in 1..n |-> s[a + i]]
  <2>1. SubSeq(s, a + 1, a + n) \in Seq(S) /\ Len(SubSeq(s, a + 1, a + n)) = n
        /\ \A i \in 1..n : SubSeq(s, a + 1, a + n)[i] = s[a + i]
    BY <1>1, <1>2, <1>3, SubSeqProperties
  <2>2. QED
    BY <2>1, LenProperties
<1>5. QED
  BY <1>4, StreamMade

LEMMA Begins ==
    ASSUME NEW s, IsStream(s), NEW n \in Nat, n <= Len(s)
    PROVE  /\ IsStream(SubSeq(s, 1, n)) /\ Len(SubSeq(s, 1, n)) = n
           /\ \A i \in 1..n : SubSeq(s, 1, n)[i] = s[i]
<1>1. PICK S : s \in Seq(S)
  BY DEF IsStream
<1>2. Len(s) \in Nat /\ \A i \in 1..n : s[i] \in S
  BY <1>1, LenProperties
<1>3. SubSeq(s, 1, n) \in Seq(S) /\ Len(SubSeq(s, 1, n)) = n /\ \A i \in 1..n : SubSeq(s, 1, n)[i] = s[i]
  BY <1>1, <1>2, SubSeqProperties
<1>4. QED
  BY <1>3 DEF IsStream

LEMMA NulIs == IsStream(Nul) /\ Len(Nul) = 1 /\ Nul[1] = "nul" /\ IsStream(<<>>) /\ Len(<<>>) = 0
<1>1. Nul \in Seq({"nul"}) /\ Len(Nul) = 1 /\ Nul[1] = "nul" /\ <<>> \in Seq({"nul"}) /\ Len(<<>>) = 0
  BY DEF Nul
<1>2. QED
  BY <1>1 DEF IsStream

-----------------------------------------------------------------------------
(* Buffers.                                                                *)
LEMMA Stored ==
    ASSUME NEW b, IsBuffer(b), NEW at \in Nat, NEW s, IsStream(s)
    PROVE  /\ IsBuffer(Store(b, at, s)) /\ Store(b, at, s).size = b.size
           /\ DOMAIN Store(b, at, s).cells = DOMAIN b.cells \cup at..at + Len(s) - 1
           /\ \A i \in DOMAIN b.cells \cup at..at + Len(s) - 1 :
                 Store(b, at, s).cells[i] = IF i - at \in 0..Len(s) - 1 THEN s[i - at + 1] ELSE b.cells[i]
<1> DEFINE new == [i \in DOMAIN b.cells \cup at..at + Len(s) - 1 |->
                       IF i - at \in 0..Len(s) - 1 THEN s[i - at + 1] ELSE b.cells[i]]
<1>1. Store(b, at, s) = [b EXCEPT !.cells = new]
  BY DEF Store
<1> HIDE DEF new
<1>2. Store(b, at, s) = [size |-> b.size, cells |-> new]
  BY <1>1 DEF IsBuffer
<1>3. Store(b, at, s).size = b.size /\ Store(b, at, s).cells = new /\ IsBuffer(Store(b, at, s))
  BY <1>2 DEF IsBuffer
<1>4. QED
  BY <1>3 DEF new

LEMMA FreshIs ==
    ASSUME NEW n \in Nat
    PROVE  Filled(Malloc(n), <<>>, n)
  BY NulIs DEF Filled, IsBuffer, Malloc

LEMMA FillsOn ==
    ASSUME NEW b, NEW s, IsStream(s), NEW n \in Nat, Filled(b, s, n),
           NEW t, IsStream(t), Len(s) + Len(t) <= n
    PROVE  Filled(Store(b, Len(s), t), s \o t, n)
<1>1. Len(s) \in Nat /\ Len(t) \in Nat /\ Len(s \o t) = Len(s) + Len(t)
  BY StreamIs, Joined
<1> DEFINE c == Store(b, Len(s), t)
           D == DOMAIN b.cells \cup Len(s)..Len(s) + Len(t) - 1
<1>2. /\ IsBuffer(c) /\ c.size = n /\ DOMAIN c.cells = D
      /\ \A i \in D : c.cells[i] = IF i - Len(s) \in 0..Len(t) - 1 THEN t[i - Len(s) + 1] ELSE b.cells[i]
  BY <1>1, Stored DEF Filled
<1>3. DOMAIN b.cells \subseteq 0..n - 1 /\ \A i \in 0..Len(s) - 1 : i \in DOMAIN b.cells /\ b.cells[i] = s[i + 1]
  BY DEF Filled
<1> HIDE DEF c
<1>4. DOMAIN c.cells \subseteq 0..n - 1
  BY <1>1, <1>2, <1>3
<1>5. ASSUME NEW i \in 0..Len(s \o t) - 1
      PROVE  i \in DOMAIN c.cells /\ c.cells[i] = (s \o t)[i + 1]
  <2>1. i \in Nat /\ i < Len(s) + Len(t) /\ i + 1 \in 1..Len(s) + Len(t)
    BY <1>1
  <2>2. (s \o t)[i + 1] = IF i + 1 <= Len(s) THEN s[i + 1] ELSE t[(i + 1) - Len(s)]
    BY <2>1, Joined
  <2>3. CASE i < Len(s)
    <3>1. i \in 0..Len(s) - 1 /\ i + 1 <= Len(s) /\ i - Len(s) \notin 0..Len(t) - 1
      BY <1>1, <2>1, <2>3
    <3>2. QED
      BY <1>2, <1>3, <2>2, <3>1
  <2>4. CASE ~(i < Len(s))
    <3>1. /\ i \in Len(s)..Len(s) + Len(t) - 1 /\ ~(i + 1 <= Len(s)) /\ i - Len(s) \in 0..Len(t) - 1
          /\ (i + 1) - Len(s) = i - Len(s) + 1
      BY <1>1, <2>1, <2>4
    <3>2. QED
      BY <1>2, <2>2, <3>1
  <2>5. QED
    BY <2>3, <2>4
<1>6. QED
  BY <1>2, <1>4, <1>5 DEF Filled, c

LEMMA FilledHolds ==
    ASSUME NEW b, NEW s, IsStream(s), NEW n, Filled(b, s \o Nul, n)
    PROVE  Holds(b, s)
<1>0. IsStream(Nul) /\ Len(Nul) = 1 /\ Len(s) \in Nat
  BY StreamIs, NulIs
<1>1. Len(s) \in Nat /\ Len(s \o Nul) = Len(s) + 1
  BY <1>0, Joined
<1>2. Len(s \o Nul) - 1 = Len(s)
  BY <1>1
<1>3. b.size = n
  BY DEF Filled
<1>4. QED
  BY <1>2, <1>3 DEF Filled, Holds, Inside

\* A string is ended by a nul behind it.
LEMMA Ended ==
    ASSUME NEW b, NEW s, IsStream(s), NEW n \in Nat, Filled(b, s, n), Len(s) < n
    PROVE  Holds(Store(b, Len(s), Nul), s)
<1>1. Len(s) + Len(Nul) <= n
  BY StreamIs, NulIs
<1>2. QED
  BY <1>1, FillsOn, FilledHolds, NulIs

\* Shorter strings begin a buffer, too.
LEMMA FilledLess ==
    ASSUME NEW b, NEW s, NEW n, NEW t, Filled(b, s, n), Len(t) \in Nat, Len(s) \in Nat, Len(t) <= Len(s),
           \A i \in 1..Len(t) : t[i] = s[i]
    PROVE  Filled(b, t, n)
<1>1. ASSUME NEW i \in 0..Len(t) - 1 PROVE i \in 0..Len(s) - 1 /\ t[i + 1] = s[i + 1]
  OBVIOUS
<1>2. QED
  BY <1>1 DEF Filled

\* What is written over the beginning of a buffer leaves the rest.
LEMMA WrittenOver ==
    ASSUME NEW b, NEW s, IsStream(s), NEW u, IsStream(u), NEW n \in Nat, Filled(b, s \o u, n),
           NEW t, IsStream(t), Len(t) = Len(s)
    PROVE  Filled(Store(b, 0, t), t \o u, n)
<1>1. /\ Len(s) \in Nat /\ Len(u) \in Nat
      /\ Len(s \o u) = Len(s) + Len(u) /\ Len(t \o u) = Len(s) + Len(u)
  BY StreamIs, Joined
<1>2. \A i \in 1..Len(s) + Len(u) : /\ (s \o u)[i] = IF i <= Len(s) THEN s[i] ELSE u[i - Len(s)]
                                    /\ (t \o u)[i] = IF i <= Len(s) THEN t[i] ELSE u[i - Len(s)]
  <2>1. \A i \in 1..Len(s) + Len(u) : (s \o u)[i] = IF i <= Len(s) THEN s[i] ELSE u[i - Len(s)]
    BY Joined
  <2>2. \A i \in 1..Len(t) + Len(u) : (t \o u)[i] = IF i <= Len(t) THEN t[i] ELSE u[i - Len(t)]
    BY Joined
  <2>3. QED
    BY <2>1, <2>2
<1>3. /\ IsBuffer(b) /\ b.size = n /\ DOMAIN b.cells \subseteq 0..n - 1
      /\ \A i \in 0..Len(s \o u) - 1 : i \in DOMAIN b.cells /\ b.cells[i] = (s \o u)[i + 1]
  BY DEF Filled
<1> DEFINE c == Store(b, 0, t)
           D == DOMAIN b.cells \cup 0..0 + Len(t) - 1
<1>4. /\ IsBuffer(c) /\ c.size = n /\ DOMAIN c.cells = D
      /\ \A i \in D : c.cells[i] = IF i - 0 \in 0..Len(t) - 1 THEN t[i - 0 + 1] ELSE b.cells[i]
  <2>1. IsBuffer(b) /\ IsStream(t) /\ 0 \in Nat /\ b.size = n
    BY <1>3
  <2>2. QED
    BY ONLY <2>1, Stored
<1> HIDE DEF c
<1>5. DOMAIN c.cells \subseteq 0..n - 1
  <2>1. ASSUME NEW i \in 0..0 + Len(t) - 1 PROVE i \in DOMAIN b.cells
    <3>1. i \in 0..Len(s \o u) - 1
      BY <1>1
    <3>2. QED
      BY <1>3, <3>1
  <2>2. QED
    BY <1>3, <1>4, <2>1
<1>6. ASSUME NEW i \in 0..Len(t \o u) - 1
      PROVE  i \in DOMAIN c.cells /\ c.cells[i] = (t \o u)[i + 1]
  <2>1. i \in Nat /\ i + 1 \in 1..Len(s) + Len(u) /\ i - 0 = i /\ i \in 0..Len(s \o u) - 1
    BY <1>1
  <2>2. i \in D /\ b.cells[i] = (s \o u)[i + 1]
    BY <1>3, <2>1
  <2>3. CASE i < Len(s)
    <3>1. i \in 0..Len(t) - 1 /\ i + 1 <= Len(s)
      BY <1>1, <2>1, <2>3
    <3>2. QED
      BY <1>2, <1>4, <2>1, <2>2, <3>1
  <2>4. CASE ~(i < Len(s))
    <3>1. i \notin 0..Len(t) - 1 /\ ~(i + 1 <= Len(s))
      BY <1>1, <2>1, <2>4
    <3>2. QED
      BY <1>2, <1>4, <2>1, <2>2, <3>1
  <2>5. QED
    BY <2>3, <2>4
<1>7. QED
  BY <1>4, <1>5, <1>6 DEF Filled, c

\* Two strings one behind the other, and their end.
LEMMA StoredTwo ==
    ASSUME NEW b, NEW s, IsStream(s), NEW n \in Nat, Filled(b, s, n), NEW t, IsStream(t), Len(s) + Len(t) < n
    PROVE  Holds(Store(b, Len(s), t \o Nul), s \o t)
<1>1. IsStream(Nul) /\ Len(Nul) = 1 /\ Len(s) \in Nat /\ Len(t) \in Nat
  BY NulIs, StreamIs
<1>2. IsStream(t \o Nul) /\ Len(t \o Nul) = Len(t) + 1 /\ IsStream(s \o t)
  BY <1>1, Joined
<1>3. Len(s) + Len(t \o Nul) <= n
  BY <1>1, <1>2
<1>4. Filled(Store(b, Len(s), t \o Nul), s \o (t \o Nul), n)
  BY <1>2, <1>3, FillsOn
<1>5. s \o (t \o Nul) = (s \o t) \o Nul
  <2>1. IsStream(s) /\ IsStream(t) /\ IsStream(Nul)
    BY <1>1
  <2>2. QED
    BY ONLY <2>1, JoinedThree
<1>6. QED
  BY <1>2, <1>4, <1>5, FilledHolds

-----------------------------------------------------------------------------
(* The functions that compute strings.                                     *)
LEMMA Began ==
    ASSUME NEW s, IsStream(s), NEW n \in Nat, Len(s) <= n
    PROVE  Filled(Store(Malloc(n), 0, s), s, n)
<1>1. Filled(Malloc(n), <<>>, n) /\ IsStream(<<>>) /\ Len(<<>>) = 0
  BY FreshIs, NulIs
<1>2. Len(s) \in Nat /\ 0 + Len(s) <= n
  BY StreamIs
<1>3. Filled(Store(Malloc(n), 0, s), <<>> \o s, n)
  BY <1>1, <1>2, FillsOn
<1>4. <<>> \o s = s
  <2>1. PICK S : s \in Seq(S)
    BY DEF IsStream
  <2>2. QED
    BY <2>1, ConcatEmptySeq
<1>5. QED
  BY <1>3, <1>4

LEMMA OneMade == ASSUME NEW c PROVE IsStream(<<c>>) /\ Len(<<c>>) = 1 /\ <<c>>[1] = c
<1>1. <<c>> \in Seq({c}) /\ Len(<<c>>) = 1 /\ <<c>>[1] = c
  OBVIOUS
<1>2. QED
  BY <1>1 DEF IsStream

LEMMA EmptyHolds == Holds(EmptyString, <<>>)
<1>1. Filled(Malloc(1), <<>>, 1) /\ IsStream(<<>>) /\ Len(<<>>) = 0
  BY FreshIs, NulIs
<1>2. QED
  BY <1>1, Ended DEF EmptyString

LEMMA ConcatHolds ==
    ASSUME NEW a, IsStream(a), NEW b, IsStream(b)
    PROVE  Holds(eng_str_concat(a, b), a \o b)
<1>1. Len(a) \in Nat /\ Len(b) \in Nat
  BY StreamIs
<1> DEFINE n == Len(a) + Len(b) + 1
<1>2. n \in Nat /\ Len(a) <= n /\ Len(a) + Len(b) < n
  BY <1>1
<1> HIDE DEF n
<1>3. Filled(Store(Malloc(n), 0, a), a, n)
  BY <1>2, Began
<1>4. QED
  BY <1>2, <1>3, StoredTwo DEF eng_str_concat, n

LEMMA ChrHolds == ASSUME NEW c PROVE Holds(eng_chr(c), <<c>>)
<1> DEFINE s == <<c>>
<1>1. IsStream(s) /\ Len(s) = 1
  BY OneMade
<1>2. eng_chr(c) = Store(Store(Malloc(2), 0, s), Len(s), Nul)
  BY <1>1 DEF eng_chr
<1> DEFINE n == 2
<1>3. n \in Nat /\ Len(s) <= n /\ Len(s) < n /\ eng_chr(c) = Store(Store(Malloc(n), 0, s), Len(s), Nul)
  BY <1>1, <1>2
<1> HIDE DEF s, n
<1>6. Filled(Store(Malloc(n), 0, s), s, n)
  BY <1>1, <1>3, Began
<1>4. Holds(eng_chr(c), s)
  BY <1>1, <1>3, <1>6, Ended
<1>5. QED
  BY <1>4 DEF s

LEMMA CaseHolds ==
    ASSUME NEW s, IsStream(s), NEW up
    PROVE  Holds(eng_case_map(s, up), [i \in DOMAIN s |-> IF up THEN ToUpper(s[i]) ELSE ToLower(s[i])])
<1> DEFINE t == [i \in DOMAIN s |-> IF up THEN ToUpper(s[i]) ELSE ToLower(s[i])]
           n == Len(s) + 1
<1>1. Len(s) \in Nat /\ DOMAIN s = 1..Len(s) /\ n \in Nat
  BY StreamIs
<1>2. t = [i \in 1..Len(s) |-> t[i]]
  BY <1>1
<1>3. IsStream(t) /\ Len(t) = Len(s)
  <2> HIDE DEF t
  <2>1. QED
    BY <1>1, <1>2, StreamMade
<1>4. IsStream(Nul) /\ Len(Nul) = 1
  BY NulIs
<1>5. IsStream(s \o Nul) /\ Len(s \o Nul) <= n
  <2>1. IsStream(s \o Nul) /\ Len(s \o Nul) = Len(s) + Len(Nul)
    BY <1>4, Joined
  <2>2. QED
    BY <1>1, <1>4, <2>1
<1>6. eng_case_map(s, up) = Store(Store(Malloc(n), 0, s \o Nul), 0, t)
  BY DEF eng_case_map
<1> HIDE DEF t, n
<1>7. Filled(Store(Malloc(n), 0, s \o Nul), s \o Nul, n)
  BY <1>1, <1>5, Began
<1>8. Filled(eng_case_map(s, up), t \o Nul, n)
  BY <1>1, <1>3, <1>4, <1>6, <1>7, WrittenOver
<1>9. Holds(eng_case_map(s, up), t)
  BY <1>3, <1>8, FilledHolds
<1>10. QED
  BY <1>9 DEF t

LEMMA PathJoinHolds ==
    ASSUME NEW rel, IsStream(rel)
    PROVE  Holds(eng_path_join(<<>>, rel), <<"/">> \o rel)
<1>1. Len(rel) \in Nat /\ IsStream(<<>>) /\ Len(<<>>) = 0 /\ IsStream(<<"/">>) /\ Len(<<"/">>) = 1
  BY StreamIs, NulIs, OneMade
<1> DEFINE n == Len(rel) + 2
           none == Store(Malloc(n), 0, <<>>)
           b == Store(none, 0, <<"/">>)
<1>2. n \in Nat /\ 0 <= n /\ 0 + 1 <= n /\ 1 + Len(rel) < n
  BY <1>1
<1>3. Filled(none, <<>>, n)
  <2> HIDE DEF n
  <2>1. QED
    BY <1>1, <1>2, Began
<1>4. Filled(b, <<>> \o <<"/">>, n)
  <2> HIDE DEF n, none
  <2>1. QED
    BY <1>1, <1>2, <1>3, FillsOn
<1>5. <<>> \o <<"/">> = <<"/">>
  OBVIOUS
<1>6. eng_path_join(<<>>, rel) = Store(b, 1, rel \o Nul)
  <2>1. 0 + Len(rel) + 2 = Len(rel) + 2 /\ 2 * 0 + 1 = 1
    BY <1>1
  <2>2. QED
    BY <1>1, <2>1 DEF eng_path_join
<1> HIDE DEF n, none, b
<1>7. QED
  BY <1>1, <1>2, <1>4, <1>5, <1>6, StoredTwo

\* What is left of m characters at f when there are only L: t characters at a.
Clip(L, f, m, a, t) ==
    /\ a \in Nat /\ a <= L /\ t \in Nat /\ a + t <= L /\ t <= m
    /\ t > 0 => a = f
    /\ \A i \in 1..L : f < i /\ i <= f + m <=> i \in a + 1 .. a + t
    /\ a + 1 .. a + t \subseteq 1..L

LEMMA Clipped ==
    ASSUME NEW L \in Nat, NEW f \in Nat, NEW m \in Nat
    PROVE  Clip(L, f, m, AtMost(f, L), AtMost(m, L - AtMost(f, L)))
<1> DEFINE a == AtMost(f, L)
           t == AtMost(m, L - a)
<1>0. a = (IF f > L THEN L ELSE f) /\ t = (IF m > L - a THEN L - a ELSE m)
  BY DEF AtMost
<1> HIDE DEF a, t
<1>1. ASSUME f > L PROVE Clip(L, f, m, a, t)
  <2>1. a = L /\ t = 0
    BY <1>0, <1>1
  <2>2. QED
    BY <1>1, <2>1 DEF Clip
<1>2. ASSUME ~(f > L) PROVE Clip(L, f, m, a, t)
  <2>1. a = f
    BY <1>0, <1>2
  <2>2. CASE m > L - f
    <3>1. t = L - f
      BY <1>0, <2>1, <2>2
    <3>2. QED
      BY <1>2, <2>1, <2>2, <3>1 DEF Clip
  <2>3. CASE ~(m > L - f)
    <3>1. t = m
      BY <1>0, <2>1, <2>3
    <3>2. QED
      BY <1>2, <2>1, <2>3, <3>1 DEF Clip
  <2>4. QED
    BY <2>2, <2>3
<1>3. QED
  <2>1. Clip(L, f, m, a, t)
    BY <1>1, <1>2
  <2>2. QED
    BY <2>1 DEF a, t

LEMMA SubstringHolds ==
    ASSUME NEW s, IsStream(s), NEW start \in Int, NEW len \in Int
    PROVE  Holds(eng_substr(s, start, len), Within(s, start, len))
<1> DEFINE first == AtLeast(start, 0)
           s1 == AtMost(first, Len(s))
           most == AtLeast(len, 0)
           take == AtMost(most, Len(s) - s1)
           there == {i \in DOMAIN s : first < i /\ i <= first + len}
           cut == SubSeq(s, s1 + 1, s1 + take)
           n == take + 1
<1>1. Len(s) \in Nat /\ DOMAIN s = 1..Len(s)
  BY StreamIs
<1>2. /\ first \in Nat /\ s1 \in Nat /\ s1 <= Len(s) /\ take \in Nat /\ s1 + take <= Len(s)
      /\ take > 0 => s1 = first
      /\ n \in Nat /\ take < n /\ take <= n
      /\ there = s1 + 1 .. s1 + take
  <2>1. first \in Nat /\ most \in Nat /\ most = IF len < 0 THEN 0 ELSE len
    BY DEF AtLeast
  <2>2. s1 = AtMost(first, Len(s)) /\ take = AtMost(most, Len(s) - AtMost(first, Len(s)))
    OBVIOUS
  <2> HIDE DEF first, most, s1, take
  <2>4. /\ s1 \in Nat /\ s1 <= Len(s) /\ take \in Nat /\ s1 + take <= Len(s) /\ take <= most
        /\ take > 0 => s1 = first
        /\ \A i \in 1..Len(s) : first < i /\ i <= first + most <=> i \in s1 + 1 .. s1 + take
        /\ s1 + 1 .. s1 + take \subseteq 1..Len(s)
    <3>1. Len(s) \in Nat
      BY <1>1
    <3>2. QED
      BY ONLY <2>1, <2>2, <3>1, Clipped DEF Clip
  <2>5. there = {i \in 1..Len(s) : first < i /\ i <= first + len}
    BY <1>1
  <2> HIDE DEF there
  <2>6. ASSUME NEW i \in 1..Len(s) PROVE first < i /\ i <= first + len <=> first < i /\ i <= first + most
    BY <1>1, <2>1
  <2>7. there = s1 + 1 .. s1 + take
    BY <2>4, <2>5, <2>6
  <2>8. n \in Nat /\ take < n /\ take <= n
    BY <2>4
  <2>9. QED
    BY <2>1, <2>4, <2>7, <2>8
<1>3. there = s1 + 1 .. s1 + take
  BY <1>2
<1>4. Within(s, start, len) = [k \in 1..Cardinality(there) |-> s[first + k]]
  BY DEF Within
<1>5. eng_substr(s, start, len) = Store(Store(Malloc(n), 0, cut), take, Nul)
  BY DEF eng_substr
<1> HIDE DEF first, s1, most, take, there, n
<1>6. Cardinality(there) = take
  <2>1. s1 + 1 \in Int /\ s1 + take \in Int
    BY <1>2
  <2>2. Cardinality(there) = IF s1 + 1 > s1 + take THEN 0 ELSE (s1 + take) - (s1 + 1) + 1
    BY <1>3, <2>1, FS_Interval
  <2>3. QED
    BY <1>2, <2>2
<1> DEFINE w == [k \in 1..take |-> s[first + k]]
<1>7. Within(s, start, len) = w
  BY <1>4, <1>6
<1>8. IsStream(w) /\ Len(w) = take
  <2>1. w = [k \in 1..take |-> w[k]]
    OBVIOUS
  <2> HIDE DEF w
  <2>2. QED
    BY <1>2, <2>1, StreamMade
<1>9. IsStream(cut) /\ Len(cut) = take /\ \A i \in 1..take : cut[i] = s[s1 + i]
  BY <1>2, Cut
<1> HIDE DEF cut
<1>10. \A i \in 1..take : cut[i] = w[i]
  BY <1>2, <1>9
<1> HIDE DEF w
<1>11. cut = w
  BY <1>8, <1>9, <1>10, SameStream
<1>12. Filled(Store(Malloc(n), 0, cut), cut, n)
  BY <1>2, <1>9, Began
<1>13. Holds(Store(Store(Malloc(n), 0, cut), take, Nul), cut)
  BY <1>2, <1>9, <1>12, Ended
<1>14. QED
  BY <1>5, <1>7, <1>11, <1>13

\* Buffers that hold elements of S.
BuffersOf(S) == [size : Nat, cells : UNION {[D -> S] : D \in SUBSET Nat}]

LEMMA StoresInto ==
    ASSUME NEW S, NEW b \in BuffersOf(S), NEW at \in Nat, NEW s \in Seq(S)
    PROVE  Store(b, at, s) \in BuffersOf(S)
<1> DEFINE n == b.size
           c == b.cells
<1>0. b = [size |-> n, cells |-> c] /\ n \in Nat /\ c \in UNION {[D -> S] : D \in SUBSET Nat}
  BY DEF BuffersOf
<1> HIDE DEF n, c
<1>1. PICK D \in SUBSET Nat : c \in [D -> S]
  BY <1>0
<1>2. Len(s) \in Nat /\ DOMAIN s = 1..Len(s) /\ \A i \in 1..Len(s) : s[i] \in S
  BY LenProperties
<1> DEFINE E == D \cup at..at + Len(s) - 1
           new == [i \in E |-> IF i - at \in 0..Len(s) - 1 THEN s[i - at + 1] ELSE c[i]]
<1>3. b.cells = c /\ DOMAIN c = D
  BY <1>0, <1>1
<1>4. Store(b, at, s) = [size |-> n, cells |-> new]
  <2>1. Store(b, at, s) = [b EXCEPT !.cells = new]
    BY <1>3 DEF Store
  <2> HIDE DEF new
  <2>2. QED
    BY <1>0, <2>1
<1>5. E \in SUBSET Nat
  <2>1. at..at + Len(s) - 1 \subseteq Nat
    BY <1>2
  <2>2. QED
    BY <2>1
<1>6. ASSUME NEW i \in E PROVE new[i] \in S
  <2>1. CASE i - at \in 0..Len(s) - 1
    <3>1. i - at + 1 \in 1..Len(s)
      BY <1>2, <1>5, <2>1
    <3>2. QED
      BY <1>2, <2>1, <3>1
  <2>2. CASE i - at \notin 0..Len(s) - 1
    <3>1. i \in D
      BY <1>2, <2>2
    <3>2. QED
      BY <1>1, <2>2, <3>1
  <2>3. QED
    BY <2>1, <2>2
<1>7. new \in [E -> S]
  <2> HIDE DEF E
  <2>1. QED
    BY <1>6
<1> HIDE DEF new, E
<1>8. new \in UNION {[F -> S] : F \in SUBSET Nat}
  BY <1>5, <1>7
<1>9. QED
  BY <1>0, <1>4, <1>8 DEF BuffersOf

\* A string copied behind itself is the sequence of its copies.
LEMMA Copies ==
    ASSUME NEW s, IsStream(s), NEW times \in Nat
    PROVE  LET flat == FlattenSeq([i \in 1..times |-> s])
           IN  /\ IsStream(flat) /\ Len(flat) = times * Len(s)
               /\ \A k \in 1..times : \A j \in 1..Len(s) : flat[(k - 1) * Len(s) + j] = s[j]
<1> DEFINE reps == [i \in 1..times |-> s]
           flat == FlattenSeq(reps)
           L == Len(s)
<1>1. PICK T : s \in Seq(T)
  BY DEF IsStream
<1>2. L \in Nat
  BY StreamIs
<1>3. reps \in Seq(Seq(T)) /\ Len(reps) = times /\ \A i \in 1..times : reps[i] = s
  <2>1. IsStream(reps) /\ Len(reps) = times
    BY StreamMade, reps = [i \in 1..times |-> reps[i]]
  <2>2. reps \in [1..times -> Seq(T)]
    BY <1>1
  <2>3. QED
    BY <2>1, <2>2, SeqDef
<1>4. IsStream(flat) /\ Len(flat) = times * L
      /\ \A k \in 1..times : \A j \in 1..L : flat[(k - 1) * L + j] = s[j]
  <2>1. CASE times = 0
    <3>1. reps = <<>> /\ Len(reps) = 0
      BY <1>3, <2>1
    <3> HIDE DEF reps
    <3>2. flat = <<>>
      BY <3>1 DEF FlattenSeq
    <3> HIDE DEF flat
    <3>3. QED
      BY <1>2, <2>1, <3>2, NulIs
  <2>2. CASE times # 0
    <3>1. reps # <<>>
      <4> HIDE DEF reps
      <4>1. QED
        BY <1>3, <2>2, EmptySeq
    <3>2. InTurn(reps, flat, T)
      <4> HIDE DEF reps
      <4>1. QED
        BY <1>3, <3>1, Flattened
    <3> HIDE DEF flat, reps
    <3>3. flat \in Seq(T)
      BY <3>2 DEF InTurn
    <3>4. PICK ends \in [0..times -> Nat] :
              /\ ends[0] = 0 /\ ends[times] = Len(flat)
              /\ \A k \in 1..times : ends[k] = ends[k - 1] + L /\ \A j \in 1..L : flat[ends[k - 1] + j] = s[j]
      <4>1. PICK ends \in [0..Len(reps) -> Nat] :
                /\ ends[0] = 0 /\ ends[Len(reps)] = Len(flat)
                /\ \A k \in 1..Len(reps) : /\ ends[k] = ends[k - 1] + Len(reps[k])
                                         /\ \A j \in 1..Len(reps[k]) : flat[ends[k - 1] + j] = reps[k][j]
        BY <3>2 DEF InTurn
      <4>2. \A k \in 1..times : ends[k] = ends[k - 1] + L /\ \A j \in 1..L : flat[ends[k - 1] + j] = s[j]
        BY <1>3, <4>1
      <4>3. QED
        BY <1>3, <4>1, <4>2
    <3> HIDE DEF L
    <3> DEFINE S == {k \in 0..times : ends[k] = k * L}
    <3>5. 0 \in S
      BY <1>2, <3>4
    <3>6. ASSUME NEW k \in 0 + 1 .. times, k - 1 \in S PROVE k \in S
      <4>1. k \in 1..times /\ ends[k] = ends[k - 1] + L /\ ends[k - 1] = (k - 1) * L /\ k \in 0..times
        BY <3>4, <3>6
      <4>2. (k - 1) * L + L = k * L
        BY <1>2
      <4>3. QED
        BY <4>1, <4>2
    <3>7. 0..times \subseteq S
      <4> HIDE DEF S
      <4>1. QED
        BY <3>5, <3>6, Along
    <3>8. ASSUME NEW k \in 1..times PROVE k - 1 \in 0..times /\ ends[k - 1] = (k - 1) * L
      <4>1. k - 1 \in 0..times
        OBVIOUS
      <4>2. QED
        BY <3>7, <4>1
    <3>9. ends[times] = times * L
      BY <3>7
    <3>10. QED
      BY <3>3, <3>4, <3>8, <3>9 DEF IsStream
  <2>3. QED
    BY <2>1, <2>2
<1>5. QED
  BY <1>4

LEMMA RepeatHolds ==
    ASSUME NEW s, IsStream(s), NEW n \in Int
    PROVE  Holds(eng_repeat(s, n), FlattenSeq([i \in 1..AtLeast(n, 0) |-> s]))
<1> DEFINE times == AtLeast(n, 0)
           L == Len(s)
           room == L * times + 1
           flat == FlattenSeq([i \in 1..times |-> s])
           Body(f) == [i \in 0..times |-> IF i = 0 THEN Malloc(room) ELSE Store(f[i - 1], (i - 1) * L, s)]
           copied == CHOOSE f : f = Body(f)
<1>1. eng_repeat(s, n) = Store(copied[times], L * times, Nul)
  BY DEF eng_repeat
<1>2. times \in Nat /\ L \in Nat
  BY StreamIs DEF AtLeast
<1>3. IsStream(flat) /\ Len(flat) = times * L
      /\ \A k \in 1..times : \A j \in 1..L : flat[(k - 1) * L + j] = s[j]
  <2> HIDE DEF times
  <2>1. QED
    BY <1>2, Copies
<1> HIDE DEF times, flat
<1>4. /\ L * times = times * L /\ L * times \in Nat /\ room \in Nat
      /\ \A k \in 0..times : k * L \in Nat /\ k * L <= times * L
      /\ \A k \in 1..times : (k - 1) * L + L = k * L /\ (k - 1) * L \in Nat /\ k * L \in Nat
  BY <1>2
<1> HIDE DEF room, L
<1>5. \E f : f = Body(f)
  <2>1. PICK T : s \in Seq(T)
    BY DEF IsStream
  <2> DEFINE X == BuffersOf(T)
             x == Malloc(room)
             G == [p \in (1..times) \X X |-> Store(p[2], (p[1] - 1) * L, s)]
  <2>2. x \in X
    <3>1. <<>> \in [{} -> T] /\ {} \in SUBSET Nat
      OBVIOUS
    <3>2. QED
      BY <1>4, <3>1 DEF BuffersOf, Malloc
  <2>3. ASSUME NEW p \in (1..times) \X X PROVE Store(p[2], (p[1] - 1) * L, s) \in X
    <3>1. p[1] \in 1..times /\ p[2] \in BuffersOf(T) /\ (p[1] - 1) * L \in Nat
      BY <1>4
    <3>2. QED
      BY <2>1, <3>1, StoresInto
  <2> HIDE DEF X, x
  <2>4. G \in [(1..times) \X X -> X]
    BY <2>3
  <2>5. Iterates(times, X, x, G)
    <3> HIDE DEF G
    <3>1. QED
      BY <1>2, <2>2, <2>4, Iterated
  <2>6. PICK g \in [0..times -> X] : g[0] = x /\ \A i \in 1..times : g[i] = G[<<i, g[i - 1]>>]
    <3> HIDE DEF G
    <3>1. QED
      BY <2>5 DEF Iterates
  <2>7. ASSUME NEW i \in 1..times PROVE g[i] = Store(g[i - 1], (i - 1) * L, s)
    <3>1. i - 1 \in 0..times
      BY <1>2
    <3>2. <<i, g[i - 1]>> \in (1..times) \X X
      BY <2>6, <3>1
    <3>3. G[<<i, g[i - 1]>>] = Store(g[i - 1], (i - 1) * L, s)
      BY <3>2
    <3>4. QED
      BY <2>6, <3>3
  <2>8. ASSUME NEW i \in 0..times PROVE g[i] = IF i = 0 THEN Malloc(room) ELSE Store(g[i - 1], (i - 1) * L, s)
    <3>1. CASE i = 0
      BY <2>6, <3>1 DEF x
    <3>2. CASE i # 0
      <4>1. i \in 1..times
        BY <1>2, <3>2
      <4>2. QED
        BY <2>7, <3>2, <4>1
    <3>3. QED
      BY <3>1, <3>2
  <2>9. g = Body(g)
    BY <2>6, <2>8
  <2> HIDE DEF Body
  <2>10. QED
    BY <2>9
<1>6. copied = Body(copied)
  <2> HIDE DEF Body
  <2>1. QED
    BY <1>5
<1> HIDE DEF copied
<1>7. copied[0] = Malloc(room) /\ \A k \in 1..times : copied[k] = Store(copied[k - 1], (k - 1) * L, s)
  <2>1. \A k \in 0..times : copied[k] = IF k = 0 THEN Malloc(room) ELSE Store(copied[k - 1], (k - 1) * L, s)
    BY <1>6
  <2>2. 0 \in 0..times /\ \A k \in 1..times : k \in 0..times /\ k # 0
    BY <1>2
  <2>3. QED
    BY <2>1, <2>2
<1> HIDE DEF Body
<1> DEFINE P(k) == SubSeq(flat, 1, k * L)
<1>8. ASSUME NEW k \in 0..times
      PROVE  IsStream(P(k)) /\ Len(P(k)) = k * L /\ \A i \in 1..k * L : P(k)[i] = flat[i]
  <2> DEFINE w == k * L
  <2>1. w \in Nat /\ w <= Len(flat)
    BY <1>3, <1>4
  <2> HIDE DEF w
  <2>2. IsStream(SubSeq(flat, 1, w)) /\ Len(SubSeq(flat, 1, w)) = w
        /\ \A i \in 1..w : SubSeq(flat, 1, w)[i] = flat[i]
    BY <1>3, <2>1, Begins
  <2>3. QED
    BY <2>2 DEF w
<1> HIDE DEF P
<1>9. ASSUME NEW k \in 1..times PROVE P(k) = P(k - 1) \o s
  <2>1. k \in 0..times /\ k - 1 \in 0..times
    BY <1>2
  <2> DEFINE a == P(k - 1)
             b == P(k)
             v == (k - 1) * L
             w == k * L
  <2>2. IsStream(a) /\ Len(a) = v /\ \A i \in 1..v : a[i] = flat[i]
    BY <1>8, <2>1
  <2>3. IsStream(b) /\ Len(b) = w /\ \A i \in 1..w : b[i] = flat[i]
    BY <1>8, <2>1
  <2>4. v \in Nat /\ w \in Nat /\ v + L = w
    BY <1>4
  <2>5. \A j \in 1..L : flat[v + j] = s[j]
    BY <1>3
  <2> HIDE DEF a, b, v, w
  <2>6. IsStream(a \o s) /\ Len(a \o s) = w /\ \A i \in 1..w : (a \o s)[i] = IF i <= v THEN a[i] ELSE s[i - v]
    BY <2>2, <2>4, Joined DEF L
  <2>7. ASSUME NEW i \in 1..w PROVE b[i] = (a \o s)[i]
    <3>1. CASE i <= v
      <4>1. i \in 1..v
        BY <2>4, <3>1
      <4>2. QED
        BY <2>2, <2>3, <2>6, <3>1, <4>1
    <3>2. CASE ~(i <= v)
      <4>1. i - v \in 1..L /\ v + (i - v) = i
        BY <1>2, <2>4, <3>2
      <4>2. flat[i] = s[i - v]
        BY <2>5, <4>1
      <4>3. QED
        BY <2>3, <2>6, <3>2, <4>2
    <3>3. QED
      BY <3>1, <3>2
  <2>8. b = a \o s
    BY <2>3, <2>6, <2>7, SameStream
  <2>9. QED
    BY <2>8 DEF a, b
<1> DEFINE S == {k \in 0..times : Filled(copied[k], P(k), room)}
<1>10. 0 \in S
  <2>1. 0 \in 0..times /\ IsStream(P(0)) /\ Len(P(0)) = 0
    <3>1. 0 \in 0..times /\ 0 * L = 0
      BY <1>2
    <3>2. QED
      BY <1>8, <3>1
  <2>2. P(0) = <<>>
    <3>1. \A i \in 1..Len(P(0)) : P(0)[i] = <<>>[i]
      BY <2>1
    <3>2. QED
      BY <2>1, <3>1, NulIs, SameStream
  <2>3. Filled(Malloc(room), <<>>, room)
    BY <1>4, FreshIs
  <2>4. QED
    BY <1>7, <2>1, <2>2, <2>3
<1>11. ASSUME NEW k \in 0 + 1 .. times, k - 1 \in S PROVE k \in S
  <2>1. k \in 1..times /\ k \in 0..times /\ k - 1 \in 0..times
    BY <1>2
  <2> DEFINE a == P(k - 1)
             b == copied[k - 1]
             v == (k - 1) * L
  <2>2. Filled(b, a, room) /\ IsStream(a) /\ Len(a) = v
    BY <1>8, <1>11, <2>1
  <2>3. copied[k] = Store(b, v, s) /\ P(k) = a \o s
    BY <1>7, <1>9, <2>1
  <2>4. v + L <= room
    <3>1. v + L = k * L /\ k * L <= times * L /\ k * L \in Nat /\ times * L \in Nat
      BY <1>4, <2>1
    <3>2. QED
      BY <1>4, <3>1 DEF room
  <2> HIDE DEF a, b, v
  <2>5. Filled(Store(b, v, s), a \o s, room)
    BY <1>4, <2>2, <2>4, FillsOn DEF L
  <2>6. QED
    BY <2>1, <2>3, <2>5
<1>12. times \in S
  <2> HIDE DEF S
  <2>1. 0..times \subseteq S
    BY <1>2, <1>10, <1>11, Along
  <2>2. QED
    BY <1>2, <2>1
<1>13. P(times) = flat
  <2>1. times \in 0..times
    BY <1>2
  <2>2. QED
    BY <1>3, <1>8, <2>1, SameStream
<1>14. Filled(copied[times], flat, room) /\ Len(flat) < room /\ Len(flat) = L * times
  <2>1. Filled(copied[times], flat, room)
    BY <1>12, <1>13
  <2>2. QED
    BY <1>3, <1>4, <2>1 DEF room
<1>15. Holds(Store(copied[times], L * times, Nul), flat)
  <2> DEFINE c == copied[times]
  <2>1. Filled(c, flat, room)
    BY <1>14
  <2> HIDE DEF c
  <2>2. Holds(Store(c, Len(flat), Nul), flat)
    BY <1>3, <1>4, <1>14, <2>1, Ended
  <2>3. QED
    BY <1>14, <2>2 DEF c
<1>16. QED
  BY <1>1, <1>15 DEF flat, times

-----------------------------------------------------------------------------
(* Lines and streams.                                                      *)
LEMMA LastAndFront ==
    ASSUME NEW s, IsStream(s), s # <<>>
    PROVE  /\ Last(s) = s[Len(s)] /\ Len(s) \in 1..Len(s)
           /\ IsStream(Front(s)) /\ Len(Front(s)) = Len(s) - 1 /\ Len(s) - 1 \in Nat
           /\ \A i \in 1..Len(s) - 1 : Front(s)[i] = s[i]
<1>1. Len(s) \in Nat /\ Len(s) # 0
  <2>1. PICK S : s \in Seq(S)
    BY DEF IsStream
  <2>2. QED
    BY <2>1, EmptySeq, LenProperties
<1>2. Len(s) - 1 \in Nat /\ Len(s) - 1 <= Len(s)
  BY <1>1
<1>3. Front(s) = SubSeq(s, 1, Len(s) - 1) /\ Last(s) = s[Len(s)]
  BY DEF Front, Last
<1> DEFINE n == Len(s) - 1
<1>4. n \in Nat /\ n <= Len(s) /\ Front(s) = SubSeq(s, 1, n)
  BY <1>2, <1>3
<1> HIDE DEF n
<1>5. IsStream(Front(s)) /\ Len(Front(s)) = n /\ \A i \in 1..n : Front(s)[i] = s[i]
  BY <1>4, Begins
<1>6. QED
  BY <1>1, <1>3, <1>4, <1>5 DEF n

LEMMA OneMore ==
    ASSUME NEW s, IsStream(s), NEW c
    PROVE  /\ IsStream(Append(s, c)) /\ Append(s, c) = s \o <<c>> /\ Append(s, c) # <<>>
           /\ Last(Append(s, c)) = c /\ Front(Append(s, c)) = s
<1>1. PICK S : s \in Seq(S)
  BY DEF IsStream
<1> DEFINE T == S \cup {c}
<1>2. s \in Seq(T) /\ c \in T
  BY <1>1
<1> HIDE DEF T
<1>3. Append(s, c) \in Seq(T) /\ Append(s, c) # <<>> /\ Len(Append(s, c)) = Len(s) + 1
      /\ Append(s, c)[Len(s) + 1] = c /\ \A i \in 1..Len(s) : Append(s, c)[i] = s[i]
  BY <1>2, AppendProperties
<1>4. Append(s, c) = s \o <<c>>
  BY <1>2, AppendIsConcat
<1>5. IsStream(Append(s, c))
  BY <1>3 DEF IsStream
<1> DEFINE a == Append(s, c)
<1>6. IsStream(a) /\ a # <<>> /\ Len(a) = Len(s) + 1 /\ a[Len(s) + 1] = c /\ \A i \in 1..Len(s) : a[i] = s[i]
  BY <1>3, <1>5
<1> HIDE DEF a
<1>7. Len(s) \in Nat
  BY StreamIs
<1>8. Last(a) = c /\ IsStream(Front(a)) /\ Len(Front(a)) = Len(s) /\ \A i \in 1..Len(s) : Front(a)[i] = s[i]
  <2>1. Len(a) - 1 = Len(s)
    BY <1>6, <1>7
  <2>2. QED
    BY <1>6, <1>7, <2>1, LastAndFront
<1>9. Front(a) = s
  BY <1>8, SameStream
<1>10. QED
  BY <1>3, <1>4, <1>5, <1>8, <1>9 DEF a

LEMMA RestOf ==
    ASSUME NEW s, IsStream(s), s # <<>>
    PROVE  IsStream(Tail(s))
<1>1. PICK S : s \in Seq(S)
  BY DEF IsStream
<1>2. Tail(s) \in Seq(S)
  BY <1>1, HeadTailProperties
<1>3. QED
  BY <1>2 DEF IsStream

\* What fgets takes is not more than fits, and what it leaves follows it.
LEMMA Line ==
    ASSUME NEW s, IsStream(s), NEW room \in Nat \ {0}
    PROVE  /\ IsStream(Gets(s, room)) /\ IsStream(Left(s, room))
           /\ Len(Gets(s, room)) \in Nat /\ Len(Gets(s, room)) <= room - 1
           /\ s = Gets(s, room) \o Left(s, room)
<1> DEFINE most == AtMost(Len(s), room - 1)
           ends == {i \in 1..most : s[i] = Newline}
           r == Room(s, room)
<1>1. Len(s) \in Nat
  BY StreamIs
<1>2. most \in Nat /\ most <= Len(s) /\ most <= room - 1
  BY <1>1 DEF AtMost
<1>3. r = IF ends = {} THEN most ELSE CHOOSE i \in ends : \A j \in ends : i <= j
  BY DEF Room
<1>4. ends \subseteq 1..most /\ ends \subseteq Nat
  OBVIOUS
<1> HIDE DEF most, ends, r
<1>5. r \in Nat /\ r <= most
  <2>1. CASE ends = {}
    BY <1>2, <1>3, <2>1
  <2>2. CASE ends # {}
    <3>1. \E i \in ends : \A j \in ends : i <= j
      BY <1>4, <2>2, LeastElement
    <3>2. r \in ends
      BY <1>3, <2>2, <3>1
    <3>3. QED
      BY <1>2, <1>4, <3>2
  <2>3. QED
    BY <2>1, <2>2
<1>6. r <= Len(s) /\ r <= room - 1
  BY <1>1, <1>2, <1>5
<1>7. IsStream(SubSeq(s, 1, r)) /\ Len(SubSeq(s, 1, r)) = r /\ \A i \in 1..r : SubSeq(s, 1, r)[i] = s[i]
  BY <1>5, <1>6, Begins
<1> DEFINE n == Len(s) - r
<1>8. n \in Nat /\ r + n = Len(s) /\ r + n <= Len(s)
  BY <1>1, <1>5, <1>6
<1> HIDE DEF n
<1>9. /\ IsStream(SubSeq(s, r + 1, r + n)) /\ Len(SubSeq(s, r + 1, r + n)) = n
      /\ \A i \in 1..n : SubSeq(s, r + 1, r + n)[i] = s[r + i]
  BY <1>5, <1>8, Cut
<1> DEFINE a == Gets(s, room)
           b == Left(s, room)
<1>10. /\ IsStream(a) /\ Len(a) = r /\ \A i \in 1..r : a[i] = s[i]
       /\ IsStream(b) /\ Len(b) = n /\ \A i \in 1..n : b[i] = s[r + i]
  BY <1>7, <1>8, <1>9 DEF Gets, Left, r
<1> HIDE DEF a, b
<1>11. /\ IsStream(a \o b) /\ Len(a \o b) = Len(s)
       /\ \A i \in 1..Len(s) : (a \o b)[i] = IF i <= r THEN a[i] ELSE b[i - r]
  BY <1>8, <1>10, Joined
<1>12. ASSUME NEW i \in 1..Len(s) PROVE s[i] = (a \o b)[i]
  <2>1. CASE i <= r
    <3>1. i \in 1..r
      BY <1>5, <2>1
    <3>2. QED
      BY <1>10, <1>11, <2>1, <3>1
  <2>2. CASE ~(i <= r)
    <3>1. i - r \in 1..n /\ r + (i - r) = i
      BY <1>5, <1>8, <2>2
    <3>2. QED
      BY <1>10, <1>11, <2>2, <3>1
  <2>3. QED
    BY <2>1, <2>2
<1>13. s = a \o b
  BY <1>11, <1>12, SameStream
<1>14. QED
  BY <1>5, <1>6, <1>10, <1>13 DEF a, b

LEMMA InputHolds ==
    ASSUME NEW line, IsStream(line), NEW n \in Nat, Len(line) < n
    PROVE  LET b == Store(Malloc(n), 0, line \o Nul)
           IN  Holds(IF line # <<>> /\ Last(line) = Newline THEN Store(b, Len(line) - 1, Nul) ELSE b, Stripped(line))
<1> DEFINE b == Store(Malloc(n), 0, line \o Nul)
<1>1. IsStream(Nul) /\ Len(Nul) = 1 /\ Len(line) \in Nat
  BY NulIs, StreamIs
<1>2. IsStream(line \o Nul) /\ Len(line \o Nul) = Len(line) + 1
      /\ \A i \in 1..Len(line) + 1 : (line \o Nul)[i] = IF i <= Len(line) THEN line[i] ELSE Nul[i - Len(line)]
  BY <1>1, Joined
<1>3. Filled(b, line \o Nul, n)
  <2> DEFINE l == line \o Nul
  <2>1. IsStream(l) /\ Len(l) <= n /\ b = Store(Malloc(n), 0, l)
    BY <1>1, <1>2
  <2> HIDE DEF l, b
  <2>2. Filled(b, l, n)
    BY <2>1, Began
  <2>3. QED
    BY <2>2 DEF l
<1> HIDE DEF b
<1>4. ASSUME line # <<>>, Last(line) = Newline
      PROVE  Holds(Store(b, Len(line) - 1, Nul), Stripped(line))
  <2> DEFINE f == Front(line)
  <2>1. IsStream(f) /\ Len(f) = Len(line) - 1 /\ Len(f) \in Nat /\ \A i \in 1..Len(line) - 1 : f[i] = line[i]
    BY <1>4, LastAndFront
  <2> HIDE DEF f
  <2>2. \A i \in 1..Len(f) : f[i] = (line \o Nul)[i]
    BY <1>1, <1>2, <2>1
  <2>3. Len(f) <= Len(line \o Nul) /\ Len(line \o Nul) \in Nat /\ Len(f) < n
    BY <1>1, <1>2, <2>1
  <2>4. Filled(b, f, n)
    BY <1>3, <2>1, <2>2, <2>3, FilledLess
  <2>5. Holds(Store(b, Len(f), Nul), f)
    BY <2>1, <2>3, <2>4, Ended
  <2>6. Stripped(line) = f
    BY <1>4 DEF Stripped, f
  <2>7. QED
    BY <2>1, <2>5, <2>6
<1>5. ASSUME ~(line # <<>> /\ Last(line) = Newline)
      PROVE  Holds(b, Stripped(line))
  <2>1. Stripped(line) = line
    BY <1>5 DEF Stripped
  <2>2. QED
    BY <1>3, <2>1, FilledHolds
<1>6. QED
  BY <1>4, <1>5 DEF b

-----------------------------------------------------------------------------
(* The inductive invariant: a function that runs has read and stored what  *)
(* its buffer begins with.                                                 *)
StreamsTyped ==
    /\ IsStream(stdin) /\ IsStream(wire) /\ IsStream(taken)
    /\ \A p \in DOMAIN files : IsStream(files[p])

\* c runs, has taken t and found nothing n times in a row.
Runs(c, t, n) ==
    /\ c.name = "read_file" =>
           /\ c = [name |-> "read_file", path |-> c.path, size |-> c.size]
           /\ c.size \in Nat
    /\ c.name = "write_file" => IsStream(c.data)
    /\ c.name = "exec_output" =>
           /\ c = [name |-> "exec_output", out |-> c.out, left |-> c.left, buf |-> c.buf, off |-> c.off]
           /\ IsStream(c.left) /\ c.out = t \o c.left
           /\ c.off = Len(t) /\ Len(t) < OutputSize
           /\ Filled(c.buf, t, OutputSize + 1)
    /\ c.name = "serial_read_line" =>
           /\ c = [name |-> "serial_read_line", buf |-> c.buf, i |-> c.i, missed |-> c.missed]
           /\ c.i = Len(t) /\ Len(t) < LineSize
           /\ c.missed = n /\ n \in 0..Misses
           /\ Filled(c.buf, t, LineSize)
           /\ \A i \in 1..Len(t) : t[i] # Newline

PreludeInv == StreamsTyped /\ Runs(call, taken, pause) /\ BuiltinsSayWhatTheyMean

LEMMA ArgumentsAre ==
    ASSUME NEW s \in Strings \cup Streams
    PROVE  IsStream(s)
  BY PreludeAssumption DEF IsStream

LEMMA IdleRuns ==
    ASSUME NEW t, NEW n
    PROVE  Runs(Idle, t, n)
  BY DEF Runs, Idle

\* A function that returns what it means, and does not read the serial port.
LEMMA Says ==
    ASSUME NEW name, NEW args, NEW value, Return(name, args, value), name # "serial_read_line", NEW m,
           name # "run_command" => Meaning(result.name, result.args)' = m /\ Holds(value, m)
    PROVE  Runs(call', taken', pause') /\ BuiltinsSayWhatTheyMean'
<1>1. call' = Idle /\ result'.name = name /\ result'.args = args /\ result'.value = value
  BY DEF Return
<1>2. Runs(call', taken', pause')
  BY <1>1, IdleRuns
<1>3. BuiltinsSayWhatTheyMean'
  BY <1>1 DEF BuiltinsSayWhatTheyMean
<1>4. QED
  BY <1>2, <1>3

LEMMA ComputeKeeps ==
    ASSUME PreludeInv, Compute
    PROVE  PreludeInv'
<1>1. StreamsTyped'
  BY NulIs DEF PreludeInv, StreamsTyped, Compute, Begin
<1>2. ASSUME NEW a \in Strings, NEW b \in Strings, Return("concat", <<a, b>>, eng_str_concat(a, b))
      PROVE  Runs(call', taken', pause') /\ BuiltinsSayWhatTheyMean'
  <2>1. Holds(eng_str_concat(a, b), a \o b)
    BY ArgumentsAre, ConcatHolds
  <2>2. Meaning(result.name, result.args)' = a \o b
    BY <1>2 DEF Return, Meaning
  <2>3. QED
    BY <1>2, <2>1, <2>2, Says
<1>3. ASSUME NEW c, Return("chr", <<c>>, eng_chr(c))
      PROVE  Runs(call', taken', pause') /\ BuiltinsSayWhatTheyMean'
  <2>1. Meaning(result.name, result.args)' = <<c>>
    BY <1>3 DEF Return, Meaning
  <2>2. QED
    BY <1>3, <2>1, ChrHolds, Says
<1>4. ASSUME NEW a \in Strings, NEW up \in BOOLEAN, Return("case", <<a, up>>, eng_case_map(a, up))
      PROVE  Runs(call', taken', pause') /\ BuiltinsSayWhatTheyMean'
  <2>1. Holds(eng_case_map(a, up), [i \in DOMAIN a |-> IF up THEN ToUpper(a[i]) ELSE ToLower(a[i])])
    BY ArgumentsAre, CaseHolds
  <2>2. Meaning(result.name, result.args)' = [i \in DOMAIN a |-> IF up THEN ToUpper(a[i]) ELSE ToLower(a[i])]
    BY <1>4 DEF Return, Meaning
  <2>3. QED
    BY <1>4, <2>1, <2>2, Says
<1>5. ASSUME NEW a \in Strings, NEW i \in Numbers, NEW n \in Numbers,
             Return("substring", <<a, i, n>>, eng_substr(a, i, n))
      PROVE  Runs(call', taken', pause') /\ BuiltinsSayWhatTheyMean'
  <2>1. Holds(eng_substr(a, i, n), Within(a, i, n))
    BY ArgumentsAre, SubstringHolds, PreludeAssumption
  <2>2. Meaning(result.name, result.args)' = Within(a, i, n)
    BY <1>5 DEF Return, Meaning
  <2>3. QED
    BY <1>5, <2>1, <2>2, Says
<1>6. ASSUME NEW a \in Strings, NEW n \in Numbers, Return("repeat", <<a, n>>, eng_repeat(a, n))
      PROVE  Runs(call', taken', pause') /\ BuiltinsSayWhatTheyMean'
  <2>1. Holds(eng_repeat(a, n), FlattenSeq([i \in 1..AtLeast(n, 0) |-> a]))
    BY ArgumentsAre, RepeatHolds, PreludeAssumption
  <2>2. Meaning(result.name, result.args)' = FlattenSeq([i \in 1..AtLeast(n, 0) |-> a])
    BY <1>6 DEF Return, Meaning
  <2>3. QED
    BY <1>6, <2>1, <2>2, Says
<1>7. ASSUME NEW a \in Strings, NEW b \in Strings, Return("path_join", <<a, b>>, eng_path_join(a, b))
      PROVE  Runs(call', taken', pause') /\ BuiltinsSayWhatTheyMean'
  <2>1. CASE a = <<>>
    <3>1. <<>> \o <<"/">> = <<"/">>
      OBVIOUS
    <3>2. Holds(eng_path_join(a, b), <<"/">> \o b)
      BY <2>1, ArgumentsAre, PathJoinHolds
    <3>3. Meaning(result.name, result.args)' = (a \o <<"/">>) \o b
      BY <1>7 DEF Return, Meaning
    <3>4. Meaning(result.name, result.args)' = <<"/">> \o b
      BY <2>1, <3>1, <3>3
    <3>5. QED
      BY <1>7, <3>2, <3>4, Says
  <2>2. CASE a # <<>>
    <3>1. call' = Idle /\ result'.name = "path_join" /\ result'.args[1] = a
      BY <1>7 DEF Return
    <3>2. Runs(call', taken', pause')
      BY <3>1, IdleRuns
    <3>3. BuiltinsSayWhatTheyMean'
      BY <2>2, <3>1 DEF BuiltinsSayWhatTheyMean, JoinedToBase
    <3>4. QED
      BY <3>2, <3>3
  <2>3. QED
    BY <2>1, <2>2
<1>8. ASSUME NEW n \in Numbers, Return("run_command", <<n>>, eng_run_command(256 * n))
      PROVE  Runs(call', taken', pause') /\ BuiltinsSayWhatTheyMean'
  BY <1>8, Says
<1>9. Runs(call', taken', pause') /\ BuiltinsSayWhatTheyMean'
  BY <1>2, <1>3, <1>4, <1>5, <1>6, <1>7, <1>8 DEF Compute
<1>10. QED
  BY <1>1, <1>9 DEF PreludeInv

LEMMA InputKeeps ==
    ASSUME PreludeInv, eng_input
    PROVE  PreludeInv'
<1> DEFINE line == Gets(stdin, InputSize)
           b == Store(Malloc(InputSize), 0, line \o Nul)
           value == IF line # <<>> /\ Last(line) = Newline THEN Store(b, Len(line) - 1, Nul) ELSE b
<1>1. InputSize \in Nat \ {0} /\ IsStream(stdin)
  BY PreludeAssumption DEF PreludeInv, StreamsTyped
<1>2. IsStream(line) /\ IsStream(Left(stdin, InputSize)) /\ Len(line) \in Nat /\ Len(line) <= InputSize - 1
  BY <1>1, Line
<1>3. taken' = line /\ Return("input", <<>>, value) /\ stdin' = Left(stdin, InputSize)
      /\ UNCHANGED <<files, wire>>
  BY DEF eng_input
<1> HIDE DEF line
<1>4. StreamsTyped'
  BY <1>2, <1>3 DEF PreludeInv, StreamsTyped
<1>5. Holds(value, Stripped(line))
  <2>1. Len(line) < InputSize /\ InputSize \in Nat
    BY <1>1, <1>2
  <2>2. QED
    BY <1>2, <2>1, InputHolds
<1>6. Meaning(result.name, result.args)' = Stripped(line)
  BY <1>3 DEF Meaning, Return
<1> HIDE DEF value
<1>7. Runs(call', taken', pause') /\ BuiltinsSayWhatTheyMean'
  BY <1>3, <1>5, <1>6, Says
<1>8. QED
  BY <1>4, <1>7 DEF PreludeInv

LEMMA ReadKeeps ==
    ASSUME PreludeInv, Read
    PROVE  PreludeInv'
<1> DEFINE content == ContentOf(call.path)
           n == AtMost(call.size, Len(content))
           rd == SubSeq(content, 1, n)
           room == call.size + 1
           value == Store(Store(Malloc(room), 0, rd), Len(rd), Nul)
<1>1. call.size \in Nat
  BY DEF PreludeInv, Runs, Read
<1>2. taken' = rd /\ Return("read_file", <<call.path>>, value) /\ UNCHANGED <<stdin, files, wire>>
  BY DEF Read
<1>3. IsStream(content)
  BY NulIs DEF PreludeInv, StreamsTyped, ContentOf
<1>4. Len(content) \in Nat
  <2> HIDE DEF content
  <2>1. QED
    BY <1>3, StreamIs
<1>5. n \in Nat /\ n <= Len(content) /\ n <= room /\ n < room /\ room \in Nat
  <2> HIDE DEF content
  <2>1. QED
    BY <1>1, <1>4 DEF AtMost
<1> HIDE DEF content, n, room
<1>6. IsStream(rd) /\ Len(rd) = n
  BY <1>3, <1>5, Begins
<1> HIDE DEF rd
<1>7. Filled(Store(Malloc(room), 0, rd), rd, room)
  BY <1>5, <1>6, Began
<1>8. Holds(value, rd)
  BY <1>5, <1>6, <1>7, Ended
<1>9. Meaning(result.name, result.args)' = rd
  BY <1>2 DEF Meaning, Return
<1> HIDE DEF value
<1>10. Runs(call', taken', pause') /\ BuiltinsSayWhatTheyMean'
  BY <1>2, <1>8, <1>9, Says
<1>11. StreamsTyped'
  BY <1>2, <1>6 DEF PreludeInv, StreamsTyped
<1>12. QED
  BY <1>10, <1>11 DEF PreludeInv

\* A file keeps a stream when one is saved.
LEMMA SavedStream ==
    ASSUME StreamsTyped, NEW p, NEW content, IsStream(content), Saved(p, content)
    PROVE  \A q \in DOMAIN files' : IsStream(files'[q])
  BY DEF StreamsTyped, Saved

LEMMA WriteKeeps ==
    ASSUME PreludeInv, CloseWritten
    PROVE  PreludeInv'
<1>1. PICK n \in 0..Len(call.data) : Saved(call.path, ContentOf(call.path) \o SubSeq(call.data, 1, n))
  BY DEF CloseWritten
<1>2. IsStream(call.data)
  BY DEF PreludeInv, Runs, CloseWritten
<1>3. IsStream(ContentOf(call.path) \o SubSeq(call.data, 1, n))
  <2>1. IsStream(ContentOf(call.path))
    BY NulIs DEF PreludeInv, StreamsTyped, ContentOf
  <2>2. n \in Nat /\ n <= Len(call.data)
    BY <1>2, StreamIs
  <2>3. IsStream(SubSeq(call.data, 1, n))
    BY <1>2, <2>2, Begins
  <2>4. QED
    BY <2>1, <2>3, Joined
<1>4. StreamsTyped'
  <2>1. \A q \in DOMAIN files' : IsStream(files'[q])
    BY <1>1, <1>3, SavedStream DEF PreludeInv
  <2>2. QED
    BY <2>1 DEF PreludeInv, StreamsTyped, CloseWritten
<1>5. Return("write_file", <<call.path>>, EmptyString) /\ Meaning(result.name, result.args)' = <<>>
  BY DEF CloseWritten, Meaning, Return
<1> DEFINE value == EmptyString
           none == <<>>
<1>8. Return("write_file", <<call.path>>, value) /\ Holds(value, none) /\ Meaning(result.name, result.args)' = none
  BY <1>5, EmptyHolds
<1> HIDE DEF value, none
<1>6. Runs(call', taken', pause') /\ BuiltinsSayWhatTheyMean'
  BY <1>8, Says
<1>7. QED
  BY <1>4, <1>6 DEF PreludeInv

LEMMA OpenToReadKeeps ==
    ASSUME PreludeInv, NEW p, OpenToRead(p)
    PROVE  PreludeInv'
<1>1. StreamsTyped'
  BY NulIs DEF PreludeInv, StreamsTyped, OpenToRead, Begin
<1>2. CASE p \notin DOMAIN files
  <2>1. Return("read_file", <<p>>, EmptyString) /\ taken' = <<>>
    BY <1>2 DEF OpenToRead, Begin
  <2>2. Meaning(result.name, result.args)' = <<>>
    BY <2>1 DEF Meaning, Return
  <2> DEFINE value == EmptyString
             none == <<>>
  <2>5. Return("read_file", <<p>>, value) /\ Holds(value, none) /\ Meaning(result.name, result.args)' = none
    BY <2>1, <2>2, EmptyHolds
  <2> HIDE DEF value, none
  <2>3. Runs(call', taken', pause') /\ BuiltinsSayWhatTheyMean'
    BY <2>5, Says
  <2>4. QED
    BY <1>1, <2>3 DEF PreludeInv
<1>3. CASE p \in DOMAIN files
  <2>1. call' = [name |-> "read_file", path |-> p, size |-> Len(files[p])]
    BY <1>3 DEF OpenToRead
  <2>2. Len(files[p]) \in Nat
    BY <1>3, StreamIs DEF PreludeInv, StreamsTyped
  <2>3. Runs(call', taken', pause')
    BY <2>1, <2>2 DEF Runs
  <2>4. BuiltinsSayWhatTheyMean'
    BY <2>1 DEF BuiltinsSayWhatTheyMean, Idle
  <2>5. QED
    BY <1>1, <2>3, <2>4 DEF PreludeInv
<1>4. QED
  BY <1>2, <1>3

LEMMA OpenToWriteKeeps ==
    ASSUME PreludeInv, NEW p, NEW s \in Strings, NEW append, OpenToWrite(p, s, append)
    PROVE  PreludeInv'
<1>1. PICK content : IsStream(content) /\ Saved(p, content)
  <2>1. IsStream(ContentOf(p)) /\ IsStream(<<>>)
    BY NulIs DEF PreludeInv, StreamsTyped, ContentOf
  <2>2. QED
    BY <2>1 DEF OpenToWrite
<1>2. StreamsTyped'
  <2>1. \A q \in DOMAIN files' : IsStream(files'[q])
    BY <1>1, SavedStream DEF PreludeInv
  <2>2. QED
    BY <2>1, NulIs DEF PreludeInv, StreamsTyped, OpenToWrite, Begin
<1>3. call' = [name |-> "write_file", path |-> p, data |-> s] /\ IsStream(s)
  BY ArgumentsAre DEF OpenToWrite
<1>4. Runs(call', taken', pause')
  BY <1>3 DEF Runs
<1>5. BuiltinsSayWhatTheyMean'
  BY <1>3 DEF BuiltinsSayWhatTheyMean, Idle
<1>6. QED
  BY <1>2, <1>4, <1>5 DEF PreludeInv

LEMMA MeanwhileKeeps ==
    ASSUME PreludeInv, NEW p, Meanwhile(p)
    PROVE  PreludeInv'
<1>1. \A q \in DOMAIN files' : IsStream(files'[q])
  <2>1. CASE \E content \in Streams : Saved(p, content)
    BY <2>1, ArgumentsAre, SavedStream DEF PreludeInv
  <2>2. CASE files' = [q \in DOMAIN files \ {p} |-> files[q]]
    BY <2>2 DEF PreludeInv, StreamsTyped
  <2>3. QED
    BY <2>1, <2>2 DEF Meanwhile
<1>2. UNCHANGED <<stdin, speed, wire, call, taken, pause, result>> /\ call # Idle
  BY DEF Meanwhile
<1>3. QED
  BY <1>1, <1>2 DEF PreludeInv, StreamsTyped, BuiltinsSayWhatTheyMean

-----------------------------------------------------------------------------
(* Commands and the serial port.                                           *)
LEMMA PopenKeeps ==
    ASSUME PreludeInv, Popen
    PROVE  PreludeInv'
<1>1. PICK out \in Streams :
          call' = [name |-> "exec_output", out |-> out, left |-> out, buf |-> Malloc(OutputSize + 1), off |-> 0]
  BY DEF Popen
<1>2. taken' = <<>> /\ UNCHANGED <<stdin, wire, files>>
  BY DEF Popen, Begin
<1>3. StreamsTyped'
  BY <1>2, NulIs DEF PreludeInv, StreamsTyped
<1>4. BuiltinsSayWhatTheyMean'
  BY <1>1 DEF BuiltinsSayWhatTheyMean, Idle
<1> DEFINE n == OutputSize + 1
           none == <<>>
<1>5. n \in Nat /\ 0 < OutputSize /\ Len(none) = 0 /\ IsStream(out) /\ out = none \o out
  <2>1. IsStream(out)
    BY ArgumentsAre
  <2>2. PICK S : out \in Seq(S)
    BY <2>1 DEF IsStream
  <2>3. out = none \o out
    BY <2>2, ConcatEmptySeq
  <2>4. QED
    BY <2>1, <2>3, NulIs, PreludeAssumption
<1>6. Filled(Malloc(n), none, n)
  <2> HIDE DEF n
  <2>1. QED
    BY <1>5, FreshIs
<1> DEFINE buf == Malloc(n)
<1>7. call' = [name |-> "exec_output", out |-> out, left |-> out, buf |-> buf, off |-> 0] /\ taken' = none
      /\ Filled(buf, none, OutputSize + 1)
  BY <1>1, <1>2, <1>6
<1> HIDE DEF n, none, buf
<1>8. Runs(call', taken', pause')
  BY <1>5, <1>7 DEF Runs
<1>9. QED
  BY <1>3, <1>4, <1>8 DEF PreludeInv

LEMMA CallUpdated ==
    ASSUME NEW c, NEW buf, NEW off, NEW left,
           c = [name |-> "exec_output", out |-> c.out, left |-> c.left, buf |-> c.buf, off |-> c.off]
    PROVE  [c EXCEPT !.buf = buf, !.off = off, !.left = left]
               = [name |-> "exec_output", out |-> c.out, left |-> left, buf |-> buf, off |-> off]
<1>1. [c EXCEPT !.buf = buf] = [name |-> "exec_output", out |-> c.out, left |-> c.left, buf |-> buf, off |-> c.off]
  OBVIOUS
<1> DEFINE d == [name |-> "exec_output", out |-> c.out, left |-> c.left, buf |-> buf, off |-> c.off]
<1>2. [d EXCEPT !.off = off] = [name |-> "exec_output", out |-> c.out, left |-> c.left, buf |-> buf, off |-> off]
  OBVIOUS
<1> DEFINE e == [name |-> "exec_output", out |-> c.out, left |-> c.left, buf |-> buf, off |-> off]
<1>3. [e EXCEPT !.left = left] = [name |-> "exec_output", out |-> c.out, left |-> left, buf |-> buf, off |-> off]
  OBVIOUS
<1>4. [c EXCEPT !.buf = buf, !.off = off, !.left = left]
          = [[[c EXCEPT !.buf = buf] EXCEPT !.off = off] EXCEPT !.left = left]
  OBVIOUS
<1>5. QED
  BY <1>1, <1>2, <1>3, <1>4

LEMMA CollectKeeps ==
    ASSUME PreludeInv, Collect
    PROVE  PreludeInv'
<1> DEFINE room == AtLeast(OutputSize - call.off, 1)
           piece == Gets(call.left, room)
           rest == Left(call.left, room)
           b == Store(call.buf, call.off, piece \o Nul)
           newoff == call.off + Len(piece)
           t == taken \o piece
<1>1. /\ call = [name |-> "exec_output", out |-> call.out, left |-> call.left, buf |-> call.buf, off |-> call.off]
      /\ IsStream(call.left) /\ call.out = taken \o call.left
      /\ call.off = Len(taken) /\ Len(taken) < OutputSize
      /\ Filled(call.buf, taken, OutputSize + 1)
      /\ IsStream(taken) /\ Len(taken) \in Nat
      /\ OutputSize \in Nat
  BY StreamIs, PreludeAssumption DEF PreludeInv, Runs, Collect, StreamsTyped
<1>2. room \in Nat \ {0} /\ room = OutputSize - Len(taken)
  BY <1>1 DEF AtLeast
<1>3. /\ taken' = t
      /\ IF call.left = <<>>
         THEN Return("exec_output", <<call.out>>, Store(call.buf, call.off, Nul))
         ELSE IF newoff > OutputSize - 1
         THEN Return("exec_output", <<call.out>>, Store(b, call.off, Nul))
         ELSE /\ call' = [call EXCEPT !.buf = b, !.off = newoff, !.left = rest]
              /\ UNCHANGED result
      /\ UNCHANGED <<stdin, files, wire>>
  BY DEF Collect
<1> HIDE DEF room
<1>4. /\ IsStream(piece) /\ IsStream(rest) /\ Len(piece) \in Nat /\ Len(piece) <= room - 1
      /\ call.left = piece \o rest
  BY <1>1, <1>2, Line
<1> HIDE DEF piece, rest
<1>5. IsStream(t) /\ Len(t) = newoff /\ Len(t) < OutputSize
  <2>1. IsStream(t) /\ Len(t) = Len(taken) + Len(piece)
    BY <1>1, <1>4, Joined
  <2>2. QED
    BY <1>1, <1>2, <1>4, <2>1
<1>6. StreamsTyped'
  BY <1>3, <1>5 DEF PreludeInv, StreamsTyped
<1>7. CASE call.left = <<>>
  <2> DEFINE value == Store(call.buf, Len(taken), Nul)
             n == OutputSize + 1
  <2>1. n \in Nat /\ Len(taken) < n /\ Filled(call.buf, taken, n)
    BY <1>1
  <2> HIDE DEF n
  <2>2. Holds(value, taken)
    BY <1>1, <2>1, Ended
  <2>3. call.out = taken
    <3>1. PICK S : taken \in Seq(S)
      BY <1>1 DEF IsStream
    <3>2. taken \o <<>> = taken
      BY <3>1, ConcatEmptySeq
    <3>3. QED
      BY <1>1, <1>7, <3>2
  <2> DEFINE args == <<call.out>>
             said == Store(call.buf, call.off, Nul)
  <2>4. Return("exec_output", args, said) /\ Holds(said, taken)
    <3>1. said = value
      BY <1>1
    <3>2. Return("exec_output", args, said)
      BY <1>3, <1>7
    <3>3. QED
      BY <2>2, <3>1, <3>2
  <2>7. Meaning(result.name, result.args)' = taken
    BY <2>3, <2>4 DEF Meaning, Return
  <2> HIDE DEF value, args, said
  <2>5. Runs(call', taken', pause') /\ BuiltinsSayWhatTheyMean'
    BY <2>4, <2>7, Says
  <2>6. QED
    BY <1>6, <2>5 DEF PreludeInv
<1>8. CASE call.left # <<>>
  <2>1. ~(newoff > OutputSize - 1)
    BY <1>1, <1>4, <1>5
  <2>2. call' = [call EXCEPT !.buf = b, !.off = newoff, !.left = rest]
    BY <1>3, <1>8, <2>1
  <2> DEFINE n == OutputSize + 1
  <2>3. IsStream(Nul) /\ Len(Nul) = 1 /\ n \in Nat /\ Len(taken) + (Len(piece) + 1) <= n
        /\ Filled(call.buf, taken, n)
    BY NulIs, <1>1, <1>2, <1>4
  <2> HIDE DEF n
  <2>4. IsStream(piece \o Nul) /\ Len(piece \o Nul) = Len(piece) + 1
    BY <1>4, <2>3, Joined
  <2>5. Filled(b, taken \o (piece \o Nul), n)
    BY <1>1, <2>3, <2>4, FillsOn
  <2>6. taken \o (piece \o Nul) = t \o Nul
    <3>1. IsStream(taken) /\ IsStream(piece) /\ IsStream(Nul)
      BY <1>1, <1>4, <2>3
    <3>2. QED
      BY ONLY <3>1, JoinedThree
  <2> DEFINE longer == t \o Nul
  <2> HIDE DEF b, t, newoff
  <2>7. Len(longer) = Len(t) + 1 /\ \A i \in 1..Len(t) + 1 : longer[i] = IF i <= Len(t) THEN t[i] ELSE Nul[i - Len(t)]
    BY <1>5, <2>3, Joined
  <2>8. Len(t) \in Nat
    BY <1>5, StreamIs
  <2>9. Filled(b, longer, n)
    BY <2>5, <2>6
  <2> HIDE DEF longer
  <2>10. Len(longer) \in Nat /\ Len(t) <= Len(longer) /\ \A i \in 1..Len(t) : t[i] = longer[i]
    BY <2>7, <2>8
  <2>11. Filled(b, t, n)
    BY <2>8, <2>9, <2>10, FilledLess
  <2>12. call.out = t \o rest
    <3>1. taken \o (piece \o rest) = (taken \o piece) \o rest
      <4>1. IsStream(taken) /\ IsStream(piece) /\ IsStream(rest)
        BY <1>1, <1>4
      <4>2. QED
        BY ONLY <4>1, JoinedThree
    <3>2. QED
      BY <1>1, <1>4, <3>1 DEF t
  <2>13. call' = [name |-> "exec_output", out |-> call.out, left |-> rest, buf |-> b, off |-> newoff]
    BY <1>1, <2>2, CallUpdated
  <2>14. Runs(call', taken', pause')
    BY <1>3, <1>4, <1>5, <2>11, <2>12, <2>13 DEF Runs, n
  <2>15. BuiltinsSayWhatTheyMean'
    BY <2>13 DEF BuiltinsSayWhatTheyMean, Idle
  <2>16. QED
    BY <1>6, <2>14, <2>15 DEF PreludeInv
<1>9. QED
  BY <1>7, <1>8

LEMMA SaysLine ==
    ASSUME NEW args, NEW value, Return("serial_read_line", args, value), NEW m, Stripped(taken)' = m, Holds(value, m),
           speed' # 0 => m # taken' \/ Len(taken') = LineSize - 1 \/ pause' = Misses + 1
    PROVE  Runs(call', taken', pause') /\ BuiltinsSayWhatTheyMean'
<1>1. call' = Idle /\ result'.name = "serial_read_line" /\ result'.args = args /\ result'.value = value
  BY DEF Return
<1>2. Runs(call', taken', pause')
  BY <1>1, IdleRuns
<1>3. Meaning(result.name, result.args)' = m
  BY <1>1 DEF Meaning
<1>4. BuiltinsSayWhatTheyMean'
  BY <1>1, <1>3 DEF BuiltinsSayWhatTheyMean
<1>5. QED
  BY <1>2, <1>4

LEMMA PortKeeps ==
    ASSUME PreludeInv, serial_close \/ \E b \in Bauds \cup {1} : serial_open(b)
    PROVE  PreludeInv'
<1>1. PICK name \in {"serial_open", "serial_close"} : Return(name, <<>>, EmptyString)
  BY DEF serial_close, serial_open
<1>2. wire' = <<>> /\ taken' = <<>> /\ UNCHANGED <<stdin, files>>
  BY DEF serial_close, serial_open, Begin
<1>3. StreamsTyped'
  BY <1>2, NulIs DEF PreludeInv, StreamsTyped
<1> DEFINE none == <<>>
<1>4. Meaning(result.name, result.args)' = none /\ Holds(EmptyString, none) /\ name # "serial_read_line"
  BY <1>1, EmptyHolds DEF Meaning, Return
<1> HIDE DEF none
<1>5. Runs(call', taken', pause') /\ BuiltinsSayWhatTheyMean'
  BY <1>1, <1>4, Says
<1>6. QED
  BY <1>3, <1>5 DEF PreludeInv

LEMMA ArriveKeeps ==
    ASSUME PreludeInv, Arrive
    PROVE  PreludeInv'
<1>1. PICK c : wire' = Append(wire, c)
  BY DEF Arrive
<1>2. IsStream(wire')
  BY <1>1, OneMore DEF PreludeInv, StreamsTyped
<1>3. UNCHANGED <<stdin, files, speed, call, taken, pause, result>>
  BY DEF Arrive
<1>4. StreamsTyped'
  BY <1>2, <1>3 DEF PreludeInv, StreamsTyped
<1>5. Runs(call', taken', pause')
  BY <1>3 DEF PreludeInv
<1>6. Meaning(result.name, result.args)' = Meaning(result.name, result.args)
  BY <1>3 DEF Meaning
<1>7. Stripped(taken)' = Stripped(taken)
  BY <1>3
<1>8. BuiltinsSayWhatTheyMean'
  BY <1>3, <1>6, <1>7 DEF PreludeInv, BuiltinsSayWhatTheyMean, JoinedToBase
<1>9. QED
  BY <1>4, <1>5, <1>8 DEF PreludeInv

LEMMA StartLineKeeps ==
    ASSUME PreludeInv, serial_read_line
    PROVE  PreludeInv'
<1> DEFINE none == <<>>
<1>1. taken' = none /\ pause' = 0 /\ UNCHANGED <<stdin, files, speed, wire>>
  BY DEF serial_read_line, Begin
<1>2. StreamsTyped'
  BY <1>1, NulIs DEF PreludeInv, StreamsTyped
<1>3. LineSize \in Nat /\ 0 < LineSize /\ Misses \in Nat
  BY PreludeAssumption
<1>4. Filled(Malloc(LineSize), none, LineSize) /\ IsStream(none) /\ Len(none) = 0
  BY <1>3, FreshIs, NulIs
<1>5. CASE speed = 0
  <2> DEFINE value == Store(Malloc(LineSize), 0, Nul)
             args == <<TRUE>>
  <2>1. Return("serial_read_line", args, value)
    BY <1>5 DEF serial_read_line
  <2>2. Stripped(none) = none
    BY DEF Stripped
  <2> HIDE DEF none
  <2>3. Holds(value, none)
    BY <1>3, <1>4, Ended
  <2>4. Stripped(taken)' = none /\ speed' = 0
    BY <1>1, <1>5, <2>2
  <2> HIDE DEF value, args
  <2>5. Runs(call', taken', pause') /\ BuiltinsSayWhatTheyMean'
    BY <2>1, <2>3, <2>4, SaysLine
  <2>6. QED
    BY <1>2, <2>5 DEF PreludeInv
<1>6. CASE speed # 0
  <2>1. call' = [name |-> "serial_read_line", buf |-> Malloc(LineSize), i |-> 0, missed |-> 0]
    BY <1>6 DEF serial_read_line
  <2>2. BuiltinsSayWhatTheyMean'
    BY <2>1 DEF BuiltinsSayWhatTheyMean, Idle
  <2> HIDE DEF none
  <2>3. Runs(call', taken', pause')
    BY <1>1, <1>3, <1>4, <2>1 DEF Runs
  <2>4. QED
    BY <1>2, <2>2, <2>3 DEF PreludeInv
<1>7. QED
  BY <1>5, <1>6

\* A byte put behind what a line has so far.
LEMMA ByteStored ==
    ASSUME NEW b, NEW t, IsStream(t), NEW n \in Nat, Filled(b, t, n), Len(t) < n, NEW c
    PROVE  Filled(Store(b, Len(t), <<c>>), Append(t, c), n)
<1> DEFINE one == <<c>>
<1>1. IsStream(one) /\ Len(one) = 1 /\ Append(t, c) = t \o one
  BY OneMade, OneMore
<1> HIDE DEF one
<1>2. Len(t) + Len(one) <= n
  BY <1>1, StreamIs
<1>3. Filled(Store(b, Len(t), one), t \o one, n)
  BY <1>1, <1>2, FillsOn
<1>4. QED
  BY <1>1, <1>3 DEF one

LEMMA ByteKeeps ==
    ASSUME PreludeInv, ReadByte
    PROVE  PreludeInv'
<1> DEFINE byte == Head(wire)
<1>1. /\ call = [name |-> "serial_read_line", buf |-> call.buf, i |-> call.i, missed |-> call.missed]
      /\ call.i = Len(taken) /\ Len(taken) < LineSize
      /\ call.missed = pause /\ pause \in 0..Misses
      /\ Filled(call.buf, taken, LineSize)
      /\ \A i \in 1..Len(taken) : taken[i] # Newline
      /\ IsStream(taken) /\ IsStream(wire)
  BY DEF PreludeInv, StreamsTyped, Runs, ReadByte
<1>2. Len(taken) \in Nat /\ LineSize \in Nat /\ Misses \in Nat
  BY <1>1, StreamIs, PreludeAssumption
<1>3. Stripped(taken) = taken
  <2>1. CASE taken = <<>>
    BY <2>1 DEF Stripped
  <2>2. CASE taken # <<>>
    <3>1. Last(taken) = taken[Len(taken)] /\ Len(taken) \in 1..Len(taken)
      BY <1>1, <2>2, LastAndFront
    <3>2. Last(taken) # Newline
      BY <1>1, <3>1
    <3>3. QED
      BY <3>2 DEF Stripped
  <2>3. QED
    BY <2>1, <2>2
<1>4. UNCHANGED <<stdin, files, speed>>
  BY DEF ReadByte
<1> DEFINE ended == Store(call.buf, call.i, Nul)
<1>5. Holds(ended, taken)
  BY <1>1, <1>2, Ended
<1>6. CASE call.i > LineSize - 2
  <2>1. Return("serial_read_line", <<FALSE>>, ended) /\ UNCHANGED <<wire, taken, pause>>
    BY <1>6 DEF ReadByte, Finish
  <2>2. Len(taken') = LineSize - 1 /\ Stripped(taken)' = taken
    BY <1>1, <1>2, <1>3, <1>6, <2>1
  <2> HIDE DEF ended
  <2>3. Runs(call', taken', pause') /\ BuiltinsSayWhatTheyMean'
    BY <1>5, <2>1, <2>2, SaysLine
  <2>4. QED
    BY <1>4, <2>1, <2>3 DEF PreludeInv, StreamsTyped
<1>7. CASE ~(call.i > LineSize - 2) /\ wire # <<>>
  <2> DEFINE t == Append(taken, byte)
  <2>1. wire' = Tail(wire) /\ taken' = t /\ pause' = 0
    BY <1>7 DEF ReadByte
  <2>2. IsStream(t) /\ t # <<>> /\ Last(t) = byte /\ Front(t) = taken
    BY <1>1, OneMore
  <2> HIDE DEF t
  <2>3. StreamsTyped'
    BY <1>1, <1>4, <1>7, <2>1, <2>2, RestOf DEF PreludeInv, StreamsTyped
  <2>4. CASE byte = Newline
    <3> DEFINE b == Store(call.buf, call.i, <<Newline>>)
               value == Store(b, call.i, Nul)
    <3>1. Return("serial_read_line", <<FALSE>>, value)
      BY <1>7, <2>4 DEF ReadByte, Finish
    <3>2. Filled(b, t, LineSize)
      BY <1>1, <1>2, <2>4, ByteStored DEF t
    <3>3. Len(t) = Len(taken) + 1 /\ \A i \in 1..Len(taken) : taken[i] = t[i]
      <4>1. Len(Front(t)) = Len(t) - 1 /\ Len(t) - 1 \in Nat /\ \A i \in 1..Len(t) - 1 : Front(t)[i] = t[i]
        BY <2>2, LastAndFront
      <4>2. Len(t) \in Nat
        BY <2>2, StreamIs
      <4>3. QED
        BY <1>2, <2>2, <4>1, <4>2
    <3> HIDE DEF b
    <3>4. Filled(b, taken, LineSize)
      <4>1. Len(t) \in Nat /\ Len(taken) <= Len(t)
        BY <1>2, <3>3
      <4>2. QED
        BY <1>2, <3>2, <3>3, <4>1, FilledLess
    <3>5. Holds(value, taken)
      BY <1>1, <1>2, <3>4, Ended
    <3>6. Stripped(taken)' = taken /\ taken # taken'
      <4>1. Stripped(t) = taken
        BY <2>2, <2>4 DEF Stripped
      <4>2. taken # t
        BY <1>2, <3>3
      <4>3. QED
        BY <2>1, <4>1, <4>2
    <3> HIDE DEF value
    <3>7. Runs(call', taken', pause') /\ BuiltinsSayWhatTheyMean'
      BY <3>1, <3>5, <3>6, SaysLine
    <3>8. QED
      BY <2>3, <3>7 DEF PreludeInv
  <2>5. CASE byte # Newline
    <3> DEFINE b == Store(call.buf, call.i, <<byte>>)
    <3>1. call' = [call EXCEPT !.buf = Store(@, call.i, <<byte>>), !.i = @ + 1, !.missed = 0]
      BY <1>7, <2>5 DEF ReadByte, Keep
    <3>2. Filled(b, t, LineSize)
      BY <1>1, <1>2, ByteStored DEF t
    <3>3. Len(t) = Len(taken) + 1 /\ \A i \in 1..Len(taken) : taken[i] = t[i]
      <4>1. Len(Front(t)) = Len(t) - 1 /\ Len(t) - 1 \in Nat /\ \A i \in 1..Len(t) - 1 : Front(t)[i] = t[i]
        BY <2>2, LastAndFront
      <4>2. Len(t) \in Nat
        BY <2>2, StreamIs
      <4>3. QED
        BY <1>2, <2>2, <4>1, <4>2
    <3>4. \A i \in 1..Len(t) : t[i] # Newline
      <4>1. t[Len(t)] = byte
        BY <2>2, LastAndFront
      <4>2. ASSUME NEW i \in 1..Len(t) PROVE t[i] # Newline
        <5>1. CASE i = Len(t)
          BY <2>5, <4>1, <5>1
        <5>2. CASE i # Len(t)
          <6>1. i \in 1..Len(taken)
            BY <1>2, <3>3, <5>2
          <6>2. QED
            BY <1>1, <3>3, <6>1
        <5>3. QED
          BY <5>1, <5>2
      <4>3. QED
        BY <4>2
    <3>5. call' = [name |-> "serial_read_line", buf |-> b, i |-> Len(t), missed |-> 0]
      <4> DEFINE i == call.i + 1
                 missed == 0
      <4>1. call' = [call EXCEPT !.buf = b, !.i = i, !.missed = missed]
        BY <3>1
      <4>2. i = Len(t) /\ missed = 0
        BY <1>1, <3>3
      <4> HIDE DEF b, i, missed
      <4>3. call' = [name |-> "serial_read_line", buf |-> b, i |-> i, missed |-> missed]
        <5>1. call = [name |-> "serial_read_line", buf |-> call.buf, i |-> call.i, missed |-> call.missed]
          BY <1>1
        <5>2. [call EXCEPT !.buf = b, !.i = i, !.missed = missed]
                  = [name |-> "serial_read_line", buf |-> b, i |-> i, missed |-> missed]
          <6> DEFINE c == call
          <6>1. c = [name |-> "serial_read_line", buf |-> c.buf, i |-> c.i, missed |-> c.missed]
            BY <5>1
          <6> HIDE DEF c
          <6>2. [c EXCEPT !.buf = b, !.i = i, !.missed = missed]
                    = [name |-> "serial_read_line", buf |-> b, i |-> i, missed |-> missed]
            <7>1. [c EXCEPT !.buf = b] = [name |-> "serial_read_line", buf |-> b, i |-> c.i, missed |-> c.missed]
              BY ONLY <6>1
            <7>2. [c EXCEPT !.buf = b, !.i = i, !.missed = missed]
                      = [[[c EXCEPT !.buf = b] EXCEPT !.i = i] EXCEPT !.missed = missed]
              BY ONLY TRUE
            <7> DEFINE d == [name |-> "serial_read_line", buf |-> b, i |-> c.i, missed |-> c.missed]
                       e == [name |-> "serial_read_line", buf |-> b, i |-> i, missed |-> c.missed]
            <7>3. [d EXCEPT !.i = i] = e
              BY ONLY TRUE
            <7>4. [e EXCEPT !.missed = missed] = [name |-> "serial_read_line", buf |-> b, i |-> i, missed |-> missed]
              BY ONLY TRUE
            <7>5. [c EXCEPT !.buf = b] = d
              BY ONLY <7>1
            <7> HIDE DEF d, e
            <7>6. QED
              BY <7>2, <7>3, <7>4, <7>5
          <6>3. QED
            BY <6>2 DEF c
        <5>3. QED
          BY ONLY <4>1, <5>2, Zenon
      <4>4. QED
        BY <4>2, <4>3
    <3>6. Len(t) < LineSize
      BY <1>1, <1>2, <1>7, <3>3
    <3> HIDE DEF b
    <3>7. Runs(call', taken', pause')
      BY <1>2, <2>1, <3>2, <3>4, <3>5, <3>6 DEF Runs
    <3>8. BuiltinsSayWhatTheyMean'
      BY <3>5 DEF BuiltinsSayWhatTheyMean, Idle
    <3>9. QED
      BY <2>3, <3>7, <3>8 DEF PreludeInv
  <2>6. QED
    BY <2>4, <2>5
<1>8. CASE ~(call.i > LineSize - 2) /\ wire = <<>>
  <2>1. pause' = pause + 1 /\ UNCHANGED <<wire, taken>>
    BY <1>8 DEF ReadByte
  <2>2. StreamsTyped'
    BY <1>4, <2>1 DEF PreludeInv, StreamsTyped
  <2>3. CASE call.missed + 1 > Misses
    <3>1. Return("serial_read_line", <<TRUE>>, ended)
      BY <1>8, <2>3 DEF ReadByte, Finish
    <3>2. pause' = Misses + 1 /\ Stripped(taken)' = taken
      BY <1>1, <1>2, <1>3, <2>1, <2>3
    <3> HIDE DEF ended
    <3>3. Runs(call', taken', pause') /\ BuiltinsSayWhatTheyMean'
      BY <1>5, <3>1, <3>2, SaysLine
    <3>4. QED
      BY <2>2, <3>3 DEF PreludeInv
  <2>4. CASE ~(call.missed + 1 > Misses)
    <3>1. call' = [call EXCEPT !.missed = @ + 1]
      BY <1>8, <2>4 DEF ReadByte
    <3>2. call' = [name |-> "serial_read_line", buf |-> call.buf, i |-> call.i, missed |-> pause + 1]
      BY <1>1, <3>1
    <3>3. Runs(call', taken', pause')
      BY <1>1, <1>2, <2>1, <2>4, <3>2 DEF Runs
    <3>4. BuiltinsSayWhatTheyMean'
      BY <3>2 DEF BuiltinsSayWhatTheyMean, Idle
    <3>5. QED
      BY <2>2, <3>3, <3>4 DEF PreludeInv
  <2>5. QED
    BY <2>3, <2>4
<1>9. QED
  BY <1>6, <1>7, <1>8

\* Every builtin of the module returns what it is named for, for every call of
\* any program: texts computed in the buffers emitRuntimePrelude allocates, files
\* and output read in pieces, a line of input of any length, the port's bytes.
THEOREM BuiltinsMean == PreludeSpec => []BuiltinsSayWhatTheyMean
<1>1. PreludeInit => PreludeInv
  <2> SUFFICES ASSUME PreludeInit PROVE PreludeInv
    OBVIOUS
  <2>1. StreamsTyped
    BY ArgumentsAre, NulIs DEF PreludeInit, StreamsTyped
  <2>2. Runs(call, taken, pause)
    BY IdleRuns DEF PreludeInit
  <2>3. result.name = "none" /\ result.value = EmptyString
    BY DEF PreludeInit
  <2> DEFINE none == <<>>
  <2>4. Meaning(result.name, result.args) = none /\ Holds(EmptyString, none)
    BY <2>3, EmptyHolds DEF Meaning
  <2> HIDE DEF none
  <2>5. BuiltinsSayWhatTheyMean
    BY <2>3, <2>4 DEF BuiltinsSayWhatTheyMean, JoinedToBase
  <2>6. QED
    BY <2>1, <2>2, <2>5 DEF PreludeInv
<1>2. PreludeInv /\ [PreludeNext]_preludeVars => PreludeInv'
  <2> SUFFICES ASSUME PreludeInv, [PreludeNext]_preludeVars PROVE PreludeInv'
    OBVIOUS
  <2>1. CASE PreludeNext
    BY <2>1, ComputeKeeps, InputKeeps, ReadKeeps, WriteKeeps, PopenKeeps, CollectKeeps, OpenToReadKeeps,
       MeanwhileKeeps, OpenToWriteKeeps, PortKeeps, ArriveKeeps, StartLineKeeps, ByteKeeps DEF PreludeNext
  <2>2. CASE UNCHANGED preludeVars
    <3>1. UNCHANGED <<stdin, files, speed, wire, call, taken, pause, result>>
      BY <2>2 DEF preludeVars
    <3>2. StreamsTyped'
      BY <3>1 DEF PreludeInv, StreamsTyped
    <3>3. Meaning(result.name, result.args)' = Meaning(result.name, result.args)
      BY <3>1 DEF Meaning
    <3>4. Stripped(taken)' = Stripped(taken)
      BY <3>1
    <3>5. BuiltinsSayWhatTheyMean'
      BY <3>1, <3>3, <3>4 DEF PreludeInv, BuiltinsSayWhatTheyMean, JoinedToBase
    <3>6. QED
      BY <3>1, <3>2, <3>5 DEF PreludeInv
  <2>3. QED
    BY <2>1, <2>2
<1>3. PreludeInv => BuiltinsSayWhatTheyMean
  BY DEF PreludeInv
<1>4. QED
  BY <1>1, <1>2, <1>3, PTL DEF PreludeSpec

-----------------------------------------------------------------------------
(* How deep texts are, and how Python reads their lines.                   *)

LEMMA StepsAre == ASSUME NEW o PROVE Steps(o) \in Nat /\ Steps(o) >= 1
  BY DEF Steps

LEMMA DepthsAre ==
    ASSUME NEW os, IsStream(os)
    PROVE  /\ Depths(os) \in [0..Len(os) -> Nat] /\ Depths(os)[0] = 0
           /\ \A i \in 1..Len(os) : Depths(os)[i] = Depths(os)[i - 1] + Steps(os[i])
<1> DEFINE n == Len(os)
           Body(f) == [i \in 0..n |-> IF i = 0 THEN 0 ELSE f[i - 1] + Steps(os[i])]
           upTo == CHOOSE f : f = Body(f)
<1>1. Depths(os) = upTo
  BY DEF Depths
<1>2. n \in Nat
  BY StreamIs
<1> HIDE DEF n
<1>3. \E f : f = Body(f)
  <2> DEFINE G == [p \in (1..n) \X Nat |-> p[2] + Steps(os[p[1]])]
             X == Nat
             x == 0
  <2>1. G \in [(1..n) \X X -> X] /\ x \in X
    BY StepsAre
  <2>2. Iterates(n, X, x, G)
    <3> HIDE DEF G, X, x
    <3>1. QED
      BY <1>2, <2>1, Iterated
  <2>3. PICK g \in [0..n -> X] : g[0] = x /\ \A i \in 1..n : g[i] = G[<<i, g[i - 1]>>]
    <3> HIDE DEF G, X, x
    <3>1. QED
      BY <2>2 DEF Iterates
  <2>4. ASSUME NEW i \in 0..n PROVE g[i] = IF i = 0 THEN 0 ELSE g[i - 1] + Steps(os[i])
    <3>1. CASE i = 0
      BY <2>3, <3>1
    <3>2. CASE i # 0
      <4>1. i \in 1..n /\ i - 1 \in 0..n
        BY <1>2, <3>2
      <4>2. g[i - 1] \in Nat /\ <<i, g[i - 1]>> \in (1..n) \X Nat
        BY <2>3, <4>1
      <4>3. QED
        BY <2>3, <3>2, <4>1, <4>2
    <3>3. QED
      BY <3>1, <3>2
  <2>5. g = Body(g)
    BY <2>3, <2>4
  <2> HIDE DEF Body
  <2>6. QED
    BY <2>5
<1>4. upTo = Body(upTo)
  <2> HIDE DEF Body
  <2>1. QED
    BY <1>3
<1> HIDE DEF upTo
<1>5. upTo[0] = 0 /\ \A i \in 1..n : upTo[i] = upTo[i - 1] + Steps(os[i])
  <2>1. \A i \in 0..n : upTo[i] = IF i = 0 THEN 0 ELSE upTo[i - 1] + Steps(os[i])
    BY <1>4
  <2>2. 0 \in 0..n /\ \A i \in 1..n : i \in 0..n /\ i # 0
    BY <1>2
  <2>3. QED
    BY <2>1, <2>2
<1>6. DOMAIN upTo = 0..n /\ upTo = [i \in 0..n |-> upTo[i]]
  BY <1>4
<1> HIDE DEF Body
<1> DEFINE S == {k \in Nat : upTo[k] \in Nat}
<1>7. 0 \in S
  BY <1>5
<1>8. ASSUME NEW k \in 0 + 1 .. n, k - 1 \in S PROVE k \in S
  <2>1. k \in 1..n /\ k \in Nat /\ upTo[k - 1] \in Nat
    BY <1>2, <1>8
  <2>2. upTo[k] = upTo[k - 1] + Steps(os[k]) /\ Steps(os[k]) \in Nat
    BY <1>5, <2>1, StepsAre
  <2>3. QED
    BY <2>1, <2>2
<1>9. 0..n \subseteq S
  <2> HIDE DEF S
  <2>1. QED
    BY <1>2, <1>7, <1>8, Along
<1>10. upTo \in [0..n -> Nat]
  BY <1>6, <1>9
<1>11. QED
  BY <1>1, <1>5, <1>10 DEF n

\* Every construct goes deeper.
LEMMA Deeper ==
    ASSUME NEW os, IsStream(os), NEW i \in 0..Len(os), NEW j \in 0..Len(os), i < j
    PROVE  Depths(os)[i] < Depths(os)[j]
<1>1. Len(os) \in Nat /\ i \in Nat /\ j \in Nat
  BY StreamIs
<1>2. /\ Depths(os) \in [0..Len(os) -> Nat]
      /\ \A k \in 1..Len(os) : Depths(os)[k] = Depths(os)[k - 1] + Steps(os[k])
  BY DepthsAre
<1> DEFINE D == Depths(os)
           n == Len(os)
           S == {k \in Nat : D[i] < D[k]}
<1> HIDE DEF D, n
<1>3. ASSUME NEW k \in i + 1 .. n PROVE k \in Nat /\ k \in 1..n /\ k - 1 \in 0..n /\ k \in 0..n
  BY <1>1 DEF n
<1>4. ASSUME NEW k \in 1..n PROVE D[k - 1] < D[k] /\ D[k] \in Nat /\ D[k - 1] \in Nat
  <2>1. k - 1 \in 0..n /\ k \in 0..n
    BY <1>1 DEF n
  <2>2. D[k] = D[k - 1] + Steps(os[k]) /\ D[k] \in Nat /\ D[k - 1] \in Nat
    BY <1>2, <2>1 DEF D, n
  <2>3. QED
    BY <2>2, StepsAre
<1>5. i + 1 \in S
  <2>1. i + 1 \in 1..n /\ (i + 1) - 1 = i
    BY <1>1 DEF n
  <2>2. QED
    BY <1>1, <1>4, <2>1
<1>6. D[i] \in Nat
  BY <1>2 DEF D, n
<1>7. ASSUME NEW k \in (i + 1) + 1 .. j, k - 1 \in S PROVE k \in S
  <2>1. k \in 1..n /\ k \in Nat
    BY <1>1 DEF n
  <2>2. D[k - 1] < D[k] /\ D[k] \in Nat /\ D[k - 1] \in Nat /\ D[i] < D[k - 1]
    BY <1>4, <1>7, <2>1
  <2>3. QED
    BY <1>6, <2>1, <2>2
<1>8. i + 1 .. j \subseteq S
  <2> HIDE DEF S
  <2>1. i + 1 \in Nat
    BY <1>1
  <2>2. QED
    BY <1>1, <1>5, <1>7, <2>1, Along
<1>9. j \in i + 1 .. j
  BY <1>1
<1>10. QED
  BY <1>8, <1>9 DEF D

\* Constructs that begin alike are as deep there.
LEMMA DepthsAgree ==
    ASSUME NEW os, IsStream(os), NEW ps, IsStream(ps), NEW m \in Nat, m <= Len(os), m <= Len(ps),
           \A i \in 1..m : os[i] = ps[i]
    PROVE  \A k \in 0..m : Depths(os)[k] = Depths(ps)[k]
<1>1. Len(os) \in Nat /\ Len(ps) \in Nat
  BY StreamIs
<1>2. Depths(os)[0] = 0 /\ Depths(ps)[0] = 0
  BY DepthsAre
<1>3. \A k \in 1..Len(os) : Depths(os)[k] = Depths(os)[k - 1] + Steps(os[k])
  BY DepthsAre
<1>4. \A k \in 1..Len(ps) : Depths(ps)[k] = Depths(ps)[k - 1] + Steps(ps[k])
  BY DepthsAre
<1> DEFINE S == {k \in Nat : Depths(os)[k] = Depths(ps)[k]}
<1>5. 0 \in S
  BY <1>2
<1>6. ASSUME NEW k \in 0 + 1 .. m, k - 1 \in S PROVE k \in S
  <2>1. k \in Nat /\ k \in 1..m /\ k \in 1..Len(os) /\ k \in 1..Len(ps)
    BY <1>1
  <2>2. QED
    BY <1>3, <1>4, <1>6, <2>1
<1>7. 0..m \subseteq S
  <2> HIDE DEF S
  <2>1. QED
    BY <1>5, <1>6, Along
<1>8. QED
  BY <1>7

\* What is kept of a stack of indentations: as many as are not deeper.
LEMMA KeptOf ==
    ASSUME NEW st \in Seq(Int), NEW ind \in Int
    PROVE  /\ Cardinality({i \in DOMAIN st : st[i] <= ind}) \in Nat
           /\ Cardinality({i \in DOMAIN st : st[i] <= ind}) <= Len(st)
           /\ SubSeq(st, 1, Cardinality({i \in DOMAIN st : st[i] <= ind})) \in Seq(Int)
<1> DEFINE T == {i \in DOMAIN st : st[i] <= ind}
           n == Len(st)
           c == Cardinality(T)
<1>1. n \in Nat /\ DOMAIN st = 1..n /\ \A i \in 1..n : st[i] \in Int
  BY LenProperties
<1> HIDE DEF n
<1>2. T \subseteq 1..n
  BY <1>1
<1>3. IsFiniteSet(1..n) /\ Cardinality(1..n) = n
  <2>1. 1 \in Int /\ n \in Int
    BY <1>1
  <2>2. IsFiniteSet(1..n) /\ Cardinality(1..n) = IF 1 > n THEN 0 ELSE n - 1 + 1
    BY <2>1, FS_Interval
  <2>3. QED
    BY <1>1, <2>2
<1> HIDE DEF T
<1>4. IsFiniteSet(T) /\ c <= n
  BY <1>2, <1>3, FS_Subset
<1>5. c \in Nat
  BY <1>4, FS_CardinalityType
<1> HIDE DEF c
<1>6. SubSeq(st, 1, c) \in Seq(Int)
  <2>1. \A i \in 1..c : st[i] \in Int
    BY <1>1, <1>4, <1>5
  <2>2. QED
    BY <1>5, <2>1, SubSeqProperties
<1>7. QED
  BY <1>4, <1>5, <1>6 DEF c, T, n

Lines == [ind : Int, head : BOOLEAN, depth : Nat]
Readers == [stack : Seq(Int), ok : BOOLEAN, head : BOOLEAN]
Fresh == [stack |-> <<0>>, ok |-> TRUE, head |-> FALSE]

LEMMA NestType ==
    ASSUME NEW acc \in Readers, NEW l \in Lines
    PROVE  Nest(acc, l) \in Readers
<1> DEFINE kept == SubSeq(acc.stack, 1, Cardinality({i \in DOMAIN acc.stack : acc.stack[i] <= l.ind}))
<1>1. acc.stack \in Seq(Int) /\ l.ind \in Int /\ l.head \in BOOLEAN
  BY DEF Readers, Lines
<1>2. kept \in Seq(Int)
  BY <1>1, KeptOf
<1>3. Append(acc.stack, l.ind) \in Seq(Int)
  BY <1>1, AppendProperties
<1>4. CASE acc.head
  <2>1. Nest(acc, l) = [stack |-> Append(acc.stack, l.ind), ok |-> acc.ok /\ l.ind > Last(acc.stack), head |-> l.head]
    BY <1>4 DEF Nest
  <2>2. QED
    BY <1>1, <1>3, <2>1 DEF Readers
<1>5. CASE ~acc.head
  <2>1. Nest(acc, l) = [stack |-> kept, ok |-> acc.ok /\ Last(kept) = l.ind, head |-> l.head]
    BY <1>5 DEF Nest
  <2> HIDE DEF kept
  <2>2. QED
    BY <1>1, <1>2, <2>1 DEF Readers
<1>6. QED
  BY <1>4, <1>5

LEMMA ReadingIs ==
    ASSUME NEW ls \in Seq(Lines)
    PROVE  /\ Reading(ls) \in [0..Len(ls) -> Readers] /\ Reading(ls)[0] = Fresh
           /\ \A i \in 1..Len(ls) : Reading(ls)[i] = Nest(Reading(ls)[i - 1], ls[i])
<1> DEFINE n == Len(ls)
           Body(f) == [i \in 0..n |-> IF i = 0 THEN Fresh ELSE Nest(f[i - 1], ls[i])]
           upTo == CHOOSE f : f = Body(f)
<1>1. Reading(ls) = upTo
  BY DEF Reading, Fresh
<1>2. n \in Nat /\ \A i \in 1..n : ls[i] \in Lines
  BY LenProperties
<1> HIDE DEF n
<1>3. Fresh \in Readers
  BY DEF Fresh, Readers
<1>4. \E f \in [0..n -> Readers] : f = Body(f)
  <2> DEFINE G == [p \in (1..n) \X Readers |-> Nest(p[2], ls[p[1]])]
             X == Readers
             x == Fresh
  <2>1. G \in [(1..n) \X X -> X] /\ x \in X
    <3>1. ASSUME NEW p \in (1..n) \X Readers PROVE Nest(p[2], ls[p[1]]) \in Readers
      <4>1. p[1] \in 1..n /\ p[2] \in Readers
        OBVIOUS
      <4>2. QED
        BY <1>2, <4>1, NestType
    <3>2. QED
      BY <1>3, <3>1
  <2>2. Iterates(n, X, x, G)
    <3> HIDE DEF G, X, x
    <3>1. QED
      BY <1>2, <2>1, Iterated
  <2>3. PICK g \in [0..n -> X] : g[0] = x /\ \A i \in 1..n : g[i] = G[<<i, g[i - 1]>>]
    <3> HIDE DEF G, X, x
    <3>1. QED
      BY <2>2 DEF Iterates
  <2>4. ASSUME NEW i \in 0..n PROVE g[i] = IF i = 0 THEN Fresh ELSE Nest(g[i - 1], ls[i])
    <3>1. CASE i = 0
      BY <2>3, <3>1
    <3>2. CASE i # 0
      <4>1. i \in 1..n /\ i - 1 \in 0..n
        BY <1>2, <3>2
      <4>2. g[i - 1] \in Readers /\ <<i, g[i - 1]>> \in (1..n) \X Readers
        BY <2>3, <4>1
      <4>3. QED
        BY <2>3, <3>2, <4>1, <4>2
    <3>3. QED
      BY <3>1, <3>2
  <2>5. g = Body(g) /\ g \in [0..n -> Readers]
    BY <2>3, <2>4
  <2> HIDE DEF Body
  <2>6. QED
    BY <2>5
<1>5. upTo = Body(upTo)
  <2> HIDE DEF Body
  <2>1. QED
    BY <1>4
<1> HIDE DEF upTo
<1>6. upTo[0] = Fresh /\ \A i \in 1..n : upTo[i] = Nest(upTo[i - 1], ls[i])
  <2>1. \A i \in 0..n : upTo[i] = IF i = 0 THEN Fresh ELSE Nest(upTo[i - 1], ls[i])
    BY <1>5
  <2>2. 0 \in 0..n /\ \A i \in 1..n : i \in 0..n /\ i # 0
    BY <1>2
  <2>3. QED
    BY <2>1, <2>2
<1>7. DOMAIN upTo = 0..n /\ upTo = [i \in 0..n |-> upTo[i]]
  BY <1>5
<1> HIDE DEF Body
<1> DEFINE S == {k \in Nat : upTo[k] \in Readers}
<1>8. 0 \in S
  BY <1>3, <1>6
<1>9. ASSUME NEW k \in 0 + 1 .. n, k - 1 \in S PROVE k \in S
  <2>1. k \in 1..n /\ k \in Nat /\ upTo[k - 1] \in Readers
    BY <1>2, <1>9
  <2>2. QED
    BY <1>2, <1>6, <2>1, NestType
<1>10. 0..n \subseteq S
  <2> HIDE DEF S
  <2>1. QED
    BY <1>2, <1>8, <1>9, Along
<1>11. upTo \in [0..n -> Readers]
  BY <1>7, <1>10
<1>12. QED
  BY <1>1, <1>6, <1>11 DEF n

\* What was read does not change with what is written behind it.
LEMMA ReadBefore ==
    ASSUME NEW ls \in Seq(Lines), NEW l \in Lines
    PROVE  /\ Append(ls, l) \in Seq(Lines) /\ Len(Append(ls, l)) = Len(ls) + 1
           /\ \A k \in 0..Len(ls) : Reading(Append(ls, l))[k] = Reading(ls)[k]
           /\ Reading(Append(ls, l))[Len(ls) + 1] = Nest(Reading(ls)[Len(ls)], l)
<1> DEFINE more == Append(ls, l)
           n == Len(ls)
<1>1. n \in Nat /\ more \in Seq(Lines) /\ Len(more) = n + 1 /\ more[n + 1] = l /\ \A i \in 1..n : more[i] = ls[i]
  BY LenProperties, AppendProperties
<1> HIDE DEF more
<1>2. /\ Reading(ls)[0] = Fresh
      /\ \A i \in 1..n : Reading(ls)[i] = Nest(Reading(ls)[i - 1], ls[i])
  BY ReadingIs
<1> HIDE DEF n
<1>3. /\ Reading(more)[0] = Fresh
      /\ \A i \in 1..n + 1 : Reading(more)[i] = Nest(Reading(more)[i - 1], more[i])
  BY <1>1, ReadingIs
<1> DEFINE S == {k \in Nat : Reading(more)[k] = Reading(ls)[k]}
<1>4. 0 \in S
  BY <1>2, <1>3
<1>5. ASSUME NEW k \in 0 + 1 .. n, k - 1 \in S PROVE k \in S
  <2>1. k \in 1..n /\ k \in 1..n + 1 /\ k \in Nat
    BY <1>1
  <2>2. QED
    BY <1>1, <1>2, <1>3, <1>5, <2>1
<1>6. 0..n \subseteq S
  <2> HIDE DEF S
  <2>1. QED
    BY <1>1, <1>4, <1>5, Along
<1>7. Reading(more)[n + 1] = Nest(Reading(ls)[n], l)
  <2>1. n + 1 \in 1..n + 1 /\ (n + 1) - 1 = n /\ n \in 0..n
    BY <1>1
  <2>2. Reading(more)[n] = Reading(ls)[n]
    BY <1>6, <2>1
  <2>3. Reading(more)[n + 1] = Nest(Reading(more)[n], more[n + 1])
    BY <1>3, <2>1
  <2>4. QED
    BY <1>1, <2>2, <2>3
<1>8. QED
  BY <1>1, <1>6, <1>7 DEF more, n

-----------------------------------------------------------------------------
(* The indentations Python has on its stack after a line are those of the  *)
(* constructs the line stands in, as far as they are still open.           *)

\* d constructs, of which os are open
Stands(acc, d, os) ==
    /\ Len(acc.stack) = d + 1
    /\ \A i, j \in 1..d + 1 : i < j => acc.stack[i] < acc.stack[j]
    /\ \A k \in 0..d : k <= Len(os) => acc.stack[k + 1] = Depths(os)[k]

\* No body but the last is empty so far.
Full(ls) == \A i \in 1..Len(ls) - 1 : ls[i].head => ls[i].depth < ls[i + 1].depth
DepthOf(ls) == IF Len(ls) = 0 THEN 0 ELSE ls[Len(ls)].depth
HeadOf(ls) == Len(ls) # 0 /\ ls[Len(ls)].head

Followed(ls, os) ==
    /\ Len(os) <= DepthOf(ls) + (IF HeadOf(ls) THEN 1 ELSE 0)
    /\ Full(ls) =>
           /\ \A m \in 1..Len(ls) : Reading(ls)[m].ok /\ Len(Reading(ls)[m].stack) = ls[m].depth + 1
           /\ Stands(Reading(ls)[Len(ls)], DepthOf(ls), os)
           /\ Reading(ls)[Len(ls)].ok
           /\ Reading(ls)[Len(ls)].head <=> HeadOf(ls)

\* The first line of a body.
LEMMA NestDeeper ==
    ASSUME NEW acc \in Readers, NEW l \in Lines, NEW os, IsStream(os), NEW d \in Nat, d + 1 <= Len(os),
           Stands(acc, d, os), acc.ok, acc.head, l.ind = Depths(os)[d + 1]
    PROVE  Stands(Nest(acc, l), d + 1, os) /\ Nest(acc, l).ok /\ (Nest(acc, l).head <=> l.head)
<1> DEFINE st == acc.stack
           new == Append(st, l.ind)
           e == d + 1
<1>1. /\ st \in Seq(Int) /\ Len(st) = e
      /\ \A i, j \in 1..e : i < j => st[i] < st[j]
      /\ \A k \in 0..d : k <= Len(os) => st[k + 1] = Depths(os)[k]
  BY DEF Readers, Stands
<1>2. e \in Nat /\ d \in 0..e /\ e \in 0..e /\ e \in 0..Len(os) /\ d \in 0..Len(os) /\ d < e /\ Len(os) \in Nat
      /\ Len(st) + 1 = e + 1 /\ e - 1 = d
  BY <1>1, StreamIs
<1>3. l.ind \in Int
  BY DEF Lines
<1> HIDE DEF st
<1>4. Nest(acc, l) = [stack |-> new, ok |-> acc.ok /\ l.ind > Last(st), head |-> l.head]
  BY DEF Nest, st
<1>5. new \in Seq(Int) /\ Len(new) = e + 1 /\ new[e + 1] = l.ind /\ \A i \in 1..e : new[i] = st[i]
  BY <1>1, <1>3, AppendProperties
<1>6. Last(st) = Depths(os)[d]
  <2>1. Last(st) = st[d + 1]
    BY <1>1 DEF Last
  <2>2. d \in 0..d /\ d <= Len(os)
    BY <1>2
  <2>3. QED
    BY <1>1, <2>1, <2>2
<1>7. Depths(os)[d] < Depths(os)[e]
  BY <1>2, Deeper
<1>8. l.ind = Depths(os)[e] /\ l.ind > Last(st)
  <2>1. Depths(os)[d] \in Nat /\ Depths(os)[e] \in Nat
    BY <1>2, DepthsAre
  <2>2. QED
    BY <1>6, <1>7, <2>1
<1> HIDE DEF new
<1>9. Nest(acc, l).stack = new /\ Nest(acc, l).ok /\ (Nest(acc, l).head <=> l.head)
  <2> DEFINE v == acc.ok /\ l.ind > Last(st)
             h == l.head
  <2>1. Nest(acc, l) = [stack |-> new, ok |-> v, head |-> h] /\ v
    BY <1>4, <1>8
  <2> HIDE DEF v, h
  <2>2. Nest(acc, l).stack = new /\ Nest(acc, l).ok = v /\ Nest(acc, l).head = h
    BY <2>1
  <2>3. Nest(acc, l).ok
    BY <2>1, <2>2, Zenon
  <2>4. Nest(acc, l).head = l.head
    BY <2>2 DEF h
  <2>5. QED
    BY <2>2, <2>3, <2>4, Zenon
<1> HIDE DEF e
<1>10. \A k \in 0..e : k <= Len(os) => new[k + 1] = Depths(os)[k]
  <2> SUFFICES ASSUME NEW k \in 0..e, k <= Len(os) PROVE new[k + 1] = Depths(os)[k]
    OBVIOUS
  <2>1. CASE k = e
    BY <1>5, <1>8, <2>1
  <2>2. CASE k # e
    <3>1. k \in 0..d /\ k + 1 \in 1..e
      BY <1>2, <2>2
    <3>2. QED
      BY <1>1, <1>5, <3>1
  <2>3. QED
    BY <2>1, <2>2
<1>11. ASSUME NEW i \in 1..e + 1, NEW j \in 1..e + 1, i < j PROVE new[i] < new[j]
  <2>1. i \in 1..e /\ new[i] = st[i]
    BY <1>2, <1>5, <1>11
  <2>2. CASE j \in 1..e
    BY <1>1, <1>5, <1>11, <2>1, <2>2
  <2>3. CASE j \notin 1..e
    <3>1. j = e + 1 /\ new[j] = l.ind
      BY <1>2, <1>5, <2>3
    <3>2. i - 1 \in 0..d /\ i - 1 <= Len(os) /\ (i - 1) + 1 = i /\ i - 1 \in 0..Len(os) /\ i - 1 < e
      BY <1>2, <2>1
    <3>3. st[i] = Depths(os)[i - 1]
      BY <1>1, <3>2
    <3>4. Depths(os)[i - 1] < Depths(os)[e]
      BY <1>2, <3>2, Deeper
    <3>5. QED
      BY <1>8, <2>1, <3>1, <3>3, <3>4
  <2>4. QED
    BY <2>2, <2>3
<1>12. Stands(Nest(acc, l), e, os)
  BY <1>5, <1>9, <1>10, <1>11 DEF Stands
<1>13. QED
  BY <1>9, <1>12 DEF e

\* A line that is not deeper than the one before.
LEMMA NestBack ==
    ASSUME NEW acc \in Readers, NEW l \in Lines, NEW os, IsStream(os), NEW d \in Nat, NEW e \in 0..d, e <= Len(os),
           Stands(acc, d, os), acc.ok, ~acc.head, l.ind = Depths(os)[e]
    PROVE  Stands(Nest(acc, l), e, os) /\ Nest(acc, l).ok /\ (Nest(acc, l).head <=> l.head)
<1> DEFINE st == acc.stack
           there == {i \in DOMAIN st : st[i] <= l.ind}
           kept == SubSeq(st, 1, Cardinality(there))
<1>1. /\ st \in Seq(Int) /\ Len(st) = d + 1
      /\ \A i, j \in 1..d + 1 : i < j => st[i] < st[j]
      /\ \A k \in 0..d : k <= Len(os) => st[k + 1] = Depths(os)[k]
  BY DEF Readers, Stands
<1>2. l.ind \in Int /\ e \in Nat /\ e <= d /\ e + 1 \in 1..d + 1
  BY DEF Lines
<1> HIDE DEF st
<1>3. DOMAIN st = 1..d + 1 /\ \A i \in 1..d + 1 : st[i] \in Int
  BY <1>1, LenProperties
<1>4. st[e + 1] = l.ind
  BY <1>1
<1>5. there = 1..e + 1
  <2>1. ASSUME NEW i \in 1..d + 1 PROVE st[i] <= l.ind <=> i \in 1..e + 1
    <3>1. CASE i < e + 1
      <4>1. st[i] < st[e + 1] /\ i \in 1..e + 1
        BY <1>1, <1>2, <3>1
      <4>2. QED
        BY <1>2, <1>3, <1>4, <4>1
    <3>2. CASE i = e + 1
      BY <1>2, <1>4, <3>2
    <3>3. CASE e + 1 < i
      <4>1. st[e + 1] < st[i] /\ i \notin 1..e + 1
        BY <1>1, <1>2, <3>3
      <4>2. QED
        BY <1>2, <1>3, <1>4, <4>1
    <3>4. QED
      BY <1>2, <3>1, <3>2, <3>3
  <2>2. 1..e + 1 \subseteq 1..d + 1
    BY <1>2
  <2>3. QED
    BY <1>3, <2>1, <2>2
<1> HIDE DEF there
<1>6. Cardinality(there) = e + 1
  <2>1. 1 \in Int /\ e + 1 \in Int
    BY <1>2
  <2>2. Cardinality(there) = IF 1 > e + 1 THEN 0 ELSE (e + 1) - 1 + 1
    BY <1>5, <2>1, FS_Interval
  <2>3. QED
    BY <1>2, <2>2
<1>7. kept = SubSeq(st, 1, e + 1)
  BY <1>6
<1>8. Nest(acc, l) = [stack |-> kept, ok |-> acc.ok /\ Last(kept) = l.ind, head |-> l.head]
  BY DEF Nest, kept, there, st
<1> HIDE DEF kept
<1>9. kept \in Seq(Int) /\ Len(kept) = e + 1 /\ \A i \in 1..e + 1 : kept[i] = st[i]
  <2> DEFINE n == e + 1
  <2>1. n \in Nat /\ \A i \in 1..n : st[i] \in Int
    BY <1>2, <1>3
  <2>2. IsStream(st) /\ n <= Len(st)
    BY <1>1, <1>2 DEF IsStream
  <2> HIDE DEF n
  <2>3. Len(SubSeq(st, 1, n)) = n /\ \A i \in 1..n : SubSeq(st, 1, n)[i] = st[i]
    BY <2>1, <2>2, Begins
  <2>4. SubSeq(st, 1, n) \in Seq(Int)
    BY <1>1, <2>1, SubSeqProperties
  <2>5. QED
    BY <1>7, <2>3, <2>4 DEF n
<1>10. Last(kept) = l.ind
  BY <1>2, <1>4, <1>9 DEF Last
<1>11. Nest(acc, l).stack = kept /\ Nest(acc, l).ok /\ (Nest(acc, l).head <=> l.head)
  <2> DEFINE v == acc.ok /\ Last(kept) = l.ind
             h == l.head
  <2>1. Nest(acc, l) = [stack |-> kept, ok |-> v, head |-> h] /\ v
    BY <1>8, <1>10
  <2> HIDE DEF v, h
  <2>2. Nest(acc, l).stack = kept /\ Nest(acc, l).ok = v /\ Nest(acc, l).head = h
    BY <2>1
  <2>3. Nest(acc, l).ok
    BY <2>1, <2>2, Zenon
  <2>4. Nest(acc, l).head = l.head
    BY <2>2 DEF h
  <2>5. QED
    BY <2>2, <2>3, <2>4, Zenon
<1>12. ASSUME NEW i \in 1..e + 1, NEW j \in 1..e + 1, i < j PROVE kept[i] < kept[j]
  <2>1. i \in 1..d + 1 /\ j \in 1..d + 1
    BY <1>2
  <2>2. QED
    BY <1>1, <1>9, <1>12, <2>1
<1>13. ASSUME NEW k \in 0..e, k <= Len(os) PROVE kept[k + 1] = Depths(os)[k]
  <2>1. k \in 0..d /\ k + 1 \in 1..e + 1
    BY <1>2
  <2>2. QED
    BY <1>1, <1>9, <1>13, <2>1
<1>14. Stands(Nest(acc, l), e, os)
  BY <1>9, <1>11, <1>12, <1>13 DEF Stands
<1>15. QED
  BY <1>11, <1>14

LEMMA LineFollows ==
    ASSUME NEW ls \in Seq(Lines), NEW os, IsStream(os), Followed(ls, os),
           NEW e \in 0..Len(os), NEW l \in Lines, l.ind = Depths(os)[e], l.depth = e,
           NEW ps, IsStream(ps), Len(ps) <= e + (IF l.head THEN 1 ELSE 0),
           \A k \in 0..e : k <= Len(ps) => k <= Len(os) /\ Depths(ps)[k] = Depths(os)[k]
    PROVE  Followed(Append(ls, l), ps)
<1> DEFINE more == Append(ls, l)
           n == Len(ls)
           d == DepthOf(ls)
           acc == Reading(ls)[n]
           new == Nest(acc, l)
<1>1. /\ n \in Nat /\ more \in Seq(Lines) /\ Len(more) = n + 1 /\ more[n + 1] = l
      /\ \A i \in 1..n : more[i] = ls[i] /\ ls[i] \in Lines
  BY LenProperties, AppendProperties
<1>2. /\ \A k \in 0..n : Reading(more)[k] = Reading(ls)[k]
      /\ Reading(more)[n + 1] = new
  BY ReadBefore
<1>3. acc \in Readers
  <2>1. n \in 0..n
    BY <1>1
  <2>2. QED
    BY <2>1, ReadingIs
<1>4. d \in Nat /\ Len(os) \in Nat /\ Len(ps) \in Nat /\ e \in Nat /\ e <= Len(os)
  <2>1. n # 0 => ls[n].depth \in Nat
    BY <1>1 DEF Lines
  <2>2. QED
    BY <2>1, StreamIs DEF DepthOf
<1> HIDE DEF more
<1>5. DepthOf(more) = e /\ (HeadOf(more) <=> l.head)
  BY <1>1 DEF DepthOf, HeadOf
<1>6. Len(ps) <= DepthOf(more) + (IF HeadOf(more) THEN 1 ELSE 0)
  BY <1>5
<1>7. Len(os) <= d + (IF HeadOf(ls) THEN 1 ELSE 0)
  BY DEF Followed
<1>8. ASSUME Full(more)
      PROVE  /\ \A m \in 1..Len(more) : Reading(more)[m].ok /\ Len(Reading(more)[m].stack) = more[m].depth + 1
             /\ Stands(Reading(more)[Len(more)], DepthOf(more), ps)
             /\ Reading(more)[Len(more)].ok
             /\ Reading(more)[Len(more)].head <=> HeadOf(more)
  <2>1. Full(ls)
    <3>1. ASSUME NEW i \in 1..n - 1, ls[i].head PROVE ls[i].depth < ls[i + 1].depth
      <4>1. i \in 1..Len(more) - 1 /\ more[i] = ls[i] /\ more[i + 1] = ls[i + 1]
        BY <1>1
      <4>2. QED
        BY <1>8, <3>1, <4>1 DEF Full
    <3>2. QED
      BY <3>1 DEF Full
  <2>2. /\ \A m \in 1..n : Reading(ls)[m].ok /\ Len(Reading(ls)[m].stack) = ls[m].depth + 1
        /\ Stands(acc, d, os) /\ acc.ok /\ (acc.head <=> HeadOf(ls))
    BY <2>1 DEF Followed
  <2>3. HeadOf(ls) => d < e
    <3>1. ASSUME HeadOf(ls) PROVE d < e
      <4>1. n # 0 /\ ls[n].head /\ d = ls[n].depth
        BY <3>1 DEF HeadOf, DepthOf
      <4>2. n \in 1..Len(more) - 1 /\ more[n] = ls[n] /\ more[n + 1] = l
        BY <1>1, <4>1
      <4>3. QED
        BY <1>8, <4>1, <4>2 DEF Full
    <3>2. QED
      BY <3>1
  <2> HIDE DEF acc, d
  <2>4. Stands(new, e, os) /\ new.ok /\ (new.head <=> l.head)
    <3>1. CASE HeadOf(ls)
      <4>1. e = d + 1
        BY <1>4, <1>7, <2>3, <3>1
      <4>2. QED
        BY <1>3, <1>4, <2>2, <3>1, <4>1, NestDeeper
    <3>2. CASE ~HeadOf(ls)
      <4>1. e \in 0..d
        BY <1>4, <1>7, <3>2
      <4>2. QED
        BY <1>3, <1>4, <2>2, <3>2, <4>1, NestBack
    <3>3. QED
      BY <3>1, <3>2
  <2> HIDE DEF new
  <2>5. Stands(new, e, ps)
    BY <2>4 DEF Stands
  <2>6. Len(new.stack) = e + 1
    BY <2>4 DEF Stands
  <2>7. ASSUME NEW m \in 1..n + 1
        PROVE  Reading(more)[m].ok /\ Len(Reading(more)[m].stack) = more[m].depth + 1
    <3>1. CASE m = n + 1
      BY <1>1, <1>2, <2>4, <2>6, <3>1
    <3>2. CASE m # n + 1
      <4>1. m \in 1..n /\ m \in 0..n
        BY <1>1, <3>2
      <4>2. QED
        BY <1>1, <1>2, <2>2, <4>1
    <3>3. QED
      BY <3>1, <3>2
  <2>8. QED
    BY <1>1, <1>2, <1>5, <2>4, <2>5, <2>7
<1>9. QED
  BY <1>6, <1>8 DEF Followed, more

-----------------------------------------------------------------------------
(* The inductive invariant.                                                *)
IsText(text) == text = [ind |-> text.ind, lines |-> text.lines] /\ text.lines \in Seq(Lines)

\* the else branch of an if that is an if again has no braces
ChainsPlain(os) == \A i \in 1..Len(os) : Marker(os[i]) => Steps(os[i]) = 1

NestInv ==
    /\ IsStream(open) /\ ChainsPlain(open)
    /\ IsText(python) /\ IsText(js)
    /\ python.ind = Braces /\ js.ind = Braces
    /\ \A i \in 1..Len(js.lines) : js.lines[i].ind = js.lines[i].depth
    /\ Followed(python.lines, open)
    /\ stage # "writing" => open = <<>>

LineOf(ind, head, depth) == [ind |-> ind, head |-> head, depth |-> depth]

LEMMA AppendedIs ==
    ASSUME NEW s, IsStream(s), NEW c
    PROVE  Len(Append(s, c)) = Len(s) + 1 /\ Append(s, c)[Len(s) + 1] = c
           /\ \A i \in 1..Len(s) : Append(s, c)[i] = s[i]
<1>1. PICK S : s \in Seq(S)
  BY DEF IsStream
<1> DEFINE T == S \cup {c}
<1>2. s \in Seq(T) /\ c \in T
  BY <1>1
<1> HIDE DEF T
<1>3. QED
  BY <1>2, AppendProperties

LEMMA WrittenIs ==
    ASSUME NEW text, IsText(text), NEW head, NEW depth
    PROVE  Written(text, head, depth)
               = [ind |-> text.ind, lines |-> Append(text.lines, LineOf(text.ind, head, depth))]
<1> DEFINE ls == text.lines
           n == text.ind
           l == LineOf(n, head, depth)
<1>1. text = [ind |-> n, lines |-> ls]
  BY DEF IsText
<1>2. Written(text, head, depth) = [text EXCEPT !.lines = Append(ls, l)]
  BY DEF Written, LineOf
<1> HIDE DEF n, ls, l
<1>3. Written(text, head, depth) = [ind |-> n, lines |-> Append(ls, l)]
  BY <1>1, <1>2
<1>4. QED
  BY <1>3 DEF n, ls, l

LEMMA InIs ==
    ASSUME NEW text, NEW ind, NEW lines, text = [ind |-> ind, lines |-> lines], NEW by
    PROVE  In(text, by) = [ind |-> ind + by, lines |-> lines]
  BY DEF In

LEMMA HeaderIs ==
    ASSUME NEW text, IsText(text), NEW ind, text.ind = ind, NEW head, NEW depth, NEW by
    PROVE  In(Written(text, head, depth), by)
               = [ind |-> ind + by, lines |-> Append(text.lines, LineOf(ind, head, depth))]
<1> DEFINE new == Written(text, head, depth)
           ls == Append(text.lines, LineOf(ind, head, depth))
<1>1. new = [ind |-> ind, lines |-> ls]
  BY WrittenIs
<1> HIDE DEF new, ls
<1>2. In(new, by) = [ind |-> ind + by, lines |-> ls]
  BY <1>1, InIs
<1>3. QED
  BY <1>2 DEF new, ls

\* A line written e constructs deep, before ps are open.
LEMMA LineStep ==
    ASSUME NestInv, stage = "writing", stage' = stage, NEW e \in 0..Len(open), NEW head \in BOOLEAN,
           IsStream(open'), ChainsPlain(open'),
           Len(open') <= e + (IF head THEN 1 ELSE 0), e <= Len(open'),
           \A k \in 0..e : Depths(open')[k] = Depths(open)[k],
           python' = [ind |-> Depths(open')[Len(open')], lines |-> Append(python.lines, LineOf(Depths(open)[e], head, e))],
           js' = [ind |-> Depths(open')[Len(open')],
                  lines |-> Append(js.lines, LineOf(Depths(open)[e], head, Depths(open)[e]))]
    PROVE  NestInv'
<1> DEFINE D == Depths(open)[e]
           l == LineOf(D, head, e)
           m == LineOf(D, head, D)
           ls == python.lines
           ms == js.lines
           ps == open'
<1>1. /\ IsStream(open) /\ ls \in Seq(Lines) /\ ms \in Seq(Lines) /\ Followed(ls, open)
      /\ \A i \in 1..Len(ms) : ms[i].ind = ms[i].depth
  BY DEF NestInv, IsText
<1>2. D \in Nat /\ e \in Nat
  BY <1>1, DepthsAre
<1> HIDE DEF D
<1>3. l \in Lines /\ m \in Lines /\ l.ind = D /\ l.head = head /\ l.depth = e /\ m.ind = m.depth
  BY <1>2 DEF Lines, LineOf
<1>4. /\ python' = [ind |-> Depths(ps)[Len(ps)], lines |-> Append(ls, l)]
      /\ js' = [ind |-> Depths(ps)[Len(ps)], lines |-> Append(ms, m)]
  BY DEF D
<1> HIDE DEF l, m, ls, ms
<1>5. python'.lines = Append(ls, l) /\ js'.lines = Append(ms, m)
      /\ python'.ind = Depths(ps)[Len(ps)] /\ js'.ind = Depths(ps)[Len(ps)]
  BY <1>4
<1>6. /\ Append(ls, l) \in Seq(Lines) /\ Append(ms, m) \in Seq(Lines)
      /\ Len(Append(ms, m)) = Len(ms) + 1 /\ Len(ms) \in Nat
      /\ Append(ms, m)[Len(ms) + 1] = m /\ \A i \in 1..Len(ms) : Append(ms, m)[i] = ms[i]
  BY <1>1, <1>3, AppendProperties, LenProperties
<1>7. IsText(python)' /\ IsText(js)'
  BY <1>4, <1>5, <1>6 DEF IsText
<1>8. \A i \in 1..Len(js'.lines) : js'.lines[i].ind = js'.lines[i].depth
  <2>1. ASSUME NEW i \in 1..Len(ms) + 1 PROVE Append(ms, m)[i].ind = Append(ms, m)[i].depth
    <3>1. CASE i = Len(ms) + 1
      BY <1>3, <1>6, <3>1
    <3>2. CASE i # Len(ms) + 1
      <4>1. i \in 1..Len(ms)
        BY <1>6, <3>2
      <4>2. QED
        BY <1>1, <1>6, <4>1
    <3>3. QED
      BY <3>1, <3>2
  <2>2. QED
    BY <1>5, <1>6, <2>1
<1>9. Followed(Append(ls, l), ps)
  <2>1. Len(ps) <= e + (IF l.head THEN 1 ELSE 0)
    BY <1>3
  <2>2. \A k \in 0..e : k <= Len(ps) => k <= Len(open) /\ Depths(ps)[k] = Depths(open)[k]
    <3>1. Len(open) \in Nat
      BY <1>1, StreamIs
    <3>2. QED
      BY <3>1
  <2>3. l.ind = Depths(open)[e]
    BY <1>3 DEF D
  <2>4. IsStream(ps)
    OBVIOUS
  <2> HIDE DEF ps
  <2>5. QED
    BY <1>1, <1>3, <2>1, <2>2, <2>3, <2>4, LineFollows
<1>10. python'.ind = Braces' /\ js'.ind = Braces'
  BY <1>5 DEF Braces
<1>11. Followed(python.lines, open)'
  BY <1>5, <1>9
<1>12. QED
  BY <1>7, <1>8, <1>10, <1>11 DEF NestInv

LEMMA StatementNests ==
    ASSUME NestInv, stage = "writing", stage' = stage, open' = open, Statement
    PROVE  NestInv'
<1> DEFINE N == Len(open)
           D == Depths(open)[N]
<1>1. IsStream(open) /\ ChainsPlain(open) /\ IsText(python) /\ IsText(js) /\ python.ind = D /\ js.ind = D
  BY DEF NestInv, Braces
<1>2. N \in Nat
  BY <1>1, StreamIs
<1> DEFINE h == FALSE
<1>3. python' = [ind |-> D, lines |-> Append(python.lines, LineOf(D, h, N))]
  BY <1>1, WrittenIs DEF Statement
<1>4. js' = [ind |-> D, lines |-> Append(js.lines, LineOf(D, h, D))]
  BY <1>1, WrittenIs DEF Statement, Braces
<1>5. h \in BOOLEAN /\ Len(open') <= N + (IF h THEN 1 ELSE 0) /\ N <= Len(open') /\ N \in 0..Len(open)
      /\ IsStream(open') /\ ChainsPlain(open') /\ \A k \in 0..N : Depths(open')[k] = Depths(open)[k]
  BY <1>1, <1>2
<1> HIDE DEF h
<1>6. /\ python' = [ind |-> Depths(open')[Len(open')], lines |-> Append(python.lines, LineOf(Depths(open)[N], h, N))]
      /\ js' = [ind |-> Depths(open')[Len(open')],
                lines |-> Append(js.lines, LineOf(Depths(open)[N], h, Depths(open)[N]))]
  BY <1>3, <1>4
<1> HIDE DEF N, D
<1>7. QED
  BY <1>5, <1>6, LineStep

LEMMA HeaderNests ==
    ASSUME NestInv, stage = "writing", stage' = stage, NEW o, open' = Append(open, o), Header(o),
           Marker(o) => Steps(o) = 1
    PROVE  NestInv'
<1> DEFINE N == Len(open)
           D == Depths(open)[N]
           ps == Append(open, o)
           S == Steps(o)
<1>1. IsStream(open) /\ ChainsPlain(open) /\ IsText(python) /\ IsText(js) /\ python.ind = D /\ js.ind = D
  BY DEF NestInv, Braces
<1>2. N \in Nat
  BY <1>1, StreamIs
<1>3. IsStream(ps) /\ Len(ps) = N + 1 /\ ps[N + 1] = o /\ \A i \in 1..N : ps[i] = open[i]
  BY <1>1, OneMore, AppendedIs
<1> HIDE DEF ps
<1>4. ChainsPlain(ps)
  <2>1. ASSUME NEW i \in 1..N + 1, Marker(ps[i]) PROVE Steps(ps[i]) = 1
    <3>1. CASE i = N + 1
      BY <1>3, <2>1, <3>1
    <3>2. CASE i # N + 1
      <4>1. i \in 1..N
        BY <1>2, <3>2
      <4>2. QED
        BY <1>1, <1>3, <2>1, <4>1 DEF ChainsPlain
    <3>3. QED
      BY <3>1, <3>2
  <2>2. QED
    BY <1>3, <2>1 DEF ChainsPlain
<1>5. \A k \in 0..N : Depths(ps)[k] = Depths(open)[k]
  <2>1. N <= Len(ps) /\ N <= Len(open)
    BY <1>2, <1>3
  <2>2. QED
    BY <1>1, <1>2, <1>3, <2>1, DepthsAgree
<1>6. Depths(ps)[N + 1] = D + S
  <2>1. N + 1 \in 1..Len(ps) /\ (N + 1) - 1 = N /\ N \in 0..N
    BY <1>2, <1>3
  <2>2. Depths(ps)[N + 1] = Depths(ps)[N] + Steps(ps[N + 1])
    BY <1>3, <2>1, DepthsAre
  <2>3. QED
    BY <1>3, <1>5, <2>1, <2>2
<1> DEFINE h == TRUE
<1>7. python' = [ind |-> D + S, lines |-> Append(python.lines, LineOf(D, h, N))]
  <2>1. In(Written(python, h, N), S) = [ind |-> D + S, lines |-> Append(python.lines, LineOf(D, h, N))]
    <3> HIDE DEF N, S, h
    <3>1. python.ind = D
      BY <1>1
    <3> HIDE DEF D
    <3>2. QED
      BY <1>1, <3>1, HeaderIs
  <2>2. QED
    BY <2>1 DEF Header
<1>8. js' = [ind |-> D + S, lines |-> Append(js.lines, LineOf(D, h, D))]
  <2>1. In(Written(js, h, D), S) = [ind |-> D + S, lines |-> Append(js.lines, LineOf(D, h, D))]
    <3> HIDE DEF N, S, h
    <3>1. js.ind = D
      BY <1>1
    <3> HIDE DEF D
    <3>2. QED
      BY <1>1, <3>1, HeaderIs
  <2>2. QED
    BY <2>1 DEF Header, Braces
<1>9. open' = ps
  BY DEF ps
<1>10. h \in BOOLEAN /\ Len(open') <= N + (IF h THEN 1 ELSE 0) /\ N <= Len(open') /\ N \in 0..Len(open)
       /\ IsStream(open') /\ ChainsPlain(open') /\ \A k \in 0..N : Depths(open')[k] = Depths(open)[k]
  BY <1>2, <1>3, <1>4, <1>5, <1>9
<1> HIDE DEF h
<1>11. Depths(open')[Len(open')] = D + S
  BY <1>3, <1>6, <1>9
<1>12. /\ python' = [ind |-> Depths(open')[Len(open')], lines |-> Append(python.lines, LineOf(Depths(open)[N], h, N))]
       /\ js' = [ind |-> Depths(open')[Len(open')],
                 lines |-> Append(js.lines, LineOf(Depths(open)[N], h, Depths(open)[N]))]
  BY <1>7, <1>8, <1>11
<1> HIDE DEF N, D, S
<1>13. QED
  BY <1>10, <1>12, LineStep

\* The constructs that end together are the innermost ones, one step each.
LEMMA ChainIs ==
    ASSUME NEW os, IsStream(os), ChainsPlain(os)
    PROVE  /\ Cardinality(Chain(os)) \in Nat /\ Cardinality(Chain(os)) <= Len(os)
           /\ Depths(os)[Len(os)] = Depths(os)[Len(os) - Cardinality(Chain(os))] + Cardinality(Chain(os))
<1> DEFINE n == Len(os)
           T == Chain(os)
           c == Cardinality(T)
           U == T \cup {n + 1}
           D == Depths(os)
<1>1. n \in Nat /\ DOMAIN os = 1..n
  BY StreamIs
<1>2. \A i \in 1..n : i \in T <=> \A j \in i..n : Marker(os[j])
  BY <1>1 DEF Chain
<1>3. T \subseteq 1..n
  BY <1>1 DEF Chain
<1>4. /\ D \in [0..n -> Nat]
      /\ \A k \in 1..n : D[k] = D[k - 1] + Steps(os[k])
  BY DepthsAre
<1>5. \A i \in 1..n : Marker(os[i]) => Steps(os[i]) = 1
  BY DEF ChainsPlain
<1> HIDE DEF n, T, D
<1>6. PICK a \in U : \A y \in U : a <= y
  <2>1. U \subseteq Nat /\ U # {}
    BY <1>1, <1>3
  <2> HIDE DEF U
  <2>2. QED
    BY <2>1, LeastElement
<1>7. a \in 1..n + 1 /\ a \in Nat
  BY <1>1, <1>3, <1>6
<1>8. T = a..n
  <2>1. ASSUME NEW i \in T PROVE i \in a..n
    BY <1>1, <1>3, <1>6, <1>7, <2>1
  <2>2. ASSUME NEW i \in a..n PROVE i \in T
    <3>1. a \in T /\ a \in 1..n /\ i \in 1..n
      BY <1>1, <1>6, <1>7
    <3>2. \A j \in i..n : j \in a..n
      BY <1>1, <1>7
    <3>3. \A j \in a..n : Marker(os[j])
      BY <1>2, <3>1
    <3>4. QED
      BY <1>2, <3>1, <3>2, <3>3
  <2>3. QED
    BY <2>1, <2>2
<1>9. c = n - a + 1
  <2>1. a \in Int /\ n \in Int
    BY <1>1, <1>7
  <2>2. Cardinality(a..n) = IF a > n THEN 0 ELSE n - a + 1
    BY <2>1, FS_Interval
  <2>3. QED
    BY <1>1, <1>7, <1>8, <2>2
<1> HIDE DEF c, U
<1> DEFINE b == a - 1
           S == {k \in Nat : D[k] = D[b] + (k - b)}
<1>10. b \in Nat /\ b \in 0..n /\ b = n - c
  BY <1>1, <1>7, <1>9
<1>11. D[b] \in Nat
  BY <1>4, <1>10
<1>12. b \in S
  BY <1>10, <1>11
<1>13. ASSUME NEW k \in b + 1 .. n, k - 1 \in S PROVE k \in S
  <2>1. k \in a..n /\ k \in 1..n /\ k \in Nat
    BY <1>1, <1>7
  <2>2. Marker(os[k])
    <3>1. k \in T /\ k \in k..n
      BY <1>1, <1>8, <2>1
    <3>2. QED
      BY <1>2, <2>1, <3>1
  <2>3. D[k] = D[k - 1] + 1
    BY <1>4, <1>5, <2>1, <2>2
  <2>4. D[k - 1] = D[b] + ((k - 1) - b)
    BY <1>13
  <2>5. QED
    BY <1>10, <1>11, <2>1, <2>3, <2>4
<1>14. b..n \subseteq S
  <2> HIDE DEF S, b
  <2>1. QED
    BY <1>1, <1>10, <1>12, <1>13, Along
<1>15. n \in b..n
  BY <1>1, <1>10
<1>16. D[n] = D[b] + (n - b)
  BY <1>14, <1>15
<1> HIDE DEF b
<1>17. n - b = c /\ c \in Nat /\ c <= n
  BY <1>1, <1>7, <1>9, <1>10
<1>18. D[n] = D[n - c] + c /\ c \in Nat /\ c <= n
  BY <1>10, <1>16, <1>17
<1>19. QED
  BY <1>18 DEF c, T, D, n

\* Nothing is written when constructs end.
LEMMA FollowedStill ==
    ASSUME NEW ls, NEW os, NEW ps, IsStream(os), IsStream(ps), Followed(ls, os),
           Len(ps) <= Len(os), \A k \in 0..Len(ps) : Depths(ps)[k] = Depths(os)[k],
           DepthOf(ls) \in Nat
    PROVE  Followed(ls, ps)
<1> DEFINE d == DepthOf(ls)
           acc == Reading(ls)[Len(ls)]
<1>1. Len(ps) \in Nat /\ Len(os) \in Nat
  BY StreamIs
<1>2. Len(os) <= d + (IF HeadOf(ls) THEN 1 ELSE 0)
  BY DEF Followed
<1>3. Len(ps) <= d + (IF HeadOf(ls) THEN 1 ELSE 0)
  BY <1>1, <1>2
<1>4. ASSUME Stands(acc, d, os) PROVE Stands(acc, d, ps)
  <2> HIDE DEF acc
  <2>1. ASSUME NEW k \in 0..d, k <= Len(ps) PROVE acc.stack[k + 1] = Depths(ps)[k]
    <3>1. k \in 0..Len(ps) /\ k <= Len(os)
      BY <1>1, <2>1
    <3>2. QED
      BY <1>4, <3>1 DEF Stands
  <2>2. QED
    BY <1>4, <2>1 DEF Stands
<1>5. QED
  BY <1>3, <1>4 DEF Followed

LEMMA EndNests ==
    ASSUME NestInv, stage = "writing", stage' = stage, open # <<>>, EndStatement(Last(open))
    PROVE  NestInv'
<1> DEFINE N == Len(open)
           F == Front(open)
           c == Cardinality(Chain(F))
           M == N - 1 - c
           S == Steps(Last(open))
           ps == SubSeq(F, 1, M)
           D == Depths(open)
<1>1. /\ IsStream(open) /\ ChainsPlain(open) /\ IsText(python) /\ IsText(js)
      /\ python.ind = D[N] /\ js.ind = D[N] /\ Followed(python.lines, open)
      /\ \A i \in 1..Len(js.lines) : js.lines[i].ind = js.lines[i].depth
  BY DEF NestInv, Braces
<1>2. /\ Last(open) = open[N] /\ N \in 1..N /\ IsStream(F) /\ Len(F) = N - 1 /\ N - 1 \in Nat
      /\ \A i \in 1..N - 1 : F[i] = open[i]
  BY <1>1, LastAndFront
<1>3. N \in Nat /\ N >= 1
  BY <1>1, <1>2, StreamIs
<1>4. open' = ps /\ python' = In(python, -(S + c)) /\ js' = In(js, -(S + c))
  BY DEF EndStatement
<1> HIDE DEF F
<1>5. ChainsPlain(F)
  <2>1. ASSUME NEW i \in 1..N - 1, Marker(F[i]) PROVE Steps(F[i]) = 1
    <3>1. i \in 1..N /\ F[i] = open[i]
      BY <1>2, <1>3
    <3>2. QED
      BY <1>1, <2>1, <3>1 DEF ChainsPlain
  <2>2. QED
    BY <1>2, <2>1 DEF ChainsPlain
<1>6. c \in Nat /\ c <= N - 1 /\ Depths(F)[N - 1] = Depths(F)[(N - 1) - c] + c
  BY <1>2, <1>5, ChainIs
<1>7. M \in Nat /\ M <= N - 1 /\ M <= N
  BY <1>3, <1>6
<1> DEFINE m == M
<1>8. IsStream(ps) /\ Len(ps) = m /\ \A i \in 1..m : ps[i] = F[i]
  <2>1. m \in Nat /\ m <= Len(F) /\ ps = SubSeq(F, 1, m)
    BY <1>2, <1>7
  <2> HIDE DEF m, ps
  <2>2. QED
    BY <1>2, <2>1, Begins
<1> HIDE DEF ps
<1>9. m \in Nat /\ m <= N - 1 /\ m = N - 1 - c
  BY <1>7
<1> HIDE DEF m
<1>10. ASSUME NEW i \in 1..m PROVE ps[i] = open[i] /\ i \in 1..N
  <2>1. i \in 1..N - 1 /\ i \in 1..N
    BY <1>3, <1>9
  <2>2. QED
    BY <1>2, <1>8, <2>1
<1>11. ChainsPlain(ps)
  <2>1. ASSUME NEW i \in 1..m, Marker(ps[i]) PROVE Steps(ps[i]) = 1
    BY <1>1, <1>10, <2>1 DEF ChainsPlain
  <2>2. QED
    BY <1>8, <2>1 DEF ChainsPlain
<1>12. \A k \in 0..m : Depths(ps)[k] = Depths(open)[k]
  <2>1. m <= Len(ps) /\ m <= Len(open)
    BY <1>3, <1>8, <1>9
  <2>2. QED
    BY <1>1, <1>8, <1>9, <1>10, <2>1, DepthsAgree
<1>13. \A k \in 0..N - 1 : Depths(F)[k] = Depths(open)[k]
  <2> DEFINE z == N - 1
  <2>1. z \in Nat /\ z <= Len(F) /\ z <= Len(open) /\ \A i \in 1..z : F[i] = open[i]
    BY <1>2, <1>3
  <2> HIDE DEF z
  <2>2. \A k \in 0..z : Depths(F)[k] = Depths(open)[k]
    BY <1>1, <1>2, <2>1, DepthsAgree
  <2>3. QED
    BY <2>2 DEF z
<1>14. D[N] = D[m] + (S + c) /\ D[m] \in Nat /\ S \in Nat
  <2>1. D \in [0..N -> Nat] /\ \A k \in 1..N : D[k] = D[k - 1] + Steps(open[k])
    BY <1>1, DepthsAre
  <2>2. D[N] = D[N - 1] + S
    BY <1>2, <2>1
  <2>3. N - 1 \in 0..N - 1 /\ (N - 1) - c \in 0..N - 1 /\ (N - 1) - c = m
    BY <1>3, <1>6, <1>9
  <2>4. D[N - 1] = D[m] + c
    BY <1>6, <1>13, <2>3
  <2>5. D[m] \in Nat /\ S \in Nat
    BY <1>3, <1>9, <2>1, StepsAre
  <2> HIDE DEF D, S
  <2>6. QED
    BY <1>6, <2>2, <2>4, <2>5
<1> DEFINE by == -(S + c)
<1>15. D[N] + by = D[m]
  BY <1>6, <1>14
<1>16. /\ python' = [ind |-> D[m], lines |-> python.lines]
       /\ js' = [ind |-> D[m], lines |-> js.lines]
  <2> DEFINE at == D[N]
  <2>1. python = [ind |-> at, lines |-> python.lines] /\ js = [ind |-> at, lines |-> js.lines]
    BY <1>1 DEF IsText
  <2>2. python' = In(python, by) /\ js' = In(js, by)
    BY <1>4
  <2>3. at + by = D[m]
    BY <1>15
  <2> HIDE DEF by, D, at
  <2>4. In(python, by) = [ind |-> at + by, lines |-> python.lines]
    BY <2>1, InIs
  <2>5. In(js, by) = [ind |-> at + by, lines |-> js.lines]
    BY <2>1, InIs
  <2>6. QED
    BY <2>2, <2>3, <2>4, <2>5
<1>17. open' = ps /\ Len(ps) = m
  BY <1>4, <1>8
<1>18. python'.ind = Braces' /\ js'.ind = Braces'
  <2>1. Depths(ps)[m] = D[m]
    <3>1. m \in 0..m
      BY <1>9
    <3>2. QED
      BY <1>12, <3>1
  <2>2. python'.ind = D[m] /\ js'.ind = D[m]
    BY <1>16
  <2>3. Braces' = Depths(ps)[m]
    BY <1>17 DEF Braces
  <2>4. QED
    BY <2>1, <2>2, <2>3
<1>19. IsText(python)' /\ IsText(js)'
  BY <1>1, <1>16 DEF IsText
<1>20. DepthOf(python.lines) \in Nat
  <2>1. Len(python.lines) \in Nat /\ \A i \in 1..Len(python.lines) : python.lines[i] \in Lines
    BY <1>1, LenProperties DEF IsText
  <2>2. Len(python.lines) # 0 => python.lines[Len(python.lines)].depth \in Nat
    BY <2>1 DEF Lines
  <2>3. QED
    BY <2>2 DEF DepthOf
<1>21. Followed(python.lines, ps)
  <2>1. Len(ps) <= Len(open) /\ \A k \in 0..Len(ps) : Depths(ps)[k] = Depths(open)[k]
    BY <1>3, <1>8, <1>9, <1>12
  <2> HIDE DEF D, N
  <2>2. QED
    BY <1>1, <1>8, <1>20, <2>1, FollowedStill
<1>22. Followed(python.lines, open)'
  BY <1>16, <1>17, <1>21
<1>23. \A i \in 1..Len(js'.lines) : js'.lines[i].ind = js'.lines[i].depth
  BY <1>1, <1>16
<1>24. QED
  BY <1>8, <1>11, <1>17, <1>18, <1>19, <1>22, <1>23 DEF NestInv

\* One branch ends, and the header of the next is written where it stood.
LEMMA BranchNests ==
    ASSUME NestInv, NEW k \in {"else", "elseif"}, NEW braced \in BOOLEAN, CloseThen(k, braced),
           k = "elseif" => ~braced
    PROVE  NestInv'
<1> DEFINE N == Len(open)
           F == Front(open)
           o == Opened(k, braced)
           ps == Append(F, o)
           D == Depths(open)
           R == Steps(Last(open))
           S == Steps(o)
           e == N - 1
           h == TRUE
<1>1. /\ IsStream(open) /\ ChainsPlain(open) /\ IsText(python) /\ IsText(js)
      /\ python.ind = D[N] /\ js.ind = D[N]
  BY DEF NestInv, Braces
<1>2. stage = "writing" /\ stage' = stage /\ open # <<>> /\ open' = ps
  BY DEF CloseThen, Item
<1>3. /\ Last(open) = open[N] /\ N \in 1..N /\ IsStream(F) /\ Len(F) = e /\ e \in Nat
      /\ \A i \in 1..e : F[i] = open[i]
  BY <1>1, <1>2, LastAndFront
<1>4. N \in Nat /\ N >= 1 /\ N = e + 1
  BY <1>1, <1>3, StreamIs
<1> HIDE DEF F
<1>5. IsStream(ps) /\ Len(ps) = e + 1 /\ ps[e + 1] = o /\ (\A i \in 1..e : ps[i] = F[i]) /\ Last(ps) = o
  <2> HIDE DEF o, e
  <2>1. QED
    BY <1>3, OneMore, AppendedIs
<1>6. Marker(o) => Steps(o) = 1
  BY DEF Marker, Opened, Steps
<1>7. python' = In(Written(In(python, -R), TRUE, e), S) /\ js' = In(Written(In(js, -R), TRUE, D[N] - R), S)
  <2>1. Last(open') = o
    BY <1>2, <1>5
  <2>2. QED
    BY <2>1 DEF CloseThen, Braces
<1> HIDE DEF ps, o
<1>8. ChainsPlain(ps)
  <2>1. ASSUME NEW i \in 1..e + 1, Marker(ps[i]) PROVE Steps(ps[i]) = 1
    <3>1. CASE i = e + 1
      BY <1>5, <1>6, <2>1, <3>1
    <3>2. CASE i # e + 1
      <4>1. i \in 1..e /\ i \in 1..N
        BY <1>3, <1>4, <3>2
      <4>2. QED
        BY <1>1, <1>3, <1>5, <2>1, <4>1 DEF ChainsPlain
    <3>3. QED
      BY <3>1, <3>2
  <2>2. QED
    BY <1>5, <2>1 DEF ChainsPlain
<1> HIDE DEF e
<1>9. \A j \in 0..e : Depths(ps)[j] = D[j]
  <2>1. e <= Len(ps) /\ e <= Len(open) /\ \A i \in 1..e : ps[i] = open[i]
    BY <1>3, <1>4, <1>5
  <2>2. QED
    BY <1>1, <1>3, <1>5, <2>1, DepthsAgree
<1>10. Depths(ps)[e + 1] = D[e] + S
  <2>1. e + 1 \in 1..Len(ps) /\ (e + 1) - 1 = e /\ e \in 0..e
    BY <1>3, <1>5
  <2>2. Depths(ps)[e + 1] = Depths(ps)[e] + Steps(ps[e + 1])
    BY <1>5, <2>1, DepthsAre
  <2>3. QED
    BY <1>5, <1>9, <2>1, <2>2
<1>11. D[N] = D[e] + R /\ D[e] \in Nat /\ R \in Nat
  <2>1. D \in [0..N -> Nat] /\ \A j \in 1..N : D[j] = D[j - 1] + Steps(open[j])
    BY <1>1, DepthsAre
  <2>2. N - 1 = e /\ e \in 0..N
    BY <1>3, <1>4
  <2>3. QED
    BY <1>3, <2>1, <2>2, StepsAre
<1>12. h \in BOOLEAN /\ Len(open') <= e + (IF h THEN 1 ELSE 0) /\ e <= Len(open') /\ e \in 0..Len(open)
       /\ IsStream(open') /\ ChainsPlain(open') /\ \A j \in 0..e : Depths(open')[j] = D[j]
  BY <1>2, <1>3, <1>4, <1>5, <1>8, <1>9
<1> HIDE DEF h
<1>13. ASSUME NEW text, IsText(text), text.ind = D[N], NEW depth
       PROVE  In(Written(In(text, -R), h, depth), S)
                  = [ind |-> D[e] + S, lines |-> Append(text.lines, LineOf(D[e], h, depth))]
  <2> DEFINE at == D[N]
             to == D[e]
             by == -R
             back == In(text, by)
             ls == text.lines
  <2>1. at + by = to
    BY <1>11
  <2>2. text = [ind |-> at, lines |-> ls] /\ ls \in Seq(Lines)
    BY <1>13 DEF IsText
  <2> HIDE DEF at, to, by, ls
  <2>3. back = [ind |-> to, lines |-> ls]
    BY <2>1, <2>2, InIs
  <2> HIDE DEF back
  <2>4. IsText(back) /\ back.ind = to /\ back.lines = ls
    BY <2>2, <2>3 DEF IsText
  <2> HIDE DEF S
  <2>5. In(Written(back, h, depth), S) = [ind |-> to + S, lines |-> Append(ls, LineOf(to, h, depth))]
    BY <2>4, HeaderIs
  <2>6. QED
    BY <2>5 DEF back, to, by, ls
<1>14. /\ python' = [ind |-> D[e] + S, lines |-> Append(python.lines, LineOf(D[e], h, e))]
       /\ js' = [ind |-> D[e] + S, lines |-> Append(js.lines, LineOf(D[e], h, D[e]))]
  <2>1. D[N] - R = D[e]
    BY <1>11
  <2>2. /\ python' = In(Written(In(python, -R), h, e), S)
        /\ js' = In(Written(In(js, -R), h, D[e]), S)
    BY <1>7, <2>1 DEF h
  <2> HIDE DEF N, D, R, S
  <2>3. QED
    BY <1>1, <1>13, <2>2
<1>15. Depths(open')[Len(open')] = D[e] + S
  BY <1>2, <1>5, <1>10
<1>16. /\ python' = [ind |-> Depths(open')[Len(open')], lines |-> Append(python.lines, LineOf(Depths(open)[e], h, e))]
       /\ js' = [ind |-> Depths(open')[Len(open')],
                 lines |-> Append(js.lines, LineOf(Depths(open)[e], h, Depths(open)[e]))]
  BY <1>14, <1>15
<1> HIDE DEF N, D, R, S
<1>17. QED
  BY <1>2, <1>12, <1>16, LineStep DEF D

-----------------------------------------------------------------------------
(* Steps.                                                                  *)

\* What leaves the constructs and the texts alone.
LEMMA ApartNests ==
    ASSUME NestInv, UNCHANGED <<open, python, js>>, stage' # "writing" => open = <<>>
    PROVE  NestInv'
<1>1. open' = open /\ python' = python /\ js' = js
  OBVIOUS
<1>2. (IsStream(open) /\ ChainsPlain(open))' /\ (IsText(python) /\ IsText(js))'
      /\ (python.ind = Braces /\ js.ind = Braces)' /\ Followed(python.lines, open)'
      /\ (\A i \in 1..Len(js.lines) : js.lines[i].ind = js.lines[i].depth)'
  BY <1>1 DEF NestInv, Braces, IsText
<1>3. (stage # "writing" => open = <<>>)'
  BY <1>1
<1>4. QED
  BY <1>2, <1>3 DEF NestInv

LEMMA StartNests == BackendInit => NestInv
<1> SUFFICES ASSUME BackendInit PROVE NestInv
  OBVIOUS
<1>1. stage = "writing" /\ open = <<>> /\ python = [ind |-> 0, lines |-> <<>>] /\ js = [ind |-> 0, lines |-> <<>>]
  BY DEF BackendInit, Blank
<1>2. <<>> \in Seq(Lines) /\ Len(<<>>) = 0 /\ IsStream(<<>>)
  <2>1. <<>> \in Seq(Lines)
    OBVIOUS
  <2>2. QED
    BY <2>1 DEF IsStream
<1>3. Depths(<<>>)[0] = 0
  BY <1>2, DepthsAre
<1>4. python.ind = Braces /\ js.ind = Braces
  BY <1>1, <1>2, <1>3 DEF Braces
<1>5. IsText(python) /\ IsText(js) /\ ChainsPlain(open)
  BY <1>1, <1>2 DEF IsText, ChainsPlain
<1> DEFINE ls == python.lines
<1>6. ls = <<>> /\ ls \in Seq(Lines) /\ Len(ls) = 0
  BY <1>1, <1>2
<1>7. DepthOf(ls) = 0 /\ ~HeadOf(ls)
  BY <1>6 DEF DepthOf, HeadOf
<1>8. Reading(ls)[0] = Fresh
  BY <1>6, ReadingIs
<1>9. Stands(Fresh, 0, open) /\ Fresh.ok /\ ~Fresh.head
  <2>1. Fresh.stack = <<0>> /\ Fresh.ok /\ ~Fresh.head
    BY DEF Fresh
  <2>2. Len(<<0>>) = 1 /\ <<0>>[1] = 0 /\ Len(open) = 0
    BY <1>1, <1>2
  <2> HIDE DEF ls
  <2>3. ASSUME NEW k \in 0..0 PROVE Fresh.stack[k + 1] = Depths(open)[k]
    BY <1>1, <1>3, <2>1, <2>2
  <2>4. \A i, j \in 1..0 + 1 : i < j => Fresh.stack[i] < Fresh.stack[j]
    OBVIOUS
  <2>5. QED
    BY <2>1, <2>2, <2>3, <2>4 DEF Stands
<1>10. Followed(ls, open)
  <2>1. Len(open) <= 0
    BY <1>1, <1>2
  <2>2. \A m \in 1..Len(ls) : FALSE
    BY <1>6
  <2> HIDE DEF ls
  <2>3. QED
    BY <1>6, <1>7, <1>8, <1>9, <2>1, <2>2 DEF Followed
<1>11. \A i \in 1..Len(js.lines) : js.lines[i].ind = js.lines[i].depth
  BY <1>1, <1>2
<1>12. QED
  BY <1>1, <1>2, <1>4, <1>5, <1>10, <1>11 DEF NestInv

LEMMA CloseNests == ASSUME NestInv, Close PROVE NestInv'
<1>1. stage = "writing" /\ stage' = stage /\ open # <<>> /\ EndStatement(Last(open))
  <2>1. CASE CloseIf
    BY <2>1 DEF CloseIf, Item
  <2>2. CASE CloseElse
    BY <2>2 DEF CloseElse, Item
  <2>3. CASE CloseLoop
    BY <2>3 DEF CloseLoop, Item
  <2>4. CASE CloseFn
    BY <2>4 DEF CloseFn, Item
  <2>5. QED
    BY <2>1, <2>2, <2>3, <2>4 DEF Close
<1>2. QED
  BY <1>1, EndNests

LEMMA ExpressionNests == ASSUME NestInv, WriteExpression PROVE NestInv'
<1>1. Expression
  <2>1. ASSUME NEW v, Push(v) PROVE Expression
    BY <2>1 DEF Push
  <2>2. ASSUME NEW x, Ident(x) PROVE Expression
    BY <2>2 DEF Ident
  <2>3. ASSUME NEW op, Binary(op) PROVE Expression
    BY <2>3 DEF Binary
  <2>4. (Minus => Expression) /\ (Call => Expression)
    BY DEF Minus, Call
  <2>5. \/ \E v : Push(v)
        \/ \E x : Ident(x)
        \/ \E op : Binary(op)
        \/ Minus \/ Call
    BY Zenon DEF WriteExpression
  <2>6. QED
    BY <2>1, <2>2, <2>3, <2>4, <2>5, Zenon
<1>2. stage = "writing" /\ stage' = stage /\ UNCHANGED <<open, python, js>>
  BY <1>1 DEF Expression, Item
<1>3. QED
  BY <1>2, ApartNests

LEMMA WordNests == ASSUME NestInv, WriteStatement PROVE NestInv'
<1>1. ASSUME NEW x \in Names, BeginLet(x) PROVE NestInv'
  <2>1. stage = "writing" /\ stage' = stage /\ UNCHANGED <<open, python, js>>
    BY <1>1 DEF BeginLet, Item
  <2>2. QED
    BY <2>1, ApartNests
<1>2. CASE Let
  <2>1. stage = "writing" /\ stage' = stage /\ open' = open /\ Statement
    BY <1>2 DEF Let, Item
  <2>2. QED
    BY <2>1, StatementNests
<1>3. ASSUME NEW n \in 0..1, Simple(n) PROVE NestInv'
  <2>1. stage = "writing" /\ stage' = stage /\ open' = open /\ Statement
    BY <1>3 DEF Simple, Item
  <2>2. QED
    BY <2>1, StatementNests
<1>4. Expr => Simple(1)
  BY DEF Expr
<1>5. ASSUME NEW n \in 0..1, ReturnStmt(n) PROVE Simple(n)
  BY <1>5 DEF ReturnStmt
<1>6. CASE Expr
  <2>1. Simple(1) /\ 1 \in 0..1
    BY <1>4, <1>6
  <2>2. QED
    BY <1>3, <2>1
<1>7. ASSUME NEW n \in 0..1, ReturnStmt(n) PROVE NestInv'
  BY <1>3, <1>5, <1>7
<1>8. QED
  BY <1>1, <1>2, <1>6, <1>7, Zenon DEF WriteStatement

LEMMA OpenNests ==
    ASSUME NestInv, Item, NEW o, Open(o), o.k # "elseif"
    PROVE  NestInv'
<1>1. stage = "writing" /\ stage' = stage /\ open' = Append(open, o) /\ Header(o)
  BY DEF Item, Open
<1>2. ~Marker(o)
  BY DEF Marker
<1>3. QED
  BY <1>1, <1>2, HeaderNests

LEMMA ConstructNests == ASSUME NestInv, WriteConstruct PROVE NestInv'
<1>1. ASSUME NEW braced \in BOOLEAN, OpenIf(braced) PROVE NestInv'
  <2> DEFINE o == [Opened("if", braced) EXCEPT !.cond = Top(1)]
  <2>1. o.k = "if" /\ Item /\ Open(o)
    BY <1>1 DEF OpenIf, Opened
  <2> HIDE DEF o
  <2>2. QED
    BY <2>1, OpenNests
<1>2. ASSUME NEW braced \in BOOLEAN, NEW c \in BOOLEAN, OpenWhile(c, braced) PROVE NestInv'
  <2> DEFINE o == [Opened("while", braced) EXCEPT !.at = Len(code) + 1]
  <2>1. o.k = "while" /\ Item /\ Open(o)
    BY <1>2 DEF OpenWhile, Opened
  <2> HIDE DEF o
  <2>2. QED
    BY <2>1, OpenNests
<1>3. ASSUME NEW braced \in BOOLEAN, NEW x \in Names, OpenFor(x, braced) PROVE NestInv'
  <2> DEFINE o == [Opened("for", braced) EXCEPT !.at = Len(code) + 5]
  <2>1. o.k = "for" /\ Item /\ Open(o)
    BY <1>3 DEF OpenFor, Opened
  <2> HIDE DEF o
  <2>2. QED
    BY <2>1, OpenNests
<1>4. ASSUME NEW braced \in BOOLEAN, CloseThen("else", braced) PROVE NestInv'
  BY <1>4, BranchNests
<1>5. QED
  BY <1>1, <1>2, <1>3, <1>4 DEF WriteConstruct

LEMMA FnNests == ASSUME NestInv, OpenFn PROVE NestInv'
<1> DEFINE o == Opened("fn", TRUE)
<1>1. o.k = "fn" /\ Item /\ Open(o)
  BY DEF OpenFn, Opened
<1> HIDE DEF o
<1>2. QED
  BY <1>1, OpenNests

LEMMA StepNests == NestInv /\ [BackendNext]_bvars => NestInv'
<1> SUFFICES ASSUME NestInv, [BackendNext]_bvars PROVE NestInv'
  OBVIOUS
<1>1. stage # "writing" => open = <<>>
  BY DEF NestInv
<1>2. CASE WriteExpression
  BY <1>2, ExpressionNests
<1>3. CASE WriteStatement
  BY <1>3, WordNests
<1>4. CASE WriteConstruct
  BY <1>4, ConstructNests
<1>5. CASE CloseThen("elseif", FALSE)
  BY <1>5, BranchNests
<1>6. CASE OpenFn
  BY <1>6, FnNests
<1>7. CASE Close
  BY <1>7, CloseNests
<1>8. CASE Start
  <2>1. UNCHANGED <<open, python, js>> /\ open = <<>>
    BY <1>8 DEF Start
  <2>2. QED
    BY <2>1, ApartNests
<1>9. CASE Step
  <2>1. UNCHANGED <<open, python, js>> /\ stage = "running"
    BY <1>9 DEF Step, Running
  <2>2. QED
    BY <1>1, <2>1, ApartNests
<1>10. CASE Halt
  <2>1. UNCHANGED <<open, python, js>> /\ stage = "running"
    BY <1>10 DEF Halt
  <2>2. QED
    BY <1>1, <2>1, ApartNests
<1>11. CASE UNCHANGED bvars
  <2>1. UNCHANGED <<open, python, js>> /\ stage' = stage
    BY <1>11 DEF bvars
  <2>2. QED
    BY <1>1, <2>1, ApartNests
<1>12. QED
  BY <1>2, <1>3, <1>4, <1>5, <1>6, <1>7, <1>8, <1>9, <1>10, <1>11 DEF BackendNext

LEMMA NestsThen == NestInv => NestsAsWritten
<1> SUFFICES ASSUME NestInv, stage = "running"
             PROVE  /\ \A i \in DOMAIN js.lines : js.lines[i].ind = js.lines[i].depth
                    /\ js.ind = 0
                    /\ ~EmptyBody => \A n \in DOMAIN python.lines :
                           /\ Reading(python.lines)[n].ok
                           /\ Len(Reading(python.lines)[n].stack) = python.lines[n].depth + 1
  BY DEF NestsAsWritten
<1> DEFINE ls == python.lines
           n == Len(ls)
<1>1. /\ IsText(js) /\ IsText(python) /\ open = <<>> /\ js.ind = Braces /\ Followed(ls, open)
      /\ \A i \in 1..Len(js.lines) : js.lines[i].ind = js.lines[i].depth
  BY DEF NestInv
<1>2. js.ind = 0
  <2>1. IsStream(<<>>) /\ Len(<<>>) = 0
    <3>1. <<>> \in Seq(Lines)
      OBVIOUS
    <3>2. QED
      BY <3>1 DEF IsStream
  <2>2. Depths(<<>>)[0] = 0
    BY <2>1, DepthsAre
  <2>3. QED
    BY <1>1, <2>1, <2>2 DEF Braces
<1>3. DOMAIN js.lines = 1..Len(js.lines)
  BY <1>1, LenProperties DEF IsText
<1>4. n \in Nat /\ DOMAIN ls = 1..n /\ \A i \in 1..n : ls[i] \in Lines
  BY <1>1, LenProperties DEF IsText
<1> HIDE DEF ls
<1>5. ASSUME ~EmptyBody PROVE Full(ls)
  <2>1. ASSUME NEW i \in 1..n - 1, ls[i].head PROVE ls[i].depth < ls[i + 1].depth
    <3>1. i \in 1..n /\ i + 1 \in 1..n /\ i # n
      <4>1. n \in Nat
        BY <1>4
      <4> HIDE DEF n
      <4>2. QED
        BY <4>1
    <3>2. ls[i].depth \in Nat /\ ls[i + 1].depth \in Nat
      BY <1>4, <3>1 DEF Lines
    <3>3. ~(ls[i + 1].depth <= ls[i].depth)
      BY <1>4, <1>5, <2>1, <3>1 DEF EmptyBody, ls
    <3>4. QED
      BY <3>2, <3>3
  <2>2. QED
    BY <2>1 DEF Full
<1>6. ASSUME ~EmptyBody, NEW m \in DOMAIN ls
      PROVE  Reading(ls)[m].ok /\ Len(Reading(ls)[m].stack) = ls[m].depth + 1
  BY <1>1, <1>4, <1>5, <1>6 DEF Followed
<1>7. QED
  BY <1>1, <1>2, <1>3, <1>6 DEF ls

\* NestsAsWritten of every program: the braces and indentations written
\* (JavaScript's emitBlock and Python's indent_) open and close with the
\* constructs, and where no body is empty Python reads every line as deep as
\* it was meant.
THEOREM NestsAlike == BackendSpec => []NestsAsWritten
<1>1. BackendInit => NestInv
  BY StartNests
<1>2. NestInv /\ [BackendNext]_bvars => NestInv'
  BY StepNests
<1>3. NestInv => NestsAsWritten
  BY NestsThen
<1>4. QED
  BY <1>1, <1>2, <1>3, PTL DEF BackendSpec
=============================================================================
