----------------------------- MODULE SoftTimer -----------------------------
(***************************************************************************)
(* The software timers of std/embedded/timer: a vector of timers that the  *)
(* program fills, stops and clears, and tick(), called from its main loop, *)
(* which runs the callbacks that are due.  Callbacks are program code and  *)
(* may call the module again while tick() is in the middle of its loop     *)
(* over the vector.                                                        *)
(*                                                                         *)
(* The vector is modelled down to its buffer, because that is what the     *)
(* loop holds on to: clear() leaves the destroyed timers where they are,   *)
(* and a push_back beyond the capacity moves the others to a new buffer.   *)
(* Time is the age of a timer, the milliseconds since its lastFired.       *)
(***************************************************************************)
EXTENDS Integers, Sequences

CONSTANTS
    Periods,      \* the periods timers are made with, in ms
    MaxPeriod,    \* the longest of them
    MaxTick,      \* bound: ms that pass during one tick()
    MaxTimers     \* bound: timers made in all

ASSUME BoundsAssumption ==
    /\ Periods \subseteq 0..MaxPeriod
    /\ MaxPeriod \in Nat
    /\ MaxTick \in Nat
    /\ MaxTimers \in Nat

\* From this age on every timer is due, however old it is.
MaxAge == MaxPeriod + MaxTick + 1

VARIABLES
    buffer,    \* the buffer of the vector, destroyed timers included
    size,      \* the timers that are in the vector
    capacity,  \* the timers the buffer has room for
    nextId,
    loop,      \* tick(): where it is, and what it took from the vector
    made,      \* history: the timers made so far
    fires,     \* history: how often each was called, 2 for more than once
    dropped,   \* history: those stopped or cleared
    called     \* history: what callbacks have called, "add", "stop", "clear"

vars == <<buffer, size, capacity, nextId, loop, made, fires, dropped, called>>

Serials == 1..MaxTimers

Timer == [id : Nat, period : Periods, periodic : BOOLEAN, age : 0..MaxAge,
          running : BOOLEAN, serial : Serials]

\* pc: between ticks, before the timer at `at`, in its callback, or aborted.
\* since: the age of `now`; detached: the buffer was freed under the loop.
Loop == [pc : {"idle", "loop", "callback", "aborted"}, at : Nat, end : Nat,
         since : 0..MaxTick, detached : BOOLEAN]

TypeOK ==
    /\ buffer \in Seq(Timer)
    /\ size \in 0..Len(buffer)
    /\ capacity \in Nat
    /\ Len(buffer) <= capacity
    /\ nextId \in Nat
    /\ loop \in Loop
    /\ loop.pc \in {"loop", "callback"} /\ ~loop.detached => loop.end <= Len(buffer)
    /\ loop.pc \in {"loop", "callback"} => loop.at \in 1..(loop.end + 1)
    /\ loop.pc = "callback" => loop.at <= loop.end
    /\ made \in 0..MaxTimers
    /\ fires \in [Serials -> 0..2]
    /\ dropped \in SUBSET Serials
    /\ called \in SUBSET {"add", "stop", "clear"}

NoLoop == [pc |-> "idle", at |-> 0, end |-> 0, since |-> 0, detached |-> FALSE]

Init ==
    /\ buffer = <<>>
    /\ size = 0
    /\ capacity = 0
    /\ nextId = 0
    /\ loop = NoLoop
    /\ made = 0
    /\ fires = [s \in Serials |-> 0]
    /\ dropped = {}
    /\ called = {}

-----------------------------------------------------------------------------
(* What the program calls, between ticks or from a callback.                *)

Calls(op) ==
    \/ loop.pc = "idle" /\ UNCHANGED called
    \/ loop.pc = "callback" /\ called' = called \cup {op}

NewTimer(period, periodic) ==
    [id |-> nextId, period |-> period, periodic |-> periodic, age |-> 0,
     running |-> TRUE, serial |-> made + 1]

\* push_back: with room to spare in place, else into a buffer of twice the size.
PushBack(t) ==
    /\ size' = size + 1
    /\ IF size < capacity
       THEN /\ buffer' = IF size < Len(buffer) THEN [buffer EXCEPT ![size + 1] = t]
                                               ELSE Append(buffer, t)
            /\ UNCHANGED <<capacity, loop>>
       ELSE /\ buffer' = Append(SubSeq(buffer, 1, size), t)
            /\ capacity' = IF capacity = 0 THEN 1 ELSE 2 * capacity
            /\ loop' = [loop EXCEPT !.detached = (loop.pc = "callback")]

\* Seeded fault: the id is not taken.
Bug_Add(period, periodic) ==
    /\ Calls("add")
    /\ made < MaxTimers
    /\ PushBack(NewTimer(period, periodic))
    /\ nextId' = IF periodic THEN nextId ELSE nextId + 1
    /\ made' = made + 1
    /\ UNCHANGED <<fires, dropped>>

\* every(period, callback) and once(period, callback).
Add(period, periodic) ==
    /\ Calls("add")
    /\ made < MaxTimers
    /\ PushBack(NewTimer(period, periodic))
    /\ nextId' = nextId + 1
    /\ made' = made + 1
    /\ UNCHANGED <<fires, dropped>>

\* find_if: the first timer of the vector with that id.
FirstWith(id) ==
    CHOOSE i \in 1..size : buffer[i].id = id /\ \A j \in 1..(i - 1) : buffer[j].id # id

\* stop(id) of a timer that is there; of any other it does nothing.
Stop(id) ==
    /\ Calls("stop")
    /\ \E i \in 1..size : buffer[i].id = id
    /\ buffer' = [buffer EXCEPT ![FirstWith(id)].running = FALSE]
    /\ dropped' = dropped \cup {buffer[FirstWith(id)].serial}
    /\ UNCHANGED <<size, capacity, nextId, loop, made, fires>>

ClearAll ==
    /\ Calls("clear")
    /\ size > 0
    /\ size' = 0
    /\ nextId' = 0
    /\ dropped' = dropped \cup {buffer[i].serial : i \in 1..size}
    /\ UNCHANGED <<buffer, capacity, loop, made, fires>>

-----------------------------------------------------------------------------
(* tick()                                                                   *)

\* Seeded fault: <= for <, the loop takes one timer too many.
Bug_TickStart ==
    /\ loop.pc = "idle"
    /\ loop' = [NoLoop EXCEPT !.pc = "loop", !.at = 1, !.end = size + 1]
    /\ UNCHANGED <<buffer, size, capacity, nextId, made, fires, dropped, called>>

TickStart ==
    /\ loop.pc = "idle"
    /\ loop' = [NoLoop EXCEPT !.pc = "loop", !.at = 1, !.end = size]
    /\ UNCHANGED <<buffer, size, capacity, nextId, made, fires, dropped, called>>

\* The loop is at a timer, in the vector or one that clear() has destroyed.
AtTimer == loop.pc = "loop" /\ loop.at <= loop.end

\* Seeded fault: stopped timers are not passed over.
Bug_Due(t) == t.age < loop.since \/ t.age - loop.since >= t.period

\* now - lastFired >= period, unsigned: a timer younger than `now` is due.
Due(t) ==
    t.running /\ (t.age < loop.since \/ t.age - loop.since >= t.period)

\* Seeded fault: break for continue, a stopped timer ends the loop.
Bug_Skip ==
    /\ AtTimer
    /\ ~Due(buffer[loop.at])
    /\ loop' = [loop EXCEPT !.at = IF buffer[loop.at].running THEN @ + 1 ELSE loop.end + 1]
    /\ UNCHANGED <<buffer, size, capacity, nextId, made, fires, dropped, called>>

Skip ==
    /\ AtTimer
    /\ ~Due(buffer[loop.at])
    /\ loop' = [loop EXCEPT !.at = @ + 1]
    /\ UNCHANGED <<buffer, size, capacity, nextId, made, fires, dropped, called>>

\* The callback is called.  That of a destroyed timer may still work ...
Fire ==
    /\ AtTimer
    /\ Due(buffer[loop.at])
    /\ loop' = [loop EXCEPT !.pc = "callback"]
    /\ fires' = [fires EXCEPT ![buffer[loop.at].serial] = IF @ = 0 THEN 1 ELSE 2]
    /\ UNCHANGED <<buffer, size, capacity, nextId, made, dropped, called>>

\* ... or not, and may have lost its closure while it runs.
UseDestroyed ==
    /\ loop.pc = "callback" \/ (AtTimer /\ Due(buffer[loop.at]))
    /\ ~loop.detached
    /\ loop.at > size
    /\ loop' = [loop EXCEPT !.pc = "aborted"]
    /\ UNCHANGED <<buffer, size, capacity, nextId, made, fires, dropped, called>>

\* After a callback: lastFired = now, and a one-shot timer is done.
Fired(t) == [t EXCEPT !.age = loop.since, !.running = t.running /\ t.periodic]

\* Seeded fault: one-shot timers stay.
Bug_CallbackReturns ==
    /\ loop.pc = "callback"
    /\ ~loop.detached
    /\ buffer' = [buffer EXCEPT ![loop.at].age = loop.since]
    /\ loop' = [loop EXCEPT !.pc = "loop", !.at = @ + 1]
    /\ UNCHANGED <<size, capacity, nextId, made, fires, dropped, called>>

CallbackReturns ==
    /\ loop.pc = "callback"
    /\ ~loop.detached
    /\ buffer' = [buffer EXCEPT ![loop.at] = Fired(@)]
    /\ loop' = [loop EXCEPT !.pc = "loop", !.at = @ + 1]
    /\ UNCHANGED <<size, capacity, nextId, made, fires, dropped, called>>

\* The same after the timers were moved: what it writes goes into the freed
\* buffer, whose callbacks are empty.  The first that seems due throws.
CallbackReturnsDetached ==
    /\ loop.pc = "callback"
    /\ loop.detached
    /\ \/ loop' = NoLoop
       \/ loop.at < loop.end /\ loop' = [loop EXCEPT !.pc = "aborted"]
    /\ UNCHANGED <<buffer, size, capacity, nextId, made, fires, dropped, called>>

TickEnd ==
    /\ loop.pc = "loop"
    /\ loop.at > loop.end
    /\ loop' = NoLoop
    /\ UNCHANGED <<buffer, size, capacity, nextId, made, fires, dropped, called>>

Tick ==
    \/ TickStart
    \/ Skip
    \/ Fire
    \/ UseDestroyed
    \/ CallbackReturns
    \/ CallbackReturnsDetached
    \/ TickEnd

\* A millisecond passes.
Older(t) == [t EXCEPT !.age = IF t.age < MaxAge THEN t.age + 1 ELSE t.age]

Elapse ==
    /\ loop.pc # "aborted"
    /\ loop.pc # "idle" => loop.since < MaxTick
    /\ buffer' = [i \in DOMAIN buffer |-> Older(buffer[i])]
    /\ loop' = IF loop.pc = "idle" THEN loop ELSE [loop EXCEPT !.since = @ + 1]
    /\ UNCHANGED <<size, capacity, nextId, made, fires, dropped, called>>

Next ==
    \/ \E period \in Periods, periodic \in BOOLEAN : Add(period, periodic)
    \/ \E id \in 0..MaxTimers : Stop(id)
    \/ ClearAll
    \/ Tick
    \/ Elapse

Spec == Init /\ [][Next]_vars

\* The main loop calls tick() again and again, callbacks return, time passes.
FairSpec == Spec /\ WF_vars(Tick) /\ WF_vars(Elapse)

-----------------------------------------------------------------------------
(* Properties.                                                              *)

\* An id names at most one timer of the vector, so that stop(), isRunning()
\* and remaining(), which take the first match, mean the timer they were
\* given: whatever is cleared and made anew, from callbacks too.
IdsUnique ==
    /\ \A i \in 1..size : buffer[i].id < nextId
    /\ \A i, j \in 1..size : buffer[i].id = buffer[j].id => i = j

\* timer.h: once() makes "a one-shot timer": its callback is called once, as
\* long as no callback has made a timer (then the vector may have moved, and
\* what tick() writes into the old one is lost).
OneShotOnce ==
    "add" \notin called =>
        \A i \in 1..size : ~buffer[i].periodic => fires[buffer[i].serial] <= 1

\* timer.h, of stop() and clearAll(): no callback is called of a timer that
\* was stopped or cleared before, be it by another callback of the same tick,
\* and although callbacks make timers; as long as no callback has cleared them
\* (tick() does go on into timers that clearAll() destroyed).
DroppedIsSilent ==
    [][loop.pc = "loop" /\ loop'.pc = "callback" /\ "clear" \notin called
        => buffer[loop.at].serial \notin dropped]_vars

\* A timer that is not stopped or cleared is called at last, a periodic one
\* again after each time, whatever timers the others' callbacks stop, unless
\* callbacks make or clear timers.
Called(s) == loop.pc = "callback" /\ buffer[loop.at].serial = s

Awaited(s) ==
    /\ \E i \in 1..size :
          buffer[i].serial = s /\ (buffer[i].periodic \/ fires[s] = 0)
    /\ ~Called(s)

TimersFire ==
    \A s \in Serials :
        Awaited(s) ~> Called(s) \/ s \in dropped \/ called \cap {"add", "clear"} # {}
=============================================================================
