------------------------------- MODULE Watch -------------------------------
(***************************************************************************)
(* tools/ec-watch.js: rebuilds and runs the smoke tests when a source      *)
(* changes.  Building and testing are synchronous calls, so that nothing   *)
(* else happens in the watcher meanwhile: events and the timer wait.       *)
(***************************************************************************)
EXTENDS Integers

CONSTANTS MaxEdits   \* bound

VARIABLES version,   \* of the sources that are watched
          good,      \* does this version compile?
          events,    \* changes the watcher has not been told of
          armed,     \* build._t
          phase,     \* what the watcher is busy with
          tried,     \* version the last build read
          binary,    \* version of the binary
          tested     \* version the last smoke run saw

watchVars == <<version, good, events, armed, phase, tried, binary, tested>>

\* the smoke tests run once before anything changes
WatchInit == /\ version = 0 /\ good = TRUE
             /\ events = 0 /\ armed = FALSE
             /\ phase = "smoke"
             /\ tried = 0 /\ binary = 0 /\ tested = -1

Edit == /\ version < MaxEdits
        /\ version' = version + 1
        /\ good' \in BOOLEAN
        /\ events' = events + 1
        /\ UNCHANGED <<armed, phase, tried, binary, tested>>

\* an event per change, or one for several
Bug_Notice == /\ phase = "idle" /\ events > 0
              /\ events' \in 0..events - 1
              /\ armed' = ~armed
              /\ UNCHANGED <<version, good, phase, tried, binary, tested>>
Notice == /\ phase = "idle" /\ events > 0
          /\ events' \in 0..events - 1
          /\ armed' = TRUE
          /\ UNCHANGED <<version, good, phase, tried, binary, tested>>

\* 400 ms without a change
Build == /\ phase = "idle" /\ armed
         /\ armed' = FALSE
         /\ phase' = "building"
         /\ UNCHANGED <<version, good, events, tried, binary, tested>>

Compile == /\ phase = "building"
           /\ tried' = version
           /\ IF good THEN phase' = "smoke" /\ binary' = version
              ELSE phase' = "idle" /\ UNCHANGED binary
           /\ UNCHANGED <<version, good, events, armed, tested>>

\* passed or failed, or stopped after five minutes
RunSmoke == /\ phase = "smoke"
            /\ phase' = "idle"
            /\ tested' = binary
            /\ UNCHANGED <<version, good, events, armed, tried, binary>>

WatchNext == Edit \/ Notice \/ Build \/ Compile \/ RunSmoke

WatchSpec == WatchInit /\ [][WatchNext]_watchVars

\* However edits fall between events, timer, build and tests: what was saved last
\* has been tried, and tested if it compiles.
UpToDate == tried = version /\ (good => tested = version)

\* Nothing is under way, and no change is waiting to be noticed.
AtRest == phase = "idle" /\ events = 0 /\ ~armed
=============================================================================
