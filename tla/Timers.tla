------------------------------- MODULE Timers -------------------------------
(***************************************************************************)
(* The one-shot timers of kernel/src/time/timer.c: a list in which each    *)
(* timer has the time left behind the one ahead of it.  Its users are      *)
(* msleep(), the beeper, ARP and TCP.  timer_create() takes an object from *)
(* the cache and fills it before it takes timer_lock; time_tick() holds    *)
(* the lock, gives each object it has fired back to the cache and unlinks  *)
(* them all at the end.  A processor takes no other step while it ticks.   *)
(***************************************************************************)
EXTENDS Sums, FiniteSets

CONSTANTS MaxTimers,   \* bound on the calls of timer_create()
          MaxMillis,   \* bound on the period of a timer
          MaxTime,     \* bound on uptime()
          MaxProcs     \* bound on the number of processors

ASSUME TimersAssumption ==
    /\ MaxTimers \in Nat /\ MaxMillis \in Nat /\ MaxTime \in Nat
    /\ MaxProcs \in Nat \ {0}

VARIABLES
    timer,          \* the objects of timer_cache: [call, delta], in use or not
    unused,         \* the free list of the cache, the next to be handed out first
    active_timers,  \* the list, a sequence of objects
    clock,          \* uptime()
    last_now,
    tick,           \* time_tick(): whether it runs and where, the time it still
                    \* has to take off and the place it has reached in the list
    procs,          \* the number of processors
    creating,       \* the object of the call of timer_create() on a processor
    relinked,       \* an object was added to the list that it is in
    calls,          \* history: the calls of timer_create() in the order in which
                    \* they have listed their timers: the period, the last tick
                    \* before, and whether it was due after all the others
    fired,          \* history: how often the callback of a call ran
    reused          \* history: an object was handed out while it was listed

timerVars == <<timer, unused, active_timers, clock, last_now, tick, procs, creating,
               relinked, calls, fired, reused>>

Call == 1 .. MaxTimers
Object == 1 .. MaxTimers
NoObject == 0
NoTick == [on |-> 0, left |-> 0, at |-> 0]
Listed(o) == \E i \in DOMAIN active_timers : active_timers[i] = o

TimersTypeOK ==
    /\ timer \in [Object -> [call : 0 .. MaxTimers, delta : 0 .. MaxMillis]]
    /\ unused \in Seq(Object)
    /\ active_timers \in Seq(Object)
    /\ last_now \in 0 .. clock
    /\ tick.on \in 0 .. procs
    /\ creating \in [1 .. MaxProcs -> Object \cup {NoObject}]

TimersInit ==
    /\ timer = [o \in Object |-> [call |-> 0, delta |-> 0]]
    /\ unused = [i \in Object |-> i]
    /\ active_timers = <<>>
    /\ clock = 0 /\ last_now = 0
    /\ tick = NoTick
    /\ procs \in 1 .. MaxProcs
    /\ creating = [c \in 1 .. MaxProcs |-> NoObject]
    /\ relinked = FALSE
    /\ calls = <<>>
    /\ fired = [n \in Call |-> 0]
    /\ reused = FALSE
-----------------------------------------------------------------------------
\* The time until the first n timers of the list have fired.
Elapsed(n) == Sums([i \in DOMAIN active_timers |-> timer[active_timers[i]].delta])[n]

Insert(list, n, e) ==
    [i \in 1 .. Len(list) + 1 |->
        IF i < n THEN list[i] ELSE IF i = n THEN e ELSE list[i - 1]]

\* Where timer_create() puts a timer: before the first that it fires ahead of.
Before(millis) ==
    {n \in DOMAIN active_timers :
        \/ millis = Elapsed(n - 1)
        \/ millis < Elapsed(n)}

First(places) == CHOOSE n \in places : \A m \in places : n <= m

\* The beginning of timer_create(): cache_alloc(), and the fields are filled.
timer_alloc(c, millis) ==
    /\ c <= procs /\ c # tick.on
    /\ creating[c] = NoObject
    /\ Len(calls) + Cardinality({d \in 1 .. procs : creating[d] # NoObject}) < MaxTimers
    /\ \E o \in {Head(unused)} :
          /\ unused' = Tail(unused)
          /\ timer' = [timer EXCEPT ![o] = [call |-> 0, delta |-> millis]]
          /\ creating' = [creating EXCEPT ![c] = o]
          /\ reused' = (reused \/ Listed(o))
    /\ UNCHANGED <<active_timers, clock, last_now, tick, procs, relinked, calls, fired>>

\* Mutant: a timer that is due after all the others is left out.
PlaceShort(o, n) ==
    LET millis == timer[o].delta
        at == First(Before(millis))
        left == millis - Elapsed(at - 1)
    IN  IF active_timers = <<>>
        THEN active_timers' = <<o>> /\ timer' = [timer EXCEPT ![o].call = n]
        ELSE IF Before(millis) # {}
        THEN /\ active_timers' = Insert(active_timers, at, o)
             /\ timer' = [timer EXCEPT ![o] = [call |-> n, delta |-> left],
                                       ![active_timers[at]].delta = @ - left]
        ELSE UNCHANGED <<timer, active_timers>>

\* The timer of the n-th call is listed before the first that it fires ahead of;
\* one that is due after all the others goes before the last.
Place(o, n) ==
    LET millis == timer[o].delta
        at == First(Before(millis))
        left == millis - Elapsed(at - 1)
        last == Len(active_timers)
    IN  IF active_timers = <<>>
        THEN active_timers' = <<o>> /\ timer' = [timer EXCEPT ![o].call = n]
        ELSE IF Before(millis) # {}
        THEN /\ active_timers' = Insert(active_timers, at, o)
             /\ timer' = [timer EXCEPT ![o] = [call |-> n, delta |-> left],
                                       ![active_timers[at]].delta = @ - left]
        ELSE /\ active_timers' = Insert(active_timers, last, o)
             /\ timer' = [timer EXCEPT ![o] = [call |-> n, delta |-> millis - Elapsed(last)]]

\* The rest of timer_create(), under timer_lock.
timer_insert(c) ==
    /\ c <= procs
    /\ tick.on = 0
    /\ creating[c] # NoObject
    /\ creating' = [creating EXCEPT ![c] = NoObject]
    /\ \E o \in {creating[c]} :
          IF Listed(o)
          THEN relinked' = TRUE /\ UNCHANGED <<timer, active_timers, calls>>
          ELSE /\ Place(o, Len(calls) + 1)
               /\ calls' = Append(calls,
                     [millis |-> timer[o].delta, from |-> last_now,
                      tail |-> active_timers # <<>> /\ Before(timer[o].delta) = {}])
               /\ UNCHANGED relinked
    /\ UNCHANGED <<unused, clock, last_now, tick, procs, fired, reused>>
-----------------------------------------------------------------------------
\* The clock runs, and at some point its event source interrupts.  A tick reads
\* it once, at its beginning.
Advance ==
    /\ tick.on = 0
    /\ clock < MaxTime
    /\ clock' = clock + 1
    /\ UNCHANGED <<timer, unused, active_timers, last_now, tick, procs, creating,
                   relinked, calls, fired, reused>>

\* time_tick(), a listener of handle_clock_event(), which holds a lock of its own.
time_tick(c) ==
    /\ c <= procs
    /\ tick.on = 0
    /\ last_now' = clock
    /\ tick' = [on |-> c, left |-> clock - last_now, at |-> 1]
    /\ UNCHANGED <<timer, unused, active_timers, clock, procs, creating, relinked,
                   calls, fired, reused>>

\* A turn of the first loop: the time is taken off the timer; if none is left the
\* callback runs and the object goes back to the cache.
tick_fire ==
    /\ tick.at \in DOMAIN active_timers
    /\ \E o \in {active_timers[tick.at]} :
       \E d \in {timer[o].delta} :
       \E diff \in {IF d < tick.left THEN d ELSE tick.left} :
          /\ timer' = [timer EXCEPT ![o].delta = @ - diff]
          /\ IF diff < d
             THEN tick' = [tick EXCEPT !.at = Len(active_timers) + 1] /\ UNCHANGED <<fired, unused>>
             ELSE /\ tick' = [tick EXCEPT !.left = @ - diff, !.at = @ + 1]
                  /\ fired' = [n \in Call |-> fired[n] + IF n = timer[o].call THEN 1 ELSE 0]
                  /\ unused' = <<o>> \o unused
    /\ UNCHANGED <<active_timers, clock, last_now, procs, creating, relinked, calls, reused>>

\* A turn of the second loop, and the end of the tick.
tick_unlink ==
    /\ tick.on # 0
    /\ tick.at > Len(active_timers)
    /\ IF active_timers # <<>> /\ timer[active_timers[1]].delta = 0
       THEN active_timers' = Tail(active_timers) /\ UNCHANGED tick
       ELSE tick' = NoTick /\ UNCHANGED active_timers
    /\ UNCHANGED <<timer, unused, clock, last_now, procs, creating, relinked, calls,
                   fired, reused>>

\* What becomes of a list that an object was added to twice is not followed.
TimersNext ==
    /\ ~relinked
    /\ \/ \E c \in 1 .. MaxProcs :
             \/ \E millis \in 0 .. MaxMillis : timer_alloc(c, millis)
             \/ timer_insert(c)
             \/ time_tick(c)
       \/ tick_fire
       \/ tick_unlink
       \/ Advance

TimersSpec == TimersInit /\ [][TimersNext]_timerVars
-----------------------------------------------------------------------------
\* The periods of call n and of those after it, all together.
Periods(n) ==
    LET sums == Sums([i \in DOMAIN calls |-> calls[i].millis])
    IN  sums[Len(calls)] - sums[n - 1]

\* The places of the timer of call n in the list, the one it is freed at excepted.
Places(n) ==
    {i \in DOMAIN active_timers :
        /\ timer[active_timers[i]].call = n
        /\ \A j \in DOMAIN unused : unused[j] # active_timers[i]}

\* On one processor no object is handed out while it is listed; on several, one
\* that a tick has freed and not yet unlinked may be.  As long as none was, every
\* timer is in one place or has fired once, wherever timer_create() put it and
\* however later timers moved it, and between ticks: a timer is due when its
\* period has passed since the tick before it was listed, if since then, itself
\* included, none was listed that was due after all the others; if one was, which
\* goes before the last, the timer is due no later than after its period and the
\* periods of the calls after it.
TimersKept ==
    /\ procs = 1 => ~reused
    /\ ~reused => \A n \in DOMAIN calls :
          /\ Cardinality(Places(n)) + fired[n] = 1
          /\ tick.on = 0 => \A i \in Places(n) :
                /\ (\A m \in n .. Len(calls) : ~calls[m].tail)
                      => last_now + Elapsed(i) = calls[n].from + calls[n].millis
                /\ last_now + Elapsed(i) <= calls[n].from + Periods(n)
=============================================================================
