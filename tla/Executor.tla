------------------------------ MODULE Executor ------------------------------
(***************************************************************************)
(* The executor of OpenMRN: its loop (executor/Executor.cxx), the select   *)
(* call that other threads can interrupt (os/OSSelectWakeup.hxx, the       *)
(* pselect build) and the timers (executor/Timer.cxx, Timer.hxx).          *)
(*                                                                         *)
(* One thread runs the loop.  It takes executables from a queue with       *)
(* priority bands; when the queue is empty, or after                       *)
(* executor_select_prescaler executables, it looks for expired timers and  *)
(* for file descriptors that are ready, and sleeps in pselect() when it    *)
(* finds nothing to do.  Other threads add executables and start timers at *)
(* any time.  Everything that only the executor's thread can see between   *)
(* two accesses to shared state is one step.                               *)
(***************************************************************************)
EXTENDS Integers, Sequences, FiniteSets, FiniteSetsExt

CONSTANTS
    NULL,
    EXECUTOR,       \* the executor's own thread, as the owner of a lock
    Threads,        \* other threads; each owns one executable, named alike
    Timers,
    Selectables,    \* each wakes an executable, named alike
    Fd,             \* the file descriptor of each Selectable
    Priority,       \* the priority each executable is added with
    Period,         \* the period each timer is started with
    NUM_PRIO,       \* the number of priority bands
    executor_select_prescaler,
    executor_max_sleep,
    MaxTime         \* bound: the clock stops here

\* The executable of ActiveTimers, and the exit closure of shutdown().
Own == {"active_timers", "exit"}
Executables == Threads \cup Timers \cup Selectables \cup Own
Bands == 0..(NUM_PRIO - 1)

ASSUME ExecutorAssumption ==
    /\ NUM_PRIO \in Nat \ {0}
    /\ executor_select_prescaler \in Nat
    /\ executor_max_sleep \in Nat
    /\ MaxTime \in Nat
    /\ Fd \in [Selectables -> Nat]
    /\ Priority \in [Executables -> Nat]
    /\ Period \in [Timers -> Nat]
    /\ NULL \notin Executables /\ EXECUTOR \notin Threads /\ EXECUTOR # NULL
    /\ "active_timers" \notin Threads \cup Timers \cup Selectables
    /\ "exit" \notin Threads \cup Timers \cup Selectables
    /\ Threads \cap Timers = {} /\ Threads \cap Selectables = {}
    /\ Timers \cap Selectables = {}

VARIABLES
    queue,          \* queue_: a FIFO per band
    pc,             \* where the executor's thread is
    current,        \* current_
    prescaler,      \* selectPrescaler_
    wait,           \* wait_length
    asof,           \* the time get_next_timeout() read
    found_timer,
    deadline,       \* when the pselect() in progress times out
    fired,          \* the Selectables the last pselect() found ready
    selectables,    \* selectables_, and with it the fd_sets
    selectNFds,
    readable,       \* the Selectables whose descriptor is ready
    pendingWakeup, inSelect,
    signal,         \* WAKEUP_SIG is pending for the executor's thread
    now,            \* OSTime::get_monotonic()
    active,         \* activeTimers_: sorted by expiration time
    when, isActive, isExpired,
    isPending,      \* ActiveTimers is in the queue
    lock,           \* who holds ActiveTimers::lock_
    call            \* how far the call of each thread has come

locals == <<wait, asof, found_timer, deadline, fired>>
loop == <<pc, current, prescaler, locals>>
files == <<selectables, selectNFds, readable>>
wake == <<pendingWakeup, inSelect, signal>>
timers == <<active, when, isActive, isExpired, isPending>>
vars == <<queue, loop, files, wake, now, timers, lock, call>>

-----------------------------------------------------------------------------
Band(e) == IF Priority[e] >= NUM_PRIO THEN NUM_PRIO - 1 ELSE Priority[e]

Queued(e) == \E b \in Bands : \E i \in DOMAIN queue[b] : queue[b][i] = e

Empty == \A b \in Bands : queue[b] = <<>>

\* Neither in the queue nor running.
Free(e) == ~Queued(e) /\ current # e

Inserted(q, e) == [q EXCEPT ![Band(e)] = Append(@, e)]

Watched(s) == \E i \in DOMAIN selectables : selectables[i] = s

\* How many timers of list l the walks over it pass: they stop at the first
\* one that expires after time w.
Passed(l, w) ==
    CHOOSE n \in 0..Len(l) :
        /\ \A i \in 1..n : when[l[i]] <= w
        /\ n < Len(l) => when[l[n + 1]] > w

\* List l without member t: remove_locked(), and the erase() of selectables_.
Unlisted(l, t) ==
    IF \E i \in 1..Len(l) : l[i] = t
    THEN LET i == CHOOSE i \in 1..Len(l) : l[i] = t
         IN  SubSeq(l, 1, i - 1) \o SubSeq(l, i + 1, Len(l))
    ELSE l

\* add() from the executor's own thread, where no select is in progress.
AddHere(e) ==
    /\ queue' = Inserted(queue, e)
    /\ pendingWakeup' = TRUE

Init ==
    /\ queue = [b \in Bands |-> <<>>]
    /\ pc = "next" /\ current = NULL
    /\ prescaler = 0 /\ wait = 0 /\ asof = 0 /\ found_timer = FALSE
    /\ deadline = 0 /\ fired = {}
    /\ selectables = <<>> /\ selectNFds = 0 /\ readable = {}
    /\ pendingWakeup = FALSE /\ inSelect = FALSE /\ signal = FALSE
    /\ now = 1
    /\ active = <<>> /\ when = [t \in Timers |-> 0]
    /\ isActive = [t \in Timers |-> FALSE]
    /\ isExpired = [t \in Timers |-> FALSE]
    /\ isPending = FALSE
    /\ lock = NULL
    /\ call = [p \in Threads |-> "none"]

-----------------------------------------------------------------------------
(* The loop of entry(), with wait_with_select() and the select of          *)
(* OSSelectWakeup.                                                         *)

\* A queue that hands out the newest executable of a band.
Take_newest ==
    LET b == Min({c \in Bands : queue[c] # <<>>})
    IN  /\ current' = queue[b][Len(queue[b])]
        /\ queue' = [queue EXCEPT ![b] = SubSeq(@, 1, Len(@) - 1)]
        /\ pc' = IF current' = "exit" THEN "done" ELSE "run"

\* QList::next() takes the first executable of the first band that has one.
\* The exit closure ends the loop.
Take ==
    LET b == Min({c \in Bands : queue[c] # <<>>})
    IN  /\ current' = Head(queue[b])
        /\ queue' = [queue EXCEPT ![b] = Tail(@)]
        /\ pc' = IF current' = "exit" THEN "done" ELSE "run"

\* A loop that does not count down the prescaler.
next_uncounted ==
    /\ pc = "next"
    /\ IF prescaler = 0 \/ Empty
       THEN pc' = "timeout" /\ UNCHANGED <<queue, current>>
       ELSE Take
    /\ UNCHANGED <<prescaler, locals, files, wake, now, timers, lock, call>>

next ==
    /\ pc = "next"
    /\ IF prescaler = 0 \/ Empty
       THEN /\ pc' = "timeout"
            /\ UNCHANGED <<queue, current, prescaler>>
       ELSE /\ Take
            /\ prescaler' = prescaler - 1
    /\ UNCHANGED <<locals, files, wake, now, timers, lock, call>>

\* get_next_timeout() takes the lock and reads the time,
lock_timers ==
    /\ pc = "timeout"
    /\ lock = NULL
    /\ lock' = EXECUTOR
    /\ asof' = now
    /\ found_timer' = FALSE
    /\ pc' = "expire"
    /\ UNCHANGED <<queue, current, prescaler, wait, deadline, fired, files,
                   wake, now, timers, call>>

\* moves the expired timers to the queue one by one,
expire(t) ==
    /\ pc = "expire"
    /\ active # <<>> /\ t = Head(active) /\ when[t] <= asof
    /\ found_timer' = TRUE
    /\ active' = Tail(active)
    /\ isActive' = [isActive EXCEPT ![t] = FALSE]
    /\ isExpired' = [isExpired EXCEPT ![t] = TRUE]
    /\ AddHere(t)
    /\ UNCHANGED <<pc, current, prescaler, wait, asof, deadline, fired, files,
                   inSelect, signal, now, when, isPending, lock, call>>

\* and tells how long to sleep.
get_next_timeout ==
    /\ pc = "expire"
    /\ active # <<>> => when[Head(active)] > asof
    /\ wait' = IF found_timer THEN 0
               ELSE IF active # <<>> THEN when[Head(active)] - asof
               ELSE executor_max_sleep
    /\ lock' = NULL
    /\ pc' = "clear"
    /\ UNCHANGED <<queue, current, prescaler, asof, found_timer, deadline,
                   fired, files, wake, now, timers, call>>

clear_wakeup ==
    /\ pc = "clear"
    /\ pendingWakeup' = FALSE
    /\ pc' = "check"
    /\ UNCHANGED <<queue, current, prescaler, locals, files, inSelect, signal,
                   now, timers, lock, call>>

check_empty ==
    /\ pc = "check"
    /\ wait' = IF ~Empty THEN 0
               ELSE IF wait > executor_max_sleep THEN executor_max_sleep
               ELSE wait
    /\ pc' = "enter"
    /\ UNCHANGED <<queue, current, prescaler, asof, found_timer, deadline,
                   fired, files, wake, now, timers, lock, call>>

\* A select that does not look at pendingWakeup_.
select_enter_blind ==
    /\ pc = "enter"
    /\ inSelect' = TRUE
    /\ deadline' = now + wait
    /\ pc' = "select"
    /\ UNCHANGED <<queue, current, prescaler, wait, asof, found_timer, fired,
                   files, pendingWakeup, signal, now, timers, lock, call>>

\* The critical section before pselect().  From here on WAKEUP_SIG ends it.
select_enter ==
    /\ pc = "enter"
    /\ inSelect' = TRUE
    /\ wait' = IF pendingWakeup THEN 0 ELSE wait
    /\ deadline' = now + wait'
    /\ pc' = "select"
    /\ UNCHANGED <<queue, current, prescaler, asof, found_timer, fired, files,
                   pendingWakeup, signal, now, timers, lock, call>>

\* pselect() returns for a descriptor below nfds, a signal or the timeout.  A
\* signal may stay pending when there are descriptors to report.  A sleep that
\* goes on past the end of time is over then.
pselect ==
    /\ pc = "select"
    /\ fired' = {s \in readable : Watched(s) /\ Fd[s] < selectNFds}
    /\ fired' # {} \/ signal \/ now >= deadline \/ now = MaxTime
    /\ signal' \in IF fired' # {} THEN {FALSE, signal} ELSE {FALSE}
    /\ pc' = "leave"
    /\ UNCHANGED <<queue, current, prescaler, wait, asof, found_timer,
                   deadline, files, pendingWakeup, inSelect, now, timers,
                   lock, call>>

MaxFd(S) == IF S = {} THEN 0 ELSE Max({Fd[s] + 1 : s \in S})

InSeq(s) == {s[i] : i \in DOMAIN s}

\* The critical section after pselect().
select_leave ==
    /\ pc = "leave"
    /\ inSelect' = FALSE
    /\ pendingWakeup' = FALSE
    /\ pc' = IF fired = {} THEN "waited" ELSE "scan"
    /\ UNCHANGED <<queue, current, prescaler, locals, files, signal, now,
                   timers, lock, call>>

\* The loop over selectables_ schedules and drops each one that is ready,
scan(s) ==
    /\ pc = "scan"
    /\ s \in fired
    /\ \E i \in 1..Len(selectables) :
        /\ selectables[i] = s
        /\ \A j \in 1..(i - 1) : selectables[j] \notin fired
    /\ AddHere(s)
    /\ selectables' = Unlisted(selectables, s)
    /\ fired' = fired \ {s}
    /\ UNCHANGED <<pc, current, prescaler, wait, asof, found_timer, deadline,
                   selectNFds, readable, inSelect, signal, now, timers, lock,
                   call>>

\* and computes selectNFds_ from the others.
scan_done ==
    /\ pc = "scan"
    /\ fired = {}
    /\ selectNFds' = MaxFd(InSeq(selectables))
    /\ pc' = "waited"
    /\ UNCHANGED <<queue, current, prescaler, locals, selectables, readable,
                   wake, now, timers, lock, call>>

\* The second next() of the loop.  The locals of the wait end here.
next_again ==
    /\ pc = "waited"
    /\ prescaler' = executor_select_prescaler
    /\ IF Empty THEN pc' = "next" /\ UNCHANGED <<queue, current>> ELSE Take
    /\ wait' = 0 /\ asof' = 0 /\ found_timer' = FALSE /\ deadline' = 0
    /\ UNCHANGED <<fired, files, wake, now, timers, lock, call>>

-----------------------------------------------------------------------------
(* What runs on the executor.  An executable makes at most one call into   *)
(* the executor; longer ones come back as a new executable.                *)

\* ActiveTimers::notify() on the executor's thread.
NotifyHere ==
    /\ isPending' = TRUE
    /\ IF isPending THEN UNCHANGED <<queue, pendingWakeup>>
       ELSE AddHere("active_timers")

\* A list that is not kept in order.
ListedAt_front(l, t, w) == <<t>> \o l

\* The list after insert_locked(): behind the timers that expire no later.
ListedAt(l, t, w) ==
    LET n == Passed(l, w)
    IN  SubSeq(l, 1, n) \o <<t>> \o SubSeq(l, n + 1, Len(l))

\* schedule_timer() and update_timer() on the executor's thread, for a timer
\* that is to expire at time w.
ScheduleHere(t, w) ==
    /\ lock = NULL
    /\ when' = [when EXCEPT ![t] = w]
    /\ isActive' = [isActive EXCEPT ![t] = TRUE]
    /\ active' = ListedAt(Unlisted(active, t), t, w)
    /\ NotifyHere

Returns ==
    /\ current' = NULL
    /\ pc' = "next"
    /\ UNCHANGED <<prescaler, locals, inSelect, signal, now, lock, call>>

ActiveTimers_run ==
    /\ pc = "run" /\ current = "active_timers"
    /\ isPending' = FALSE
    /\ Returns
    /\ UNCHANGED <<queue, files, pendingWakeup, active, when, isActive,
                   isExpired>>

\* Timer::run(), for a timeout() that returns NONE, RESTART or a new period.
Timer_run(t) ==
    /\ pc = "run" /\ current = t
    /\ isExpired' = [isExpired EXCEPT ![t] = FALSE]
    /\ \/ UNCHANGED <<queue, pendingWakeup, active, when, isActive, isPending>>
       \/ ScheduleHere(t, when[t] + Period[t])
       \/ ScheduleHere(t, now + Period[t])
    /\ Returns
    /\ UNCHANGED files

\* The time trigger() sets: long past.
PAST == 0

\* A call of Timer::start(), restart() or trigger().  restart() and trigger()
\* of a timer that has expired do nothing.
timer_call(t) ==
    /\ ~isExpired[t]
    /\ \/ ScheduleHere(t, now + Period[t])
       \/ isActive[t] /\ ScheduleHere(t, PAST)
    /\ UNCHANGED <<files, isExpired>>

select_short(s) ==
    /\ ~Watched(s)
    /\ selectables' = <<s>> \o selectables
    /\ selectNFds' = IF Fd[s] >= selectNFds THEN Fd[s] ELSE selectNFds

select(s) ==
    /\ ~Watched(s)
    /\ selectables' = <<s>> \o selectables
    /\ selectNFds' = IF Fd[s] >= selectNFds THEN Fd[s] + 1 ELSE selectNFds

unselect(s) ==
    /\ Watched(s)
    /\ selectables' = Unlisted(selectables, s)
    /\ selectNFds' = MaxFd(InSeq(selectables) \ {s})

\* The executable of thread p is a flow: it ends, yields, or makes a call.
flow_run(p) ==
    /\ pc = "run" /\ current = p
    /\ \/ UNCHANGED <<queue, pendingWakeup, files, timers>>
       \/ AddHere(p) /\ UNCHANGED <<files, timers>>
       \/ \E t \in Timers : timer_call(t)
       \/ /\ \E s \in Selectables : (Free(s) /\ select(s)) \/ unselect(s)
          /\ UNCHANGED <<queue, pendingWakeup, readable, timers>>
    /\ Returns

\* The executable of a Selectable reads the data, and then is done with the
\* descriptor or selects it again.
selectable_run(s) ==
    /\ pc = "run" /\ current = s
    /\ readable' = readable \ {s}
    /\ UNCHANGED <<selectables, selectNFds>> \/ select(s)
    /\ Returns
    /\ UNCHANGED <<queue, pendingWakeup, timers>>

-----------------------------------------------------------------------------
(* Other threads.                                                          *)

\* add() of the thread's executable, or of the exit closure by shutdown().
add(p) ==
    /\ call[p] = "none"
    /\ \E e \in {p, "exit"} :
        /\ Free(e)
        /\ queue' = Inserted(queue, e)
    /\ call' = [call EXCEPT ![p] = "wakeup"]
    /\ UNCHANGED <<loop, files, wake, now, timers, lock>>

\* A start() that does not notify the executor.
start_silent(p, t) ==
    /\ call[p] = "none"
    /\ lock = NULL
    /\ ~isActive[t] /\ ~isExpired[t] /\ current # t
    /\ isActive' = [isActive EXCEPT ![t] = TRUE]
    /\ when' = [when EXCEPT ![t] = now + Period[t]]
    /\ active' = ListedAt(active, t, now + Period[t])
    /\ UNCHANGED <<queue, loop, files, wake, now, isExpired, isPending, lock,
                   call>>

\* Timer::start() up to the exchange of notify(), which runs under lock_.  No
\* one else looks at the timer before it is in the list.
start(p, t) ==
    /\ call[p] = "none"
    /\ lock = NULL
    /\ ~isActive[t] /\ ~isExpired[t] /\ current # t
    /\ isActive' = [isActive EXCEPT ![t] = TRUE]
    /\ when' = [when EXCEPT ![t] = now + Period[t]]
    /\ active' = ListedAt(active, t, now + Period[t])
    /\ isPending' = TRUE
    /\ IF isPending THEN UNCHANGED <<lock, call>>
       ELSE lock' = p /\ call' = [call EXCEPT ![p] = "notify"]
    /\ UNCHANGED <<queue, loop, files, wake, now, isExpired>>

\* The add() of notify().
notify(p) ==
    /\ call[p] = "notify"
    /\ queue' = Inserted(queue, "active_timers")
    /\ call' = [call EXCEPT ![p] = "wakeup"]
    /\ UNCHANGED <<loop, files, wake, now, timers, lock>>

\* The end of a call of thread p.
Done(p) ==
    /\ call' = [call EXCEPT ![p] = "none"]
    /\ lock' = IF lock = p THEN NULL ELSE lock

\* The critical section of OSSelectWakeup::wakeup().
wakeup(p) ==
    /\ call[p] = "wakeup"
    /\ pendingWakeup' = TRUE
    /\ IF inSelect
       THEN call' = [call EXCEPT ![p] = "kill"] /\ UNCHANGED lock
       ELSE Done(p)
    /\ UNCHANGED <<queue, loop, files, inSelect, signal, now, timers>>

pthread_kill(p) ==
    /\ call[p] = "kill"
    /\ signal' = TRUE
    /\ Done(p)
    /\ UNCHANGED <<queue, loop, files, pendingWakeup, inSelect, now, timers>>

\* The world: time passes, and data arrives at a descriptor.
tick ==
    /\ now < MaxTime
    /\ now' = now + 1
    /\ UNCHANGED <<queue, loop, files, wake, timers, lock, call>>

arrive(s) ==
    /\ s \notin readable
    /\ readable' = readable \cup {s}
    /\ UNCHANGED <<queue, loop, selectables, selectNFds, wake, now, timers,
                   lock, call>>

-----------------------------------------------------------------------------
Loop ==
    \/ next \/ lock_timers \/ get_next_timeout \/ clear_wakeup \/ check_empty
    \/ select_enter \/ pselect \/ select_leave \/ scan_done \/ next_again
    \/ ActiveTimers_run
    \/ \E t \in Timers : expire(t) \/ Timer_run(t)
    \/ \E p \in Threads : flow_run(p)
    \/ \E s \in Selectables : scan(s) \/ selectable_run(s)

Call(p) == notify(p) \/ wakeup(p) \/ pthread_kill(p)

Next ==
    \/ Loop
    \/ \E p \in Threads : add(p) \/ Call(p) \/ \E t \in Timers : start(p, t)
    \/ tick
    \/ \E s \in Selectables : arrive(s)

Spec == Init /\ [][Next]_vars

\* The executor's thread and the threads in a call keep running, and time
\* goes on.
FairSpec ==
    /\ Spec
    /\ WF_vars(Loop) /\ WF_vars(tick)
    /\ \A p \in Threads : WF_vars(Call(p))

-----------------------------------------------------------------------------
TypeOK ==
    /\ queue \in [Bands -> Seq(Executables)]
    /\ pc \in {"next", "timeout", "expire", "clear", "check", "enter",
               "select", "leave", "scan", "waited", "run", "done"}
    /\ current \in Executables \cup {NULL}
    /\ prescaler \in Nat
    /\ wait \in Nat /\ asof \in Nat /\ deadline \in Nat
    /\ found_timer \in BOOLEAN
    /\ fired \subseteq Selectables
    /\ selectables \in Seq(Selectables)
    /\ selectNFds \in Nat
    /\ readable \subseteq Selectables
    /\ pendingWakeup \in BOOLEAN /\ inSelect \in BOOLEAN /\ signal \in BOOLEAN
    /\ now \in Nat
    /\ active \in Seq(Timers)
    /\ when \in [Timers -> Nat]
    /\ isActive \in [Timers -> BOOLEAN] /\ isExpired \in [Timers -> BOOLEAN]
    /\ isPending \in BOOLEAN
    /\ lock \in Threads \cup {NULL, EXECUTOR}
    /\ call \in [Threads -> {"none", "notify", "wakeup", "kill"}]

\* Something will end the pselect() in progress at once.
WakeupUnderWay ==
    \/ signal
    \/ deadline <= now
    \/ \E p \in Threads : call[p] \in {"notify", "wakeup", "kill"}

\* The executor never sleeps over work: while it is in pselect() with an
\* executable in the queue, its timeout is over, the signal is pending, or
\* the thread that added an executable has yet to finish its wakeup().
\* clear_wakeup() runs without the lock, and add() inserts and wakes up in
\* two steps; the order of clear_wakeup(), empty() and the two critical
\* sections is what makes this hold.
NoLostWakeup == pc = "select" /\ ~Empty => WakeupUnderWay

\* The executor never sleeps past a timer, also one that another thread has
\* put in front of the list after get_next_timeout() computed the time to
\* sleep: the sleep asked for is no longer than the time that was left to
\* any active timer, or it is about to be cut short.
NoOverslept ==
    pc = "select" =>
        \/ WakeupUnderWay
        \/ \A t \in Timers : isActive[t] => when[t] >= asof + wait

\* A timer is in the active list exactly while isActive_ is set and on its
\* way through the executor's queue exactly while isExpired_ is set ("true
\* when the timer is in the active timers list", "True when the timer is in
\* the pending executables list of the Executor", Timer.hxx:305-307), never
\* both, and the list is sorted: the walk of get_next_timeout() stops at the
\* first timer that is not due.
TimersListed ==
    /\ \A t \in Timers :
        /\ isActive[t] <=> \E i \in DOMAIN active : active[i] = t
        /\ isExpired[t] <=> (Queued(t) \/ current = t)
        /\ ~(isActive[t] /\ isExpired[t])
    /\ \A i, j \in DOMAIN active :
        i < j => active[i] # active[j] /\ when[active[i]] <= when[active[j]]

\* Every descriptor that a Selectable waits for is below selectNFds_, so that
\* pselect() looks at it, and no Selectable waits and is queued at once.
AllWatched ==
    \A s \in Selectables :
        Watched(s) => Fd[s] < selectNFds /\ ~Queued(s)

\* Every executable that was added runs in the end, unless the executor is
\* shut down first; the exit closure of shutdown() always does.  Flows that
\* yield for ever do not keep others from running.
AddedRuns ==
    \A e \in Executables : Queued(e) ~> current = e \/ pc = "done"

\* A timer that is due runs, even when flows keep the queue from ever being
\* empty: the prescaler makes the loop look at the timers.
DueTimerRuns ==
    \A t \in Timers :
        (isActive[t] /\ when[t] <= now)
            ~> (~isActive[t] \/ when[t] > now \/ pc = "done")

\* A Selectable whose descriptor has data is woken, even when flows keep the
\* queue from ever being empty.
ReadyServed ==
    \A s \in Selectables :
        (Watched(s) /\ s \in readable) ~> (~Watched(s) \/ pc = "done")
=============================================================================
