---------------------------- MODULE PthreadSleep ----------------------------
(***************************************************************************)
(* The timed sleep of threads/pthread_sleep.c, on top of the scheduler.    *)
(* The calls run with interrupts disabled, and preemption stays enabled.   *)
(* A sleep is ended by oskit_pthread_wakeup, from a thread or from an      *)
(* interrupt handler, by the thread's sleep timer, or by a cancelation.    *)
(***************************************************************************)
EXTENDS PosixSched

CONSTANTS Main, UserPolicies   \* of PthreadSched

VARIABLES
  sched, new, blocked, enabled,   \* of PthreadSched
  flags,    \* waitflags of each thread, as a set
  timer,    \* the threads whose sleeptimer is armed
  at,       \* where each thread is: outside, or in a sleep that is timed or not
  by        \* what ended the sleep; the code has no such field

S == INSTANCE PthreadSched WITH Handoffs <- FALSE, PolicyChanges <- {}

sleepVars == <<flags, timer, at, by>>
vars == <<sched, new, blocked, enabled, flags, timer, at, by>>

WaitFlags == {"SLEEPING", "TIMEDOUT", "TIMERSET"}

TypeOK ==
  /\ S!TypeOK
  /\ flags \in [Thread -> SUBSET WaitFlags]
  /\ timer \subseteq Thread
  /\ at \in [Thread -> {"out", "sleep", "timed"}]
  /\ by \in [Thread -> {"none", "wakeup", "timeout"}]

Init ==
  /\ S!Init
  /\ flags = [t \in Thread |-> {}]
  /\ timer = {}
  /\ at = [t \in Thread |-> "out"]
  /\ by = [t \in Thread |-> "none"]

At(places) == sched.cur \in Thread /\ at[sched.cur] \in places

\* A thread comes back from its sleep with interrupts disabled.
InterruptsEnabled == ~At({"sleep", "timed"})

\* The flags of a thread that goes to sleep.
SleepFlags(f, timed) ==
  (f \ {"TIMEDOUT"}) \cup {"SLEEPING"} \cup (IF timed THEN {"TIMERSET"} ELSE {})

\* oskit_pthread_sleep and oskit_pthread_sleep_withflags until the thread blocks.
oskit_pthread_sleep(timed) ==
  LET t == sched.cur
  IN  /\ S!Preemptible /\ At({"out"})
      /\ flags' = [flags EXCEPT ![t] = SleepFlags(@, timed)]
      /\ timer' = IF timed THEN timer \cup {t} ELSE timer
      /\ at' = [at EXCEPT ![t] = IF timed THEN "timed" ELSE "sleep"]
      /\ by' = [by EXCEPT ![t] = "none"]
      /\ S!Block

\* What the sleep returns.
Rval(t) == IF "TIMEDOUT" \in flags[t] THEN "ETIMEDOUT" ELSE "0"

\* The thread runs again and returns.
SleepReturn ==
  /\ At({"sleep", "timed"})
  /\ flags' = [flags EXCEPT ![sched.cur] = @ \ {"TIMERSET", "TIMEDOUT"}]
  /\ at' = [at EXCEPT ![sched.cur] = "out"]
  /\ UNCHANGED <<sched, new, blocked, enabled, timer, by>>

\* Mutant: the timer stays armed.
Mut_WokenTimer(t) == timer

\* The timer is disarmed if the sleep has set it.
WokenTimer(t) == IF "TIMERSET" \in flags[t] THEN timer \ {t} ELSE timer

\* pthread_wakeup_locked without the scheduler.
Woken(t) ==
  /\ flags' = [flags EXCEPT ![t] = @ \ {"SLEEPING", "TIMERSET"}]
  /\ timer' = WokenTimer(t)
  /\ by' = [by EXCEPT ![t] = "wakeup"]
  /\ blocked' = blocked \ {t}
  /\ UNCHANGED <<new, enabled, at>>

\* A wakeup or a timeout finds the thread asleep.
Sleeping(t) == "SLEEPING" \in flags[t]

\* oskit_pthread_wakeup, by a thread or an interrupt handler, and the part of
\* pthread_cancel that concerns a sleeper.  Unlike the timeout it asks for no
\* soft interrupt: a thread that should run now waits for the next reschedule.
oskit_pthread_wakeup(t) ==
  /\ InterruptsEnabled
  /\ t # sched.cur
  /\ Sleeping(t)
  /\ Woken(t)
  /\ sched' = pthread_sched_setrunnable(sched, t)

\* Mutant: the timeout leaves no trace for the sleeper.
Mut_sleep_timeout(t) ==
  /\ InterruptsEnabled
  /\ t \in timer /\ Sleeping(t)
  /\ timer' = timer \ {t}
  /\ flags' = [flags EXCEPT ![t] = {}]
  /\ by' = [by EXCEPT ![t] = "timeout"]
  /\ S!WakeupByInterrupt(t)
  /\ UNCHANGED at

\* Mutant: the timeout is noted but the thread not made runnable.
Mut_sleep_timeout_NoWakeup(t) ==
  /\ InterruptsEnabled
  /\ t \in timer /\ Sleeping(t)
  /\ timer' = timer \ {t}
  /\ flags' = [flags EXCEPT ![t] = {"TIMEDOUT"}]
  /\ UNCHANGED <<sched, new, blocked, enabled, at, by>>

\* The sleep timer expires.
pthread_sleep_timeout(t) ==
  /\ InterruptsEnabled
  /\ t \in timer
  /\ timer' = timer \ {t}
  /\ IF Sleeping(t)
     THEN /\ flags' = [flags EXCEPT ![t] = {"TIMEDOUT"}]
          /\ by' = [by EXCEPT ![t] = "timeout"]
          /\ S!WakeupByInterrupt(t)
     ELSE UNCHANGED <<sched, new, blocked, enabled, flags, by>>
  /\ UNCHANGED at

CallStep(step) ==
  /\ At({"out"})
  /\ step
  /\ UNCHANGED sleepVars

InterruptStep(step) ==
  /\ InterruptsEnabled
  /\ step
  /\ UNCHANGED sleepVars

Next ==
  \/ \E timed \in BOOLEAN : oskit_pthread_sleep(timed)
  \/ SleepReturn
  \/ \E t \in Thread : oskit_pthread_wakeup(t)
  \/ \E t \in Thread : pthread_sleep_timeout(t)
  \/ \E t \in Thread, policy \in UserPolicies, p \in Prio : CallStep(S!Create(t, policy, p))
  \/ CallStep(S!Enter)
  \/ CallStep(S!Leave)
  \/ CallStep(S!sched_yield)
  \/ InterruptStep(S!Tick)
  \/ InterruptStep(S!IdlePoll)

Spec == Init /\ [][Next]_vars

\* Scheduling is fair, an armed timer expires once interrupts are enabled, and no
\* thread keeps preemption disabled for ever.
Fairness ==
  /\ WF_vars(SleepReturn)
  /\ WF_vars(CallStep(S!Leave))
  /\ WF_vars(InterruptStep(S!IdlePoll))
  /\ SF_vars(InterruptStep(S!Preemptible /\ S!Tick))
  /\ \A t \in Thread : SF_vars(pthread_sleep_timeout(t))

FairSpec == Spec /\ Fairness
-----------------------------------------------------------------------------
(* Safety                                                                  *)

\* A sleep is ended once and its timer with it: a thread is blocked exactly while
\* SLEEPING is set, and a timer is armed only for the sleep that armed it, so a
\* late expiry cannot end the next sleep.  When it has returned no wait flag is left,
\* as the assertion at pthread_sleep.c:130 says at the start of the next one.
SleepsAccounted ==
  /\ TypeOK
  /\ S!RunqConsistent /\ S!EveryThreadAccounted
  /\ \A t \in Thread :
       /\ Sleeping(t) <=> at[t] # "out" /\ t \in blocked
       /\ t \in timer <=> Sleeping(t) /\ at[t] = "timed"
       /\ at[t] = "out" => flags[t] = {}

\* doc/pthread.tex on oskit_pthread_sleep: "Returns ETIMEDOUT if the timeout
\* expires, or zero if the thread is woken up early."  What the sleep returns
\* is decided by what ended it, even if the timer expires before the thread runs.
ReturnIsTruthful ==
  [][\A t \in Thread : at[t] # "out" /\ at'[t] = "out" =>
       (Rval(t) = "ETIMEDOUT" <=> by[t] = "timeout")]_vars

\* The comment of pthread_yield (pthread_yield.c:35): "This is called whenever the
\* runq is changed to look for a rescheduling opportunity."  So a thread that runs
\* with preemption enabled is not outranked.
RunqChangeReschedules == S!PreemptibleIsHighest
-----------------------------------------------------------------------------
(* Liveness                                                                *)

\* A timed sleep ends, whether or not anybody wakes the thread.
TimedSleepReturns == \A t \in Thread : at[t] = "timed" ~> at[t] = "out"
=============================================================================
