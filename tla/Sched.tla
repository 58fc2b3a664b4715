------------------------------- MODULE Sched --------------------------------
(***************************************************************************)
(* The scheduler (kernel/src/task/proc.c, sched.c, list.c), the timer      *)
(* (dev/timer.c) and the dispatch of hardware interrupts that drives them  *)
(* (dev/cpu/interrupts.c irq_handler).                                     *)
(*                                                                         *)
(* Tasks are in two structures: a ring, whose current element get_current_ *)
(* task advances, and the ready queue, a list linked by task_t.next that   *)
(* starts at the first task and is never empty.  A switch takes the next   *)
(* element of the ring, wakes the sleepers of the queue that are due, and  *)
(* follows the queue past the tasks that still sleep.                      *)
(*                                                                         *)
(* irq_handler switches before it dispatches: the interrupt it then serves *)
(* and acknowledges is the one on the stack of the incoming task, so the   *)
(* service of an interrupt is put off until the task it interrupted runs   *)
(* again.                                                                  *)
(*                                                                         *)
(* A task_t is never allocated twice here, and the first task (kmain,      *)
(* which ends in an endless loop) neither exits nor sleeps.                *)
(*                                                                         *)
(* Two things that the code leaves to chance are taken to turn out well.   *)
(* The next field of a new task, which nothing sets, is NULL; and the word *)
(* that irq_handler reads as the handler of interrupt 0 - 32, the number   *)
(* in the frame of a new task, is none.  No task calls sleep_on,           *)
(* sys_sleepabs or task_exit: their _task_switch(0) saves 0 as the stack   *)
(* pointer of the caller.                                                  *)
(***************************************************************************)
EXTENDS Naturals, Sequences, FiniteSets, SequencesExt

CONSTANTS
  Tasks,       \* the task_t that may be allocated
  init,        \* the task of kmain, at the head of ready_queue
  Priorities,  \* those that tasks are created with
  MaxSleep     \* bound on ticks_to_wait

ASSUME SchedConstants ==
  /\ init \in Tasks
  /\ IsFiniteSet(Tasks)
  /\ Priorities \subseteq {"PRIO_IDLE", "PRIO_LOW", "PRIO_HIGH"}
  /\ MaxSleep \in Nat \ {0}

VARIABLES
  ring,            \* the elements of task_queue, the current one first
  ready_queue,     \* the tasks linked by next
  current_task,
  freed,           \* tasks that kexit has released
  state,           \* TASK_RUNNING or TASK_SLEEPING
  wakeup_time,     \* ticks left until wakeup_time, 0 when it is reached
  time_to_run,
  priority,
  task_switching,
  pc,              \* how far each task is in sleep2 or kexit
  frame,           \* interrupt saved on the stack of each suspended task
  slave_busy,      \* the second PIC has an interrupt in service
  owed             \* ghost: timer interrupts raised and not yet served

taskVars == <<state, wakeup_time, time_to_run, priority, pc>>
vars == <<ring, ready_queue, current_task, freed, taskVars, task_switching,
          frame, slave_busy, owed>>

Irqs == {"timer", "disk"}
Live == Range(ready_queue)

\* No caller passes a priority of which the quantum is the default, 100.
quantum == [PRIO_DEAD |-> 0, PRIO_IDLE |-> 3, PRIO_LOW |-> 5, PRIO_HIGH |-> 1]

-----------------------------------------------------------------------------
(* The ring (task/list.c, task/sched.c).                                   *)

\* Faulty variant: the current element is returned before it is advanced.
GetWithoutAdvance(r) == r

get_current_task(r) == Append(Tail(r), Head(r))

ring_list_insert(r, t) == <<Head(r), t>> \o Tail(r)

\* Faulty variant: an element that is the current one is not found.
DeleteButCurrent(r, t) == <<Head(r)>> \o SelectSeq(Tail(r), LAMBDA u : u # t)

\* The search starts behind the current element and reaches it last; when it
\* is the one deleted, its successor becomes current.
ring_list_delete_first(r, t) ==
  IF Len(r) = 1 THEN r ELSE SelectSeq(r, LAMBDA u : u # t)

-----------------------------------------------------------------------------

\* _task_initialize.
Init ==
  /\ ring = <<init>>
  /\ ready_queue = <<init>>
  /\ current_task = init
  /\ freed = {}
  /\ state = [t \in Tasks |-> "TASK_RUNNING"]
  /\ wakeup_time = [t \in Tasks |-> 0]
  /\ time_to_run = [t \in Tasks |-> IF t = init THEN 1 ELSE 0]
  /\ priority = [t \in Tasks |-> "PRIO_HIGH"]
  /\ task_switching = TRUE
  /\ pc = [t \in Tasks |-> "run"]
  /\ frame = [t \in Tasks |-> "none"]
  /\ slave_busy = FALSE
  /\ owed = 0

\* _get_task_stack: the new task is linked at the tail of the ready queue and
\* behind the current element of the ring; the creator takes its priority.
CreateTask(t, p) ==
  /\ pc[current_task] = "run"
  /\ t \notin Live \cup freed
  /\ state' = [state EXCEPT ![t] = "TASK_RUNNING"]
  /\ priority' = [priority EXCEPT ![current_task] = p, ![t] = p]
  /\ time_to_run' = [time_to_run EXCEPT ![t] = quantum[p]]
  /\ ready_queue' = Append(ready_queue, t)
  /\ frame' = [frame EXCEPT ![t] = "new"]
  /\ task_switching' = TRUE
  /\ ring' = ring_list_insert(ring, t)
  /\ UNCHANGED <<current_task, freed, wakeup_time, pc, slave_busy, owed>>

-----------------------------------------------------------------------------
(* Interrupts.                                                             *)

\* Faulty variant: the loop ends before the last task.
WokenButLast ==
  [t \in Tasks |->
    IF t \in Live \ {Last(ready_queue)} /\ wakeup_time[t] = 0
    THEN "TASK_RUNNING" ELSE state[t]]

\* The state of the tasks after the wake-up loop of _task_switch.
Woken ==
  [t \in Tasks |-> IF t \in Live /\ wakeup_time[t] = 0
                   THEN "TASK_RUNNING" ELSE state[t]]

\* Faulty variant: the element of the ring runs, asleep or not.
SkipNone(t, st) == t

\* From t along the ready queue to the first task that does not sleep; the
\* head of the queue when there is none.
SkipSleepers(t, st) ==
  LET behind == {i \in DOMAIN ready_queue :
                   \E j \in 1 .. i - 1 : ready_queue[j] = t}
      awake == {i \in behind : st[ready_queue[i]] # "TASK_SLEEPING"}
  IN  IF st[t] # "TASK_SLEEPING" THEN t
      ELSE IF awake = {} THEN Head(ready_queue)
      ELSE ready_queue[Min(awake)]

\* _task_switch: how ring, current_task, state and time_to_run change.
TaskSwitch ==
  LET r == get_current_task(ring)
      t == Head(r)
      st == IF t = current_task THEN state ELSE Woken
      to == IF t = current_task THEN t ELSE SkipSleepers(t, st)
      slice == CASE t = current_task -> time_to_run[t]
                 [] priority[t] = "PRIO_LOW" -> 3
                 [] priority[t] = "PRIO_IDLE" -> 1
                 [] OTHER -> time_to_run[t]
  IN  [ring |-> r, to |-> to, state |-> st,
       time_to_run |-> [time_to_run EXCEPT ![t] = slice]]

NoSwitch ==
  [ring |-> ring, to |-> current_task, state |-> state,
   time_to_run |-> time_to_run]

\* Faulty variant: the interrupt that was raised is served, not the one on
\* the stack of the incoming task.
ServedFirst(irq, to) == irq

\* The interrupt number in the frame that irq_handler looks at.
Served(irq, to) == IF to = current_task THEN irq ELSE frame[to]

\* Faulty variant: counting down goes on below zero.
ElapsedPastZero(n) == n - 1

\* One tick less, down to 0.
Elapsed(n) == IF n = 0 THEN 0 ELSE n - 1

\* Faulty variant: only an interrupt of the second PIC looks for its EOI.
SlaveAfterRaised(irq, served) ==
  IF irq = "disk" THEN served # "disk" ELSE slave_busy

\* The second PIC is sent an EOI when the interrupt served is one of its own.
SlaveAfter(irq, served) ==
  (slave_busy \/ irq = "disk") /\ served # "disk"

\* irq_handler for a hardware interrupt or for the "int $0x20" of
\* switch_context, which is the timer's.
irq_handler(irq) ==
  LET s == IF task_switching THEN TaskSwitch ELSE NoSwitch
      served == Served(irq, s.to)
  IN  /\ ring' = s.ring
      /\ current_task' = s.to
      /\ state' = s.state
      /\ frame' = [frame EXCEPT ![current_task] = irq, ![s.to] = "none"]
      /\ \* timer_handle, for the incoming task
         IF served = "timer"
         THEN /\ wakeup_time' = [t \in Tasks |-> Elapsed(wakeup_time[t])]
              /\ task_switching' = (s.time_to_run[s.to] = 0)
              /\ time_to_run' = [s.time_to_run EXCEPT ![s.to] = Elapsed(@)]
         ELSE /\ task_switching' = FALSE
              /\ time_to_run' = s.time_to_run
              /\ UNCHANGED wakeup_time
      /\ slave_busy' = SlaveAfter(irq, served)
      /\ owed' = owed + (IF irq = "timer" THEN 1 ELSE 0)
                      - (IF served = "timer" THEN 1 ELSE 0)

Interrupt(irq) ==
  /\ irq = "disk" => ~slave_busy
  /\ irq_handler(irq)
  /\ UNCHANGED <<ready_queue, freed, priority, pc>>

\* switch_context, as sys_yield calls it.
Yield ==
  /\ pc[current_task] = "run"
  /\ irq_handler("timer")
  /\ UNCHANGED <<ready_queue, freed, priority, pc>>

-----------------------------------------------------------------------------
(* sleep2 marks the task, then sets its deadline, then calls               *)
(* switch_context; interrupts are on throughout.                           *)

SleepMark ==
  /\ pc[current_task] = "run"
  /\ current_task # init
  /\ state' = [state EXCEPT ![current_task] = "TASK_SLEEPING"]
  /\ pc' = [pc EXCEPT ![current_task] = "marked"]
  /\ UNCHANGED <<ring, ready_queue, current_task, freed, wakeup_time,
                 time_to_run, priority, task_switching, frame, slave_busy, owed>>

\* start_ticks was read before the mark: the deadline may have come already.
SleepDeadline(n) ==
  /\ pc[current_task] = "marked"
  /\ wakeup_time' = [wakeup_time EXCEPT ![current_task] = n]
  /\ pc' = [pc EXCEPT ![current_task] = "timed"]
  /\ UNCHANGED <<ring, ready_queue, current_task, freed, state, time_to_run,
                 priority, task_switching, frame, slave_busy, owed>>

SleepSwitch ==
  /\ pc[current_task] = "timed"
  /\ irq_handler("timer")
  /\ pc' = [pc EXCEPT ![current_task] = "run"]
  /\ UNCHANGED <<ready_queue, freed, priority>>

-----------------------------------------------------------------------------
(* kexit: unlinks and frees the task with interrupts off, turns them on    *)
(* and calls switch_context.  It is called by an exception handler or when *)
(* the function of a thread returns.                                       *)

\* Faulty variant: the task stays in the ready queue.
KexitStillQueued ==
  /\ pc[current_task] = "run"
  /\ current_task # init
  /\ ring' = ring_list_delete_first(ring, current_task)
  /\ freed' = freed \cup {current_task}
  /\ pc' = [pc EXCEPT ![current_task] = "freed"]
  /\ time_to_run' = [time_to_run EXCEPT ![current_task] = 0]
  /\ priority' = [priority EXCEPT ![current_task] = "PRIO_DEAD"]
  /\ UNCHANGED <<current_task, state, wakeup_time, task_switching, frame,
                 slave_busy, owed, ready_queue>>

KexitUnlink ==
  /\ pc[current_task] = "run"
  /\ current_task # init
  /\ ready_queue' = SelectSeq(ready_queue, LAMBDA t : t # current_task)
  /\ ring' = ring_list_delete_first(ring, current_task)
  /\ freed' = freed \cup {current_task}
  /\ pc' = [pc EXCEPT ![current_task] = "freed"]
  /\ time_to_run' = [time_to_run EXCEPT ![current_task] = 0]
  /\ priority' = [priority EXCEPT ![current_task] = "PRIO_DEAD"]
  /\ UNCHANGED <<current_task, state, wakeup_time, task_switching, frame,
                 slave_busy, owed>>

KexitArm ==
  /\ pc[current_task] = "freed"
  /\ task_switching' = TRUE
  /\ pc' = [pc EXCEPT ![current_task] = "leaving"]
  /\ UNCHANGED <<ring, ready_queue, current_task, freed, state, wakeup_time,
                 time_to_run, priority, frame, slave_busy, owed>>

KexitSwitch ==
  /\ pc[current_task] = "leaving"
  /\ irq_handler("timer")
  /\ UNCHANGED <<ready_queue, freed, priority, pc>>

Next ==
  \/ \E t \in Tasks, p \in Priorities : CreateTask(t, p)
  \/ \E irq \in Irqs : Interrupt(irq)
  \/ Yield
  \/ SleepMark
  \/ \E n \in 0 .. MaxSleep : SleepDeadline(n)
  \/ SleepSwitch
  \/ KexitUnlink
  \/ KexitArm
  \/ KexitSwitch

\* The timer interrupt keeps coming; nothing else is assumed.
Spec == Init /\ [][Next]_vars /\ WF_vars(Interrupt("timer"))

-----------------------------------------------------------------------------

\* Types of the task fields, of the ring and of the queue.
TypeOK ==
  /\ ring \in Seq(Tasks) /\ ring # <<>>
  /\ ready_queue \in Seq(Tasks) /\ ready_queue # <<>>
  /\ current_task \in Tasks
  /\ freed \subseteq Tasks
  /\ state \in [Tasks -> {"TASK_RUNNING", "TASK_SLEEPING"}]
  /\ wakeup_time \in [Tasks -> 0 .. MaxSleep]
  /\ time_to_run \in [Tasks -> 0 .. 5]
  /\ priority \in [Tasks -> {"PRIO_DEAD", "PRIO_IDLE", "PRIO_LOW", "PRIO_HIGH"}]
  /\ task_switching \in BOOLEAN
  /\ pc \in [Tasks -> {"run", "marked", "timed", "freed", "leaving"}]
  /\ frame \in [Tasks -> Irqs \cup {"none", "new"}]
  /\ slave_busy \in BOOLEAN
  /\ owed \in Nat

\* The ring and the ready queue hold the same tasks, each once, whatever
\* creations, exits and switches interleave: the ring decides who runs and
\* only the queue's members are woken, so a task in one of them is lost.
RingMatchesQueue ==
  /\ Len(ring) = Cardinality(Range(ring))
  /\ Len(ready_queue) = Cardinality(Live)
  /\ Range(ring) = Live
  /\ Live \cap freed = {}
  /\ Head(ready_queue) = init

\* A switch never resumes a task that kexit has freed.
FreedNeverResumed ==
  [][current_task' # current_task => current_task' \notin freed']_vars

\* A switch never resumes a task that sleeps.
SleepersNotResumed ==
  [][current_task' # current_task => state'[current_task'] = "TASK_RUNNING"]_vars

\* A task has an interrupt on its stack exactly while it is suspended; each
\* timer interrupt not yet served is on the stack of one suspended task, and
\* the second PIC waits for its EOI exactly while one has the disk interrupt
\* on its stack.  irq_handler puts interrupts off and serves none twice; it
\* drops one only when the task it interrupted has been freed.
InterruptsAreOnStacks ==
  /\ \A t \in Live : frame[t] = "none" <=> t = current_task
  /\ owed = Cardinality({t \in Tasks : frame[t] = "timer"})
  /\ Cardinality({t \in Tasks : frame[t] = "disk"}) = IF slave_busy THEN 1 ELSE 0

\* Every task that is not asleep runs again and again, until it exits.
RunnableRuns ==
  \A t \in Tasks :
    t \in Live /\ state[t] = "TASK_RUNNING"
      ~> current_task = t \/ t \notin Live \/ state[t] = "TASK_SLEEPING"

\* Every sleep ends.
SleepEnds ==
  \A t \in Tasks :
    t \in Live /\ state[t] = "TASK_SLEEPING"
      ~> state[t] = "TASK_RUNNING" \/ t \notin Live

\* The end of the disk interrupt is signalled to the second PIC, unless the
\* interrupt hit a task inside kexit, which is never resumed.
DiskIrqEnds ==
  slave_busy ~> ~slave_busy \/ \E t \in freed : frame[t] = "disk"

=============================================================================
