------------------------------ MODULE SysArch -------------------------------
(***************************************************************************)
(* The semaphores, mutexes and mailboxes on which lwIP runs                *)
(* (kernel/src/lwip/src/arch/sys_arch.c).  Tasks call them with interrupts *)
(* on and nothing in them is locked, so a task can be preempted between a  *)
(* load and the store that follows it; the receive interrupt of the        *)
(* network card runs sys_mbox_trypost to its end.                          *)
(*                                                                         *)
(* sem_wait returns before most of its text: it takes a unit if there is   *)
(* one, calls sleep(200), which changes nothing, and returns the value it  *)
(* then sees.  The array of waiting tasks is only ever cleared and is left *)
(* out.                                                                    *)
(***************************************************************************)
EXTENDS Naturals, FiniteSets

CONSTANTS
  Producers,       \* tasks that post
  Consumers,       \* tasks that fetch
  Lockers,         \* tasks that use the mutex
  Mails,           \* messages; each is posted at most once
  NULL,            \* what memset leaves in the slots of a mailbox
  MAILBOX_SIZE,
  Wrap             \* 2^32 in the code: the values of an unsigned int

Tasks == Producers \cup Consumers \cup Lockers
Sems == {"mails", "boxes", "mutex"}

VARIABLES
  value,           \* of each semaphore
  buffer, wpos, rpos,
  call,            \* what each task is doing
  posted           \* ghost: messages posted and not yet delivered

mailbox == <<buffer, wpos, rpos>>
vars == <<value, buffer, wpos, rpos, call, posted>>

Idle == [proc |-> "idle"]

\* A call of proc, at its first statement, on semaphore s.
Start(proc, at, s, mail) ==
  [proc |-> proc, at |-> at, sem |-> s, reg |-> 0, mail |-> mail]

mailbox_init == [i \in 0 .. MAILBOX_SIZE - 1 |-> NULL]

Init ==
  /\ value = [s \in Sems |-> CASE s = "mails" -> 0
                               [] s = "boxes" -> MAILBOX_SIZE
                               [] s = "mutex" -> 1]
  /\ buffer = mailbox_init
  /\ wpos = 0 /\ rpos = 0
  /\ call = [t \in Tasks |-> Idle]
  /\ posted = {}

-----------------------------------------------------------------------------
(* Calls *)

\* Mails that no task and no slot holds any more, and were never posted.
Unused ==
  {m \in Mails :
     /\ m \notin posted
     /\ \A i \in DOMAIN buffer : buffer[i] # m
     /\ \A t \in Tasks : call[t] # Idle => call[t].mail # m}

sys_mbox_post(t, m) ==
  /\ call[t] = Idle
  /\ call' = [call EXCEPT ![t] = Start("post", "test", "boxes", m)]
  /\ UNCHANGED <<value, mailbox, posted>>

sys_mbox_trypost(t, m) ==
  /\ call[t] = Idle
  /\ call' = [call EXCEPT ![t] = Start("trypost", "test", "boxes", m)]
  /\ UNCHANGED <<value, mailbox, posted>>

sys_arch_mbox_fetch(t) ==
  /\ call[t] = Idle
  /\ call' = [call EXCEPT ![t] = Start("fetch", "test", "mails", NULL)]
  /\ UNCHANGED <<value, mailbox, posted>>

sys_arch_mbox_tryfetch(t) ==
  /\ call[t] = Idle
  /\ call' = [call EXCEPT ![t] = Start("tryfetch", "test", "mails", NULL)]
  /\ UNCHANGED <<value, mailbox, posted>>

sys_mutex_lock(t) ==
  /\ call[t] = Idle
  /\ call' = [call EXCEPT ![t] = Start("lock", "test", "mutex", NULL)]
  /\ UNCHANGED <<value, mailbox, posted>>

-----------------------------------------------------------------------------
(* sem_wait and sem_trywait *)

Trying(t) == call[t].proc \in {"trypost", "tryfetch"}

\* Where a call goes on when it has its unit.
Body(t) ==
  CASE call[t].proc \in {"post", "trypost"} -> "put"
    [] call[t].proc \in {"fetch", "tryfetch"} -> "take"
    [] call[t].proc = "lock" -> "critical"

Goto(t, at) == call' = [call EXCEPT ![t].at = at]
Return(t) == call' = [call EXCEPT ![t] = Idle]

SemTest(t) ==
  /\ call[t] # Idle /\ call[t].at = "test"
  /\ IF value[call[t].sem] # 0 THEN Goto(t, "load")
     ELSE IF Trying(t) THEN Return(t)
     ELSE Goto(t, "result")
  /\ UNCHANGED <<value, mailbox, posted>>

SemLoad(t) ==
  /\ call[t] # Idle /\ call[t].at = "load"
  /\ call' = [call EXCEPT ![t].at = "store", ![t].reg = value[call[t].sem]]
  /\ UNCHANGED <<value, mailbox, posted>>

SemStore(t) ==
  /\ call[t] # Idle /\ call[t].at = "store"
  /\ value' = [value EXCEPT ![call[t].sem] = (call[t].reg + Wrap - 1) % Wrap]
  /\ call' = [call EXCEPT ![t].at = IF Trying(t) THEN Body(t) ELSE "result",
                          ![t].reg = 0]
  /\ UNCHANGED <<mailbox, posted>>

\* sem_wait returns the value; only fetch looks at the result.
SemResult(t) ==
  /\ call[t] # Idle /\ call[t].at = "result"
  /\ IF call[t].proc = "fetch" /\ value["mails"] # 0 THEN Return(t)
     ELSE Goto(t, Body(t))
  /\ UNCHANGED <<value, mailbox, posted>>

-----------------------------------------------------------------------------
(* The mailbox *)

Advance(pos) == (pos + 1) % MAILBOX_SIZE

PutMail(t) ==
  /\ call[t] # Idle /\ call[t].at = "put"
  /\ buffer' = [buffer EXCEPT ![wpos] = call[t].mail]
  /\ posted' = posted \cup {call[t].mail}
  /\ Goto(t, "wpos")
  /\ UNCHANGED <<value, wpos, rpos>>

LoadWpos(t) ==
  /\ call[t] # Idle /\ call[t].at = "wpos"
  /\ call' = [call EXCEPT ![t].at = "wpos2", ![t].reg = wpos]
  /\ UNCHANGED <<value, mailbox, posted>>

StoreWpos(t) ==
  /\ call[t] # Idle /\ call[t].at = "wpos2"
  /\ wpos' = Advance(call[t].reg)
  /\ call' = [call EXCEPT ![t].at = "post", ![t].sem = "mails",
                          ![t].reg = 0]
  /\ UNCHANGED <<value, buffer, rpos, posted>>

TakeMail(t) ==
  /\ call[t] # Idle /\ call[t].at = "take"
  /\ posted' = posted \ {buffer[rpos]}
  /\ Goto(t, "rpos")
  /\ UNCHANGED <<value, mailbox>>

LoadRpos(t) ==
  /\ call[t] # Idle /\ call[t].at = "rpos"
  /\ call' = [call EXCEPT ![t].at = "rpos2", ![t].reg = rpos]
  /\ UNCHANGED <<value, mailbox, posted>>

StoreRpos(t) ==
  /\ call[t] # Idle /\ call[t].at = "rpos2"
  /\ rpos' = Advance(call[t].reg)
  /\ call' = [call EXCEPT ![t].at = "post", ![t].sem = "boxes",
                          ![t].reg = 0]
  /\ UNCHANGED <<value, buffer, wpos, posted>>

sys_mutex_unlock(t) ==
  /\ call[t] # Idle /\ call[t].at = "critical"
  /\ Goto(t, "post")
  /\ UNCHANGED <<value, mailbox, posted>>

\* sem_post, the last thing every call does.
PostLoad(t) ==
  /\ call[t] # Idle /\ call[t].at = "post"
  /\ call' = [call EXCEPT ![t].at = "post2", ![t].reg = value[call[t].sem]]
  /\ UNCHANGED <<value, mailbox, posted>>

PostStore(t) ==
  /\ call[t] # Idle /\ call[t].at = "post2"
  /\ value' = [value EXCEPT ![call[t].sem] = (call[t].reg + 1) % Wrap]
  /\ Return(t)
  /\ UNCHANGED <<mailbox, posted>>

\* A frame arrives: the interrupt handler hands it to the mailbox, if it can.
TrypostFromInterrupt(m) ==
  /\ value["boxes"] # 0
  /\ value' = [value EXCEPT !["boxes"] = @ - 1, !["mails"] = (@ + 1) % Wrap]
  /\ buffer' = [buffer EXCEPT ![wpos] = m]
  /\ wpos' = Advance(wpos)
  /\ posted' = posted \cup {m}
  /\ UNCHANGED <<rpos, call>>

Step(t) ==
  \/ SemTest(t) \/ SemLoad(t) \/ SemStore(t) \/ SemResult(t)
  \/ PutMail(t) \/ LoadWpos(t) \/ StoreWpos(t)
  \/ TakeMail(t) \/ LoadRpos(t) \/ StoreRpos(t)
  \/ sys_mutex_unlock(t)
  \/ PostLoad(t) \/ PostStore(t)

Next ==
  \/ \E t \in Producers, m \in Unused : sys_mbox_post(t, m)
  \/ \E t \in Producers, m \in Unused : sys_mbox_trypost(t, m)
  \/ \E t \in Consumers : sys_arch_mbox_fetch(t)
  \/ \E t \in Consumers : sys_arch_mbox_tryfetch(t)
  \/ \E t \in Lockers : sys_mutex_lock(t)
  \/ \E m \in Unused : TrypostFromInterrupt(m)
  \/ \E t \in Tasks : Step(t)

\* The scheduler gives every task that can run its turn.
Spec == Init /\ [][Next]_vars /\ \A t \in Tasks : WF_vars(Step(t))

-----------------------------------------------------------------------------
(* Properties *)

At(t, place) == call[t] # Idle /\ call[t].at = place

\* A fetch without a timeout, which "means wait forever", goes on only to take
\* a message that was posted and that nobody has taken yet.
FetchWaits ==
  \A t \in Tasks : At(t, "take") /\ call[t].proc = "fetch" => buffer[rpos] \in posted

\* Two tasks never hold the mutex, "a semaphore with 1 element", together.
MutualExclusion ==
  \A t, u \in Tasks : At(t, "critical") /\ At(u, "critical") => t = u

=============================================================================
