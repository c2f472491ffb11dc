------------------------------ MODULE TimerDpc ------------------------------
(***************************************************************************)
(* The queue of delayed calls of a controller.  ScsiPort gives a miniport  *)
(* one timer, and a new RequestTimerCall replaces the old one, so the      *)
(* driver keeps a list of channels ordered by time (FirstDpcChan,          *)
(* NextDpcChan) and sets the timer for its head: AtapiQueueTimerDpc puts a *)
(* channel into the list, AtapiTimerDpc is called by the timer.            *)
(***************************************************************************)
EXTENDS Integers, FiniteSets

CONSTANTS Chans,     \* the channels
          NOCHAN,    \* CHAN_NOT_SPECIFIED
          NEVER,     \* the timer is not set
          Delays,    \* the delays callers ask for (MiniportTimerValue)
          Slack,     \* a call may be made this early
          Wrap,      \* 2^32 units of 100 ns, in units of the delay: a difference wraps
          MaxTime    \* bound: the clock stops here

ASSUME TimerAssumption == /\ NOCHAN \notin Chans
                          /\ NEVER \notin Nat
                          /\ Delays \subseteq Nat
                          /\ {Slack, Wrap, MaxTime} \subseteq Nat
                          /\ MaxTime < Wrap
                          /\ IsFiniteSet(Chans)

VARIABLES now,       \* KeQuerySystemTime
          firstDpc,  \* deviceExtension->FirstDpcChan
          next,      \* chan->NextDpcChan
          hasTimer,  \* chan->HwScsiTimer # NULL
          due,       \* chan->DpcTime
          wake,      \* when ScsiPort calls AtapiTimerDpc
          active,    \* ActiveDpcChan while AtapiTimerDpc is in its loop
          recall,    \* the local variable of AtapiTimerDpc
          halted     \* the machine has stopped: a call of address 0, or a
                     \* walk that does not end

(* For the properties: has a channel asked for a call while it was in the  *)
(* list already?                                                           *)
VARIABLE relinked

list    == <<firstDpc, next, hasTimer, due>>
dpcVars == <<now, list, wake, active, recall, halted, relinked>>

InitDpc ==
  /\ now = 0
  /\ firstDpc = NOCHAN
  /\ next = [c \in Chans |-> NOCHAN]
  /\ hasTimer = [c \in Chans |-> FALSE]
  /\ due = [c \in Chans |-> 0]
  /\ wake = NEVER
  /\ active = NOCHAN
  /\ recall = FALSE
  /\ halted = FALSE
  /\ relinked = FALSE

(* The channels met from c on: what every set that has c and follows the   *)
(* links has in common.                                                    *)
From(c) ==
  {x \in Chans : \A S \in SUBSET Chans :
     c \in S \cup {NOCHAN} /\ (\A y \in S : next[y] \in S \cup {NOCHAN}) => x \in S}

(* The walk of AtapiQueueTimerDpc goes past an entry that is not due later *)
(* than t.                                                                 *)
GoesPast(c, t) == c # NOCHAN /\ due[c] <= t

(* The entries it goes past: the first one, and from each its next one. *)
Passed(t) ==
  {x \in Chans : \A S \in SUBSET Chans :
     /\ GoesPast(firstDpc, t) => firstDpc \in S
     /\ \A y \in S : GoesPast(next[y], t) => next[y] \in S
     => x \in S}

(* A list that is closed on itself may hold nothing to stop the walk. *)
Endless(t) == Passed(t) # {} /\ \A x \in Passed(t) : next[x] \in Passed(t)

(* Planted defect: every call goes to the front. *)
WalkEndFront(t) == [at |-> firstDpc, prev |-> NOCHAN]

(* Where the walk stops: at is the first entry that is due later than t.   *)
(* The walk keeps prev one entry behind the one it looks at, so that at    *)
(* the end of the list prev is the last but one.                           *)
WalkEnd(t) ==
  LET passed    == Passed(t)
      last      == CHOOSE x \in passed : next[x] \notin passed
      Behind(c) == IF c = firstDpc THEN NOCHAN ELSE CHOOSE y \in passed : next[y] = c
  IN  IF passed = {} THEN [at |-> firstDpc, prev |-> NOCHAN]
      ELSE [at   |-> next[last],
            prev |-> IF next[last] = NOCHAN THEN Behind(last) ELSE last]

(* Planted defect: the delay is taken for 100ns units. *)
DueAtUnits(dt) == now + 10 * dt

(* DpcTime of a call that is asked for now. *)
DueAt(dt) == now + dt

(* The channel is put where the walk ended.  It may be in the list already, *)
(* and even be one of the two entries the walk ended between.               *)
Insert(c, t) ==
  LET end == WalkEnd(t)
  IN  /\ firstDpc' = IF end.prev = NOCHAN THEN c ELSE firstDpc
      /\ next' = [x \in Chans |-> IF x = c THEN end.at
                                  ELSE IF x = end.prev THEN c ELSE next[x]]
      /\ hasTimer' = [hasTimer EXCEPT ![c] = TRUE]
      /\ due' = [due EXCEPT ![c] = t]

(* AtapiQueueTimerDpc, called by an interrupt handler or by a call that is *)
(* being made.                                                             *)
QueueTimerDpc(c, dt) ==
  /\ ~halted
  /\ now + dt <= MaxTime
  /\ \/ /\ Endless(DueAt(dt))
        /\ halted' = TRUE
        /\ UNCHANGED <<list, wake, relinked>>
     \/ /\ ~Endless(DueAt(dt))
        /\ Insert(c, DueAt(dt))
        /\ wake' = now + (IF dt = 0 THEN 1 ELSE dt)
        /\ relinked' = (relinked \/ c \in From(firstDpc))
        /\ UNCHANGED halted
  /\ UNCHANGED <<now, active, recall>>

(* Planted defects: the head stays in the list, or nothing is recalled.    *)
TakeHeadAgain(c, links) ==
  /\ active' = c
  /\ hasTimer' = [hasTimer EXCEPT ![c] = FALSE]
  /\ halted' = ~hasTimer[c]
  /\ recall' = (recall \/ links[c] # NOCHAN)
  /\ UNCHANGED <<firstDpc, due>>

TakeHeadLast(c, links) ==
  /\ active' = c
  /\ hasTimer' = [hasTimer EXCEPT ![c] = FALSE]
  /\ halted' = ~hasTimer[c]
  /\ firstDpc' = links[c]
  /\ UNCHANGED <<recall, due>>

(* Take the head of the list, given its links, and call its HwScsiTimer,   *)
(* which is NULL when it has been taken before.                            *)
TakeHead(c, links) ==
  /\ active' = c
  /\ hasTimer' = [hasTimer EXCEPT ![c] = FALSE]
  /\ halted' = ~hasTimer[c]
  /\ firstDpc' = links[c]
  /\ recall' = (recall \/ links[c] # NOCHAN)
  /\ UNCHANGED due

(* AtapiTimerDpc: the first entry is called without looking at its time. *)
Fire ==
  /\ ~halted
  /\ active = NOCHAN
  /\ wake # NEVER
  /\ now >= wake
  /\ wake' = NEVER
  /\ IF firstDpc = NOCHAN
     THEN UNCHANGED <<firstDpc, hasTimer, due, active, recall, halted>>
     ELSE TakeHead(firstDpc, next)
  /\ UNCHANGED <<now, next, relinked>>

(* ... the call returns: the entry's link is cut, and the next entry is    *)
(* called if it is due.  If it is not, the timer is set again, with the    *)
(* difference of the times taken the wrong way round.                      *)
Return ==
  /\ ~halted
  /\ active # NOCHAN
  /\ next' = [next EXCEPT ![active] = NOCHAN]
  /\ \/ /\ firstDpc = NOCHAN
        /\ active' = NOCHAN
        /\ recall' = FALSE
        /\ UNCHANGED <<firstDpc, hasTimer, due, wake, halted>>
     \/ /\ firstDpc # NOCHAN
        /\ now >= due[firstDpc] - Slack
        /\ TakeHead(firstDpc, next')
        /\ UNCHANGED wake
     \/ /\ firstDpc # NOCHAN
        /\ now < due[firstDpc] - Slack
        /\ active' = NOCHAN
        /\ recall' = FALSE
        /\ wake' = IF recall THEN now + Wrap - (due[firstDpc] - now) ELSE wake
        /\ UNCHANGED <<firstDpc, hasTimer, due, halted>>
  /\ UNCHANGED <<now, relinked>>

Tick ==
  /\ ~halted
  /\ now < MaxTime
  /\ now' = now + 1
  /\ UNCHANGED <<list, wake, active, recall, halted, relinked>>

NextDpc == \/ Fire \/ Return \/ Tick
           \/ \E c \in Chans, dt \in Delays : QueueTimerDpc(c, dt)

SpecDpc == InitDpc /\ [][NextDpc]_dpcVars
-----------------------------------------------------------------------------
TypeOKDpc ==
  /\ now \in 0..MaxTime
  /\ firstDpc \in Chans \cup {NOCHAN}
  /\ next \in [Chans -> Chans \cup {NOCHAN}]
  /\ hasTimer \in [Chans -> BOOLEAN]
  /\ due \in [Chans -> 0..MaxTime]
  /\ wake = NEVER \/ wake \in 0..MaxTime + Wrap
  /\ active \in Chans \cup {NOCHAN}
  /\ {recall, halted, relinked} \subseteq BOOLEAN

(* AtapiTimerDpc calls HwScsiTimer of every entry it takes: every channel  *)
(* in the list must have one, or the driver calls address 0, and the walk  *)
(* of AtapiQueueTimerDpc must end.  A channel that asks again while it is  *)
(* in the list may link it to itself, which the callers do not prevent:    *)
(* then both happen.                                                       *)
NeverCallsNull == relinked \/ (~halted /\ \A c \in From(firstDpc) : hasTimer[c])

(* When AtapiTimerDpc has returned and calls are left in the list, the     *)
(* timer is set.  It may be set for much too late, see Return.             *)
TimerSet == active = NOCHAN /\ firstDpc # NOCHAN => wake # NEVER

(* The list is in order of time, so a call is not held up by later ones,   *)
(* until a channel that is in the list asks again.                         *)
InOrder ==
  relinked \/ \A c \in From(firstDpc) : next[c] # NOCHAN => due[c] <= due[next[c]]
=============================================================================
