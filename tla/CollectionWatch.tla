--------------------------- MODULE CollectionWatch ---------------------------
(***************************************************************************)
(* What watches over the collector and tells its user: the sleep guard     *)
(* (src/src/power.py), the queue of messages of the monitor (monitor.py)   *)
(* and the Telegram notifier (notify.py), as collect_orderbook.py puts     *)
(* them together.  When the monitor reports silence and recovery is        *)
(* Collector's; here these reports are messages that may come at any time. *)
(*                                                                         *)
(* The event loop ticks the guard and posts messages; a thread sends them: *)
(* it reads the first, waits for the answer and takes the first away.  At  *)
(* the end of the process final() sends what is left, and when the end is  *)
(* that of another task's failure, the loop's thread may still be sending. *)
(***************************************************************************)
EXTENDS Integers, FiniteSets, Sequences, SequencesExt

CONSTANTS
    MaxQueue,     \* CollectionMonitor.max_queue
    Grace,        \* net_grace_s, in ticks of the guard
    MaxMessages   \* bound: messages

ASSUME WatchAssumption ==
    /\ MaxQueue \in Nat \ {0} /\ Grace \in Nat /\ MaxMessages \in Nat

VARIABLES
    power,      \* mains, a battery below the floor, and the network
    caffeinate, \* SleepGuard._proc: none, running, or it died
    netDown,    \* ticks since _net_down_since, 0 for None
    code,       \* _last_code, and the monitor's _last_power
    outbox,     \* the monitor's queue of messages, by number
    sending,    \* per flush: not running, at the head of its loop, or the message
    ended,      \* the tasks have ended and final() is on
    \* history: the messages made, those delivered or refused for good, the
    \* last message about power, appends at a full queue, two flushes at once
    made, sent, told, full, overlapped

guardVars == <<power, caffeinate, netDown, code, told>>
watchHistory == <<made, sent, full, overlapped>>
watchVars == <<guardVars, outbox, sending, ended, watchHistory>>

Flushes == {"loop", "final"}
Off == 0
AtHead == -1
Released == {"battery_low", "net_down"}

WatchInit ==
    /\ power = [ac |-> TRUE, low |-> FALSE, net |-> TRUE]
    /\ caffeinate = "none" /\ netDown = 0 /\ code = "none" /\ told = "none"
    /\ outbox = <<>> /\ sending = [f \in Flushes |-> Off] /\ ended = FALSE
    /\ made = 0 /\ sent = {} /\ full = 0 /\ overlapped = FALSE

-----------------------------------------------------------------------------
(* Messages.                                                               *)

\* CollectionMonitor.queue.append: a full deque drops its first.
Post ==
    /\ made < MaxMessages /\ made' = made + 1
    /\ IF Len(outbox) < MaxQueue THEN outbox' = Append(outbox, made') /\ UNCHANGED full
       ELSE outbox' = Append(Tail(outbox), made') /\ full' = full + 1
\* check, or a backfiller's notify.
Report == ~ended /\ Post /\ UNCHANGED <<guardVars, sending, ended, sent, overlapped>>

\* CollectionMonitor.run: a thread flushes.
StartFlush ==
    /\ ~ended /\ sending["loop"] = Off /\ outbox # <<>>
    /\ sending' = [sending EXCEPT !["loop"] = AtHead]
    /\ UNCHANGED <<guardVars, outbox, ended, watchHistory>>
SendFirst(f) ==
    /\ sending[f] = AtHead
    /\ sending' = [sending EXCEPT ![f] = IF outbox = <<>> THEN Off ELSE Head(outbox)]
    /\ UNCHANGED <<guardVars, outbox, ended, watchHistory>>
\* Mutant of Answered: the message is taken away whatever the answer was.
AnsweredOnce(f) ==
    /\ sending[f] > 0 /\ \E got \in {{}, {sending[f]}} : sent' = sent \cup got
    /\ outbox' = IF outbox = <<>> THEN outbox ELSE Tail(outbox)
    /\ sending' = [sending EXCEPT ![f] = AtHead]
\* TelegramNotifier.send returns and the flush goes on, or it failed, perhaps
\* with the message delivered.  popleft on a queue emptied meanwhile raises.
Answered(f) ==
    /\ sending[f] > 0
    /\ \/ /\ sent' = sent \cup {sending[f]}
          /\ outbox' = IF outbox = <<>> THEN outbox ELSE Tail(outbox)
          /\ sending' = [sending EXCEPT ![f] = IF outbox = <<>> THEN Off ELSE AtHead]
       \/ /\ sent' \in {sent, sent \cup {sending[f]}}
          /\ sending' = [sending EXCEPT ![f] = Off] /\ UNCHANGED outbox
Answer(f) == Answered(f) /\ UNCHANGED <<guardVars, ended, made, full, overlapped>>

\* The end: the guard lets go, final() posts its text and flushes.
End ==
    /\ ~ended /\ ended' = TRUE /\ Post
    /\ caffeinate' = "none"
    /\ overlapped' = (sending["loop"] # Off)
    /\ sending' = [sending EXCEPT !["final"] = AtHead]
    /\ UNCHANGED <<power, netDown, code, told, sent>>

-----------------------------------------------------------------------------
(* The sleep guard.                                                        *)

\* Power, battery and network change; caffeinate dies.
World ==
    /\ ~ended
    /\ \/ power' \in [ac : BOOLEAN, low : BOOLEAN, net : BOOLEAN] /\ UNCHANGED caffeinate
       \/ caffeinate = "running" /\ caffeinate' = "died" /\ UNCHANGED power
    /\ UNCHANGED <<netDown, code, told, outbox, sending, ended, watchHistory>>

\* SleepPolicy.should_hold; the time down is counted from its first tick.
CodeNow(down) ==
    IF power.ac THEN "ac" ELSE IF power.low THEN "battery_low"
    ELSE IF power.net THEN "battery_ok"
    ELSE IF down - 1 >= Grace THEN "net_down" ELSE "net_grace"
\* Mutant of PowerMessage: the first code after the start is none of a change.
PowerMessageOfChange(new) ==
    CASE new \in Released /\ code \notin Released \cup {"none"} -> "released"
      [] new \in {"ac", "battery_ok"} /\ code \in Released -> "resumed"
      [] OTHER -> "none"
\* CollectionMonitor.on_power
PowerMessage(new) ==
    CASE new \in Released /\ code \notin Released -> "released"
      [] new \in {"ac", "battery_ok"} /\ code \in Released -> "resumed"
      [] OTHER -> "none"
\* SleepGuard.tick, and the record it emits; a tick that cannot read the power
\* changes nothing.
GuardTick ==
    LET down == IF power.net THEN 0 ELSE IF netDown > Grace THEN netDown ELSE netDown + 1
        new == CodeNow(down)
        hold == new \notin Released
    IN
    /\ ~ended /\ netDown' = down /\ code' = new
    /\ caffeinate' = IF hold THEN "running" ELSE IF caffeinate = "running" THEN "none" ELSE caffeinate
    /\ IF PowerMessage(new) # "none" THEN Post /\ told' = PowerMessage(new)
       ELSE UNCHANGED <<outbox, made, full, told>>
    /\ UNCHANGED <<power, sending, ended, sent, overlapped>>

WatchNext ==
    \/ Report \/ StartFlush \/ (\E f \in Flushes : SendFirst(f) \/ Answer(f))
    \/ End \/ World \/ GuardTick

-----------------------------------------------------------------------------
(* Properties.                                                             *)

\* While the guard lets the machine sleep, caffeinate does not run and the
\* user's last word about it is that it was let go: however the readings have
\* gone to and fro, the machine never goes to sleep unannounced.
ReleaseIsTold == code \in Released => told = "released" /\ caffeinate # "running"

\* A message that is neither sent nor waiting was pushed out: each append at a
\* full queue costs one message at most, and nothing else costs any, while
\* one thread sends.
MessagesArrive ==
    ~overlapped => Cardinality((1..made) \ (sent \cup ToSet(outbox))) <= full
=============================================================================
