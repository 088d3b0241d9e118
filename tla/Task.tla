-------------------------------- MODULE Task --------------------------------
(***************************************************************************)
(* Task and TaskPoller (boto/manage/task.py): a repeating task, kept in    *)
(* SimpleDB, that the pollers execute when they read its message from an   *)
(* SQS queue; the message then makes way for a new one.                    *)
(*                                                                         *)
(* pollers[p].pc:                                                          *)
(*   poll, load        before the read; before Task.get_by_id              *)
(*   run, write, put, delete   the steps of Task.run when it is time       *)
(*   defer             before change_visibility, when it is not            *)
(*   dead              an exception has left poll                          *)
(*                                                                         *)
(* Time goes by the hour, and what a poller does with a message takes less *)
(* than one.                                                               *)
(***************************************************************************)
EXTENDS Integers, FiniteSets

CONSTANTS Poller, Message,
          NoMessage, Nobody,
          Hour,            \* the hour of the task
          EveryHour,       \* hour = '*'
          Never,           \* last_executed is None
          MaxVisibility,   \* hours a message may be hidden: 12
          MaxMishaps       \* bound: crashes and lapses

ASSUME TaskAssumption ==
    /\ Hour \in 0..23 \/ Hour = EveryHour
    /\ EveryHour \notin Int /\ Never \notin Int
    /\ NoMessage \notin Message \cup Poller \cup Int \cup {Nobody}
    /\ Nobody \notin Poller \cup Int /\ \A p \in Poller : p \notin Int
    /\ MaxVisibility \in Nat /\ MaxMishaps \in Nat

VARIABLES
    hour,       \* of the day; an hourly task needs none
    queue,      \* per message: none, or hours until it is visible, or its reader
    stored,     \* the item of the task: message_id, last_executed
    pollers,
    starter,    \* Task.start: its step, and its message
    executed,   \* history: executions in this hour
    mishaps,    \* history: crashes, and messages that lapse while they are held
    early       \* history: a message was taken before Task.start saved its id

taskVars == <<hour, queue, stored, pollers, starter, executed, mishaps, early>>

Queued == {m \in Message : queue[m] # NoMessage}

\* last_executed is the hours since then.  Times a day apart or more are
\* told from one another by the hours of a day only.
LastExecuted == 0..47 \cup {Never}

Item == [message_id : Message \cup {NoMessage}, last_executed : LastExecuted]

TaskTypeOK ==
    /\ hour \in 0..23
    /\ queue \in [Message -> 0..23 \cup Poller \cup {NoMessage, Nobody}]
    /\ stored \in Item
    /\ pollers \in [Poller ->
           [pc : {"poll", "load", "run", "write", "put", "delete", "defer", "dead"},
            m : Message \cup {NoMessage}, new_msg : Message \cup {NoMessage},
            delay : 0..23]]
    /\ starter \in [pc : {"idle", "put", "done"}, m : Message \cup {NoMessage}]
    /\ executed \in Nat
    /\ mishaps \in 0..MaxMishaps
    /\ early \in BOOLEAN

-----------------------------------------------------------------------------
\* An identity no message has, nor anyone remembers.
Unused(m) ==
    /\ queue[m] = NoMessage
    /\ stored.message_id # m
    /\ starter.m # m
    /\ \A p \in Poller : pollers[p].m # m /\ pollers[p].new_msg # m

AtPoll == [pc |-> "poll", m |-> NoMessage, new_msg |-> NoMessage, delay |-> 0]

PollerAt(p, pc) == pollers' = [pollers EXCEPT ![p].pc = pc]

Distance == IF Hour > hour THEN Hour - hour ELSE hour - Hour

\* Task.check, in hours.  An hourly task looks at delta.seconds, which leaves
\* the days out; a daily one takes the distance between the hours of the day
\* as the time to wait.
Check ==
    LET last == stored.last_executed
    IN  IF Hour = EveryHour THEN IF last = Never \/ last % 24 >= 1 THEN 0 ELSE 1
        ELSE IF Hour # hour THEN Distance
        ELSE IF last = Never \/ last >= 24 THEN 0 ELSE 23

-----------------------------------------------------------------------------
(* Task.start.                                                             *)

StartWrites ==
    /\ starter.pc = "idle"
    /\ \E m \in Message :
          /\ Unused(m)
          /\ queue' = [queue EXCEPT ![m] = 0]
          /\ starter' = [pc |-> "put", m |-> m]
    /\ UNCHANGED <<hour, stored, pollers, executed, mishaps, early>>

\* put saves every property of the task as it was when it was loaded.
StartPuts ==
    /\ starter.pc = "put"
    /\ stored' = [message_id |-> starter.m, last_executed |-> Never]
    /\ starter' = [pc |-> "done", m |-> NoMessage]
    /\ UNCHANGED <<hour, queue, pollers, executed, mishaps, early>>

-----------------------------------------------------------------------------
(* TaskPoller.poll and Task.run.                                           *)

Read(p) ==
    /\ pollers[p].pc = "poll"
    /\ \E m \in Message :
          /\ queue[m] = 0
          /\ queue' = [queue EXCEPT ![m] = p]
          /\ pollers' = [pollers EXCEPT ![p] = [AtPoll EXCEPT !.pc = "load", !.m = m]]
    /\ UNCHANGED <<hour, stored, starter, executed, mishaps, early>>

Takes(m) == stored.message_id \in {NoMessage, m}

\* "found extraneous message, ignoring": its timeout will expire.
Ignore(p) ==
    LET m == pollers[p].m
    IN  /\ pollers[p].pc = "load"
        /\ ~Takes(m)
        /\ queue' = IF queue[m] = p THEN [queue EXCEPT ![m] = Nobody] ELSE queue
        /\ pollers' = [pollers EXCEPT ![p] = AtPoll]
        /\ UNCHANGED <<hour, stored, starter, executed, mishaps, early>>

LoadTask(p) ==
    /\ pollers[p].pc = "load"
    /\ Takes(pollers[p].m)
    /\ early' = (early \/ stored.message_id = NoMessage)
    /\ pollers' = [pollers EXCEPT ![p].pc = IF Check = 0 THEN "run" ELSE "defer",
                                  ![p].delay = Check]
    /\ UNCHANGED <<hour, queue, stored, starter, executed, mishaps>>

\* The command.
Run(p) ==
    /\ pollers[p].pc = "run"
    /\ executed' = executed + 1
    /\ PollerAt(p, "write")
    /\ UNCHANGED <<hour, queue, stored, starter, mishaps, early>>

WriteMessage(p) ==
    /\ pollers[p].pc = "write"
    /\ \E m \in Message :
          /\ Unused(m)
          /\ queue' = [queue EXCEPT ![m] = 0]
          /\ pollers' = [pollers EXCEPT ![p].pc = "put", ![p].new_msg = m]
    /\ UNCHANGED <<hour, stored, starter, executed, mishaps, early>>

\* Fault: last_executed is not saved.
NewItemWithoutTime(m) == [stored EXCEPT !.message_id = m]

NewItem(m) == [message_id |-> m, last_executed |-> 0]

PutTask(p) ==
    /\ pollers[p].pc = "put"
    /\ stored' = NewItem(pollers[p].new_msg)
    /\ PollerAt(p, "delete")
    /\ UNCHANGED <<hour, queue, starter, executed, mishaps, early>>

\* The receipt of a message that has lapsed may not delete it.
Deleted(p) ==
    LET m == pollers[p].m
    IN  \/ queue' = [queue EXCEPT ![m] = NoMessage]
        \/ queue[m] # p /\ UNCHANGED queue

\* Fault: the old message goes before the new one is saved.
DeleteMessageBeforePut(p) ==
    /\ pollers[p].pc \in {"put", "delete"}
    /\ Deleted(p)
    /\ IF pollers[p].pc = "put" THEN PollerAt(p, "put")
       ELSE pollers' = [pollers EXCEPT ![p] = AtPoll]
    /\ UNCHANGED <<hour, stored, starter, executed, mishaps, early>>

DeleteMessage(p) ==
    /\ pollers[p].pc = "delete"
    /\ Deleted(p)
    /\ pollers' = [pollers EXCEPT ![p] = AtPoll]
    /\ UNCHANGED <<hour, stored, starter, executed, mishaps, early>>

\* change_visibility.
Defer(p) ==
    LET m == pollers[p].m
    IN  /\ pollers[p].pc = "defer"
        /\ pollers[p].delay <= MaxVisibility
        /\ queue[m] = p
        /\ queue' = [queue EXCEPT ![m] = pollers[p].delay]
        /\ pollers' = [pollers EXCEPT ![p] = AtPoll]
        /\ UNCHANGED <<hour, stored, starter, executed, mishaps, early>>

\* A delay that is too long, or a message that has lapsed, is an error, and
\* poll catches none.
DeferRaises(p) ==
    LET m == pollers[p].m
    IN  /\ pollers[p].pc = "defer"
        /\ pollers[p].delay > MaxVisibility \/ queue[m] # p
        /\ queue' = IF queue[m] = p THEN [queue EXCEPT ![m] = Nobody] ELSE queue
        /\ pollers' = [pollers EXCEPT ![p] = [AtPoll EXCEPT !.pc = "dead"]]
        /\ UNCHANGED <<hour, stored, starter, executed, mishaps, early>>

-----------------------------------------------------------------------------
(* The environment.                                                        *)

\* The timeout of a message nobody is at work on expires.
Timeout ==
    /\ \E m \in Message : queue[m] = Nobody /\ queue' = [queue EXCEPT ![m] = 0]
    /\ UNCHANGED <<hour, stored, pollers, starter, executed, mishaps, early>>

\* That of a message which is held: the extension came late.
Lapse ==
    /\ mishaps < MaxMishaps
    /\ mishaps' = mishaps + 1
    /\ \E m \in Message, p \in Poller : queue[m] = p /\ queue' = [queue EXCEPT ![m] = 0]
    /\ UNCHANGED <<hour, stored, pollers, starter, executed, early>>

\* A poller dies in the middle, and is started again.
PollerDies(p) ==
    LET m == pollers[p].m
    IN  /\ mishaps < MaxMishaps
        /\ mishaps' = mishaps + 1
        /\ pollers[p].pc # "poll"
        /\ pollers' = [pollers EXCEPT ![p] = AtPoll]
        /\ queue' = [x \in Message |-> IF queue[x] = p THEN Nobody ELSE queue[x]]
        /\ UNCHANGED <<hour, stored, starter, executed, early>>

Older(t) == IF t = Never THEN Never ELSE IF t = 47 THEN 24 ELSE t + 1

\* An hour passes: what could be done in the last one has been done.
Tick ==
    /\ starter.pc # "put"
    /\ \A p \in Poller : pollers[p].pc \in {"poll", "dead"}
    /\ (\E p \in Poller : pollers[p].pc = "poll") => \A m \in Message : queue[m] # 0
    /\ hour' = IF Hour = EveryHour THEN hour ELSE (hour + 1) % 24
    /\ queue' = [m \in Message |-> IF queue[m] \in 1..23 THEN queue[m] - 1 ELSE queue[m]]
    /\ stored' = [stored EXCEPT !.last_executed = Older(@)]
    /\ executed' = 0
    /\ UNCHANGED <<pollers, starter, mishaps, early>>

TaskInit ==
    /\ hour \in IF Hour = EveryHour THEN {0} ELSE 0..23
    /\ queue = [m \in Message |-> NoMessage]
    /\ stored = [message_id |-> NoMessage, last_executed |-> Never]
    /\ pollers = [p \in Poller |-> AtPoll]
    /\ starter = [pc |-> "idle", m |-> NoMessage]
    /\ executed = 0
    /\ mishaps = 0
    /\ early = FALSE

Poll(p) ==
    \/ Read(p) \/ Ignore(p) \/ LoadTask(p) \/ Run(p) \/ WriteMessage(p)
    \/ PutTask(p) \/ DeleteMessage(p) \/ Defer(p) \/ DeferRaises(p)

TaskNext ==
    \/ StartWrites \/ StartPuts \/ (\E p \in Poller : Poll(p))
    \/ Timeout \/ Lapse \/ (\E p \in Poller : PollerDies(p)) \/ Tick

\* Pollers go on polling, timeouts run out, time passes.
TaskSpec ==
    /\ TaskInit /\ [][TaskNext]_taskVars
    /\ WF_taskVars(StartPuts)
    /\ \A p \in Poller : WF_taskVars(Poll(p))
    /\ WF_taskVars(Timeout)
    /\ WF_taskVars(Tick)

-----------------------------------------------------------------------------
(* Properties.                                                             *)

\* Once started a task always has its message in the queue, whichever poller
\* dies where, unless one took it before Task.start had saved its id
\* (task.py:126-141, 143-150, 163-167).
ChainLives == stored.message_id # NoMessage /\ ~early => stored.message_id \in Queued

\* Without a crash or a lapse the command is executed once in an hour, by one
\* of the pollers (task.py:126-136, 165).
OnceAnHour == mishaps = 0 /\ ~early => executed <= 1

\* "hour='3' - the task would be executed at 3AM GMT each day" (task.py:43):
\* as long as a poller can run it, it is executed again and again.
DailyTaskIsExecuted == starter.pc = "done" ~> executed > 0 \/ early
=============================================================================
