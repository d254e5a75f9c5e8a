------------------------------ MODULE LedBoard ------------------------------
(***************************************************************************)
(* The LED board that scrolls tweets (twitterboard).  BoardController is a *)
(* thread that takes notifications from one queue and wake-ups from        *)
(* another, draws a message into text.ppm, hands it to the process that    *)
(* drives the matrix, and waits for the scrolling to end or for a wake-up. *)
(* The callbacks of the Kaa client (external: one callback thread) put     *)
(* notifications and configurations, and redraw default.ppm themselves.    *)
(* How long a message scrolls is abstracted: it may end at any time.       *)
(***************************************************************************)
EXTENDS Integers, Sequences, Functions

CONSTANTS
  MaxNotes,     \* notifications received in one behaviour
  MaxConfigs,   \* configuration updates
  MaxFaults     \* exceptions out of drawing an image or starting the display

ASSUME BoardBounds == MaxNotes \in Nat /\ MaxConfigs \in Nat /\ MaxFaults \in Nat

VARIABLES
  queue,         \* notifications not yet taken, oldest first
  updates,       \* wake-ups not yet taken
  configuration, \* whether queueSize is 0, the colours, the default message
  defaultFile,   \* what default.ppm holds
  textFile,      \* what text.ppm holds
  shown,         \* what the matrix shows
  notification,  \* the notification in hand
  at,            \* where the board's thread is
  callback,      \* what the running callback still has to do
  booted,        \* the configuration the thread's first default image is drawn from
  shutdown,      \* how far shutdown() has come: the flag, then the interruption
  interrupted,   \* the thread's interrupt status
  issued, configs, faults   \* how much of the bounds is used

vars == <<queue, updates, configuration, defaultFile, textFile, shown, notification, at,
          callback, booted, shutdown, interrupted, issued, configs, faults>>

counters == <<issued, configs, faults>>

Configurations == [queueless : BOOLEAN, colours : {0, 1}, message : {0, 1}]

\* note is 0 for the default image and -1 for a dark matrix.
Images == [note : -1 .. MaxNotes, colours : {0, 1}, message : {0, 1}]
Blank == [note |-> -1, colours |-> 0, message |-> 0]
DefaultImage(c) == [note |-> 0, colours |-> c.colours, message |-> c.message]
MessageImage(n, c) == [note |-> n, colours |-> c.colours, message |-> 0]

\* A TwitterBoardUpdate: a notification, or a configuration with its redraw flag.
Updates == {"notification", "configuration", "redraw"}
Idle == [step |-> "idle", update |-> "notification"]
Places ==
  {"start", "generate", "loop", "default", "wait", "take", "skip", "draw", "show", "poll", "ended"}

TypeOK ==
  /\ queue \in Seq(1 .. MaxNotes)
  /\ updates \in Seq(Updates)
  /\ configuration \in Configurations /\ booted \in Configurations
  /\ defaultFile \in Images /\ textFile \in Images /\ shown \in Images
  /\ notification \in 0 .. MaxNotes
  /\ at \in Places
  /\ callback \in [step : {"idle", "draw", "add"}, update : Updates]
  /\ shutdown \in {"none", "stopped", "interrupted"} /\ interrupted \in BOOLEAN
  /\ issued \in 0 .. MaxNotes /\ configs \in 0 .. MaxConfigs /\ faults \in 0 .. MaxFaults

\* The colours and the message the board starts with are called 0.
Init ==
  /\ queue = <<>> /\ updates = <<>>
  /\ configuration \in [queueless : BOOLEAN, colours : {0}, message : {0}]
  /\ booted = configuration
  /\ defaultFile = Blank /\ textFile = Blank /\ shown = Blank
  /\ notification = 0
  /\ at = "start" /\ callback = Idle
  /\ shutdown = "none" /\ interrupted = FALSE
  /\ issued = 0 /\ configs = 0 /\ faults = 0

-----------------------------------------------------------------------------
\* The callback thread.

\* onNotification puts the notification first and the wake-up second.
OnNotification ==
  /\ callback.step = "idle" /\ issued < MaxNotes
  /\ issued' = issued + 1
  /\ queue' = Append(queue, issued')
  /\ callback' = [step |-> "add", update |-> "notification"]
  /\ UNCHANGED <<updates, configuration, defaultFile, textFile, shown, notification, at, booted,
                 shutdown, interrupted, configs, faults>>

\* onConfigurationUpdate publishes the configuration before it redraws default.ppm.
OnConfigurationUpdate ==
  /\ callback.step = "idle" /\ configs < MaxConfigs
  /\ \E c \in Configurations \ {configuration} :
       /\ configuration' = c
       /\ callback' =
            [step |-> IF DefaultImage(c) = DefaultImage(configuration) THEN "add" ELSE "draw",
             update |-> IF c.colours = configuration.colours THEN "configuration" ELSE "redraw"]
  /\ configs' = configs + 1
  /\ UNCHANGED <<queue, updates, defaultFile, textFile, shown, notification, at, booted,
                 shutdown, interrupted, issued, faults>>

\* generateDefaultMessageImage in the callback; an exception is only logged.
RedrawDefault ==
  /\ callback.step = "draw"
  /\ callback' = [callback EXCEPT !.step = "add"]
  /\ \/ defaultFile' = DefaultImage(configuration) /\ UNCHANGED faults
     \/ faults < MaxFaults /\ faults' = faults + 1 /\ UNCHANGED defaultFile
  /\ UNCHANGED <<queue, updates, configuration, textFile, shown, notification, at, booted,
                 shutdown, interrupted, issued, configs>>

AddUpdate ==
  /\ callback.step = "add"
  /\ updates' = Append(updates, callback.update)
  /\ callback' = Idle
  /\ UNCHANGED <<queue, configuration, defaultFile, textFile, shown, notification, at, booted,
                 shutdown, interrupted, counters>>

-----------------------------------------------------------------------------
\* The board's thread.

Go(from, to) == at = from /\ at' = to

\* run draws the default image once, from the configuration it finds then.
StartDefault ==
  /\ Go("start", "generate")
  /\ booted' = configuration
  /\ UNCHANGED <<queue, updates, configuration, defaultFile, textFile, shown, notification,
                 callback, shutdown, interrupted, counters>>

GenerateDefault ==
  /\ Go("generate", "loop")
  /\ \/ defaultFile' = DefaultImage(booted) /\ UNCHANGED faults
     \/ faults < MaxFaults /\ faults' = faults + 1 /\ UNCHANGED defaultFile
  /\ UNCHANGED <<queue, updates, configuration, textFile, shown, notification, callback, booted,
                 shutdown, interrupted, issued, configs>>

\* Mutant: a single notification in the queue is taken for none.
LoopOffByOne ==
  /\ at = "loop"
  /\ at' = IF shutdown # "none" THEN "ended" ELSE IF Len(queue) <= 1 THEN "default" ELSE "take"
  /\ UNCHANGED <<queue, updates, configuration, defaultFile, textFile, shown, notification,
                 callback, booted, shutdown, interrupted, counters>>

\* The loop's condition and its test of the queue.
Loop ==
  /\ at = "loop"
  /\ at' = IF shutdown # "none" THEN "ended" ELSE IF queue = <<>> THEN "default" ELSE "take"
  /\ UNCHANGED <<queue, updates, configuration, defaultFile, textFile, shown, notification,
                 callback, booted, shutdown, interrupted, counters>>

\* display stops the running process and starts one for the file; when that
\* throws, run logs it and begins again.
Display(file, to) ==
  /\ \/ at' = to /\ shown' = file /\ UNCHANGED faults
     \/ at' = "loop" /\ shown' = Blank /\ faults < MaxFaults /\ faults' = faults + 1
  /\ UNCHANGED <<queue, updates, configuration, defaultFile, textFile, notification,
                 callback, booted, shutdown, interrupted, issued, configs>>

ShowDefault == at = "default" /\ Display(defaultFile, "wait")

\* updates.take() with nothing to show: any wake-up sends the thread round.
WakeUp ==
  /\ Go("wait", "loop")
  /\ ~interrupted /\ updates # <<>>
  /\ updates' = Tail(updates)
  /\ UNCHANGED <<queue, configuration, defaultFile, textFile, shown, notification,
                 callback, booted, shutdown, interrupted, counters>>

\* Mutant: the newest is taken first, and an older one replaces it.
TakeNewest ==
  /\ \/ at = "take" /\ queue # <<>>
     \/ at = "skip" /\ Len(queue) >= 1
  /\ ~interrupted
  /\ notification' = queue[Len(queue)] /\ queue' = SubSeq(queue, 1, Len(queue) - 1)
  /\ at' = "skip"
  /\ UNCHANGED <<updates, configuration, defaultFile, textFile, shown,
                 callback, booted, shutdown, interrupted, counters>>

\* queue.take(): the first one, then again while more than one is waiting.
TakeNotification ==
  /\ \/ at = "take" /\ queue # <<>>
     \/ at = "skip" /\ Len(queue) >= 1
  /\ ~interrupted
  /\ notification' = Head(queue) /\ queue' = Tail(queue)
  /\ at' = "skip"
  /\ UNCHANGED <<updates, configuration, defaultFile, textFile, shown,
                 callback, booted, shutdown, interrupted, counters>>

NoMoreToSkip ==
  /\ Go("skip", "draw") /\ queue = <<>>
  /\ UNCHANGED <<queue, updates, configuration, defaultFile, textFile, shown, notification,
                 callback, booted, shutdown, interrupted, counters>>

\* generateMessageImage; when it throws the message is lost.
DrawMessage ==
  /\ at = "draw"
  /\ \/ at' = "show" /\ textFile' = MessageImage(notification, configuration) /\ UNCHANGED faults
     \/ at' = "loop" /\ faults < MaxFaults /\ faults' = faults + 1 /\ UNCHANGED textFile
  /\ UNCHANGED <<queue, updates, configuration, defaultFile, shown, notification,
                 callback, booted, shutdown, interrupted, issued, configs>>

ShowMessage == at = "show" /\ Display(textFile, "poll")

\* Mutant: one wake-up clears all the others that are waiting.
PollUpdateDrains ==
  /\ at = "poll" /\ ~interrupted /\ updates # <<>>
  /\ updates' = <<>>
  /\ at' = CASE Head(updates) = "notification" /\ configuration.queueless -> "loop"
             [] Head(updates) = "redraw" -> "draw"
             [] OTHER -> "poll"
  /\ UNCHANGED <<queue, configuration, defaultFile, textFile, shown, notification,
                 callback, booted, shutdown, interrupted, counters>>

\* updates.poll: a notification ends the message when queueSize is 0, a
\* configuration draws it again when its colours changed.
PollUpdate ==
  /\ at = "poll" /\ ~interrupted /\ updates # <<>>
  /\ updates' = Tail(updates)
  /\ at' = CASE Head(updates) = "notification" /\ configuration.queueless -> "loop"
             [] Head(updates) = "redraw" -> "draw"
             [] OTHER -> "poll"
  /\ UNCHANGED <<queue, configuration, defaultFile, textFile, shown, notification,
                 callback, booted, shutdown, interrupted, counters>>

\* The scrolling time is over, whether or not a wake-up is waiting.
Finish ==
  /\ Go("poll", "loop")
  /\ UNCHANGED <<queue, updates, configuration, defaultFile, textFile, shown, notification,
                 callback, booted, shutdown, interrupted, counters>>

\* A blocking call of an interrupted thread throws; run catches it like any
\* other exception and begins again.
Interrupted ==
  /\ at \in {"wait", "take", "poll"} \/ (at = "skip" /\ queue # <<>>)
  /\ interrupted /\ interrupted' = FALSE
  /\ at' = "loop"
  /\ UNCHANGED <<queue, updates, configuration, defaultFile, textFile, shown, notification,
                 callback, booted, shutdown, counters>>

-----------------------------------------------------------------------------
\* shutdown, called by main when the process is told to end.
Shutdown ==
  /\ shutdown = "none" /\ shutdown' = "stopped"
  /\ UNCHANGED <<queue, updates, configuration, defaultFile, textFile, shown, notification, at,
                 callback, booted, interrupted, counters>>

\* Mutant: only the flag is set, and the thread is left blocked.
InterruptForgotten ==
  /\ shutdown = "stopped" /\ shutdown' = "interrupted"
  /\ UNCHANGED <<queue, updates, configuration, defaultFile, textFile, shown, notification, at,
                 callback, booted, interrupted, counters>>

\* Its second statement, which a thread that has ended by itself ignores.
Interrupt ==
  /\ shutdown = "stopped" /\ shutdown' = "interrupted"
  /\ interrupted' = (at # "ended")
  /\ UNCHANGED <<queue, updates, configuration, defaultFile, textFile, shown, notification, at,
                 callback, booted, counters>>

-----------------------------------------------------------------------------
Board ==
  \/ StartDefault \/ GenerateDefault \/ Loop \/ ShowDefault \/ WakeUp
  \/ TakeNotification \/ NoMoreToSkip \/ DrawMessage \/ ShowMessage
  \/ PollUpdate \/ Finish \/ Interrupted

Callback == OnNotification \/ OnConfigurationUpdate \/ RedrawDefault \/ AddUpdate

Next == Board \/ Callback \/ Shutdown \/ Interrupt

Spec == Init /\ [][Next]_vars

\* The threads are scheduled and a callback that began is carried on; that
\* something is received, or that the process is told to end, is not promised.
FairSpec ==
  /\ Spec
  /\ WF_vars(Board) /\ WF_vars(RedrawDefault) /\ WF_vars(AddUpdate) /\ WF_vars(Interrupt)

-----------------------------------------------------------------------------
\* No wake-up is lost, although a notification and its wake-up (and a
\* configuration, its image and its wake-up) are put one after the other: when
\* no wake-up is waiting and no callback is running, a thread that waits for
\* one has nothing left to show and shows what default.ppm holds now, and a
\* message that scrolls has the colours of the newest configuration.
SteadyBoardIsCurrent ==
  updates = <<>> /\ callback.step = "idle" =>
    /\ at = "wait" => queue = <<>> /\ shown = defaultFile
    /\ at = "poll" => shown = MessageImage(notification, configuration)

\* Between the two queues and the thread no notification is lost, repeated or
\* overtaken: those in the queue are the ones after the one in hand, up to the
\* newest; the matrix never shows one that was not taken, and a message that
\* scrolls, also one drawn again in new colours, is the one in hand.
NoNotificationIsLost ==
  /\ \A k \in 1 .. Len(queue) : queue[k] = notification + k
  /\ issued = notification + Len(queue)
  /\ shown.note <= notification
  /\ at = "poll" => shown.note = notification

\* The board's thread ends only when it was told to; and once it is interrupted
\* it either has that before it, to meet at its next blocking call, or has met it
\* and is on its way out: run, which swallows the exception, loses neither.
BoardEndsWhenTold ==
  /\ at = "ended" => shutdown # "none"
  /\ shutdown = "interrupted" => interrupted \/ at \in {"loop", "ended"}

\* A notification is shown, or skipped because a newer one is there to show,
\* unless the board is shut down; one that could not be drawn is at least taken.
NotificationsAreShown ==
  \A n \in 1 .. MaxNotes :
    n \in Range(queue) ~> \/ shown.note >= n
                          \/ faults > 0 /\ notification >= n
                          \/ shutdown # "none"

\* shutdown ends the thread wherever it blocks, although run swallows the
\* interruption like any exception: the flag is set first.
ShutdownEnds == shutdown # "none" ~> at = "ended"
=============================================================================
