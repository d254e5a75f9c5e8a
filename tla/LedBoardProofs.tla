--------------------------- MODULE LedBoardProofs ---------------------------
(***************************************************************************)
(* Proofs that the LED board loses no wake-up, no notification and no      *)
(* order to end, for any number of notifications, configurations and       *)
(* exceptions.                                                             *)
(***************************************************************************)
EXTENDS LedBoard, TLAPS

Running == callback.step # "idle"

\* A wake-up to draw the message again is waiting, or about to be put.
HasRedraw(s) == \E k \in 1 .. Len(s) : s[k] = "redraw"
RedrawPending == HasRedraw(updates) \/ (Running /\ callback.update = "redraw")

\* Between the test of the queue and the wait a wake-up may come, never be missed.
WaitInv ==
  /\ at \in {"default", "wait"} => queue = <<>> \/ updates # <<>> \/ Running
  /\ at = "wait" => shown = defaultFile \/ updates # <<>> \/ Running

\* A message drawn in old colours will be drawn again.
DrawnInv ==
  /\ at = "show" => textFile = MessageImage(notification, configuration) \/ RedrawPending
  /\ at = "poll" => shown = MessageImage(notification, configuration) \/ RedrawPending

IInv == TypeOK /\ WaitInv /\ DrawnInv

\* The notifications in the queue follow the one in hand; the files never hold a
\* later one.
QueueInv ==
  /\ \A k \in 1 .. Len(queue) : queue[k] = notification + k
  /\ issued = notification + Len(queue)
  /\ defaultFile.note <= 0 /\ shown.note <= notification
  /\ at = "show" => textFile.note = notification
  /\ at = "poll" => shown.note = notification

-----------------------------------------------------------------------------
\* What is put stays until it is taken, and only the head is taken.
LEMMA RedrawAppend ==
  ASSUME NEW s \in Seq(Updates), NEW u \in Updates
  PROVE  /\ Append(s, u) # <<>>
         /\ HasRedraw(Append(s, u)) <=> HasRedraw(s) \/ u = "redraw"
<1>1. Len(Append(s, u)) = Len(s) + 1 /\ Append(s, u)[Len(s) + 1] = u
  OBVIOUS
<1>2. \A k \in 1 .. Len(s) : Append(s, u)[k] = s[k]
  OBVIOUS
<1>3. Len(s) \in Nat
  OBVIOUS
<1> QED
  BY <1>1, <1>2, <1>3 DEF HasRedraw

LEMMA RedrawTail ==
  ASSUME NEW s \in Seq(Updates), s # <<>>
  PROVE  /\ Head(s) \in Updates /\ Tail(s) \in Seq(Updates)
         /\ HasRedraw(s) /\ Head(s) # "redraw" => HasRedraw(Tail(s))
<1>1. Head(s) \in Updates /\ Tail(s) \in Seq(Updates)
  OBVIOUS
<1>2. Len(s) \in Nat /\ Len(s) > 0 /\ Len(Tail(s)) = Len(s) - 1 /\ Head(s) = s[1]
  OBVIOUS
<1>3. \A k \in 1 .. Len(s) - 1 : Tail(s)[k] = s[k + 1]
  OBVIOUS
<1>4. ASSUME NEW k \in 1 .. Len(s), s[k] = "redraw", Head(s) # "redraw"
      PROVE  HasRedraw(Tail(s))
  <2>1. k # 1
    BY <1>2, <1>4
  <2>2. k - 1 \in 1 .. Len(s) - 1
    BY <1>2, <2>1
  <2>3. Tail(s)[k - 1] = "redraw"
    BY <1>2, <1>3, <1>4, <2>2
  <2> QED
    BY <1>2, <2>2, <2>3 DEF HasRedraw
<1> QED
  BY <1>1, <1>4 DEF HasRedraw

\* An image is one, and a message's image depends on the colours only.
LEMMA ImageType ==
  ASSUME BoardBounds, NEW c \in Configurations
  PROVE  /\ DefaultImage(c) \in Images /\ Blank \in Images
         /\ \A n \in 0 .. MaxNotes : MessageImage(n, c) \in Images
         /\ \A d \in Configurations : \A n :
              c.colours = d.colours => MessageImage(n, c) = MessageImage(n, d)
  BY DEF BoardBounds, Configurations, Images, DefaultImage, MessageImage, Blank

-----------------------------------------------------------------------------
LEMMA InitIInv == Init => IInv
<1> SUFFICES ASSUME Init PROVE IInv
  OBVIOUS
<1>1. configuration \in Configurations /\ booted \in Configurations
  BY DEF Init, Configurations
<1>2. defaultFile \in Images /\ textFile \in Images /\ shown \in Images
  BY BoardBounds DEF Init, Images, Blank
<1>3. queue \in Seq(1 .. MaxNotes) /\ updates \in Seq(Updates)
  BY DEF Init
<1>4. callback \in [step : {"idle", "draw", "add"}, update : Updates]
  BY DEF Init, Idle, Updates
<1>5. notification \in 0 .. MaxNotes /\ issued \in 0 .. MaxNotes /\ configs \in 0 .. MaxConfigs
        /\ faults \in 0 .. MaxFaults
  BY BoardBounds DEF Init
<1>6. interrupted \in BOOLEAN
  BY DEF Init
<1> QED
  BY <1>1, <1>2, <1>3, <1>4, <1>5, <1>6 DEF Init, IInv, TypeOK, Places, WaitInv, DrawnInv

\* The callback thread.
LEMMA CallbackIInv == ASSUME IInv, Callback PROVE IInv'
<1> USE BoardBounds DEF IInv, counters
<1>1. CASE OnNotification
  <2>1. TypeOK'
    <3>1. issued' \in 1 .. MaxNotes
      BY <1>1 DEF OnNotification, TypeOK
    <3>2. queue' \in Seq(1 .. MaxNotes)
      BY <1>1, <3>1 DEF OnNotification, TypeOK
    <3>3. callback' \in [step : {"idle", "draw", "add"}, update : Updates]
      BY <1>1 DEF OnNotification, Updates
    <3> QED
      BY <1>1, <3>1, <3>2, <3>3 DEF OnNotification, TypeOK
  <2>2. WaitInv' /\ DrawnInv'
    BY <1>1 DEF OnNotification, WaitInv, DrawnInv, Running, RedrawPending, HasRedraw
  <2> QED
    BY <2>1, <2>2
<1>2. CASE OnConfigurationUpdate
  <2>1. configuration' \in Configurations /\ configs' \in 0 .. MaxConfigs
    BY <1>2 DEF OnConfigurationUpdate, TypeOK
  <2>2. callback' \in [step : {"draw", "add"}, update : {"configuration", "redraw"}]
    BY <1>2 DEF OnConfigurationUpdate
  <2>3. configuration.colours = configuration'.colours \/ callback'.update = "redraw"
    BY <1>2 DEF OnConfigurationUpdate
  <2>4. TypeOK'
    BY <1>2, <2>1, <2>2 DEF OnConfigurationUpdate, TypeOK, Updates
  <2>5. Running'
    BY <2>2 DEF Running
  <2>6. MessageImage(notification, configuration') = MessageImage(notification, configuration)
          \/ RedrawPending'
    BY <2>1, <2>3, <2>5, ImageType DEF RedrawPending, TypeOK
  <2>7. WaitInv'
    BY <1>2, <2>5 DEF OnConfigurationUpdate, WaitInv
  <2>8. RedrawPending => RedrawPending'
    BY <1>2 DEF OnConfigurationUpdate, RedrawPending, Running, HasRedraw
  <2>9. DrawnInv'
    BY <1>2, <2>6, <2>8 DEF OnConfigurationUpdate, DrawnInv
  <2> QED
    BY <2>4, <2>7, <2>9
<1>3. CASE RedrawDefault
  <2>1. callback' \in [step : {"add"}, update : Updates] /\ callback'.update = callback.update
    BY <1>3 DEF RedrawDefault, TypeOK
  <2>2. defaultFile' \in Images /\ faults' \in 0 .. MaxFaults
    BY <1>3, ImageType DEF RedrawDefault, TypeOK
  <2>3. TypeOK'
    BY <1>3, <2>1, <2>2 DEF RedrawDefault, TypeOK
  <2>4. Running' /\ (RedrawPending => RedrawPending')
    BY <1>3, <2>1 DEF RedrawDefault, RedrawPending, Running, HasRedraw
  <2>5. WaitInv' /\ DrawnInv'
    BY <1>3, <2>4 DEF RedrawDefault, WaitInv, DrawnInv
  <2> QED
    BY <2>3, <2>5
<1>4. CASE AddUpdate
  <2>1. updates \in Seq(Updates) /\ callback.update \in Updates
    BY DEF TypeOK
  <2>2. updates' \in Seq(Updates) /\ updates' # <<>>
    BY <1>4, <2>1, RedrawAppend DEF AddUpdate
  <2>3. TypeOK'
    BY <1>4, <2>2 DEF AddUpdate, TypeOK, Idle, Updates
  <2>4. RedrawPending => RedrawPending'
    BY <1>4, <2>1, RedrawAppend DEF AddUpdate, RedrawPending
  <2>5. WaitInv' /\ DrawnInv'
    BY <1>4, <2>2, <2>4 DEF AddUpdate, WaitInv, DrawnInv
  <2> QED
    BY <2>3, <2>5
<1> QED
  BY <1>1, <1>2, <1>3, <1>4 DEF Callback

\* The board's thread: the types.
LEMMA BoardType == ASSUME TypeOK, Board PROVE TypeOK'
<1> USE BoardBounds DEF TypeOK, Go, counters, Places
<1>1. CASE StartDefault \/ Loop \/ NoMoreToSkip \/ Finish
  BY <1>1 DEF StartDefault, Loop, NoMoreToSkip, Finish
<1>2. CASE GenerateDefault
  BY <1>2, ImageType DEF GenerateDefault
<1>3. CASE ShowDefault \/ ShowMessage
  BY <1>3, ImageType DEF ShowDefault, ShowMessage, Display
<1>4. CASE WakeUp \/ PollUpdate
  <2>1. updates # <<>> /\ updates' = Tail(updates)
    BY <1>4 DEF WakeUp, PollUpdate
  <2>2. updates' \in Seq(Updates)
    BY <2>1, RedrawTail
  <2>3. at' \in {"loop", "draw", "poll"}
    BY <1>4 DEF WakeUp, PollUpdate
  <2> QED
    BY <1>4, <2>2, <2>3 DEF WakeUp, PollUpdate
<1>5. CASE TakeNotification
  <2>1. queue # <<>>
    BY <1>5 DEF TakeNotification
  <2>2. Head(queue) \in 1 .. MaxNotes /\ Tail(queue) \in Seq(1 .. MaxNotes)
    BY <2>1
  <2> QED
    BY <1>5, <2>2 DEF TakeNotification
<1>6. CASE DrawMessage
  <2>1. textFile' \in Images
    BY <1>6, ImageType DEF DrawMessage
  <2>2. at' \in {"show", "loop"} /\ faults' \in 0 .. MaxFaults
    BY <1>6 DEF DrawMessage
  <2> QED
    BY <1>6, <2>1, <2>2 DEF DrawMessage
<1>7. CASE Interrupted
  <2>1. interrupted' \in BOOLEAN /\ at' \in Places
    BY <1>7 DEF Interrupted
  <2> QED
    BY <1>7, <2>1 DEF Interrupted
<1> QED
  BY <1>1, <1>2, <1>3, <1>4, <1>5, <1>6, <1>7 DEF Board

\* ... and what it knows at each place.
LEMMA BoardIInv == ASSUME IInv, Board PROVE IInv'
<1> USE DEF Go, counters, Running, RedrawPending, HasRedraw
<1>1. TypeOK'
  BY BoardType DEF IInv
<1>2. CASE StartDefault \/ GenerateDefault \/ Loop \/ NoMoreToSkip \/ Finish \/ WakeUp
             \/ TakeNotification \/ Interrupted
  <2>1. at' \notin {"wait", "show", "poll"} /\ (at' = "default" => queue' = <<>>)
    BY <1>2 DEF StartDefault, GenerateDefault, Loop, NoMoreToSkip, Finish, WakeUp,
                TakeNotification, Interrupted
  <2> QED
    BY <1>1, <2>1 DEF IInv, WaitInv, DrawnInv
<1>3. CASE ShowDefault
  BY <1>1, <1>3 DEF ShowDefault, Display, IInv, WaitInv, DrawnInv
<1>4. CASE DrawMessage
  BY <1>1, <1>4 DEF DrawMessage, IInv, WaitInv, DrawnInv
<1>5. CASE ShowMessage
  BY <1>1, <1>5 DEF ShowMessage, Display, IInv, WaitInv, DrawnInv
<1>6. CASE PollUpdate
  <2>1. updates \in Seq(Updates) /\ updates # <<>> /\ updates' = Tail(updates)
    BY <1>6 DEF PollUpdate, IInv, TypeOK
  <2>2. at' = "poll" => Head(updates) # "redraw"
    BY <1>6 DEF PollUpdate
  <2>3. at' \in {"loop", "draw", "poll"}
    BY <1>6 DEF PollUpdate
  <2>4. at' = "poll" /\ RedrawPending => RedrawPending'
    BY <1>6, <2>1, <2>2, RedrawTail DEF PollUpdate
  <2>5. WaitInv'
    BY <2>3 DEF WaitInv
  <2>6. DrawnInv'
    BY <1>6, <2>3, <2>4 DEF PollUpdate, IInv, DrawnInv
  <2> QED
    BY <1>1, <2>5, <2>6 DEF IInv
<1> QED
  BY <1>2, <1>3, <1>4, <1>5, <1>6 DEF Board

LEMMA Inductive == Spec => []IInv
<1>1. IInv /\ (Shutdown \/ Interrupt \/ UNCHANGED vars) => IInv'
  <2> SUFFICES ASSUME IInv, Shutdown \/ Interrupt \/ UNCHANGED vars PROVE IInv'
    OBVIOUS
  <2>1. shutdown' \in {"none", "stopped", "interrupted"} /\ interrupted' \in BOOLEAN
    BY DEF Shutdown, Interrupt, vars, IInv, TypeOK
  <2>2. UNCHANGED <<queue, updates, configuration, defaultFile, textFile, shown, notification,
                    at, callback, booted, issued, configs, faults>>
    BY DEF Shutdown, Interrupt, vars, counters
  <2> QED
    BY <2>1, <2>2 DEF IInv, TypeOK, WaitInv, DrawnInv, Running, RedrawPending, HasRedraw
<1>2. IInv /\ [Next]_vars => IInv'
  BY <1>1, CallbackIInv, BoardIInv DEF Next
<1> QED
  BY <1>2, InitIInv, PTL DEF Spec

-----------------------------------------------------------------------------
LEMMA NoteOf ==
  \A c, n : DefaultImage(c).note = 0 /\ MessageImage(n, c).note = n /\ Blank.note = -1
  BY DEF DefaultImage, MessageImage, Blank

\* A step of neither queue that changes what is shown or drawn, if at all, to
\* something taken already.
LEMMA QueueKept ==
  ASSUME QueueInv, UNCHANGED <<queue, notification, issued>>,
         defaultFile'.note <= 0 /\ shown'.note <= notification,
         at' = "show" => textFile'.note = notification,
         at' = "poll" => shown'.note = notification
  PROVE  QueueInv'
  BY DEF QueueInv

LEMMA CallbackQueueInv == ASSUME IInv, QueueInv, Callback PROVE QueueInv'
<1> USE BoardBounds
<1>1. CASE OnNotification
  <2>1. /\ queue \in Seq(1 .. MaxNotes) /\ Len(queue) \in Nat
        /\ issued \in Nat /\ notification \in Nat
    BY DEF IInv, TypeOK
  <2>2. /\ issued' = issued + 1 /\ queue' = Append(queue, issued + 1)
        /\ UNCHANGED <<notification, defaultFile, textFile, shown, at>>
    BY <1>1 DEF OnNotification
  <2>3. /\ Len(queue') = Len(queue) + 1 /\ queue'[Len(queue) + 1] = issued + 1
        /\ \A k \in 1 .. Len(queue) : queue'[k] = queue[k]
    BY <2>1, <2>2
  <2>4. ASSUME NEW k \in 1 .. Len(queue') PROVE queue'[k] = notification + k
    <3>1. CASE k \in 1 .. Len(queue)
      BY <2>3, <3>1 DEF QueueInv
    <3>2. CASE k = Len(queue) + 1
      BY <2>1, <2>3, <3>2 DEF QueueInv
    <3> QED
      BY <2>1, <2>3, <3>1, <3>2
  <2>5. issued' = notification + Len(queue')
    BY <2>1, <2>2, <2>3 DEF QueueInv
  <2> QED
    BY <2>2, <2>4, <2>5 DEF QueueInv
<1>2. CASE OnConfigurationUpdate \/ RedrawDefault \/ AddUpdate
  <2>1. UNCHANGED <<queue, notification, issued, textFile, shown, at>>
    BY <1>2 DEF OnConfigurationUpdate, RedrawDefault, AddUpdate, counters
  <2>2. defaultFile' \in {defaultFile, DefaultImage(configuration)}
    BY <1>2 DEF OnConfigurationUpdate, RedrawDefault, AddUpdate, counters
  <2>3. defaultFile'.note <= 0
    BY <2>2, NoteOf DEF QueueInv
  <2> QED
    BY <2>1, <2>3, QueueKept DEF QueueInv
<1> QED
  BY <1>1, <1>2 DEF Callback

\* The thread takes the oldest, and shows and draws only what it took.
LEMMA BoardQueueInv == ASSUME IInv, QueueInv, Board PROVE QueueInv'
<1> USE BoardBounds DEF Go, counters
<1>1. /\ queue \in Seq(1 .. MaxNotes) /\ Len(queue) \in Nat
      /\ issued \in Nat /\ notification \in Nat /\ shown.note \in Int
  BY DEF IInv, TypeOK, Images
<1>2. CASE StartDefault \/ Loop \/ NoMoreToSkip \/ Finish \/ WakeUp \/ Interrupted
             \/ PollUpdate
  <2>1. UNCHANGED <<queue, notification, issued, defaultFile, textFile, shown>>
    BY <1>2 DEF StartDefault, Loop, NoMoreToSkip, Finish, WakeUp, Interrupted, PollUpdate
  <2>2. at' # "show" /\ (at' = "poll" => at = "poll")
    BY <1>2 DEF StartDefault, Loop, NoMoreToSkip, Finish, WakeUp, Interrupted, PollUpdate
  <2> QED
    BY <2>1, <2>2, QueueKept DEF QueueInv
<1>3. CASE GenerateDefault
  <2>1. /\ UNCHANGED <<queue, notification, issued, textFile, shown>> /\ at' = "loop"
        /\ defaultFile' \in {defaultFile, DefaultImage(booted)}
    BY <1>3 DEF GenerateDefault
  <2>2. defaultFile'.note <= 0
    BY <2>1, NoteOf DEF QueueInv
  <2> QED
    BY <2>1, <2>2, QueueKept DEF QueueInv
<1>4. CASE ShowDefault
  <2>1. /\ UNCHANGED <<queue, notification, issued, defaultFile, textFile>>
        /\ at' \in {"wait", "loop"} /\ shown' \in {defaultFile, Blank}
    BY <1>4 DEF ShowDefault, Display
  <2>2. defaultFile.note \in Int
    BY DEF IInv, TypeOK, Images
  <2>3. shown'.note <= 0
    BY <2>1, NoteOf DEF QueueInv
  <2>4. shown'.note <= notification
    BY <1>1, <2>1, <2>2, <2>3, NoteOf
  <2> QED
    BY <2>1, <2>4, QueueKept DEF QueueInv
<1>5. CASE ShowMessage
  <2>1. /\ UNCHANGED <<queue, notification, issued, defaultFile, textFile>> /\ at = "show"
        /\ (at' = "poll" /\ shown' = textFile) \/ (at' = "loop" /\ shown' = Blank)
    BY <1>5 DEF ShowMessage, Display
  <2>2. shown'.note <= notification /\ (at' = "poll" => shown'.note = notification)
    BY <1>1, <2>1, NoteOf DEF QueueInv
  <2> QED
    BY <2>1, <2>2, QueueKept DEF QueueInv
<1>6. CASE DrawMessage
  <2>1. /\ UNCHANGED <<queue, notification, issued, defaultFile, shown>>
        /\ \/ at' = "show" /\ textFile' = MessageImage(notification, configuration)
           \/ at' = "loop"
    BY <1>6 DEF DrawMessage
  <2> QED
    BY <2>1, NoteOf, QueueKept DEF QueueInv
<1>7. CASE TakeNotification
  <2>1. /\ queue # <<>> /\ notification' = Head(queue) /\ queue' = Tail(queue) /\ at' = "skip"
        /\ UNCHANGED <<issued, defaultFile, textFile, shown>>
    BY <1>1, <1>7 DEF TakeNotification
  <2>2. /\ Len(queue) > 0 /\ Head(queue) = queue[1] /\ Len(queue') = Len(queue) - 1
        /\ \A k \in 1 .. Len(queue) - 1 : queue'[k] = queue[k + 1]
    BY <1>1, <2>1
  <2>3. notification' = notification + 1
    BY <1>1, <2>1, <2>2 DEF QueueInv
  <2>4. \A k \in 1 .. Len(queue') : queue'[k] = notification' + k
    BY <1>1, <2>2, <2>3 DEF QueueInv
  <2>5. issued' = notification' + Len(queue') /\ shown'.note <= notification'
    BY <1>1, <2>1, <2>2, <2>3 DEF QueueInv
  <2> QED
    BY <2>1, <2>4, <2>5 DEF QueueInv
<1> QED
  BY <1>2, <1>3, <1>4, <1>5, <1>6, <1>7 DEF Board

-----------------------------------------------------------------------------
(* The types of BoardController's fields and of the images it draws.         *)
THEOREM TypeCorrect == Spec => []TypeOK
  BY Inductive, PTL DEF IInv

(* Whatever the callbacks put between two statements of run, the board never *)
(* settles on something old.                                                 *)
THEOREM NoWakeUpIsLost == Spec => []SteadyBoardIsCurrent
<1>1. IInv => SteadyBoardIsCurrent
  BY DEF IInv, TypeOK, WaitInv, DrawnInv, Running, RedrawPending, HasRedraw, SteadyBoardIsCurrent
<1> QED
  BY <1>1, Inductive, PTL
(* The queue holds exactly the notifications after the one in hand, and the  *)
(* matrix never shows a message that is not taken or scrolls another.        *)
THEOREM NotificationsStayInOrder == Spec => []NoNotificationIsLost
<1>1. Init => QueueInv
  BY NoteOf DEF Init, QueueInv
<1>2. QueueInv /\ (Shutdown \/ Interrupt \/ UNCHANGED vars) => QueueInv'
  BY DEF QueueInv, Shutdown, Interrupt, vars, counters
<1>3. IInv /\ QueueInv /\ [Next]_vars => QueueInv'
  BY <1>2, CallbackQueueInv, BoardQueueInv DEF Next
<1>4. QueueInv => NoNotificationIsLost
  BY DEF QueueInv, NoNotificationIsLost
<1> QED
  BY <1>1, <1>3, <1>4, Inductive, PTL DEF Spec

(* The board ends only when it is told to, and neither the interruption nor  *)
(* the flag is lost although run swallows every exception.                   *)
THEOREM TheBoardEndsWhenTold == Spec => []BoardEndsWhenTold
<1>1. Init => BoardEndsWhenTold
  BY DEF Init, BoardEndsWhenTold
<1>2. ASSUME TypeOK, BoardEndsWhenTold, [Next]_vars PROVE BoardEndsWhenTold'
  <2> USE <1>2 DEF BoardEndsWhenTold
  <2>1. CASE Callback \/ UNCHANGED vars
    <3>1. UNCHANGED <<at, shutdown, interrupted>>
      BY <2>1 DEF Callback, OnNotification, OnConfigurationUpdate, RedrawDefault, AddUpdate, vars
    <3> QED
      BY <3>1
  <2>2. CASE Shutdown \/ Interrupt
    BY <2>2 DEF Shutdown, Interrupt
  <2>3. CASE Loop \/ Interrupted
    BY <2>3 DEF Loop, Interrupted
  <2>4. CASE Board /\ ~Loop /\ ~Interrupted
    <3>1. UNCHANGED <<shutdown, interrupted>> /\ at \notin {"loop", "ended"} /\ at' # "ended"
      BY <2>4 DEF Board, StartDefault, GenerateDefault, ShowDefault, WakeUp, TakeNotification,
                  NoMoreToSkip, DrawMessage, ShowMessage, PollUpdate, Finish, Display, Go
    <3> QED
      BY <3>1
  <2> QED
    BY <2>1, <2>2, <2>3, <2>4 DEF Next
<1> QED
  BY <1>1, <1>2, TypeCorrect, PTL DEF Spec
=============================================================================
