---------------------------- MODULE EventManager ----------------------------
(***************************************************************************)
(* EventManager (src/event_manager.cpp): render submits the frames that    *)
(* have detections, one thread writes an image per frame and a line per    *)
(* detection to events.jsonl, and remembers the last records for           *)
(* /api/events.  The process may crash at any step and be started again:   *)
(* images and log stay, everything else is lost.  A write to the log may   *)
(* fail, on a full disk say, and leave a part of what it should write.     *)
(*                                                                         *)
(* A frame is <<run, number>>: the file name holds the time, so images of  *)
(* two runs differ, and the number counts the submissions of a run.  A     *)
(* record is the frame and which of its detections it describes; the log   *)
(* holds records, the newlines that end their lines, and where a write     *)
(* failed the torn beginning of a record.                                  *)
(***************************************************************************)
EXTENDS DropOldest, SequencesExt, FiniteSets

CONSTANTS
  QueueLimit,     \* queue_(32)
  RecentLimit,    \* recent_limit
  MaxDetections,  \* bound: detections in a frame
  MaxFrames,      \* bound: frames rendered in the first run, two less in each later
  MaxRuns,        \* bound: starts of the process
  MaxCuts         \* bound: frames with a write to the log that fails

ASSUME EventAssumption ==
  /\ QueueLimit \in Nat \ {0} /\ RecentLimit \in Nat
  /\ MaxDetections \in Nat /\ MaxFrames \in Nat /\ MaxRuns \in Nat
  /\ MaxCuts \in Nat

VARIABLES
  run,       \* which start of the process this is
  up,        \* the process exists
  running,   \* running_
  pc,        \* where loop() is
  queue,     \* queue_: tasks [frame, detections]
  drops,     \* queue_.dropped()
  task,      \* the task loop() holds
  described, \* detections of the task already remembered
  log_open,  \* the ofstream is good: the `log` of `if (log)`
  buffer,    \* what the ofstream holds that is not yet on disk
  line_open, \* the last record written has no newline yet
  recent,    \* recent_
  images,    \* on disk: frames whose image was written
  log,       \* on disk: events.jsonl
  cuts,      \* history: where in the log a write failed, and of which frame
  rendered,  \* history: frames rendered in this run
  accepted,  \* history: tasks queued in this run
  settled,   \* history: tasks finished in this run, in order
  remembered \* history: records remembered in this run

disk == <<images, log, cuts>>
work == <<task, described, log_open, buffer, line_open, recent>>
history == <<rendered, accepted, settled, remembered>>
vars == <<run, up, running, pc, queue, drops, work, disk, history>>

NoTask == [frame |-> <<0, 0>>, detections |-> 0]
Newline == [frame |-> <<0, 0>>, detection |-> 0]
Whole(entry) == entry.detection > 0
\* The first bytes of a record without the rest.
Torn(record) == [record EXCEPT !.detection = 0]

\* What a process held is gone with it; the memory is already what it will be
\* when start() of the next one returns.
Forget ==
  /\ up' = FALSE
  /\ running' = TRUE /\ pc' = "loop"
  /\ queue' = <<>> /\ drops' = 0
  /\ task' = NoTask /\ described' = 0 /\ log_open' = FALSE /\ buffer' = <<>>
  /\ line_open' = FALSE /\ recent' = <<>>
  /\ rendered' = 0 /\ accepted' = 0 /\ settled' = <<>> /\ remembered' = <<>>

Init ==
  /\ run = 1
  /\ running = TRUE /\ up = TRUE /\ pc = "loop"
  /\ queue = <<>> /\ drops = 0
  /\ task = NoTask /\ described = 0 /\ log_open = FALSE /\ buffer = <<>>
  /\ line_open = FALSE /\ recent = <<>>
  /\ rendered = 0 /\ accepted = 0 /\ settled = <<>> /\ remembered = <<>>
  /\ images = {} /\ log = <<>> /\ cuts = {}

-----------------------------------------------------------------------------
(* The render thread, which main joins before it calls stop().             *)

\* submit(): a frame without detections is not an event.
Submit(detections) ==
  /\ up /\ running
  /\ rendered + 2 * run <= MaxFrames + 1
  /\ rendered' = rendered + 1
  /\ IF detections = 0
     THEN UNCHANGED <<queue, drops, accepted>>
     ELSE LET new == [frame |-> <<run, rendered + 1>>, detections |-> detections]
          IN /\ queue' = PushDropOldest(queue, new, QueueLimit)
             /\ drops' = drops + DropsOf(queue, QueueLimit)
             /\ accepted' = accepted + 1
  /\ UNCHANGED <<run, up, running, pc, work, disk, settled, remembered>>

-----------------------------------------------------------------------------
(* loop()                                                                  *)

\* A thread that never looks at running_.
LoopForever ==
  /\ up /\ pc = "loop"
  /\ pc' = "pop"
  /\ UNCHANGED <<run, up, running, queue, drops, work, disk, history>>

Loop ==
  /\ up /\ pc = "loop"
  /\ pc' = IF running THEN "pop" ELSE "done"
  /\ UNCHANGED <<run, up, running, queue, drops, work, disk, history>>

\* Takes the newest task instead of the oldest.
PopBack ==
  /\ up /\ pc = "pop"
  /\ queue # <<>>
  /\ task' = Last(queue)
  /\ queue' = Front(queue)
  /\ pc' = "image"
  /\ UNCHANGED <<run, up, running, drops, described, log_open, buffer, line_open, recent,
                 disk, history>>

\* popWait returned true: the front of the queue is the task.
Pop ==
  /\ up /\ pc = "pop"
  /\ queue # <<>>
  /\ task' = Head(queue)
  /\ queue' = Tail(queue)
  /\ pc' = "image"
  /\ UNCHANGED <<run, up, running, drops, described, log_open, buffer, line_open, recent,
                 disk, history>>

\* popWait returned false.
PopNothing ==
  /\ up /\ pc = "pop"
  /\ queue = <<>>
  /\ pc' = "loop"
  /\ UNCHANGED <<run, up, running, queue, drops, work, disk, history>>

Settle == settled' = Append(settled, task.frame)

\* Goes on to the log after a failed imwrite.
ImageFailsIgnored ==
  /\ up /\ pc = "image"
  /\ pc' = "open"
  /\ UNCHANGED <<run, up, running, queue, drops, work, disk, history>>

\* Leaves the loop instead of the task.
ImageFailsReturning ==
  /\ up /\ pc = "image"
  /\ pc' = "done"
  /\ Settle
  /\ UNCHANGED <<run, up, running, queue, drops, work, disk,
                 rendered, accepted, remembered>>

\* imwrite returned false: the task is skipped.
ImageFails ==
  /\ up /\ pc = "image"
  /\ pc' = "loop"
  /\ Settle
  /\ UNCHANGED <<run, up, running, queue, drops, work, disk,
                 rendered, accepted, remembered>>

WriteImage ==
  /\ up /\ pc = "image"
  /\ images' = images \cup {task.frame}
  /\ pc' = "open"
  /\ UNCHANGED <<run, up, running, queue, drops, work, log, cuts, history>>

\* The ofstream of this task, which the open may leave bad.
OpenLog ==
  /\ up /\ pc = "open"
  /\ log_open' \in BOOLEAN
  /\ described' = 0
  /\ pc' = "describe"
  /\ UNCHANGED <<run, up, running, queue, drops, task, buffer, line_open, recent,
                 disk, history>>

\* Keeps the oldest records instead of the newest.
TrimNewest(records) ==
  IF Len(records) > RecentLimit THEN SubSeq(records, 1, RecentLimit) ELSE records

\* remember(): records beyond recent_limit are erased from the front.
Trim(records) ==
  IF Len(records) > RecentLimit
  THEN SubSeq(records, Len(records) - RecentLimit + 1, Len(records))
  ELSE records

\* One iteration over task.detections: remember, then write to the stream if it
\* is still good, the newline in a call of its own.
Describe ==
  /\ up /\ pc = "describe"
  /\ described < task.detections /\ ~line_open
  /\ LET record == [frame |-> task.frame, detection |-> described + 1]
     IN /\ recent' = Trim(Append(recent, record))
        /\ remembered' = Append(remembered, record)
        /\ buffer' = IF log_open THEN Append(buffer, record) ELSE buffer
  /\ line_open' = log_open
  /\ described' = described + 1
  /\ UNCHANGED <<run, up, running, pc, queue, drops, task, log_open, disk,
                 rendered, accepted, settled>>

\* Writes the newline between records only, none after the last.
SeparateLines ==
  /\ up /\ pc = "describe" /\ line_open
  /\ buffer' = IF log_open /\ described < task.detections
               THEN Append(buffer, Newline) ELSE buffer
  /\ line_open' = FALSE
  /\ UNCHANGED <<run, up, running, pc, queue, drops, task, described, log_open,
                 recent, disk, history>>

\* The stream takes the newline unless the record's write has made it bad.
EndLine ==
  /\ up /\ pc = "describe" /\ line_open
  /\ buffer' = IF log_open THEN Append(buffer, Newline) ELSE buffer
  /\ line_open' = FALSE
  /\ UNCHANGED <<run, up, running, pc, queue, drops, task, described, log_open,
                 recent, disk, history>>

\* The stream's buffer is full: what it holds goes to the file.
SpillBuffer ==
  /\ up /\ pc = "describe"
  /\ log_open /\ buffer # <<>>
  /\ log' = log \o buffer
  /\ buffer' = <<>>
  /\ UNCHANGED <<run, up, running, pc, queue, drops, task, described, log_open,
                 line_open, recent, images, cuts, history>>

\* What a failing write may leave of the entries in the file: the first of them,
\* and then a part of the next.
CutShort(entries) ==
  LET Begin(n) == SubSeq(entries, 1, n - 1)
  IN {Begin(n) : n \in DOMAIN entries}
     \cup {Append(Begin(n), Torn(entries[n])) :
              n \in {m \in DOMAIN entries : entries[m] # Newline}}

\* What a write leaves in the file when it fails.
FailWriting ==
  /\ buffer # <<>>
  /\ Cardinality({c.frame : c \in cuts} \cup {task.frame}) <= MaxCuts
  /\ \E written \in CutShort(buffer) : log' = log \o written
  /\ cuts' = cuts \cup {[at |-> Len(log'), frame |-> task.frame]}

\* The write behind `log <<` fails: the stream is bad from here on.  What it was
\* given last is lost, but it still holds what it held before and writes that
\* once more when it is closed.
SpillFails ==
  /\ up /\ pc = "describe"
  /\ log_open
  /\ FailWriting
  /\ buffer' = Front(buffer)
  /\ log_open' = FALSE
  /\ UNCHANGED <<run, up, running, pc, queue, drops, task, described, line_open,
                 recent, images, history>>

\* Opens the file without std::ios::app: what it held is gone.
CloseLogTruncating ==
  /\ up /\ pc = "describe"
  /\ described = task.detections /\ ~line_open
  /\ log' = buffer
  /\ buffer' = <<>>
  /\ pc' = "loop"
  /\ Settle
  /\ UNCHANGED <<run, up, running, queue, drops, task, described, log_open,
                 line_open, recent, images, cuts, rendered, accepted, remembered>>

\* Leaves the task as soon as stop() is called.
CloseLogOnStop ==
  /\ up /\ pc = "describe"
  /\ described = task.detections \/ ~running
  /\ ~line_open
  /\ log' = log \o buffer
  /\ buffer' = <<>>
  /\ pc' = "loop"
  /\ Settle
  /\ UNCHANGED <<run, up, running, queue, drops, task, described, log_open,
                 line_open, recent, images, cuts, rendered, accepted, remembered>>

\* The ofstream is destroyed, which flushes it, bad or not.
CloseLog ==
  /\ up /\ pc = "describe"
  /\ described = task.detections /\ ~line_open
  /\ log' = log \o buffer
  /\ buffer' = <<>>
  /\ pc' = "loop"
  /\ Settle
  /\ UNCHANGED <<run, up, running, queue, drops, task, described, log_open,
                 line_open, recent, images, cuts, rendered, accepted, remembered>>

\* The destructor's flush fails, which nobody looks at.
CloseFails ==
  /\ up /\ pc = "describe"
  /\ described = task.detections /\ ~line_open
  /\ FailWriting
  /\ buffer' = <<>>
  /\ pc' = "loop"
  /\ Settle
  /\ UNCHANGED <<run, up, running, queue, drops, task, described, log_open,
                 line_open, recent, images, rendered, accepted, remembered>>

-----------------------------------------------------------------------------
(* main, and the machine                                                   *)

\* stop(): tasks still queued are not looked at again.
Stop ==
  /\ up /\ running
  /\ running' = FALSE
  /\ UNCHANGED <<run, up, pc, queue, drops, work, disk, history>>

\* join() has returned and main ends.
Exit ==
  /\ up /\ ~running /\ pc = "done"
  /\ Forget
  /\ UNCHANGED <<run, disk>>

\* The process is killed: nothing more is written.
Crash ==
  /\ up
  /\ Forget
  /\ UNCHANGED <<run, disk>>

\* The event directory already exists: ensureDir leaves it as it is.
Restart ==
  /\ ~up
  /\ run < MaxRuns
  /\ run' = run + 1 /\ up' = TRUE
  /\ UNCHANGED <<running, pc, queue, drops, work, disk, history>>

-----------------------------------------------------------------------------
EventThread ==
  \/ Loop \/ Pop \/ PopNothing \/ ImageFails \/ WriteImage \/ OpenLog
  \/ Describe \/ EndLine \/ SpillBuffer \/ SpillFails \/ CloseLog \/ CloseFails

Next ==
  \/ \E detections \in 0 .. MaxDetections : Submit(detections)
  \/ EventThread
  \/ Stop \/ Exit \/ Crash \/ Restart

Spec == Init /\ [][Next]_vars

\* The event thread is scheduled and its I/O returns.
FairSpec == Spec /\ WF_vars(EventThread) /\ WF_vars(Exit)

-----------------------------------------------------------------------------
\* recentEventsJson(): newest first.
RecentEvents == Reverse(recent)

\* A record never refers to an image that is not there, neither in the log on
\* disk, nor in what /api/events serves, nor in what a crash may yet flush:
\* imwrite comes first and a failure skips the frame.
RecordsHaveImages ==
  \A record \in (Range(log) \cup Range(buffer) \cup Range(recent)) \ {Newline} :
    record.frame \in images

\* /api/events serves the most recent records of this run, all of them up to
\* recent_limit, newest first, while the thread goes on remembering.
RecentIsNewest ==
  /\ Len(RecentEvents) <= RecentLimit
  /\ Len(RecentEvents) = RecentLimit \/ Len(RecentEvents) = Len(remembered)
  /\ IsPrefix(RecentEvents, Reverse(remembered))

\* r is logged before s.
Before(r, s) ==
  \/ r.frame[1] < s.frame[1]
  \/ r.frame[1] = s.frame[1] /\ r.frame[2] < s.frame[2]
  \/ r.frame = s.frame /\ r.detection < s.detection

\* A write of frame f failed between entries i and j of the log.
CutBetween(i, j, f) == \E c \in cuts : c.frame = f /\ i <= c.at /\ c.at < j

\* The log is in the order of the runs, of the submissions and of the
\* detections, with no record twice, whatever was evicted, skipped or lost in
\* a crash; only a frame one of whose writes failed repeats records, and those
\* after the failure.
LogInOrder ==
  \A i, j \in DOMAIN log :
    i < j /\ Whole(log[i]) /\ Whole(log[j]) =>
      \/ Before(log[i], log[j])
      \/ log[i].frame = log[j].frame /\ CutBetween(i, j, log[i].frame)

\* Every record is ended by its newline but for two accidents: a crash left the
\* last line of a run without one and a later run wrote on, or a write of its own
\* frame had failed by then.  A record is torn only where a write of its frame
\* failed.  So what is logged next shares a line only behind such a break.
LinesSpoiltByCutsOnly ==
  \A i \in DOMAIN log :
    /\ Whole(log[i]) =>
         \/ i = Len(log)
         \/ log[i + 1] = Newline
         \/ log[i + 1].frame[1] > log[i].frame[1]
         \/ CutBetween(0, i + 1, log[i].frame)
    /\ ~Whole(log[i]) /\ log[i] # Newline => CutBetween(i, i + 1, log[i].frame)

\* Every task queued in this run is still queued, in hand, finished, or was
\* evicted and counted; stop() strands the queue's tasks but loses none else.
EveryTaskAccounted ==
  accepted = Len(queue) + drops + Len(settled)
             + (IF pc \in {"image", "open", "describe"} THEN 1 ELSE 0)

\* Frames of this run are logged whole: once the thread is done with a frame,
\* every detection it remembered is in the log or, when the log could not be
\* opened, none is.  If a write of the frame failed, those in the log are the
\* first it remembered.  stop() in the middle of a frame does not cut it short.
WholeFrames ==
  \A i \in DOMAIN settled :
    LET logged == {r \in Range(log) : Whole(r) /\ r.frame = settled[i]}
        known == {r \in Range(remembered) : r.frame = settled[i]}
    IN /\ \/ logged \in {known, {}}
          \/ /\ \E c \in cuts : c.frame = settled[i]
             /\ logged \subseteq known
             /\ \A r \in logged, s \in known : s.detection < r.detection => s \in logged
       /\ settled[i] \in images <=> known # {}

\* events.jsonl only ever grows, across stops, crashes and restarts.
AppendOnly == [][IsPrefix(log, log')]_vars

\* A task that is queued does not wait for ever: it is taken or evicted,
\* unless the process is told to stop or crashes.
TasksMove ==
  \A n \in 1 .. MaxFrames :
    (\E t \in Range(queue) : t.frame[2] = n)
      ~> ((\A t \in Range(queue) : t.frame[2] # n) \/ ~running \/ ~up)

\* stop() returns, whatever the thread is doing when it is called.
StopReturns == up /\ ~running ~> ~up
=============================================================================
