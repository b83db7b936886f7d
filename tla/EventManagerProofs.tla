------------------------- MODULE EventManagerProofs -------------------------
(***************************************************************************)
(* What holds of EventManager for every number of runs, frames, detections *)
(* and crashes, and all limits.                                            *)
(***************************************************************************)
EXTENDS EventManager, SequenceTheorems, TLAPS

\* Records of the frames in fs.
RecordsOf(fs) == [frame : fs, detection : Nat]
\* What a stream or a file may hold of them.
Entries(fs) == RecordsOf(fs) \cup {Newline}

\* Trimming keeps only what was there.
LEMMA TrimKeeps ==
  ASSUME NEW S, NEW s \in Seq(S)
  PROVE  Trim(s) \in Seq(S)
<1>1. RecentLimit \in Nat /\ Len(s) \in Nat
  BY EventAssumption, LenProperties
<1>2. CASE Len(s) > RecentLimit
  <2>. DEFINE m == Len(s) - RecentLimit + 1
  <2>1. m \in Int /\ Len(s) \in Int /\ \A i \in m .. Len(s) : i \in 1 .. Len(s)
    BY <1>1, <1>2
  <2>2. \A i \in m .. Len(s) : s[i] \in S
    BY <2>1, ElementOfSeq
  <2>. HIDE DEF m
  <2>3. SubSeq(s, m, Len(s)) \in Seq(S)
    BY <2>1, <2>2, SubSeqProperties
  <2>. QED
    BY <2>3, <1>2 DEF Trim, m
<1>3. CASE ~(Len(s) > RecentLimit)
  BY <1>3 DEF Trim
<1>. QED
  BY <1>2, <1>3

\* A sequence over entries of some frames is one over entries of more.
LEMMA MoreImages ==
  ASSUME NEW fs, NEW gs, fs \subseteq gs
  PROVE  /\ \A s \in Seq(Entries(fs)) : s \in Seq(Entries(gs))
         /\ \A s \in Seq(RecordsOf(fs)) : s \in Seq(RecordsOf(gs))
<1>1. RecordsOf(fs) \subseteq RecordsOf(gs) /\ Entries(fs) \subseteq Entries(gs)
  BY DEF RecordsOf, Entries
<1>. QED
  BY <1>1, SeqMonotonic

\* A record of a frame torn is an entry of that frame.
LEMMA TornRecord ==
  ASSUME NEW fs, NEW r \in RecordsOf(fs)
  PROVE  /\ Torn(r) \in RecordsOf(fs) /\ Torn(r).frame = r.frame
         /\ Torn(r).detection = 0
  BY DEF Torn, RecordsOf

\* What a failing write leaves: items of the buffer, of which the last may be
\* torn.
LEMMA CutShortItems ==
  ASSUME NEW S, NEW s \in Seq(S), NEW w \in CutShort(s),
         \A x \in S : x # Newline => Torn(x) \in S
  PROVE  /\ w \in Seq(S) /\ Len(w) \in Nat /\ Len(w) <= Len(s) /\ s # <<>>
         /\ \A k \in 1 .. Len(w) :
              \/ w[k] = s[k]
              \/ s[k] # Newline /\ w[k] = Torn(s[k]) /\ k = Len(w)
<1>. DEFINE Begin(n) == SubSeq(s, 1, n - 1)
<1>1. Len(s) \in Nat /\ DOMAIN s = 1 .. Len(s) /\ \A i \in 1 .. Len(s) : s[i] \in S
  OBVIOUS
<1>2. ASSUME NEW n \in 1 .. Len(s)
      PROVE  /\ Begin(n) \in Seq(S) /\ Len(Begin(n)) = n - 1
             /\ \A k \in 1 .. n - 1 : Begin(n)[k] = s[k]
  <2>1. n \in Nat /\ n - 1 \in Nat /\ n - 1 <= Len(s) /\ \A k \in 1 .. n - 1 : k \in 1 .. Len(s)
    BY <1>1
  <2>2. /\ SubSeq(s, 1, n - 1) \in Seq(S)
        /\ Len(SubSeq(s, 1, n - 1)) = IF 1 <= n - 1 THEN (n - 1) - 1 + 1 ELSE 0
        /\ \A i \in 1 .. (n - 1) - 1 + 1 : SubSeq(s, 1, n - 1)[i] = s[1 + i - 1]
    BY <1>1, <2>1, SubSeqProperties
  <2>. QED
    BY <2>1, <2>2
<1>3. CASE \E n \in DOMAIN s : w = Begin(n)
  <2>1. PICK n \in 1 .. Len(s) : w = Begin(n)
    BY <1>1, <1>3
  <2>2. n \in Nat /\ n <= Len(s) /\ Len(w) = n - 1 /\ n >= 1
    BY <1>1, <1>2, <2>1
  <2>3. w \in Seq(S) /\ \A k \in 1 .. n - 1 : w[k] = s[k]
    BY <1>2, <2>1
  <2>. QED
    BY <1>1, <2>2, <2>3
<1>4. CASE \E n \in DOMAIN s : s[n] # Newline /\ w = Append(Begin(n), Torn(s[n]))
  <2>1. PICK n \in 1 .. Len(s) : s[n] # Newline /\ w = Append(Begin(n), Torn(s[n]))
    BY <1>1, <1>4
  <2>. DEFINE b == Begin(n)
              x == Torn(s[n])
  <2>2. b \in Seq(S) /\ Len(b) = n - 1 /\ (\A k \in 1 .. n - 1 : b[k] = s[k]) /\ x \in S
    BY <1>1, <1>2, <2>1
  <2>3. w = Append(b, x)
    BY <2>1
  <2>4. n \in Nat /\ n <= Len(s) /\ n >= 1
    BY <1>1
  <2>. HIDE DEF b, x
  <2>5. /\ w \in Seq(S) /\ Len(w) = n /\ w[n] = x
        /\ \A k \in 1 .. n - 1 : w[k] = b[k]
    BY <2>2, <2>3, <2>4
  <2>6. ASSUME NEW k \in 1 .. n PROVE w[k] = s[k] \/ (s[k] # Newline /\ w[k] = Torn(s[k]) /\ k = n)
    <3>1. CASE k = n
      BY <2>1, <2>5, <3>1 DEF x
    <3>2. CASE k # n
      <4>1. k \in 1 .. n - 1
        BY <2>4, <3>2
      <4>. QED
        BY <2>2, <2>5, <4>1
    <3>. QED
      BY <3>1, <3>2
  <2>. QED
    BY <1>1, <2>4, <2>5, <2>6
<1>. QED
  BY <1>3, <1>4 DEF CutShort

\* All but the last.
LEMMA FrontItems ==
  ASSUME NEW S, NEW s \in Seq(S), s # <<>>
  PROVE  /\ Front(s) \in Seq(S) /\ Len(Front(s)) = Len(s) - 1
         /\ Len(s) \in Nat \ {0}
         /\ \A k \in 1 .. Len(Front(s)) : k \in 1 .. Len(s) /\ Front(s)[k] = s[k]
<1>1. Len(s) \in Nat \ {0} /\ \A i \in 1 .. Len(s) : s[i] \in S
  OBVIOUS
<1>. DEFINE n == Len(s) - 1
<1>2. n \in Nat /\ \A k \in 1 .. n : k \in 1 .. Len(s)
  BY <1>1
<1>3. Front(s) = SubSeq(s, 1, n)
  BY DEF Front
<1>. HIDE DEF n
<1>4. /\ SubSeq(s, 1, n) \in Seq(S)
      /\ Len(SubSeq(s, 1, n)) = IF 1 <= n THEN n - 1 + 1 ELSE 0
      /\ \A i \in 1 .. n - 1 + 1 : SubSeq(s, 1, n)[i] = s[1 + i - 1]
  BY <1>1, <1>2, SubSeqProperties
<1>5. Len(SubSeq(s, 1, n)) = n /\ \A i \in 1 .. n : SubSeq(s, 1, n)[i] = s[i]
  BY <1>2, <1>4
<1>6. n = Len(s) - 1
  BY DEF n
<1>. QED
  BY <1>1, <1>2, <1>3, <1>4, <1>5, <1>6

-----------------------------------------------------------------------------
(* The four steps that write to the file.                                  *)

\* w, what the stream holds or what a failing write leaves of it, goes to the
\* file.
Writes(w) ==
  /\ up /\ pc = "describe"
  /\ log' = log \o w
  /\ \/ /\ w = buffer
        /\ buffer' = <<>>
        /\ UNCHANGED <<cuts, log_open>>
     \/ /\ w \in CutShort(buffer)
        /\ cuts' = cuts \cup {[at |-> Len(log'), frame |-> task.frame]}
        /\ \/ buffer' = Front(buffer) /\ log_open' = FALSE /\ pc' = "describe"
           \/ buffer' = <<>> /\ UNCHANGED log_open /\ pc' = "loop"
  /\ UNCHANGED <<run, up, queue, task, described, line_open, recent, images,
                 rendered, remembered>>
  /\ \/ pc' = "describe" /\ UNCHANGED settled
     \/ /\ pc' = "loop" /\ ~line_open /\ described = task.detections
        /\ settled' = Append(settled, task.frame)

WritingStep == SpillBuffer \/ SpillFails \/ CloseLog \/ CloseFails

LEMMA WritingSteps ==
  ASSUME WritingStep
  PROVE  \E w : Writes(w)
<1>1. CASE SpillBuffer \/ CloseLog
  <2>1. Writes(buffer)
    BY <1>1 DEF SpillBuffer, CloseLog, Writes, Settle, history
  <2>. QED
    BY <2>1
<1>2. CASE SpillFails \/ CloseFails
  <2>1. PICK w \in CutShort(buffer) : log' = log \o w
    BY <1>2 DEF SpillFails, CloseFails, FailWriting
  <2>2. Writes(w)
    BY <1>2, <2>1 DEF SpillFails, CloseFails, FailWriting, Writes, Settle, history
  <2>. QED
    BY <2>2
<1>. QED
  BY <1>1, <1>2 DEF WritingStep

\* The types of what is written and of what the stream still holds.
LEMMA WritesType ==
  ASSUME NEW S, log \in Seq(S), buffer \in Seq(S),
         \A x \in S : x # Newline => Torn(x) \in S,
         NEW w, Writes(w)
  PROVE  /\ w \in Seq(S) /\ log' \in Seq(S) /\ buffer' \in Seq(S)
         /\ Len(w) \in Nat /\ Len(w) <= Len(buffer) /\ Len(log) \in Nat
         /\ Len(log') = Len(log) + Len(w)
         /\ \A i \in 1 .. Len(log) : log'[i] = log[i]
         /\ \A k \in 1 .. Len(w) : log'[Len(log) + k] = w[k]
<1>1. CASE w = buffer /\ buffer' = <<>>
  BY <1>1 DEF Writes
<1>2. CASE w \in CutShort(buffer)
  <2>1. w \in Seq(S) /\ Len(w) \in Nat /\ Len(w) <= Len(buffer) /\ buffer # <<>>
    BY <1>2, CutShortItems
  <2>2. Front(buffer) \in Seq(S) /\ <<>> \in Seq(S)
    BY <2>1, FrontItems
  <2>3. buffer' \in Seq(S) /\ log' = log \o w
    BY <2>2, <1>2 DEF Writes
  <2>. QED
    BY <2>1, <2>3
<1>. QED
  BY <1>1, <1>2 DEF Writes

-----------------------------------------------------------------------------
(* Records and images.                                                     *)

\* Everything that is described, wherever it is, is of a frame whose image is on
\* disk, and the frame in hand has its image from the moment the log is opened.
StoredInv ==
  /\ described \in Nat
  /\ log \in Seq(Entries(images))
  /\ buffer \in Seq(Entries(images))
  /\ recent \in Seq(RecordsOf(images))
  /\ pc \in {"open", "describe"} => task.frame \in images

LEMMA StoredStep == StoredInv /\ [Next]_vars => StoredInv'
<1>. SUFFICES ASSUME StoredInv, [Next]_vars PROVE StoredInv'
  OBVIOUS
<1>. USE DEF StoredInv, work, disk, history
<1>1. ASSUME NEW n \in 0 .. MaxDetections, Submit(n) PROVE StoredInv'
  BY <1>1 DEF Submit
<1>2. CASE Loop \/ Pop \/ PopNothing \/ ImageFails
  BY <1>2 DEF Loop, Pop, PopNothing, ImageFails
<1>3. CASE WriteImage
  <2>1. images \subseteq images' /\ task'.frame \in images'
    BY <1>3 DEF WriteImage
  <2>2. UNCHANGED <<described, log, buffer, recent>>
    BY <1>3 DEF WriteImage
  <2>3. /\ log' \in Seq(Entries(images')) /\ buffer' \in Seq(Entries(images'))
        /\ recent' \in Seq(RecordsOf(images'))
    BY <2>1, <2>2, MoreImages
  <2>. QED
    BY <2>1, <2>2, <2>3
<1>4. CASE OpenLog
  BY <1>4 DEF OpenLog
<1>5. CASE Describe
  <2>. DEFINE record == [frame |-> task.frame, detection |-> described + 1]
  <2>1. record \in RecordsOf(images) /\ record \in Entries(images)
    BY <1>5 DEF Describe, RecordsOf, Entries
  <2>2. /\ recent' = Trim(Append(recent, record))
        /\ buffer' = IF log_open THEN Append(buffer, record) ELSE buffer
        /\ described' = described + 1
        /\ UNCHANGED <<pc, task, images, log>>
    BY <1>5 DEF Describe
  <2>. HIDE DEF record
  <2>3. Append(recent, record) \in Seq(RecordsOf(images))
    BY <2>1
  <2>4. recent' \in Seq(RecordsOf(images))
    BY <2>2, <2>3, TrimKeeps
  <2>5. Append(buffer, record) \in Seq(Entries(images))
    BY <2>1
  <2>. QED
    BY <2>2, <2>4, <2>5
<1>6. CASE EndLine
  <2>1. Append(buffer, Newline) \in Seq(Entries(images))
    BY DEF Entries
  <2>2. buffer' = buffer \/ buffer' = Append(buffer, Newline)
    BY <1>6 DEF EndLine
  <2>. QED
    BY <2>1, <2>2, <1>6 DEF EndLine
<1>7. CASE WritingStep
  <2>1. PICK w : Writes(w)
    BY <1>7, WritingSteps
  <2>2. \A x \in Entries(images) : x # Newline => Torn(x) \in Entries(images)
    BY TornRecord DEF Entries
  <2>3. log' \in Seq(Entries(images)) /\ buffer' \in Seq(Entries(images))
    BY <2>1, <2>2, WritesType
  <2>4. UNCHANGED <<described, recent, images, task>> /\ pc = "describe"
    BY <2>1 DEF Writes
  <2>. QED
    BY <2>3, <2>4
<1>9. CASE Stop \/ Restart
  BY <1>9 DEF Stop, Restart
<1>10. CASE Exit \/ Crash
  <2>1. Forget /\ UNCHANGED <<images, log>>
    BY <1>10 DEF Exit, Crash
  <2>2. <<>> \in Seq(Entries(images)) /\ <<>> \in Seq(RecordsOf(images))
    BY EmptySeq
  <2>. QED
    BY <2>1, <2>2 DEF Forget
<1>11. CASE UNCHANGED vars
  BY <1>11 DEF vars
<1>. QED
  BY <1>1, <1>2, <1>3, <1>4, <1>5, <1>6, <1>7, <1>9, <1>10, <1>11
  DEF Next, EventThread, WritingStep

\* A record never refers to an image that is not there, in the log, in the
\* stream or in /api/events, whatever failed and whenever the process crashed.
THEOREM ImagesBeforeRecords == Spec => []RecordsHaveImages
<1>1. Init => StoredInv
  BY DEF Init, StoredInv
<1>2. StoredInv => RecordsHaveImages
  <2>. SUFFICES ASSUME StoredInv,
                       NEW r \in (Range(log) \cup Range(buffer) \cup Range(recent)) \ {Newline}
       PROVE  r.frame \in images
    BY DEF RecordsHaveImages
  <2>1. ASSUME NEW s \in Seq(Entries(images)), r \in Range(s) PROVE r \in RecordsOf(images)
    BY <2>1 DEF Range, Entries
  <2>2. ASSUME NEW s \in Seq(RecordsOf(images)), r \in Range(s) PROVE r \in RecordsOf(images)
    BY <2>2 DEF Range
  <2>3. r \in RecordsOf(images)
    BY <2>1, <2>2 DEF StoredInv
  <2>. QED
    BY <2>3 DEF RecordsOf
<1>. QED
  BY <1>1, <1>2, StoredStep, PTL DEF Spec

\* events.jsonl only ever grows: no step of any run takes anything back.
THEOREM LogGrows == Spec => AppendOnly
<1>1. StoredInv /\ [Next]_vars => [IsPrefix(log, log')]_vars
  <2>. SUFFICES ASSUME StoredInv, Next PROVE IsPrefix(log, log')
    OBVIOUS
  <2>1. /\ log \in Seq(Entries(images)) /\ buffer \in Seq(Entries(images))
        /\ Len(log) \in Nat
    BY DEF StoredInv
  <2>2. CASE log' = log
    BY <2>1, <2>2 DEF IsPrefix
  <2>3. CASE WritingStep
    <3>1. PICK w : Writes(w)
      BY <2>3, WritingSteps
    <3>2. \A x \in Entries(images) : x # Newline => Torn(x) \in Entries(images)
      BY TornRecord DEF Entries
    <3>3. w \in Seq(Entries(images)) /\ log' = log \o w
      BY <2>1, <3>1, <3>2, WritesType DEF Writes
    <3>4. Len(log') = Len(log) + Len(w) /\ Len(w) \in Nat
      BY <2>1, <3>3
    <3>5. SubSeq(log', 1, Len(log)) = SubSeq(log, 1, Len(log))
      BY <2>1, <3>3, <3>4
    <3>. QED
      BY <2>1, <3>4, <3>5 DEF IsPrefix
  <2>4. log' = log \/ WritingStep
    BY DEF Next, EventThread, Submit, Loop, Pop, PopNothing, ImageFails, WriteImage,
           OpenLog, Describe, EndLine, WritingStep, Stop, Exit, Crash, Restart, disk,
           work, history
  <2>. QED
    BY <2>2, <2>3, <2>4
<1>2. Init => StoredInv
  BY DEF Init, StoredInv
<1>. QED
  BY <1>1, <1>2, StoredStep, PTL DEF Spec, AppendOnly

-----------------------------------------------------------------------------
(* Tasks.                                                                  *)

\* What a queue may hold: frames with something to report.
Tasks == [frame : Nat \X Nat, detections : Nat \ {0}]

\* A push adds an item, and counts the one it evicts if the queue is full.
LEMMA PushCounts ==
  ASSUME NEW q \in Seq(Tasks), NEW t \in Tasks
  PROVE  LET new == PushDropOldest(q, t, QueueLimit)
         IN /\ new \in Seq(Tasks)
            /\ DropsOf(q, QueueLimit) \in Nat
            /\ Len(new) = Len(q) + 1 - DropsOf(q, QueueLimit)
<1>. USE EventAssumption
<1>1. CASE Full(q, QueueLimit)
  <2>1. q # <<>>
    BY <1>1 DEF Full
  <2>2. Tail(q) \in Seq(Tasks) /\ Len(Tail(q)) = Len(q) - 1 /\ Len(q) \in Nat
    BY <2>1
  <2>. QED
    BY <1>1, <2>2 DEF PushDropOldest, DropsOf
<1>2. CASE ~Full(q, QueueLimit)
  BY <1>2 DEF PushDropOldest, DropsOf
<1>. QED
  BY <1>1, <1>2

Busy == IF pc \in {"image", "open", "describe"} THEN 1 ELSE 0

TaskInv ==
  /\ run \in Nat /\ rendered \in Nat /\ accepted \in Nat /\ drops \in Nat
  /\ pc \in {"loop", "pop", "image", "open", "describe", "done"}
  /\ queue \in Seq(Tasks)
  /\ settled \in Seq(Nat \X Nat)
  /\ task.frame \in Nat \X Nat
  /\ accepted = Len(queue) + drops + Len(settled) + Busy

LEMMA TaskStep == TaskInv /\ [Next]_vars => TaskInv'
<1>. SUFFICES ASSUME TaskInv, [Next]_vars PROVE TaskInv'
  OBVIOUS
<1>. USE DEF TaskInv, Busy, work, disk, history
<1>1. ASSUME NEW n \in 0 .. MaxDetections, Submit(n) PROVE TaskInv'
  <2>1. CASE n = 0
    BY <1>1, <2>1 DEF Submit
  <2>2. CASE n # 0
    <3>. DEFINE new == [frame |-> <<run, rendered + 1>>, detections |-> n]
    <3>1. new \in Tasks
      <4>1. n \in Nat \ {0}
        BY <2>2, EventAssumption
      <4>2. <<run, rendered + 1>> \in Nat \X Nat
        OBVIOUS
      <4>. QED
        BY <4>1, <4>2 DEF Tasks
    <3>2. /\ queue' = PushDropOldest(queue, new, QueueLimit)
          /\ drops' = drops + DropsOf(queue, QueueLimit)
          /\ accepted' = accepted + 1 /\ rendered' = rendered + 1
          /\ UNCHANGED <<run, pc, task, settled>>
      BY <1>1, <2>2 DEF Submit
    <3>. HIDE DEF new
    <3>3. /\ queue' \in Seq(Tasks)
          /\ DropsOf(queue, QueueLimit) \in Nat
          /\ Len(queue') = Len(queue) + 1 - DropsOf(queue, QueueLimit)
      BY <3>1, <3>2, PushCounts
    <3>4. Len(queue) \in Nat /\ Len(settled) \in Nat
      BY LenProperties
    <3>5. accepted' = Len(queue') + drops' + Len(settled') + Busy'
      <4>. DEFINE d == DropsOf(queue, QueueLimit)
      <4>1. d \in Nat /\ Len(queue') = Len(queue) + 1 - d /\ drops' = drops + d
        BY <3>2, <3>3
      <4>2. Len(settled') = Len(settled) /\ Busy' = Busy /\ Busy \in Nat
        BY <3>2
      <4>. HIDE DEF d
      <4>. QED
        BY <4>1, <4>2, <3>2, <3>4
    <3>6. drops' \in Nat /\ accepted' \in Nat /\ rendered' \in Nat
      BY <3>2, <3>3
    <3>. QED
      BY <3>2, <3>3, <3>5, <3>6
  <2>. QED
    BY <2>1, <2>2
<1>2. CASE Loop \/ PopNothing \/ WriteImage \/ OpenLog \/ Describe \/ EndLine
           \/ SpillBuffer \/ SpillFails \/ Stop
  BY <1>2 DEF Loop, PopNothing, WriteImage, OpenLog, Describe, EndLine,
              SpillBuffer, SpillFails, Stop
<1>3. CASE Pop
  <2>1. /\ queue # <<>> /\ task' = Head(queue) /\ queue' = Tail(queue)
        /\ pc = "pop" /\ pc' = "image"
        /\ UNCHANGED <<run, rendered, accepted, drops, settled>>
    BY <1>3 DEF Pop
  <2>2. /\ Head(queue) \in Tasks /\ Tail(queue) \in Seq(Tasks)
        /\ Len(Tail(queue)) = Len(queue) - 1
    BY <2>1, HeadTailProperties
  <2>3. task'.frame \in Nat \X Nat
    BY <2>1, <2>2 DEF Tasks
  <2>. QED
    BY <2>1, <2>2, <2>3
<1>4. CASE ImageFails \/ CloseLog \/ CloseFails
  <2>1. /\ settled' = Append(settled, task.frame)
        /\ pc \in {"image", "describe"} /\ pc' = "loop"
        /\ UNCHANGED <<run, rendered, accepted, drops, queue, task>>
    BY <1>4 DEF ImageFails, CloseLog, CloseFails, Settle
  <2>2. /\ Append(settled, task.frame) \in Seq(Nat \X Nat)
        /\ Len(Append(settled, task.frame)) = Len(settled) + 1
    <3>1. ASSUME NEW x \in Nat \X Nat
          PROVE  /\ Append(settled, x) \in Seq(Nat \X Nat)
                 /\ Len(Append(settled, x)) = Len(settled) + 1
      OBVIOUS
    <3>. QED
      BY <3>1
  <2>3. Busy = 1 /\ Busy' = 0
    BY <2>1
  <2>4. Len(queue) \in Nat /\ Len(settled) \in Nat
    BY LenProperties
  <2>5. accepted' = Len(queue') + drops' + Len(settled') + Busy'
    <3>1. accepted = Len(queue) + drops + Len(settled) + Busy
      OBVIOUS
    <3>. HIDE DEF TaskInv, Busy
    <3>. QED
      BY <2>1, <2>2, <2>3, <2>4, <3>1 DEF TaskInv
  <2>. QED
    BY <2>1, <2>2, <2>5
<1>5. CASE Restart
  BY <1>5 DEF Restart
<1>6. CASE Exit \/ Crash
  <2>1. Forget /\ run' = run
    BY <1>6 DEF Exit, Crash
  <2>2. <<>> \in Seq(Tasks) /\ <<>> \in Seq(Nat \X Nat) /\ Len(<<>>) = 0
    BY EmptySeq
  <2>3. /\ rendered' = 0 /\ accepted' = 0 /\ drops' = 0 /\ pc' = "loop"
        /\ queue' = <<>> /\ settled' = <<>> /\ task'.frame = <<0, 0>>
    BY <2>1 DEF Forget, NoTask
  <2>. QED
    BY <2>1, <2>2, <2>3
<1>7. CASE UNCHANGED vars
  BY <1>7 DEF vars
<1>. QED
  BY <1>1, <1>2, <1>3, <1>4, <1>5, <1>6, <1>7 DEF Next, EventThread

\* Every task queued in a run is queued still, in hand, finished or counted as
\* evicted, through stop(), failures and crashes.
THEOREM TasksAccounted == Spec => []EveryTaskAccounted
<1>1. Init => TaskInv
  BY DEF Init, TaskInv, Busy, NoTask
<1>2. TaskInv => EveryTaskAccounted
  BY DEF TaskInv, EveryTaskAccounted, Busy
<1>. QED
  BY <1>1, <1>2, TaskStep, PTL DEF Spec
-----------------------------------------------------------------------------
(* Turns: the frames the thread has finished, the one it holds, and those  *)
(* that wait.                                                              *)

\* The thread holds a task.
Working == pc \in {"image", "open", "describe"}

\* The frame is behind the thread: no step is about it any more.
Finished(f) ==
  \/ f[1] < run
  \/ /\ f[1] = run
     /\ up => /\ f[2] <= rendered
              /\ \A t \in Range(queue) : f[2] < t.frame[2]
              /\ Working => f[2] < task.frame[2]

\* Tasks are in the order of their submission.
Ordered(q) == \A i, j \in 1 .. Len(q) : i < j => q[i].frame[2] < q[j].frame[2]

TurnInv ==
  /\ run \in Nat \ {0} /\ rendered \in Nat /\ described \in Nat
  /\ pc \in {"loop", "pop", "image", "open", "describe", "done"}
  /\ queue \in Seq(Tasks) /\ Ordered(queue)
  /\ \A t \in Range(queue) : t.frame[1] = run /\ t.frame[2] <= rendered
  /\ Working =>
       /\ task \in Tasks
       /\ task.frame[1] = run /\ task.frame[2] <= rendered
       /\ \A t \in Range(queue) : task.frame[2] < t.frame[2]
  /\ ~up => pc = "loop" /\ queue = <<>>

LEMMA TailOrdered ==
  ASSUME NEW q \in Seq(Tasks), q # <<>>, Ordered(q)
  PROVE  /\ Head(q) \in Tasks /\ Head(q) \in Range(q)
         /\ Tail(q) \in Seq(Tasks) /\ Ordered(Tail(q))
         /\ Range(Tail(q)) \subseteq Range(q)
         /\ \A t \in Range(Tail(q)) : Head(q).frame[2] < t.frame[2]
<1>1. /\ Len(q) \in Nat \ {0} /\ DOMAIN q = 1 .. Len(q)
      /\ Tail(q) \in Seq(Tasks) /\ Len(Tail(q)) = Len(q) - 1
      /\ DOMAIN Tail(q) = 1 .. Len(q) - 1
      /\ \A i \in 1 .. Len(q) - 1 : Tail(q)[i] = q[i + 1]
      /\ Head(q) = q[1] /\ Head(q) \in Tasks
  OBVIOUS
<1>2. \A i \in 1 .. Len(q) - 1 : i + 1 \in 1 .. Len(q) /\ 1 < i + 1
  BY <1>1
<1>3. Ordered(Tail(q))
  BY <1>1, <1>2 DEF Ordered
<1>4. Head(q) \in Range(q) /\ Range(Tail(q)) \subseteq Range(q)
  BY <1>1, <1>2 DEF Range
<1>5. \A t \in Range(Tail(q)) : Head(q).frame[2] < t.frame[2]
  BY <1>1, <1>2 DEF Range, Ordered
<1>. QED
  BY <1>1, <1>3, <1>4, <1>5

\* The elements of a sequence with one more.
LEMMA AppendRange ==
  ASSUME NEW S, NEW q \in Seq(S), NEW t \in S
  PROVE  /\ Append(q, t) \in Seq(S) /\ Len(Append(q, t)) = Len(q) + 1
         /\ \A i \in 1 .. Len(q) : Append(q, t)[i] = q[i]
         /\ Append(q, t)[Len(q) + 1] = t
         /\ Range(Append(q, t)) = Range(q) \cup {t}
<1>. DEFINE new == Append(q, t)
<1>1. /\ Len(q) \in Nat /\ DOMAIN q = 1 .. Len(q) /\ new \in Seq(S)
      /\ Len(new) = Len(q) + 1 /\ DOMAIN new = 1 .. Len(q) + 1
      /\ \A i \in 1 .. Len(q) : new[i] = q[i]
      /\ new[Len(q) + 1] = t
  OBVIOUS
<1>2. /\ \A i \in 1 .. Len(q) + 1 : i \in 1 .. Len(q) \/ i = Len(q) + 1
      /\ \A i \in 1 .. Len(q) : i \in 1 .. Len(q) + 1
      /\ Len(q) + 1 \in 1 .. Len(q) + 1
  BY <1>1
<1>. HIDE DEF new
<1>3. Range(new) = Range(q) \cup {t}
  BY <1>1, <1>2 DEF Range
<1>. QED
  BY <1>1, <1>3 DEF new

LEMMA AppendOrdered ==
  ASSUME NEW q \in Seq(Tasks), Ordered(q), NEW new \in Tasks,
         \A t \in Range(q) : t.frame[2] < new.frame[2]
  PROVE  Ordered(Append(q, new))
<1>1. Len(q) \in Nat /\ DOMAIN q = 1 .. Len(q)
  OBVIOUS
<1>2. /\ Len(Append(q, new)) = Len(q) + 1
      /\ \A i \in 1 .. Len(q) : Append(q, new)[i] = q[i]
      /\ Append(q, new)[Len(q) + 1] = new
  BY AppendRange
<1>3. \A i \in 1 .. Len(q) : q[i].frame[2] < new.frame[2]
  BY <1>1 DEF Range
<1>4. \A i, j \in 1 .. Len(q) + 1 :
        i < j => i \in 1 .. Len(q) /\ (j \in 1 .. Len(q) \/ j = Len(q) + 1)
  BY <1>1
<1>. HIDE DEF Tasks
<1>. QED
  BY <1>2, <1>3, <1>4 DEF Ordered

LEMMA PushOrdered ==
  ASSUME NEW q \in Seq(Tasks), Ordered(q), NEW new \in Tasks,
         \A t \in Range(q) : t.frame[2] < new.frame[2]
  PROVE  /\ PushDropOldest(q, new, QueueLimit) \in Seq(Tasks)
         /\ Ordered(PushDropOldest(q, new, QueueLimit))
         /\ Range(PushDropOldest(q, new, QueueLimit)) \subseteq Range(q) \cup {new}
<1>1. CASE Full(q, QueueLimit)
  <2>1. q # <<>>
    BY <1>1, EventAssumption DEF Full
  <2>2. /\ Tail(q) \in Seq(Tasks) /\ Ordered(Tail(q)) /\ Range(Tail(q)) \subseteq Range(q)
    BY <2>1, TailOrdered
  <2>3. /\ Append(Tail(q), new) \in Seq(Tasks)
        /\ Range(Append(Tail(q), new)) = Range(Tail(q)) \cup {new}
    <3>1. ASSUME NEW r \in Seq(Tasks)
          PROVE  Append(r, new) \in Seq(Tasks) /\ Range(Append(r, new)) = Range(r) \cup {new}
      BY AppendRange
    <3>. QED
      BY <2>2, <3>1
  <2>4. \A t \in Range(Tail(q)) : t.frame[2] < new.frame[2]
    BY <2>2
  <2>5. Ordered(Append(Tail(q), new))
    BY <2>2, <2>4, AppendOrdered
  <2>. QED
    BY <1>1, <2>2, <2>3, <2>5 DEF PushDropOldest
<1>2. CASE ~Full(q, QueueLimit)
  BY <1>2, AppendRange, AppendOrdered DEF PushDropOldest
<1>. QED
  BY <1>1, <1>2
LEMMA InitTurn == Init => TurnInv
<1>. SUFFICES ASSUME Init PROVE TurnInv
  OBVIOUS
<1>1. queue \in Seq(Tasks) /\ Ordered(queue) /\ Range(queue) = {}
  BY DEF Init, Ordered, Range
<1>. QED
  BY <1>1 DEF Init, TurnInv, Working

LEMMA QueuedTasks ==
  ASSUME TurnInv
  PROVE  /\ \A t \in Range(queue) : t \in Tasks /\ t.frame[2] \in Nat
         /\ Working => task.frame \in Nat \X Nat /\ task.frame[2] \in Nat
<1>1. \A t \in Range(queue) : t \in Tasks
  <2>1. queue \in Seq(Tasks)
    BY DEF TurnInv
  <2>. QED
    BY <2>1 DEF Range
<1>2. Working => task \in Tasks
  BY DEF TurnInv
<1>. QED
  BY <1>1, <1>2 DEF Tasks

\* A submission is behind every task there is; a frame that is finished stays so.
LEMMA SubmitTurn ==
  ASSUME TurnInv, NEW n \in 0 .. MaxDetections, Submit(n)
  PROVE  TurnInv' /\ \A f \in Nat \X Nat : Finished(f) => Finished(f)'
<1>1. /\ UNCHANGED <<run, up, pc, task, described>> /\ rendered' = rendered + 1 /\ up
      /\ Working' = Working
  BY DEF Submit, work, Working
<1>. DEFINE new == [frame |-> <<run, rendered + 1>>, detections |-> n]
<1>2. CASE n = 0
  <2>1. UNCHANGED queue
    BY <1>2 DEF Submit
  <2>2. TurnInv'
    BY <1>1, <2>1, QueuedTasks DEF TurnInv
  <2>3. ASSUME NEW f \in Nat \X Nat, Finished(f) PROVE Finished(f)'
    <3>1. f[2] \in Nat /\ rendered \in Nat
      BY DEF TurnInv
    <3>. QED
      BY <1>1, <2>1, <2>3, <3>1 DEF Finished
  <2>. QED
    BY <2>2, <2>3
<1>3. CASE n # 0
  <2>1. new \in Tasks /\ new.frame[1] = run /\ new.frame[2] = rendered + 1
    <3>1. n \in Nat \ {0}
      BY <1>3, EventAssumption
    <3>. QED
      BY <3>1 DEF Tasks, TurnInv
  <2>2. queue' = PushDropOldest(queue, new, QueueLimit)
    BY <1>3 DEF Submit
  <2>. HIDE DEF new
  <2>3. \A t \in Range(queue) : t \in Tasks /\ t.frame[2] \in Nat
    BY QueuedTasks
  <2>4. \A t \in Range(queue) : t.frame[2] < new.frame[2]
    BY <2>1, <2>3 DEF TurnInv
  <2>5. /\ queue' \in Seq(Tasks) /\ Ordered(queue')
        /\ Range(queue') \subseteq Range(queue) \cup {new}
    <3>1. queue \in Seq(Tasks) /\ Ordered(queue)
      BY DEF TurnInv
    <3>. QED
      BY <2>1, <2>2, <2>4, <3>1, PushOrdered
  <2>6. \A t \in Range(queue') : t.frame[1] = run' /\ t.frame[2] <= rendered'
    BY <1>1, <2>1, <2>3, <2>5 DEF TurnInv
  <2>7. ASSUME Working
        PROVE  /\ task \in Tasks /\ task.frame[1] = run /\ task.frame[2] <= rendered'
               /\ \A t \in Range(queue') : task.frame[2] < t.frame[2]
    <3>1. task \in Tasks /\ task.frame[2] \in Nat /\ task.frame[2] <= rendered
      BY <2>7 DEF TurnInv, Tasks
    <3>. QED
      BY <1>1, <2>1, <2>5, <2>7, <3>1 DEF TurnInv
  <2>8. TurnInv'
    BY <1>1, <2>5, <2>6, <2>7 DEF TurnInv
  <2>9. ASSUME NEW f \in Nat \X Nat, Finished(f) PROVE Finished(f)'
    <3>1. f[2] \in Nat /\ rendered \in Nat
      BY DEF TurnInv
    <3>. QED
      BY <1>1, <2>1, <2>5, <2>9, <3>1 DEF Finished
  <2>. QED
    BY <2>8, <2>9
<1>. QED
  BY <1>2, <1>3

LEMMA PopTurn ==
  ASSUME TurnInv, Pop
  PROVE  TurnInv' /\ \A f \in Nat \X Nat : Finished(f) => Finished(f)'
<1>1. /\ queue # <<>> /\ task' = Head(queue) /\ queue' = Tail(queue)
      /\ pc = "pop" /\ pc' = "image" /\ up
      /\ UNCHANGED <<run, up, rendered, described>>
  BY DEF Pop, history
<1>2. /\ Head(queue) \in Tasks /\ Head(queue) \in Range(queue)
      /\ Tail(queue) \in Seq(Tasks) /\ Ordered(Tail(queue))
      /\ Range(Tail(queue)) \subseteq Range(queue)
      /\ \A t \in Range(Tail(queue)) : Head(queue).frame[2] < t.frame[2]
  BY <1>1, TailOrdered DEF TurnInv
<1>3. TurnInv'
  BY <1>1, <1>2 DEF TurnInv, Working
<1>4. ASSUME NEW f \in Nat \X Nat, Finished(f) PROVE Finished(f)'
  BY <1>1, <1>2, <1>4 DEF Finished
<1>. QED
  BY <1>3, <1>4

\* The thread never comes back to a frame it is done with.
LEMMA TurnStep ==
  ASSUME TurnInv, [Next]_vars
  PROVE  TurnInv' /\ \A f \in Nat \X Nat : Finished(f) => Finished(f)'
<1>1. ASSUME NEW n \in 0 .. MaxDetections, Submit(n)
      PROVE  TurnInv' /\ \A f \in Nat \X Nat : Finished(f) => Finished(f)'
  BY <1>1, SubmitTurn
<1>2. CASE Pop
  BY <1>2, PopTurn
<1>3. CASE /\ UNCHANGED <<run, up, queue, rendered, task>>
           /\ described' \in Nat
           /\ pc' \in {"loop", "pop", "image", "open", "describe", "done"}
           /\ Working' => Working
           /\ up \/ UNCHANGED pc
  <2>1. TurnInv'
    BY <1>3 DEF TurnInv
  <2>2. ASSUME NEW f \in Nat \X Nat, Finished(f) PROVE Finished(f)'
    BY <1>3, <2>2 DEF Finished
  <2>. QED
    BY <2>1, <2>2
<1>4. CASE Restart
  <2>1. /\ run' = run + 1 /\ up' = TRUE /\ pc = "loop" /\ queue = <<>>
        /\ UNCHANGED <<pc, queue, rendered, described>>
    BY <1>4 DEF Restart, TurnInv, work, history
  <2>2. Range(queue) = {} /\ ~Working'
    BY <2>1 DEF Range, Working
  <2>3. TurnInv'
    BY <2>1, <2>2 DEF TurnInv
  <2>4. ASSUME NEW f \in Nat \X Nat, Finished(f) PROVE Finished(f)'
    BY <2>1, <2>4 DEF Finished, TurnInv
  <2>. QED
    BY <2>3, <2>4
<1>5. CASE Exit \/ Crash
  <2>1. /\ Forget /\ run' = run
    BY <1>5 DEF Exit, Crash
  <2>2. /\ up' = FALSE /\ pc' = "loop" /\ queue' = <<>> /\ rendered' = 0 /\ described' = 0
        /\ ~Working'
    BY <2>1 DEF Forget, Working
  <2>3. queue' \in Seq(Tasks) /\ Ordered(queue') /\ Range(queue') = {}
    BY <2>2 DEF Ordered, Range
  <2>4. TurnInv'
    BY <2>1, <2>2, <2>3 DEF TurnInv
  <2>5. ASSUME NEW f \in Nat \X Nat, Finished(f) PROVE Finished(f)'
    BY <2>1, <2>2, <2>5 DEF Finished
  <2>. QED
    BY <2>4, <2>5
<1>6. Loop \/ PopNothing \/ ImageFails \/ WriteImage \/ OpenLog \/ Describe \/ EndLine
      \/ SpillBuffer \/ SpillFails \/ CloseLog \/ CloseFails \/ Stop \/ UNCHANGED vars
        => /\ UNCHANGED <<run, up, queue, rendered, task>>
           /\ described' \in Nat
           /\ pc' \in {"loop", "pop", "image", "open", "describe", "done"}
           /\ Working' => Working
           /\ up \/ UNCHANGED pc
  BY DEF TurnInv, Loop, PopNothing, ImageFails, WriteImage, OpenLog, Describe, EndLine,
         SpillBuffer, SpillFails, CloseLog, CloseFails, Stop, vars, work, disk, history,
         Working, Settle
<1>. QED
  BY <1>1, <1>2, <1>3, <1>4, <1>5, <1>6 DEF Next, EventThread
-----------------------------------------------------------------------------
(* The log and what is on its way to it.                                   *)

Frames == Nat \X Nat

\* Everything that has been given to a stream and is not lost.
Written == Range(log) \cup Range(buffer)

\* A write of frame f has failed.
CutOf(f) == \E c \in cuts : c.frame = f

\* The record describes nothing that is yet to be described.
Described(r) ==
  \/ Finished(r.frame)
  \/ pc = "describe" /\ r.frame = task.frame /\ r.detection <= described

\* The stream lives as long as its task, and holds nothing of another.
StreamInv ==
  /\ log \in Seq(RecordsOf(Frames)) /\ buffer \in Seq(RecordsOf(Frames))
  /\ log_open \in BOOLEAN
  /\ \A r \in Written : r # Newline => Described(r)
  /\ pc # "describe" => buffer = <<>>
  /\ \A k \in 1 .. Len(buffer) :
       buffer[k] = Newline \/ (Whole(buffer[k]) /\ buffer[k].frame = task.frame)
  /\ line_open => up /\ pc = "describe"

\* A frame whose write has failed is behind the thread, or the stream is bad.
CutsInv ==
  \A c \in cuts :
    /\ c.at \in Nat /\ c.at <= Len(log) /\ c.frame \in Frames
    /\ Finished(c.frame) \/ (pc = "describe" /\ c.frame = task.frame /\ ~log_open)

LEMMA NewlineType == Newline \in RecordsOf(Frames) /\ ~Whole(Newline)
  BY DEF Newline, RecordsOf, Frames, Whole

LEMMA EntryType ==
  ASSUME NEW r \in RecordsOf(Frames)
  PROVE  /\ r.frame \in Frames /\ r.frame[1] \in Nat /\ r.frame[2] \in Nat
         /\ r.detection \in Nat
         /\ Whole(r) => r # Newline
         /\ Torn(r) \in RecordsOf(Frames) /\ ~Whole(Torn(r)) /\ Torn(r).frame = r.frame
<1>1. /\ r.frame \in Frames /\ r.frame[1] \in Nat /\ r.frame[2] \in Nat
      /\ r.detection \in Nat
  BY DEF RecordsOf, Frames
<1>2. Torn(r) \in RecordsOf(Frames) /\ Torn(r).detection = 0 /\ Torn(r).frame = r.frame
  BY TornRecord
<1>3. ~Whole(Torn(r)) /\ ~Whole(Newline)
  BY <1>2 DEF Whole, Newline
<1>4. Whole(r) => r # Newline
  BY <1>3
<1>. QED
  BY <1>1, <1>2, <1>3, <1>4

\* Concatenation, item by item.
LEMMA ConcatItems ==
  ASSUME NEW S, NEW s \in Seq(S), NEW t \in Seq(S)
  PROVE  /\ s \o t \in Seq(S) /\ Len(s \o t) = Len(s) + Len(t)
         /\ \A i \in 1 .. Len(s \o t) :
              \/ i \in 1 .. Len(s) /\ (s \o t)[i] = s[i]
              \/ \E k \in 1 .. Len(t) : i = Len(s) + k /\ (s \o t)[i] = t[k]
         /\ Range(s \o t) = Range(s) \cup Range(t)
<1>. DEFINE st == s \o t
<1>1. /\ Len(s) \in Nat /\ Len(t) \in Nat /\ st \in Seq(S)
      /\ Len(st) = Len(s) + Len(t)
      /\ DOMAIN st = 1 .. Len(s) + Len(t) /\ DOMAIN s = 1 .. Len(s) /\ DOMAIN t = 1 .. Len(t)
      /\ \A i \in 1 .. Len(s) : st[i] = s[i]
      /\ \A i \in 1 .. Len(t) : st[Len(s) + i] = t[i]
  OBVIOUS
<1>. HIDE DEF st
<1>2. ASSUME NEW i \in 1 .. Len(st)
      PROVE  \/ i \in 1 .. Len(s) /\ st[i] = s[i]
             \/ \E k \in 1 .. Len(t) : i = Len(s) + k /\ st[i] = t[k]
  <2>1. CASE i \in 1 .. Len(s)
    BY <1>1, <2>1
  <2>2. CASE i \notin 1 .. Len(s)
    <3>. DEFINE j == i - Len(s)
    <3>1. j \in 1 .. Len(t) /\ i = Len(s) + j
      BY <1>1, <2>2
    <3>. HIDE DEF j
    <3>2. st[i] = t[j]
      BY <1>1, <3>1
    <3>. QED
      BY <3>1, <3>2
  <2>. QED
    BY <2>1, <2>2
<1>3. Range(st) = Range(s) \cup Range(t)
  <2>1. ASSUME NEW i \in 1 .. Len(st) PROVE st[i] \in Range(s) \cup Range(t)
    BY <1>1, <1>2 DEF Range
  <2>2. ASSUME NEW i \in 1 .. Len(s) PROVE s[i] \in Range(st)
    <3>1. i \in 1 .. Len(s) + Len(t)
      BY <1>1
    <3>. QED
      BY <1>1, <3>1 DEF Range
  <2>3. ASSUME NEW i \in 1 .. Len(t) PROVE t[i] \in Range(st)
    <3>1. Len(s) + i \in 1 .. Len(s) + Len(t)
      BY <1>1
    <3>. QED
      BY <1>1, <3>1 DEF Range
  <2>4. Range(st) \subseteq Range(s) \cup Range(t)
    BY <1>1, <2>1 DEF Range
  <2>5. Range(s) \subseteq Range(st) /\ Range(t) \subseteq Range(st)
    BY <1>1, <2>2, <2>3 DEF Range
  <2>. QED
    BY <2>4, <2>5
<1>. QED
  BY <1>1, <1>2, <1>3 DEF st

\* What Describe writes.
LEMMA DescribedType ==
  ASSUME TurnInv, Describe
  PROVE  /\ [frame |-> task.frame, detection |-> described + 1] \in RecordsOf(Frames)
         /\ task.frame \in Frames /\ task.frame[1] = run /\ described \in Nat
         /\ task.detections \in Nat \ {0}
<1>1. pc = "describe" /\ Working
  BY DEF Describe, Working
<1>2. task \in Tasks /\ described \in Nat /\ task.frame[1] = run
  BY <1>1 DEF TurnInv
<1>. QED
  BY <1>2 DEF Tasks, RecordsOf, Frames

\* What the file gets and what the stream keeps, item by item.
LEMMA WritesItems ==
  ASSUME StreamInv, TurnInv, NEW w, Writes(w)
  PROVE  /\ w \in Seq(RecordsOf(Frames))
         /\ log' \in Seq(RecordsOf(Frames)) /\ buffer' \in Seq(RecordsOf(Frames))
         /\ Len(w) \in Nat /\ Len(buffer) \in Nat /\ Len(log) \in Nat
         /\ Len(w) <= Len(buffer) /\ Len(log') = Len(log) + Len(w)
         /\ Len(buffer') <= Len(buffer)
         /\ \A i \in 1 .. Len(log) : i \in 1 .. Len(log') /\ log'[i] = log[i]
         /\ \A i \in 1 .. Len(log') :
              \/ i \in 1 .. Len(log) /\ log'[i] = log[i]
              \/ \E k \in 1 .. Len(w) : i = Len(log) + k /\ log'[i] = w[k]
         /\ Range(log') = Range(log) \cup Range(w)
         /\ \A k \in 1 .. Len(w) :
              /\ k \in 1 .. Len(buffer)
              /\ \/ w[k] = buffer[k]
                 \/ /\ ~Whole(w[k]) /\ w[k] # Newline /\ w[k] = Torn(buffer[k])
                    /\ w[k].frame = task.frame /\ k = Len(w)
                    /\ w \in CutShort(buffer) /\ buffer[k] # Newline
         /\ \A k \in 1 .. Len(buffer') :
              k \in 1 .. Len(buffer) /\ buffer'[k] = buffer[k]
<1>1. /\ log \in Seq(RecordsOf(Frames)) /\ buffer \in Seq(RecordsOf(Frames))
      /\ \A x \in RecordsOf(Frames) : x # Newline => Torn(x) \in RecordsOf(Frames)
      /\ \A k \in 1 .. Len(buffer) : buffer[k] \in RecordsOf(Frames)
      /\ Len(buffer) \in Nat
  BY EntryType, ElementOfSeq, LenProperties DEF StreamInv
<1>2. /\ w \in Seq(RecordsOf(Frames))
      /\ log' \in Seq(RecordsOf(Frames)) /\ buffer' \in Seq(RecordsOf(Frames))
      /\ Len(w) \in Nat /\ Len(w) <= Len(buffer) /\ Len(log) \in Nat
      /\ Len(log') = Len(log) + Len(w)
      /\ \A i \in 1 .. Len(log) : log'[i] = log[i]
  BY <1>1, WritesType
<1>3. log' = log \o w
  BY DEF Writes
<1>4. /\ Range(log') = Range(log) \cup Range(w)
      /\ \A i \in 1 .. Len(log') :
              \/ i \in 1 .. Len(log) /\ log'[i] = log[i]
              \/ \E k \in 1 .. Len(w) : i = Len(log) + k /\ log'[i] = w[k]
  BY <1>1, <1>2, <1>3, ConcatItems
<1>5. \A k \in 1 .. Len(w) : k \in 1 .. Len(buffer)
  BY <1>1, <1>2
<1>6. CASE w = buffer /\ buffer' = <<>>
  <2>1. Len(buffer') = 0
    BY <1>6
  <2>2. Len(buffer') <= Len(buffer) /\ \A k \in 1 .. Len(buffer') : FALSE
    BY <1>1, <2>1
  <2>3. \A k \in 1 .. Len(w) : w[k] = buffer[k]
    BY <1>6
  <2>. QED
    BY <1>1, <1>2, <1>4, <1>5, <2>2, <2>3
<1>7. CASE w \in CutShort(buffer) /\ (buffer' = Front(buffer) \/ buffer' = <<>>)
  <2>1. /\ buffer # <<>>
        /\ \A k \in 1 .. Len(w) :
              w[k] = buffer[k] \/ (buffer[k] # Newline /\ w[k] = Torn(buffer[k]) /\ k = Len(w))
    BY <1>1, <1>7, CutShortItems
  <2>2. \A k \in 1 .. Len(buffer') : k \in 1 .. Len(buffer) /\ buffer'[k] = buffer[k]
    BY <1>1, <1>7, <2>1, FrontItems
  <2>3. Len(buffer') <= Len(buffer)
    BY <1>1, <1>7, <2>1, FrontItems
  <2>4. ASSUME NEW k \in 1 .. Len(w), w[k] # buffer[k]
        PROVE  /\ ~Whole(w[k]) /\ w[k] # Newline /\ w[k] = Torn(buffer[k])
               /\ w[k].frame = task.frame /\ k = Len(w) /\ buffer[k] # Newline
    <3>1. buffer[k] # Newline /\ w[k] = Torn(buffer[k]) /\ k = Len(w)
      BY <2>1, <2>4
    <3>2. k \in 1 .. Len(buffer)
      BY <1>5
    <3>3. buffer[k].frame = task.frame /\ buffer[k] \in RecordsOf(Frames) /\ Whole(buffer[k])
      BY <1>1, <3>1, <3>2 DEF StreamInv
    <3>4. ~Whole(w[k]) /\ w[k].frame = task.frame
      BY <3>1, <3>3, EntryType
    <3>5. task.frame # Newline.frame
      <4>1. Working
        BY DEF Writes, Working
      <4>2. task.frame[1] # 0
        BY <4>1 DEF TurnInv
      <4>. QED
        BY <4>2 DEF Newline
    <3>. QED
      BY <3>1, <3>4, <3>5
  <2>5. \A k \in 1 .. Len(w) :
           /\ k \in 1 .. Len(buffer)
           /\ \/ w[k] = buffer[k]
              \/ /\ ~Whole(w[k]) /\ w[k] # Newline /\ w[k] = Torn(buffer[k])
                 /\ w[k].frame = task.frame /\ k = Len(w)
                 /\ w \in CutShort(buffer) /\ buffer[k] # Newline
    BY <1>5, <1>7, <2>4
  <2>. QED
    BY <1>1, <1>2, <1>4, <2>2, <2>3, <2>5
<1>8. \/ w = buffer /\ buffer' = <<>>
      \/ w \in CutShort(buffer) /\ (buffer' = Front(buffer) \/ buffer' = <<>>)
  BY DEF Writes
<1>. QED
  BY <1>6, <1>7, <1>8

\* The task in hand stays in hand, or the thread is behind it.
LEMMA HandKept ==
  ASSUME TurnInv, pc = "describe", [Next]_vars
  PROVE  \/ /\ pc' = "describe" /\ up' /\ UNCHANGED <<task, run>>
            /\ log_open' = log_open \/ log_open' = FALSE
            /\ described' = described \/ described' = described + 1
         \/ /\ pc' = "loop" /\ UNCHANGED run
            /\ \A f : f = task.frame => Finished(f)'
<1>1. /\ Working /\ up /\ task.frame[1] = run /\ task.frame[2] <= rendered
      /\ \A t \in Range(queue) : task.frame[2] < t.frame[2]
  BY DEF TurnInv, Working
<1>2. CASE CloseLog \/ CloseFails
  <2>1. pc' = "loop" /\ UNCHANGED <<run, up, queue, rendered>>
    BY <1>2 DEF CloseLog, CloseFails
  <2>2. ASSUME NEW f, f = task.frame PROVE Finished(f)'
    BY <1>1, <2>1, <2>2 DEF Finished, Working
  <2>. QED
    BY <2>1, <2>2
<1>3. CASE Exit \/ Crash
  <2>1. up' = FALSE /\ run' = run /\ pc' = "loop"
    BY <1>3 DEF Exit, Crash, Forget
  <2>2. ASSUME NEW f, f = task.frame PROVE Finished(f)'
    BY <1>1, <2>1, <2>2 DEF Finished
  <2>. QED
    BY <2>1, <2>2
<1>4. CASE Describe \/ EndLine \/ SpillBuffer \/ SpillFails \/ Stop \/ UNCHANGED vars
  BY <1>1, <1>4 DEF Describe, EndLine, SpillBuffer, SpillFails, Stop, vars, work
<1>5. ASSUME NEW n \in 0 .. MaxDetections, Submit(n)
      PROVE  pc' = "describe" /\ up' /\ UNCHANGED <<task, run, log_open, described>>
  BY <1>1, <1>5 DEF Submit, work
<1>6. ~(Loop \/ Pop \/ PopNothing \/ ImageFails \/ WriteImage \/ OpenLog \/ Restart)
  BY <1>1 DEF Loop, Pop, PopNothing, ImageFails, WriteImage, OpenLog, Restart
<1>. QED
  BY <1>2, <1>3, <1>4, <1>5, <1>6 DEF Next, EventThread

\* What has been described stays described.
LEMMA DescribedKeeps ==
  ASSUME TurnInv, [Next]_vars, NEW r \in RecordsOf(Frames), Described(r)
  PROVE  Described(r)'
<1>1. r.frame \in Frames /\ r.detection \in Nat /\ described \in Nat
  BY EntryType DEF TurnInv
<1>2. CASE Finished(r.frame)
  <2>1. Finished(r.frame)'
    BY <1>1, <1>2, TurnStep DEF Frames
  <2>. QED
    BY <2>1 DEF Described
<1>3. CASE pc = "describe" /\ r.frame = task.frame /\ r.detection <= described
  <2>1. CASE Finished(r.frame)'
    BY <2>1 DEF Described
  <2>2. CASE /\ pc' = "describe" /\ UNCHANGED task
             /\ described' = described \/ described' = described + 1
    <3>1. r.detection <= described'
      BY <1>1, <1>3, <2>2
    <3>. QED
      BY <1>3, <2>2, <3>1 DEF Described
  <2>. QED
    BY <1>3, <2>1, <2>2, HandKept
<1>. QED
  BY <1>2, <1>3 DEF Described

\* Only five steps, and the end of the process, touch the log or the stream.
LEMMA QuietSteps ==
  ASSUME TurnInv, StreamInv, [Next]_vars
  PROVE  \/ WritingStep \/ Describe \/ EndLine \/ Exit \/ Crash
         \/ /\ UNCHANGED <<log, buffer, cuts, line_open, remembered>>
            /\ \/ Restart
               \/ /\ UNCHANGED <<run, up>>
                  /\ \/ UNCHANGED <<task, log_open>> /\ (pc' = "describe" => pc = "describe")
                     \/ buffer = <<>> /\ ~line_open /\ pc # "describe"
<1>1. pc # "describe" => buffer = <<>> /\ ~line_open
  BY DEF StreamInv
<1>2. CASE Loop \/ Pop \/ PopNothing \/ ImageFails \/ WriteImage \/ OpenLog
  BY <1>1, <1>2 DEF Loop, Pop, PopNothing, ImageFails, WriteImage, OpenLog, work, disk, history
<1>3. CASE Stop \/ UNCHANGED vars
  BY <1>3 DEF Stop, vars, work, disk, history
<1>4. CASE Restart
  BY <1>4 DEF Restart, work, disk, history
<1>5. ASSUME NEW n \in 0 .. MaxDetections, Submit(n)
      PROVE  UNCHANGED <<log, buffer, cuts, line_open, remembered, run, up, task, log_open, pc>>
  BY <1>5 DEF Submit, work, disk
<1>. QED
  BY <1>2, <1>3, <1>4, <1>5 DEF Next, EventThread, WritingStep

\* Describe and EndLine give the stream a record and a newline, if it is good.
Gives(x) ==
  /\ UNCHANGED <<log, cuts, run, up, pc, task, log_open>> /\ up /\ pc = "describe"
  /\ buffer' = IF log_open THEN Append(buffer, x) ELSE buffer

LEMMA GivingSteps ==
  ASSUME TurnInv
  PROVE  /\ Describe =>
              /\ Gives([frame |-> task.frame, detection |-> described + 1])
              /\ ~line_open /\ line_open' = log_open
         /\ EndLine => Gives(Newline) /\ line_open /\ ~line_open' /\ UNCHANGED remembered
<1>1. ASSUME Describe
      PROVE  /\ Gives([frame |-> task.frame, detection |-> described + 1])
             /\ ~line_open /\ line_open' = log_open
  BY <1>1 DEF Describe, Gives, disk
<1>2. ASSUME EndLine
      PROVE  Gives(Newline) /\ line_open /\ ~line_open' /\ UNCHANGED remembered
  BY <1>2 DEF EndLine, Gives, disk, history
<1>. QED
  BY <1>1, <1>2

\* The stream after one of them.
LEMMA GivesItems ==
  ASSUME StreamInv, NEW x \in RecordsOf(Frames), Gives(x)
  PROVE  /\ buffer' \in Seq(RecordsOf(Frames)) /\ Len(buffer) \in Nat
         /\ \/ ~log_open /\ buffer' = buffer
            \/ /\ log_open /\ Len(buffer') = Len(buffer) + 1 /\ buffer' # <<>>
               /\ \A k \in 1 .. Len(buffer) : k \in 1 .. Len(buffer') /\ buffer'[k] = buffer[k]
               /\ buffer'[Len(buffer) + 1] = x
               /\ \A k \in 1 .. Len(buffer') : k \in 1 .. Len(buffer) \/ k = Len(buffer) + 1
         /\ Range(buffer') \subseteq Range(buffer) \cup {x}
<1>1. buffer \in Seq(RecordsOf(Frames)) /\ Len(buffer) \in Nat
  BY LenProperties DEF StreamInv
<1>2. CASE ~log_open
  BY <1>1, <1>2 DEF Gives
<1>3. CASE log_open
  <2>1. buffer' = Append(buffer, x)
    BY <1>3 DEF Gives
  <2>2. /\ Append(buffer, x) \in Seq(RecordsOf(Frames)) /\ Len(Append(buffer, x)) = Len(buffer) + 1
        /\ \A i \in 1 .. Len(buffer) : Append(buffer, x)[i] = buffer[i]
        /\ Append(buffer, x)[Len(buffer) + 1] = x
        /\ Range(Append(buffer, x)) = Range(buffer) \cup {x}
    BY <1>1, AppendRange
  <2>3. /\ \A k \in 1 .. Len(buffer) + 1 : k \in 1 .. Len(buffer) \/ k = Len(buffer) + 1
        /\ \A k \in 1 .. Len(buffer) : k \in 1 .. Len(buffer) + 1
    BY <1>1
  <2>4. buffer' # <<>>
    BY <1>1, <2>1, <2>2
  <2>. QED
    BY <1>1, <1>3, <2>1, <2>2, <2>3, <2>4
<1>. QED
  BY <1>2, <1>3

LEMMA StreamStep ==
  ASSUME TurnInv, StreamInv, [Next]_vars
  PROVE  StreamInv'
<1>. DEFINE record == [frame |-> task.frame, detection |-> described + 1]
<1>1. /\ log \in Seq(RecordsOf(Frames)) /\ buffer \in Seq(RecordsOf(Frames))
      /\ \A r \in Range(log) : r \in RecordsOf(Frames)
      /\ \A r \in Range(buffer) : r \in RecordsOf(Frames)
      /\ \A k \in 1 .. Len(buffer) : buffer[k] \in RecordsOf(Frames) /\ buffer[k] \in Range(buffer)
  BY DEF StreamInv, Range
<1>2. \A r \in Written : r # Newline => Described(r)'
  BY <1>1, DescribedKeeps DEF StreamInv, Written
<1>3. log_open' \in BOOLEAN
  BY DEF StreamInv, Next, EventThread, Submit, Loop, Pop, PopNothing, ImageFails, WriteImage,
         OpenLog, Describe, EndLine, SpillBuffer, SpillFails, CloseLog, CloseFails, Stop,
         Exit, Crash, Forget, Restart, vars, work
<1>4. CASE Describe
  <2>1. record \in RecordsOf(Frames) /\ described \in Nat
    BY <1>4, DescribedType
  <2>2. /\ Gives(record) /\ line_open' = log_open /\ up' /\ pc' = "describe" /\ UNCHANGED task
        /\ described' = described + 1
    BY <1>4, GivingSteps DEF Gives, Describe
  <2>3. Whole(record) /\ record.frame = task.frame /\ record.detection = described + 1
    BY <2>1 DEF Whole
  <2>4. ASSUME NEW r, r = record PROVE Described(r)'
    <3>1. r.detection <= described' /\ r.frame = task'.frame
      BY <2>1, <2>2, <2>3, <2>4
    <3>. QED
      BY <2>2, <3>1 DEF Described
  <2>5. UNCHANGED log
    BY <2>2 DEF Gives
  <2>. HIDE DEF record
  <2>6. /\ buffer' \in Seq(RecordsOf(Frames)) /\ Range(buffer') \subseteq Range(buffer) \cup {record}
        /\ \A k \in 1 .. Len(buffer') :
             (k \in 1 .. Len(buffer) /\ buffer'[k] = buffer[k]) \/ buffer'[k] = record
    BY <2>1, <2>2, GivesItems
  <2>7. \A r \in Written' : r # Newline => Described(r)'
    BY <1>2, <2>4, <2>5, <2>6 DEF Written
  <2>8. \A k \in 1 .. Len(buffer') :
          buffer'[k] = Newline \/ (Whole(buffer'[k]) /\ buffer'[k].frame = task'.frame)
    BY <2>2, <2>3, <2>6 DEF StreamInv
  <2>. QED
    BY <1>1, <1>3, <2>2, <2>5, <2>6, <2>7, <2>8 DEF StreamInv
<1>5. CASE EndLine
  <2>1. /\ Gives(Newline) /\ ~line_open' /\ pc' = "describe" /\ UNCHANGED <<task, log>>
    BY <1>5, GivingSteps DEF Gives
  <2>2. /\ buffer' \in Seq(RecordsOf(Frames)) /\ Range(buffer') \subseteq Range(buffer) \cup {Newline}
        /\ \A k \in 1 .. Len(buffer') :
             (k \in 1 .. Len(buffer) /\ buffer'[k] = buffer[k]) \/ buffer'[k] = Newline
    BY <2>1, GivesItems, NewlineType
  <2>3. \A r \in Written' : r # Newline => Described(r)'
    BY <1>2, <2>1, <2>2 DEF Written
  <2>4. \A k \in 1 .. Len(buffer') :
          buffer'[k] = Newline \/ (Whole(buffer'[k]) /\ buffer'[k].frame = task'.frame)
    BY <2>1, <2>2 DEF StreamInv
  <2>. QED
    BY <1>1, <1>3, <2>1, <2>2, <2>3, <2>4 DEF StreamInv
<1>6. CASE WritingStep
  <2>1. PICK w : Writes(w)
    BY <1>6, WritingSteps
  <2>2. /\ pc = "describe" /\ UNCHANGED <<task, line_open, up>>
        /\ pc' = "describe" \/ (~line_open /\ buffer' = <<>>)
    BY <2>1 DEF Writes
  <2>3. /\ log' \in Seq(RecordsOf(Frames)) /\ buffer' \in Seq(RecordsOf(Frames))
        /\ w \in Seq(RecordsOf(Frames))
        /\ Range(log') = Range(log) \cup Range(w)
        /\ \A k \in 1 .. Len(w) :
              /\ k \in 1 .. Len(buffer)
              /\ w[k] = buffer[k] \/ (w[k].frame = task.frame /\ w[k] = Torn(buffer[k]))
        /\ \A k \in 1 .. Len(buffer') :
              k \in 1 .. Len(buffer) /\ buffer'[k] = buffer[k]
    BY <2>1, WritesItems
  <2>4. ASSUME NEW r \in Range(w), r # Newline PROVE Described(r)'
    <3>1. PICK k \in 1 .. Len(w) : r = w[k]
      BY <2>3, <2>4 DEF Range
    <3>2. CASE w[k] = buffer[k]
      BY <1>1, <1>2, <2>3, <2>4, <3>1, <3>2 DEF Written
    <3>3. CASE w[k].frame = task.frame /\ w[k] = Torn(buffer[k])
      <4>1. buffer[k] \in RecordsOf(Frames)
        BY <1>1, <2>3
      <4>2. r \in RecordsOf(Frames) /\ r.detection = 0 /\ r.frame = task.frame
        BY <3>1, <3>3, <4>1, TornRecord
      <4>3. r.detection <= described
        BY <4>2 DEF TurnInv
      <4>4. Described(r)
        BY <2>2, <4>2, <4>3 DEF Described
      <4>. QED
        BY <4>2, <4>4, DescribedKeeps
    <3>. QED
      BY <2>3, <3>2, <3>3
  <2>5. Range(buffer') \subseteq Range(buffer)
    BY <1>1, <2>3 DEF Range
  <2>6. \A r \in Written' : r # Newline => Described(r)'
    BY <1>2, <2>3, <2>4, <2>5 DEF Written
  <2>7. \A k \in 1 .. Len(buffer') :
          buffer'[k] = Newline \/ (Whole(buffer'[k]) /\ buffer'[k].frame = task'.frame)
    BY <2>2, <2>3 DEF StreamInv
  <2>. QED
    BY <1>3, <2>2, <2>3, <2>6, <2>7 DEF StreamInv
<1>7. CASE Exit \/ Crash
  <2>1. buffer' = <<>> /\ ~line_open' /\ UNCHANGED log
    BY <1>7 DEF Exit, Crash, Forget, disk
  <2>2. buffer' \in Seq(RecordsOf(Frames)) /\ Range(buffer') = {} /\ Len(buffer') = 0
    BY <2>1 DEF Range
  <2>3. \A r \in Written' : r # Newline => Described(r)'
    BY <1>2, <2>1, <2>2 DEF Written
  <2>. QED
    BY <1>1, <1>3, <2>1, <2>2, <2>3 DEF StreamInv
<1>8. CASE /\ UNCHANGED <<log, buffer, line_open>>
           /\ \/ Restart
              \/ /\ UNCHANGED <<run, up>>
                 /\ \/ UNCHANGED <<task, log_open>> /\ (pc' = "describe" => pc = "describe")
                    \/ buffer = <<>> /\ ~line_open /\ pc # "describe"
  <2>1. \A r \in Written' : r # Newline => Described(r)'
    BY <1>2, <1>8 DEF Written
  <2>2. CASE buffer = <<>> /\ ~line_open
    <3>1. Len(buffer') = 0
      BY <1>8, <2>2
    <3>. QED
      BY <1>1, <1>3, <1>8, <2>1, <2>2, <3>1 DEF StreamInv
  <2>3. CASE /\ UNCHANGED <<run, up, task>> /\ (pc' = "describe" => pc = "describe")
             /\ pc = "describe" /\ pc' = "describe"
    BY <1>1, <1>3, <1>8, <2>1, <2>3 DEF StreamInv
  <2>4. pc # "describe" => buffer = <<>> /\ ~line_open
    BY DEF StreamInv
  <2>5. Restart => ~up /\ pc # "describe"
    BY DEF Restart, TurnInv
  <2>6. pc = "describe" => \/ WritingStep \/ Exit \/ Crash \/ pc' = "describe"
    BY DEF Next, EventThread, WritingStep, Submit, Loop, Pop, PopNothing, ImageFails,
       WriteImage, OpenLog, Describe, EndLine, Stop, Restart, TurnInv, vars
  <2>. QED
    BY <1>6, <1>7, <1>8, <2>2, <2>3, <2>4, <2>5, <2>6
<1>. QED
  BY <1>4, <1>5, <1>6, <1>7, <1>8, QuietSteps

LEMMA CutsStep ==
  ASSUME TurnInv, StreamInv, CutsInv, [Next]_vars
  PROVE  CutsInv'
<1>1. \A f \in Frames : Finished(f) => Finished(f)'
  BY TurnStep DEF Frames
<1>2. ASSUME NEW c \in cuts
      PROVE  /\ c.at \in Nat /\ c.at <= Len(log) /\ c.frame \in Frames
             /\ Finished(c.frame)' \/ (pc' = "describe" /\ c.frame = task'.frame /\ ~log_open')
  <2>1. /\ c.at \in Nat /\ c.at <= Len(log) /\ c.frame \in Frames
        /\ Finished(c.frame) \/ (pc = "describe" /\ c.frame = task.frame /\ ~log_open)
    BY DEF CutsInv
  <2>2. CASE pc = "describe" /\ c.frame = task.frame /\ ~log_open
    <3>1. CASE \A f : f = task.frame => Finished(f)'
      BY <2>1, <2>2, <3>1
    <3>2. CASE pc' = "describe" /\ UNCHANGED task /\ (log_open' = log_open \/ log_open' = FALSE)
      BY <2>1, <2>2, <3>2
    <3>. QED
      BY <2>2, <3>1, <3>2, HandKept
  <2>3. CASE Finished(c.frame)
    BY <1>1, <2>1, <2>3
  <2>. QED
    BY <2>1, <2>2, <2>3
<1>3. CASE WritingStep
  <2>1. PICK w : Writes(w)
    BY <1>3, WritingSteps
  <2>2. Len(log') \in Nat /\ Len(log) \in Nat /\ Len(log) <= Len(log')
    BY <2>1, WritesItems
  <2>3. ASSUME NEW c \in cuts', c \notin cuts
        PROVE  /\ c.at = Len(log') /\ c.frame \in Frames
               /\ Finished(c.frame)' \/ (pc' = "describe" /\ c.frame = task'.frame /\ ~log_open')
    <3>1. /\ c.at = Len(log') /\ c.frame = task.frame /\ pc = "describe"
          /\ (pc' = "describe" /\ ~log_open') \/ pc' = "loop"
      BY <2>1, <2>3 DEF Writes
    <3>2. c.frame \in Frames
      BY <3>1 DEF TurnInv, Working, Tasks, Frames
    <3>. QED
      BY <3>1, <3>2, HandKept
  <2>4. ASSUME NEW c \in cuts' PROVE c.at \in Nat /\ c.at <= Len(log')
    BY <1>2, <2>2, <2>3
  <2>. QED
    BY <1>2, <2>3, <2>4 DEF CutsInv
<1>4. CASE UNCHANGED <<log, cuts>>
  BY <1>2, <1>4 DEF CutsInv
<1>5. UNCHANGED <<log, cuts>> \/ WritingStep
  BY DEF Next, EventThread, WritingStep, Submit, Loop, Pop, PopNothing, ImageFails, WriteImage,
         OpenLog, Describe, EndLine, Stop, Exit, Crash, Restart, vars, disk
<1>. QED
  BY <1>3, <1>4, <1>5

-----------------------------------------------------------------------------
(* The order of the records.                                               *)

\* The log is in order, so is what the stream holds, and what it holds comes
\* after the log but for a frame one of whose writes has failed.
OrderInv ==
  /\ LogInOrder
  /\ \A i, j \in 1 .. Len(buffer) :
       i < j /\ Whole(buffer[i]) /\ Whole(buffer[j]) => Before(buffer[i], buffer[j])
  /\ \A i \in 1 .. Len(log), j \in 1 .. Len(buffer) :
       Whole(log[i]) /\ Whole(buffer[j]) =>
         \/ Before(log[i], buffer[j])
         \/ log[i].frame = buffer[j].frame /\ CutBetween(i, Len(log) + 1, log[i].frame)

\* What is described next comes after everything there is.
LEMMA NextIsLater ==
  ASSUME TurnInv, StreamInv, Describe, NEW r \in Written, Whole(r)
  PROVE  Before(r, [frame |-> task.frame, detection |-> described + 1])
<1>1. r \in RecordsOf(Frames)
  BY DEF Written, StreamInv, Range
<1>2. /\ r # Newline /\ r.frame \in Frames /\ r.detection \in Nat
      /\ task.frame \in Frames /\ task.frame[1] = run /\ described \in Nat
      /\ pc = "describe" /\ up /\ Working
  BY <1>1, EntryType, DescribedType DEF Describe, Working
<1>3. Finished(r.frame) \/ (r.frame = task.frame /\ r.detection <= described)
  BY <1>2 DEF StreamInv, Described
<1>4. CASE Finished(r.frame)
  BY <1>2, <1>4 DEF Finished, Before
<1>5. CASE r.frame = task.frame /\ r.detection <= described
  <2>1. r.detection < described + 1
    BY <1>2, <1>5
  <2>. QED
    BY <1>5, <2>1 DEF Before
<1>. QED
  BY <1>3, <1>4, <1>5

\* A stream that is given something later stays in order.
LEMMA OrderGiven ==
  ASSUME StreamInv, OrderInv, NEW x \in RecordsOf(Frames), Gives(x),
         Whole(x) => \A r \in Written : Whole(r) => Before(r, x)
  PROVE  OrderInv'
<1>1. UNCHANGED <<log, cuts>>
  BY DEF Gives
<1>2. LogInOrder'
  BY <1>1 DEF OrderInv, LogInOrder, CutBetween
<1>3. CASE buffer' = buffer
  BY <1>1, <1>2, <1>3 DEF OrderInv, CutBetween
<1>4. CASE /\ Len(buffer') = Len(buffer) + 1 /\ Len(buffer) \in Nat
           /\ \A k \in 1 .. Len(buffer) : buffer'[k] = buffer[k]
           /\ buffer'[Len(buffer) + 1] = x
           /\ \A k \in 1 .. Len(buffer') : k \in 1 .. Len(buffer) \/ k = Len(buffer) + 1
  <2>1. /\ \A i \in 1 .. Len(log) : Whole(log[i]) /\ Whole(x) => Before(log[i], x)
        /\ \A i \in 1 .. Len(buffer) : Whole(buffer[i]) /\ Whole(x) => Before(buffer[i], x)
    BY DEF Written, Range, StreamInv
  <2>2. ASSUME NEW i \in 1 .. Len(buffer'), NEW j \in 1 .. Len(buffer'), i < j,
               Whole(buffer'[i]), Whole(buffer'[j])
        PROVE  Before(buffer'[i], buffer'[j])
    <3>1. i \in 1 .. Len(buffer)
      BY <1>4, <2>2
    <3>. QED
      BY <1>4, <2>1, <2>2, <3>1 DEF OrderInv
  <2>3. ASSUME NEW i \in 1 .. Len(log), NEW j \in 1 .. Len(buffer'),
               Whole(log[i]), Whole(buffer'[j])
        PROVE  \/ Before(log[i], buffer'[j])
               \/ log[i].frame = buffer'[j].frame /\ CutBetween(i, Len(log) + 1, log[i].frame)
    BY <1>4, <2>1, <2>3 DEF OrderInv
  <2>. QED
    BY <1>1, <1>2, <2>2, <2>3 DEF OrderInv, CutBetween
<1>. QED
  BY <1>3, <1>4, GivesItems

\* A write brings the log nothing out of order: what it repeats is of the frame
\* in hand and comes after the failure.
LEMMA OrderWritten ==
  ASSUME TurnInv, StreamInv, CutsInv, OrderInv, NEW w, Writes(w)
  PROVE  OrderInv'
<1>1. /\ Len(w) \in Nat /\ Len(buffer) \in Nat /\ Len(log) \in Nat
      /\ log' \in Seq(RecordsOf(Frames))
      /\ Len(w) <= Len(buffer) /\ Len(log') = Len(log) + Len(w)
      /\ Len(buffer') <= Len(buffer)
      /\ \A i \in 1 .. Len(log) : i \in 1 .. Len(log') /\ log'[i] = log[i]
      /\ \A i \in 1 .. Len(log') :
              \/ i \in 1 .. Len(log) /\ log'[i] = log[i]
              \/ \E k \in 1 .. Len(w) : i = Len(log) + k /\ log'[i] = w[k]
      /\ \A k \in 1 .. Len(w) :
              k \in 1 .. Len(buffer) /\ (w[k] = buffer[k] \/ ~Whole(w[k]))
      /\ \A k \in 1 .. Len(buffer') :
              k \in 1 .. Len(buffer) /\ buffer'[k] = buffer[k]
  BY WritesItems
<1>2. /\ \A c \in cuts : c \in cuts' /\ c.at \in Nat /\ c.at <= Len(log)
      /\ buffer' # <<>> => [at |-> Len(log'), frame |-> task.frame] \in cuts'
  BY DEF Writes, CutsInv
<1>3. \A k \in 1 .. Len(buffer) : Whole(buffer[k]) => buffer[k].frame = task.frame
  BY NewlineType DEF StreamInv
<1>. DEFINE Later(i, j, f) == \E c \in cuts' : c.frame = f /\ i <= c.at /\ c.at < j
<1>4. \A i, j, f : CutBetween(i, j, f) => Later(i, j, f)
  BY <1>2 DEF CutBetween
<1>10. ASSUME NEW i, NEW j, NEW f, Len(log) + 1 <= j, j \in Nat,
              CutBetween(i, Len(log) + 1, f)
       PROVE  Later(i, j, f)
  <2>1. PICK c \in cuts : c.frame = f /\ i <= c.at /\ c.at < Len(log) + 1
    BY <1>10 DEF CutBetween
  <2>2. c.at < j /\ c \in cuts'
    BY <1>1, <1>2, <1>10, <2>1
  <2>. QED
    BY <2>1, <2>2
<1>5. ASSUME NEW i \in 1 .. Len(log'), NEW j \in 1 .. Len(log'), i < j,
             Whole(log'[i]), Whole(log'[j])
      PROVE  \/ Before(log'[i], log'[j])
             \/ log'[i].frame = log'[j].frame /\ Later(i, j, log'[i].frame)
  <2>1. CASE i \in 1 .. Len(log) /\ j \in 1 .. Len(log)
    <3>1. log'[i] = log[i] /\ log'[j] = log[j] /\ i \in DOMAIN log /\ j \in DOMAIN log
      BY <1>1, <2>1 DEF StreamInv
    <3>. QED
      BY <1>4, <1>5, <3>1 DEF OrderInv, LogInOrder
  <2>2. CASE i \in 1 .. Len(log) /\ j \notin 1 .. Len(log)
    <3>1. PICK k \in 1 .. Len(w) : j = Len(log) + k /\ log'[j] = w[k]
      BY <1>1, <2>2
    <3>2. log'[i] = log[i] /\ log'[j] = buffer[k] /\ k \in 1 .. Len(buffer)
      BY <1>1, <1>5, <2>2, <3>1
    <3>3. \/ Before(log[i], buffer[k])
          \/ log[i].frame = buffer[k].frame /\ CutBetween(i, Len(log) + 1, log[i].frame)
      BY <1>5, <2>2, <3>2 DEF OrderInv
    <3>4. CutBetween(i, Len(log) + 1, log[i].frame) => Later(i, j, log[i].frame)
      <4>1. Len(log) + 1 <= j /\ j \in Nat
        BY <1>1, <3>1
      <4>. QED
        BY <1>10, <4>1
    <3>. QED
      BY <3>2, <3>3, <3>4
  <2>3. CASE i \notin 1 .. Len(log)
    <3>1. PICK k \in 1 .. Len(w) : i = Len(log) + k /\ log'[i] = w[k]
      BY <1>1, <2>3
    <3>2. j \notin 1 .. Len(log)
      BY <1>1, <1>5, <3>1
    <3>3. PICK l \in 1 .. Len(w) : j = Len(log) + l /\ log'[j] = w[l]
      BY <1>1, <3>2
    <3>4. k < l
      BY <1>1, <1>5, <3>1, <3>3
    <3>5. /\ log'[i] = buffer[k] /\ log'[j] = buffer[l]
          /\ k \in 1 .. Len(buffer) /\ l \in 1 .. Len(buffer)
      BY <1>1, <1>5, <3>1, <3>3
    <3>. QED
      BY <1>5, <3>4, <3>5 DEF OrderInv
  <2>. QED
    BY <2>1, <2>2, <2>3
<1>6. LogInOrder'
  <2>1. DOMAIN log' = 1 .. Len(log')
    BY <1>1
  <2>. QED
    BY <1>5, <2>1 DEF LogInOrder, CutBetween
<1>7. ASSUME NEW i \in 1 .. Len(buffer'), NEW j \in 1 .. Len(buffer'), i < j,
             Whole(buffer'[i]), Whole(buffer'[j])
      PROVE  Before(buffer'[i], buffer'[j])
  BY <1>1, <1>7 DEF OrderInv
<1>8. ASSUME NEW i \in 1 .. Len(log'), NEW j \in 1 .. Len(buffer'),
             Whole(log'[i]), Whole(buffer'[j])
      PROVE  \/ Before(log'[i], buffer'[j])
             \/ /\ log'[i].frame = buffer'[j].frame
                /\ Later(i, Len(log') + 1, log'[i].frame)
  <2>1. buffer'[j] = buffer[j] /\ j \in 1 .. Len(buffer) /\ buffer[j].frame = task.frame
    BY <1>1, <1>3, <1>8
  <2>2. CASE i \in 1 .. Len(log)
    <3>1. log'[i] = log[i]
      BY <1>1, <2>2
    <3>2. \/ Before(log[i], buffer[j])
          \/ log[i].frame = buffer[j].frame /\ CutBetween(i, Len(log) + 1, log[i].frame)
      BY <1>8, <2>1, <2>2, <3>1 DEF OrderInv
    <3>3. CutBetween(i, Len(log) + 1, log[i].frame) => Later(i, Len(log') + 1, log[i].frame)
      <4>1. Len(log) + 1 <= Len(log') + 1 /\ Len(log') + 1 \in Nat
        BY <1>1
      <4>. QED
        BY <1>10, <4>1
    <3>. QED
      BY <2>1, <3>1, <3>2, <3>3
  <2>3. CASE i \notin 1 .. Len(log)
    <3>1. PICK k \in 1 .. Len(w) : i = Len(log) + k /\ log'[i] = w[k]
      BY <1>1, <2>3
    <3>2. log'[i].frame = task.frame
      <4>1. k \in 1 .. Len(buffer) /\ (w[k] = buffer[k] \/ ~Whole(w[k])) /\ Whole(w[k])
        BY <1>1, <1>8, <3>1
      <4>. QED
        BY <1>3, <3>1, <4>1
    <3>3. buffer' # <<>>
      BY <1>8
    <3>. DEFINE c == [at |-> Len(log'), frame |-> task.frame]
    <3>4. c \in cuts' /\ c.frame = task.frame /\ i <= c.at /\ c.at < Len(log') + 1
      <4>1. c.at = Len(log') /\ Len(log') \in Nat /\ i <= Len(log')
        BY <1>1, <3>1
      <4>. QED
        BY <1>1, <1>2, <3>3, <4>1
    <3>. HIDE DEF c
    <3>5. Later(i, Len(log') + 1, log'[i].frame)
      BY <3>2, <3>4
    <3>. QED
      BY <2>1, <3>2, <3>5
  <2>. QED
    BY <2>2, <2>3
<1>. QED
  BY <1>6, <1>7, <1>8 DEF OrderInv, CutBetween

LEMMA OrderStep ==
  ASSUME TurnInv, StreamInv, CutsInv, OrderInv, [Next]_vars
  PROVE  OrderInv'
<1>1. CASE WritingStep
  BY <1>1, WritingSteps, OrderWritten
<1>2. CASE Describe
  <2>. DEFINE record == [frame |-> task.frame, detection |-> described + 1]
  <2>1. record \in RecordsOf(Frames) /\ Gives(record)
    BY <1>2, DescribedType, GivingSteps
  <2>2. \A r \in Written : Whole(r) => Before(r, record)
    BY <1>2, NextIsLater
  <2>. HIDE DEF record
  <2>. QED
    BY <2>1, <2>2, OrderGiven
<1>3. CASE EndLine
  BY <1>3, GivingSteps, NewlineType, OrderGiven
<1>4. CASE UNCHANGED <<log, cuts>> /\ buffer' = <<>>
  <2>1. LogInOrder'
    BY <1>4 DEF OrderInv, LogInOrder, CutBetween
  <2>2. Len(buffer') = 0
    BY <1>4
  <2>. QED
    BY <2>1, <2>2 DEF OrderInv
<1>5. CASE UNCHANGED <<log, buffer, cuts>>
  BY <1>5 DEF OrderInv, LogInOrder, CutBetween
<1>6. Exit \/ Crash => UNCHANGED <<log, cuts>> /\ buffer' = <<>>
  BY DEF Exit, Crash, Forget, disk
<1>. QED
  BY <1>1, <1>2, <1>3, <1>4, <1>5, <1>6, QuietSteps

LogInv == TurnInv /\ StreamInv /\ CutsInv

LEMMA InitLog == Init => LogInv /\ OrderInv
<1>. SUFFICES ASSUME Init PROVE LogInv /\ OrderInv
  OBVIOUS
<1>1. /\ log = <<>> /\ buffer = <<>> /\ cuts = {} /\ log_open = FALSE /\ ~line_open
  BY DEF Init
<1>2. /\ log \in Seq(RecordsOf(Frames)) /\ buffer \in Seq(RecordsOf(Frames))
      /\ Len(log) = 0 /\ Len(buffer) = 0 /\ DOMAIN log = {} /\ Written = {}
  BY <1>1 DEF Range, Written
<1>3. StreamInv
  <2>1. pc = "loop" /\ line_open = FALSE
    BY DEF Init
  <2>2. \A k \in 1 .. Len(buffer) : FALSE
    BY <1>2
  <2>3. log_open \in BOOLEAN /\ \A r \in Written : FALSE
    BY <1>1, <1>2
  <2>4. pc # "describe" => buffer = <<>>
    BY <1>1
  <2>. QED
    BY <1>2, <2>1, <2>2, <2>3, <2>4 DEF StreamInv
<1>4. CutsInv
  BY <1>1 DEF CutsInv
<1>5. OrderInv
  BY <1>2 DEF OrderInv, LogInOrder
<1>. QED
  BY <1>3, <1>4, <1>5, InitTurn DEF LogInv

LEMMA LogStep == LogInv /\ [Next]_vars => LogInv'
  BY TurnStep, StreamStep, CutsStep DEF LogInv

\* The log is in the order of runs, submissions and detections, and no record is
\* in it twice but those a frame repeats after one of its writes has failed,
\* whatever was evicted, failed, or was lost in a crash.
THEOREM LogOrdered == Spec => []LogInOrder
<1>1. LogInv /\ OrderInv /\ [Next]_vars => OrderInv'
  BY OrderStep DEF LogInv
<1>2. OrderInv => LogInOrder
  BY DEF OrderInv
<1>. QED
  BY <1>1, <1>2, InitLog, LogStep, PTL DEF Spec

-----------------------------------------------------------------------------
(* The lines of the log.                                                   *)

\* Whoever writes on after entry i of the log may share its line.
Ended(i) ==
  Whole(log[i]) => log[i].frame[1] < run \/ CutBetween(0, i + 1, log[i].frame)

\* What follows a record in the stream is its newline; where the stream begins,
\* the log has ended a line or waits for the newline that comes first; and once
\* a line is ended, or the stream bad, the next may begin.
LinesInv ==
  /\ LinesSpoiltByCutsOnly
  /\ \A k, l \in 1 .. Len(buffer) : l = k + 1 /\ Whole(buffer[k]) => buffer[l] = Newline
  /\ buffer # <<>> =>
       \A i \in 1 .. Len(log) :
         i = Len(log) => Ended(i) \/ (buffer[1] = Newline /\ log[i].frame = task.frame)
  /\ up /\ (~line_open \/ ~log_open) =>
       IF buffer = <<>>
       THEN \A i \in 1 .. Len(log) : i = Len(log) => Ended(i)
       ELSE buffer[Len(buffer)] = Newline \/ (~log_open /\ CutOf(task.frame))
  /\ line_open /\ log_open =>
       IF buffer = <<>>
       THEN \A i \in 1 .. Len(log) : i = Len(log) => log[i].frame = task.frame
       ELSE buffer[Len(buffer)] # Newline

LEMMA LinesGiven ==
  ASSUME StreamInv, LinesInv, NEW x \in RecordsOf(Frames), Gives(x),
         \/ x # Newline /\ ~line_open /\ line_open' = log_open
         \/ x = Newline /\ line_open /\ ~line_open'
  PROVE  LinesInv'
<1>1. UNCHANGED <<log, cuts, run, up, task, log_open>> /\ up /\ log_open \in BOOLEAN
  BY DEF Gives, StreamInv
<1>2. LinesSpoiltByCutsOnly'
  BY <1>1 DEF LinesInv, LinesSpoiltByCutsOnly, CutBetween
<1>3. \A i \in 1 .. Len(log) : Ended(i) => Ended(i)'
  BY <1>1 DEF Ended, CutBetween
<1>4. CutOf(task.frame) => CutOf(task.frame)'
  BY <1>1 DEF CutOf
<1>5. CASE ~log_open /\ buffer' = buffer
  <2>1. ~line_open' /\ ~log_open'
    BY <1>1, <1>5
  <2>. QED
    BY <1>1, <1>2, <1>3, <1>4, <1>5, <2>1 DEF LinesInv
<1>6. CASE /\ log_open /\ Len(buffer') = Len(buffer) + 1 /\ buffer' # <<>>
           /\ \A k \in 1 .. Len(buffer) : buffer'[k] = buffer[k]
           /\ buffer'[Len(buffer) + 1] = x
           /\ Len(buffer) \in Nat
  <2>1. buffer # <<>> => Len(buffer) # 0
    BY DEF StreamInv
  <2>2. ASSUME NEW k \in 1 .. Len(buffer'), NEW l \in 1 .. Len(buffer'), l = k + 1,
               Whole(buffer'[k])
        PROVE  buffer'[l] = Newline
    <3>1. k \in 1 .. Len(buffer) /\ buffer'[k] = buffer[k]
      BY <1>6, <2>2
    <3>2. CASE l \in 1 .. Len(buffer)
      BY <1>6, <2>2, <3>1, <3>2 DEF LinesInv
    <3>3. CASE l \notin 1 .. Len(buffer)
      <4>1. k = Len(buffer) /\ l = Len(buffer) + 1 /\ buffer # <<>>
        BY <1>6, <2>2, <3>1, <3>3
      <4>2. CASE x = Newline
        BY <1>6, <4>1, <4>2
      <4>3. CASE ~line_open
        <5>1. buffer[k] = Newline
          BY <1>1, <1>6, <4>1, <4>3 DEF LinesInv
        <5>. QED
          BY <2>2, <3>1, <5>1, NewlineType
      <4>. QED
        BY <4>2, <4>3
    <3>. QED
      BY <3>2, <3>3
  <2>3. ASSUME NEW i \in 1 .. Len(log), i = Len(log)
        PROVE  Ended(i) \/ (buffer'[1] = Newline /\ log[i].frame = task.frame)
    <3>1. CASE buffer # <<>>
      <4>1. buffer'[1] = buffer[1]
        BY <1>6, <2>1, <3>1
      <4>. QED
        BY <2>3, <3>1, <4>1 DEF LinesInv
    <3>2. CASE buffer = <<>> /\ ~line_open
      BY <1>1, <2>3, <3>2 DEF LinesInv
    <3>3. CASE buffer = <<>> /\ line_open /\ x = Newline
      <4>1. Len(buffer) = 0 /\ buffer'[1] = Newline
        <5>1. Len(buffer) = 0
          BY <3>3
        <5>2. Len(buffer) + 1 = 1
          BY <5>1
        <5>. QED
          BY <1>6, <3>3, <5>1, <5>2
      <4>. QED
        BY <1>6, <2>3, <3>3, <4>1 DEF LinesInv
    <3>. QED
      BY <3>1, <3>2, <3>3
  <2>4. ASSUME ~line_open' \/ ~log_open' PROVE buffer'[Len(buffer')] = Newline
    BY <1>1, <1>6, <2>4
  <2>5. ASSUME line_open' PROVE buffer'[Len(buffer')] # Newline
    BY <1>6, <2>5
  <2>6. \A i \in 1 .. Len(log') : i = Len(log') =>
          Ended(i)' \/ (buffer'[1] = Newline /\ log'[i].frame = task'.frame)
    BY <1>1, <1>3, <2>3
  <2>. QED
    BY <1>2, <1>6, <2>2, <2>4, <2>5, <2>6 DEF LinesInv
<1>. QED
  BY <1>5, <1>6, GivesItems

LEMMA LinesWritten ==
  ASSUME TurnInv, StreamInv, CutsInv, LinesInv, NEW w, Writes(w)
  PROVE  LinesInv'
<1>1. /\ Len(w) \in Nat /\ Len(buffer) \in Nat /\ Len(log) \in Nat
      /\ log' \in Seq(RecordsOf(Frames))
      /\ Len(w) <= Len(buffer) /\ Len(log') = Len(log) + Len(w)
      /\ Len(buffer') <= Len(buffer)
      /\ \A i \in 1 .. Len(log) : i \in 1 .. Len(log') /\ log'[i] = log[i]
      /\ \A i \in 1 .. Len(log') :
              \/ i \in 1 .. Len(log) /\ log'[i] = log[i]
              \/ \E k \in 1 .. Len(w) : i = Len(log) + k /\ log'[i] = w[k]
      /\ \A k \in 1 .. Len(w) :
              /\ k \in 1 .. Len(buffer)
              /\ \/ w[k] = buffer[k]
                 \/ /\ ~Whole(w[k]) /\ w[k] # Newline
                    /\ w[k].frame = task.frame /\ k = Len(w)
                    /\ buffer[k] # Newline
      /\ \A k \in 1 .. Len(buffer') :
              k \in 1 .. Len(buffer) /\ buffer'[k] = buffer[k]
  BY WritesItems
<1>2. /\ \A c \in cuts : c \in cuts' /\ c.at \in Nat /\ c.at <= Len(log)
      /\ UNCHANGED <<run, up, task, line_open>> /\ up
      /\ pc = "describe" /\ task.frame[1] = run /\ run \in Nat
  BY DEF Writes, CutsInv, TurnInv, Working
<1>3. \A k \in 1 .. Len(buffer) :
        buffer[k] = Newline \/ (Whole(buffer[k]) /\ buffer[k].frame = task.frame)
  BY DEF StreamInv
<1>. DEFINE Cut(i, j, f) == \E c \in cuts' : c.frame = f /\ i <= c.at /\ c.at < j
            EndedThen(i) == Whole(log'[i]) => log'[i].frame[1] < run \/ Cut(0, i + 1, log'[i].frame)
            Failed == [at |-> Len(log'), frame |-> task.frame] \in cuts'
<1>4. \A i, j, f : CutBetween(i, j, f) => Cut(i, j, f)
  BY <1>2 DEF CutBetween
<1>5. Failed => /\ Cut(0, Len(log') + 1, task.frame)
                /\ Cut(Len(log'), Len(log') + 1, task.frame)
                /\ CutOf(task.frame)'
  <2>1. SUFFICES ASSUME Failed
                 PROVE  /\ Cut(0, Len(log') + 1, task.frame)
                        /\ Cut(Len(log'), Len(log') + 1, task.frame)
                        /\ CutOf(task.frame)'
    OBVIOUS
  <2>2. PICK c \in cuts' : c.at = Len(log') /\ c.frame = task.frame
    BY <2>1
  <2>3. 0 <= c.at /\ Len(log') <= c.at /\ c.at < Len(log') + 1
    BY <1>1, <2>2
  <2>. QED
    BY <1>2, <2>2, <2>3 DEF CutOf
<1>6. ASSUME NEW i \in 1 .. Len(log), Ended(i) PROVE EndedThen(i)
  <2>1. log'[i] = log[i]
    BY <1>1
  <2>2. Whole(log[i]) => log[i].frame[1] < run \/ CutBetween(0, i + 1, log[i].frame)
    BY <1>6 DEF Ended
  <2>3. CutBetween(0, i + 1, log[i].frame) => Cut(0, i + 1, log[i].frame)
    BY <1>4
  <2>. HIDE DEF Cut
  <2>. QED
    BY <2>1, <2>2, <2>3
<1>7. \/ w = buffer /\ buffer' = <<>> /\ UNCHANGED <<cuts, log_open>>
      \/ /\ Failed /\ buffer # <<>>
         /\ \/ buffer' = Front(buffer) /\ log_open' = FALSE
            \/ buffer' = <<>> /\ ~line_open
  <2>1. w \in CutShort(buffer) => buffer # <<>>
    BY CutShortItems, EntryType DEF StreamInv
  <2>. QED
    BY <2>1 DEF Writes
<1>8. ASSUME Failed, buffer # <<>>, NEW i \in 1 .. Len(log'), i = Len(log') PROVE EndedThen(i)
  <2>1. CASE i \in 1 .. Len(log)
    <3>1. i = Len(log) /\ log'[i] = log[i]
      BY <1>1, <1>8, <2>1
    <3>2. Ended(i) \/ log[i].frame = task.frame
      BY <1>8, <2>1, <3>1 DEF LinesInv
    <3>. QED
      BY <1>5, <1>6, <1>8, <2>1, <3>1, <3>2
  <2>2. CASE i \notin 1 .. Len(log)
    <3>1. PICK k \in 1 .. Len(w) : log'[i] = w[k]
      BY <1>1, <2>2
    <3>2. Whole(log'[i]) => log'[i].frame = task.frame
      <4>1. /\ k \in 1 .. Len(buffer)
            /\ w[k] = buffer[k] \/ (~Whole(w[k]) /\ w[k].frame = task.frame)
        BY <1>1
      <4>2. w[k].frame = task.frame \/ w[k] = Newline
        BY <1>3, <4>1
      <4>. QED
        BY <3>1, <4>2, NewlineType
    <3>. QED
      BY <1>5, <1>8, <3>2
  <2>. QED
    BY <2>1, <2>2
<1>9. ASSUME NEW i \in 1 .. Len(log'), Whole(log'[i]), i # Len(log')
      PROVE  \/ log'[i + 1] = Newline
             \/ log'[i + 1].frame[1] > log'[i].frame[1]
             \/ Cut(0, i + 1, log'[i].frame)
  <2>1. i + 1 \in 1 .. Len(log')
    BY <1>1, <1>9
  <2>2. CASE i + 1 \in 1 .. Len(log)
    <3>1. i \in 1 .. Len(log) /\ i # Len(log) /\ i \in DOMAIN log
      BY <1>1, <2>2 DEF StreamInv
    <3>2. log'[i] = log[i] /\ log'[i + 1] = log[i + 1]
      BY <1>1, <2>2, <3>1
    <3>. QED
      BY <1>4, <1>9, <3>1, <3>2 DEF LinesInv, LinesSpoiltByCutsOnly
  <2>3. CASE i + 1 \notin 1 .. Len(log)
    <3>1. PICK l \in 1 .. Len(w) : i + 1 = Len(log) + l /\ log'[i + 1] = w[l]
      BY <1>1, <2>1, <2>3
    <3>2. CASE i \in 1 .. Len(log)
      <4>1. i = Len(log) /\ l = 1 /\ log'[i] = log[i] /\ buffer # <<>>
        BY <1>1, <3>1, <3>2
      <4>2. Ended(i) \/ buffer[1] = Newline
        BY <3>2, <4>1 DEF LinesInv
      <4>3. CASE buffer[1] = Newline
        BY <1>1, <3>1, <4>1, <4>3
      <4>4. CASE Ended(i)
        <5>1. log'[i].frame[1] < run \/ Cut(0, i + 1, log'[i].frame)
          BY <1>6, <1>9, <3>2, <4>4
        <5>2. w[l] = Newline \/ w[l].frame = task.frame
          BY <1>1, <1>3
        <5>. QED
          BY <1>2, <3>1, <5>1, <5>2
      <4>. QED
        BY <4>2, <4>3, <4>4
    <3>3. CASE i \notin 1 .. Len(log)
      <4>1. PICK k \in 1 .. Len(w) : i = Len(log) + k /\ log'[i] = w[k]
        BY <1>1, <3>3
      <4>2. l = k + 1 /\ w[k] = buffer[k] /\ k \in 1 .. Len(buffer) /\ l \in 1 .. Len(buffer)
        BY <1>1, <1>9, <3>1, <4>1
      <4>3. buffer[l] = Newline
        BY <1>9, <4>1, <4>2 DEF LinesInv
      <4>. QED
        BY <1>1, <3>1, <4>3
    <3>. QED
      BY <3>2, <3>3
  <2>. QED
    BY <2>2, <2>3
<1>10. ASSUME NEW i \in 1 .. Len(log'), ~Whole(log'[i]), log'[i] # Newline
       PROVE  Cut(i, i + 1, log'[i].frame)
  <2>1. CASE i \in 1 .. Len(log)
    <3>1. log'[i] = log[i] /\ i \in DOMAIN log
      BY <1>1, <2>1 DEF StreamInv
    <3>. QED
      BY <1>4, <1>10, <3>1 DEF LinesInv, LinesSpoiltByCutsOnly
  <2>2. CASE i \notin 1 .. Len(log)
    <3>1. PICK k \in 1 .. Len(w) : i = Len(log) + k /\ log'[i] = w[k]
      BY <1>1, <2>2
    <3>2. /\ w[k] # buffer[k] /\ w[k].frame = task.frame /\ k = Len(w)
      BY <1>1, <1>3, <1>10, <3>1
    <3>3. w # buffer /\ i = Len(log')
      BY <1>1, <3>1, <3>2
    <3>. QED
      BY <1>5, <1>7, <3>1, <3>2, <3>3
  <2>. QED
    BY <2>1, <2>2
<1>11. LinesSpoiltByCutsOnly'
  <2>1. DOMAIN log' = 1 .. Len(log')
    BY <1>1
  <2>. HIDE DEF EndedThen, Failed
  <2>. QED
    BY <2>1, <1>9, <1>10 DEF LinesSpoiltByCutsOnly, CutBetween
<1>12. ASSUME NEW k \in 1 .. Len(buffer'), NEW l \in 1 .. Len(buffer'), l = k + 1,
              Whole(buffer'[k])
       PROVE  buffer'[l] = Newline
  BY <1>1, <1>12 DEF LinesInv
<1>13. ASSUME buffer' # <<>>, NEW i \in 1 .. Len(log'), i = Len(log') PROVE EndedThen(i)
  BY <1>7, <1>8, <1>13
<1>14. ASSUME ~line_open' \/ ~log_open'
       PROVE  IF buffer' = <<>>
              THEN \A i \in 1 .. Len(log') : i = Len(log') => EndedThen(i)
              ELSE ~log_open' /\ CutOf(task.frame)'
  <2>1. CASE Failed /\ buffer # <<>>
    BY <1>5, <1>7, <1>8, <2>1
  <2>2. CASE w = buffer /\ buffer' = <<>> /\ UNCHANGED <<cuts, log_open>>
    <3>1. ASSUME NEW i \in 1 .. Len(log'), i = Len(log') PROVE EndedThen(i)
      <4>1. CASE i \in 1 .. Len(log)
        <5>1. i = Len(log) /\ Len(buffer) = 0
          BY <1>1, <2>2, <3>1, <4>1
        <5>2. buffer = <<>>
          BY <5>1 DEF StreamInv
        <5>3. Ended(i)
          BY <1>2, <1>14, <2>2, <4>1, <5>1, <5>2 DEF LinesInv
        <5>. QED
          BY <1>6, <4>1, <5>3
      <4>2. CASE i \notin 1 .. Len(log)
        <5>1. PICK k \in 1 .. Len(w) : i = Len(log) + k /\ log'[i] = w[k]
          BY <1>1, <4>2
        <5>2. k = Len(buffer) /\ log'[i] = buffer[k] /\ buffer # <<>> /\ k \in 1 .. Len(buffer)
          BY <1>1, <2>2, <3>1, <5>1
        <5>3. buffer[k] = Newline \/ CutOf(task.frame)
          BY <1>2, <1>14, <2>2, <5>2 DEF LinesInv
        <5>4. CASE buffer[k] = Newline
          BY <5>2, <5>4, NewlineType
        <5>5. CASE CutOf(task.frame) /\ buffer[k] # Newline
          <6>1. PICK c \in cuts : c.frame = task.frame
            BY <5>5 DEF CutOf
          <6>2. c \in cuts' /\ 0 <= c.at /\ c.at < i + 1
            BY <1>1, <1>2, <3>1, <6>1
          <6>3. log'[i].frame = task.frame
            BY <1>3, <5>2, <5>5
          <6>. QED
            BY <6>1, <6>2, <6>3
        <5>. QED
          BY <5>3, <5>4, <5>5
      <4>. QED
        BY <4>1, <4>2
    <3>. QED
      BY <2>2, <3>1
  <2>. QED
    BY <1>7, <2>1, <2>2
<1>15. ASSUME line_open', log_open'
       PROVE  /\ buffer' = <<>>
              /\ \A i \in 1 .. Len(log') : i = Len(log') => log'[i].frame = task.frame
  <2>1. w = buffer /\ buffer' = <<>> /\ UNCHANGED log_open /\ line_open /\ log_open
    BY <1>2, <1>7, <1>15
  <2>2. ASSUME NEW i \in 1 .. Len(log'), i = Len(log') PROVE log'[i].frame = task.frame
    <3>1. CASE i \in 1 .. Len(log)
      <4>1. i = Len(log) /\ Len(buffer) = 0 /\ log'[i] = log[i]
        BY <1>1, <2>1, <2>2, <3>1
      <4>2. buffer = <<>>
        BY <4>1 DEF StreamInv
      <4>. QED
        BY <2>1, <3>1, <4>1, <4>2 DEF LinesInv
    <3>2. CASE i \notin 1 .. Len(log)
      <4>1. PICK k \in 1 .. Len(w) : i = Len(log) + k /\ log'[i] = w[k]
        BY <1>1, <3>2
      <4>2. k = Len(buffer) /\ log'[i] = buffer[k] /\ buffer # <<>> /\ k \in 1 .. Len(buffer)
        BY <1>1, <2>1, <2>2, <4>1
      <4>3. buffer[k] # Newline
        BY <2>1, <4>2 DEF LinesInv
      <4>. QED
        BY <1>3, <4>2, <4>3
    <3>. QED
      BY <3>1, <3>2
  <2>. QED
    BY <2>1, <2>2
<1>16. \A i : EndedThen(i) => Ended(i)'
  BY <1>2 DEF Ended, CutBetween
<1>17. /\ buffer' # <<>> => \A i \in 1 .. Len(log') : i = Len(log') => Ended(i)'
       /\ ~line_open' \/ ~log_open' =>
            IF buffer' = <<>>
            THEN \A i \in 1 .. Len(log') : i = Len(log') => Ended(i)'
            ELSE ~log_open' /\ CutOf(task.frame)'
  <2>. HIDE DEF EndedThen
  <2>. QED
    BY <1>13, <1>14, <1>16
<1>. HIDE DEF EndedThen, Cut, Failed
<1>. QED
  BY <1>2, <1>11, <1>12, <1>15, <1>17 DEF LinesInv

LEMMA LinesStep ==
  ASSUME LogInv, LinesInv, [Next]_vars
  PROVE  LinesInv'
<1>1. /\ TurnInv /\ StreamInv /\ CutsInv
      /\ pc # "describe" => buffer = <<>> /\ ~line_open
  BY DEF LogInv, StreamInv
<1>2. CASE WritingStep
  BY <1>1, <1>2, WritingSteps, LinesWritten
<1>3. CASE Describe
  <2>. DEFINE record == [frame |-> task.frame, detection |-> described + 1]
  <2>1. /\ record \in RecordsOf(Frames) /\ Gives(record) /\ described \in Nat
        /\ ~line_open /\ line_open' = log_open
    BY <1>1, <1>3, DescribedType, GivingSteps
  <2>2. Whole(record)
    BY <2>1 DEF Whole
  <2>. HIDE DEF record
  <2>3. record # Newline
    BY <2>2, NewlineType
  <2>. QED
    BY <1>1, <2>1, <2>3, LinesGiven
<1>4. CASE EndLine
  BY <1>1, <1>4, GivingSteps, NewlineType, LinesGiven
<1>5. CASE Exit \/ Crash
  <2>1. UNCHANGED <<log, cuts>> /\ buffer' = <<>> /\ up' = FALSE /\ line_open' = FALSE
    BY <1>5 DEF Exit, Crash, Forget, disk
  <2>2. LinesSpoiltByCutsOnly'
    BY <2>1 DEF LinesInv, LinesSpoiltByCutsOnly, CutBetween
  <2>3. \A k \in 1 .. Len(buffer') : FALSE
    BY <2>1
  <2>. QED
    BY <2>1, <2>2, <2>3 DEF LinesInv
<1>6. CASE Restart /\ UNCHANGED <<log, buffer, cuts, line_open>>
  <2>1. run' = run + 1 /\ ~up /\ pc # "describe"
    BY <1>1, <1>6 DEF Restart, TurnInv
  <2>2. buffer' = <<>> /\ ~line_open'
    BY <1>1, <1>6, <2>1
  <2>3. LinesSpoiltByCutsOnly'
    BY <1>6 DEF LinesInv, LinesSpoiltByCutsOnly, CutBetween
  <2>4. ASSUME NEW i \in 1 .. Len(log), Whole(log[i]) PROVE log[i].frame[1] < run'
    <3>1. log[i] \in RecordsOf(Frames) /\ log[i] \in Written
      BY <1>1 DEF StreamInv, Written, Range
    <3>2. Described(log[i]) /\ log[i].frame[1] \in Nat
      BY <1>1, <2>4, <3>1, EntryType DEF StreamInv
    <3>3. log[i].frame[1] < run \/ log[i].frame[1] = run
      BY <2>1, <3>2 DEF Described, Finished
    <3>. QED
      BY <1>1, <2>1, <3>2, <3>3 DEF TurnInv
  <2>5. \A i \in 1 .. Len(log) : Ended(i)'
    BY <1>6, <2>4 DEF Ended
  <2>6. \A k \in 1 .. Len(buffer') : FALSE
    BY <2>2
  <2>. QED
    BY <1>6, <2>2, <2>3, <2>5, <2>6 DEF LinesInv
<1>7. CASE UNCHANGED <<log, buffer, cuts, line_open, run, up>>
  <2>1. LinesSpoiltByCutsOnly'
    BY <1>7 DEF LinesInv, LinesSpoiltByCutsOnly, CutBetween
  <2>2. \A i : Ended(i) => Ended(i)'
    BY <1>7 DEF Ended, CutBetween
  <2>3. CASE UNCHANGED <<task, log_open>>
    <3>1. CutOf(task.frame) => CutOf(task.frame)'
      BY <1>7, <2>3 DEF CutOf
    <3>. QED
      BY <1>7, <2>1, <2>2, <2>3, <3>1 DEF LinesInv
  <2>4. CASE buffer = <<>> /\ ~line_open
    <3>1. \A k \in 1 .. Len(buffer') : FALSE
      BY <1>7, <2>4
    <3>. QED
      BY <1>7, <2>1, <2>2, <2>4, <3>1 DEF LinesInv
  <2>5. CASE Restart \/ Exit \/ Crash \/ WritingStep \/ Describe \/ EndLine
    BY <1>2, <1>3, <1>4, <1>5, <1>6, <1>7, <2>5
  <2>. QED
    BY <1>1, <2>3, <2>4, <2>5, QuietSteps
<1>. QED
  BY <1>1, <1>2, <1>3, <1>4, <1>5, <1>6, <1>7, QuietSteps

\* A line holds more than one record only where a run that ended left it open, or
\* where a write of the record's own frame has failed, and only there is a record
\* torn: the writer itself ends every line before it begins another.
THEOREM LinesWhole == Spec => []LinesSpoiltByCutsOnly
<1>1. Init => LinesInv
  <2>. SUFFICES ASSUME Init PROVE LinesInv
    OBVIOUS
  <2>1. log = <<>> /\ buffer = <<>> /\ line_open = FALSE
    BY DEF Init
  <2>2. (\A i \in 1 .. Len(log) : FALSE) /\ (\A k \in 1 .. Len(buffer) : FALSE) /\ DOMAIN log = {}
    BY <2>1
  <2>. QED
    BY <2>1, <2>2 DEF LinesInv, LinesSpoiltByCutsOnly
<1>2. LogInv /\ LinesInv /\ [Next]_vars => LinesInv'
  BY LinesStep
<1>3. LinesInv => LinesSpoiltByCutsOnly
  BY DEF LinesInv
<1>. QED
  BY <1>1, <1>2, <1>3, InitLog, LogStep, PTL DEF Spec

-----------------------------------------------------------------------------
(* What is remembered.                                                     *)

\* Trimming keeps the last records, as many as RecentLimit allows.
LEMMA TrimItems ==
  ASSUME NEW S, NEW s \in Seq(S)
  PROVE  /\ Trim(s) \in Seq(S) /\ Len(Trim(s)) \in Nat /\ Len(s) \in Nat
         /\ Len(Trim(s)) <= Len(s) /\ Len(Trim(s)) <= RecentLimit
         /\ Len(Trim(s)) = RecentLimit \/ Len(Trim(s)) = Len(s)
         /\ \A i \in 1 .. Len(Trim(s)) : Trim(s)[i] = s[i + (Len(s) - Len(Trim(s)))]
<1>1. RecentLimit \in Nat /\ Len(s) \in Nat
  BY EventAssumption, LenProperties
<1>2. Trim(s) \in Seq(S)
  BY TrimKeeps
<1>3. CASE Len(s) > RecentLimit
  <2>. DEFINE m == Len(s) - RecentLimit + 1
              t == SubSeq(s, m, Len(s))
  <2>1. m \in 1 .. Len(s) + 1 /\ Len(s) \in 0 .. Len(s)
    BY <1>1, <1>3
  <2>2. Len(t) = Len(s) - m + 1 /\ \A i \in 1 .. Len(s) - m + 1 : t[i] = s[m + i - 1]
    BY <2>1, <1>1
  <2>3. /\ Len(t) = RecentLimit
        /\ \A i \in 1 .. RecentLimit : t[i] = s[i + (Len(s) - RecentLimit)]
    <3>. HIDE DEF t
    <3>1. Len(s) - m + 1 = RecentLimit
      BY <1>1
    <3>2. \A i \in 1 .. RecentLimit : m + i - 1 = i + (Len(s) - RecentLimit)
      BY <1>1
    <3>. QED
      BY <2>2, <3>1, <3>2
  <2>4. Trim(s) = t
    BY <1>3 DEF Trim
  <2>. HIDE DEF t, m
  <2>. QED
    BY <1>1, <1>2, <1>3, <2>3, <2>4
<1>4. CASE ~(Len(s) > RecentLimit)
  <2>1. Trim(s) = s
    BY <1>4 DEF Trim
  <2>2. \A i \in 1 .. Len(s) : i + (Len(s) - Len(s)) = i
    BY <1>1
  <2>. QED
    BY <1>1, <1>2, <1>4, <2>1, <2>2
<1>. QED
  BY <1>3, <1>4

\* Trimming after every record leaves what trimming once would.
LEMMA TrimAgain ==
  ASSUME NEW S, NEW s \in Seq(S), NEW x \in S
  PROVE  Trim(Append(Trim(s), x)) = Trim(Append(s, x))
<1>. DEFINE t == Trim(s)
            a == Append(t, x)
            b == Append(s, x)
            n == Len(s)
            m == Len(t)
<1>1. /\ t \in Seq(S) /\ m \in Nat /\ n \in Nat /\ m <= n /\ m <= RecentLimit
      /\ m = RecentLimit \/ m = n
      /\ \A i \in 1 .. m : t[i] = s[i + (n - m)]
  BY TrimItems
<1>2. /\ a \in Seq(S) /\ Len(a) = m + 1 /\ a[m + 1] = x
      /\ \A i \in 1 .. m : a[i] = t[i]
  <2>1. ASSUME NEW r \in Seq(S)
        PROVE  /\ Append(r, x) \in Seq(S) /\ Len(Append(r, x)) = Len(r) + 1
               /\ Append(r, x)[Len(r) + 1] = x
               /\ \A i \in 1 .. Len(r) : Append(r, x)[i] = r[i]
    BY AppendRange
  <2>. QED
    BY <1>1, <2>1
<1>3. /\ b \in Seq(S) /\ Len(b) = n + 1 /\ b[n + 1] = x
      /\ \A i \in 1 .. n : b[i] = s[i]
  BY AppendRange
<1>. HIDE DEF t, a, b, n, m
<1>4. \A i \in 1 .. m + 1 : a[i] = b[i + (n - m)]
  <2>. SUFFICES ASSUME NEW i \in 1 .. m + 1 PROVE a[i] = b[i + (n - m)]
    OBVIOUS
  <2>1. CASE i = m + 1
    <3>1. i + (n - m) = n + 1
      BY <1>1, <2>1
    <3>. QED
      BY <1>2, <1>3, <2>1, <3>1
  <2>2. CASE i # m + 1
    <3>1. i \in 1 .. m /\ i + (n - m) \in 1 .. n
      BY <1>1, <2>2
    <3>. QED
      BY <1>1, <1>2, <1>3, <3>1
  <2>. QED
    BY <2>1, <2>2
<1>. DEFINE c == Trim(a)
            d == Trim(b)
<1>10. ASSUME NEW r \in Seq(S)
       PROVE  /\ Trim(r) \in Seq(S) /\ Len(Trim(r)) \in Nat
              /\ Len(Trim(r)) <= Len(r) /\ Len(Trim(r)) <= RecentLimit
              /\ Len(Trim(r)) = RecentLimit \/ Len(Trim(r)) = Len(r)
              /\ \A i \in 1 .. Len(Trim(r)) : Trim(r)[i] = r[i + (Len(r) - Len(Trim(r)))]
  BY TrimItems
<1>5. /\ c \in Seq(S) /\ Len(c) \in Nat /\ Len(c) <= m + 1 /\ Len(c) <= RecentLimit
      /\ Len(c) = RecentLimit \/ Len(c) = m + 1
      /\ \A i \in 1 .. Len(c) : c[i] = a[i + (m + 1 - Len(c))]
  <2>1. /\ c \in Seq(S) /\ Len(c) \in Nat
        /\ Len(c) <= Len(a) /\ Len(c) <= RecentLimit
        /\ Len(c) = RecentLimit \/ Len(c) = Len(a)
        /\ \A i \in 1 .. Len(c) : c[i] = a[i + (Len(a) - Len(c))]
    BY <1>2, <1>10
  <2>. HIDE DEF c
  <2>. QED
    BY <1>1, <1>2, <2>1
<1>6. /\ d \in Seq(S) /\ Len(d) \in Nat /\ Len(d) <= n + 1 /\ Len(d) <= RecentLimit
      /\ Len(d) = RecentLimit \/ Len(d) = n + 1
      /\ \A i \in 1 .. Len(d) : d[i] = b[i + (n + 1 - Len(d))]
  <2>1. /\ d \in Seq(S) /\ Len(d) \in Nat
        /\ Len(d) <= Len(b) /\ Len(d) <= RecentLimit
        /\ Len(d) = RecentLimit \/ Len(d) = Len(b)
        /\ \A i \in 1 .. Len(d) : d[i] = b[i + (Len(b) - Len(d))]
    BY <1>3, <1>10
  <2>. HIDE DEF d
  <2>. QED
    BY <1>1, <1>3, <2>1
<1>. HIDE DEF c, d
<1>7. Len(c) = Len(d)
  BY <1>1, <1>5, <1>6, EventAssumption
<1>8. \A i \in 1 .. Len(c) : c[i] = d[i]
  <2>. SUFFICES ASSUME NEW i \in 1 .. Len(c) PROVE c[i] = d[i]
    OBVIOUS
  <2>. DEFINE j == i + (m + 1 - Len(c))
  <2>1. j \in 1 .. m + 1 /\ j + (n - m) = i + (n + 1 - Len(c))
    BY <1>1, <1>5
  <2>. HIDE DEF j
  <2>2. c[i] = a[j] /\ a[j] = b[j + (n - m)]
    BY <1>4, <1>5, <2>1 DEF j
  <2>3. d[i] = b[i + (n + 1 - Len(c))]
    BY <1>6, <1>7
  <2>. QED
    BY <2>1, <2>2, <2>3
<1>9. c = d
  BY <1>5, <1>6, <1>7, <1>8, SeqEqual
<1>. QED
  BY <1>9 DEF a, b, c, d, t

\* What /api/events keeps is the history of the run, trimmed.
RecentInv ==
  /\ remembered \in Seq(RecordsOf(Frames))
  /\ recent = Trim(remembered)

LEMMA RecentStep ==
  ASSUME TurnInv, RecentInv, [Next]_vars
  PROVE  RecentInv'
<1>1. CASE Describe
  <2>. DEFINE record == [frame |-> task.frame, detection |-> described + 1]
  <2>1. record \in RecordsOf(Frames)
    BY <1>1, DescribedType
  <2>2. recent' = Trim(Append(recent, record)) /\ remembered' = Append(remembered, record)
    BY <1>1 DEF Describe
  <2>. HIDE DEF record
  <2>3. remembered' \in Seq(RecordsOf(Frames))
    BY <2>1, <2>2, AppendRange DEF RecentInv
  <2>4. recent' = Trim(remembered')
    BY <2>1, <2>2, TrimAgain DEF RecentInv
  <2>. QED
    BY <2>3, <2>4 DEF RecentInv
<1>2. CASE Exit \/ Crash
  <2>1. recent' = <<>> /\ remembered' = <<>>
    BY <1>2 DEF Exit, Crash, Forget
  <2>2. Trim(<<>>) = <<>>
    BY EventAssumption DEF Trim
  <2>. QED
    BY <2>1, <2>2, EmptySeq DEF RecentInv, Trim
<1>3. CASE UNCHANGED <<recent, remembered>>
  BY <1>3 DEF RecentInv, Trim
<1>. QED
  BY <1>1, <1>2, <1>3 DEF Next, EventThread, Submit, Loop, Pop, PopNothing, ImageFails,
     WriteImage, OpenLog, EndLine, SpillBuffer, SpillFails, CloseLog, CloseFails, Stop,
     Restart, vars, work, history

\* The other way round.
LEMMA ReverseItems ==
  ASSUME NEW S, NEW s \in Seq(S)
  PROVE  /\ Reverse(s) \in Seq(S) /\ Len(Reverse(s)) = Len(s)
         /\ \A i \in 1 .. Len(s) : Reverse(s)[i] = s[Len(s) - i + 1]
<1>1. Len(s) \in Nat /\ \A i \in 1 .. Len(s) : s[i] \in S
  OBVIOUS
<1>2. \A i \in 1 .. Len(s) : (Len(s) - i) + 1 \in 1 .. Len(s)
  BY <1>1
<1>. QED
  BY <1>1, <1>2 DEF Reverse

\* /api/events serves the newest records of the run, all of them up to its
\* limit and newest first: erasing from the front after every record forgets
\* nothing that one trim at the time of the request would have kept.
THEOREM RecentServed == Spec => []RecentIsNewest
<1>1. Init => RecentInv
  BY EventAssumption DEF Init, RecentInv, Trim
<1>2. RecentInv => RecentIsNewest
  <2>. SUFFICES ASSUME RecentInv PROVE RecentIsNewest
    OBVIOUS
  <2>. DEFINE n == Len(remembered)
              m == Len(recent)
  <2>1. /\ remembered \in Seq(RecordsOf(Frames)) /\ recent \in Seq(RecordsOf(Frames))
        /\ m \in Nat /\ n \in Nat /\ m <= n /\ m <= RecentLimit
        /\ m = RecentLimit \/ m = n
        /\ \A i \in 1 .. m : recent[i] = remembered[i + (n - m)]
    BY TrimItems DEF RecentInv
  <2>2. /\ RecentEvents \in Seq(RecordsOf(Frames)) /\ Len(RecentEvents) = m
        /\ \A i \in 1 .. m : RecentEvents[i] = recent[m - i + 1]
    BY <2>1, ReverseItems DEF RecentEvents
  <2>. DEFINE all == Reverse(remembered)
  <2>3. /\ all \in Seq(RecordsOf(Frames)) /\ Len(all) = n
        /\ \A i \in 1 .. n : all[i] = remembered[n - i + 1]
    BY <2>1, ReverseItems
  <2>. HIDE DEF all, n, m
  <2>4. ASSUME NEW i \in 1 .. m PROVE RecentEvents[i] = all[i]
    <3>1. i \in 1 .. n /\ m - i + 1 \in 1 .. m /\ (m - i + 1) + (n - m) = n - i + 1
      BY <2>1
    <3>. QED
      BY <2>1, <2>2, <2>3, <3>1
  <2>5. SubSeq(RecentEvents, 1, m) = SubSeq(all, 1, m)
    <3>1. \A i \in 1 .. m : RecentEvents[i] \in RecordsOf(Frames) /\ all[i] \in RecordsOf(Frames)
      BY <2>1, <2>2, <2>3
    <3>2. ASSUME NEW q, \A i \in 1 .. m : q[i] \in RecordsOf(Frames)
          PROVE  /\ SubSeq(q, 1, m) \in Seq(RecordsOf(Frames)) /\ Len(SubSeq(q, 1, m)) = m
                 /\ \A i \in 1 .. m : SubSeq(q, 1, m)[i] = q[i]
      BY <2>1, <3>2, SubSeqProperties
    <3>3. /\ SubSeq(RecentEvents, 1, m) \in Seq(RecordsOf(Frames))
          /\ SubSeq(all, 1, m) \in Seq(RecordsOf(Frames))
          /\ Len(SubSeq(RecentEvents, 1, m)) = m /\ Len(SubSeq(all, 1, m)) = m
          /\ \A i \in 1 .. m : SubSeq(RecentEvents, 1, m)[i] = SubSeq(all, 1, m)[i]
      BY <2>4, <3>1, <3>2
    <3>. QED
      BY <3>3, SeqEqual
  <2>6. IsPrefix(RecentEvents, all)
    BY <2>1, <2>2, <2>3, <2>5 DEF IsPrefix
  <2>. QED
    BY <2>1, <2>2, <2>6 DEF RecentIsNewest, n, all
<1>3. TurnInv /\ RecentInv /\ [Next]_vars => RecentInv'
  BY RecentStep
<1>4. TurnInv /\ [Next]_vars => TurnInv'
  BY TurnStep
<1>. QED
  BY <1>1, <1>2, <1>3, <1>4, InitTurn, PTL DEF Spec

-----------------------------------------------------------------------------
(* Whole frames.                                                           *)

\* Images are of frames the thread is done with, or of the one whose records it
\* is writing, which has one.
ImagesInv ==
  /\ \A f \in images :
       f \in Frames /\ (Finished(f) \/ (pc \in {"open", "describe"} /\ f = task.frame))
  /\ pc \in {"open", "describe"} => task.frame \in images

\* So are the records of a run, which starts without any; what it has settled is
\* behind it.
KnownInv ==
  /\ \A r \in Range(remembered) :
       /\ r \in RecordsOf(Frames) /\ Whole(r) /\ r.frame[1] = run
       /\ Finished(r.frame) \/ (pc = "describe" /\ r.frame = task.frame)
  /\ \A f \in Range(settled) : f \in Frames /\ f[1] = run /\ Finished(f)
  /\ settled \in Seq(Frames)
  /\ ~up => settled = <<>> /\ remembered = <<>>

HeldInv == LogInv /\ RecentInv /\ ImagesInv /\ KnownInv

\* The task in hand is not behind the thread.
LEMMA WorkingTask ==
  ASSUME TurnInv, Working
  PROVE  /\ up /\ task.frame \in Frames /\ task.frame[1] = run
         /\ ~Finished(task.frame)
         /\ task.frame # Newline.frame
         /\ task.detections \in Nat \ {0}
<1>1. task \in Tasks /\ task.frame[1] = run /\ up /\ run \in Nat \ {0}
  BY DEF TurnInv, Working
<1>2. /\ task.frame \in Frames /\ task.detections \in Nat \ {0}
      /\ task.frame[1] \in Nat /\ task.frame[2] \in Nat
  BY <1>1 DEF Tasks, Frames
<1>3. ~Finished(task.frame)
  BY <1>1, <1>2 DEF Finished
<1>4. task.frame # Newline.frame
  BY <1>1 DEF Newline
<1>. QED
  BY <1>1, <1>2, <1>3, <1>4

\* With the last step of its task the thread leaves it behind.
LEMMA TaskDone ==
  ASSUME TurnInv, ImageFails \/ CloseLog \/ CloseFails
  PROVE  /\ Working /\ pc' = "loop" /\ UNCHANGED <<run, up, task>>
         /\ settled' = Append(settled, task.frame)
         /\ \A f : f = task.frame => Finished(f)'
<1>1. /\ Working /\ pc' = "loop" /\ UNCHANGED <<run, up, queue, rendered, task>>
      /\ settled' = Append(settled, task.frame)
  BY DEF ImageFails, CloseLog, CloseFails, Settle, Working, work
<1>2. /\ task.frame[1] = run /\ task.frame[2] <= rendered
      /\ \A t \in Range(queue) : task.frame[2] < t.frame[2]
  BY <1>1 DEF TurnInv
<1>3. ASSUME NEW f, f = task.frame PROVE Finished(f)'
  BY <1>1, <1>2, <1>3 DEF Finished, Working
<1>. QED
  BY <1>1, <1>3

LEMMA ImagesStep ==
  ASSUME HeldInv, [Next]_vars
  PROVE  ImagesInv'
<1>1. /\ TurnInv
      /\ \A f \in images : f \in Frames /\ (Finished(f) \/ (pc \in {"open", "describe"} /\ f = task.frame))
      /\ pc \in {"open", "describe"} => task.frame \in images
  BY DEF HeldInv, LogInv, ImagesInv
<1>2. \A f \in Frames : Finished(f) => Finished(f)'
  BY <1>1, TurnStep DEF Frames
<1>3. CASE WriteImage
  <2>1. /\ images' = images \cup {task.frame} /\ pc = "image" /\ pc' = "open" /\ UNCHANGED task
    BY <1>3 DEF WriteImage, work
  <2>2. task.frame \in Frames
    BY <1>1, <2>1, WorkingTask DEF Working
  <2>. QED
    BY <1>1, <1>2, <2>1, <2>2 DEF ImagesInv
<1>4. CASE CloseLog \/ CloseFails
  <2>1. UNCHANGED images /\ pc' = "loop"
    BY <1>4 DEF CloseLog, CloseFails
  <2>2. \A f \in images : f \in Frames /\ Finished(f)'
    BY <1>1, <1>2, <1>4, TaskDone
  <2>. QED
    BY <2>1, <2>2 DEF ImagesInv
<1>5. CASE Exit \/ Crash
  <2>1. UNCHANGED <<images, run>> /\ up' = FALSE /\ pc' = "loop"
    BY <1>5 DEF Exit, Crash, Forget, disk
  <2>2. \A f \in images : f \in Frames /\ Finished(f)'
    <3>1. ASSUME NEW f \in images, pc \in {"open", "describe"}, f = task.frame
          PROVE  Finished(f)'
      <4>1. f[1] = run
        BY <1>1, <3>1, WorkingTask DEF Working
      <4>. QED
        BY <2>1, <4>1 DEF Finished
    <3>. QED
      BY <1>1, <1>2, <3>1
  <2>. QED
    BY <2>1, <2>2 DEF ImagesInv
<1>6. CASE Loop \/ Pop \/ PopNothing \/ ImageFails \/ Restart
  <2>1. /\ UNCHANGED images /\ pc \notin {"open", "describe"} /\ pc' \notin {"open", "describe"}
    BY <1>1, <1>6 DEF Loop, Pop, PopNothing, ImageFails, Restart, disk, TurnInv
  <2>. QED
    BY <1>1, <1>2, <2>1 DEF ImagesInv
<1>7. CASE /\ UNCHANGED <<images, task>>
           /\ pc \in {"open", "describe"} <=> pc' \in {"open", "describe"}
  BY <1>1, <1>2, <1>7 DEF ImagesInv
<1>8. OpenLog \/ Describe \/ EndLine \/ SpillBuffer \/ SpillFails \/ Stop \/ UNCHANGED vars
        => /\ UNCHANGED <<images, task>>
           /\ pc \in {"open", "describe"} <=> pc' \in {"open", "describe"}
  BY DEF OpenLog, Describe, EndLine, SpillBuffer, SpillFails, Stop, vars, work, disk
<1>9. ASSUME NEW n \in 0 .. MaxDetections, Submit(n)
      PROVE  UNCHANGED <<images, task, pc>>
  BY <1>9 DEF Submit, work, disk
<1>. QED
  BY <1>3, <1>4, <1>5, <1>6, <1>7, <1>8, <1>9 DEF Next, EventThread

LEMMA KnownStep ==
  ASSUME HeldInv, [Next]_vars
  PROVE  KnownInv'
<1>1. /\ TurnInv /\ RecentInv
      /\ \A r \in Range(remembered) :
           /\ r \in RecordsOf(Frames) /\ Whole(r) /\ r.frame \in Frames /\ r.frame[1] = run
           /\ Finished(r.frame) \/ (pc = "describe" /\ r.frame = task.frame)
      /\ \A f \in Range(settled) : f \in Frames /\ f[1] = run /\ Finished(f)
      /\ settled \in Seq(Frames)
      /\ ~up => settled = <<>> /\ remembered = <<>>
  BY DEF HeldInv, LogInv, KnownInv, RecordsOf
<1>2. \A f \in Frames : Finished(f) => Finished(f)'
  BY <1>1, TurnStep DEF Frames
<1>3. CASE Describe
  <2>. DEFINE record == [frame |-> task.frame, detection |-> described + 1]
  <2>1. /\ record \in RecordsOf(Frames) /\ record.frame[1] = run /\ record.frame = task.frame
        /\ Whole(record)
    BY <1>1, <1>3, DescribedType DEF Whole
  <2>2. /\ remembered' = Append(remembered, record) /\ UNCHANGED <<run, up, pc, task, settled>>
        /\ pc = "describe" /\ up
    BY <1>3 DEF Describe
  <2>. HIDE DEF record
  <2>3. Range(remembered') = Range(remembered) \cup {record}
    BY <1>1, <2>1, <2>2, AppendRange DEF RecentInv
  <2>4. \A r \in Range(remembered') :
           /\ r \in RecordsOf(Frames) /\ Whole(r) /\ r.frame[1] = run'
           /\ Finished(r.frame)' \/ (pc' = "describe" /\ r.frame = task'.frame)
    BY <1>1, <1>2, <2>1, <2>2, <2>3
  <2>. QED
    BY <1>1, <1>2, <2>2, <2>4 DEF KnownInv
<1>4. CASE ImageFails \/ CloseLog \/ CloseFails
  <2>1. /\ pc' = "loop" /\ UNCHANGED <<run, up, task>> /\ Working
        /\ settled' = Append(settled, task.frame)
        /\ \A f : f = task.frame => Finished(f)'
    BY <1>1, <1>4, TaskDone
  <2>2. UNCHANGED remembered
    BY <1>4 DEF ImageFails, CloseLog, CloseFails
  <2>3. up /\ task.frame \in Frames /\ task.frame[1] = run
    BY <1>1, <2>1, WorkingTask
  <2>4. settled' \in Seq(Frames) /\ Range(settled') = Range(settled) \cup {task.frame}
    <3>1. ASSUME NEW x \in Frames
          PROVE  Append(settled, x) \in Seq(Frames) /\ Range(Append(settled, x)) = Range(settled) \cup {x}
      BY <1>1, AppendRange
    <3>. QED
      BY <2>1, <2>3, <3>1
  <2>5. \A f \in Range(settled') : f \in Frames /\ f[1] = run' /\ Finished(f)'
    BY <1>1, <1>2, <2>1, <2>3, <2>4
  <2>6. \A r \in Range(remembered') :
           r \in RecordsOf(Frames) /\ Whole(r) /\ r.frame[1] = run' /\ Finished(r.frame)'
    BY <1>1, <1>2, <2>1, <2>2
  <2>. QED
    BY <2>1, <2>3, <2>4, <2>5, <2>6 DEF KnownInv
<1>5. CASE Exit \/ Crash
  <2>1. settled' = <<>> /\ remembered' = <<>>
    BY <1>5 DEF Exit, Crash, Forget
  <2>2. settled' \in Seq(Frames) /\ Range(settled') = {} /\ Range(remembered') = {}
    BY <2>1 DEF Range
  <2>. QED
    BY <2>1, <2>2 DEF KnownInv
<1>6. CASE Restart
  <2>1. settled = <<>> /\ remembered = <<>> /\ UNCHANGED <<settled, remembered>>
    BY <1>1, <1>6 DEF Restart, history
  <2>2. settled' \in Seq(Frames) /\ Range(settled') = {} /\ Range(remembered') = {}
    BY <2>1 DEF Range
  <2>. QED
    BY <2>1, <2>2 DEF KnownInv
<1>7. CASE /\ UNCHANGED <<run, up, settled, remembered>>
           /\ pc = "describe" => UNCHANGED <<pc, task>>
  BY <1>1, <1>2, <1>7 DEF KnownInv
<1>8. Loop \/ Pop \/ PopNothing \/ WriteImage \/ OpenLog \/ EndLine \/ SpillBuffer
      \/ SpillFails \/ Stop \/ UNCHANGED vars
        => /\ UNCHANGED <<run, up, settled, remembered>>
           /\ pc = "describe" => UNCHANGED <<pc, task>>
  BY DEF Loop, Pop, PopNothing, WriteImage, OpenLog, EndLine, SpillBuffer, SpillFails,
         Stop, vars, work, disk, history
<1>9. ASSUME NEW n \in 0 .. MaxDetections, Submit(n)
      PROVE  UNCHANGED <<run, up, settled, remembered, pc, task>>
  BY <1>9 DEF Submit, work, disk, history
<1>. QED
  BY <1>3, <1>4, <1>5, <1>6, <1>7, <1>8, <1>9 DEF Next, EventThread

\* A frame that has been described is remembered, and what is settled has an
\* image exactly when there was something to remember of it.
ReportedInv ==
  /\ pc = "describe" =>
       /\ described <= task.detections
       /\ described > 0 => \E s \in Range(remembered) : s.frame = task.frame
  /\ \A f \in Range(settled) : f \in images <=> \E s \in Range(remembered) : s.frame = f

\* What is written of this run is remembered.  The log has with a record those
\* remembered of its frame before it, and so have the log and the stream.  Of the
\* frame in hand everything is on its way, or a write has failed, or the log was
\* never open; so it is with the frames that are settled.
WholeInv ==
  /\ up => \A r \in Written : Whole(r) /\ r.frame[1] = run => r \in Range(remembered)
  /\ \A r \in Range(log), s \in Range(remembered) :
       Whole(r) /\ r.frame = s.frame /\ s.detection < r.detection => s \in Range(log)
  /\ \A k \in 1 .. Len(buffer), s \in Range(remembered) :
       Whole(buffer[k]) /\ s.frame = task.frame /\ s.detection < buffer[k].detection =>
         s \in Range(log) \/ \E j \in 1 .. k - 1 : buffer[j] = s
  /\ pc = "describe" =>
       \/ /\ log_open
          /\ \A s \in Range(remembered) : s.frame = task.frame => s \in Written
       \/ ~log_open /\ CutOf(task.frame)
       \/ ~log_open /\ \A r \in Written : r.frame # task.frame
  /\ \A f \in Range(settled) :
       \/ \A s \in Range(remembered) : s.frame = f => s \in Range(log)
       \/ CutOf(f)
       \/ \A r \in Range(log) : r.frame # f

\* Before it describes a frame the thread has written and remembered nothing of it.
LEMMA NothingYet ==
  ASSUME HeldInv, pc \in {"image", "open"}
  PROVE  /\ \A r \in Written : r.frame # task.frame
         /\ \A s \in Range(remembered) : s.frame # task.frame
<1>1. /\ TurnInv /\ Working
      /\ \A r \in Range(remembered) : Finished(r.frame)
      /\ \A r \in Written : r # Newline => Finished(r.frame)
  BY DEF HeldInv, LogInv, KnownInv, StreamInv, Described, Working
<1>2. ~Finished(task.frame) /\ task.frame # Newline.frame
  BY <1>1, WorkingTask
<1>. QED
  BY <1>1, <1>2

\* A settled frame is neither the one in hand nor that of a newline.
LEMMA SettledFrame ==
  ASSUME HeldInv, NEW f \in Range(settled)
  PROVE  /\ f # Newline.frame
         /\ Working => f # task.frame
<1>1. TurnInv /\ f \in Frames /\ f[1] = run /\ Finished(f) /\ run \in Nat \ {0}
  BY DEF HeldInv, LogInv, KnownInv, TurnInv
<1>. QED
  BY <1>1, WorkingTask DEF Newline

\* What Describe remembers.
LEMMA Remembers ==
  ASSUME HeldInv, Describe
  PROVE  \E x \in RecordsOf(Frames) :
           /\ x = [frame |-> task.frame, detection |-> described + 1]
           /\ x.frame = task.frame /\ Whole(x) /\ Gives(x)
           /\ Range(remembered') = Range(remembered) \cup {x}
           /\ \A r \in Written : Whole(r) => Before(r, x)
<1>. DEFINE record == [frame |-> task.frame, detection |-> described + 1]
<1>1. TurnInv /\ StreamInv /\ remembered \in Seq(RecordsOf(Frames))
  BY DEF HeldInv, LogInv, RecentInv
<1>2. /\ record \in RecordsOf(Frames) /\ Gives(record) /\ described \in Nat
      /\ \A r \in Written : Whole(r) => Before(r, record)
  BY <1>1, DescribedType, GivingSteps, NextIsLater
<1>3. remembered' = Append(remembered, record)
  BY DEF Describe
<1>4. Whole(record)
  BY <1>2 DEF Whole
<1>5. record.frame = task.frame
  OBVIOUS
<1>. DEFINE x == record
<1>6. x = [frame |-> task.frame, detection |-> described + 1]
  OBVIOUS
<1>. HIDE DEF record, x
<1>7. Range(remembered') = Range(remembered) \cup {record}
  BY <1>1, <1>2, <1>3, AppendRange
<1>8. x = record
  BY DEF x
<1>. QED
  BY <1>2, <1>4, <1>5, <1>6, <1>7, <1>8

LEMMA ReportedStep ==
  ASSUME HeldInv, ReportedInv, [Next]_vars
  PROVE  ReportedInv'
<1>1. TurnInv /\ settled \in Seq(Frames)
  BY DEF HeldInv, LogInv, KnownInv
<1>2. CASE Describe
  <2>1. PICK x : x.frame = task.frame /\ Range(remembered') = Range(remembered) \cup {x}
    BY <1>2, Remembers
  <2>2. /\ described < task.detections /\ described' = described + 1 /\ pc = "describe"
        /\ UNCHANGED <<images, task, settled>> /\ described \in Nat
        /\ task.detections \in Nat
    BY <1>1, <1>2, DescribedType DEF Describe, disk
  <2>3. described' <= task'.detections
    BY <2>2
  <2>4. \A f \in Range(settled) : f # task.frame
    BY <2>2, SettledFrame DEF Working
  <2>. QED
    BY <2>1, <2>2, <2>3, <2>4 DEF ReportedInv
<1>3. CASE WriteImage
  <2>1. /\ images' = images \cup {task.frame} /\ pc = "image" /\ pc' = "open"
        /\ UNCHANGED <<remembered, settled>>
    BY <1>3 DEF WriteImage, history
  <2>2. \A f \in Range(settled) : f # task.frame
    BY <2>1, SettledFrame DEF Working
  <2>. QED
    BY <2>1, <2>2 DEF ReportedInv
<1>4. CASE ImageFails \/ CloseLog \/ CloseFails
  <2>1. /\ settled' = Append(settled, task.frame) /\ Working /\ pc' = "loop"
    BY <1>1, <1>4, TaskDone
  <2>2. UNCHANGED <<images, remembered>>
    BY <1>4 DEF ImageFails, CloseLog, CloseFails, disk
  <2>3. Range(settled') = Range(settled) \cup {task.frame}
    <3>1. task.frame \in Frames
      BY <1>1, <2>1, WorkingTask
    <3>. QED
      BY <1>1, <2>1, <3>1, AppendRange
  <2>4. task.frame \in images <=> \E s \in Range(remembered) : s.frame = task.frame
    <3>1. CASE ImageFails
      <4>1. pc = "image" /\ ~Finished(task.frame)
        BY <1>1, <2>1, <3>1, WorkingTask DEF ImageFails
      <4>2. task.frame \notin images
        BY <4>1 DEF HeldInv, ImagesInv
      <4>. QED
        BY <4>1, <4>2, NothingYet
    <3>2. CASE CloseLog \/ CloseFails
      <4>1. pc = "describe" /\ described = task.detections
        BY <3>2 DEF CloseLog, CloseFails
      <4>2. described > 0
        BY <1>1, <2>1, <4>1, WorkingTask
      <4>3. task.frame \in images
        BY <4>1 DEF HeldInv, ImagesInv
      <4>. QED
        BY <4>1, <4>2, <4>3 DEF ReportedInv
    <3>. QED
      BY <1>4, <3>1, <3>2
  <2>. QED
    BY <2>1, <2>2, <2>3, <2>4 DEF ReportedInv
<1>5. CASE Exit \/ Crash
  <2>1. pc' = "loop" /\ settled' = <<>>
    BY <1>5 DEF Exit, Crash, Forget
  <2>2. Range(settled') = {}
    BY <2>1 DEF Range
  <2>. QED
    BY <2>1, <2>2 DEF ReportedInv
<1>6. CASE OpenLog
  <2>1. pc' = "describe" /\ described' = 0 /\ UNCHANGED <<images, task, remembered, settled>>
    BY <1>6 DEF OpenLog, disk, history
  <2>2. task.detections \in Nat
    BY <1>1, <1>6, WorkingTask DEF OpenLog, Working
  <2>. QED
    BY <2>1, <2>2 DEF ReportedInv
<1>7. CASE /\ UNCHANGED <<images, remembered, settled>>
           /\ pc' # "describe" \/ UNCHANGED <<pc, task, described>>
  BY <1>7 DEF ReportedInv
<1>8. Loop \/ Pop \/ PopNothing \/ EndLine \/ SpillBuffer \/ SpillFails \/ Stop \/ Restart
      \/ UNCHANGED vars
         => /\ UNCHANGED <<images, remembered, settled>>
            /\ pc' # "describe" \/ UNCHANGED <<pc, task, described>>
  BY DEF Loop, Pop, PopNothing, EndLine, SpillBuffer, SpillFails, Stop, Restart, vars, work,
         disk, history
<1>9. ASSUME NEW n \in 0 .. MaxDetections, Submit(n)
      PROVE  UNCHANGED <<images, remembered, settled, pc, task, described>>
  BY <1>9 DEF Submit, work, disk
<1>. QED
  BY <1>2, <1>3, <1>4, <1>5, <1>6, <1>7, <1>8, <1>9 DEF Next, EventThread

\* Describe: what is remembered last is given to the stream if it is good.
LEMMA WholeDescribed ==
  ASSUME HeldInv, WholeInv, Describe
  PROVE  WholeInv'
<1>1. PICK x \in RecordsOf(Frames) :
           /\ x = [frame |-> task.frame, detection |-> described + 1]
           /\ x.frame = task.frame /\ Whole(x) /\ Gives(x)
           /\ Range(remembered') = Range(remembered) \cup {x}
           /\ \A r \in Written : Whole(r) => Before(r, x)
  BY Remembers
<1>2. /\ UNCHANGED <<log, cuts, run, up, pc, task, log_open>> /\ up /\ pc = "describe"
      /\ log_open \in BOOLEAN /\ StreamInv /\ UNCHANGED settled
  BY <1>1 DEF Gives, HeldInv, LogInv, StreamInv, Describe
<1>3. /\ Len(buffer) \in Nat
      /\ \/ ~log_open /\ buffer' = buffer
         \/ /\ log_open /\ Len(buffer') = Len(buffer) + 1 /\ buffer' # <<>>
            /\ \A k \in 1 .. Len(buffer) : k \in 1 .. Len(buffer') /\ buffer'[k] = buffer[k]
            /\ buffer'[Len(buffer) + 1] = x
            /\ \A k \in 1 .. Len(buffer') : k \in 1 .. Len(buffer) \/ k = Len(buffer) + 1
      /\ Range(buffer') \subseteq Range(buffer) \cup {x}
  BY <1>1, <1>2, GivesItems
<1>4. /\ DOMAIN buffer = 1 .. Len(buffer)
      /\ \A k \in 1 .. Len(buffer) : buffer[k] \in Written
      /\ \A r \in Range(log) : r \in Written
      /\ Written' \subseteq Written \cup {x}
  BY <1>2, <1>3 DEF StreamInv, Written, Range
<1>5. ASSUME NEW r \in Written, Whole(r), r.frame = task.frame PROVE ~(x.detection < r.detection)
  <2>1. r \in RecordsOf(Frames)
    BY <1>2 DEF Written, StreamInv, Range
  <2>2. /\ r.frame[1] \in Nat /\ r.frame[2] \in Nat /\ r.detection \in Nat /\ x.detection \in Nat
    BY <1>1, <2>1, EntryType
  <2>3. r.detection < x.detection
    BY <1>1, <1>5, <2>2 DEF Before
  <2>. QED
    BY <2>2, <2>3
<1>6. \A r \in Written' : Whole(r) /\ r.frame[1] = run => r \in Range(remembered')
  BY <1>1, <1>2, <1>4 DEF WholeInv
<1>7. ASSUME NEW r \in Range(log), NEW s \in Range(remembered'),
             Whole(r), r.frame = s.frame, s.detection < r.detection
      PROVE  s \in Range(log)
  BY <1>1, <1>4, <1>5, <1>7 DEF WholeInv
<1>8. ASSUME NEW k \in 1 .. Len(buffer'), NEW s \in Range(remembered'),
             Whole(buffer'[k]), s.frame = task.frame, s.detection < buffer'[k].detection
      PROVE  s \in Range(log) \/ \E j \in 1 .. k - 1 : buffer'[j] = s
  <2>1. CASE k \in 1 .. Len(buffer)
    <3>1. buffer'[k] = buffer[k] /\ \A j \in 1 .. k - 1 : buffer'[j] = buffer[j]
      BY <1>3, <2>1
    <3>2. buffer[k].frame = task.frame /\ buffer[k] \in Written
      BY <1>2, <1>4, <1>8, <2>1, <3>1, NewlineType DEF StreamInv
    <3>3. s # x
      BY <1>5, <1>8, <3>1, <3>2
    <3>4. s \in Range(remembered)
      BY <1>1, <3>3
    <3>. QED
      BY <1>8, <2>1, <3>1, <3>4 DEF WholeInv
  <2>2. CASE k \notin 1 .. Len(buffer)
    <3>1. log_open /\ k = Len(buffer) + 1 /\ buffer'[k] = x
      BY <1>3, <2>2
    <3>2. s # x /\ s \in Range(remembered)
      <4>1. x.detection \in Nat
        BY <1>1, EntryType
      <4>2. s # x
        BY <1>8, <3>1, <4>1
      <4>. QED
        BY <1>1, <4>2
    <3>3. s \in Written
      BY <1>2, <1>8, <3>1, <3>2 DEF WholeInv
    <3>4. s \in Range(buffer) => \E j \in 1 .. k - 1 : buffer'[j] = s
      <4>1. 1 .. k - 1 = 1 .. Len(buffer)
        BY <1>3, <3>1
      <4>. QED
        BY <1>3, <1>4, <4>1, <3>1 DEF Range
    <3>. QED
      BY <3>3, <3>4 DEF Written
  <2>. QED
    BY <2>1, <2>2
<1>9. \/ log_open /\ \A s \in Range(remembered') : s.frame = task.frame => s \in Written'
      \/ ~log_open /\ CutOf(task.frame)'
      \/ ~log_open /\ \A r \in Written' : r.frame # task.frame
  <2>1. CASE log_open
    <3>1. \A s \in Range(remembered) : s.frame = task.frame => s \in Written
      BY <1>2, <2>1 DEF WholeInv
    <3>2. Range(buffer) \subseteq Range(buffer') /\ x \in Range(buffer')
      <4>1. /\ Len(buffer) + 1 \in DOMAIN buffer' /\ DOMAIN buffer' = 1 .. Len(buffer')
        <5>1. buffer' \in Seq(RecordsOf(Frames))
          BY <1>1, <1>2, GivesItems
        <5>. QED
          BY <1>3, <2>1, <5>1
      <4>. QED
        BY <1>3, <1>4, <2>1, <4>1 DEF Range
    <3>. QED
      BY <1>1, <1>2, <2>1, <3>1, <3>2 DEF Written
  <2>2. CASE ~log_open
    <3>1. CutOf(task.frame) => CutOf(task.frame)'
      BY <1>2 DEF CutOf
    <3>2. Written' = Written
      BY <1>2, <1>3, <2>2 DEF Written
    <3>. QED
      BY <1>2, <2>2, <3>1, <3>2 DEF WholeInv
  <2>. QED
    BY <2>1, <2>2
<1>10. ASSUME NEW f \in Range(settled)
       PROVE  \/ \A s \in Range(remembered') : s.frame = f => s \in Range(log)
              \/ CutOf(f)
              \/ \A r \in Range(log) : r.frame # f
  <2>1. f # task.frame
    BY <1>2, SettledFrame DEF Working
  <2>. QED
    BY <1>1, <2>1 DEF WholeInv
<1>11. \A f : CutOf(f) <=> CutOf(f)'
  BY <1>2 DEF CutOf
<1>. QED
  BY <1>2, <1>6, <1>7, <1>8, <1>9, <1>10, <1>11 DEF WholeInv

LEMMA WholeEndLine ==
  ASSUME HeldInv, WholeInv, EndLine
  PROVE  WholeInv'
<1>1. TurnInv /\ StreamInv
  BY DEF HeldInv, LogInv
<1>2. Gives(Newline) /\ UNCHANGED remembered
  BY <1>1, GivingSteps
<1>3. UNCHANGED settled
  BY DEF EndLine, history
<1>4. /\ UNCHANGED <<log, cuts, run, up, pc, task, log_open>> /\ up /\ pc = "describe"
  BY <1>2 DEF Gives
<1>5. /\ Len(buffer) \in Nat /\ buffer' \in Seq(RecordsOf(Frames))
      /\ \/ ~log_open /\ buffer' = buffer
         \/ /\ log_open
            /\ \A k \in 1 .. Len(buffer) : k \in 1 .. Len(buffer') /\ buffer'[k] = buffer[k]
            /\ buffer'[Len(buffer) + 1] = Newline
            /\ \A k \in 1 .. Len(buffer') : k \in 1 .. Len(buffer) \/ k = Len(buffer) + 1
      /\ Range(buffer') \subseteq Range(buffer) \cup {Newline}
  BY <1>1, <1>2, NewlineType, GivesItems
<1>6. \A f : CutOf(f) <=> CutOf(f)'
  BY <1>4 DEF CutOf
<1>7. CASE ~log_open /\ buffer' = buffer
  <2>1. Written' = Written
    BY <1>4, <1>7 DEF Written
  <2>. QED
    BY <1>2, <1>3, <1>4, <1>6, <1>7, <2>1 DEF WholeInv
<1>8. CASE /\ log_open
           /\ \A k \in 1 .. Len(buffer) : k \in 1 .. Len(buffer') /\ buffer'[k] = buffer[k]
           /\ buffer'[Len(buffer) + 1] = Newline
           /\ \A k \in 1 .. Len(buffer') : k \in 1 .. Len(buffer) \/ k = Len(buffer) + 1
  <2>1. Range(buffer) \subseteq Range(buffer')
    <3>1. DOMAIN buffer = 1 .. Len(buffer) /\ DOMAIN buffer' = 1 .. Len(buffer')
      BY <1>1, <1>5 DEF StreamInv
    <3>. QED
      BY <1>8, <3>1 DEF Range
  <2>2. Written' \subseteq Written \cup {Newline} /\ Written \subseteq Written'
    BY <1>4, <1>5, <2>1 DEF Written
  <2>3. \A r \in Written' : Whole(r) /\ r.frame[1] = run => r \in Range(remembered)
    BY <1>4, <2>2, NewlineType DEF WholeInv
  <2>4. ASSUME NEW k \in 1 .. Len(buffer'), NEW s \in Range(remembered),
               Whole(buffer'[k]), s.frame = task.frame, s.detection < buffer'[k].detection
        PROVE  s \in Range(log) \/ \E j \in 1 .. k - 1 : buffer'[j] = s
    <3>1. k \in 1 .. Len(buffer) /\ buffer'[k] = buffer[k]
      BY <1>8, <2>4, NewlineType
    <3>2. \A j \in 1 .. k - 1 : buffer'[j] = buffer[j]
      BY <1>5, <1>8, <3>1
    <3>3. s \in Range(log) \/ \E j \in 1 .. k - 1 : buffer[j] = s
      BY <2>4, <3>1 DEF WholeInv
    <3>. QED
      BY <3>2, <3>3
  <2>5. \A s \in Range(remembered) : s.frame = task.frame => s \in Written'
    BY <1>4, <1>8, <2>2 DEF WholeInv
  <2>6. \A r \in Range(log), s \in Range(remembered) :
           Whole(r) /\ r.frame = s.frame /\ s.detection < r.detection => s \in Range(log)
    BY DEF WholeInv
  <2>. QED
    BY <1>2, <1>3, <1>4, <1>6, <1>8, <2>3, <2>4, <2>5, <2>6 DEF WholeInv
<1>. QED
  BY <1>5, <1>7, <1>8

\* What is written to the file was in the stream; of a write that fails, the
\* records up to one of them.
LEMMA WholeWritten ==
  ASSUME HeldInv, WholeInv, NEW w, Writes(w)
  PROVE  WholeInv'
<1>1. /\ TurnInv /\ StreamInv /\ CutsInv
      /\ settled \in Seq(Frames) /\ \A f \in Range(settled) : f \in Frames
  BY DEF HeldInv, LogInv, KnownInv
<1>2. /\ UNCHANGED <<run, up, task, remembered>> /\ up /\ pc = "describe" /\ Working
      /\ \A f : CutOf(f) => CutOf(f)'
  BY DEF Writes, Working, CutOf
<1>3. /\ w \in Seq(RecordsOf(Frames)) /\ buffer' \in Seq(RecordsOf(Frames))
      /\ buffer \in Seq(RecordsOf(Frames))
      /\ Len(w) \in Nat /\ Len(buffer) \in Nat
      /\ DOMAIN w = 1 .. Len(w) /\ DOMAIN buffer' = 1 .. Len(buffer')
      /\ DOMAIN buffer = 1 .. Len(buffer)
      /\ Range(log') = Range(log) \cup Range(w)
      /\ \A k \in 1 .. Len(w) :
           k \in 1 .. Len(buffer) /\ (w[k] = buffer[k] \/ (~Whole(w[k]) /\ k = Len(w)))
      /\ \A k \in 1 .. Len(buffer') : k \in 1 .. Len(buffer) /\ buffer'[k] = buffer[k]
  BY <1>1, WritesItems DEF StreamInv
<1>4. ASSUME NEW k \in 1 .. Len(w), Whole(w[k])
      PROVE  /\ w[k] = buffer[k] /\ k \in 1 .. Len(buffer)
             /\ w[k].frame = task.frame /\ w[k] \in RecordsOf(Frames)
  <2>1. w[k] = buffer[k] /\ k \in 1 .. Len(buffer)
    BY <1>3, <1>4
  <2>2. w[k].frame = task.frame
    BY <1>1, <1>4, <2>1, NewlineType DEF StreamInv
  <2>3. w[k] \in RecordsOf(Frames)
    BY <1>3, ElementOfSeq
  <2>. QED
    BY <2>1, <2>2, <2>3
<1>5. \A r \in Written' : Whole(r) => r \in Written
  <2>1. ASSUME NEW r \in Range(w), Whole(r) PROVE r \in Range(buffer)
    <3>1. PICK k \in 1 .. Len(w) : r = w[k]
      BY <1>3 DEF Range
    <3>2. w[k] = buffer[k] /\ k \in DOMAIN buffer
      BY <1>3, <1>4, <2>1, <3>1
    <3>. QED
      BY <3>1, <3>2 DEF Range
  <2>2. Range(buffer') \subseteq Range(buffer)
    BY <1>3 DEF Range
  <2>. QED
    BY <1>3, <2>1, <2>2 DEF Written
<1>6. \A r \in Written' : Whole(r) /\ r.frame[1] = run => r \in Range(remembered)
  BY <1>2, <1>5 DEF WholeInv
<1>7. ASSUME NEW r \in Range(log'), NEW s \in Range(remembered),
             Whole(r), r.frame = s.frame, s.detection < r.detection
      PROVE  s \in Range(log')
  <2>1. CASE r \in Range(log)
    BY <1>3, <1>7, <2>1 DEF WholeInv
  <2>2. CASE r \in Range(w)
    <3>1. PICK k \in 1 .. Len(w) : r = w[k]
      BY <1>3, <2>2 DEF Range
    <3>2. w[k] = buffer[k] /\ k \in 1 .. Len(buffer) /\ s.frame = task.frame
      BY <1>4, <1>7, <3>1
    <3>3. s \in Range(log) \/ \E j \in 1 .. k - 1 : buffer[j] = s
      BY <1>7, <3>1, <3>2 DEF WholeInv
    <3>4. ASSUME NEW j \in 1 .. k - 1, buffer[j] = s PROVE s \in Range(w)
      <4>1. j \in 1 .. Len(w) /\ j # Len(w)
        <5>1. Len(w) \in Nat
          BY <1>3
        <5>. QED
          BY <5>1
      <4>2. w[j] = s
        BY <1>3, <3>4, <4>1
      <4>. QED
        BY <1>3, <4>1, <4>2 DEF Range
    <3>. QED
      BY <1>3, <3>3, <3>4
  <2>. QED
    BY <1>3, <2>1, <2>2
<1>8. ASSUME NEW k \in 1 .. Len(buffer'), NEW s \in Range(remembered),
             Whole(buffer'[k]), s.frame = task.frame, s.detection < buffer'[k].detection
      PROVE  s \in Range(log') \/ \E j \in 1 .. k - 1 : buffer'[j] = s
  <2>1. buffer'[k] = buffer[k] /\ k \in 1 .. Len(buffer) /\ k \in 1 .. Len(buffer')
    BY <1>3
  <2>2. s \in Range(log) \/ \E j \in 1 .. k - 1 : buffer[j] = s
    BY <1>8, <2>1 DEF WholeInv
  <2>3. Len(buffer') \in Nat
    BY <1>3, LenProperties
  <2>4. ASSUME NEW j \in 1 .. k - 1 PROVE j \in 1 .. Len(buffer') /\ buffer'[j] = buffer[j]
    <3>1. j \in 1 .. Len(buffer')
      BY <2>1, <2>3
    <3>. QED
      BY <1>3, <3>1
  <2>. QED
    BY <1>3, <2>2, <2>4
<1>9. \/ w = buffer /\ buffer' = <<>> /\ UNCHANGED log_open
      \/ CutOf(task.frame)' /\ (log_open' = FALSE \/ pc' = "loop")
  <2>1. CASE w = buffer /\ buffer' = <<>> /\ UNCHANGED <<cuts, log_open>>
    BY <2>1
  <2>2. CASE cuts' = cuts \cup {[at |-> Len(log'), frame |-> task.frame]}
    <3>1. PICK c \in cuts' : c = [at |-> Len(log'), frame |-> task.frame]
      BY <2>2
    <3>2. CutOf(task.frame)'
      BY <1>2, <3>1 DEF CutOf
    <3>3. log_open' = FALSE \/ pc' = "loop" \/ (w = buffer /\ buffer' = <<>> /\ UNCHANGED log_open)
      BY DEF Writes
    <3>. QED
      BY <3>2, <3>3
  <2>3. \/ w = buffer /\ buffer' = <<>> /\ UNCHANGED <<cuts, log_open>>
        \/ cuts' = cuts \cup {[at |-> Len(log'), frame |-> task.frame]}
    BY DEF Writes
  <2>. QED
    BY <2>1, <2>2, <2>3
<1>10. w = buffer /\ buffer' = <<>> => Written' = Written
  <2>1. Range(<<>>) = {}
    BY DEF Range
  <2>. QED
    BY <1>3, <2>1 DEF Written
<1>11. \/ /\ log_open
          /\ \A s \in Range(remembered) : s.frame = task.frame => s \in Written
       \/ ~log_open /\ CutOf(task.frame)
       \/ ~log_open /\ \A r \in Written : r.frame # task.frame
  BY <1>2 DEF WholeInv
<1>12. pc' = "describe" =>
         \/ /\ log_open'
            /\ \A s \in Range(remembered) : s.frame = task.frame => s \in Written'
         \/ ~log_open' /\ CutOf(task.frame)'
         \/ ~log_open' /\ \A r \in Written' : r.frame # task.frame
  BY <1>1, <1>2, <1>9, <1>10, <1>11 DEF StreamInv
<1>13. ASSUME NEW f \in Range(settled)
       PROVE  \/ \A s \in Range(remembered) : s.frame = f => s \in Range(log')
              \/ CutOf(f)'
              \/ \A r \in Range(log') : r.frame # f
  <2>1. f # task.frame /\ f # Newline.frame
    BY <1>2, SettledFrame
  <2>2. ASSUME NEW r \in Range(w) PROVE r.frame # f
    <3>1. PICK k \in 1 .. Len(w) : r = w[k]
      BY <1>3 DEF Range
    <3>2. w[k] = buffer[k] \/ w[k].frame = task.frame
      BY <1>1, WritesItems
    <3>3. k \in 1 .. Len(buffer)
      BY <1>3
    <3>4. w[k] = Newline \/ w[k].frame = task.frame
      BY <1>1, <3>2, <3>3 DEF StreamInv
    <3>. QED
      BY <2>1, <3>1, <3>4
  <2>3. \/ \A s \in Range(remembered) : s.frame = f => s \in Range(log)
        \/ CutOf(f)
        \/ \A r \in Range(log) : r.frame # f
    BY DEF WholeInv
  <2>. QED
    BY <1>2, <1>3, <2>2, <2>3
<1>14. CASE settled' = settled
  BY <1>2, <1>6, <1>7, <1>8, <1>12, <1>13, <1>14 DEF WholeInv
<1>15. CASE pc' = "loop" /\ settled' = Append(settled, task.frame)
  <2>1. Range(settled') = Range(settled) \cup {task.frame}
    <3>1. task.frame \in Frames
      BY <1>1, <1>2, WorkingTask
    <3>. QED
      BY <1>1, <1>15, <3>1, AppendRange
  <2>2. \/ \A s \in Range(remembered) : s.frame = task.frame => s \in Range(log')
        \/ CutOf(task.frame)'
        \/ \A r \in Range(log') : r.frame # task.frame
    <3>1. CASE w = buffer
      <4>1. Range(log') = Written
        BY <1>3, <3>1 DEF Written
      <4>. QED
        BY <1>2, <1>11, <4>1
    <3>. QED
      BY <1>9, <3>1
  <2>3. \A f \in Range(settled') :
           \/ \A s \in Range(remembered) : s.frame = f => s \in Range(log')
           \/ CutOf(f)'
           \/ \A r \in Range(log') : r.frame # f
    <3>1. ASSUME NEW f, f = task.frame
          PROVE  \/ \A s \in Range(remembered) : s.frame = f => s \in Range(log')
                 \/ CutOf(f)'
                 \/ \A r \in Range(log') : r.frame # f
      BY <1>2, <2>2, <3>1
    <3>. QED
      BY <1>13, <2>1, <3>1
  <2>. QED
    BY <1>2, <1>6, <1>7, <1>8, <1>12, <2>3 DEF WholeInv
<1>. QED
  BY <1>14, <1>15 DEF Writes

LEMMA WholeStep ==
  ASSUME HeldInv, WholeInv, [Next]_vars
  PROVE  WholeInv'
<1>1. /\ TurnInv /\ StreamInv
      /\ settled \in Seq(Frames) /\ \A f \in Range(settled) : f \in Frames
      /\ ~up => settled = <<>> /\ remembered = <<>>
  BY DEF HeldInv, LogInv, KnownInv
<1>2. CASE WritingStep
  BY <1>2, WritingSteps, WholeWritten
<1>3. CASE Describe
  BY <1>3, WholeDescribed
<1>4. CASE EndLine
  BY <1>4, WholeEndLine
<1>5. CASE Exit \/ Crash
  <2>1. /\ settled' = <<>> /\ remembered' = <<>> /\ buffer' = <<>> /\ up' = FALSE /\ pc' = "loop"
    BY <1>5 DEF Exit, Crash, Forget
  <2>2. /\ Range(settled') = {} /\ Range(remembered') = {} /\ \A k \in 1 .. Len(buffer') : FALSE
    BY <2>1 DEF Range
  <2>. QED
    BY <2>1, <2>2 DEF WholeInv
<1>6. CASE Restart
  <2>1. /\ UNCHANGED <<settled, remembered, buffer, log, pc>> /\ ~up /\ run' = run + 1
    BY <1>6 DEF Restart, work, disk, history
  <2>2. /\ Range(settled') = {} /\ Range(remembered') = {} /\ pc' = "loop"
        /\ buffer = <<>> /\ Range(buffer') = {} /\ \A k \in 1 .. Len(buffer') : FALSE
    BY <1>1, <2>1 DEF Range, StreamInv, TurnInv
  <2>3. ASSUME NEW r \in Written', Whole(r) PROVE r.frame[1] # run'
    <3>1. r \in Range(log) /\ r \in Written
      BY <2>1, <2>2, <2>3 DEF Written
    <3>2. r \in RecordsOf(Frames)
      BY <1>1, <3>1 DEF StreamInv, Range
    <3>3. Described(r) /\ r.frame[1] \in Nat /\ run \in Nat
      BY <1>1, <2>3, <3>1, <3>2, EntryType DEF StreamInv, TurnInv
    <3>4. r.frame[1] <= run
      BY <1>1, <2>1, <2>2, <3>3 DEF Described, Finished
    <3>. QED
      BY <2>1, <3>3, <3>4
  <2>. QED
    BY <2>1, <2>2, <2>3 DEF WholeInv
<1>7. CASE OpenLog
  <2>1. /\ UNCHANGED <<log, buffer, cuts, run, up, task, remembered, settled>>
        /\ pc = "open" /\ pc' = "describe" /\ log_open' \in BOOLEAN
    BY <1>7 DEF OpenLog, disk, history
  <2>2. /\ \A r \in Written : r.frame # task.frame
        /\ \A s \in Range(remembered) : s.frame # task.frame
    BY <2>1, NothingYet
  <2>3. Written' = Written /\ \A f : CutOf(f) <=> CutOf(f)'
    BY <2>1 DEF Written, CutOf
  <2>. QED
    BY <2>1, <2>2, <2>3 DEF WholeInv
<1>8. CASE ImageFails
  <2>1. /\ UNCHANGED <<log, buffer, cuts, run, up, task, remembered>> /\ pc = "image" /\ Working
        /\ pc' = "loop" /\ settled' = Append(settled, task.frame)
    BY <1>8 DEF ImageFails, Settle, disk, work, Working
  <2>2. \A s \in Range(remembered) : s.frame # task.frame
    BY <2>1, NothingYet
  <2>3. Range(settled') = Range(settled) \cup {task.frame}
    <3>1. task.frame \in Frames
      BY <1>1, <2>1, WorkingTask
    <3>. QED
      BY <1>1, <2>1, <3>1, AppendRange
  <2>4. Written' = Written /\ \A f : CutOf(f) <=> CutOf(f)'
    BY <2>1 DEF Written, CutOf
  <2>. QED
    BY <2>1, <2>2, <2>3, <2>4 DEF WholeInv
<1>9. CASE /\ UNCHANGED <<log, cuts, run, up, remembered, settled, buffer>>
           /\ \/ pc' # "describe" /\ buffer = <<>>
              \/ UNCHANGED <<pc, task, log_open>>
  <2>1. Written' = Written /\ \A f : CutOf(f) <=> CutOf(f)'
    BY <1>9 DEF Written, CutOf
  <2>2. buffer = <<>> => \A k \in 1 .. Len(buffer') : FALSE
    BY <1>9
  <2>. QED
    BY <1>9, <2>1, <2>2 DEF WholeInv
<1>10. CASE Loop \/ Pop \/ PopNothing \/ WriteImage
  <2>1. /\ UNCHANGED <<log, cuts, run, up, remembered, settled, buffer>>
        /\ pc # "describe" /\ pc' # "describe"
    BY <1>10 DEF Loop, Pop, PopNothing, WriteImage, disk, work, history
  <2>. QED
    BY <1>1, <1>9, <2>1 DEF StreamInv
<1>11. CASE Stop \/ UNCHANGED vars
  BY <1>9, <1>11 DEF Stop, vars, disk, work, history
<1>12. ASSUME NEW n \in 0 .. MaxDetections, Submit(n)
       PROVE  UNCHANGED <<log, cuts, run, up, remembered, settled, buffer, pc, task, log_open>>
  BY <1>12 DEF Submit, work, disk
<1>. QED
  BY <1>2, <1>3, <1>4, <1>5, <1>6, <1>7, <1>8, <1>9, <1>10, <1>11, <1>12
  DEF Next, EventThread, WritingStep

\* A frame the thread is done with has all it remembered of it in the log, or
\* nothing, or the first of it because a write of the frame failed; and it has an
\* image exactly when anything is remembered of it.
THEOREM FramesWhole == Spec => []WholeFrames
<1>1. Init => HeldInv /\ ReportedInv /\ WholeInv
  <2>. SUFFICES ASSUME Init PROVE HeldInv /\ ReportedInv /\ WholeInv
    OBVIOUS
  <2>1. LogInv
    BY InitLog
  <2>2. RecentInv
    BY EventAssumption DEF Init, RecentInv, Trim
  <2>3. /\ images = {} /\ pc = "loop" /\ settled = <<>> /\ remembered = <<>>
        /\ log = <<>> /\ buffer = <<>>
    BY DEF Init
  <2>4. /\ Range(settled) = {} /\ Range(remembered) = {} /\ Range(log) = {}
        /\ Range(buffer) = {} /\ (\A k \in 1 .. Len(buffer) : FALSE)
        /\ settled \in Seq(Frames)
    BY <2>3 DEF Range
  <2>5. ImagesInv /\ KnownInv
    BY <2>3, <2>4 DEF ImagesInv, KnownInv
  <2>6. ReportedInv
    BY <2>3, <2>4 DEF ReportedInv
  <2>7. WholeInv
    BY <2>3, <2>4 DEF WholeInv, Written
  <2>. QED
    BY <2>1, <2>2, <2>5, <2>6, <2>7 DEF HeldInv
<1>2. HeldInv /\ [Next]_vars => HeldInv'
  <2>1. HeldInv => TurnInv /\ LogInv /\ RecentInv
    BY DEF HeldInv, LogInv
  <2>. QED
    BY <2>1, LogStep, RecentStep, ImagesStep, KnownStep DEF HeldInv
<1>3. HeldInv /\ ReportedInv /\ WholeInv /\ [Next]_vars => ReportedInv' /\ WholeInv'
  BY ReportedStep, WholeStep
<1>4. HeldInv /\ ReportedInv /\ WholeInv => WholeFrames
  <2>. SUFFICES ASSUME HeldInv, ReportedInv, WholeInv, NEW i \in DOMAIN settled
                PROVE  LET logged == {r \in Range(log) : Whole(r) /\ r.frame = settled[i]}
                           known == {r \in Range(remembered) : r.frame = settled[i]}
                       IN /\ \/ logged \in {known, {}}
                             \/ /\ \E c \in cuts : c.frame = settled[i]
                                /\ logged \subseteq known
                                /\ \A r \in logged, s \in known :
                                     s.detection < r.detection => s \in logged
                          /\ settled[i] \in images <=> known # {}
    BY DEF WholeFrames
  <2>. DEFINE f == settled[i]
              logged == {r \in Range(log) : Whole(r) /\ r.frame = f}
              known == {r \in Range(remembered) : r.frame = f}
  <2>1. f \in Range(settled)
    BY DEF Range
  <2>2. up /\ f[1] = run
    <3>1. settled # <<>>
      OBVIOUS
    <3>. QED
      BY <2>1, <3>1 DEF HeldInv, KnownInv
  <2>. HIDE DEF f
  <2>3. \A r \in known : Whole(r)
    BY DEF HeldInv, KnownInv
  <2>4. logged \subseteq known
    BY <2>2 DEF WholeInv, Written
  <2>5. \A r \in logged, s \in known : s.detection < r.detection => s \in logged
    BY <2>3 DEF WholeInv
  <2>6. \/ \A s \in known : s \in Range(log)
        \/ CutOf(f)
        \/ \A r \in Range(log) : r.frame # f
    BY <2>1 DEF WholeInv
  <2>7. logged \in {known, {}} \/ \E c \in cuts : c.frame = f
    BY <2>3, <2>4, <2>6 DEF CutOf
  <2>8. f \in images <=> known # {}
    BY <2>1 DEF ReportedInv
  <2>. QED
    BY <2>4, <2>5, <2>7, <2>8 DEF f
<1>. QED
  BY <1>1, <1>2, <1>3, <1>4, PTL DEF Spec
=============================================================================
