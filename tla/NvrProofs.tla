----------------------------- MODULE NvrProofs -----------------------------
(***************************************************************************)
(* Theorems about Nvr for every configuration file, every command line and *)
(* every set of clients: the configuration main runs with is the one the   *)
(* user wrote, and no thread that main joins outlives what it uses.        *)
(***************************************************************************)
EXTENDS Nvr, SequenceTheorems, TLAPS

-----------------------------------------------------------------------------
(* Objects and threads.                                                    *)

Objects == <<"detector", "events", "stats", "mqtt", "server", "pipeline">>
ObjectNames == {"detector", "events", "stats", "mqtt", "server", "pipeline"}

\* The objects exist in the order of their construction, and how many there
\* are is known from where main is, except while it unwinds.
ObjectsInv ==
  /\ alive \in Seq(ObjectNames) /\ Len(alive) <= 6
  /\ \A i \in 1 .. Len(alive) : alive[i] = Objects[i]
  /\ phase \in {"args", "open", "lines", "configured", "detector"} => Len(alive) = 0
  /\ phase = "events" => Len(alive) = 1
  /\ phase = "server" => Len(alive) = 2
  /\ phase = "pipeline" => Len(alive) = 5
  /\ phase \in {"poll", "joinPipeline", "joinEvents"} => Len(alive) = 6

\* The pipeline's threads run only until main has joined them, and those of the
\* events until main has joined them, after the pipeline's.
ThreadsInv ==
  /\ pipeline \in {"running", "stopping"} => phase \in {"poll", "joinPipeline"}
  /\ phase \in {"server", "pipeline", "poll", "joinPipeline"} /\ config[SaveEvents]
       => event_thread = "running"
  /\ event_thread \in {"running", "stopping"} =>
       phase \in {"server", "pipeline", "poll", "joinPipeline", "joinEvents"}

\* The server's thread has begun only if there is a server, and has ended when
\* the server's stop() has returned.
ServerInv ==
  /\ pc_server \notin {"starting", "ended"} => Len(alive) >= 5
  /\ pc_main = "stopped" => pc_server = "ended"

\* Which objects are alive, by how many.
LEMMA AliveObjects ==
  ASSUME ObjectsInv
  PROVE  /\ Len(alive) >= 2 => "events" \in Alive
         /\ Len(alive) >= 5 => {"events", "stats", "server"} \subseteq Alive
         /\ Len(alive) = 6 =>
              {"detector", "events", "stats", "mqtt", "server", "pipeline"} \subseteq Alive
         /\ "server" \in Alive => Len(alive) >= 5
<1>1. /\ Len(alive) \in Nat /\ DOMAIN alive = 1 .. Len(alive) /\ Len(alive) <= 6
      /\ \A i \in 1 .. Len(alive) : alive[i] = Objects[i]
  BY DEF ObjectsInv
<1>2. /\ Objects[1] = "detector" /\ Objects[2] = "events" /\ Objects[3] = "stats"
      /\ Objects[4] = "mqtt" /\ Objects[5] = "server" /\ Objects[6] = "pipeline"
  BY DEF Objects
<1>3. \A i \in 1 .. Len(alive) : Objects[i] \in Alive
  BY <1>1 DEF Alive
<1>4. "server" \in Alive => Len(alive) >= 5
  <2>. SUFFICES ASSUME NEW i \in 1 .. Len(alive), alive[i] = "server" PROVE Len(alive) >= 5
    BY <1>1 DEF Alive
  <2>. QED
    BY <1>1, <1>2
<1>. QED
  BY <1>1, <1>2, <1>3, <1>4

\* The objects that are added are the next ones.
LEMMA OneMoreObject ==
  ASSUME ObjectsInv, NEW o \in ObjectNames, Len(alive) < 6, o = Objects[Len(alive) + 1],
         alive' = Append(alive, o)
  PROVE  /\ alive' \in Seq(ObjectNames) /\ Len(alive') = Len(alive) + 1
         /\ \A i \in 1 .. Len(alive') : alive'[i] = Objects[i]
<1>1. /\ alive \in Seq(ObjectNames)
      /\ \A i \in 1 .. Len(alive) : alive[i] = Objects[i]
  BY DEF ObjectsInv
<1>. QED
  BY <1>1

LEMMA ThreeMoreObjects ==
  ASSUME ObjectsInv, Len(alive) = 2, alive' = alive \o <<"stats", "mqtt", "server">>
  PROVE  /\ alive' \in Seq(ObjectNames) /\ Len(alive') = 5
         /\ \A i \in 1 .. Len(alive') : alive'[i] = Objects[i]
<1>. DEFINE more == <<"stats", "mqtt", "server">>
<1>1. /\ alive \in Seq(ObjectNames)
      /\ \A i \in 1 .. Len(alive) : alive[i] = Objects[i]
  BY DEF ObjectsInv
<1>2. {"stats", "mqtt", "server"} \subseteq ObjectNames
  BY DEF ObjectNames
<1>3. /\ more \in Seq(ObjectNames) /\ Len(more) = 3
      /\ more[1] = "stats" /\ more[2] = "mqtt" /\ more[3] = "server"
  BY <1>2
<1>. HIDE DEF more
<1>4. alive' = alive \o more
  BY DEF more
<1>5. /\ alive' \in Seq(ObjectNames) /\ Len(alive') = Len(alive) + Len(more)
      /\ \A i \in 1 .. Len(alive) + Len(more) :
           alive'[i] = IF i <= Len(alive) THEN alive[i] ELSE more[i - Len(alive)]
  BY <1>1, <1>3, <1>4, ConcatProperties
<1>6. /\ alive' \in Seq(ObjectNames) /\ Len(alive') = 5
      /\ \A i \in 1 .. 5 : alive'[i] = IF i <= 2 THEN alive[i] ELSE more[i - 2]
  BY <1>3, <1>5
<1>7. alive'[3] = "stats" /\ alive'[4] = "mqtt" /\ alive'[5] = "server"
  BY <1>3, <1>6
<1>8. Objects[3] = "stats" /\ Objects[4] = "mqtt" /\ Objects[5] = "server"
  BY DEF Objects
<1>9. \A i \in 1 .. 2 : alive'[i] = Objects[i]
  BY <1>1, <1>6
<1>. QED
  BY <1>6, <1>7, <1>8, <1>9

LEMMA OneObjectLess ==
  ASSUME ObjectsInv, alive # <<>>, alive' = SubSeq(alive, 1, Len(alive) - 1)
  PROVE  /\ alive' \in Seq(ObjectNames) /\ Len(alive') = Len(alive) - 1
         /\ \A i \in 1 .. Len(alive') : alive'[i] = Objects[i]
<1>1. /\ alive \in Seq(ObjectNames) /\ Len(alive) \in Nat /\ Len(alive) # 0
      /\ \A i \in 1 .. Len(alive) : alive[i] = Objects[i]
  BY DEF ObjectsInv
<1>2. ASSUME NEW q \in Seq(ObjectNames), NEW n \in Nat, n = Len(q), n # 0
      PROVE  /\ SubSeq(q, 1, n - 1) \in Seq(ObjectNames) /\ Len(SubSeq(q, 1, n - 1)) = n - 1
             /\ \A i \in 1 .. n - 1 : SubSeq(q, 1, n - 1)[i] = q[i]
  BY <1>2
<1>3. /\ alive' \in Seq(ObjectNames) /\ Len(alive') = Len(alive) - 1
      /\ \A i \in 1 .. Len(alive) - 1 : alive'[i] = alive[i]
  BY <1>1, <1>2
<1>. QED
  BY <1>1, <1>3

LEMMA ObjectsStep == ASSUME ObjectsInv, [NvrNext]_nvrVars PROVE ObjectsInv'
<1>1. CASE UNCHANGED <<phase, alive>>
  BY <1>1 DEF ObjectsInv
<1>2. CASE MainStep
  <2>1. CASE \/ ReadArgs \/ ArgsEnd \/ OpenConfig \/ ReadConfig \/ LoadClasses
    BY <2>1 DEF ReadArgs, ArgsEnd, OpenConfig, ReadConfig, LoadClasses, Goto, Return,
       mainVars, ObjectsInv
  <2>2. CASE InitDetector
    <3>1. /\ phase = "detector" /\ phase' \in {"events", "unwind"}
          /\ alive' = Append(alive, "detector")
      BY <2>2 DEF InitDetector, Goto, Return
    <3>2. Len(alive) = 0 /\ Objects[1] = "detector"
      BY <3>1 DEF ObjectsInv, Objects
    <3>. QED
      BY <3>1, <3>2, OneMoreObject DEF ObjectsInv, ObjectNames
  <2>3. CASE StartEvents
    <3>1. /\ phase = "events" /\ phase' \in {"server", "unwind"}
          /\ alive' = Append(alive, "events")
      BY <2>3 DEF StartEvents, Return
    <3>2. Len(alive) = 1 /\ Objects[2] = "events"
      BY <3>1 DEF ObjectsInv, Objects
    <3>. QED
      BY <3>1, <3>2, OneMoreObject DEF ObjectsInv, ObjectNames
  <2>4. CASE StartServer
    BY <2>4, ThreeMoreObjects DEF StartServer, Goto, ObjectsInv
  <2>5. CASE StartPipeline
    <3>1. /\ phase = "pipeline" /\ phase' = "poll"
          /\ alive' = Append(alive, "pipeline")
      BY <2>5 DEF StartPipeline
    <3>2. Len(alive) = 5 /\ Objects[6] = "pipeline"
      BY <3>1 DEF ObjectsInv, Objects
    <3>. QED
      BY <3>1, <3>2, OneMoreObject DEF ObjectsInv, ObjectNames
  <2>6. CASE Poll \/ JoinPipeline \/ JoinEvents
    BY <2>6 DEF Poll, JoinPipeline, JoinEvents, Return, ObjectsInv
  <2>7. CASE Destroy
    <3>1. phase' = "unwind" /\ alive # <<>> /\ alive' = SubSeq(alive, 1, Len(alive) - 1)
      BY <2>7 DEF Destroy
    <3>. QED
      BY <3>1, OneObjectLess DEF ObjectsInv
  <2>. QED
    BY <1>2, <2>1, <2>2, <2>3, <2>4, <2>5, <2>6, <2>7 DEF MainStep
<1>3. CASE Exit
  BY <1>3 DEF Exit, ObjectsInv
<1>4. StopServer \/ Signal \/ SourceEnds \/ PipelineEnds \/ EventThreadEnds \/ Serve
        \/ Render \/ UNCHANGED nvrVars => UNCHANGED <<phase, alive>>
  BY DEF StopServer, Signal, SourceEnds, PipelineEnds, EventThreadEnds, Serve, Render,
     mainVars, nvrVars
<1>5. ASSUME NEW c \in Clients, StreamTo(c) \/ ClientStep(c) PROVE UNCHANGED <<phase, alive>>
  BY <1>5 DEF StreamTo, ClientStep, mainVars
<1>. QED
  BY <1>1, <1>2, <1>3, <1>4, <1>5 DEF NvrNext

LEMMA ThreadsStep == ASSUME ThreadsInv, [NvrNext]_nvrVars PROVE ThreadsInv'
<1>1. CASE UNCHANGED <<phase, config, pipeline, event_thread>>
  BY <1>1 DEF ThreadsInv
<1>2. CASE MainStep
  <2>1. CASE ReadArgs \/ ReadConfig
    BY <2>1 DEF ReadArgs, ReadConfig, Goto, mainVars, ThreadsInv
  <2>2. CASE ArgsEnd \/ OpenConfig \/ LoadClasses \/ InitDetector
    BY <2>2 DEF ArgsEnd, OpenConfig, LoadClasses, InitDetector, Goto, Return, ThreadsInv
  <2>3. CASE StartEvents
    BY <2>3 DEF StartEvents, Return, configVars, ThreadsInv
  <2>4. CASE StartServer \/ StartPipeline
    BY <2>4 DEF StartServer, StartPipeline, Goto, configVars, ThreadsInv
  <2>5. CASE Poll \/ JoinPipeline \/ JoinEvents
    BY <2>5 DEF Poll, JoinPipeline, JoinEvents, Return, configVars, ThreadsInv
  <2>6. CASE Destroy
    BY <2>6 DEF Destroy, configVars, ThreadsInv
  <2>. QED
    BY <1>2, <2>1, <2>2, <2>3, <2>4, <2>5, <2>6 DEF MainStep
<1>3. CASE Exit
  BY <1>3 DEF Exit, configVars, ThreadsInv
<1>4. CASE SourceEnds \/ PipelineEnds
  BY <1>4 DEF SourceEnds, PipelineEnds, configVars, ThreadsInv
<1>5. CASE EventThreadEnds
  BY <1>5 DEF EventThreadEnds, configVars, ThreadsInv
<1>6. StopServer \/ Signal \/ Serve \/ Render \/ UNCHANGED nvrVars
        => UNCHANGED <<phase, config, pipeline, event_thread>>
  BY DEF StopServer, Signal, Serve, Render, configVars, mainVars, nvrVars
<1>7. ASSUME NEW c \in Clients, StreamTo(c) \/ ClientStep(c)
      PROVE  UNCHANGED <<phase, config, pipeline, event_thread>>
  BY <1>7 DEF StreamTo, ClientStep, configVars, mainVars
<1>. QED
  BY <1>1, <1>2, <1>3, <1>4, <1>5, <1>6, <1>7 DEF NvrNext

LEMMA ServerStep == ASSUME ObjectsInv, ServerInv, [NvrNext]_nvrVars PROVE ServerInv'
<1>1. /\ Len(alive) \in Nat /\ Len(alive) <= 6
      /\ "server" \in Alive => Len(alive) >= 5
  BY AliveObjects DEF ObjectsInv
<1>2. CASE UNCHANGED <<alive, pc_server, pc_main>>
  BY <1>2 DEF ServerInv
<1>3. CASE MainStep
  <2>1. UNCHANGED <<pc_server, pc_main>>
    BY <1>3 DEF MainStep, vars
  <2>2. CASE ReadArgs \/ ArgsEnd \/ OpenConfig \/ ReadConfig \/ LoadClasses \/ Poll
               \/ JoinPipeline \/ JoinEvents
    <3>1. UNCHANGED alive
      BY <2>2 DEF ReadArgs, ArgsEnd, OpenConfig, ReadConfig, LoadClasses, Poll,
         JoinPipeline, JoinEvents, mainVars
    <3>. QED
      BY <1>2, <2>1, <3>1
  <2>3. CASE InitDetector \/ StartEvents \/ StartServer \/ StartPipeline
    <3>1. /\ alive \in Seq(ObjectNames)
          /\ \/ \E o \in {"detector", "events", "pipeline"} : alive' = Append(alive, o)
             \/ alive' = alive \o <<"stats", "mqtt", "server">>
      BY <2>3 DEF InitDetector, StartEvents, StartServer, StartPipeline, ObjectsInv
    <3>2. Len(alive') \in Nat /\ Len(alive') >= Len(alive)
      BY <1>1, <3>1
    <3>. QED
      BY <1>1, <2>1, <3>2 DEF ServerInv
  <2>4. CASE Destroy
    <3>1. /\ alive # <<>> /\ alive' = SubSeq(alive, 1, Len(alive) - 1)
          /\ alive[Len(alive)] = "server" => pc_main = "stopped"
      BY <2>4 DEF Destroy
    <3>2. Len(alive') = Len(alive) - 1
      BY <3>1, OneObjectLess
    <3>3. CASE Len(alive) = 5
      <4>1. alive[5] = "server"
        BY <3>3 DEF ObjectsInv, Objects
      <4>. QED
        BY <2>1, <3>1, <3>3, <4>1 DEF ServerInv
    <3>4. CASE Len(alive) # 5
      BY <1>1, <2>1, <3>2, <3>4 DEF ServerInv
    <3>. QED
      BY <3>3, <3>4
  <2>. QED
    BY <1>3, <2>2, <2>3, <2>4 DEF MainStep
<1>4. CASE StopServer
  BY <1>4 DEF StopServer, StopStore, Stopping, StopShutdown, StopClose, Join, mainVars, ServerInv
<1>5. CASE Exit
  BY <1>1, <1>5 DEF Exit, ServerInv
<1>6. CASE Serve
  BY <1>1, <1>6 DEF Serve, ServerThread, ListenStart, OpenSocket, BindAndListen, AcceptLoop,
     EnterAccept, AcceptFails, Accept, mainVars, ServerInv
<1>7. Signal \/ SourceEnds \/ PipelineEnds \/ EventThreadEnds \/ Render \/ UNCHANGED nvrVars
        => UNCHANGED <<alive, pc_server, pc_main>>
  BY DEF Signal, SourceEnds, PipelineEnds, EventThreadEnds, Render, UpdateFrame, mainVars,
     vars, nvrVars
<1>8. ASSUME NEW c \in Clients, StreamTo(c) \/ ClientStep(c)
      PROVE  UNCHANGED <<alive, pc_server, pc_main>>
  BY <1>8 DEF StreamTo, ClientStep, Stream, Connect, Request, SendFails, mainVars
<1>. QED
  BY <1>2, <1>3, <1>4, <1>5, <1>6, <1>7, <1>8 DEF NvrNext

LEMMA ObjectsHold == NvrSpec => [](ObjectsInv /\ ThreadsInv /\ ServerInv)
<1>1. NvrInit => ObjectsInv /\ ThreadsInv /\ ServerInv
  BY DEF NvrInit, Init, ObjectsInv, ThreadsInv, ServerInv
<1>. QED
  BY <1>1, ObjectsStep, ThreadsStep, ServerStep, PTL DEF NvrSpec

\* No thread that main joins runs on objects that are gone, whichever way main
\* returns and whenever it is told to stop.
THEOREM ThreadsEndFirst == NvrSpec => []ObjectsOutliveThreads
<1>1. ObjectsInv /\ ThreadsInv /\ ServerInv => ObjectsOutliveThreads
  <2>. SUFFICES ASSUME ObjectsInv, ThreadsInv, ServerInv PROVE ObjectsOutliveThreads
    OBVIOUS
  <2>1. Len(alive) \in Nat
    BY DEF ObjectsInv
  <2>2. event_thread \in {"running", "stopping"} => Len(alive) >= 2
    BY <2>1 DEF ObjectsInv, ThreadsInv
  <2>3. pipeline \in {"running", "stopping"} => Len(alive) = 6
    BY DEF ObjectsInv, ThreadsInv
  <2>. QED
    BY <2>2, <2>3, AliveObjects DEF ThreadsInv, ServerInv, ObjectsOutliveThreads
<1>. QED
  BY <1>1, ObjectsHold, PTL

-----------------------------------------------------------------------------
(* The configuration.                                                      *)

Earlier(places, n) == {i \in places : i < n}

\* What parseArgs has made of the options before arg.
OptionsInv ==
  /\ DOMAIN options = {"mock", "config_path", "port"} /\ options.mock \in BOOLEAN
  /\ options.mock <=> Earlier(Given("--mock"), arg) # {}
  /\ Earlier(Given("--help"), arg) = {}
  /\ \A i \in Earlier(Given("--port"), arg) :
       i + 1 \in DOMAIN argv /\ argv[i + 1] \in DOMAIN IntValue
  /\ Earlier(Given("--port"), arg) = {} => options.port = 0
  /\ Earlier(Given("--port"), arg) # {} =>
       \E last \in Earlier(Given("--port"), arg) :
         /\ \A i \in Earlier(Given("--port"), arg) : i <= last
         /\ options.port = IntValue[argv[last + 1]]

ArgsInv ==
  /\ argv \in Seq(STRING) /\ arg \in Nat \ {0} /\ parsed \in {"ok", "help", "throws"}
  /\ arg \in DOMAIN argv /\ parsed = "ok" => arg \in OptionPlaces
  /\ parsed = "ok" => OptionsInv
  /\ parsed = "throws" => CommandLine = "throws"
  /\ phase \in {"open", "lines"} => parsed = "ok" /\ arg \notin DOMAIN argv

\* section is the name of the last header that has been read.
SectionInv ==
  \/ section = "" /\ \A j \in 1 .. line - 1 : ~IsHeader(file[j])
  \/ \E j \in 1 .. line - 1 :
       /\ IsHeader(file[j]) /\ section = file[j].name
       /\ \A k \in j + 1 .. line - 1 : ~IsHeader(file[k])

\* A key has the value of the last line so far that sets it.
SettingInv(key) ==
  /\ Earlier(LinesFor(key), line) = {} => config[key] = Default[key]
  /\ Earlier(LinesFor(key), line) # {} =>
       \E last \in Earlier(LinesFor(key), line) :
         /\ \A i \in Earlier(LinesFor(key), line) : i <= last
         /\ config[key] = Stored(key, Meant(key, last))

FileInv ==
  /\ file \in Seq(FileLine) /\ line \in Nat \ {0} /\ line <= Len(file) + 1
  /\ DOMAIN config = Keys
  /\ SectionInv
  /\ KeysHaveValues => \A key \in Keys : SettingInv(key)

ReadingInv ==
  /\ phase \in {"args", "open", "lines"} => ArgsInv /\ FileInv
  /\ exit_code = 134 => phase = "exited"

\* The operators that say what the user wrote.
LEMMA LatestIs ==
  ASSUME NEW places \in SUBSET Int, NEW last \in places, \A i \in places : i <= last
  PROVE  Latest(places) = last
<1>1. \A i \in places : (\A j \in places : j <= i) => i = last
  OBVIOUS
<1>. QED
  BY <1>1 DEF Latest

\* Clamping takes the nearest number of the range.
LEMMA NearestIsClamp == ASSUME NEW n \in Int PROVE Nearest(1, 3, n) = Clamp(n)
<1>. DEFINE Far(m) == (m - n) * (m - n)
            Near(m) == \A k \in 1 .. 3 : Far(m) <= Far(k)
            square == n * n
<1>1. /\ Far(1) = square - 2 * n + 1 /\ Far(2) = square - 4 * n + 4
      /\ Far(3) = square - 6 * n + 9 /\ square \in Int
  OBVIOUS
<1>. HIDE DEF Far, square
<1>2. \A m : Near(m) <=> Far(m) <= Far(1) /\ Far(m) <= Far(2) /\ Far(m) <= Far(3)
  <2>1. 1 .. 3 = {1, 2, 3}
    OBVIOUS
  <2>. QED
    BY <2>1
<1>. HIDE DEF Near
<1>3. /\ Near(1) <=> 1 = Clamp(n)
      /\ Near(2) <=> 2 = Clamp(n)
      /\ Near(3) <=> 3 = Clamp(n)
  BY <1>1, <1>2 DEF Clamp
<1>4. \A m \in 1 .. 3 : Near(m) <=> m = Clamp(n)
  <2>1. 1 .. 3 = {1, 2, 3}
    OBVIOUS
  <2>. QED
    BY <1>3, <2>1
<1>5. Clamp(n) \in 1 .. 3
  BY DEF Clamp
<1>6. (CHOOSE m \in 1 .. 3 : Near(m)) = Clamp(n)
  BY <1>4, <1>5
<1>. QED
  BY <1>6 DEF Nearest, Near, Far

\* Which words of the command line are options, from one to the next.
LEMMA FirstPlace == ASSUME argv \in Seq(STRING), 1 \in DOMAIN argv PROVE 1 \in OptionPlaces
  BY DEF OptionPlaces

LEMMA PlaceAfterOption ==
  ASSUME argv \in Seq(STRING), NEW i \in OptionPlaces, argv[i] \notin ValueOptions,
         i + 1 \in DOMAIN argv
  PROVE  i + 1 \in OptionPlaces
<1>1. i \in Nat \ {0} /\ i + 1 \in 1 .. i + 1 /\ (i + 1) - (i + 1) = 0
  BY DEF OptionPlaces
<1>2. argv[(i + 1) - 1] \notin ValueOptions
  BY <1>1
<1>. QED
  BY <1>1, <1>2 DEF OptionPlaces

LEMMA PlaceAfterValue ==
  ASSUME argv \in Seq(STRING), NEW i \in OptionPlaces, argv[i] \in ValueOptions
  PROVE  /\ i + 1 \notin OptionPlaces
         /\ i + 2 \in DOMAIN argv => i + 2 \in OptionPlaces
<1>1. i \in DOMAIN argv /\ i \in Nat \ {0}
  BY DEF OptionPlaces
<1>2. PICK first \in 1 .. i :
        /\ (i - first) % 2 = 0
        /\ \A k \in first .. i - 1 : argv[k] \in ValueOptions
        /\ first > 1 => argv[first - 1] \notin ValueOptions
  BY DEF OptionPlaces
<1>3. \A k \in first .. i : argv[k] \in ValueOptions
  BY <1>1, <1>2
<1>4. i + 1 \notin OptionPlaces
  <2>. SUFFICES ASSUME NEW other \in 1 .. i + 1,
                       ((i + 1) - other) % 2 = 0,
                       \A k \in other .. (i + 1) - 1 : argv[k] \in ValueOptions,
                       other > 1 => argv[other - 1] \notin ValueOptions
                PROVE  FALSE
    BY DEF OptionPlaces
  <2>1. CASE other < first
    BY <1>1, <1>2, <2>1
  <2>2. CASE other > first
    BY <1>1, <1>2, <1>3, <2>2
  <2>3. CASE other = first
    <3>1. ASSUME NEW x \in Nat, x % 2 = 0 PROVE (x + 1) % 2 = 1
      BY <3>1
    <3>2. i - first \in Nat /\ (i + 1) - other = (i - first) + 1
      BY <1>1, <2>3
    <3>3. ((i + 1) - other) % 2 = 1
      BY <1>2, <3>1, <3>2
    <3>. QED
      BY <3>3
  <2>. QED
    BY <2>1, <2>2, <2>3
<1>5. ASSUME i + 2 \in DOMAIN argv PROVE i + 2 \in OptionPlaces
  <2>1. CASE argv[i + 1] \in ValueOptions
    <3>1. first \in 1 .. i + 2 /\ ((i + 2) - first) % 2 = 0
      BY <1>1, <1>2
    <3>2. \A k \in first .. (i + 2) - 1 : argv[k] \in ValueOptions
      BY <1>1, <1>3, <2>1
    <3>. QED
      BY <1>2, <1>5, <3>1, <3>2 DEF OptionPlaces
  <2>2. CASE argv[i + 1] \notin ValueOptions
    <3>1. i + 2 \in 1 .. i + 2 /\ (i + 2) - (i + 2) = 0 /\ (i + 2) - 1 = i + 1
      BY <1>1
    <3>. QED
      BY <1>5, <2>2, <3>1 DEF OptionPlaces
  <2>. QED
    BY <2>1, <2>2
<1>. QED
  BY <1>4, <1>5

\* parseArgs moves from one option to the next and passes no other.
LEMMA PlacesPassed ==
  ASSUME argv \in Seq(STRING), arg \in OptionPlaces, NEW option, NEW next,
         next = IF argv[arg] \in ValueOptions THEN arg + 2 ELSE arg + 1
  PROVE  /\ next \in Nat \ {0} /\ next \in DOMAIN argv => next \in OptionPlaces
         /\ Earlier(Given(option), next) =
              Earlier(Given(option), arg) \cup (IF argv[arg] = option THEN {arg} ELSE {})
<1>1. arg \in DOMAIN argv /\ arg \in Nat \ {0} /\ OptionPlaces \subseteq Nat
  BY DEF OptionPlaces
<1>2. CASE argv[arg] \in ValueOptions
  <2>1. arg + 1 \notin OptionPlaces /\ (arg + 2 \in DOMAIN argv => arg + 2 \in OptionPlaces)
    BY <1>2, PlaceAfterValue
  <2>2. \A i \in OptionPlaces : i < arg + 2 <=> i < arg \/ i = arg
    BY <1>1, <2>1
  <2>. QED
    BY <1>1, <1>2, <2>1, <2>2 DEF Earlier, Given
<1>3. CASE argv[arg] \notin ValueOptions
  <2>1. arg + 1 \in DOMAIN argv => arg + 1 \in OptionPlaces
    BY <1>3, PlaceAfterOption
  <2>2. \A i \in OptionPlaces : i < arg + 1 <=> i < arg \/ i = arg
    BY <1>1
  <2>. QED
    BY <1>1, <1>3, <2>1, <2>2 DEF Earlier, Given
<1>. QED
  BY <1>2, <1>3

\* A --port without a number ends the program if parseArgs comes to it.
LEMMA FirstEnd ==
  ASSUME argv \in Seq(STRING), OptionsInv, arg \in BadPorts
  PROVE  CommandLine = "throws"
<1>1. OptionPlaces \subseteq Nat /\ arg \in Nat
  BY DEF OptionPlaces, BadPorts, Given
<1>2. ASSUME NEW j \in BadPorts \cup Given("--help") PROVE arg <= j
  <2>1. j \in Nat
    BY <1>1 DEF BadPorts, Given
  <2>2. ~(j < arg)
    BY DEF OptionsInv, Earlier, BadPorts
  <2>. QED
    BY <1>1, <2>1, <2>2
<1>. QED
  BY <1>2 DEF CommandLine

LEMMA ParseArgStep ==
  ASSUME ArgsInv, phase = "args", phase' = "args", ParseArg
  PROVE  ArgsInv'
<1>1. /\ argv \in Seq(STRING) /\ arg \in DOMAIN argv /\ parsed = "ok"
      /\ arg \in OptionPlaces /\ OptionsInv
  BY DEF ParseArg, ParseMock, ParseConfigPath, ParsePort, ParseHelp, ParseUnknown, Parsing,
     ArgsInv
<1>2. /\ argv' = argv
      /\ Given("--mock")' = Given("--mock") /\ Given("--port")' = Given("--port")
      /\ Given("--help")' = Given("--help") /\ CommandLine' = CommandLine
  BY DEF ParseArg, Given, OptionPlaces, CommandLine, BadPorts
<1>. DEFINE next == IF argv[arg] \in ValueOptions THEN arg + 2 ELSE arg + 1
            mocks == Earlier(Given("--mock"), arg)
            ports == Earlier(Given("--port"), arg)
            helps == Earlier(Given("--help"), arg)
<1>3. /\ next \in Nat \ {0} /\ (next \in DOMAIN argv => next \in OptionPlaces)
      /\ Earlier(Given("--mock"), next) = mocks \cup (IF argv[arg] = "--mock" THEN {arg} ELSE {})
      /\ Earlier(Given("--port"), next) = ports \cup (IF argv[arg] = "--port" THEN {arg} ELSE {})
      /\ Earlier(Given("--help"), next) = helps \cup (IF argv[arg] = "--help" THEN {arg} ELSE {})
  BY <1>1, PlacesPassed
<1>4. /\ ports \subseteq Nat /\ \A i \in ports : i < arg
      /\ arg \in Nat
  BY <1>1 DEF Earlier, Given, OptionPlaces
<1>5. arg' = next /\ OptionsInv' /\ parsed' = "ok" => ArgsInv'
  <2>1. OptionPlaces' = OptionPlaces
    BY <1>2 DEF OptionPlaces
  <2>. QED
    BY <1>1, <1>2, <1>3, <2>1 DEF ArgsInv
<1>6. parsed' \in {"help", "throws"} /\ arg' \in Nat \ {0}
        /\ (parsed' = "throws" => CommandLine = "throws") => ArgsInv'
  BY <1>1, <1>2 DEF ArgsInv
<1>7. CASE ParseMock
  <2>1. /\ argv[arg] = "--mock" /\ arg' = arg + 1 /\ parsed' = "ok"
        /\ options' = [options EXCEPT !.mock = TRUE]
    BY <1>1, <1>7 DEF ParseMock
  <2>2. next = arg + 1
    BY <2>1 DEF ValueOptions
  <2>3. /\ Earlier(Given("--mock"), arg)' # {}
        /\ Earlier(Given("--port"), arg)' = ports
        /\ Earlier(Given("--help"), arg)' = {}
    BY <1>1, <1>2, <1>3, <2>1, <2>2 DEF Earlier, OptionsInv
  <2>4. /\ DOMAIN options' = {"mock", "config_path", "port"} /\ options'.mock = TRUE
        /\ options'.port = options.port
    BY <1>1, <2>1 DEF OptionsInv
  <2>. QED
    BY <1>1, <1>2, <1>5, <2>1, <2>2, <2>3, <2>4 DEF OptionsInv
<1>8. CASE ParseConfigPath
  <2>1. /\ argv[arg] = "--config" /\ arg' = arg + 2 /\ parsed' = "ok"
        /\ options' = [options EXCEPT !.config_path = NextArg]
    BY <1>1, <1>8 DEF ParseConfigPath
  <2>2. next = arg + 2
    BY <2>1 DEF ValueOptions
  <2>3. /\ Earlier(Given("--mock"), arg)' = mocks
        /\ Earlier(Given("--port"), arg)' = ports
        /\ Earlier(Given("--help"), arg)' = {}
    BY <1>1, <1>2, <1>3, <2>1, <2>2 DEF Earlier, OptionsInv
  <2>4. /\ DOMAIN options' = {"mock", "config_path", "port"} /\ options'.mock = options.mock
        /\ options'.port = options.port
    BY <1>1, <2>1 DEF OptionsInv
  <2>. QED
    BY <1>1, <1>2, <1>5, <2>1, <2>2, <2>3, <2>4 DEF OptionsInv
<1>9. CASE ParsePort
  <2>1. argv[arg] = "--port" /\ arg' = arg + 2
    BY <1>9 DEF ParsePort
  <2>2. next = arg + 2
    BY <2>1 DEF ValueOptions
  <2>3. CASE NextArg \notin DOMAIN IntValue
    <3>1. arg \in Given("--port")
      BY <1>1, <2>1 DEF Given
    <3>2. arg \in BadPorts
      BY <2>3, <3>1 DEF BadPorts, NextArg
    <3>3. CommandLine = "throws"
      BY <1>1, <3>2, FirstEnd
    <3>. QED
      BY <1>6, <1>9, <1>3, <2>1, <2>2, <2>3, <3>3 DEF ParsePort
  <2>4. CASE NextArg \in DOMAIN IntValue
    <3>1. NextArg = argv[arg + 1] /\ arg + 1 \in DOMAIN argv
      BY <2>4, ConfigAssumption DEF NextArg
    <3>2. parsed' = "ok" /\ options' = [options EXCEPT !.port = IntValue[NextArg]]
      BY <1>1, <1>9, <2>4 DEF ParsePort
    <3>3. /\ Earlier(Given("--mock"), arg)' = mocks
          /\ Earlier(Given("--port"), arg)' = ports \cup {arg}
          /\ Earlier(Given("--help"), arg)' = {}
      BY <1>1, <1>2, <1>3, <2>1, <2>2 DEF Earlier, OptionsInv
    <3>4. /\ DOMAIN options' = {"mock", "config_path", "port"} /\ options'.mock = options.mock
          /\ options'.port = IntValue[argv[arg + 1]]
      BY <1>1, <3>1, <3>2 DEF OptionsInv
    <3>5. \A i \in ports \cup {arg} : i <= arg
      BY <1>4
    <3>. QED
      BY <1>1, <1>2, <1>5, <2>1, <2>2, <2>4, <3>1, <3>2, <3>3, <3>4, <3>5 DEF OptionsInv
  <2>. QED
    BY <2>3, <2>4
<1>10. CASE ParseHelp
  BY <1>1, <1>4, <1>6, <1>10 DEF ParseHelp
<1>11. CASE ParseUnknown
  <2>1. /\ argv[arg] \notin {"--mock", "--config", "--port", "--help"} /\ arg' = arg + 1
        /\ UNCHANGED options /\ parsed' = "ok"
    BY <1>1, <1>11 DEF ParseUnknown
  <2>2. next = arg + 1
    BY <2>1 DEF ValueOptions
  <2>3. /\ Earlier(Given("--mock"), arg)' = mocks
        /\ Earlier(Given("--port"), arg)' = ports
        /\ Earlier(Given("--help"), arg)' = {}
    BY <1>1, <1>2, <1>3, <2>1, <2>2 DEF Earlier, OptionsInv
  <2>. QED
    BY <1>1, <1>2, <1>5, <2>1, <2>2, <2>3 DEF OptionsInv
<1>. QED
  BY <1>7, <1>8, <1>9, <1>10, <1>11 DEF ParseArg

\* When every word has been read, the options are those that were given.
LEMMA OptionsAsGiven ==
  ASSUME ArgsInv, phase = "lines"
  PROVE  /\ options.mock <=> Given("--mock") # {}
         /\ options.port = PortAsked
         /\ CommandLine = "ok"
<1>1. /\ argv \in Seq(STRING) /\ arg \in Nat \ {0} /\ arg \notin DOMAIN argv /\ OptionsInv
  BY DEF ArgsInv
<1>2. \A i \in OptionPlaces : i < arg
  BY <1>1 DEF OptionPlaces
<1>3. /\ Earlier(Given("--mock"), arg) = Given("--mock")
      /\ Earlier(Given("--port"), arg) = Given("--port")
      /\ Earlier(Given("--help"), arg) = Given("--help")
      /\ Given("--port") \in SUBSET Int
  BY <1>1, <1>2 DEF Earlier, Given, OptionPlaces
<1>4. (options.mock <=> Given("--mock") # {}) /\ CommandLine = "ok"
  <2>1. BadPorts = {} /\ Given("--help") = {}
    BY <1>1, <1>3 DEF OptionsInv, BadPorts
  <2>. QED
    BY <1>1, <1>3, <2>1 DEF OptionsInv, CommandLine
<1>5. CASE Given("--port") = {}
  BY <1>1, <1>3, <1>4, <1>5 DEF OptionsInv, PortAsked
<1>6. CASE Given("--port") # {}
  <2>1. PICK last \in Given("--port") :
          /\ \A i \in Given("--port") : i <= last
          /\ options.port = IntValue[argv[last + 1]]
    BY <1>1, <1>3, <1>6 DEF OptionsInv
  <2>2. Latest(Given("--port")) = last
    BY <1>3, <2>1, LatestIs
  <2>. QED
    BY <1>1, <1>3, <1>4, <1>6, <2>1, <2>2 DEF OptionsInv, PortAsked
<1>. QED
  BY <1>5, <1>6

LEMMA KeyParts ==
  ASSUME NEW key \in Keys
  PROVE  /\ key[1] # "" /\ key[1] \in {"app", "runtime"}
         /\ \A a, b : <<a, b>> = key <=> a = key[1] /\ b = key[2]
<1>1. key \in {SaveEvents, UseRknn, WebPort, NumWorkers}
  BY DEF Keys, Bools
<1>2. key[1] \in {"app", "runtime"} /\ key = <<key[1], key[2]>>
  BY <1>1 DEF SaveEvents, UseRknn, WebPort, NumWorkers
<1>3. PICK c, d : c = key[1] /\ d = key[2] /\ key = <<c, d>>
  BY <1>2
<1>4. \A a, b : <<a, b>> = <<c, d>> <=> a = c /\ b = d
  OBVIOUS
<1>. QED
  BY <1>2, <1>3, <1>4

\* Whether a line sets a key is known when it is read, from the section that is
\* in force.
LEMMA LineSets ==
  ASSUME FileInv, KeysHaveValues, line \in DOMAIN file, NEW key \in Keys
  PROVE  line \in LinesFor(key) <=>
           /\ file[line].kind = "pair" /\ ~IsHeader(file[line])
           /\ <<section, file[line].name>> = key
           /\ key \in Bools \/ file[line].value \in DOMAIN IntValue
<1>1. /\ line \in Nat \ {0} /\ SectionInv
      /\ key[1] # "" /\ (<<section, file[line].name>> = key
                           <=> section = key[1] /\ file[line].name = key[2])
  BY KeyParts DEF FileInv
<1>2. \A j \in 1 .. line : IsHeader(file[j]) <=> OpensSection(file[j])
  <2>1. file \in Seq(FileLine)
    BY DEF FileInv
  <2>2. \A j \in 1 .. line : j \in DOMAIN file
    <3>1. Len(file) \in Nat /\ DOMAIN file = 1 .. Len(file) /\ line \in 1 .. Len(file)
      BY <2>1
    <3>. QED
      BY <3>1
  <2>3. \A j \in DOMAIN file : file[j] \in FileLine
    BY <2>1
  <2>. QED
    BY <2>2, <2>3 DEF IsHeader, OpensSection, KeysHaveValues, FileLine
<1>3. section = key[1] <=>
        \E j \in 1 .. line - 1 :
          /\ IsHeader(file[j]) /\ file[j].name = key[1]
          /\ \A k \in j + 1 .. line - 1 : ~IsHeader(file[k])
  <2>1. CASE section = "" /\ \A j \in 1 .. line - 1 : ~IsHeader(file[j])
    BY <1>1, <2>1
  <2>2. ASSUME NEW h \in 1 .. line - 1, IsHeader(file[h]), section = file[h].name,
               \A k \in h + 1 .. line - 1 : ~IsHeader(file[k])
        PROVE  section = key[1] <=>
                 \E j \in 1 .. line - 1 :
                   /\ IsHeader(file[j]) /\ file[j].name = key[1]
                   /\ \A k \in j + 1 .. line - 1 : ~IsHeader(file[k])
    <3>1. ASSUME NEW j \in 1 .. line - 1, IsHeader(file[j]),
                 \A k \in j + 1 .. line - 1 : ~IsHeader(file[k])
          PROVE  j = h
      <4>1. line \in Nat \ {0}
        BY <1>1
      <4>2. CASE j < h
        BY <2>2, <3>1, <4>1, <4>2
      <4>3. CASE h < j
        BY <2>2, <3>1, <4>1, <4>3
      <4>. QED
        BY <4>1, <4>2, <4>3
    <3>. QED
      BY <1>1, <2>2, <3>1
  <2>. QED
    BY <1>1, <2>1, <2>2 DEF SectionInv
<1>4. (\E j \in 1 .. line - 1 :
          /\ IsHeader(file[j]) /\ file[j].name = key[1]
          /\ \A k \in j + 1 .. line - 1 : ~IsHeader(file[k]))
      <=> \E j \in 1 .. line - 1 :
            /\ OpensSection(file[j]) /\ file[j].name = key[1]
            /\ \A k \in j + 1 .. line - 1 : ~OpensSection(file[k])
  <2>1. /\ \A j \in 1 .. line - 1 : j \in 1 .. line
        /\ \A j \in 1 .. line - 1 : \A k \in j + 1 .. line - 1 : k \in 1 .. line
    <3>1. line \in Nat
      BY <1>1
    <3>. QED
      BY <3>1
  <2>. QED
    BY <1>2, <2>1
<1>5. IsHeader(file[line]) <=> file[line].kind = "pair" /\ file[line].value = ""
  BY DEF IsHeader
<1>. QED
  BY <1>1, <1>3, <1>4, <1>5 DEF LinesFor

\* assign() sets the key that is named, and no other.
LEMMA AssignSets ==
  ASSUME NEW c, DOMAIN c = Keys, NEW target, NEW value, NEW key \in Keys
  PROVE  /\ DOMAIN assign(c, target, value) = Keys
         /\ assign(c, target, value)[key] =
              IF target = key /\ (key \in Bools \/ value \in DOMAIN IntValue)
              THEN Stored(key, IF key \in Bools THEN value \in TrueWords ELSE IntValue[value])
              ELSE c[key]
<1>1. NumWorkers \notin Bools
  BY DEF Bools, NumWorkers, SaveEvents, UseRknn
<1>2. key \in Bools => Stored(key, value \in TrueWords) = (value \in TrueWords)
  BY <1>1 DEF Stored
<1>3. CASE target \in Bools
  BY <1>2, <1>3 DEF assign, Keys
<1>4. CASE target \in Keys \ Bools /\ value \in DOMAIN IntValue
  BY <1>4 DEF assign
<1>5. CASE target \notin Bools /\ ~(target \in Keys \ Bools /\ value \in DOMAIN IntValue)
  BY <1>5 DEF assign
<1>. QED
  BY <1>3, <1>4, <1>5

LEMMA SectionStep ==
  ASSUME FileInv, ReadLine
  PROVE  SectionInv'
<1>1. /\ line \in Nat \ {0} /\ line' = line + 1 /\ file' = file
      /\ section' = IF IsHeader(file[line]) THEN file[line].name ELSE section
      /\ SectionInv
  BY DEF FileInv, ReadLine
<1>2. line' - 1 = line /\ 1 .. line = (1 .. line - 1) \cup {line}
  BY <1>1
<1>3. CASE IsHeader(file[line])
  <2>1. line \in 1 .. line' - 1 /\ \A k \in line + 1 .. line' - 1 : FALSE
    BY <1>1
  <2>. QED
    BY <1>1, <1>3, <2>1 DEF SectionInv
<1>4. CASE ~IsHeader(file[line])
  <2>1. CASE section = "" /\ \A j \in 1 .. line - 1 : ~IsHeader(file[j])
    BY <1>1, <1>2, <1>4, <2>1 DEF SectionInv
  <2>2. ASSUME NEW j \in 1 .. line - 1, IsHeader(file[j]), section = file[j].name,
               \A k \in j + 1 .. line - 1 : ~IsHeader(file[k])
        PROVE  SectionInv'
    <3>1. \A k \in j + 1 .. line : ~IsHeader(file[k])
      BY <1>1, <1>4, <2>2
    <3>. QED
      BY <1>1, <1>2, <1>4, <2>2, <3>1 DEF SectionInv
  <2>. QED
    BY <1>1, <2>1, <2>2 DEF SectionInv
<1>. QED
  BY <1>3, <1>4

LEMMA SettingStep ==
  ASSUME FileInv, KeysHaveValues, ReadLine, NEW key \in Keys
  PROVE  SettingInv(key)'
<1>1. /\ line \in Nat \ {0} /\ line \in DOMAIN file /\ line' = line + 1 /\ file' = file
      /\ config' = IF file[line].kind = "pair" /\ ~IsHeader(file[line])
                   THEN assign(config, <<section, file[line].name>>, file[line].value)
                   ELSE config
      /\ DOMAIN config = Keys /\ SettingInv(key)
  BY DEF FileInv, ReadLine
<1>. DEFINE read == Earlier(LinesFor(key), line)
<1>2. /\ LinesFor(key)' = LinesFor(key) /\ LinesFor(key) \subseteq Nat
      /\ \A i : Meant(key, i)' = Meant(key, i)
  <2>1. LinesFor(key)' = LinesFor(key)
    BY <1>1 DEF LinesFor, OpensSection
  <2>2. \A i : Meant(key, i)' = Meant(key, i)
    BY <1>1 DEF Meant
  <2>3. LinesFor(key) \subseteq Nat
    <3>1. file \in Seq(FileLine)
      BY DEF FileInv
    <3>2. LinesFor(key) \subseteq DOMAIN file
      BY DEF LinesFor
    <3>. QED
      BY <3>1, <3>2
  <2>. QED
    BY <2>1, <2>2, <2>3
<1>3. /\ Earlier(LinesFor(key), line)' =
           read \cup (IF line \in LinesFor(key) THEN {line} ELSE {})
      /\ \A i \in read : i < line
  <2>1. \A i \in LinesFor(key) : i < line + 1 <=> i < line \/ i = line
    BY <1>1, <1>2
  <2>. QED
    BY <1>1, <1>2, <2>1 DEF Earlier
<1>4. /\ DOMAIN config' = Keys
      /\ config'[key] = IF line \in LinesFor(key) THEN Stored(key, Meant(key, line))
                                                  ELSE config[key]
  BY <1>1, LineSets, AssignSets DEF Meant
<1>5. CASE line \in LinesFor(key)
  <2>1. \A i \in read \cup {line} : i <= line
    BY <1>1, <1>2, <1>3 DEF Earlier
  <2>. QED
    BY <1>2, <1>3, <1>4, <1>5, <2>1 DEF SettingInv
<1>6. CASE line \notin LinesFor(key)
  BY <1>1, <1>2, <1>3, <1>4, <1>6 DEF SettingInv
<1>. QED
  BY <1>4, <1>5, <1>6

LEMMA ReadLineStep == ASSUME FileInv, ReadLine PROVE FileInv'
<1>1. /\ file \in Seq(FileLine) /\ line \in Nat \ {0} /\ line <= Len(file) + 1
      /\ line \in DOMAIN file /\ line' = line + 1 /\ file' = file
  BY DEF FileInv, ReadLine
<1>2. line' \in Nat \ {0} /\ line' <= Len(file) + 1
  BY <1>1
<1>3. DOMAIN config' = Keys
  <2>1. WebPort \in Keys /\ DOMAIN config = Keys
    BY DEF Keys, FileInv
  <2>. QED
    BY <2>1, AssignSets DEF ReadLine
<1>4. KeysHaveValues' <=> KeysHaveValues
  BY <1>1 DEF KeysHaveValues
<1>. QED
  BY <1>1, <1>2, <1>3, <1>4, SectionStep, SettingStep DEF FileInv

\* What the user wrote for a key is what the parser has kept, before ranges.
LEMMA SettingsAsWritten ==
  ASSUME FileInv, KeysHaveValues, line \notin DOMAIN file, NEW key \in Keys
  PROVE  IF LinesFor(key) = {} THEN config[key] = Default[key] /\ Written(key) = Default[key]
                               ELSE /\ \E i \in LinesFor(key) : Written(key) = Meant(key, i)
                                    /\ config[key] = Stored(key, Written(key))
<1>1. /\ file \in Seq(FileLine) /\ line \in Nat \ {0} /\ SettingInv(key)
  BY DEF FileInv
<1>2. LinesFor(key) \subseteq DOMAIN file /\ \A i \in DOMAIN file : i \in Int /\ i < line
  <2>1. LinesFor(key) \subseteq DOMAIN file
    BY DEF LinesFor
  <2>. QED
    BY <1>1, <2>1
<1>3. Earlier(LinesFor(key), line) = LinesFor(key) /\ LinesFor(key) \in SUBSET Int
  BY <1>2 DEF Earlier
<1>4. CASE LinesFor(key) = {}
  BY <1>1, <1>3, <1>4 DEF SettingInv, Written
<1>5. CASE LinesFor(key) # {}
  <2>1. PICK last \in LinesFor(key) :
          /\ \A i \in LinesFor(key) : i <= last
          /\ config[key] = Stored(key, Meant(key, last))
    BY <1>1, <1>3, <1>5 DEF SettingInv
  <2>2. Latest(LinesFor(key)) = last
    BY <1>3, <2>1, LatestIs
  <2>. QED
    BY <1>5, <2>1, <2>2 DEF Written
<1>. QED
  BY <1>4, <1>5

LEMMA FinishIsEffective ==
  ASSUME ArgsInv, FileInv, phase = "lines", Finish
  PROVE  /\ CommandLine' = "ok"
         /\ KeysHaveValues' => config' = [key \in Keys |-> Effective(key)']
<1>1. line \notin DOMAIN file /\ UNCHANGED <<argv, options, file>>
  BY DEF Finish
<1>2. /\ options.mock <=> Given("--mock") # {}
      /\ options.port = PortAsked /\ CommandLine = "ok"
  BY OptionsAsGiven
<1>. SUFFICES ASSUME KeysHaveValues PROVE config' = [key \in Keys |-> Effective(key)']
  BY <1>1, <1>2 DEF CommandLine, BadPorts, Given, OptionPlaces, KeysHaveValues
<1>3. /\ NumWorkers \in Keys /\ NumWorkers \notin Bools
      /\ UseRknn # NumWorkers /\ WebPort # NumWorkers /\ UseRknn # WebPort
      /\ Default[NumWorkers] = 1
  BY DEF Keys, Bools, UseRknn, WebPort, NumWorkers, SaveEvents, Default
<1>4. ASSUME NEW key \in Keys, key # NumWorkers PROVE Written(key) = config[key]
  BY <1>1, <1>4, SettingsAsWritten DEF Stored
<1>5. Nearest(1, 3, Written(NumWorkers)) = Clamp(config[NumWorkers])
  <2>1. CASE LinesFor(NumWorkers) = {}
    <3>1. config[NumWorkers] = 1 /\ Written(NumWorkers) = 1
      BY <1>1, <1>3, <2>1, SettingsAsWritten
    <3>. QED
      BY <3>1, NearestIsClamp
  <2>2. CASE LinesFor(NumWorkers) # {}
    <3>1. PICK i \in LinesFor(NumWorkers) : Written(NumWorkers) = Meant(NumWorkers, i)
      BY <1>1, <1>3, <2>2, SettingsAsWritten
    <3>2. Written(NumWorkers) \in Int
      BY <1>3, <3>1, ConfigAssumption DEF LinesFor, Meant
    <3>3. config[NumWorkers] = Stored(NumWorkers, Written(NumWorkers))
      BY <1>1, <1>3, <2>2, SettingsAsWritten
    <3>4. Clamp(Stored(NumWorkers, Written(NumWorkers))) = Clamp(Written(NumWorkers))
      BY <3>2 DEF Stored, Clamp
    <3>. QED
      BY <3>2, <3>3, <3>4, NearestIsClamp
  <2>. QED
    BY <2>1, <2>2
<1>6. ASSUME NEW key \in Keys
      PROVE  Effective(key) =
               CASE key = NumWorkers -> Clamp(config[key])
                 [] key = WebPort /\ options.port > 0 -> options.port
                 [] key = UseRknn /\ options.mock -> FALSE
                 [] OTHER -> config[key]
  BY <1>2, <1>3, <1>4, <1>5 DEF Effective
<1>7. \A key \in Keys : Effective(key)' = Effective(key)
  BY <1>1 DEF Effective, Given, OptionPlaces, PortAsked, Written, LinesFor, OpensSection, Meant
<1>. QED
  BY <1>6, <1>7 DEF Finish

\* What has been read is kept by the steps that read nothing.
LEMMA ArgsKept ==
  ASSUME ArgsInv, UNCHANGED <<argv, arg, options, parsed>>,
         phase' \in {"open", "lines"} => parsed = "ok" /\ arg \notin DOMAIN argv
  PROVE  ArgsInv'
<1>1. /\ OptionPlaces' = OptionPlaces
      /\ Given("--mock")' = Given("--mock") /\ Given("--port")' = Given("--port")
      /\ Given("--help")' = Given("--help") /\ CommandLine' = CommandLine
  BY DEF Given, OptionPlaces, CommandLine, BadPorts
<1>2. OptionsInv => OptionsInv'
  BY <1>1 DEF OptionsInv, Earlier
<1>. QED
  BY <1>1, <1>2 DEF ArgsInv

LEMMA FileKept ==
  ASSUME FileInv, UNCHANGED <<file, line, section, config>>
  PROVE  FileInv'
<1>1. SectionInv'
  BY DEF FileInv, SectionInv
<1>2. KeysHaveValues' <=> KeysHaveValues
  BY DEF KeysHaveValues
<1>3. ASSUME KeysHaveValues, NEW key \in Keys PROVE SettingInv(key)'
  <2>1. LinesFor(key)' = LinesFor(key) /\ SettingInv(key)
    BY <1>3 DEF LinesFor, OpensSection, FileInv
  <2>2. \A i : Meant(key, i)' = Meant(key, i)
    BY DEF Meant
  <2>. QED
    BY <2>1, <2>2 DEF SettingInv, Earlier
<1>. QED
  BY <1>1, <1>2, <1>3 DEF FileInv

LEMMA ReadingStep ==
  ASSUME ReadingInv, ConfigAsWritten, [NvrNext]_nvrVars
  PROVE  ReadingInv' /\ ConfigAsWritten'
<1>. DEFINE Judged == CommandLine = "ok" /\ (KeysHaveValues => config = [k \in Keys |-> Effective(k)])
<1>0. /\ exit_code = 134 => phase = "exited" /\ CommandLine = "throws"
      /\ phase = "configured" => Judged
      /\ UNCHANGED argv => CommandLine' = CommandLine
  BY DEF ReadingInv, ConfigAsWritten, CommandLine, BadPorts, Given, OptionPlaces
<1>1. CASE UNCHANGED <<phase, exit_code, configVars>>
  <2>1. phase \in {"args", "open", "lines"} => ArgsInv' /\ FileInv'
    BY <1>1, ArgsKept, FileKept DEF ReadingInv, ArgsInv, configVars
  <2>2. \A key \in Keys : Effective(key)' = Effective(key)
    BY <1>1 DEF Effective, Given, OptionPlaces, PortAsked, Written, LinesFor, OpensSection,
       Meant, configVars
  <2>3. KeysHaveValues' <=> KeysHaveValues
    BY <1>1 DEF KeysHaveValues, configVars
  <2>4. phase' = "configured" => Judged'
    BY <1>0, <1>1, <2>2, <2>3 DEF configVars
  <2>. QED
    BY <1>0, <1>1, <2>1, <2>4 DEF ReadingInv, ConfigAsWritten, configVars
<1>2. CASE MainStep
  <2>1. CASE ReadArgs
    <3>1. phase = "args" /\ phase' = "args" /\ ParseArg /\ UNCHANGED exit_code
      BY <2>1 DEF ReadArgs, mainVars
    <3>2. ArgsInv' /\ FileInv'
      BY <3>1, ParseArgStep, FileKept DEF ReadingInv, ParseArg
    <3>. QED
      BY <1>0, <3>1, <3>2 DEF ReadingInv, ConfigAsWritten
  <2>2. CASE ArgsEnd
    <3>1. /\ phase = "args" /\ ~Parsing /\ UNCHANGED configVars
          /\ \/ phase' = "exited" /\ (exit_code' = 134 => parsed = "throws")
             \/ phase' = "open" /\ parsed \notin {"throws", "help"} /\ UNCHANGED exit_code
      BY <2>2 DEF ArgsEnd, Goto
    <3>2. phase' = "open" => ArgsInv' /\ FileInv'
      BY <3>1, ArgsKept, FileKept DEF ReadingInv, ArgsInv, Parsing, configVars
    <3>3. parsed = "throws" => CommandLine = "throws"
      BY <3>1 DEF ReadingInv, ArgsInv
    <3>. QED
      BY <1>0, <3>1, <3>2, <3>3 DEF ReadingInv, ConfigAsWritten, configVars
  <2>3. CASE OpenConfig
    <3>1. /\ phase = "open" /\ phase' \in {"lines", "unwind"} /\ UNCHANGED configVars
          /\ exit_code' \in {exit_code, 1}
      BY <2>3 DEF OpenConfig, Return
    <3>2. ArgsInv' /\ FileInv'
      BY <3>1, ArgsKept, FileKept DEF ReadingInv, ArgsInv, configVars
    <3>. QED
      BY <1>0, <3>1, <3>2 DEF ReadingInv, ConfigAsWritten
  <2>4. CASE ReadConfig
    <3>1. phase = "lines" /\ ArgsInv /\ FileInv
      BY <2>4 DEF ReadConfig, ReadingInv
    <3>2. CASE ReadLine /\ UNCHANGED mainVars
      <4>1. phase' = "lines" /\ ArgsInv' /\ UNCHANGED exit_code
        BY <3>1, <3>2, ArgsKept DEF ReadLine, mainVars, ArgsInv
      <4>. QED
        BY <1>0, <3>1, <3>2, <4>1, ReadLineStep DEF ReadingInv, ConfigAsWritten
    <3>3. CASE Finish /\ Goto("configured") /\ UNCHANGED exit_code
      <4>1. phase' = "configured" /\ exit_code' # 134
        BY <1>0, <3>1, <3>3 DEF Goto
      <4>2. Judged'
        BY <3>1, <3>3, FinishIsEffective
      <4>. QED
        BY <4>1, <4>2 DEF ReadingInv, ConfigAsWritten
    <3>. QED
      BY <2>4, <3>2, <3>3 DEF ReadConfig
  <2>5. CASE LoadClasses \/ InitDetector \/ StartEvents \/ StartServer \/ StartPipeline
               \/ Poll \/ JoinPipeline \/ JoinEvents \/ Destroy
    <3>1. /\ phase' \notin {"args", "open", "lines", "configured"}
          /\ phase # "exited" /\ exit_code' \in {exit_code, 0, 2, 3}
      BY <2>5 DEF LoadClasses, InitDetector, StartEvents, StartServer, StartPipeline, Poll,
         JoinPipeline, JoinEvents, Destroy, Goto, Return
    <3>. QED
      BY <1>0, <3>1 DEF ReadingInv, ConfigAsWritten
  <2>. QED
    BY <1>2, <2>1, <2>2, <2>3, <2>4, <2>5 DEF MainStep
<1>3. CASE Exit
  BY <1>0, <1>3 DEF Exit, ReadingInv, ConfigAsWritten
<1>4. StopServer \/ Signal \/ SourceEnds \/ PipelineEnds \/ EventThreadEnds \/ Serve
        \/ Render \/ UNCHANGED nvrVars => UNCHANGED <<phase, exit_code, configVars>>
  BY DEF StopServer, Signal, SourceEnds, PipelineEnds, EventThreadEnds, Serve, Render,
     mainVars, nvrVars
<1>5. ASSUME NEW c \in Clients, StreamTo(c) \/ ClientStep(c)
      PROVE  UNCHANGED <<phase, exit_code, configVars>>
  BY <1>5 DEF StreamTo, ClientStep, mainVars
<1>. QED
  BY <1>1, <1>2, <1>3, <1>4, <1>5 DEF NvrNext

LEMMA ReadingInit == NvrInit => ReadingInv /\ ConfigAsWritten
<1>. SUFFICES ASSUME NvrInit PROVE ReadingInv /\ ConfigAsWritten
  OBVIOUS
<1>1. argv \in Seq(STRING) /\ file \in Seq(FileLine)
  <2>1. PICK input \in Inputs : argv = input[1] /\ file = input[2]
    BY DEF NvrInit
  <2>. QED
    BY <2>1, InputAssumption
<1>2. /\ phase = "args" /\ parsed = "ok" /\ section = "" /\ exit_code = 0
      /\ options = [mock |-> FALSE, config_path |-> "config.yaml", port |-> 0]
      /\ config = Default
  BY DEF NvrInit, ConfigInit
<1>3. arg = 1 /\ line = 1
  BY DEF NvrInit, ConfigInit
<1>4. /\ OptionPlaces \subseteq DOMAIN argv /\ \A i \in DOMAIN argv : i >= 1
      /\ \A i \in DOMAIN file : i >= 1 /\ i \in Int
  <2>1. OptionPlaces \subseteq DOMAIN argv
    BY DEF OptionPlaces
  <2>. QED
    BY <1>1, <2>1
<1>5. OptionsInv
  <2>1. \A i \in OptionPlaces : i \in Int /\ ~(i < arg)
    BY <1>1, <1>3, <1>4
  <2>2. /\ Earlier(Given("--mock"), arg) = {} /\ Earlier(Given("--port"), arg) = {}
        /\ Earlier(Given("--help"), arg) = {}
    BY <2>1 DEF Earlier, Given
  <2>. QED
    BY <1>2, <2>2 DEF OptionsInv
<1>6. ArgsInv
  <2>1. arg \in DOMAIN argv => arg \in OptionPlaces
    BY <1>1, <1>3, FirstPlace
  <2>2. arg \in Nat \ {0}
    BY <1>3
  <2>. QED
    BY <1>1, <1>2, <1>5, <2>1, <2>2 DEF ArgsInv
<1>7. ASSUME NEW key \in Keys PROVE SettingInv(key)
  <2>1. LinesFor(key) \subseteq DOMAIN file
    BY DEF LinesFor
  <2>2. Earlier(LinesFor(key), line) = {}
    BY <1>3, <1>4, <2>1 DEF Earlier
  <2>. QED
    BY <1>2, <2>2 DEF SettingInv
<1>8. SectionInv
  <2>1. 1 .. line - 1 = {}
    BY <1>3
  <2>. QED
    BY <1>2, <2>1 DEF SectionInv
<1>9. DOMAIN config = Keys
  BY <1>2 DEF Default
<1>10. line \in Nat \ {0} /\ line <= Len(file) + 1
  BY <1>1, <1>3
<1>11. FileInv
  BY <1>1, <1>7, <1>8, <1>9, <1>10 DEF FileInv
<1>12. exit_code # 134
  <2>1. exit_code = 0
    BY DEF NvrInit
  <2>. QED
    BY <2>1
<1>. QED
  BY <1>2, <1>6, <1>11, <1>12 DEF ReadingInv, ConfigAsWritten

\* Whatever the command line and the file hold, unless a key in it is left empty,
\* main runs with what the user wrote: lines that set nothing disturb no other
\* line, the last setting of a key counts, the command line wins, and numbers are
\* in range.  It runs with no --port without a number and with no --help, and an
\* exception ends it only if there is such a --port before any --help.
THEOREM ConfigRead == NvrSpec => []ConfigAsWritten
  BY ReadingInit, ReadingStep, PTL DEF NvrSpec
=============================================================================
