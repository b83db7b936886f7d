-------------------------------- MODULE Nvr --------------------------------
(***************************************************************************)
(* main (src/main.cpp): it reads its configuration (ConfigFile), builds    *)
(* its objects one after the other, polls until a signal or the end of the *)
(* pipeline, stops the pipeline and the events, and destroys the objects   *)
(* in reverse order, the server (HttpServer) by its stop().                *)
(*                                                                         *)
(* The threads of the pipeline are one here: VideoPipeline shows that they *)
(* all end when running_ is false.  So is the event thread.                *)
(***************************************************************************)
EXTENDS HttpServer, ConfigFile

CONSTANT Inputs  \* what argv and the file may hold, in pairs

ASSUME InputAssumption == Inputs \subseteq Seq(STRING) \X Seq(FileLine)

VARIABLES
  phase,        \* main's statement
  exit_code,    \* main's return value
  g_running,
  alive,        \* the objects on main's stack, the newest last
  pipeline,     \* its threads: "none", "running", "stopping", "ended"
  event_thread  \* "none", "running", "stopping", "ended"

mainVars == <<phase, exit_code, g_running, alive, pipeline, event_thread>>
nvrVars == <<vars, configVars, mainVars>>

Alive == {alive[i] : i \in DOMAIN alive}

NvrInit ==
  /\ \E input \in Inputs : argv = input[1] /\ file = input[2]
  /\ Init
  /\ ConfigInit
  /\ phase = "args" /\ exit_code = 0
  /\ g_running = TRUE
  /\ alive = <<>>
  /\ pipeline = "none" /\ event_thread = "none"

-----------------------------------------------------------------------------
(* main, up to its poll loop                                               *)

Goto(next) == phase' = next /\ UNCHANGED <<g_running, pipeline, event_thread>>

\* return: the objects are destroyed, the newest first.
Return(code) == phase' = "unwind" /\ exit_code' = code

ReadArgs ==
  /\ phase = "args"
  /\ ParseArg
  /\ UNCHANGED mainVars

\* An exception that nobody catches, or --help, ends the process.
ArgsEnd ==
  /\ phase = "args" /\ ~Parsing
  /\ CASE parsed = "throws" -> Goto("exited") /\ exit_code' = 134
       [] parsed = "help" -> Goto("exited") /\ exit_code' = 0
       [] OTHER -> Goto("open") /\ UNCHANGED exit_code
  /\ UNCHANGED <<alive, configVars>>

OpenConfig ==
  /\ phase = "open"
  /\ IF options.config_path \in Readable
     THEN phase' = "lines" /\ UNCHANGED exit_code
     ELSE Return(1)
  /\ UNCHANGED <<g_running, pipeline, event_thread, alive, configVars>>

ReadConfig ==
  /\ phase = "lines"
  /\ \/ ReadLine /\ UNCHANGED mainVars
     \/ Finish /\ Goto("configured") /\ UNCHANGED <<exit_code, alive>>

\* The command line and the file are not looked at again.
LoadClasses ==
  /\ phase = "configured"
  /\ Goto("detector")
  /\ argv' = <<>> /\ file' = <<>> /\ arg' = 1 /\ line' = 1 /\ section' = ""
  /\ UNCHANGED <<exit_code, alive, options, parsed, config>>

\* detector->init(): the mock's always succeeds.
InitDetector ==
  /\ phase = "detector"
  /\ alive' = Append(alive, "detector")
  /\ \/ Goto("events") /\ UNCHANGED exit_code
     \/ /\ config[UseRknn] /\ Return(2)
        /\ UNCHANGED <<g_running, pipeline, event_thread>>
  /\ UNCHANGED configVars

\* events.start(): no thread if save_events is off; it fails if the directory
\* cannot be made.
StartEvents ==
  /\ phase = "events"
  /\ alive' = Append(alive, "events")
  /\ IF ~config[SaveEvents]
     THEN phase' = "server" /\ UNCHANGED <<event_thread, exit_code>>
     ELSE \/ /\ event_thread' = "running" /\ phase' = "server"
             /\ UNCHANGED exit_code
          \/ Return(3) /\ UNCHANGED event_thread
  /\ UNCHANGED <<g_running, pipeline, configVars>>

\* stats, mqtt and server; server.start().
StartServer ==
  /\ phase = "server"
  /\ alive' = alive \o <<"stats", "mqtt", "server">>
  /\ Goto("pipeline")
  /\ UNCHANGED <<exit_code, configVars>>

\* pipeline.start() returns true, since there is a detector.
StartPipeline ==
  /\ phase = "pipeline"
  /\ alive' = Append(alive, "pipeline")
  /\ pipeline' = "running"
  /\ phase' = "poll"
  /\ UNCHANGED <<exit_code, g_running, event_thread, configVars>>

-----------------------------------------------------------------------------
(* The end                                                                 *)

\* The loop ends on a signal or when the pipeline does not run; then
\* pipeline.stop() stores running_ = false.
Poll ==
  /\ phase = "poll"
  /\ ~g_running \/ pipeline # "running"
  /\ phase' = "joinPipeline"
  /\ pipeline' = IF pipeline = "running" THEN "stopping" ELSE pipeline
  /\ UNCHANGED <<exit_code, g_running, event_thread, alive, configVars>>

\* events.stop() follows when the pipeline's threads have been joined.
JoinPipeline ==
  /\ phase = "joinPipeline" /\ pipeline = "ended"
  /\ event_thread' = IF event_thread = "running" THEN "stopping" ELSE event_thread
  /\ phase' = "joinEvents"
  /\ UNCHANGED <<exit_code, g_running, pipeline, alive, configVars>>

\* mqtt.stop() does nothing; the final stats are printed; return 0.
JoinEvents ==
  /\ phase = "joinEvents" /\ event_thread \in {"none", "ended"}
  /\ Return(0)
  /\ UNCHANGED <<g_running, pipeline, event_thread, alive, configVars>>

\* The oldest object goes first.
DestroyOldest ==
  /\ phase = "unwind" /\ alive # <<>>
  /\ Head(alive) = "server" => pc_main = "stopped"
  /\ alive' = Tail(alive)
  /\ UNCHANGED <<phase, exit_code, g_running, pipeline, event_thread, configVars>>

\* The destructors: the server's stop() has to return first, those of the
\* pipeline and the events find their threads joined.
Destroy ==
  /\ phase = "unwind" /\ alive # <<>>
  /\ alive[Len(alive)] = "server" => pc_main = "stopped"
  /\ alive' = SubSeq(alive, 1, Len(alive) - 1)
  /\ UNCHANGED <<phase, exit_code, g_running, pipeline, event_thread, configVars>>

MainStep ==
  /\ \/ ReadArgs \/ ArgsEnd \/ OpenConfig \/ ReadConfig \/ LoadClasses
     \/ InitDetector \/ StartEvents \/ StartServer \/ StartPipeline
     \/ Poll \/ JoinPipeline \/ JoinEvents \/ Destroy
  /\ UNCHANGED vars

\* ~MjpegServer calls stop().
StopServer ==
  /\ phase = "unwind" /\ alive # <<>> /\ alive[Len(alive)] = "server"
  /\ StopStore \/ Stopping
  /\ UNCHANGED <<configVars, mainVars>>

\* The process ends, and with it its detached threads and its sockets.
Exit ==
  /\ phase = "unwind" /\ alive = <<>>
  /\ phase' = "exited"
  /\ pc_client' = [c \in Clients |-> "closed"]
  /\ UNCHANGED <<streaming, serving, fds, pc_server, pc_main, video, configVars,
                 exit_code, g_running, alive, pipeline, event_thread>>

-----------------------------------------------------------------------------
(* The other threads                                                       *)

Signal ==
  /\ g_running /\ phase # "exited"
  /\ g_running' = FALSE
  /\ UNCHANGED <<vars, configVars, phase, exit_code, alive, pipeline, event_thread>>

\* The source ends or the benchmark is done: the pipeline stores running_ = false.
SourceEnds ==
  /\ pipeline = "running"
  /\ pipeline' = "stopping"
  /\ UNCHANGED <<vars, configVars, phase, exit_code, g_running, alive, event_thread>>

PipelineEnds ==
  /\ pipeline = "stopping"
  /\ pipeline' = "ended"
  /\ UNCHANGED <<vars, configVars, phase, exit_code, g_running, alive, event_thread>>

EventThreadEnds ==
  /\ event_thread = "stopping"
  /\ event_thread' = "ended"
  /\ UNCHANGED <<vars, configVars, phase, exit_code, g_running, alive, pipeline>>

\* The server's thread exists once start() has been called.
Serve ==
  /\ "server" \in Alive
  /\ ServerThread
  /\ UNCHANGED <<configVars, mainVars>>

Render ==
  /\ pipeline \in {"running", "stopping"}
  /\ UpdateFrame
  /\ UNCHANGED <<configVars, mainVars>>

StreamTo(c) == Stream(c) /\ UNCHANGED <<configVars, mainVars>>

ClientStep(c) ==
  /\ Connect(c) \/ Request(c) \/ SendFails(c)
  /\ UNCHANGED <<configVars, mainVars>>

NvrNext ==
  \/ MainStep \/ StopServer \/ Exit
  \/ Signal \/ SourceEnds \/ PipelineEnds \/ EventThreadEnds
  \/ Serve \/ Render
  \/ \E c \in Clients : StreamTo(c) \/ ClientStep(c)

NvrSpec == NvrInit /\ [][NvrNext]_nvrVars

\* Every thread is scheduled, the pipeline and the event thread end once told to
\* (checked in VideoPipeline and EventManager), and a client that streams reads.
NvrFairSpec ==
  /\ NvrSpec
  /\ WF_nvrVars(MainStep \/ StopServer \/ Exit)
  /\ WF_nvrVars(PipelineEnds) /\ WF_nvrVars(EventThreadEnds) /\ WF_nvrVars(Serve)
  /\ \A c \in Clients : WF_nvrVars(StreamTo(c))

-----------------------------------------------------------------------------
\* The configuration in force is what the user asked for, in a file without a key
\* that is left empty: lines without a colon, keys and sections nobody knows and
\* numbers that are none disturb no other line, the last setting of a key counts,
\* the command line wins, and numbers are in range.  A --port without a number
\* before any --help, and nothing else, ends the process by an exception; after
\* that and after --help there is no configuration.
ConfigAsWritten ==
  /\ phase = "configured" =>
       /\ CommandLine = "ok"
       /\ KeysHaveValues => config = [k \in Keys |-> Effective(k)]
  /\ exit_code = 134 => CommandLine = "throws"

\* No thread runs on objects that are gone: the pipeline uses all of them, its
\* events go to a thread that takes them, and the server's handlers read the
\* statistics and the events, whichever way main returns.  (The detached
\* clients are not covered, see README.)
ObjectsOutliveThreads ==
  /\ pipeline \in {"running", "stopping"} =>
       /\ {"detector", "events", "stats", "mqtt", "server", "pipeline"} \subseteq Alive
       /\ config[SaveEvents] => event_thread = "running"
  /\ event_thread \in {"running", "stopping"} => "events" \in Alive
  /\ pc_server \notin {"starting", "ended"} =>
       {"events", "stats", "server"} \subseteq Alive

\* A signal ends the process, whatever main, the pipeline, the server and its
\* clients are doing.
ExitsWhenTold == ~g_running ~> phase = "exited"
=============================================================================
