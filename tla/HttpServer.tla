----------------------------- MODULE HttpServer -----------------------------
(***************************************************************************)
(* MjpegServer (src/mjpeg_server.cpp) on the bundled httplib::Server       *)
(* (third_party/httplib/httplib.h): main starts and stops it, the server   *)
(* thread listens and accepts, a detached thread serves each client.  Nvr *)
(* composes the actions with main, which starts and stops the server.      *)
(*                                                                         *)
(* server_fd_ is a plain int that listen() and stop() both read and write, *)
(* so every access is a step of its own.  The kernel's part: close() of a  *)
(* descriptor does not wake a thread blocked in accept() on it, shutdown() *)
(* does, and has no effect on a socket that does not listen yet.           *)
(***************************************************************************)
EXTENDS Naturals, FiniteSets

CONSTANTS
  Clients,   \* browsers, each connecting once
  StopFrom,  \* where the server thread may be when main starts to stop it
  MaxFrames  \* bound: frames rendered

ServerLabels ==
  {"starting", "socket", "bind", "check", "accept", "blocked", "ended"}

ASSUME HttpAssumption ==
  /\ IsFiniteSet(Clients)
  /\ StopFrom \subseteq ServerLabels
  /\ MaxFrames \in Nat

VARIABLES
  streaming,  \* MjpegServer::running_
  serving,    \* httplib::Server::running_
  fd_known,   \* server_fd_ >= 0
  fd_open,    \* the listening socket's descriptor is open
  socket,     \* the kernel's socket: "none", "created", "listening", "shut down"
  accept_fd,  \* server_fd_ was >= 0 when listen() read it for accept()
  pc_server,  \* the server thread
  pc_main,    \* main, in stop() once it has left "running"
  pc_client,  \* handleClient, per client
  latest,     \* latest_jpeg_, as the number of the frame it shows, 0 if empty
  sent        \* the frame last sent to each client, 0 before the first

fds == <<fd_known, fd_open, socket, accept_fd>>
video == <<latest, sent>>
vars == <<streaming, serving, fds, pc_server, pc_main, pc_client, video>>

\* start() has returned: the thread exists and has not run yet.
Init ==
  /\ streaming = TRUE /\ serving = FALSE
  /\ fd_known = FALSE /\ fd_open = FALSE /\ socket = "none" /\ accept_fd = FALSE
  /\ pc_server = "starting" /\ pc_main = "running"
  /\ pc_client = [c \in Clients |-> "away"]
  /\ latest = 0
  /\ sent = [c \in Clients |-> 0]

-----------------------------------------------------------------------------
(* The server thread: listen()                                             *)

\* The handlers are registered, then running_.store(true).
ListenStart ==
  /\ pc_server = "starting"
  /\ serving' = TRUE
  /\ pc_server' = "socket"
  /\ UNCHANGED <<streaming, fds, pc_main, pc_client, video>>

\* server_fd_ = socket(...), which may fail.
OpenSocket ==
  /\ pc_server = "socket"
  /\ \/ /\ fd_known' = TRUE /\ fd_open' = TRUE /\ socket' = "created"
        /\ pc_server' = "bind"
     \/ /\ pc_server' = "ended"
        /\ UNCHANGED <<fd_known, fd_open, socket>>
  /\ UNCHANGED <<streaming, serving, accept_fd, pc_main, pc_client, video>>

\* bind() and listen() on server_fd_: they fail if stop() has closed it, and
\* may fail otherwise.  On failure it is closed.
BindAndListen ==
  /\ pc_server = "bind"
  /\ \/ /\ fd_known /\ fd_open
        /\ socket' = "listening"
        /\ pc_server' = "check"
        /\ UNCHANGED <<fd_known, fd_open>>
     \/ /\ fd_known' = FALSE /\ fd_open' = FALSE
        /\ pc_server' = "ended"
        /\ UNCHANGED socket
  /\ UNCHANGED <<streaming, serving, accept_fd, pc_main, pc_client, video>>

\* while (running_): server_fd_ is read for the next accept().
AcceptLoop ==
  /\ pc_server = "check"
  /\ pc_server' = IF serving THEN "accept" ELSE "ended"
  /\ accept_fd' = fd_known
  /\ UNCHANGED <<streaming, serving, fd_known, fd_open, socket, pc_main,
                 pc_client, video>>

\* accept() fails at once or blocks.
EnterAccept ==
  /\ pc_server = "accept"
  /\ pc_server' = IF accept_fd /\ fd_open /\ socket = "listening"
                  THEN "blocked" ELSE "check"
  /\ UNCHANGED <<streaming, serving, fds, pc_main, pc_client, video>>

\* accept() returns a connection, which gets a detached thread.
Accept(c) ==
  /\ pc_server = "blocked" /\ socket = "listening"
  /\ pc_client[c] = "connecting"
  /\ pc_client' = [pc_client EXCEPT ![c] = "request"]
  /\ pc_server' = "check"
  /\ UNCHANGED <<streaming, serving, fds, pc_main, video>>

\* accept() fails: the socket has been shut down.
AcceptFails ==
  /\ pc_server = "blocked" /\ socket = "shut down"
  /\ pc_server' = "check"
  /\ UNCHANGED <<streaming, serving, fds, pc_main, pc_client, video>>

-----------------------------------------------------------------------------
(* main: MjpegServer::stop(), from its destructor                          *)

\* MjpegServer::running_, then httplib::Server::running_.
StopStore ==
  /\ pc_main = "running"
  /\ pc_server \in StopFrom
  /\ streaming' = FALSE /\ serving' = FALSE
  /\ pc_main' = "shutdown"
  /\ UNCHANGED <<fds, pc_server, pc_client, video>>

\* Closes the descriptor without shutting the socket down first.
StopWithoutShutdown ==
  /\ pc_main = "shutdown"
  /\ pc_main' = IF fd_known THEN "close" ELSE "join"
  /\ UNCHANGED <<streaming, serving, fds, pc_server, pc_client, video>>

\* if (server_fd_ >= 0) shutdown(server_fd_).
StopShutdown ==
  /\ pc_main = "shutdown"
  /\ pc_main' = IF fd_known THEN "close" ELSE "join"
  /\ socket' = IF fd_known /\ socket = "listening" THEN "shut down" ELSE socket
  /\ UNCHANGED <<streaming, serving, fd_known, fd_open, accept_fd, pc_server,
                 pc_client, video>>

\* close(server_fd_); server_fd_ = -1.
StopClose ==
  /\ pc_main = "close"
  /\ fd_known' = FALSE /\ fd_open' = FALSE
  /\ pc_main' = "join"
  /\ UNCHANGED <<streaming, serving, socket, accept_fd, pc_server, pc_client, video>>

\* join() returns, and server_impl_ is destroyed.
Join ==
  /\ pc_main = "join"
  /\ pc_server = "ended"
  /\ pc_main' = "stopped"
  /\ UNCHANGED <<streaming, serving, fds, pc_server, pc_client, video>>

-----------------------------------------------------------------------------
(* The render thread and the clients                                       *)

\* updateFrame() of a frame that imencode accepts; main has joined the render
\* thread before it stops the server.
UpdateFrame ==
  /\ pc_main = "running"
  /\ latest < MaxFrames
  /\ latest' = latest + 1
  /\ UNCHANGED <<streaming, serving, fds, pc_server, pc_main, pc_client, sent>>

\* The kernel completes connections for the backlog of a listening socket.
Connect(c) ==
  /\ pc_client[c] = "away"
  /\ socket = "listening"
  /\ pc_client' = [pc_client EXCEPT ![c] = "connecting"]
  /\ UNCHANGED <<streaming, serving, fds, pc_server, pc_main, video>>

\* recv() and the dispatch: /api/video_feed streams; pages, JSON and unknown
\* paths are answered at once, and nothing is if recv() fails.
Request(c) ==
  /\ pc_client[c] = "request"
  /\ \E next \in {"stream", "closed"} :
       pc_client' = [pc_client EXCEPT ![c] = next]
  /\ UNCHANGED <<streaming, serving, fds, pc_server, pc_main, video>>

\* Copies latest_jpeg_ once, before the loop.
StreamFirstFrame(c) ==
  /\ pc_client[c] = "stream"
  /\ IF streaming
     THEN /\ sent' = [sent EXCEPT ![c] = IF @ = 0 THEN latest ELSE @]
          /\ UNCHANGED pc_client
     ELSE /\ pc_client' = [pc_client EXCEPT ![c] = "closed"]
          /\ UNCHANGED sent
  /\ UNCHANGED <<streaming, serving, fds, pc_server, pc_main, latest>>

\* One iteration of the stream: send the latest JPEG, if there is one, or
\* leave the loop when running_ is false.
Stream(c) ==
  /\ pc_client[c] = "stream"
  /\ IF streaming
     THEN /\ sent' = [sent EXCEPT ![c] = latest]
          /\ UNCHANGED pc_client
     ELSE /\ pc_client' = [pc_client EXCEPT ![c] = "closed"]
          /\ UNCHANGED sent
  /\ UNCHANGED <<streaming, serving, fds, pc_server, pc_main, latest>>

\* writeAll() fails: the client has gone.
SendFails(c) ==
  /\ pc_client[c] = "stream"
  /\ pc_client' = [pc_client EXCEPT ![c] = "closed"]
  /\ UNCHANGED <<streaming, serving, fds, pc_server, pc_main, video>>

-----------------------------------------------------------------------------
ServerThread ==
  \/ ListenStart \/ OpenSocket \/ BindAndListen \/ AcceptLoop \/ EnterAccept
  \/ AcceptFails
  \/ \E c \in Clients : Accept(c)

Stopping == StopShutdown \/ StopClose \/ Join

-----------------------------------------------------------------------------
\* A client that streams is shown each new frame, or a newer one: none is
\* left watching an old picture while the pipeline goes on.
FeedIsLive ==
  \A c \in Clients :
    pc_client[c] = "stream" /\ sent[c] < latest
      ~> (sent[c] = latest \/ pc_client[c] = "closed")
=============================================================================
