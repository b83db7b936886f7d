-------------------------------- MODULE MCNvr --------------------------------
(***************************************************************************)
(* Nvr for TLC: command lines and configuration files that interfere, two  *)
(* clients, and a main that is stopped at any time.                        *)
(***************************************************************************)
EXTENDS Nvr

\* stop() begins after listen() has stored running_.
Started == ServerLabels \ {"starting"}

Numbers == [t \in {"0", "3", "9"} |-> CASE t = "0" -> 0 [] t = "3" -> 3 [] t = "9" -> 9]
Paths == {"config.yaml"}

Pair(indented, name, value) ==
  [kind |-> "pair", indented |-> indented, name |-> name, value |-> value]
Header(name) == Pair(FALSE, name, "")
Key(name, value) == Pair(TRUE, name, value)
Lines ==
  {[kind |-> "blank"], [kind |-> "bare"], Header("runtime"), Header("app"),
   Key("num_workers", "9"), Key("num_workers", "x"), Key("num_workers", ""),
   Key("save_events", "x"), Pair(FALSE, "num_workers", "3")}

\* Any file of up to four such lines.
ShortFiles == UNION {[1 .. n -> Lines] : n \in 0 .. 4}

\* A file that sets every key, and the command lines that may override it.
FullFile ==
  <<Header("app"), Key("web_port", "3"), Key("save_events", "true"),
    [kind |-> "blank"], Header("runtime"), Key("num_workers", "3"),
    Key("use_rknn", "true")>>
Words == {"--mock", "--port", "--config", "--help", "0", "9"}
Arguments == UNION {[1 .. n -> Words] : n \in 0 .. 3}
             \cup {<<"--config", "config.yaml", "--mock">>,
                   <<"--port", "9", "--port", "0">>, <<"--port", "9", "--help", "--port">>}

UserInputs == ({<<>>} \X ShortFiles) \cup (Arguments \X {FullFile})

\* Nothing on the command line and an empty file.
NoInput == {<<<<>>, <<>>>>}
=============================================================================
