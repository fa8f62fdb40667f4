------------------------------ MODULE Terminal ------------------------------
(***************************************************************************)
(* The terminal tools (crates/cosmo-tools/src/terminal.rs): one tmux pane, *)
(* in which tool calls type commands and whose foreground process tells    *)
(* when a command is done.  A command is a number; a program may read what *)
(* is typed while it runs.                                                 *)
(***************************************************************************)
EXTENDS Naturals, Sequences, SequencesExt

CONSTANTS
  TerminalCall,         \* tool calls under way at once
  MaxCommands,  \* bound: commands typed
  MaxPolls      \* the polls a watch has before its deadline

VARIABLES
  session,      \* the tmux session is there
  typed,        \* what was typed and not read yet
  running,      \* the command in the foreground, 0 at the shell
  tool,         \* tool[c]: what a call is at
  commands,     \* commands typed so far
  idle          \* ghost: idle[c]: the shell was in front since c was asked

terminalVars == <<session, typed, running, tool, commands, idle>>

NoTool == [at |-> "free", polls |-> 0, answer |-> "none"]

TerminalInit ==
  /\ session = FALSE /\ typed = <<>> /\ running = 0
  /\ tool = [c \in TerminalCall |-> NoTool]
  /\ commands = 0
  /\ idle = [c \in TerminalCall |-> FALSE]

Asked(c, at) == /\ tool[c].at = "free"
                /\ tool' = [tool EXCEPT ![c] = [NoTool EXCEPT !.at = at]]
                /\ idle' = [idle EXCEPT ![c] = running = 0]

Goes(c, at) == tool' = [tool EXCEPT ![c].at = at]
Answers(c, answer) == tool' = [tool EXCEPT ![c] = [NoTool EXCEPT !.answer = answer]]

\* run_in_terminal.  The session is made when there is none.
AskRun(c) == commands < MaxCommands /\ Asked(c, "session")
             /\ UNCHANGED <<session, typed, running, commands>>

NewSession(c) ==
  /\ tool[c].at = "session"
  /\ session' = TRUE
  /\ Goes(c, "keys")
  /\ UNCHANGED <<typed, running, commands, idle>>

\* The command and a new line are typed, at the shell or into what runs there.
SendKeys(c) ==
  /\ tool[c].at = "keys"
  /\ IF session /\ commands < MaxCommands
     THEN typed' = Append(typed, commands + 1) /\ commands' = commands + 1 /\ Goes(c, "capture")
     ELSE Answers(c, "failed") /\ UNCHANGED <<typed, commands>>
  /\ UNCHANGED <<session, running, idle>>

AskRead(c)  == Asked(c, "capture") /\ UNCHANGED <<session, typed, running, commands>>
AskWatch(c) == Asked(c, "watch") /\ UNCHANGED <<session, typed, running, commands>>

Overdue(c) == Answers(c, "timeout")

\* watch_terminal: the shell in front is the done signal; else again, until the
\* next poll would be past the deadline.
Poll(c) ==
  /\ tool[c].at = "watch"
  /\ CASE ~session -> Answers(c, "failed")
       [] session /\ running = 0 -> Goes(c, "done")
       [] session /\ running # 0 /\ tool[c].polls < MaxPolls -> tool' = [tool EXCEPT ![c].polls = @ + 1]
       [] OTHER -> Overdue(c)
  /\ UNCHANGED <<session, typed, running, commands, idle>>

\* capture-pane: the transcript, whatever it says, or that there is no pane.
Capture(c) ==
  /\ tool[c].at \in {"capture", "done"}
  /\ Answers(c, IF ~session THEN "failed" ELSE IF tool[c].at = "done" \/ tool[c].polls > 0 THEN "done" ELSE "text")
  /\ UNCHANGED <<session, typed, running, commands, idle>>

\* tmux cannot be run, does not answer in time, or refuses: the call is an error.
TmuxFails(c) ==
  /\ tool[c].at # "free"
  /\ Answers(c, "failed")
  /\ UNCHANGED <<session, typed, running, commands, idle>>

----------------------------------------------------------------------------
(* The pane: the shell starts what was typed; a program reads it or ends.  *)

Idles == idle' = [c \in TerminalCall |-> idle[c] \/ running' = 0]

ShellReads ==
  /\ session /\ running = 0 /\ typed # <<>>
  /\ running' = Head(typed) /\ typed' = Tail(typed)
  /\ Idles /\ UNCHANGED <<session, tool, commands>>

ProgramReads ==
  /\ running # 0 /\ typed # <<>>
  /\ typed' = Tail(typed)
  /\ UNCHANGED <<session, running, tool, commands, idle>>

ProgramEnds ==
  /\ running # 0
  /\ running' = 0
  /\ Idles /\ UNCHANGED <<session, typed, tool, commands>>

\* The user closes the pane.
SessionEnds ==
  /\ session
  /\ session' = FALSE /\ typed' = <<>> /\ running' = 0
  /\ Idles /\ UNCHANGED <<tool, commands>>

TerminalSteps(c) == AskRun(c) \/ NewSession(c) \/ SendKeys(c) \/ AskRead(c) \/ AskWatch(c) \/ Poll(c) \/ Capture(c) \/ TmuxFails(c)
TerminalNext == (\E c \in TerminalCall : TerminalSteps(c)) \/ ShellReads \/ ProgramReads \/ ProgramEnds \/ SessionEnds

TerminalSpec == TerminalInit /\ [][TerminalNext]_terminalVars

----------------------------------------------------------------------------
(* Properties.                                                             *)

\* A watch that says done: since it was asked, the shell has been in front.  A
\* command that never ends is a timeout, never done.
WatchedWasDone == \A c \in TerminalCall : tool[c].answer = "done" => idle[c]
=============================================================================
