------------------------------ MODULE Launching ------------------------------
(***************************************************************************)
(* Starting applications without a shell (crates/cosmo-tools/src/launch.rs *)
(* and browse.rs; the .desktop entries of cosmo-stt/src/hotwords.rs).  An  *)
(* Exec line is a sequence of characters: "a" any plain one, "_" a blank,  *)
(* "q" the double quote, "e" the escape character, "%" and the field code  *)
(* "u", "U" where the address goes: one character in an argument here.     *)
(***************************************************************************)
EXTENDS Naturals, Sequences, SequencesExt

CONSTANTS
  ExecChar,         \* the characters of arguments
  MaxLength,    \* bound: characters of an argument
  MaxArguments  \* bound: arguments

\* An address is not one of the arguments' characters.
ASSUME LaunchingAssumption ==
  MaxLength \in Nat /\ MaxArguments \in Nat /\ "url" \notin ExecChar

VARIABLES
  entries,      \* the user's entry and the system's: "none", "hidden", "terminal" or "shown"
  intended,     \* the arguments an application's author meant
  exec,         \* how they are written in its entry
  started       \* what came of it, and the arguments the process was given

launchingVars == <<entries, intended, exec, started>>

Nothing == [how |-> "nothing", argv |-> <<>>]
NotStarted == [how |-> "refused", argv |-> <<>>]
Given(argv) == [how |-> "started", argv |-> argv]

\* An address, and the place for one.
Url == <<"url">>
Code == <<"%", "u">>

----------------------------------------------------------------------------
(* How the Desktop Entry Specification has an argument written: quoted,    *)
(* with quotes and escapes escaped, or plain where nothing needs a quote.  *)

Quoted(arg) == <<"q">> \o FlattenSeq([i \in DOMAIN arg |->
                  IF arg[i] \in {"q", "e"} THEN <<"e", arg[i]>> ELSE <<arg[i]>>]) \o <<"q">>
Plain(arg)  == FlattenSeq([i \in DOMAIN arg |-> IF arg[i] = "%" THEN <<"%", "%">> ELSE <<arg[i]>>])
Written(arg) == IF arg = Url THEN {Code}
                ELSE {Quoted(arg)} \cup IF ToSet(arg) \cap {"_", "q", "e"} = {} THEN {Plain(arg)} ELSE {}

Argument == UNION {[1..n -> ExecChar] : n \in 1..MaxLength}
Intended == UNION {[1..n -> Argument] : n \in 1..MaxArguments}

Line(parts) == FlattenSeq([i \in DOMAIN parts |-> IF i = 1 THEN parts[i] ELSE <<"_">> \o parts[i]])

\* The program, its arguments, and the place for an address last or nowhere.
LaunchingInit ==
  /\ entries \in {"none", "hidden", "terminal", "shown"} \X {"none", "shown"}
  /\ \E argv \in Intended, place \in {<<>>, <<Url>>} : intended = argv \o place
  /\ \E f \in [DOMAIN intended -> UNION {Written(intended[i]) : i \in DOMAIN intended}] :
       /\ \A i \in DOMAIN f : f[i] \in Written(intended[i])
       /\ exec = Line(f)
  /\ started = Nothing

----------------------------------------------------------------------------
(* split_exec_url, character by character: the arguments so far, the one   *)
(* being read, whether it is inside quotes, behind an escape or a percent. *)

Start == [args |-> <<>>, arg |-> <<>>, in |-> "plain", placed |-> FALSE, bad |-> FALSE]

\* Mutant: an escape inside quotes stays in the argument.
UnescapeKeeps(st, c) == [st EXCEPT !.arg = @ \o <<"e", c>>, !.in = "quoted"]
Unescape(st, c) == [st EXCEPT !.arg = Append(@, c), !.in = "quoted", !.bad = @ \/ c \notin {"q", "e"}]

Ended(st) == IF st.arg = <<>> THEN st ELSE [st EXCEPT !.args = Append(@, st.arg), !.arg = <<>>]

FieldCode(st, c, url) ==
  LET plain == [st EXCEPT !.in = "plain"]
  IN CASE c = "%" -> [plain EXCEPT !.arg = Append(@, "%")]
       [] c = "u" /\ url # <<>> -> [Ended(plain) EXCEPT !.args = @ \o url, !.placed = TRUE]
       [] c = "u" /\ url = <<>> -> plain
       [] OTHER -> [plain EXCEPT !.bad = TRUE]

Take(st, c, url) ==
  CASE st.in = "escaped" -> Unescape(st, c)
    [] st.in = "percent" -> FieldCode(st, c, url)
    [] st.in = "quoted" /\ c = "q" -> [st EXCEPT !.in = "plain"]
    [] st.in = "quoted" /\ c = "e" -> [st EXCEPT !.in = "escaped"]
    [] st.in = "quoted" /\ c \notin {"q", "e"} -> [st EXCEPT !.arg = Append(@, c)]
    [] st.in = "plain" /\ c = "q" -> [st EXCEPT !.in = "quoted"]
    [] st.in = "plain" /\ c = "%" -> [st EXCEPT !.in = "percent"]
    [] st.in = "plain" /\ c = "_" -> Ended(st)
    [] OTHER -> [st EXCEPT !.arg = Append(@, c)]

\* url: no address, or a sequence of one.  It goes where its code stands, else
\* last; a quote or code that is not finished is an error, and so is no argument.
SplitExec(line, url) ==
  LET st[i \in 0..Len(line)] == IF i = 0 THEN Start ELSE Take(st[i - 1], line[i], url)
      end == st[Len(line)]
      args == Ended(end).args
  IN IF end.bad \/ end.in # "plain" \/ args = <<>> THEN NotStarted
     ELSE Given(IF url # <<>> /\ ~end.placed THEN args \o url ELSE args)

\* desktop_app: the first directory whose entry is shown.
Found == \E i \in 1..2 : entries[i] \in {"terminal", "shown"}
Terminal == entries[CHOOSE i \in 1..2 : /\ entries[i] \in {"terminal", "shown"}
                                        /\ \A j \in 1..(i - 1) : entries[j] \in {"none", "hidden"}] = "terminal"

\* launch: an application that is there and needs no terminal.
Launch ==
  /\ started = Nothing
  /\ started' = IF ~Found \/ Terminal THEN NotStarted ELSE SplitExec(exec, <<>>)
  /\ UNCHANGED <<entries, intended, exec>>

\* open_url with new_window: the browser's own action, with the flag before the
\* address; without a browser that has one, the address goes to xdg-open.
NewWindow(args) == LET at == CHOOSE i \in DOMAIN args : args[i] = Url /\ \A j \in 1..(i - 1) : args[j] # Url
                   IN InsertAt(args, at, <<"--new-window">>)
OpenUrl ==
  /\ started = Nothing
  /\ LET line == SplitExec(exec, <<Url>>)
     IN started' = Given(IF Found /\ line # NotStarted THEN NewWindow(line.argv) ELSE << <<"xdg-open">>, Url>>)
  /\ UNCHANGED <<entries, intended, exec>>

LaunchingNext == Launch \/ OpenUrl

LaunchingSpec == LaunchingInit /\ [][LaunchingNext]_launchingVars

----------------------------------------------------------------------------
(* Properties.                                                             *)

\* However its author wrote them, an application is given the arguments they
\* meant: none parted at a blank, joined to the next or lost, and an address,
\* when there is one, whole and once.
ArgumentsSurvive ==
  started.how = "started" =>
    LET meant == IF Last(intended) = Url THEN Front(intended) ELSE intended
    IN started.argv \in {meant, Append(meant, <<"--new-window">>) \o <<Url>>, << <<"xdg-open">>, Url>>}
=============================================================================
