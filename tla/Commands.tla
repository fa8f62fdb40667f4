------------------------------ MODULE Commands ------------------------------
(***************************************************************************)
(* The gate's verdict on a command line (crates/cosmo-gate/src/lib.rs,     *)
(* Verdict::command): what run_in_terminal, dictate and typing into a      *)
(* terminal are judged by.                                                 *)
(*                                                                         *)
(* A line is a sequence of words; a separator (; && || | newline), an      *)
(* opening "$(" and its ")" are words of their own.  Quotes, letter case   *)
(* and the directory of a program are gone already: the tokenizer removes  *)
(* them wherever they stand.  Each list of the source is stood for by a    *)
(* member of each kind the rules tell apart.                               *)
(***************************************************************************)
EXTENDS Integers, Sequences, FiniteSets

CONSTANTS
  Word,             \* the words a line is made of
  MaxWords          \* bound: words in a line

VARIABLES
  line              \* the command line so far

Separators   == {";", "|"}
Shells       == {"sh", "bash"}
Wrappers     == {"env", "timeout"}
Interpreters == {"python"}
Elevators    == {"sudo"}
Fetchers     == {"curl"}
Installers   == {"apt"}
ExecFlags    == {"-exec"}
Options      == {"-rf", "-c", "-e", "-lc", "--hard", "-exec", "--"}
Assignments  == {"A=1"}
Numbers      == {"5"}

\* The words of a line and those that may stand around it.
AnyWord == Word \cup {"echo", "$(", ")"} \cup Shells \cup Wrappers \cup Options \cup Assignments \cup Numbers

Strictness == [Allow |-> 0, Hold |-> 1, Deny |-> 2]
AtLeast(v, w) == Strictness[v] >= Strictness[w]
Strictest(vs) == CHOOSE v \in vs \cup {"Allow"} : \A w \in vs : AtLeast(v, w)

\* MAX_NEST_DEPTH.
MaxNestDepth == 8

----------------------------------------------------------------------------

\* The positions of the words of s that are in ws.
At(s, ws) == {i \in 1..Len(s) : s[i] \in ws}
Least(S) == CHOOSE i \in S : \A j \in S : i <= j
From(s, i) == SubSeq(s, i, Len(s))

\* split_segments: the words between separators, none empty, by the cut before each.
Segments(s) ==
  LET cuts == At(s, Separators) \cup {0, Len(s) + 1}
      end(i) == Least({j \in cuts : j > i})
  IN [i \in {c \in cuts \ {Len(s) + 1} : end(c) > c + 1} |-> SubSeq(s, i + 1, end(i) - 1)]

\* substitutions: the body of each "$(" that is closed, the outermost ones.
Depth(s, i, j) == Cardinality({k \in i..j : s[k] = "$("}) - Cardinality({k \in i..j : s[k] = ")"})
Closes(s, i) == {j \in i..Len(s) : s[j] = ")" /\ Depth(s, i, j) = 0}
Spans(s) == {<<i, Least(Closes(s, i))>> : i \in {k \in At(s, {"$("}) : Closes(s, k) # {}}}
Substitutions(s) ==
  {SubSeq(s, b[1] + 1, b[2] - 1) :
     b \in {c \in Spans(s) : ~\E o \in Spans(s) : o[1] < c[1] /\ c[2] < o[2]}}

\* The leading words a wrapper takes for itself.
IsWrapperOption(w) == w \in Options \cup Assignments \cup Numbers
SkipOptions(s) == From(s, Least({i \in 1..(Len(s) + 1) : i <= Len(s) => ~IsWrapperOption(s[i])}))

\* A shell's -c flag, short, combined or long.
CommandFlags == {"-c", "-lc"}

\* Mutant: the options of a wrapper are taken for its command.
NestedCommandPlain(s) == IF Head(s) \in Shells \cup Wrappers THEN Tail(s) ELSE <<>>

\* nested_command: the command another one runs; <<>> when there is none.
NestedCommand(s) ==
  LET exec == At(s, ExecFlags)
      flag == At(s, CommandFlags)
  IN IF exec # {} /\ Least(exec) < Len(s) THEN From(s, Least(exec) + 1)
     ELSE IF Head(s) \in Shells THEN IF flag = {} THEN <<>> ELSE From(s, Least(flag) + 1)
     ELSE IF Head(s) \in Wrappers THEN SkipOptions(Tail(s))
     ELSE <<>>

\* Leading assignments; the last word of a segment is a program whatever it is.
SkipAssignments(s) == From(s, Least({i \in 1..Len(s) : i < Len(s) => s[i] \notin Assignments}))

Recursive(s) == At(Tail(s), {"-rf"}) # {}

\* The deny and hold lists, over a program and the words of its segment.
Listed(seg, s) ==
  LET base == Head(s)
      second == IF Len(s) > 1 THEN s[2] ELSE ""
  IN CASE base = "dd" -> "Deny"
       [] base = "rm" -> IF Recursive(seg) THEN "Deny" ELSE "Allow"
       [] base = "git" -> IF second = "push" THEN "Deny"
                          ELSE IF second = "reset" /\ At(seg, {"--hard"}) # {} THEN "Hold" ELSE "Allow"
       [] base = "reboot" -> "Hold"
       [] base \in Installers -> IF At(Tail(seg), {"install"}) # {} THEN "Hold" ELSE "Allow"
       [] OTHER -> "Allow"

\* segment_verdict_nested, with so many levels of nesting left.
SegmentLevel[left \in 0..(MaxNestDepth + 1)] ==
  [seg \in Seq(AnyWord) |->
     IF left = 0 THEN "Deny"
     ELSE IF seg = <<>> THEN "Allow"
     ELSE LET s == SkipAssignments(seg)
              nested == NestedCommand(s)
          IN IF At(s, Elevators) # {} THEN "Deny"
             ELSE IF Head(s) \in Interpreters /\ At(s, {"-c", "-e", "-exec"}) # {} THEN "Hold"
             ELSE IF nested # <<>> THEN SegmentLevel[left - 1][nested]
             ELSE Listed(seg, s)]

\* fetch_piped_to_shell: over the whole pipeline, fetch first.
FetchPipedToShell(segs) ==
  \E i, j \in DOMAIN segs : i < j /\ Head(segs[i]) \in Fetchers /\ Head(segs[j]) \in Shells

\* Verdict::command_nested.
CommandLevel[left \in 0..(MaxNestDepth + 1)] ==
  [s \in Seq(AnyWord) |->
     IF left = 0 \/ FetchPipedToShell(Segments(s)) THEN "Deny"
     ELSE Strictest({CommandLevel[left - 1][t] : t \in Substitutions(s)}
                    \cup {SegmentLevel[left][Segments(s)[i]] : i \in DOMAIN Segments(s)})]

LineVerdict(s) == CommandLevel[MaxNestDepth + 1][s]

\* verdict_for_call, its arms for a tool that carries a command.
StringVerdict(s) == IF s = <<>> THEN "Deny" ELSE LineVerdict(s)

----------------------------------------------------------------------------

CommandsInit == line = <<>>

\* The next word of the line.
NextWord ==
  /\ Len(line) < MaxWords
  /\ \E w \in Word : line' = Append(line, w)

CommandsSpec == CommandsInit /\ [][NextWord]_line

----------------------------------------------------------------------------
(* Properties.                                                             *)

\* A line is judged no more mildly than any of its commands (lib.rs: any denied
\* segment denies the whole, any held one holds it), and one command no more
\* mildly for being wrapped, given to a shell, substituted or prefixed with an
\* assignment ("nesting").  After -exec it is judged by what follows.
PartsDecide ==
  line # <<>> =>
    LET v == LineVerdict(line)
        single == At(line, Separators \cup ExecFlags) = {}
        body == At(line, {"$(", ")"}) = {}
    IN /\ \A i \in At(line, Separators) : /\ AtLeast(v, LineVerdict(SubSeq(line, 1, i - 1)))
                                          /\ AtLeast(v, LineVerdict(From(line, i + 1)))
       /\ body => AtLeast(LineVerdict(<<"echo", "$(">> \o line \o <<")">>), v)
       /\ single => \A p \in {<<"A=1">>, <<"sh", "-c">>, <<"timeout", "5">>} \cup {<<w>> : w \in Wrappers} :
                      AtLeast(LineVerdict(p \o line), v)
=============================================================================
