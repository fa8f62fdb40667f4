------------------------------ MODULE Sentences ------------------------------
(***************************************************************************)
(* A reply cut into sentences while the model writes it                    *)
(* (crates/cosmo-tts/src/sentence.rs; crates/cosmo-daemon/src/speech.rs,   *)
(* speak_stream).  Text is a sequence of characters, one of each kind the  *)
(* rules tell apart: "a" and "b" small letters, "A" a capital, "1" a       *)
(* digit, " " and "/" (a new line) white space, "." a full stop, "!" a     *)
(* stronger end, ")" a closing bracket.  No known abbreviation is longer   *)
(* than the initials the rules also know.                                  *)
(***************************************************************************)
EXTENDS Naturals, Sequences, SequencesExt

CONSTANTS
  Char,             \* the characters of the reply
  MaxReply,          \* bound: characters in a reply
  MaxDelta          \* bound: characters that arrive at once

ASSUME SentencesAssumption == MaxReply \in Nat /\ MaxDelta \in Nat

Space      == {" ", "/"}
Small      == {"a", "b"}
Letter     == Small \cup {"A"}
Terminator == {".", "!"}
Closing    == {")"}

VARIABLES
  reply,            \* everything the model has written
  pending,          \* what may still be growing
  spoken,           \* the sentences queued, in order
  closed            \* the reply is complete

sentencesVars == <<reply, pending, spoken, closed>>

----------------------------------------------------------------------------

\* push_chunk's trim.
Printed(s) == {i \in 1..Len(s) : s[i] \notin Space}
Trim(s) == IF Printed(s) = {} THEN <<>> ELSE SubSeq(s, Min(Printed(s)), Max(Printed(s)))
Chunk(s) == IF Trim(s) = <<>> THEN <<>> ELSE <<Trim(s)>>

\* The first position from i on whose character is not in cs; Len + 1 if none.
SkipPast(s, i, cs) == Min({j \in i..Len(s) : s[j] \notin cs} \cup {Len(s) + 1})

\* The word that ends right before i, and whether it begins its line.
WordStart(s, from, i) == Min({j \in from..i : \A k \in j..(i - 1) : s[k] \notin Space})
BeginsLine(s, from, i) == \A j \in from..(i - 1) :
                            s[j] \in Space \/ \E k \in (j + 1)..(i - 1) : s[k] = "/"

\* is_abbreviation: an initial, or the number of a list's item.
IsAbbreviation(s, from, i) ==
  LET w == WordStart(s, from, i)
      word == SubSeq(s, w, i - 1)
  IN \/ Len(word) = 1 /\ word[1] \in Letter
     \/ word # <<>> /\ Len(word) <= 3 /\ ToSet(word) \subseteq {"1"} /\ BeginsLine(s, from, w)

IsSentenceStart(c) == c \in {"A", "1"}

\* allows_boundary: the run of terminators from i to j, the next character, and
\* whether a bracket closes in between.
AllowsBoundary(s, from, i, j, next, closes) ==
  CASE s[i] = "." /\ j > i -> TRUE
    [] s[i] = "." -> IsSentenceStart(next) /\ ~IsAbbreviation(s, from, i)
    [] OTHER -> ~closes \/ IsSentenceStart(next)

\* One turn of split's loop, at place `at` of a sentence that began at `from`.
Scan(s, st) ==
  LET i == st.at
      blank == SkipPast(s, i, Space)
      lines == Cardinality({j \in i..(blank - 1) : s[j] = "/"})
      run == SkipPast(s, i, {s[i]}) - 1
      end == SkipPast(s, run + 1, Closing) - 1
      after == SkipPast(s, end + 1, Space)
      boundary == \/ after > Len(s)
                  \/ /\ after > end + 1
                     /\ AllowsBoundary(s, st.from, i, run, s[after], end > run)
      upTo(last) == st.out \o Chunk(SubSeq(s, st.from, last))
  IN IF i > Len(s) THEN st
     ELSE IF s[i] = "/" /\ lines >= 2 THEN [out |-> upTo(i - 1), from |-> blank, at |-> blank]
     ELSE IF s[i] \notin Terminator THEN [st EXCEPT !.at = i + 1]
     ELSE IF boundary THEN [out |-> upTo(end), from |-> end + 1, at |-> end + 1]
     ELSE [st EXCEPT !.at = end + 1]

\* split: the loop takes no more turns than there are characters.
Split(s) ==
  LET st[n \in 0..Len(s)] ==
        IF n = 0 THEN [out |-> <<>>, from |-> 1, at |-> 1] ELSE Scan(s, st[n - 1])
  IN  st[Len(s)].out \o Chunk(SubSeq(s, st[Len(s)].from, Len(s)))

----------------------------------------------------------------------------

SentencesInit == reply = <<>> /\ pending = <<>> /\ spoken = <<>> /\ closed = FALSE

\* All but the last piece is finished; the last may still be growing.
GrowingAgain(parts) == parts[1]
Growing(parts) == parts[Len(parts)]

\* Text arrives: the finished sentences are queued.
Arrives ==
  /\ ~closed
  /\ \E d \in UNION {[1..n -> Char] : n \in 1..MaxDelta} :
       LET text == pending \o d
           parts == Split(text)
       IN /\ Len(reply) + Len(d) <= MaxReply
          /\ reply' = reply \o d
          /\ IF Len(parts) < 2
             THEN pending' = text /\ UNCHANGED spoken
             ELSE pending' = Growing(parts) /\ spoken' = spoken \o Front(parts)
  /\ UNCHANGED closed

\* The reply is complete: what is left is queued.
Finish ==
  /\ ~closed
  /\ closed' = TRUE
  /\ spoken' = spoken \o Split(pending)
  /\ pending' = <<>>
  /\ UNCHANGED reply

SentencesNext == Arrives \/ Finish

SentencesSpec == SentencesInit /\ [][SentencesNext]_sentencesVars

----------------------------------------------------------------------------
(* Properties.                                                             *)

Said == FlattenSeq(spoken)

\* The characters of s that are not white space.
Solid(s) == FlattenSeq([i \in DOMAIN s |-> IF s[i] \in Space THEN <<>> ELSE <<s[i]>>])

\* However a reply is cut into pieces on its way, every character of it is
\* spoken once, in order, or still waiting to be.
NothingLost == Solid(Said) \o Solid(pending) = Solid(reply)

=============================================================================
