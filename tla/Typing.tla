------------------------------- MODULE Typing -------------------------------
(***************************************************************************)
(* Text injection: crates/cosmo-type/src/lib.rs.  A text is cut into       *)
(* segments of at most KEYMAP_BUDGET distinct characters; for each, a      *)
(* keymap with exactly those characters is installed and the keys tapped.  *)
(*                                                                         *)
(* The reader is the worst the module comments know: an X11 client, which  *)
(* turns a keycode into a character when it reads it, through the keymap   *)
(* Xwayland holds by then.  It is assumed to catch up within SEGMENT_PAUSE.*)
(* A keycode is its place in TEXT_KEYCODES.                                *)
(***************************************************************************)
EXTENDS Naturals, Sequences, SequencesExt

CONSTANTS
  Char,             \* the alphabet
  Budget,           \* KEYMAP_BUDGET, the length of TEXT_KEYCODES
  MaxTextLength     \* bound: characters of a text

ASSUME TypingAssumption == Budget \in Nat \ {0} /\ MaxTextLength \in Nat

VARIABLES
  text,             \* the text to type
  segments,         \* its segments not yet typed, the current one first
  typist,           \* what type_text does next
  keymap,           \* the keymap the compositor has installed
  toTap,            \* characters of the segment not yet tapped
  unread,           \* keycodes tapped and not yet read
  readText          \* what the client has read

typingVars == <<text, segments, typist, keymap, toTap, unread, readText>>

Distinct(s) == Cardinality(ToSet(s))

\* segment_by_distinct: a character that does not fit the last segment starts the next.
Cut(out, c) ==
  IF out = <<>> \/ (c \notin ToSet(Last(out)) /\ Distinct(Last(out)) >= Budget)
  THEN Append(out, <<c>>)
  ELSE [out EXCEPT ![Len(out)] = Append(@, c)]
Segments(s) ==
  LET out[i \in 0..Len(s)] == IF i = 0 THEN <<>> ELSE Cut(out[i - 1], s[i]) IN out[Len(s)]

\* The characters of a segment by first appearance, each on its own keycode.
WithKey(order, c) == IF c \in ToSet(order) THEN order ELSE Append(order, c)
KeymapOf(segment) ==
  LET order[i \in 0..Len(segment)] == IF i = 0 THEN <<>> ELSE WithKey(order[i - 1], segment[i])
  IN order[Len(segment)]

TypingInit ==
  /\ text \in UNION {[1..n -> Char] : n \in 0..MaxTextLength}
  /\ segments = Segments(text) /\ typist = "keymap"
  /\ keymap = <<>> /\ toTap = <<>> /\ unread = <<>> /\ readText = <<>>

\* The keymap is uploaded, and a round trip waits for the compositor.
InstallKeymap ==
  /\ typist = "keymap" /\ segments # <<>>
  /\ keymap' = KeymapOf(Head(segments)) /\ toTap' = Head(segments)
  /\ typist' = "tap"
  /\ UNCHANGED <<text, segments, unread, readText>>

\* A character past the last keycode has no key: nothing types it.
KeysFor(c) == {code \in DOMAIN keymap : code <= Budget /\ keymap[code] = c}
Tap ==
  /\ typist = "tap" /\ toTap # <<>>
  /\ unread' = IF KeysFor(Head(toTap)) = {} THEN unread
               ELSE Append(unread, CHOOSE code \in KeysFor(Head(toTap)) : TRUE)
  /\ toTap' = Tail(toTap)
  /\ UNCHANGED <<text, segments, typist, keymap, readText>>

SegmentTyped ==
  /\ typist = "tap" /\ toTap = <<>>
  /\ segments' = Tail(segments)
  /\ typist' = IF Tail(segments) = <<>> THEN "end" ELSE "pause"
  /\ UNCHANGED <<text, keymap, toTap, unread, readText>>

\* Mutant: the next keymap follows at once.
PauseNot ==
  /\ typist = "pause"
  /\ typist' = "keymap"
  /\ UNCHANGED <<text, segments, keymap, toTap, unread, readText>>

\* SEGMENT_PAUSE, in which the reader catches up
Pause ==
  /\ typist = "pause" /\ unread = <<>>
  /\ typist' = "keymap"
  /\ UNCHANGED <<text, segments, keymap, toTap, unread, readText>>

ReadKey ==
  /\ unread # <<>>
  /\ readText' = Append(readText, IF Head(unread) \in DOMAIN keymap THEN keymap[Head(unread)]
                                  ELSE "layout")
  /\ unread' = Tail(unread)
  /\ UNCHANGED <<text, segments, typist, keymap, toTap>>

TypingNext == InstallKeymap \/ Tap \/ SegmentTyped \/ Pause \/ ReadKey

TypingSpec == TypingInit /\ [][TypingNext]_typingVars

-----------------------------------------------------------------------------

\* What the client reads is the text, at every moment a prefix of it and in the
\* end all of it, however late it reads and wherever the text was cut
\* (lib.rs:217: swap too soon and the tail reads through the next keymap).
TypedAsGiven ==
  /\ IsPrefix(readText, text)
  /\ typist = "end" /\ unread = <<>> => readText = text
=============================================================================
