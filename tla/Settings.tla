------------------------------ MODULE Settings ------------------------------
(***************************************************************************)
(* The files the user owns, config.ron and profile.json, and the commands  *)
(* that edit them (crates/cosmo-config/src/lib.rs and profile.rs; the      *)
(* callers in cosmo-cli and cosmo-daemon).  A command reads the file,      *)
(* edits its copy, and replaces the file through a temporary name that all *)
(* commands share; a file is a sequence of lines, a field at most on each. *)
(***************************************************************************)
EXTENDS Naturals, Sequences, SequencesExt

CONSTANTS
  Writer,       \* commands and tool calls that save
  Key,          \* the fields
  Value,        \* values that are valid
  Invalid,      \* one that is not
  MaxSaves,     \* bound: commands in all
  MaxFields     \* bound: lines with a field in the first file

ASSUME SettingsAssumption == Invalid \notin Value /\ MaxSaves \in Nat /\ MaxFields \in Nat

VARIABLES
  inode,        \* inode[n]: what the file the n-th command created holds; 0 is the first
  path,         \* the inode the file's name leads to
  tmp,          \* the inode the temporary name leads to, or None
  edit,         \* edit[w]: how far a command is, its copy and its open file
  saves,        \* commands so far
  wanted,       \* ghost: the value last saved of each field
  raced         \* ghost: two commands were at it at once

settingsVars == <<inode, path, tmp, edit, saves, wanted, raced>>

Active(k, v)    == [kind |-> "active", key |-> k, value |-> v]
Commented(k, v) == [kind |-> "commented", key |-> k, value |-> v]
Note   == [kind |-> "note", key |-> "", value |-> ""]
OpenParen   == [kind |-> "open", key |-> "", value |-> ""]
CloseParen  == [kind |-> "close", key |-> "", value |-> ""]
NoFile   == MaxSaves + 1
Torn   == <<>>
NoEdit == [at |-> "free", lines |-> Torn, key |-> "", value |-> "", file |-> NoFile]

\* Serde's default of a field no line sets.
Default == CHOOSE v \in Value : TRUE

\* Reading: fields of the lines that are not comments, each at most once.
Lines(s, kind, k) == {i \in DOMAIN s : s[i].kind = kind /\ s[i].key = k}
EachOnce(s) == \A k \in Key : \A i, j \in Lines(s, "active", k) : i = j
Parses(s) == s # Torn /\ EachOnce(s)
Valid(s) == Parses(s) /\ \A i \in DOMAIN s : s[i].kind = "active" => s[i].value \in Value
ValueOf(s, k) == IF Lines(s, "active", k) = {} THEN Default
                 ELSE s[CHOOSE i \in Lines(s, "active", k) : TRUE].value

\* What is not a field stays where the user wrote it: before and after the
\* opening parenthesis, among the fields and at the end.
NotesKept(s) ==
  /\ Len(s) >= 4 /\ s[1] = Note /\ s[2] = OpenParen /\ s[Len(s)] = CloseParen
  /\ \E m \in 3..Len(s) - 1 :
       /\ s[m] = Note
       /\ \A i \in (3..Len(s) - 1) \ {m} : s[i].kind \in {"active", "commented"}

\* The first run's file has every field commented; the user may have set some,
\* removed others' lines, and written notes.
FieldLine == {Active(k, v) : k \in Key, v \in Value} \cup {Commented(k, Default) : k \in Key}
FirstFiles == {<<Note, OpenParen>> \o fields \o <<Note, CloseParen>> :
                 fields \in {s \in UNION {[1..n -> FieldLine] : n \in 0..MaxFields} : EachOnce(s)}}

SettingsInit ==
  /\ \E s \in FirstFiles :
       /\ inode = [n \in 0..MaxSaves |-> IF n = 0 THEN s ELSE Torn]
       /\ wanted = [k \in Key |-> ValueOf(s, k)]
  /\ path = 0
  /\ tmp = NoFile
  /\ edit = [w \in Writer |-> NoEdit]
  /\ saves = 0
  /\ raced = FALSE

----------------------------------------------------------------------------
(* set_string_fields.                                                      *)

LeastOf(S) == CHOOSE i \in S : \A j \in S : i <= j

\* The line that sets k, else its commented default, else none.
LineToSet(s, k) ==
  IF Lines(s, "active", k) # {} THEN LeastOf(Lines(s, "active", k))
  ELSE IF Lines(s, "commented", k) # {} THEN LeastOf(Lines(s, "commented", k)) ELSE 0

\* That line is rewritten; with none the field goes before the last ")".
SetField(s, k, v) ==
  LET i == LineToSet(s, k)
      last == CHOOSE j \in DOMAIN s : s[j] = CloseParen /\ \A n \in j + 1..Len(s) : s[n] # CloseParen
  IN IF i # 0 THEN [s EXCEPT ![i] = Active(k, v)] ELSE InsertAt(s, last, Active(k, v))

Editing(w) == edit[w].at # "free"

\* The file is read; one that is not whole is an error and stays as it is.
Read(w) ==
  /\ ~Editing(w) /\ saves < MaxSaves
  /\ saves' = saves + 1
  /\ raced' = (raced \/ \E v \in Writer : Editing(v))
  /\ \E k \in Key, v \in Value \cup {Invalid} :
       edit' = IF Parses(inode[path])
               THEN [edit EXCEPT ![w] = [NoEdit EXCEPT !.at = "read", !.lines = SetField(inode[path], k, v),
                                                       !.key = k, !.value = v, !.file = saves']]
               ELSE edit
  /\ UNCHANGED <<inode, path, tmp, wanted>>

\* The result must parse and be valid before anything is written.
Refused(w) ==
  /\ edit[w].at = "read" /\ ~Valid(edit[w].lines)
  /\ edit' = [edit EXCEPT ![w] = NoEdit]
  /\ UNCHANGED <<inode, path, tmp, saves, wanted, raced>>

\* Mutant: the file itself is opened for writing.
OpenTmpInPlace(w) ==
  /\ edit[w].at = "read" /\ Valid(edit[w].lines)
  /\ tmp' = path
  /\ inode' = [inode EXCEPT ![path] = Torn]
  /\ edit' = [edit EXCEPT ![w].at = "opened", ![w].file = path]
  /\ UNCHANGED <<path, saves, wanted, raced>>

\* The temporary file is created, or the one that is there emptied.
OpenTmp(w) ==
  /\ edit[w].at = "read" /\ Valid(edit[w].lines)
  /\ tmp' = IF tmp = NoFile THEN edit[w].file ELSE tmp
  /\ inode' = [inode EXCEPT ![tmp'] = Torn]
  /\ edit' = [edit EXCEPT ![w].at = "opened", ![w].file = tmp']
  /\ UNCHANGED <<path, saves, wanted, raced>>

WriteTmp(w) ==
  /\ edit[w].at = "opened"
  /\ inode' = [inode EXCEPT ![edit[w].file] = edit[w].lines]
  /\ edit' = [edit EXCEPT ![w].at = "written"]
  /\ UNCHANGED <<path, tmp, saves, wanted, raced>>

\* The temporary name becomes the file's; gone when another command was faster.
Rename(w) ==
  /\ edit[w].at = "written"
  /\ IF tmp = NoFile THEN UNCHANGED <<path, tmp, wanted>>
     ELSE /\ path' = tmp /\ tmp' = NoFile
          /\ wanted' = [wanted EXCEPT ![edit[w].key] = edit[w].value]
  /\ edit' = [edit EXCEPT ![w] = NoEdit]
  /\ UNCHANGED <<inode, saves, raced>>

\* The process is killed, the disk is full, or the caller goes away.
Dies(w) ==
  /\ Editing(w)
  /\ edit' = [edit EXCEPT ![w] = NoEdit]
  /\ UNCHANGED <<inode, path, tmp, saves, wanted, raced>>

SettingsNext == \E w \in Writer : \/ Read(w) \/ Refused(w) \/ OpenTmp(w) \/ WriteTmp(w)
                                  \/ Rename(w) \/ Dies(w)

SettingsSpec == SettingsInit /\ [][SettingsNext]_settingsVars

----------------------------------------------------------------------------
(* Properties.                                                             *)

\* While no two commands were at it at once, whatever was killed or refused in
\* between: the file is whole, every field has the value last saved of it, and
\* the user's notes are where they were.
SavedIsKept ==
  ~raced => /\ Valid(inode[path])
            /\ \A k \in Key : ValueOf(inode[path], k) = wanted[k]
            /\ NotesKept(inode[path])
=============================================================================
