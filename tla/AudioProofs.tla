----------------------------- MODULE AudioProofs -----------------------------
(***************************************************************************)
(* Theorems about what is heard and what is said: the hold behind a        *)
(* key-held turn (Listening), the speech gate and the clips that were      *)
(* played (Playback), and the voice with its files (Voice), for any        *)
(* keyboards, clips and switches, in any number.                           *)
(***************************************************************************)
EXTENDS Listening, Playback, Voice, FiniteSetTheorems, TLAPS

LEMMA Appended ==
  ASSUME NEW S, NEW s \in Seq(S), NEW x \in S
  PROVE  /\ Append(s, x) \in Seq(S) /\ Len(s) \in Nat /\ Len(Append(s, x)) = Len(s) + 1
         /\ DOMAIN s = 1..Len(s) /\ DOMAIN Append(s, x) = 1..(Len(s) + 1)
         /\ \A i \in DOMAIN s : Append(s, x)[i] = s[i]
         /\ Append(s, x)[Len(s) + 1] = x
         /\ \A i \in DOMAIN Append(s, x) : i \in DOMAIN s \/ i = Len(s) + 1
  OBVIOUS

LEMMA HeadTaken ==
  ASSUME NEW S, NEW s \in Seq(S), s # <<>>
  PROVE  /\ Tail(s) \in Seq(S) /\ Head(s) \in S /\ Head(s) = s[1] /\ 1 \in DOMAIN s
         /\ \A i \in DOMAIN Tail(s) : i \in Nat /\ i + 1 \in DOMAIN s /\ Tail(s)[i] = s[i + 1]
         /\ \A i \in DOMAIN s : i \in Nat /\ (i > 1 => i - 1 \in DOMAIN Tail(s))
  <1>1. Len(s) \in Nat /\ Len(s) # 0 /\ Len(Tail(s)) = Len(s) - 1
    OBVIOUS
  <1> QED
    BY <1>1

-----------------------------------------------------------------------------
(***************************************************************************)
(* Listening.  A press is followed in the channel by the release of the    *)
(* same hold, or by no other edge while the trigger is still held: that is *)
(* what lets the controller take the next release it sees for the end of   *)
(* the recording the press began.                                          *)
(***************************************************************************)

Trigger == [kind : {"Press", "Release", "Toggle"}, hold : Nat]
Phases == {"idle", "checking", "recording", "tail", "finishing"}
Recording == [phase : Phases, start : {"none", "Key", "Toggle", "Wake"}, hold : Nat,
              end : {"none", "release", "toggle", "timeout"}, last : Nat]

ListeningTypes ==
  /\ triggers \in Seq(Trigger) /\ holds \in Nat
  /\ ctl \in Recording

\* After position i of channel s the first edge is the release of hold n, or
\* there is none and the hold is still on.
LetGo(s, i, n, on) ==
  \/ \E j \in DOMAIN s :
       /\ j > i /\ s[j].kind = "Release" /\ s[j].hold = n
       /\ \A m \in DOMAIN s : i < m /\ m < j => s[m].kind = "Toggle"
  \/ on /\ \A m \in DOMAIN s : i < m => s[m].kind = "Toggle"

On(n) == held # {} /\ holds = n

\* Each press in the channel has its own release, or is of the hold that is on.
PressesAreHolds ==
  \A i \in DOMAIN triggers, n \in Nat :
    triggers[i].kind = "Press" /\ triggers[i].hold = n
      => n > 0 /\ LetGo(triggers, i, n, On(n))

\* A recording the key began waits for the release of its own hold.
RecordsOneHold ==
  ctl.start = "Key" =>
    /\ ctl.hold > 0
    /\ ctl.phase = "recording" => LetGo(triggers, 0, ctl.hold, On(ctl.hold))
    /\ ctl.phase \in {"tail", "finishing"} /\ ctl.end = "release" => ctl.last = ctl.hold

HoldInv == ListeningTypes /\ PressesAreHolds /\ RecordsOneHold /\ KeyHeldIsOneHold

LEMMA ListeningInitial == ListeningInit => HoldInv
  <1>1. <<>> \in Seq(Trigger) /\ DOMAIN <<>> = {}
    OBVIOUS
  <1> QED
    BY <1>1 DEF ListeningInit, HoldInv, ListeningTypes, Recording, Phases, PressesAreHolds,
                RecordsOneHold, KeyHeldIsOneHold, Idle, NoTurn

\* The channel grows by a toggle, or by the release of the hold that was on.
LEMMA LetGoGrows ==
  ASSUME NEW s \in Seq(Trigger), NEW e \in Trigger, NEW i \in Nat, NEW n \in Nat,
         NEW on \in BOOLEAN, NEW still \in BOOLEAN, LetGo(s, i, n, on),
         i \in DOMAIN s \/ i = 0,
         on => \/ e.kind = "Toggle" /\ still
               \/ e.kind = "Release" /\ e.hold = n
  PROVE  LetGo(Append(s, e), i, n, still)
  <1> DEFINE t == Append(s, e)
  <1>1. /\ Len(s) \in Nat /\ DOMAIN s = 1..Len(s) /\ DOMAIN t = 1..(Len(s) + 1)
        /\ \A j \in DOMAIN s : t[j] = s[j]
        /\ t[Len(s) + 1] = e
    BY Appended
  <1> HIDE DEF t
  <1>2. CASE \E j \in DOMAIN s :
               /\ j > i /\ s[j].kind = "Release" /\ s[j].hold = n
               /\ \A m \in DOMAIN s : i < m /\ m < j => s[m].kind = "Toggle"
    <2>1. PICK j \in DOMAIN s :
               /\ j > i /\ s[j].kind = "Release" /\ s[j].hold = n
               /\ \A m \in DOMAIN s : i < m /\ m < j => s[m].kind = "Toggle"
      BY <1>2
    <2>2. j \in DOMAIN t /\ t[j] = s[j]
      BY <1>1
    <2>3. \A m \in DOMAIN t : i < m /\ m < j => t[m].kind = "Toggle"
      BY <1>1, <2>1
    <2> QED
      BY <2>1, <2>2, <2>3 DEF LetGo, t
  <1>3. CASE on /\ \A m \in DOMAIN s : i < m => s[m].kind = "Toggle"
    <2>1. CASE e.kind = "Toggle" /\ still
      <3>1. \A m \in DOMAIN t : i < m => t[m].kind = "Toggle"
        BY <1>1, <1>3, <2>1
      <3> QED
        BY <2>1, <3>1 DEF LetGo, t
    <2>2. CASE e.kind = "Release" /\ e.hold = n
      <3>1. Len(s) + 1 \in DOMAIN t /\ Len(s) + 1 > i
        BY <1>1
      <3>2. \A m \in DOMAIN t : i < m /\ m < Len(s) + 1 => t[m].kind = "Toggle"
        BY <1>1, <1>3
      <3> QED
        BY <1>1, <2>2, <3>1, <3>2 DEF LetGo, t
    <2> QED
      BY <1>3, <2>1, <2>2
  <1> QED
    BY <1>2, <1>3 DEF LetGo

\* The head of the channel is taken: positions move down by one.
LEMMA LetGoMoves ==
  ASSUME NEW s \in Seq(Trigger), s # <<>>, NEW i \in Nat, NEW n \in Nat, NEW on \in BOOLEAN,
         LetGo(s, i, n, on),
         i > 0 \/ Head(s).kind = "Toggle"
  PROVE  LetGo(Tail(s), IF i = 0 THEN 0 ELSE i - 1, n, on)
  <1> DEFINE t == Tail(s)
             k == IF i = 0 THEN 0 ELSE i - 1
  <1>1. /\ Head(s) = s[1] /\ 1 \in DOMAIN s
        /\ \A m \in DOMAIN t : m \in Nat /\ m > 0 /\ m + 1 \in DOMAIN s /\ t[m] = s[m + 1]
        /\ \A m \in DOMAIN s : m \in Nat /\ (m > 1 => m - 1 \in DOMAIN t)
    <2>1. DOMAIN t = 1..Len(t) /\ Len(t) \in Nat
      OBVIOUS
    <2> QED
      BY HeadTaken, <2>1
  <1>2. k \in Nat /\ \A m \in Nat : m > 0 /\ k < m => i < m + 1
    OBVIOUS
  <1> HIDE DEF t
  <1>3. CASE \E j \in DOMAIN s :
               /\ j > i /\ s[j].kind = "Release" /\ s[j].hold = n
               /\ \A m \in DOMAIN s : i < m /\ m < j => s[m].kind = "Toggle"
    <2>1. PICK j \in DOMAIN s :
               /\ j > i /\ s[j].kind = "Release" /\ s[j].hold = n
               /\ \A m \in DOMAIN s : i < m /\ m < j => s[m].kind = "Toggle"
      BY <1>3
    <2>2. j \in Nat /\ j > 1
      <3>1. j # 1
        BY <1>1, <2>1
      <3> QED
        BY <1>1, <2>1, <3>1
    <2>3. j - 1 \in DOMAIN t /\ t[j - 1] = s[j] /\ j - 1 > k
      <3>1. j - 1 \in DOMAIN t
        BY <1>1, <2>2
      <3>2. (j - 1) + 1 = j /\ j - 1 > k
        BY <2>1, <2>2
      <3>3. t[j - 1] = s[(j - 1) + 1]
        BY <1>1, <3>1
      <3> QED
        BY <3>1, <3>2, <3>3
    <2>4. \A m \in DOMAIN t : k < m /\ m < j - 1 => t[m].kind = "Toggle"
      <3> SUFFICES ASSUME NEW m \in DOMAIN t, k < m, m < j - 1 PROVE t[m].kind = "Toggle"
        OBVIOUS
      <3>1. m + 1 \in DOMAIN s /\ t[m] = s[m + 1] /\ i < m + 1 /\ m + 1 < j
        <4>1. m \in Nat /\ m > 0 /\ m + 1 \in DOMAIN s /\ t[m] = s[m + 1]
          BY <1>1
        <4>2. i < m + 1 /\ m + 1 < j
          BY <1>2, <2>2, <4>1
        <4> QED
          BY <4>1, <4>2
      <3> QED
        BY <2>1, <3>1
    <2> QED
      BY <2>1, <2>3, <2>4 DEF LetGo, t
  <1>4. CASE on /\ \A m \in DOMAIN s : i < m => s[m].kind = "Toggle"
    <2>1. \A m \in DOMAIN t : k < m => t[m].kind = "Toggle"
      BY <1>1, <1>2, <1>4
    <2> QED
      BY <1>4, <2>1 DEF LetGo, t
  <1> QED
    BY <1>3, <1>4 DEF LetGo

\* The channel grows: a press comes after no hold was on, and is on itself.
LEMMA ChannelGrows ==
  ASSUME ListeningTypes, PressesAreHolds, RecordsOneHold, NEW e \in Trigger,
         triggers' = Append(triggers, e), holds' \in Nat, UNCHANGED ctl,
         \A n \in Nat : On(n) => \/ e.kind = "Toggle" /\ On(n)'
                                 \/ e.kind = "Release" /\ e.hold = n,
         e.kind = "Press" => e.hold > 0 /\ On(e.hold)'
  PROVE  ListeningTypes' /\ PressesAreHolds' /\ RecordsOneHold'
  <1>1. /\ Len(triggers) \in Nat /\ DOMAIN triggers = 1..Len(triggers)
        /\ triggers' \in Seq(Trigger)
        /\ \A i \in DOMAIN triggers : triggers'[i] = triggers[i]
        /\ triggers'[Len(triggers) + 1] = e
        /\ \A i \in DOMAIN triggers' : i \in DOMAIN triggers \/ i = Len(triggers) + 1
    BY Appended DEF ListeningTypes
  <1>2. ListeningTypes'
    BY <1>1 DEF ListeningTypes
  <1>3. \A i \in Nat, n \in Nat : (i \in DOMAIN triggers \/ i = 0) /\ LetGo(triggers, i, n, On(n))
                                    => LetGo(triggers', i, n, On(n)')
    <2> SUFFICES ASSUME NEW i \in Nat, NEW n \in Nat, i \in DOMAIN triggers \/ i = 0,
                        LetGo(triggers, i, n, On(n))
                 PROVE  LetGo(triggers', i, n, On(n)')
      OBVIOUS
    <2>1. On(n) \in BOOLEAN /\ On(n)' \in BOOLEAN
      BY DEF On
    <2> QED
      BY <2>1, LetGoGrows DEF ListeningTypes
  <1>4. PressesAreHolds'
    <2> SUFFICES ASSUME NEW i \in DOMAIN triggers', NEW n \in Nat,
                        triggers'[i].kind = "Press", triggers'[i].hold = n
                 PROVE  n > 0 /\ LetGo(triggers', i, n, On(n)')
      BY DEF PressesAreHolds, On
    <2>1. CASE i \in DOMAIN triggers
      <3>1. i \in Nat /\ triggers'[i] = triggers[i]
        BY <1>1, <2>1
      <3> QED
        BY <1>3, <2>1, <3>1 DEF PressesAreHolds
    <2>2. CASE i = Len(triggers) + 1
      <3>1. triggers'[i] = e
        BY <1>1, <2>2
      <3>2. \A m \in DOMAIN triggers' : ~(i < m)
        BY <1>1, <2>2
      <3>3. n = e.hold /\ n > 0 /\ On(n)'
        BY <3>1
      <3> QED
        BY <3>2, <3>3 DEF LetGo
    <2> QED
      BY <1>1, <2>1, <2>2
  <1>5. RecordsOneHold'
    <2>1. ctl.hold \in Nat
      BY DEF ListeningTypes, Recording
    <2> QED
      BY <1>3, <2>1 DEF RecordsOneHold, On
  <1> QED
    BY <1>2, <1>4, <1>5

\* The trigger is pressed or released on a keyboard, or its device goes.
LEMMA HoldsNowKeeps ==
  ASSUME HoldInv, NEW S, HoldsNow(S), UNCHANGED earVars
  PROVE  HoldInv'
  <1> USE DEF HoldInv
  <1>0. KeyHeldIsOneHold' /\ UNCHANGED ctl
    BY DEF KeyHeldIsOneHold, earVars
  <1>1. CASE held = {} /\ S # {} /\ holds' = holds + 1 /\ Send("Press", holds + 1)
    <2>0. PICK e : e = [kind |-> "Press", hold |-> holds + 1]
      OBVIOUS
    <2>1. e \in Trigger /\ e.kind = "Press" /\ e.hold = holds + 1 /\ holds' \in Nat /\ e.hold > 0
      BY <1>1, <2>0 DEF Trigger, ListeningTypes
    <2>2. triggers' = Append(triggers, e) /\ On(e.hold)' /\ \A n \in Nat : ~On(n)
      BY <1>1, <2>0, <2>1 DEF Send, HoldsNow, On
    <2> QED
      BY <1>0, <2>1, <2>2, ChannelGrows
  <1>2. CASE held # {} /\ S = {} /\ Send("Release", holds) /\ UNCHANGED holds
    <2>0. PICK e : e = [kind |-> "Release", hold |-> holds]
      OBVIOUS
    <2>1. e \in Trigger /\ e.kind = "Release" /\ e.hold = holds /\ holds' \in Nat
      BY <1>2, <2>0 DEF Trigger, ListeningTypes
    <2>2. triggers' = Append(triggers, e) /\ \A n \in Nat : On(n) => n = holds
      BY <1>2, <2>0, <2>1 DEF Send, On
    <2> QED
      BY <1>0, <2>1, <2>2, ChannelGrows
  <1>3. CASE (held = {}) = (S = {}) /\ UNCHANGED <<holds, triggers>>
    <2>1. \A n : On(n)' = On(n)
      BY <1>3 DEF On, HoldsNow
    <2> QED
      BY <1>0, <1>3, <2>1 DEF ListeningTypes, PressesAreHolds, RecordsOneHold, On, HoldsNow
  <1> QED
    BY <1>1, <1>2, <1>3 DEF HoldsNow

\* The controller takes the head of the channel.
LEMMA HeadLeaves ==
  ASSUME ListeningTypes, PressesAreHolds, triggers # <<>>, triggers' = Tail(triggers),
         UNCHANGED <<held, holds>>
  PROVE  /\ triggers' \in Seq(Trigger) /\ PressesAreHolds' /\ Head(triggers).hold \in Nat
         /\ \A n \in Nat :
              /\ Head(triggers).kind = "Press" /\ Head(triggers).hold = n
                   => n > 0 /\ LetGo(triggers', 0, n, On(n)')
              /\ LetGo(triggers, 0, n, On(n)) =>
                   /\ Head(triggers).kind # "Press"
                   /\ Head(triggers).kind = "Release" => Head(triggers).hold = n
                   /\ Head(triggers).kind = "Toggle" => LetGo(triggers', 0, n, On(n)')
  <1>1. /\ triggers' \in Seq(Trigger) /\ Head(triggers) = triggers[1] /\ 1 \in DOMAIN triggers
        /\ Head(triggers) \in Trigger
        /\ \A m \in DOMAIN triggers' : m + 1 \in DOMAIN triggers /\ triggers'[m] = triggers[m + 1]
    BY HeadTaken DEF ListeningTypes
  <1>2. \A m \in DOMAIN triggers' : m \in Nat /\ m > 0
    BY <1>1
  <1>3. \A m \in DOMAIN triggers : m \in Nat /\ m > 0
    BY DEF ListeningTypes
  <1>4. \A n : On(n)' = On(n) /\ On(n) \in BOOLEAN
    BY DEF On
  <1>5. \A i \in Nat, n \in Nat :
          (i > 0 \/ Head(triggers).kind = "Toggle") /\ LetGo(triggers, i, n, On(n))
            => LetGo(triggers', IF i = 0 THEN 0 ELSE i - 1, n, On(n)')
    BY <1>4, LetGoMoves DEF ListeningTypes
  <1>6. PressesAreHolds'
    <2> SUFFICES ASSUME NEW i \in DOMAIN triggers', NEW n \in Nat,
                        triggers'[i].kind = "Press", triggers'[i].hold = n
                 PROVE  n > 0 /\ LetGo(triggers', i, n, On(n)')
      BY DEF PressesAreHolds, On
    <2>1. i \in Nat /\ i + 1 \in DOMAIN triggers /\ i + 1 > 0 /\ i + 1 # 0 /\ (i + 1) - 1 = i
      BY <1>1, <1>2
    <2>2. n > 0 /\ LetGo(triggers, i + 1, n, On(n))
      BY <1>1, <2>1 DEF PressesAreHolds
    <2>3. LetGo(triggers', IF i + 1 = 0 THEN 0 ELSE (i + 1) - 1, n, On(n)')
      BY <1>5, <2>1, <2>2
    <2> QED
      BY <2>1, <2>2, <2>3
  <1>7. Head(triggers).hold \in Nat
    BY <1>1 DEF Trigger
  <1>8. \A n \in Nat : Head(triggers).kind = "Press" /\ Head(triggers).hold = n
                         => n > 0 /\ LetGo(triggers', 0, n, On(n)')
    <2> SUFFICES ASSUME NEW n \in Nat, Head(triggers).kind = "Press", Head(triggers).hold = n
                 PROVE  n > 0 /\ LetGo(triggers', 0, n, On(n)')
      OBVIOUS
    <2>1. n > 0 /\ LetGo(triggers, 1, n, On(n))
      BY <1>1 DEF PressesAreHolds
    <2>2. LetGo(triggers', IF 1 = 0 THEN 0 ELSE 1 - 1, n, On(n)')
      BY <1>5, <2>1
    <2> QED
      BY <2>1, <2>2
  <1>9. \A n \in Nat : LetGo(triggers, 0, n, On(n)) =>
                   /\ Head(triggers).kind # "Press"
                   /\ Head(triggers).kind = "Release" => Head(triggers).hold = n
    <2> SUFFICES ASSUME NEW n \in Nat, LetGo(triggers, 0, n, On(n)), Head(triggers).kind # "Toggle"
                 PROVE  Head(triggers).kind = "Release" /\ Head(triggers).hold = n
      OBVIOUS
    <2>1. PICK j \in DOMAIN triggers :
            /\ j > 0 /\ triggers[j].kind = "Release" /\ triggers[j].hold = n
            /\ \A m \in DOMAIN triggers : 0 < m /\ m < j => triggers[m].kind = "Toggle"
      BY <1>1, <1>3 DEF LetGo
    <2>2. ~(1 < j)
      BY <1>1, <2>1
    <2>3. j = 1
      BY <1>3, <2>2
    <2> QED
      BY <1>1, <2>1, <2>3
  <1> QED
    BY <1>1, <1>5, <1>6, <1>7, <1>8, <1>9

LEMMA StartedIs ==
  ASSUME NEW start \in {"Key", "Toggle", "Wake"}, NEW n \in Nat
  PROVE  /\ Started(start, n) \in Recording /\ Started(start, n).phase = "recording"
         /\ Started(start, n).start = start /\ Started(start, n).hold = n
  <1> DEFINE a == [Idle EXCEPT !.phase = "recording"]
             b == [a EXCEPT !.start = start]
             c == [b EXCEPT !.hold = n]
  <1>1. a \in Recording /\ a.phase = "recording"
    BY DEF Idle, Recording, Phases
  <1> HIDE DEF a
  <1>2. b \in Recording /\ b.phase = "recording" /\ b.start = start
    BY <1>1 DEF Recording
  <1> HIDE DEF b
  <1>3. c \in Recording /\ c.phase = "recording" /\ c.start = start /\ c.hold = n
    BY <1>2 DEF Recording
  <1>4. Started(start, n) = c
    BY DEF Started, a, b
  <1> QED
    BY <1>3, <1>4

\* A new recording is none, or one of its trigger; it has not ended.
LEMMA Begins ==
  ASSUME NEW start \in {"Key", "Toggle", "Wake"}, NEW n \in Nat, Begin(start, n)
  PROVE  /\ ctl' \in Recording /\ ctl'.phase \in {"idle", "recording"}
         /\ ctl'.start = "Key" => start = "Key" /\ ctl'.hold = n
  <1>1. ctl' = Idle \/ ctl' = Started(start, n)
    BY DEF Begin
  <1>2. CASE ctl' = Idle
    BY <1>2 DEF Idle, Recording, Phases
  <1>3. CASE ctl' = Started(start, n)
    BY <1>3, StartedIs
  <1> QED
    BY <1>1, <1>2, <1>3

LEMMA ControllerKeeps ==
  ASSUME HoldInv, Ear,
         \/ StartByKey \/ StartByToggle \/ StrayRelease \/ WakeCheck \/ CheckSteps
         \/ ReleaseEnds \/ ToggleEnds \/ PressTakesOver \/ Ignored \/ TimeIsUp \/ CommitSteps
  PROVE  HoldInv'
  <1> USE DEF HoldInv
  <1>0. UNCHANGED <<held, holds>> /\ holds' \in Nat /\ \A n : On(n)' = On(n)
    BY DEF Ear, watchVars, On, ListeningTypes
  <1>1. /\ ctl.hold \in Nat /\ ctl.phase \in Phases
        /\ ctl.start \in {"none", "Key", "Toggle", "Wake"}
    BY DEF ListeningTypes, Recording
  <1>2. ASSUME triggers' = triggers PROVE triggers' \in Seq(Trigger) /\ PressesAreHolds'
    BY <1>0, <1>2 DEF ListeningTypes, PressesAreHolds, On
  <1>3. CASE StartByKey
    <2>1. PICK n \in Nat : n = Head(triggers).hold
      BY <1>0, <1>3, HeadLeaves DEF StartByKey, Receives
    <2>2. /\ triggers' \in Seq(Trigger) /\ PressesAreHolds'
          /\ n > 0 /\ LetGo(triggers', 0, n, On(n)')
      BY <1>0, <1>3, <2>1, HeadLeaves DEF StartByKey, Receives
    <2>3. /\ ctl' \in Recording /\ ctl'.phase \in {"idle", "recording"}
          /\ ctl'.start = "Key" => ctl'.hold = n
      BY <1>3, <2>1, Begins DEF StartByKey
    <2> QED
      BY <1>0, <1>3, <2>2, <2>3 DEF StartByKey, ListeningTypes, RecordsOneHold,
         KeyHeldIsOneHold, On
  <1>4. CASE StartByToggle
    <2>1. triggers' \in Seq(Trigger) /\ PressesAreHolds'
      BY <1>0, <1>4, HeadLeaves DEF StartByToggle, Receives
    <2>2. ctl' \in Recording /\ ctl'.start # "Key"
      BY <1>4, Begins DEF StartByToggle
    <2> QED
      BY <1>0, <1>4, <2>1, <2>2 DEF StartByToggle, ListeningTypes, RecordsOneHold,
         KeyHeldIsOneHold
  <1>5. CASE WakeHeard
    <2>1. ctl' \in Recording /\ ctl'.start # "Key"
      BY <1>5, Begins DEF WakeHeard
    <2> QED
      BY <1>0, <1>2, <1>5, <2>1 DEF WakeHeard, ListeningTypes, RecordsOneHold, KeyHeldIsOneHold
  <1>6. CASE StrayRelease \/ WakeNotHeard
    <2>1. triggers' \in Seq(Trigger) /\ PressesAreHolds'
      BY <1>0, <1>2, <1>6, HeadLeaves DEF StrayRelease, WakeNotHeard, Receives
    <2> QED
      BY <1>0, <1>6, <2>1 DEF StrayRelease, WakeNotHeard, ListeningTypes, RecordsOneHold,
         KeyHeldIsOneHold, Idle, Recording, Phases
  <1>7. CASE WakeCheck
    <2>1. ctl' \in Recording /\ ctl'.phase = "checking" /\ ctl'.start = ctl.start /\ ctl'.hold = ctl.hold
      BY <1>7 DEF WakeCheck, Go, ListeningTypes, Recording, Phases
    <2> QED
      BY <1>0, <1>2, <1>7, <2>1 DEF WakeCheck, ListeningTypes, RecordsOneHold, KeyHeldIsOneHold
  <1>8. CASE ReleaseEnds
    <2>1. PICK n \in Nat : n = ctl.hold
      BY <1>1
    <2>2. /\ triggers' \in Seq(Trigger) /\ PressesAreHolds'
          /\ Head(triggers).hold = n /\ n > 0
      BY <1>0, <1>8, <2>1, HeadLeaves DEF ReleaseEnds, Receives, RecordsOneHold
    <2>3. CASE ctl' = Idle
      BY <1>0, <1>8, <2>2, <2>3 DEF ReleaseEnds, ListeningTypes, RecordsOneHold,
         KeyHeldIsOneHold, Idle, Recording, Phases
    <2>4. CASE Ends("release", Head(triggers).hold, "tail")
      <3>1. /\ ctl' \in Recording /\ ctl'.phase = "tail" /\ ctl'.last = n /\ ctl'.hold = n
            /\ n > 0
        BY <2>1, <2>2, <2>4 DEF Ends, ListeningTypes, Recording, Phases
      <3> QED
        BY <1>0, <1>8, <2>2, <3>1 DEF ReleaseEnds, ListeningTypes, RecordsOneHold,
           KeyHeldIsOneHold
    <2> QED
      BY <1>8, <2>3, <2>4 DEF ReleaseEnds
  <1>9. CASE ToggleEnds
    <2>1. triggers' \in Seq(Trigger) /\ PressesAreHolds'
      BY <1>0, <1>9, HeadLeaves DEF ToggleEnds, Receives
    <2>2. CASE ctl' = Idle
      BY <1>0, <1>9, <2>1, <2>2 DEF ToggleEnds, ListeningTypes, RecordsOneHold,
         KeyHeldIsOneHold, Idle, Recording, Phases
    <2>3. CASE Ends("toggle", 0, "tail")
      <3>1. /\ ctl' \in Recording /\ ctl'.phase = "tail" /\ ctl'.end = "toggle"
            /\ ctl'.start = ctl.start /\ ctl'.hold = ctl.hold
        BY <2>3 DEF Ends, ListeningTypes, Recording, Phases
      <3> QED
        BY <1>0, <1>9, <2>1, <3>1 DEF ToggleEnds, ListeningTypes, RecordsOneHold,
           KeyHeldIsOneHold
    <2> QED
      BY <1>9, <2>2, <2>3 DEF ToggleEnds
  <1>10. CASE PressTakesOver
    <2>1. PICK n \in Nat : n = Head(triggers).hold
      BY <1>0, <1>10, HeadLeaves DEF PressTakesOver, Receives
    <2>2. /\ triggers' \in Seq(Trigger) /\ PressesAreHolds'
          /\ n > 0 /\ LetGo(triggers', 0, n, On(n)')
      BY <1>0, <1>10, <2>1, HeadLeaves DEF PressTakesOver, Receives
    <2>3. /\ ctl' \in Recording /\ ctl'.phase \in {"idle", "recording"}
          /\ ctl'.start = "Key" => ctl'.hold = n
      <3>1. ctl' = Idle \/ ctl' = Started("Key", n)
        BY <1>10, <2>1 DEF PressTakesOver
      <3>2. CASE ctl' = Idle
        BY <3>2 DEF Idle, Recording, Phases
      <3>3. CASE ctl' = Started("Key", n)
        BY <3>3, StartedIs
      <3> QED
        BY <3>1, <3>2, <3>3
    <2> QED
      BY <1>0, <1>10, <2>2, <2>3 DEF PressTakesOver, ListeningTypes, RecordsOneHold,
         KeyHeldIsOneHold, On
  <1>11. CASE Ignored
    <2>1. PICK n \in Nat : n = ctl.hold
      BY <1>1
    <2>2. triggers' \in Seq(Trigger) /\ PressesAreHolds'
      BY <1>0, <1>11, HeadLeaves DEF Ignored
    <2>3. ctl.start # "Key"
      <3>1. ctl.start = "Key" => LetGo(triggers, 0, n, On(n))
        BY <1>11, <2>1 DEF Ignored, RecordsOneHold
      <3>2. LetGo(triggers, 0, n, On(n)) => Head(triggers).kind # "Press"
        BY <1>0, <1>11, HeadLeaves DEF Ignored
      <3> QED
        BY <1>11, <3>1, <3>2 DEF Ignored
    <2> QED
      BY <1>0, <1>11, <2>2, <2>3 DEF Ignored, ListeningTypes, RecordsOneHold, KeyHeldIsOneHold
  <1>12. CASE TimeIsUp \/ TailEnds
    <2>1. /\ ctl' \in Recording /\ ctl'.phase = "finishing"
          /\ ctl'.start = ctl.start /\ ctl'.hold = ctl.hold
          /\ \/ ctl'.end = "timeout"
             \/ ctl.phase = "tail" /\ ctl'.end = ctl.end /\ ctl'.last = ctl.last
      <3>1. CASE TimeIsUp
        BY <3>1 DEF TimeIsUp, Ends, ListeningTypes, Recording, Phases
      <3>2. CASE TailEnds
        BY <3>2 DEF TailEnds, Go, ListeningTypes, Recording, Phases
      <3> QED
        BY <1>12, <3>1, <3>2
    <2> QED
      BY <1>0, <1>2, <1>12, <2>1 DEF TimeIsUp, TailEnds, ListeningTypes, RecordsOneHold,
         KeyHeldIsOneHold
  <1>13. CASE Finish
    <2>1. KeyHeldIsOneHold'
      BY <1>13 DEF Finish, KeyHeldIsOneHold, RecordsOneHold, SourceOf
    <2> QED
      BY <1>0, <1>2, <1>13, <2>1 DEF Finish, ListeningTypes, RecordsOneHold, Idle,
         Recording, Phases
  <1> QED
    BY <1>3, <1>4, <1>5, <1>6, <1>7, <1>8, <1>9, <1>10, <1>11, <1>12, <1>13
       DEF CheckSteps, CommitSteps

LEMMA ListeningStep == HoldInv /\ [ListeningNext]_listenVars => HoldInv'
  <1> SUFFICES ASSUME HoldInv, [ListeningNext]_listenVars PROVE HoldInv'
    OBVIOUS
  <1>1. ASSUME UNCHANGED <<held, holds, triggers, ctl, turn>> PROVE HoldInv'
    BY <1>1 DEF HoldInv, ListeningTypes, PressesAreHolds, RecordsOneHold, KeyHeldIsOneHold, On
  <1>2. CASE \E k \in Keyboard : KeyDown(k) \/ KeyUp(k) \/ Unplug(k) \/ Plug(k) \/ Permit(k)
    BY <1>1, <1>2 DEF KeyDown, KeyUp, Unplug, Plug, Permit, earVars
  <1>3. CASE Rescan \/ Hotplug
    BY <1>1, <1>3 DEF Rescan, Hotplug, earVars
  <1>4. CASE \E k \in Keyboard : ReadEdge(k) \/ DeviceGone(k)
    BY <1>4, HoldsNowKeeps DEF ReadEdge, DeviceGone
  <1>5. CASE ListenToggle
    <2>1. PICK e : e = [kind |-> "Toggle", hold |-> 0]
      OBVIOUS
    <2>2. e \in Trigger /\ triggers' = Append(triggers, e) /\ e.kind = "Toggle"
      BY <1>5, <2>1 DEF ListenToggle, Send, Trigger
    <2>3. holds' \in Nat /\ UNCHANGED <<ctl, turn>> /\ \A n \in Nat : On(n) => On(n)'
      BY <1>5 DEF ListenToggle, watchVars, On, HoldInv, ListeningTypes
    <2> QED
      BY <2>2, <2>3, ChannelGrows DEF HoldInv, KeyHeldIsOneHold
  <1>6. CASE PauseToggle
    BY <1>1, <1>6 DEF PauseToggle, watchVars
  <1>7. CASE \/ StartByKey \/ StartByToggle \/ StrayRelease \/ WakeCheck \/ CheckSteps
             \/ ReleaseEnds \/ ToggleEnds \/ PressTakesOver \/ Ignored \/ TimeIsUp
             \/ CommitSteps
    <2>1. Ear
      BY <1>7 DEF StartByKey, StartByToggle, StrayRelease, WakeCheck, CheckSteps, WakeHeard,
         WakeNotHeard, ReleaseEnds, ToggleEnds, PressTakesOver, Ignored, TimeIsUp,
         CommitSteps, TailEnds, Finish
    <2> QED
      BY <1>7, <2>1, ControllerKeeps
  <1>8. CASE UNCHANGED listenVars
    BY <1>1, <1>8 DEF listenVars
  <1> QED
    BY <1>2, <1>3, <1>4, <1>5, <1>6, <1>7, <1>8 DEF ListeningNext, WatcherSteps

\* A turn taken as key-held was recorded from the press of one hold, and when
\* a release ended it, from that hold's own: for any number of keyboards,
\* pressed, unplugged and plugged in again in any order (ears.rs run, record).
THEOREM OnlyItsOwnHoldConfirms == ListeningSpec => []KeyHeldIsOneHold
  <1>1. HoldInv => KeyHeldIsOneHold
    BY DEF HoldInv
  <1> QED
    BY <1>1, ListeningInitial, ListeningStep, PTL DEF ListeningSpec

-----------------------------------------------------------------------------
(***************************************************************************)
(* Playback.  The capture callback reads two atomics with the player's     *)
(* stores in between; it keeps none of cosmo's voice because the player    *)
(* paused the stream before the quiet began, and stores the quiet before   *)
(* it opens the gate.                                                      *)
(***************************************************************************)

Message == [kind : {"Play"}, clip : Clip] \cup [kind : {"Stop", "Shutdown", "Drained", "Failed"}]

PlaybackTypes ==
  /\ rateOf \in [Clip -> Rate]
  /\ inbox \in Seq(Message) /\ backlog \in Seq(Clip)
  /\ main \in {"idle", "pump", "lower", "gone"}
  /\ queue \in [jobs : Seq(Clip), head : Nat, pos : Nat, draining : BOOLEAN]
  /\ pwStream \in [rate : Rate \cup {"none"}, active : BOOLEAN,
                   mode : {"none", "running", "draining", "drained", "error"}]
  /\ outcome \in [Clip -> {"none", "queued", "Closed", "Err", "Played", "Cancelled"}]
  /\ speaking \in BOOLEAN /\ quietAge \in {0, 1} /\ soundAge \in {0, 1}
  /\ asked \in {"no", "voice", "clean"}

\* When the gate is open, or the player is about to open it, nothing is left to
\* play, the stream is paused, and what sounded last is no younger than the quiet.
GateIsHonest ==
  ~speaking \/ main = "lower" =>
    /\ ~pwStream.active /\ main # "pump"
    /\ backlog = <<>> /\ queue.jobs = <<>>
    /\ soundAge < Ripe => quietAge < Ripe

\* Between the two reads of mic_open the quiet does not ripen.
ReadIsRecent == asked = "voice" => quietAge < Ripe

SpeechGateInv == PlaybackTypes /\ GateIsHonest /\ ReadIsRecent /\ NoOwnVoice

LEMMA LeadingBacklog ==
  ASSUME PlaybackTypes
  PROVE  /\ Leading \in 0..Len(backlog)
         /\ SubSeq(backlog, 1, Leading) \in Seq(Clip) /\ Rest \in Seq(Clip)
  <1> DEFINE first == {i \in DOMAIN backlog : \A j \in 1 .. i : rateOf[backlog[j]] = rateOf[backlog[1]]}
  <1>1. Len(backlog) \in Nat /\ DOMAIN backlog = 1..Len(backlog)
    BY DEF PlaybackTypes
  <1>2. IsFiniteSet(1..Len(backlog)) /\ Cardinality(1..Len(backlog)) = Len(backlog)
    <2>1. 1 \in Int /\ Len(backlog) \in Int
      BY <1>1
    <2>2. /\ IsFiniteSet(1..Len(backlog))
          /\ Cardinality(1..Len(backlog)) = IF 1 > Len(backlog) THEN 0 ELSE Len(backlog) - 1 + 1
      BY <2>1, FS_Interval, Zenon
    <2> QED
      BY <1>1, <2>2
  <1>3. first \subseteq 1..Len(backlog)
    BY <1>1
  <1>4. IsFiniteSet(first) /\ Cardinality(first) \in Nat /\ Cardinality(first) <= Len(backlog)
    BY <1>2, <1>3, FS_Subset, FS_CardinalityType
  <1>5. Leading \in 0..Len(backlog)
    BY <1>1, <1>4 DEF Leading
  <1> QED
    BY <1>1, <1>5 DEF PlaybackTypes, Rest

\* The two ways a queue is changed keep its type.
LEMMA QueueTypes ==
  ASSUME PlaybackTypes
  PROVE  /\ queue.jobs \in Seq(Clip) /\ queue.head \in Nat /\ queue.draining \in BOOLEAN
         /\ EmptyQueue \in [jobs : Seq(Clip), head : Nat, pos : Nat, draining : BOOLEAN]
         /\ EmptyQueue.jobs = <<>>
         /\ NoPwStream \in [rate : Rate \cup {"none"}, active : BOOLEAN,
                   mode : {"none", "running", "draining", "drained", "error"}]
         /\ ~NoPwStream.active
  <1>1. <<>> \in Seq(Clip)
    OBVIOUS
  <1> QED
    BY <1>1 DEF PlaybackTypes, EmptyQueue, NoPwStream

LEMMA ResolveTypes ==
  ASSUME PlaybackTypes, NEW S, NEW r \in {"Err", "Played", "Cancelled"}, Resolve(S, r)
  PROVE  outcome' \in [Clip -> {"none", "queued", "Closed", "Err", "Played", "Cancelled"}]
  BY DEF PlaybackTypes, Resolve

LEMMA MessageArrives ==
  ASSUME PlaybackTypes, NEW m \in Message, inbox' = Append(inbox, m)
  PROVE  inbox' \in Seq(Message)
  BY DEF PlaybackTypes

LEMMA MessageTaken ==
  ASSUME PlaybackTypes, NEW kind, PlayerReceives(kind)
  PROVE  /\ inbox' \in Seq(Message) /\ Head(inbox) \in Message /\ Head(inbox).kind = kind
         /\ main = "idle"
         /\ kind = "Play" => Head(inbox).clip \in Clip
  <1>1. inbox' \in Seq(Message) /\ Head(inbox) \in Message /\ Head(inbox).kind = kind
    BY HeadTaken DEF PlaybackTypes, PlayerReceives
  <1> QED
    BY <1>1 DEF Message, PlayerReceives

\* What PipeWire and the callbacks do leaves the player's own state alone.
LEMMA TypesOutside ==
  ASSUME PlaybackTypes,
         \/ \E c \in Clip : Play(c)
         \/ \E kind \in {"Stop", "Shutdown"} : StopPlayback(kind)
         \/ FillSteps \/ Sounds \/ Drained \/ StreamFails
         \/ MicAsks \/ MicKeeps \/ Tick \/ UNCHANGED playVars
  PROVE  PlaybackTypes'
  <1>1. ASSUME NEW c \in Clip, Play(c) PROVE PlaybackTypes'
    <2>1. [kind |-> "Play", clip |-> c] \in Message
      BY DEF Message
    <2>2. inbox' \in Seq(Message)
      BY <1>1, <2>1, MessageArrives DEF Play, PlaybackTypes
    <2>3. outcome' \in [Clip -> {"none", "queued", "Closed", "Err", "Played", "Cancelled"}]
      BY <1>1 DEF Play, PlaybackTypes
    <2> QED
      BY <1>1, <2>2, <2>3 DEF Play, PlaybackTypes, handleVars, gateVars, micVars
  <1>2. ASSUME NEW kind \in {"Stop", "Shutdown"}, StopPlayback(kind) PROVE PlaybackTypes'
    <2>1. [kind |-> kind] \in Message
      BY DEF Message
    <2>2. inbox' \in Seq(Message)
      BY <1>2, <2>1, MessageArrives DEF StopPlayback
    <2> QED
      BY <1>2, <2>2 DEF StopPlayback, PlaybackTypes, handleVars, gateVars, micVars
  <1>3. CASE Fill
    <2>1. queue' \in [jobs : Seq(Clip), head : Nat, pos : Nat, draining : BOOLEAN]
      <3> DEFINE last == queue.pos + 1 = quanta[queue.jobs[queue.head + 1]]
                 h == IF last THEN queue.head + 1 ELSE queue.head
                 p == IF last THEN 0 ELSE queue.pos + 1
      <3>1. h \in Nat /\ p \in Nat
        BY DEF PlaybackTypes
      <3>2. queue' = [queue EXCEPT !.head = h, !.pos = p]
        BY <1>3 DEF Fill
      <3> HIDE DEF h, p
      <3> QED
        BY <3>1, <3>2 DEF PlaybackTypes
    <2> QED
      BY <1>3, <2>1 DEF Fill, DataLoop, PlaybackTypes, gateVars, micVars
  <1>4. CASE FillDry
    BY <1>4 DEF FillDry, DataLoop, PlaybackTypes, gateVars, micVars
  <1>5. CASE HandOver
    BY <1>5 DEF HandOver, DataLoop, PlaybackTypes, gateVars, micVars
  <1>6. CASE Sounds
    BY <1>6 DEF Sounds, PlaybackTypes, gateVars
  <1>7. CASE Drained
    <2>1. [kind |-> "Drained"] \in Message
      BY DEF Message
    <2>2. inbox' \in Seq(Message)
      BY <1>7, <2>1, MessageArrives DEF Drained
    <2> QED
      BY <1>7, <2>2 DEF Drained, PlaybackTypes, gateVars, micVars
  <1>8. CASE StreamFails
    <2>1. [kind |-> "Failed"] \in Message
      BY DEF Message
    <2>2. inbox' \in Seq(Message)
      BY <1>8, <2>1, MessageArrives DEF StreamFails
    <2> QED
      BY <1>8, <2>2 DEF StreamFails, PlaybackTypes, gateVars, micVars
  <1>9. CASE MicAsks \/ MicKeeps \/ Tick
    BY <1>9 DEF MicAsks, MicKeeps, Tick, Older, Ripe, PlaybackTypes, handleVars, gateVars
  <1>10. CASE UNCHANGED playVars
    BY <1>10 DEF playVars, PlaybackTypes
  <1> QED
    BY <1>1, <1>2, <1>3, <1>4, <1>5, <1>6, <1>7, <1>8, <1>9, <1>10 DEF FillSteps

\* What a clip's turn on the queue leaves of it.
LEMMA ReapedTypes ==
  ASSUME PlaybackTypes
  PROVE  SubSeq(queue.jobs, queue.head + 1, Len(queue.jobs)) \in Seq(Clip)
  <1>1. queue.jobs \in Seq(Clip) /\ queue.head \in Nat /\ Len(queue.jobs) \in Nat
    BY DEF PlaybackTypes
  <1>2. \A i \in (queue.head + 1)..Len(queue.jobs) : i \in 1..Len(queue.jobs)
    BY <1>1
  <1> QED
    BY <1>1, <1>2

LEMMA TypesInside ==
  ASSUME PlaybackTypes, MainSteps
  PROVE  PlaybackTypes'
  <1> USE DEF micVars
  <1>1. CASE HandlePlay
    <2>1. inbox' \in Seq(Message) /\ Head(inbox).clip \in Clip
      BY <1>1, MessageTaken DEF HandlePlay
    <2> QED
      BY <1>1, <2>1 DEF HandlePlay, PlaybackTypes
  <1>2. CASE Lower
    BY <1>2 DEF Lower, PlaybackTypes
  <1>3. CASE Admit
    <2> DEFINE jobs == queue.jobs \o SubSeq(backlog, 1, Leading)
    <2>1. jobs \in Seq(Clip) /\ Rest \in Seq(Clip)
      BY LeadingBacklog, QueueTypes
    <2>2. queue' = [queue EXCEPT !.jobs = jobs]
      BY <1>3 DEF Admit
    <2> HIDE DEF jobs
    <2>3. queue' \in [jobs : Seq(Clip), head : Nat, pos : Nat, draining : BOOLEAN]
      BY <2>1, <2>2 DEF PlaybackTypes
    <2>4. pwStream' \in [rate : Rate \cup {"none"}, active : BOOLEAN,
                   mode : {"none", "running", "draining", "drained", "error"}]
      <3> DEFINE a == pwStream.active \/ ~queue.draining
      <3>1. a \in BOOLEAN
        OBVIOUS
      <3>2. pwStream' = [pwStream EXCEPT !.active = a]
        BY <1>3 DEF Admit
      <3> HIDE DEF a
      <3> QED
        BY <3>1, <3>2 DEF PlaybackTypes
    <2> QED
      BY <1>3, <2>1, <2>3, <2>4 DEF Admit, Pumping, PlaybackTypes
  <1>4. CASE Waits
    BY <1>4 DEF Waits, Pumping, PlaybackTypes
  <1>5. CASE Reopen
    <2>1. rateOf[backlog[1]] \in Rate
      BY <1>5 DEF Reopen, Reopening, PlaybackTypes
    <2> QED
      BY <1>5, <2>1 DEF Reopen, Reopening, Pumping, PlaybackTypes
  <1>6. CASE OpenFails
    <2>1. outcome' \in [Clip -> {"none", "queued", "Closed", "Err", "Played", "Cancelled"}]
      BY <1>6, ResolveTypes DEF OpenFails
    <2>2. Rest \in Seq(Clip)
      BY LeadingBacklog
    <2>3. main' \in {"pump", "lower"} /\ quietAge' \in {0, 1}
      BY <1>6 DEF OpenFails, Reopening, Pumping, Quiet, PlaybackTypes
    <2> QED
      BY <1>6, <2>1, <2>2, <2>3, QueueTypes DEF OpenFails, Reopening, Pumping, PlaybackTypes
  <1>7. CASE HandleDrained
    <2> DEFINE left == SubSeq(queue.jobs, queue.head + 1, Len(queue.jobs))
    <2>1. inbox' \in Seq(Message) /\ left \in Seq(Clip)
      BY <1>7, MessageTaken, ReapedTypes DEF HandleDrained
    <2>2. /\ Resolve(Elements(SubSeq(queue.jobs, 1, queue.head)), "Played")
          /\ queue' = [queue EXCEPT !.jobs = left, !.head = 0, !.draining = FALSE]
          /\ IF pwStream = NoPwStream THEN UNCHANGED <<pwStream, pipe>>
             ELSE /\ pwStream' = [pwStream EXCEPT !.active = left # <<>>, !.mode = "running"]
                  /\ pipe' = 0
          /\ AfterDrain(left)
      BY <1>7 DEF HandleDrained, Reaped
    <2> HIDE DEF left
    <2>3. outcome' \in [Clip -> {"none", "queued", "Closed", "Err", "Played", "Cancelled"}]
      BY <2>2, ResolveTypes
    <2>4. queue' \in [jobs : Seq(Clip), head : Nat, pos : Nat, draining : BOOLEAN]
      <3>1. queue' = [queue EXCEPT !.jobs = left, !.head = 0, !.draining = FALSE]
        BY <2>2
      <3> QED
        BY <2>1, <3>1 DEF PlaybackTypes
    <2>5. pwStream' \in [rate : Rate \cup {"none"}, active : BOOLEAN,
                   mode : {"none", "running", "draining", "drained", "error"}]
      <3> DEFINE a == left # <<>>
      <3>1. a \in BOOLEAN
        OBVIOUS
      <3>2. pwStream' = pwStream \/ pwStream' = [pwStream EXCEPT !.active = a, !.mode = "running"]
        BY <2>2
      <3> HIDE DEF a
      <3> QED
        BY <3>1, <3>2 DEF PlaybackTypes
    <2>6. main' \in {"idle", "pump", "lower"} /\ quietAge' \in {0, 1}
      BY <2>2 DEF AfterDrain, Quiet, PlaybackTypes
    <2> QED
      BY <1>7, <2>1, <2>3, <2>4, <2>5, <2>6 DEF HandleDrained, PlaybackTypes
  <1>8. CASE HandleStop
    <2>1. inbox' \in Seq(Message) /\ <<>> \in Seq(Clip)
      BY <1>8, MessageTaken DEF HandleStop, FinishAll
    <2>2. outcome' \in [Clip -> {"none", "queued", "Closed", "Err", "Played", "Cancelled"}]
      BY <1>8, ResolveTypes DEF HandleStop
    <2>3. pwStream' \in [rate : Rate \cup {"none"}, active : BOOLEAN,
                   mode : {"none", "running", "draining", "drained", "error"}]
      BY <1>8 DEF HandleStop, StopStream, PlaybackTypes
    <2> QED
      BY <1>8, <2>1, <2>2, <2>3, QueueTypes DEF HandleStop, FinishAll, PlaybackTypes
  <1>9. CASE HandleFailed
    <2>1. inbox' \in Seq(Message) /\ <<>> \in Seq(Clip)
      BY <1>9, MessageTaken DEF HandleFailed, FinishAll
    <2>2. outcome' \in [Clip -> {"none", "queued", "Closed", "Err", "Played", "Cancelled"}]
      BY <1>9, ResolveTypes DEF HandleFailed
    <2> QED
      BY <1>9, <2>1, <2>2, QueueTypes DEF HandleFailed, FinishAll, DropStream, PlaybackTypes
  <1>10. CASE HandleShutdown
    <2>1. inbox' \in Seq(Message) /\ <<>> \in Seq(Clip)
      BY <1>10, MessageTaken DEF HandleShutdown, FinishAll
    <2>2. outcome' \in [Clip -> {"none", "queued", "Closed", "Err", "Played", "Cancelled"}]
      BY <1>10 DEF HandleShutdown, PlaybackTypes
    <2> QED
      BY <1>10, <2>1, <2>2, QueueTypes DEF HandleShutdown, FinishAll, DropStream, PlaybackTypes
  <1> QED
    BY <1>1, <1>2, <1>3, <1>4, <1>5, <1>6, <1>7, <1>8, <1>9, <1>10 DEF MainSteps

LEMMA PlaybackInitial == PlaybackInit => SpeechGateInv
  <1>1. <<>> \in Seq(Message) /\ <<>> \in Seq(Clip)
    OBVIOUS
  <1> SUFFICES ASSUME PlaybackInit PROVE SpeechGateInv
    OBVIOUS
  <1>2. outcome \in [Clip -> {"none", "queued", "Closed", "Err", "Played", "Cancelled"}]
    BY DEF PlaybackInit
  <1>3. PlaybackTypes
    BY <1>1, <1>2 DEF PlaybackInit, PlaybackTypes, EmptyQueue, NoPwStream
  <1>4. GateIsHonest
    BY DEF PlaybackInit, GateIsHonest, EmptyQueue, NoPwStream
  <1> QED
    BY <1>3, <1>4 DEF PlaybackInit, SpeechGateInv, ReadIsRecent, NoOwnVoice

LEMMA PlaybackTypesStep == PlaybackTypes /\ [PlaybackNext]_playVars => PlaybackTypes'
  BY TypesInside, TypesOutside DEF PlaybackNext

\* The player opens the gate only after it has stopped the sound.
LEMMA PlayerKeepsGate ==
  ASSUME PlaybackTypes, PlaybackTypes', GateIsHonest, MainSteps
  PROVE  GateIsHonest'
  <1> USE DEF micVars
  <1>1. CASE HandlePlay
    BY <1>1 DEF HandlePlay, GateIsHonest
  <1>2. CASE Lower
    BY <1>2 DEF Lower, GateIsHonest
  <1>3. CASE Admit \/ Waits \/ Reopen
    BY <1>3 DEF Admit, Waits, Reopen, Reopening, Pumping, GateIsHonest
  <1>4. CASE OpenFails
    <2>1. speaking' /\ main = "pump" /\ queue.jobs = <<>> /\ queue' = queue
      BY <1>4 DEF OpenFails, Reopening, Pumping, GateIsHonest
    <2>2. CASE Rest = <<>>
      <3>1. backlog' = <<>> /\ quietAge' = 0 /\ main' = "lower" /\ ~pwStream'.active
        BY <1>4, <2>2, QueueTypes DEF OpenFails, Quiet
      <3> QED
        BY <2>1, <3>1 DEF GateIsHonest, Ripe
    <2>3. CASE Rest # <<>>
      BY <1>4, <2>1, <2>3 DEF OpenFails, GateIsHonest
    <2> QED
      BY <2>2, <2>3
  <1>5. CASE HandleDrained
    <2> DEFINE left == SubSeq(queue.jobs, queue.head + 1, Len(queue.jobs))
    <2>1. /\ queue' = [queue EXCEPT !.jobs = left, !.head = 0, !.draining = FALSE]
          /\ IF pwStream = NoPwStream THEN UNCHANGED <<pwStream, pipe>>
             ELSE /\ pwStream' = [pwStream EXCEPT !.active = left # <<>>, !.mode = "running"]
                  /\ pipe' = 0
          /\ AfterDrain(left)
          /\ UNCHANGED <<backlog, speaking, soundAge>> /\ main = "idle"
      BY <1>5, MessageTaken DEF HandleDrained, Reaped
    <2>2. queue.jobs = <<>> => left = <<>>
      BY QueueTypes
    <2> HIDE DEF left
    <2>3. queue'.jobs = left
      BY <2>1 DEF PlaybackTypes
    <2>4. left = <<>> => ~pwStream'.active
      <3>1. CASE pwStream = NoPwStream
        BY <2>1, <3>1, QueueTypes
      <3>2. CASE pwStream # NoPwStream
        BY <2>1, <3>2 DEF PlaybackTypes
      <3> QED
        BY <3>1, <3>2
    <2>5. CASE left = <<>> /\ backlog = <<>>
      BY <2>1, <2>3, <2>4, <2>5 DEF AfterDrain, Quiet, GateIsHonest, Ripe
    <2>6. CASE ~(left = <<>> /\ backlog = <<>>)
      <3>1. speaking
        BY <2>2, <2>6 DEF GateIsHonest
      <3>2. main' # "lower" /\ speaking'
        BY <2>1, <2>6, <3>1 DEF AfterDrain
      <3> QED
        BY <3>2 DEF GateIsHonest
    <2> QED
      BY <2>5, <2>6
  <1>6. CASE HandleStop
    <2>1. ~pwStream'.active
      <3>1. CASE pwStream = NoPwStream
        BY <1>6, <3>1, QueueTypes DEF HandleStop, StopStream
      <3>2. CASE pwStream # NoPwStream
        BY <1>6, <3>2 DEF HandleStop, StopStream, PlaybackTypes
      <3> QED
        BY <3>1, <3>2
    <2> QED
      BY <1>6, <2>1, QueueTypes DEF HandleStop, FinishAll, GateIsHonest, Ripe
  <1>7. CASE HandleFailed
    BY <1>7, QueueTypes DEF HandleFailed, FinishAll, DropStream, GateIsHonest, Ripe
  <1>8. CASE HandleShutdown
    BY <1>8, QueueTypes DEF HandleShutdown, FinishAll, DropStream, GateIsHonest, Ripe
  <1> QED
    BY <1>1, <1>2, <1>3, <1>4, <1>5, <1>6, <1>7, <1>8 DEF MainSteps

LEMMA OthersKeepGate ==
  ASSUME PlaybackTypes, PlaybackTypes', GateIsHonest,
         \/ \E c \in Clip : Play(c)
         \/ \E kind \in {"Stop", "Shutdown"} : StopPlayback(kind)
         \/ FillSteps \/ Sounds \/ Drained \/ StreamFails
         \/ MicAsks \/ MicKeeps \/ Tick \/ UNCHANGED playVars
  PROVE  GateIsHonest'
  <1>1. ASSUME UNCHANGED <<speaking, main, pwStream, backlog, queue, soundAge, quietAge>>
        PROVE  GateIsHonest'
    BY <1>1 DEF GateIsHonest
  <1>2. CASE \/ \E c \in Clip : Play(c)
             \/ \E kind \in {"Stop", "Shutdown"} : StopPlayback(kind)
             \/ MicAsks \/ MicKeeps \/ UNCHANGED playVars
    BY <1>1, <1>2 DEF Play, StopPlayback, MicAsks, MicKeeps, playVars, handleVars, gateVars, micVars
  <1>3. CASE Fill \/ FillDry
    BY <1>3 DEF Fill, FillDry, FillDue, DataLoop, gateVars, micVars, GateIsHonest
  <1>4. CASE HandOver \/ Drained \/ StreamFails
    <2>1. UNCHANGED <<speaking, main, backlog, queue, soundAge, quietAge>>
      BY <1>4 DEF HandOver, Drained, StreamFails, DataLoop, gateVars, micVars
    <2>2. pwStream'.active => pwStream.active
      BY <1>4 DEF HandOver, Drained, StreamFails, PlaybackTypes
    <2> QED
      BY <2>1, <2>2 DEF GateIsHonest
  <1>5. CASE Sounds
    BY <1>5 DEF Sounds, Audible, gateVars, GateIsHonest
  <1>6. CASE Tick
    BY <1>6 DEF Tick, Audible, Older, Ripe, handleVars, GateIsHonest, PlaybackTypes
  <1> QED
    BY <1>2, <1>3, <1>4, <1>5, <1>6 DEF FillSteps

LEMMA SpeechGateStep == SpeechGateInv /\ [PlaybackNext]_playVars => SpeechGateInv'
  <1> SUFFICES ASSUME SpeechGateInv, [PlaybackNext]_playVars PROVE SpeechGateInv'
    OBVIOUS
  <1> USE DEF SpeechGateInv
  <1>1. PlaybackTypes'
    BY PlaybackTypesStep
  <1>2. GateIsHonest'
    BY <1>1, PlayerKeepsGate, OthersKeepGate DEF PlaybackNext
  <1>3. ReadIsRecent' /\ NoOwnVoice'
    <2>1. CASE MicAsks
      <3>1. ~speaking /\ quietAge' = quietAge /\ leaked' = leaked
        BY <2>1 DEF MicAsks, gateVars
      <3>2. ~pwStream.active /\ (soundAge < Ripe => quietAge < Ripe)
        BY <3>1 DEF GateIsHonest
      <3>3. asked' = "voice" => Audible \/ soundAge < Ripe
        BY <2>1 DEF MicAsks
      <3> QED
        BY <3>1, <3>2, <3>3 DEF Audible, ReadIsRecent, NoOwnVoice
    <2>2. CASE MicKeeps
      <3>1. ~(quietAge = Ripe /\ asked = "voice") /\ ~leaked
        BY DEF ReadIsRecent, NoOwnVoice, Ripe
      <3>2. asked' = "no" /\ leaked' = (leaked \/ (quietAge = Ripe /\ asked = "voice"))
        BY <2>2 DEF MicKeeps
      <3>3. ~leaked'
        BY <3>1, <3>2, Zenon
      <3> QED
        BY <3>2, <3>3 DEF ReadIsRecent, NoOwnVoice
    <2>3. CASE Tick
      BY <2>3 DEF Tick, ReadIsRecent, NoOwnVoice
    <2>4. CASE \/ \E c \in Clip : Play(c)
               \/ \E kind \in {"Stop", "Shutdown"} : StopPlayback(kind)
               \/ FillSteps \/ Sounds \/ Drained \/ StreamFails \/ UNCHANGED playVars
      <3>1. UNCHANGED <<asked, leaked, quietAge>>
        BY <2>4 DEF Play, StopPlayback, FillSteps, Fill, FillDry, HandOver, DataLoop, Sounds,
           Drained, StreamFails, playVars, gateVars, micVars
      <3> QED
        BY <3>1 DEF ReadIsRecent, NoOwnVoice
    <2>5. CASE MainSteps
      <3>1. UNCHANGED <<asked, leaked>> /\ (quietAge' = quietAge \/ quietAge' = 0)
        <4>1. CASE HandlePlay \/ Lower \/ Admit \/ Waits \/ Reopen
          BY <4>1 DEF HandlePlay, Lower, Admit, Waits, Reopen, Reopening, Pumping, micVars
        <4>2. CASE OpenFails
          BY <4>2 DEF OpenFails, Reopening, Pumping, Quiet, micVars
        <4>3. CASE HandleDrained
          BY <4>3 DEF HandleDrained, AfterDrain, Quiet, micVars
        <4>4. CASE HandleStop \/ HandleFailed \/ HandleShutdown
          BY <4>4 DEF HandleStop, HandleFailed, HandleShutdown, FinishAll, micVars
        <4> QED
          BY <2>5, <4>1, <4>2, <4>3, <4>4 DEF MainSteps
      <3> QED
        BY <3>1 DEF ReadIsRecent, NoOwnVoice, Ripe
    <2> QED
      BY <2>1, <2>2, <2>3, <2>4, <2>5 DEF PlaybackNext
  <1> QED
    BY <1>1, <1>2, <1>3

\* No quantum the capture callback keeps was recorded while cosmo was audible or
\* less than SETTLE after, however its two reads fall between the player's
\* stores, and whatever stops, drains and failures of the stream come in between
\* (gate.rs set_quiet, mic_open; player.rs).
THEOREM MicrophoneIsDeafToCosmo == PlaybackSpec => []NoOwnVoice
  <1>1. SpeechGateInv => NoOwnVoice
    BY DEF SpeechGateInv
  <1> QED
    BY <1>1, PlaybackInitial, SpeechGateStep, PTL DEF PlaybackSpec

-----------------------------------------------------------------------------
(***************************************************************************)
(* A clip is reported as played only if all of it was written: the drained *)
(* event reaps the clips the fill callback has left behind it, and since a *)
(* clip is in one place only, no other entry of the queue is meant.        *)
(***************************************************************************)

In(s, c) == \E i \in DOMAIN s : s[i] = c
Once(s) == \A i, j \in DOMAIN s : s[i] = s[j] => i = j
PlayOf(m, c) == m.kind = "Play" /\ m.clip = c

\* The message at i is the only one that plays c, and c is nowhere else.
OnlyThere(i, c) ==
  /\ \A k \in DOMAIN inbox : PlayOf(inbox[k], c) => k = i
  /\ ~In(backlog, c) /\ ~In(queue.jobs, c) /\ outcome[c] # "none"

\* A clip that was sent is in one place: the channel, the backlog or the queue.
ClipsAreOnce ==
  /\ Once(backlog) /\ Once(queue.jobs)
  /\ \A c \in Clip : ~(In(backlog, c) /\ In(queue.jobs, c))
  /\ \A c \in Clip : In(backlog, c) \/ In(queue.jobs, c) => outcome[c] # "none"
  /\ \A c \in Clip : \A i \in DOMAIN inbox : PlayOf(inbox[i], c) => OnlyThere(i, c)

HeadInQueue == queue.head <= Len(queue.jobs)

WrittenInv == PlaybackTypes /\ ClipsAreOnce /\ HeadInQueue

LEMMA WrittenInitial == PlaybackInit => WrittenInv
  <1> SUFFICES ASSUME PlaybackInit PROVE WrittenInv
    OBVIOUS
  <1>1. PlaybackTypes
    BY PlaybackInitial DEF SpeechGateInv
  <1>2. DOMAIN backlog = {} /\ DOMAIN queue.jobs = {} /\ DOMAIN inbox = {} /\ Len(queue.jobs) = 0
    BY DEF PlaybackInit, EmptyQueue
  <1>3. queue.head = 0
    BY DEF PlaybackInit, EmptyQueue
  <1> QED
    BY <1>1, <1>2, <1>3 DEF WrittenInv, ClipsAreOnce, HeadInQueue, Once, In

\* A sequence cut in two.
LEMMA Cut ==
  ASSUME NEW S, NEW s \in Seq(S), NEW n \in Nat, n <= Len(s)
  PROVE  LET p == SubSeq(s, 1, n)
             r == SubSeq(s, n + 1, Len(s))
         IN  /\ p \in Seq(S) /\ r \in Seq(S)
             /\ DOMAIN p = 1..n /\ \A i \in DOMAIN p : i \in DOMAIN s /\ p[i] = s[i]
             /\ DOMAIN r = 1..(Len(s) - n)
             /\ \A i \in DOMAIN r : i + n \in DOMAIN s /\ r[i] = s[i + n]
  <1>1. Len(s) \in Nat /\ DOMAIN s = 1..Len(s)
    OBVIOUS
  <1> QED
    BY <1>1

LEMMA CutOnce ==
  ASSUME NEW S, NEW s \in Seq(S), NEW n \in Nat, n <= Len(s), Once(s)
  PROVE  LET p == SubSeq(s, 1, n)
             r == SubSeq(s, n + 1, Len(s))
         IN  /\ Once(p) /\ Once(r)
             /\ \A c : (In(p, c) => In(s, c)) /\ (In(r, c) => In(s, c)) /\ ~(In(p, c) /\ In(r, c))
  <1> DEFINE p == SubSeq(s, 1, n)
             r == SubSeq(s, n + 1, Len(s))
  <1>1. /\ DOMAIN p = 1..n /\ \A i \in DOMAIN p : i \in DOMAIN s /\ p[i] = s[i]
        /\ DOMAIN r = 1..(Len(s) - n)
        /\ \A i \in DOMAIN r : i + n \in DOMAIN s /\ r[i] = s[i + n]
    BY Cut
  <1>2. Len(s) \in Nat
    OBVIOUS
  <1> HIDE DEF p, r
  <1>3. \A i \in DOMAIN p : i \in Nat /\ i <= n
    BY <1>1
  <1>4. \A i \in DOMAIN r : i \in Nat /\ i > 0
    BY <1>1, <1>2
  <1>5. Once(p)
    BY <1>1 DEF Once
  <1>6. Once(r)
    <2> SUFFICES ASSUME NEW i \in DOMAIN r, NEW k \in DOMAIN r, r[i] = r[k] PROVE i = k
      BY DEF Once
    <2>1. i + n = k + n
      BY <1>1 DEF Once
    <2> QED
      BY <1>4, <2>1
  <1>7. ASSUME NEW c, In(p, c), In(r, c) PROVE FALSE
    <2>1. PICK i \in DOMAIN p : p[i] = c
      BY <1>7 DEF In
    <2>2. PICK k \in DOMAIN r : r[k] = c
      BY <1>7 DEF In
    <2>3. i = k + n
      BY <1>1, <2>1, <2>2 DEF Once
    <2> QED
      BY <1>3, <1>4, <2>3
  <1>8. \A c : (In(p, c) => In(s, c)) /\ (In(r, c) => In(s, c))
    BY <1>1 DEF In
  <1> QED
    BY <1>5, <1>6, <1>7, <1>8 DEF p, r

LEMMA JoinOnce ==
  ASSUME NEW S, NEW s \in Seq(S), NEW t \in Seq(S), Once(s), Once(t),
         \A c \in S : ~(In(s, c) /\ In(t, c))
  PROVE  Once(s \o t) /\ \A c : In(s \o t, c) => In(s, c) \/ In(t, c)
  <1> DEFINE u == s \o t
  <1>1. /\ Len(s) \in Nat /\ Len(t) \in Nat /\ DOMAIN s = 1..Len(s) /\ DOMAIN t = 1..Len(t)
        /\ DOMAIN u = 1..(Len(s) + Len(t))
        /\ \A i \in DOMAIN u : /\ i <= Len(s) => u[i] = s[i]
                               /\ i > Len(s) => u[i] = t[i - Len(s)]
    OBVIOUS
  <1> HIDE DEF u
  <1>2. \A i \in DOMAIN u : /\ i \in Nat
                            /\ i <= Len(s) => i \in DOMAIN s
                            /\ i > Len(s) => i - Len(s) \in DOMAIN t
    BY <1>1
  <1>3. Once(u)
    <2> SUFFICES ASSUME NEW i \in DOMAIN u, NEW k \in DOMAIN u, u[i] = u[k] PROVE i = k
      BY DEF Once
    <2>1. CASE i <= Len(s) /\ k <= Len(s)
      BY <1>1, <1>2, <2>1 DEF Once
    <2>2. CASE i > Len(s) /\ k > Len(s)
      <3>1. i - Len(s) = k - Len(s)
        BY <1>1, <1>2, <2>2 DEF Once
      <3> QED
        BY <1>1, <1>2, <3>1
    <2>3. CASE i <= Len(s) /\ k > Len(s)
      <3>1. In(s, u[i]) /\ In(t, u[i]) /\ u[i] \in S
        BY <1>1, <1>2, <2>3 DEF In
      <3> QED
        BY <3>1
    <2>4. CASE i > Len(s) /\ k <= Len(s)
      <3>1. In(s, u[k]) /\ In(t, u[k]) /\ u[k] \in S
        BY <1>1, <1>2, <2>4 DEF In
      <3> QED
        BY <3>1
    <2> QED
      BY <1>1, <1>2, <2>1, <2>2, <2>3, <2>4
  <1>4. \A c : In(u, c) => In(s, c) \/ In(t, c)
    <2> SUFFICES ASSUME NEW i \in DOMAIN u PROVE In(s, u[i]) \/ In(t, u[i])
      BY DEF In
    <2> QED
      BY <1>1, <1>2 DEF In
  <1> QED
    BY <1>3, <1>4 DEF u

\* Clips that only leave their places, or go on from the backlog to the queue.
LEMMA PlacesKept ==
  ASSUME PlaybackTypes, PlaybackTypes', ClipsAreOnce, NEW d \in Nat,
         \A i \in DOMAIN inbox' : inbox'[i].kind = "Play"
                                    => i + d \in DOMAIN inbox /\ inbox'[i] = inbox[i + d],
         Once(backlog'), Once(queue'.jobs),
         \A c \in Clip : ~(In(backlog', c) /\ In(queue'.jobs, c)),
         \A c \in Clip : In(backlog', c) \/ In(queue'.jobs, c) => In(backlog, c) \/ In(queue.jobs, c),
         \A c \in Clip : outcome[c] # "none" => outcome'[c] # "none"
  PROVE  ClipsAreOnce'
  <1>1. \A i \in DOMAIN inbox' : i \in Nat
    BY DEF PlaybackTypes
  <1>2. \A c \in Clip : \A i \in DOMAIN inbox' : PlayOf(inbox'[i], c) => OnlyThere(i, c)'
    <2> SUFFICES ASSUME NEW c \in Clip, NEW i \in DOMAIN inbox', PlayOf(inbox'[i], c)
                 PROVE  OnlyThere(i, c)'
      OBVIOUS
    <2>1. i + d \in DOMAIN inbox /\ PlayOf(inbox[i + d], c)
      BY DEF PlayOf
    <2>2. OnlyThere(i + d, c)
      BY <2>1 DEF ClipsAreOnce
    <2>3. \A k \in DOMAIN inbox' : PlayOf(inbox'[k], c) => k = i
      <3> SUFFICES ASSUME NEW k \in DOMAIN inbox', PlayOf(inbox'[k], c) PROVE k = i
        OBVIOUS
      <3>1. k + d \in DOMAIN inbox /\ PlayOf(inbox[k + d], c)
        BY DEF PlayOf
      <3>2. k + d = i + d
        BY <2>2, <3>1 DEF OnlyThere
      <3> QED
        BY <1>1, <3>2
    <2> QED
      BY <2>2, <2>3 DEF OnlyThere
  <1> QED
    BY <1>2 DEF ClipsAreOnce

LEMMA ResolvedStays ==
  ASSUME NEW S, NEW r \in {"Err", "Played", "Cancelled"}, Resolve(S, r)
  PROVE  \A c \in Clip : outcome[c] # "none" => outcome'[c] # "none"
  BY DEF Resolve

\* A message is taken.
LEMMA InboxMoves ==
  ASSUME PlaybackTypes, NEW kind, PlayerReceives(kind)
  PROVE  \A i \in DOMAIN inbox' : inbox'[i].kind = "Play"
                                    => i + 1 \in DOMAIN inbox /\ inbox'[i] = inbox[i + 1]
  BY HeadTaken DEF PlaybackTypes, PlayerReceives

\* A message that plays nothing arrives, or none.
LEMMA InboxGrows ==
  ASSUME PlaybackTypes, NEW m \in Message, m.kind # "Play",
         inbox' = inbox \/ inbox' = Append(inbox, m)
  PROVE  \A i \in DOMAIN inbox' : inbox'[i].kind = "Play"
                                    => i + 0 \in DOMAIN inbox /\ inbox'[i] = inbox[i + 0]
  <1>1. inbox \in Seq(Message) /\ \A i \in DOMAIN inbox : i \in Nat /\ i + 0 = i
    BY DEF PlaybackTypes
  <1>2. CASE inbox' = inbox
    BY <1>1, <1>2
  <1>3. CASE inbox' = Append(inbox, m)
    <2>1. /\ \A i \in DOMAIN inbox : inbox'[i] = inbox[i]
          /\ inbox'[Len(inbox) + 1] = m
          /\ \A i \in DOMAIN inbox' : i \in DOMAIN inbox \/ i = Len(inbox) + 1
      BY <1>1, <1>3, Appended
    <2> QED
      BY <1>1, <2>1
  <1> QED
    BY <1>2, <1>3

LEMMA EmptyPlaces == Once(<<>>) /\ (\A c : ~In(<<>>, c)) /\ Len(<<>>) = 0
  BY DEF Once, In

LEMMA PlayArrives ==
  ASSUME WrittenInv, PlaybackTypes', NEW c \in Clip, Play(c)
  PROVE  ClipsAreOnce' /\ HeadInQueue'
  <1> USE DEF WrittenInv
  <1>1. /\ outcome[c] = "none" /\ UNCHANGED <<backlog, queue>>
        /\ outcome'[c] # "none" /\ \A b \in Clip : b # c => outcome'[b] = outcome[b]
    BY DEF Play, handleVars, PlaybackTypes
  <1>2. ~In(backlog, c) /\ ~In(queue.jobs, c) /\ \A i \in DOMAIN inbox : ~PlayOf(inbox[i], c)
    BY <1>1 DEF ClipsAreOnce, OnlyThere
  <1>3. CASE inbox' = inbox
    <2>1. \A b \in Clip : \A i \in DOMAIN inbox' : PlayOf(inbox'[i], b) => OnlyThere(i, b)'
      BY <1>1, <1>2, <1>3 DEF ClipsAreOnce, OnlyThere
    <2> QED
      BY <1>1, <2>1 DEF ClipsAreOnce, HeadInQueue
  <1>4. CASE inbox' = Append(inbox, [kind |-> "Play", clip |-> c])
    <2> DEFINE m == [kind |-> "Play", clip |-> c]
    <2>1. m \in Message /\ m.clip = c
      BY DEF Message
    <2> HIDE DEF m
    <2>2. /\ \A i \in DOMAIN inbox : inbox'[i] = inbox[i]
          /\ inbox'[Len(inbox) + 1] = m
          /\ \A i \in DOMAIN inbox' : i \in DOMAIN inbox \/ i = Len(inbox) + 1
          /\ Len(inbox) + 1 \notin DOMAIN inbox
      BY <1>4, <2>1, Appended DEF m, PlaybackTypes
    <2>3. \A b \in Clip : \A i \in DOMAIN inbox' : PlayOf(inbox'[i], b) => OnlyThere(i, b)'
      <3> SUFFICES ASSUME NEW b \in Clip, NEW i \in DOMAIN inbox', PlayOf(inbox'[i], b)
                   PROVE  OnlyThere(i, b)'
        OBVIOUS
      <3>1. CASE b = c
        <4>1. i = Len(inbox) + 1
          BY <1>2, <2>2, <3>1 DEF PlayOf
        <4>2. \A k \in DOMAIN inbox' : PlayOf(inbox'[k], c) => k = i
          BY <1>2, <2>2, <4>1 DEF PlayOf
        <4> QED
          BY <1>1, <1>2, <3>1, <4>2 DEF OnlyThere
      <3>2. CASE b # c
        <4>1. \A k \in DOMAIN inbox' : PlayOf(inbox'[k], b) => k \in DOMAIN inbox /\ PlayOf(inbox[k], b)
          BY <2>1, <2>2, <3>2 DEF PlayOf
        <4>2. OnlyThere(i, b)
          BY <4>1 DEF ClipsAreOnce
        <4> QED
          BY <1>1, <3>2, <4>1, <4>2 DEF OnlyThere
      <3> QED
        BY <3>1, <3>2
    <2> QED
      BY <1>1, <2>3 DEF ClipsAreOnce, HeadInQueue
  <1> QED
    BY <1>3, <1>4 DEF Play

LEMMA PlayTaken ==
  ASSUME WrittenInv, PlaybackTypes', HandlePlay
  PROVE  ClipsAreOnce' /\ HeadInQueue'
  <1> USE DEF WrittenInv
  <1>1. PICK c \in Clip : c = Head(inbox).clip
    BY MessageTaken DEF HandlePlay
  <1>2. /\ inbox # <<>> /\ Head(inbox).kind = "Play" /\ inbox' = Tail(inbox)
        /\ backlog' = Append(backlog, c) /\ UNCHANGED <<queue, outcome>>
    BY <1>1 DEF HandlePlay, PlayerReceives
  <1>3. /\ 1 \in DOMAIN inbox /\ PlayOf(inbox[1], c)
        /\ \A i \in DOMAIN inbox' : i \in Nat /\ i > 0 /\ i + 1 \in DOMAIN inbox /\ inbox'[i] = inbox[i + 1]
    <2>1. \A i \in DOMAIN inbox' : i \in Nat /\ i > 0
      BY DEF PlaybackTypes
    <2> QED
      BY <1>1, <1>2, <2>1, HeadTaken DEF PlaybackTypes, PlayOf
  <1>4. OnlyThere(1, c)
    BY <1>3 DEF ClipsAreOnce
  <1>5. /\ \A i \in DOMAIN backlog : backlog'[i] = backlog[i]
        /\ backlog'[Len(backlog) + 1] = c
        /\ \A i \in DOMAIN backlog' : i \in DOMAIN backlog \/ i = Len(backlog) + 1
    BY <1>2, Appended DEF PlaybackTypes
  <1>6. Once(backlog') /\ \A b : In(backlog', b) => In(backlog, b) \/ b = c
    BY <1>4, <1>5 DEF Once, In, OnlyThere, ClipsAreOnce
  <1>7. \A b \in Clip : \A i \in DOMAIN inbox' : PlayOf(inbox'[i], b) => OnlyThere(i, b)'
    <2> SUFFICES ASSUME NEW b \in Clip, NEW i \in DOMAIN inbox', PlayOf(inbox'[i], b)
                 PROVE  OnlyThere(i, b)'
      OBVIOUS
    <2>1. i + 1 \in DOMAIN inbox /\ PlayOf(inbox[i + 1], b) /\ i + 1 # 1
      BY <1>3
    <2>2. OnlyThere(i + 1, b) /\ b # c
      BY <1>4, <2>1 DEF ClipsAreOnce, OnlyThere
    <2>3. \A k \in DOMAIN inbox' : PlayOf(inbox'[k], b) => k = i
      <3> SUFFICES ASSUME NEW k \in DOMAIN inbox', PlayOf(inbox'[k], b) PROVE k = i
        OBVIOUS
      <3>1. k + 1 = i + 1 /\ k \in Nat /\ i \in Nat
        BY <1>3, <2>2 DEF OnlyThere
      <3> QED
        BY <3>1
    <2> QED
      BY <1>2, <1>6, <2>2, <2>3 DEF OnlyThere
  <1> QED
    BY <1>2, <1>4, <1>6, <1>7 DEF ClipsAreOnce, OnlyThere, HeadInQueue

\* A stop, a failed stream, the end of the player: every place is empty.
LEMMA AllFinish ==
  ASSUME WrittenInv, PlaybackTypes', NEW kind, kind # "Play", FinishAll(kind),
         \A c \in Clip : outcome[c] # "none" => outcome'[c] # "none"
  PROVE  ClipsAreOnce' /\ HeadInQueue'
  <1>1. backlog' = <<>> /\ queue'.jobs = <<>> /\ queue'.head = 0
    BY DEF FinishAll, EmptyQueue
  <1>2. \A i \in DOMAIN inbox' : inbox'[i].kind = "Play"
                                    => i + 1 \in DOMAIN inbox /\ inbox'[i] = inbox[i + 1]
    BY InboxMoves DEF FinishAll, WrittenInv
  <1>3. ClipsAreOnce'
    BY <1>1, <1>2, EmptyPlaces, PlacesKept DEF WrittenInv
  <1>4. HeadInQueue'
    BY <1>1, EmptyPlaces DEF HeadInQueue
  <1> QED
    BY <1>3, <1>4

LEMMA PlayerKeepsPlaces ==
  ASSUME WrittenInv, PlaybackTypes', MainSteps
  PROVE  ClipsAreOnce' /\ HeadInQueue'
  <1> USE DEF WrittenInv
  <1>0. /\ backlog \in Seq(Clip) /\ queue.jobs \in Seq(Clip) /\ Len(backlog) \in Nat
        /\ Once(backlog) /\ Once(queue.jobs)
    BY DEF PlaybackTypes, ClipsAreOnce
  <1>1. ASSUME UNCHANGED <<inbox, backlog, queue>>,
               \A c \in Clip : outcome[c] # "none" => outcome'[c] # "none"
        PROVE  ClipsAreOnce' /\ HeadInQueue'
    <2>1. [kind |-> "Stop"] \in Message /\ [kind |-> "Stop"].kind # "Play"
      BY DEF Message
    <2>2. \A i \in DOMAIN inbox' : inbox'[i].kind = "Play"
                                    => i + 0 \in DOMAIN inbox /\ inbox'[i] = inbox[i + 0]
      BY <1>1, <2>1, InboxGrows
    <2> QED
      BY <1>1, <2>2, PlacesKept DEF ClipsAreOnce, HeadInQueue
  <1>2. CASE HandlePlay
    BY <1>2, PlayTaken
  <1>3. CASE Lower \/ Waits \/ Reopen
    BY <1>1, <1>3 DEF Lower, Waits, Reopen, Reopening, Pumping
  <1>4. CASE Admit \/ OpenFails
    <2> DEFINE lead == SubSeq(backlog, 1, Leading)
    <2>1. /\ Leading \in Nat /\ Leading <= Len(backlog)
      BY <1>0, LeadingBacklog
    <2>2. /\ Once(lead) /\ Once(Rest) /\ lead \in Seq(Clip)
          /\ \A c : (In(lead, c) => In(backlog, c)) /\ (In(Rest, c) => In(backlog, c))
                    /\ ~(In(lead, c) /\ In(Rest, c))
      BY <1>0, <2>1, CutOnce, LeadingBacklog DEF Rest
    <2>3. backlog' = Rest /\ UNCHANGED inbox
          /\ \A c \in Clip : outcome[c] # "none" => outcome'[c] # "none"
      <3>1. CASE Admit
        BY <3>1 DEF Admit, Pumping
      <3>2. CASE OpenFails
        BY <3>2, ResolvedStays DEF OpenFails, Reopening, Pumping
      <3> QED
        BY <1>4, <3>1, <3>2
    <2>4. \A i \in DOMAIN inbox' : inbox'[i].kind = "Play"
                                    => i + 0 \in DOMAIN inbox /\ inbox'[i] = inbox[i + 0]
      <3>1. [kind |-> "Stop"] \in Message /\ [kind |-> "Stop"].kind # "Play"
        BY DEF Message
      <3> QED
        BY <2>3, <3>1, InboxGrows
    <2> HIDE DEF lead
    <2>5. CASE Admit
      <3>1. queue' = [queue EXCEPT !.jobs = queue.jobs \o lead]
        BY <2>5 DEF Admit, lead
      <3>2. queue'.jobs = queue.jobs \o lead /\ queue'.head = queue.head
        BY <3>1 DEF PlaybackTypes
      <3>3. /\ Once(queue'.jobs)
            /\ \A c : In(queue'.jobs, c) => In(queue.jobs, c) \/ In(lead, c)
        BY <1>0, <2>2, <3>2, JoinOnce DEF ClipsAreOnce
      <3>4. Len(queue'.jobs) >= Len(queue.jobs)
        BY <1>0, <2>2, <3>2
      <3>5. ClipsAreOnce'
        BY <2>2, <2>3, <2>4, <3>3, PlacesKept DEF ClipsAreOnce
      <3> QED
        BY <3>2, <3>4, <3>5 DEF HeadInQueue, PlaybackTypes
    <2>6. CASE OpenFails
      <3>1. queue' = queue
        BY <2>6 DEF OpenFails, Reopening
      <3>2. ClipsAreOnce'
        BY <1>0, <2>2, <2>3, <2>4, <3>1, PlacesKept DEF ClipsAreOnce
      <3> QED
        BY <3>1, <3>2 DEF HeadInQueue
    <2> QED
      BY <1>4, <2>5, <2>6
  <1>5. CASE HandleDrained
    <2> DEFINE left == SubSeq(queue.jobs, queue.head + 1, Len(queue.jobs))
    <2>1. /\ Resolve(Elements(SubSeq(queue.jobs, 1, queue.head)), "Played")
          /\ queue' = [queue EXCEPT !.jobs = left, !.head = 0, !.draining = FALSE]
          /\ PlayerReceives("Drained") /\ UNCHANGED backlog
      BY <1>5 DEF HandleDrained, Reaped
    <2>2. /\ Once(left) /\ \A c : In(left, c) => In(queue.jobs, c)
      BY <1>0, CutOnce DEF HeadInQueue, PlaybackTypes
    <2>3. left \in Seq(Clip)
      BY ReapedTypes
    <2> HIDE DEF left
    <2>4. queue'.jobs = left /\ queue'.head = 0
      BY <2>1 DEF PlaybackTypes
    <2>5. ClipsAreOnce'
      BY <1>0, <2>1, <2>2, <2>4, InboxMoves, ResolvedStays, PlacesKept DEF ClipsAreOnce
    <2>6. Len(left) \in Nat
      BY <2>3
    <2> QED
      BY <2>4, <2>5, <2>6 DEF HeadInQueue
  <1>6. CASE HandleStop \/ HandleFailed
    <2>1. \A c \in Clip : outcome[c] # "none" => outcome'[c] # "none"
      BY <1>6, ResolvedStays DEF HandleStop, HandleFailed
    <2> QED
      BY <1>6, <2>1, AllFinish DEF HandleStop, HandleFailed
  <1>7. CASE HandleShutdown
    <2>1. \A c \in Clip : outcome[c] # "none" => outcome'[c] # "none"
      BY <1>7 DEF HandleShutdown
    <2> QED
      BY <1>7, <2>1, AllFinish DEF HandleShutdown
  <1> QED
    BY <1>2, <1>3, <1>4, <1>5, <1>6, <1>7 DEF MainSteps

LEMMA OthersKeepPlaces ==
  ASSUME WrittenInv, PlaybackTypes',
         \/ \E kind \in {"Stop", "Shutdown"} : StopPlayback(kind)
         \/ FillSteps \/ Sounds \/ Drained \/ StreamFails
         \/ MicAsks \/ MicKeeps \/ Tick \/ UNCHANGED playVars
  PROVE  ClipsAreOnce' /\ HeadInQueue'
  <1> USE DEF WrittenInv
  <1>1. UNCHANGED <<backlog, outcome>>
    BY DEF StopPlayback, FillSteps, Fill, FillDry, HandOver, DataLoop, Sounds, Drained,
       StreamFails, MicAsks, MicKeeps, Tick, playVars, handleVars
  <1>2. queue'.jobs = queue.jobs /\ HeadInQueue'
    <2>1. CASE Fill
      <3> DEFINE last == queue.pos + 1 = quanta[queue.jobs[queue.head + 1]]
                 h == IF last THEN queue.head + 1 ELSE queue.head
                 p == IF last THEN 0 ELSE queue.pos + 1
      <3>1. h <= Len(queue.jobs)
        BY <2>1 DEF Fill, HeadInQueue, PlaybackTypes
      <3>2. queue' = [queue EXCEPT !.head = h, !.pos = p]
        BY <2>1 DEF Fill
      <3> HIDE DEF h, p
      <3>3. queue'.jobs = queue.jobs /\ queue'.head = h
        BY <3>2 DEF PlaybackTypes
      <3> QED
        BY <3>1, <3>3 DEF HeadInQueue
    <2>2. CASE FillDry
      <3>1. queue'.jobs = queue.jobs /\ queue'.head = queue.head
        BY <2>2 DEF FillDry, PlaybackTypes
      <3> QED
        BY <3>1 DEF HeadInQueue
    <2>3. CASE \/ \E kind \in {"Stop", "Shutdown"} : StopPlayback(kind)
               \/ HandOver \/ Sounds \/ Drained \/ StreamFails
               \/ MicAsks \/ MicKeeps \/ Tick \/ UNCHANGED playVars
      <3>1. queue' = queue
        BY <2>3 DEF StopPlayback, HandOver, Sounds, Drained, StreamFails, MicAsks, MicKeeps,
           Tick, playVars, handleVars
      <3> QED
        BY <3>1 DEF HeadInQueue
    <2> QED
      BY <2>1, <2>2, <2>3 DEF FillSteps
  <1>3. PICK m \in Message : m.kind # "Play" /\ (inbox' = inbox \/ inbox' = Append(inbox, m))
    <2>1. \A k \in {"Stop", "Shutdown", "Drained", "Failed"} :
            [kind |-> k] \in Message /\ [kind |-> k].kind # "Play"
      BY DEF Message
    <2>2. CASE \E kind \in {"Stop", "Shutdown"} : StopPlayback(kind)
      BY <2>1, <2>2 DEF StopPlayback
    <2>3. CASE Drained \/ StreamFails
      BY <2>1, <2>3 DEF Drained, StreamFails
    <2>4. CASE FillSteps \/ Sounds \/ MicAsks \/ MicKeeps \/ Tick \/ UNCHANGED playVars
      <3>1. inbox' = inbox
        BY <2>4 DEF FillSteps, Fill, FillDry, HandOver, DataLoop, Sounds, MicAsks, MicKeeps,
           Tick, playVars, handleVars
      <3> QED
        BY <2>1, <3>1
    <2> QED
      BY <2>2, <2>3, <2>4
  <1>4. \A i \in DOMAIN inbox' : inbox'[i].kind = "Play"
                                    => i + 0 \in DOMAIN inbox /\ inbox'[i] = inbox[i + 0]
    BY <1>3, InboxGrows
  <1>5. ClipsAreOnce'
    BY <1>1, <1>2, <1>4, PlacesKept DEF ClipsAreOnce
  <1> QED
    BY <1>2, <1>5

LEMMA WrittenStep == WrittenInv /\ [PlaybackNext]_playVars => WrittenInv'
  <1> SUFFICES ASSUME WrittenInv, [PlaybackNext]_playVars PROVE WrittenInv'
    OBVIOUS
  <1>1. PlaybackTypes'
    BY PlaybackTypesStep DEF WrittenInv
  <1> QED
    BY <1>1, PlayArrives, PlayerKeepsPlaces, OthersKeepPlaces DEF WrittenInv, PlaybackNext

\* Only a drained event reports clips as played, and only those behind the head.
LEMMA PlayedIsBehind ==
  ASSUME WrittenInv, PlaybackNext, NEW i \in DOMAIN queue.jobs,
         outcome'[queue.jobs[i]] = "Played", outcome[queue.jobs[i]] # "Played"
  PROVE  i <= queue.head
  <1> USE DEF WrittenInv
  <1>1. queue.jobs \in Seq(Clip) /\ queue.jobs[i] \in Clip /\ queue.head \in Nat
    BY DEF PlaybackTypes
  <1>2. ASSUME NEW S, NEW r, Resolve(S, r), r # "Played" PROVE FALSE
    BY <1>1, <1>2 DEF Resolve
  <1>3. CASE HandleDrained
    <2> DEFINE p == SubSeq(queue.jobs, 1, queue.head)
    <2>1. queue.jobs[i] \in Elements(p)
      BY <1>1, <1>3 DEF HandleDrained, Reaped, Resolve
    <2>2. PICK k \in DOMAIN p : p[k] = queue.jobs[i]
      BY <2>1 DEF Elements
    <2>3. k \in 1..queue.head /\ k \in DOMAIN queue.jobs /\ queue.jobs[k] = queue.jobs[i]
      BY <1>1, <2>2, Cut DEF HeadInQueue
    <2>4. k = i
      BY <2>3 DEF ClipsAreOnce, Once
    <2> QED
      BY <1>1, <2>3, <2>4
  <1>4. CASE OpenFails \/ HandleStop \/ HandleFailed
    BY <1>2, <1>4 DEF OpenFails, HandleStop, HandleFailed
  <1>5. CASE HandleShutdown
    BY <1>1, <1>5 DEF HandleShutdown
  <1>6. CASE \E c \in Clip : Play(c)
    BY <1>1, <1>6 DEF Play, PlaybackTypes
  <1>7. CASE \/ HandlePlay \/ Lower \/ Admit \/ Waits \/ Reopen
             \/ \E kind \in {"Stop", "Shutdown"} : StopPlayback(kind)
             \/ FillSteps \/ Sounds \/ Drained \/ StreamFails \/ MicAsks \/ MicKeeps \/ Tick
    <2>1. outcome' = outcome
      BY <1>7 DEF HandlePlay, Lower, Admit, Waits, Reopen, Reopening, Pumping, StopPlayback,
         FillSteps, Fill, FillDry, HandOver, DataLoop, Sounds, Drained, StreamFails, MicAsks,
         MicKeeps, Tick
    <2> QED
      BY <2>1
  <1> QED
    BY <1>3, <1>4, <1>5, <1>6, <1>7 DEF PlaybackNext, MainSteps

\* A clip resolves as Played only when every one of its samples was handed to
\* PipeWire, for any number of clips, stops and failures, and however late the
\* drains are reported (queue.rs take_finished, player.rs).
THEOREM OnlyWrittenClipsArePlayed == PlaybackSpec => PlayedWasWritten
  <1>1. WrittenInv /\ [PlaybackNext]_playVars =>
          [\A i \in DOMAIN queue.jobs :
             outcome'[queue.jobs[i]] = "Played" /\ outcome[queue.jobs[i]] # "Played"
               => i <= queue.head]_playVars
    BY PlayedIsBehind
  <1> QED
    BY <1>1, WrittenInitial, WrittenStep, PTL DEF PlaybackSpec, PlayedWasWritten

-----------------------------------------------------------------------------
(***************************************************************************)
(* Voice.  What is in memory and what the configuration says was rendered  *)
(* because every step on the way there is taken by a switch that rendered  *)
(* it; the files under their final names are whole because a task writes   *)
(* through a handle of its own, which follows its file or loses it, unless *)
(* another task met it at one temporary name.                              *)
(***************************************************************************)

Steps == {"asleep", "provider", "phrase", "open", "write", "rename", "sweep", "load", "played",
          "check", "swap", "save_read", "save_open", "save_write", "save_rename", "done"}
TaskRecord == [at : Steps, op : {"set", "preview", "warm"}, key : Key, ticket : Nat, phrase : Nat]

VoiceTypes ==
  /\ task \in [Task -> TaskRecord]
  /\ voiceNow \in [key : Key, phrases : Nat] /\ tickets \in Nat
  /\ rendered \subseteq Key /\ shared \in BOOLEAN
  /\ handle = [t \in Task |-> handle[t]]

Saving == {"save_read", "save_open", "save_write", "save_rename"}
ConfigFiles == {Ron, RonTmp}

\* The voice of k was rendered, under one model or another.
VoiceRendered(k) == \E r \in rendered : r.provider = k.provider /\ r.voice = k.voice

\* A switch counts its phrases from one, and where it loads, swaps or saves a
\* voice, that voice was rendered to the last phrase.
Fits(r) ==
  /\ r.op # "preview" => r.phrase # 0
  /\ r.at = "sweep" => r.op # "preview"
  /\ r.at \in {"sweep", "check", "swap"} => r.phrase = MaxPhrases
  /\ r.at = "load" /\ r.op # "preview" => r.phrase = MaxPhrases /\ VoiceRendered(r.key)
  /\ r.at \in {"check", "swap"} \cup Saving => VoiceRendered(r.key)

SwitchesFit == \A t \in Task : Fits(task[t])

\* Who writes the configuration holds no phrase, and the other way round.
HandlesAreOwn ==
  \A t \in Task :
    handle[t] # Nowhere => \/ task[t].at = "write" /\ handle[t] \notin ConfigFiles
                           \/ task[t].at = "save_write" /\ handle[t] \in ConfigFiles

\* What a configuration file says was rendered, unless it is torn.
ConfigsAreRendered ==
  \A n \in DOMAIN fs :
    n \in ConfigFiles /\ fs[n] # Torn => \E k \in Key : fs[n] = Whole(k) /\ VoiceRendered(k)

\* No task outlives its daemon.
RestsWhenDead == ~running => \A t \in Task : task[t].at \in {"asleep", "done"}

SwitchInv ==
  VoiceTypes /\ SwitchesFit /\ HandlesAreOwn /\ ConfigsAreRendered /\ RestsWhenDead /\ AcksAreWhole

LEMMA StillRendered ==
  ASSUME rendered \subseteq rendered', NEW k
  PROVE  VoiceRendered(k) => VoiceRendered(k)'
  BY DEF VoiceRendered

\* A task goes to another step.
LEMMA TaskGoes ==
  ASSUME VoiceTypes, NEW t \in Task, NEW x \in Steps, Goes(t, x)
  PROVE  /\ task' \in [Task -> TaskRecord]
         /\ \A u \in Task : u # t => task'[u] = task[u]
         /\ task'[t].at = x /\ task'[t].op = task[t].op /\ task'[t].key = task[t].key
         /\ task'[t].phrase = task[t].phrase
  <1>1. task' = [task EXCEPT ![t].at = x]
    BY DEF Goes
  <1>2. task[t] \in TaskRecord
    BY DEF VoiceTypes
  <1> DEFINE r == [task[t] EXCEPT !.at = x]
  <1>3. r \in TaskRecord /\ r.at = x /\ r.op = task[t].op /\ r.key = task[t].key /\ r.phrase = task[t].phrase
    BY <1>2 DEF TaskRecord
  <1>4. task' = [task EXCEPT ![t] = r]
    BY <1>1
  <1> HIDE DEF r
  <1> QED
    BY <1>3, <1>4 DEF VoiceTypes

LEMMA PhraseGoesOn ==
  ASSUME VoiceTypes, NEW t \in Task, AfterPhrase(t)
  PROVE  /\ task' \in [Task -> TaskRecord]
         /\ \A u \in Task : u # t => task'[u] = task[u]
         /\ task'[t].op = task[t].op /\ task'[t].key = task[t].key
         /\ \/ task'[t].at = "load" /\ task[t].op = "preview" /\ task'[t].phrase = task[t].phrase
            \/ /\ task'[t].at = "sweep" /\ task[t].op # "preview" /\ task'[t].phrase = task[t].phrase
               /\ task[t].phrase \in {0, MaxPhrases}
            \/ task'[t].at = "phrase" /\ task'[t].phrase = task[t].phrase + 1
  <1>0. task[t] \in TaskRecord /\ task[t].phrase \in Nat
    BY DEF VoiceTypes, TaskRecord
  <1>1. CASE task[t].phrase \in {Preview, MaxPhrases}
    <2> DEFINE x == IF task[t].op = "preview" THEN "load" ELSE "sweep"
    <2>1. Goes(t, x)
      BY <1>1 DEF AfterPhrase, Goes
    <2>2. x \in Steps /\ (task[t].op = "preview" => x = "load") /\ (task[t].op # "preview" => x = "sweep")
      BY DEF Steps
    <2> HIDE DEF x
    <2> QED
      BY <1>1, <2>1, <2>2, TaskGoes DEF Preview
  <1>2. CASE task[t].phrase \notin {Preview, MaxPhrases}
    <2> DEFINE a == [task[t] EXCEPT !.at = "phrase"]
               r == [a EXCEPT !.phrase = task[t].phrase + 1]
    <2>1. a \in TaskRecord /\ a.at = "phrase" /\ a.op = task[t].op /\ a.key = task[t].key
      BY <1>0 DEF TaskRecord, Steps
    <2>2. task' = [task EXCEPT ![t].at = "phrase", ![t].phrase = @ + 1]
      BY <1>2 DEF AfterPhrase
    <2>3. task' = [task EXCEPT ![t] = r]
      BY <2>2 DEF VoiceTypes
    <2> HIDE DEF a
    <2>4. r \in TaskRecord /\ r.at = "phrase" /\ r.op = task[t].op /\ r.key = task[t].key
          /\ r.phrase = task[t].phrase + 1
      BY <1>0, <2>1 DEF TaskRecord
    <2> HIDE DEF r
    <2> QED
      BY <2>3, <2>4 DEF VoiceTypes
  <1> QED
    BY <1>1, <1>2

\* The names a task writes under are its own kind's.
LEMMA Names ==
  ASSUME NEW k \in Key, NEW p
  PROVE  Tmp(k, p) \notin ConfigFiles /\ Wav(k, p) \notin ConfigFiles
  <1>1. k # Config
    BY ConfigIsNoVoice DEF Key, Config
  <1> QED
    BY <1>1 DEF Tmp, Wav, ConfigFiles, Ron, RonTmp

LEMMA OneSwitchMoves ==
  ASSUME VoiceTypes, SwitchesFit, NEW t \in Task, \A u \in Task : u # t => task'[u] = task[u],
         rendered \subseteq rendered', Fits(task[t])'
  PROVE  SwitchesFit'
  <1> SUFFICES ASSUME NEW u \in Task, u # t PROVE Fits(task[u])'
    BY DEF SwitchesFit
  <1>1. task'[u] = task[u] /\ Fits(task[u])
    BY DEF SwitchesFit
  <1>2. VoiceRendered(task[u].key) => VoiceRendered(task[u].key)'
    BY <1>1 DEF VoiceRendered
  <1> QED
    BY <1>1, <1>2 DEF Fits

\* A step that touches no file.
LEMMA FilesUntouched ==
  ASSUME SwitchInv, NEW t \in Task, \A u \in Task : u # t => task'[u] = task[u],
         rendered \subseteq rendered', UNCHANGED <<fs, handle>>,
         task[t].at \notin {"write", "save_write"}
  PROVE  HandlesAreOwn' /\ ConfigsAreRendered'
  <1>1. HandlesAreOwn'
    BY DEF SwitchInv, HandlesAreOwn
  <1>2. ConfigsAreRendered'
    BY StillRendered DEF SwitchInv, ConfigsAreRendered
  <1> QED
    BY <1>1, <1>2

LEMMA QuietStep ==
  ASSUME SwitchInv, NEW t \in Task,
         \/ GetProvider(t) \/ GivesUp(t) \/ Reuse(t) \/ Synthesize(t) \/ Load(t)
         \/ CheckTicket(t) \/ Swap(t) \/ ReadConfig(t)
  PROVE  /\ SwitchInv'
         /\ UNCHANGED <<fs, handle, shared>> /\ \A u \in Task : u # t => task'[u] = task[u]
         /\ task[t].at \notin {"write", "rename", "save_write", "save_rename"}
         /\ task'[t].at \notin {"write", "rename", "save_write", "save_rename"}
  <1> USE DEF SwitchInv
  <1> USE VoiceAssumption DEF VoiceAssumption
  <1>0. /\ task[t] \in TaskRecord /\ task[t].key \in Key /\ task[t].phrase \in Nat
        /\ Fits(task[t])
    BY DEF VoiceTypes, TaskRecord, SwitchesFit
  <1>1. /\ UNCHANGED <<running, fs, handle, shared, rendered>>
        /\ task[t].at \notin {"write", "rename", "save_write", "save_rename", "asleep", "done"}
    BY DEF GetProvider, GivesUp, Reuse, Synthesize, Load, CheckTicket, Swap, ReadConfig
  <1>2. ASSUME task' \in [Task -> TaskRecord], \A u \in Task : u # t => task'[u] = task[u],
               task'[t].at \notin {"write", "rename", "save_write", "save_rename"},
               Fits(task[t])', voiceNow' \in [key : Key, phrases : Nat],
               voiceNow'.phrases \in {0, MaxPhrases}, tickets' \in Nat
        PROVE  /\ SwitchInv'
               /\ UNCHANGED <<fs, handle, shared>> /\ \A u \in Task : u # t => task'[u] = task[u]
               /\ task[t].at \notin {"write", "rename", "save_write", "save_rename"}
               /\ task'[t].at \notin {"write", "rename", "save_write", "save_rename"}
    <2>1. VoiceTypes'
      BY <1>1, <1>2 DEF VoiceTypes
    <2>2. SwitchesFit'
      BY <1>1, <1>2, OneSwitchMoves
    <2>3. HandlesAreOwn' /\ ConfigsAreRendered'
      BY <1>1, <1>2, FilesUntouched
    <2>4. RestsWhenDead'
      BY <1>1 DEF RestsWhenDead
    <2> QED
      BY <1>1, <1>2, <2>1, <2>2, <2>3, <2>4 DEF AcksAreWhole
  <1>3. ASSUME NEW x \in Steps, Goes(t, x),
               x \notin {"sweep", "write", "rename", "save_write", "save_rename"},
               x = "load" => task[t].op = "preview",
               x \in {"check", "swap"} => task[t].phrase = MaxPhrases,
               x \in {"check", "swap"} \cup Saving => VoiceRendered(task[t].key)
        PROVE  /\ task' \in [Task -> TaskRecord] /\ \A u \in Task : u # t => task'[u] = task[u]
               /\ task'[t].at \notin {"write", "rename", "save_write", "save_rename"}
               /\ Fits(task[t])'
    <2>1. /\ task' \in [Task -> TaskRecord] /\ \A u \in Task : u # t => task'[u] = task[u]
          /\ task'[t].at = x /\ task'[t].op = task[t].op /\ task'[t].key = task[t].key
          /\ task'[t].phrase = task[t].phrase
      BY <1>3, TaskGoes
    <2>2. VoiceRendered(task[t].key) => VoiceRendered(task[t].key)'
      BY <1>1, <2>1 DEF VoiceRendered
    <2> QED
      BY <1>0, <1>3, <2>1, <2>2 DEF Fits
  <1>4. CASE GivesUp(t) \/ Synthesize(t)
    <2>1. PICK x \in {"done", "open"} : Goes(t, x)
      BY <1>4 DEF GivesUp, Synthesize
    <2>2. x \in Steps /\ x \notin {"sweep", "write", "rename", "save_write", "save_rename", "load",
                                   "check", "swap"} \cup Saving
      BY DEF Steps, Saving
    <2>3. UNCHANGED <<voiceNow, tickets>>
      BY <1>4 DEF GivesUp, Synthesize
    <2> QED
      BY <1>1, <1>2, <1>3, <2>1, <2>2, <2>3 DEF VoiceTypes, AcksAreWhole
  <1>5. CASE Load(t)
    <2> DEFINE x == IF \E n \in Loads(t) : ~Readable(n) THEN "done"
                    ELSE IF task[t].op = "preview" THEN "played" ELSE "check"
    <2>1. Goes(t, x) /\ UNCHANGED <<voiceNow, tickets>> /\ task[t].at = "load"
      BY <1>5 DEF Load
    <2>2. x \in {"done", "played", "check"} /\ (x = "check" => task[t].op # "preview")
      OBVIOUS
    <2> HIDE DEF x
    <2>3. x = "check" => task[t].phrase = MaxPhrases /\ VoiceRendered(task[t].key)
      BY <1>0, <2>1, <2>2 DEF Fits
    <2>4. x \in Steps /\ x \notin {"sweep", "write", "rename", "save_write", "save_rename", "load",
                                   "swap"} \cup Saving
      BY <2>2 DEF Steps, Saving
    <2> QED
      BY <1>1, <1>2, <1>3, <2>1, <2>3, <2>4 DEF VoiceTypes, AcksAreWhole
  <1>6. CASE CheckTicket(t) \/ Swap(t)
    <2>1. PICK x \in {"swap", "save_read", "done"} : Goes(t, x) /\ (x = "swap" => CheckTicket(t))
      BY <1>6 DEF CheckTicket, Swap, AfterSwitch
    <2>2. task[t].at \in {"check", "swap"}
      BY <1>6 DEF CheckTicket, Swap
    <2>3. task[t].phrase = MaxPhrases /\ VoiceRendered(task[t].key)
      BY <1>0, <2>2 DEF Fits
    <2>4. x \in Steps /\ x \notin {"sweep", "write", "rename", "save_write", "save_rename", "load"}
      BY DEF Steps
    <2>5. /\ voiceNow' \in [key : Key, phrases : Nat] /\ tickets' \in Nat
          /\ voiceNow'.phrases \in {0, MaxPhrases}
      <3>1. CASE CheckTicket(t)
        BY <3>1 DEF CheckTicket, VoiceTypes, AcksAreWhole
      <3>2. CASE Swap(t)
        BY <1>0, <2>3, <3>2 DEF Swap, VoiceTypes
      <3> QED
        BY <1>6, <3>1, <3>2
    <2> QED
      BY <1>1, <1>2, <1>3, <2>1, <2>3, <2>4, <2>5
  <1>7. CASE Reuse(t)
    <2>1. AfterPhrase(t) /\ UNCHANGED <<voiceNow, tickets>>
      BY <1>7 DEF Reuse
    <2>2. /\ task' \in [Task -> TaskRecord] /\ \A u \in Task : u # t => task'[u] = task[u]
          /\ task'[t].at \in {"load", "sweep", "phrase"}
      BY <2>1, PhraseGoesOn
    <2>3. Fits(task[t])'
      BY <1>0, <2>1, PhraseGoesOn DEF Fits, Saving
    <2> QED
      BY <1>1, <1>2, <2>1, <2>2, <2>3 DEF VoiceTypes, AcksAreWhole
  <1>8. CASE GetProvider(t)
    <2>1. UNCHANGED voiceNow /\ tickets' \in Nat
      BY <1>8 DEF GetProvider, VoiceTypes
    <2>2. /\ task' \in [Task -> TaskRecord] /\ \A u \in Task : u # t => task'[u] = task[u]
          /\ task'[t].at = "phrase" /\ task'[t].op = task[t].op
          /\ task'[t].op # "preview" => task'[t].phrase = task[t].phrase
      <3> DEFINE r == [task[t] EXCEPT !.at = "phrase"]
      <3>1. r \in TaskRecord /\ r.at = "phrase" /\ r.op = task[t].op /\ r.phrase = task[t].phrase
        BY <1>0 DEF TaskRecord, Steps
      <3>2. CASE task[t].op = "preview"
        <4> DEFINE q == [r EXCEPT !.phrase = Preview]
        <4>1. task' = [task EXCEPT ![t] = q]
          BY <1>8, <3>2 DEF GetProvider, VoiceTypes
        <4> HIDE DEF r
        <4>2. q \in TaskRecord /\ q.at = "phrase" /\ q.op = task[t].op
          BY <3>1 DEF TaskRecord, Preview
        <4> HIDE DEF q
        <4> QED
          BY <3>2, <4>1, <4>2 DEF VoiceTypes
      <3>3. CASE task[t].op # "preview"
        <4> DEFINE q == [r EXCEPT !.ticket = tickets + 1]
        <4>1. task' = [task EXCEPT ![t] = q]
          BY <1>8, <3>3 DEF GetProvider, VoiceTypes
        <4> HIDE DEF r
        <4>2. q \in TaskRecord /\ q.at = "phrase" /\ q.op = task[t].op /\ q.phrase = task[t].phrase
          BY <3>1 DEF TaskRecord, VoiceTypes
        <4> HIDE DEF q
        <4> QED
          BY <4>1, <4>2 DEF VoiceTypes
      <3> QED
        BY <3>2, <3>3
    <2>3. Fits(task[t])'
      BY <1>0, <2>2 DEF Fits, Saving
    <2> QED
      BY <1>1, <1>2, <2>1, <2>2, <2>3 DEF VoiceTypes, AcksAreWhole
  <1>9. CASE ReadConfig(t)
    <2>0. UNCHANGED <<voiceNow, tickets>> /\ task[t].at = "save_read"
      BY <1>9 DEF ReadConfig
    <2>1. CASE ~Readable(Ron)
      <3>1. Goes(t, "done") /\ "done" \in Steps
        BY <1>9, <2>1 DEF ReadConfig, Steps
      <3> QED
        BY <1>1, <1>2, <1>3, <2>0, <3>1 DEF VoiceTypes, AcksAreWhole, Saving
    <2>2. CASE Readable(Ron)
      <3>1. PICK k \in Key : fs[Ron] = Whole(k)
        BY <2>2 DEF Readable, ConfigsAreRendered, ConfigFiles
      <3>2. fs[Ron][1] = k
        BY <3>1 DEF Whole
      <3> DEFINE a == [task[t] EXCEPT !.at = "save_open"]
                 q == [a EXCEPT !.key.model = k.model]
      <3>3. /\ a \in TaskRecord /\ a.at = "save_open" /\ a.op = task[t].op /\ a.key = task[t].key
            /\ a.phrase = task[t].phrase
        BY <1>0 DEF TaskRecord, Steps
      <3>4. task' = [task EXCEPT ![t] = q]
        BY <1>9, <2>2, <3>2 DEF ReadConfig, VoiceTypes
      <3> HIDE DEF a
      <3>5. a.key \in Key /\ k.model \in {Default} \cup VoiceProvider
        BY <1>0, <3>3 DEF Key
      <3>6. /\ q \in TaskRecord /\ q.at = "save_open" /\ q.op = task[t].op /\ q.phrase = task[t].phrase
            /\ q.key.provider = task[t].key.provider /\ q.key.voice = task[t].key.voice
        <4> DEFINE y == [a.key EXCEPT !.model = k.model]
        <4>1. y \in Key /\ y.provider = a.key.provider /\ y.voice = a.key.voice
          BY <3>5 DEF Key
        <4>2. q = [a EXCEPT !.key = y]
          OBVIOUS
        <4> HIDE DEF y, q
        <4> QED
          BY <3>3, <4>1, <4>2 DEF TaskRecord
      <3> HIDE DEF q
      <3>7. /\ task' \in [Task -> TaskRecord] /\ \A u \in Task : u # t => task'[u] = task[u]
            /\ task'[t] = q
        BY <3>4, <3>6 DEF VoiceTypes
      <3>8. VoiceRendered(task[t].key)
        BY <1>0, <2>0 DEF Fits, Saving
      <3>9. Fits(task[t])'
        <4>1. VoiceRendered(task[t].key)'
          BY <1>1, <3>6, <3>7, <3>8 DEF VoiceRendered
        <4> QED
          BY <1>0, <3>6, <3>7, <4>1 DEF Fits
      <3> QED
        BY <1>1, <1>2, <2>0, <3>6, <3>7, <3>9 DEF VoiceTypes, AcksAreWhole
    <2> QED
      BY <2>1, <2>2
  <1> QED
    BY <1>1, <1>4, <1>5, <1>6, <1>7, <1>8, <1>9

\* The steps that write: what they do to the task.
LEMMA WriterGoes ==
  ASSUME SwitchInv, NEW t \in Task,
         \/ OpenPhrase(t) \/ WritePhrase(t) \/ OpenConfig(t) \/ WriteConfig(t) \/ RenameConfig(t)
  PROVE  /\ VoiceTypes' /\ SwitchesFit' /\ RestsWhenDead' /\ AcksAreWhole'
         /\ \A u \in Task : u # t => task'[u] = task[u]
         /\ task'[t].key = task[t].key /\ task'[t].phrase = task[t].phrase
         /\ rendered' = rendered
         /\ OpenPhrase(t) => task[t].at = "open" /\ task'[t].at = "write"
         /\ WritePhrase(t) => task[t].at = "write" /\ task'[t].at = "rename"
         /\ OpenConfig(t) => task[t].at = "save_open" /\ task'[t].at = "save_write"
         /\ WriteConfig(t) => task[t].at = "save_write" /\ task'[t].at = "save_rename"
         /\ RenameConfig(t) => task[t].at = "save_rename" /\ task'[t].at = "done"
  <1> USE DEF SwitchInv
  <1>1. /\ UNCHANGED <<running, voiceNow, tickets, rendered>>
        /\ task[t].at \in {"open", "write", "save_open", "save_write", "save_rename"}
    BY DEF OpenPhrase, WritePhrase, OpenConfig, WriteConfig, RenameConfig
  <1>2. PICK x \in {"write", "rename", "save_write", "save_rename", "done"} :
          /\ Goes(t, x)
          /\ x \in Saving => task[t].at \in Saving
          /\ OpenPhrase(t) => task[t].at = "open" /\ x = "write"
          /\ WritePhrase(t) => task[t].at = "write" /\ x = "rename"
          /\ OpenConfig(t) => task[t].at = "save_open" /\ x = "save_write"
          /\ WriteConfig(t) => task[t].at = "save_write" /\ x = "save_rename"
          /\ RenameConfig(t) => task[t].at = "save_rename" /\ x = "done"
    <2>1. CASE OpenPhrase(t)
      BY <2>1 DEF OpenPhrase, WritePhrase, OpenConfig, WriteConfig, RenameConfig, Saving
    <2>2. CASE WritePhrase(t)
      BY <2>2 DEF OpenPhrase, WritePhrase, OpenConfig, WriteConfig, RenameConfig, Saving
    <2>3. CASE OpenConfig(t)
      BY <2>3 DEF OpenPhrase, WritePhrase, OpenConfig, WriteConfig, RenameConfig, Saving
    <2>4. CASE WriteConfig(t)
      BY <2>4 DEF OpenPhrase, WritePhrase, OpenConfig, WriteConfig, RenameConfig, Saving
    <2>5. CASE RenameConfig(t)
      BY <2>5 DEF OpenPhrase, WritePhrase, OpenConfig, WriteConfig, RenameConfig, Saving
    <2> QED
      BY <2>1, <2>2, <2>3, <2>4, <2>5
  <1>3. x \in Steps
    BY DEF Steps
  <1>4. /\ task' \in [Task -> TaskRecord] /\ \A u \in Task : u # t => task'[u] = task[u]
        /\ task'[t].at = x /\ task'[t].op = task[t].op /\ task'[t].key = task[t].key
        /\ task'[t].phrase = task[t].phrase
    BY <1>2, <1>3, TaskGoes
  <1>5. Fits(task[t])'
    <2>1. Fits(task[t])
      BY DEF SwitchesFit
    <2>2. VoiceRendered(task[t].key) => VoiceRendered(task[t].key)'
      BY <1>1, <1>4 DEF VoiceRendered
    <2> QED
      BY <1>2, <1>4, <2>1, <2>2 DEF Fits
  <1>6. SwitchesFit'
    BY <1>1, <1>4, <1>5, OneSwitchMoves
  <1>7. shared' \in BOOLEAN /\ handle' = [u \in Task |-> handle'[u]]
    <2>1. CASE OpenPhrase(t) \/ OpenConfig(t)
      BY <2>1 DEF OpenPhrase, OpenConfig, Open, VoiceTypes
    <2>2. CASE WritePhrase(t) \/ WriteConfig(t)
      BY <2>2 DEF WritePhrase, WriteConfig, Write, VoiceTypes
    <2>3. CASE RenameConfig(t)
      BY <2>3 DEF RenameConfig, Rename, VoiceTypes
    <2> QED
      BY <2>1, <2>2, <2>3
  <1>8. VoiceTypes'
    BY <1>1, <1>4, <1>7 DEF VoiceTypes
  <1>9. RestsWhenDead' /\ AcksAreWhole'
    BY <1>1 DEF RestsWhenDead, AcksAreWhole
  <1> QED
    BY <1>1, <1>2, <1>4, <1>6, <1>8, <1>9

LEMMA FileOpens ==
  ASSUME SwitchInv, NEW t \in Task, OpenPhrase(t) \/ OpenConfig(t)
  PROVE  SwitchInv'
  <1> USE DEF SwitchInv
  <1>1. /\ VoiceTypes' /\ SwitchesFit' /\ RestsWhenDead' /\ AcksAreWhole'
        /\ \A u \in Task : u # t => task'[u] = task[u]
        /\ rendered' = rendered
    BY WriterGoes
  <1>2. PICK n : /\ Open(t, n)
                 /\ \/ n \notin ConfigFiles /\ task'[t].at = "write"
                    \/ n \in ConfigFiles /\ task'[t].at = "save_write"
    <2>1. CASE OpenPhrase(t)
      <3>1. task[t].key \in Key
        BY DEF VoiceTypes, TaskRecord
      <3> QED
        BY <2>1, <3>1, Names, WriterGoes DEF OpenPhrase, NameToWrite
    <2>2. CASE OpenConfig(t)
      BY <2>2, WriterGoes DEF OpenConfig, ConfigFiles
    <2> QED
      BY <2>1, <2>2
  <1>3. fs' = WithFile(fs, n, Torn) /\ handle' = [handle EXCEPT ![t] = n]
    BY <1>2 DEF Open
  <1>4. handle'[t] = n /\ \A u \in Task : u # t => handle'[u] = handle[u]
    BY <1>3 DEF VoiceTypes
  <1>5. HandlesAreOwn'
    BY <1>1, <1>2, <1>4 DEF HandlesAreOwn
  <1>6. ConfigsAreRendered'
    <2>1. /\ DOMAIN fs' = DOMAIN fs \cup {n} /\ fs'[n] = Torn
          /\ \A m \in DOMAIN fs : m # n => fs'[m] = fs[m]
      BY <1>3 DEF WithFile
    <2> QED
      BY <1>1, <2>1 DEF ConfigsAreRendered, VoiceRendered
  <1> QED
    BY <1>1, <1>5, <1>6

LEMMA FileIsWritten ==
  ASSUME SwitchInv, NEW t \in Task, WritePhrase(t) \/ WriteConfig(t)
  PROVE  SwitchInv'
  <1> USE DEF SwitchInv
  <1>1. /\ VoiceTypes' /\ SwitchesFit' /\ RestsWhenDead' /\ AcksAreWhole'
        /\ \A u \in Task : u # t => task'[u] = task[u]
        /\ rendered' = rendered
    BY WriterGoes
  <1>2. task[t].key \in Key /\ Fits(task[t])
    BY DEF VoiceTypes, TaskRecord, SwitchesFit
  <1>3. PICK content :
          /\ Write(t, content)
          /\ handle[t] # Nowhere /\ handle[t] \in ConfigFiles
               => \E k \in Key : content = Whole(k) /\ VoiceRendered(k)
    <2>1. CASE WritePhrase(t)
      BY <2>1 DEF WritePhrase, HandlesAreOwn
    <2>2. CASE WriteConfig(t)
      BY <1>2, <2>2 DEF WriteConfig, Fits, Saving
    <2> QED
      BY <2>1, <2>2
  <1>4. handle'[t] = Nowhere /\ \A u \in Task : u # t => handle'[u] = handle[u]
    BY <1>3 DEF Write, VoiceTypes
  <1>5. HandlesAreOwn'
    BY <1>1, <1>4 DEF HandlesAreOwn
  <1>6. ConfigsAreRendered'
    <2>1. CASE handle[t] = Nowhere
      <3>1. fs' = fs
        BY <1>3, <2>1 DEF Write
      <3> QED
        BY <1>1, <3>1 DEF ConfigsAreRendered, VoiceRendered
    <2>2. CASE handle[t] # Nowhere
      <3>1. fs' = WithFile(fs, handle[t], content)
        BY <1>3, <2>2 DEF Write
      <3>2. /\ DOMAIN fs' = DOMAIN fs \cup {handle[t]} /\ fs'[handle[t]] = content
            /\ \A m \in DOMAIN fs : m # handle[t] => fs'[m] = fs[m]
        BY <3>1 DEF WithFile
      <3> QED
        BY <1>1, <1>3, <2>2, <3>2 DEF ConfigsAreRendered, VoiceRendered
    <2> QED
      BY <2>1, <2>2
  <1> QED
    BY <1>1, <1>5, <1>6

\* What a rename does to files and handles.
LEMMA FileRenamed ==
  ASSUME VoiceTypes, NEW from, NEW to, from # to, from \in DOMAIN fs, Rename(from, to)
  PROVE  /\ DOMAIN fs' = (DOMAIN fs \ {from}) \cup {to} /\ fs'[to] = fs[from]
         /\ \A m \in DOMAIN fs : m # from /\ m # to => fs'[m] = fs[m]
         /\ handle' = [u \in Task |-> handle'[u]]
         /\ \A u \in Task : /\ handle[u] = to => handle'[u] = Nowhere
                            /\ handle[u] = from => handle'[u] = to
                            /\ handle[u] # to /\ handle[u] # from => handle'[u] = handle[u]
  <1> DEFINE rest == [n \in DOMAIN fs \ {from} |-> fs[n]]
  <1>1. fs' = WithFile(rest, to, fs[from])
    BY DEF Rename
  <1>2. DOMAIN rest = DOMAIN fs \ {from} /\ \A m \in DOMAIN rest : rest[m] = fs[m]
    OBVIOUS
  <1> HIDE DEF rest
  <1>3. DOMAIN fs' = DOMAIN rest \cup {to} /\ fs'[to] = fs[from]
        /\ \A m \in DOMAIN rest : m # to => fs'[m] = rest[m]
    BY <1>1 DEF WithFile
  <1>4. /\ handle' = [u \in Task |-> handle'[u]]
        /\ \A u \in Task : /\ handle[u] = to => handle'[u] = Nowhere
                           /\ handle[u] = from => handle'[u] = to
                           /\ handle[u] # to /\ handle[u] # from => handle'[u] = handle[u]
    BY DEF Rename
  <1> QED
    BY <1>2, <1>3, <1>4

LEMMA RenamePhraseKeeps ==
  ASSUME SwitchInv, NEW t \in Task, RenamePhrase(t)
  PROVE  /\ SwitchInv' /\ \A u \in Task : u # t => task'[u] = task[u]
         /\ task[t].at = "rename" /\ task'[t].at \in {"load", "sweep", "phrase", "done"}
  <1> USE DEF SwitchInv
  <1> USE VoiceAssumption DEF VoiceAssumption
  <1>0. /\ task[t].key \in Key /\ task[t].phrase \in Nat /\ Fits(task[t]) /\ task[t].at = "rename"
        /\ UNCHANGED <<running, voiceNow, tickets, rendered, shared>>
    BY DEF VoiceTypes, TaskRecord, SwitchesFit, RenamePhrase
  <1>1. /\ task' \in [Task -> TaskRecord] /\ \A u \in Task : u # t => task'[u] = task[u]
        /\ task'[t].at \in {"load", "sweep", "phrase", "done"} /\ Fits(task[t])'
    <2>1. CASE AfterPhrase(t)
      BY <1>0, <2>1, PhraseGoesOn DEF Fits, Saving
    <2>2. CASE Goes(t, "done")
      <3>1. /\ task' \in [Task -> TaskRecord] /\ \A u \in Task : u # t => task'[u] = task[u]
            /\ task'[t].at = "done" /\ task'[t].op = task[t].op /\ task'[t].phrase = task[t].phrase
        BY <2>2, TaskGoes DEF Steps
      <3> QED
        BY <1>0, <3>1 DEF Fits, Saving
    <2> QED
      BY <2>1, <2>2 DEF RenamePhrase
  <1>2. SwitchesFit'
    BY <1>0, <1>1, OneSwitchMoves
  <1>3. RestsWhenDead' /\ AcksAreWhole'
    BY <1>0 DEF RestsWhenDead, AcksAreWhole
  <1>4. CASE NameToWrite(t) \in DOMAIN fs
    <2> DEFINE from == NameToWrite(t)
               to == Wav(task[t].key, task[t].phrase)
    <2>1. from \notin ConfigFiles /\ to \notin ConfigFiles /\ from # to
          /\ from # Nowhere /\ to # Nowhere
      BY <1>0, Names DEF NameToWrite, Tmp, Wav, Nowhere
    <2>2. Rename(from, to)
      BY <1>4 DEF RenamePhrase
    <2> HIDE DEF from, to
    <2>3. /\ DOMAIN fs' = (DOMAIN fs \ {from}) \cup {to} /\ fs'[to] = fs[from]
          /\ \A m \in DOMAIN fs : m # from /\ m # to => fs'[m] = fs[m]
          /\ handle' = [u \in Task |-> handle'[u]]
          /\ \A u \in Task : /\ handle[u] = to => handle'[u] = Nowhere
                             /\ handle[u] = from => handle'[u] = to
                             /\ handle[u] # to /\ handle[u] # from => handle'[u] = handle[u]
      BY <1>4, <2>1, <2>2, FileRenamed DEF from
    <2>4. HandlesAreOwn'
      <3> SUFFICES ASSUME NEW u \in Task, handle'[u] # Nowhere
                   PROVE  \/ task'[u].at = "write" /\ handle'[u] \notin ConfigFiles
                          \/ task'[u].at = "save_write" /\ handle'[u] \in ConfigFiles
        BY DEF HandlesAreOwn, ConfigFiles, Ron, RonTmp, Config
      <3>1. handle[u] # Nowhere
        BY <2>1, <2>3 DEF HandlesAreOwn
      <3>2. u # t /\ task'[u] = task[u]
        BY <1>0, <1>1, <3>1 DEF HandlesAreOwn
      <3> QED
        BY <2>1, <2>3, <3>1, <3>2 DEF HandlesAreOwn
    <2>5. ConfigsAreRendered'
      BY <1>0, <2>1, <2>3 DEF ConfigsAreRendered, VoiceRendered
    <2>6. VoiceTypes'
      BY <1>0, <1>1, <2>3 DEF VoiceTypes
    <2> QED
      BY <1>0, <1>1, <1>2, <1>3, <2>4, <2>5, <2>6
  <1>5. CASE NameToWrite(t) \notin DOMAIN fs
    <2>1. UNCHANGED <<fs, handle>>
      BY <1>5 DEF RenamePhrase
    <2>2. HandlesAreOwn' /\ ConfigsAreRendered'
      BY <1>0, <1>1, <2>1, FilesUntouched
    <2>3. VoiceTypes'
      BY <1>0, <1>1, <2>1 DEF VoiceTypes
    <2> QED
      BY <1>0, <1>1, <1>2, <1>3, <2>2, <2>3
  <1> QED
    BY <1>4, <1>5

LEMMA RenameConfigKeeps ==
  ASSUME SwitchInv, NEW t \in Task, RenameConfig(t)
  PROVE  SwitchInv'
  <1> USE DEF SwitchInv
  <1>1. /\ VoiceTypes' /\ SwitchesFit' /\ RestsWhenDead' /\ AcksAreWhole'
        /\ \A u \in Task : u # t => task'[u] = task[u]
        /\ rendered' = rendered /\ task[t].at = "save_rename"
    BY WriterGoes
  <1>2. CASE RonTmp \in DOMAIN fs
    <2>1. Rename(RonTmp, Ron) /\ RonTmp # Ron /\ Ron \in ConfigFiles /\ RonTmp \in ConfigFiles
      BY <1>2 DEF RenameConfig, Ron, RonTmp, ConfigFiles
    <2>2. /\ DOMAIN fs' = (DOMAIN fs \ {RonTmp}) \cup {Ron} /\ fs'[Ron] = fs[RonTmp]
          /\ \A m \in DOMAIN fs : m # RonTmp /\ m # Ron => fs'[m] = fs[m]
          /\ \A u \in Task : /\ handle[u] = Ron => handle'[u] = Nowhere
                             /\ handle[u] = RonTmp => handle'[u] = Ron
                             /\ handle[u] # Ron /\ handle[u] # RonTmp => handle'[u] = handle[u]
      <3> DEFINE from == RonTmp
                 to == Ron
      <3>1. from # to /\ from \in DOMAIN fs /\ Rename(from, to)
        BY <1>2, <2>1
      <3> HIDE DEF from, to
      <3>2. /\ DOMAIN fs' = (DOMAIN fs \ {from}) \cup {to} /\ fs'[to] = fs[from]
            /\ \A m \in DOMAIN fs : m # from /\ m # to => fs'[m] = fs[m]
            /\ \A u \in Task : /\ handle[u] = to => handle'[u] = Nowhere
                               /\ handle[u] = from => handle'[u] = to
                               /\ handle[u] # to /\ handle[u] # from => handle'[u] = handle[u]
        <4>1. /\ DOMAIN fs' = (DOMAIN fs \ {from}) \cup {to} /\ fs'[to] = fs[from]
              /\ \A m \in DOMAIN fs : m # from /\ m # to => fs'[m] = fs[m]
              /\ handle' = [u \in Task |-> handle'[u]]
              /\ \A u \in Task : /\ handle[u] = to => handle'[u] = Nowhere
                                 /\ handle[u] = from => handle'[u] = to
                                 /\ handle[u] # to /\ handle[u] # from => handle'[u] = handle[u]
          BY <3>1, FileRenamed
        <4> QED
          BY <4>1
      <3> QED
        BY <3>2 DEF from, to
    <2>3. HandlesAreOwn'
      <3> SUFFICES ASSUME NEW u \in Task, handle'[u] # Nowhere
                   PROVE  \/ task'[u].at = "write" /\ handle'[u] \notin ConfigFiles
                          \/ task'[u].at = "save_write" /\ handle'[u] \in ConfigFiles
        BY DEF HandlesAreOwn, ConfigFiles, Ron, RonTmp, Config
      <3>1. handle[u] # Nowhere
        BY <2>2 DEF Nowhere, RonTmp
      <3>2. u # t /\ task'[u] = task[u]
        BY <1>1, <3>1 DEF HandlesAreOwn
      <3> QED
        BY <2>1, <2>2, <3>1, <3>2 DEF HandlesAreOwn
    <2>4. ConfigsAreRendered'
      BY <1>1, <1>2, <2>1, <2>2 DEF ConfigsAreRendered, VoiceRendered
    <2> QED
      BY <1>1, <2>3, <2>4
  <1>3. CASE RonTmp \notin DOMAIN fs
    <2>1. UNCHANGED <<fs, handle>>
      BY <1>3 DEF RenameConfig
    <2> QED
      BY <1>1, <2>1, FilesUntouched
  <1> QED
    BY <1>2, <1>3

LEMMA SweepKeeps ==
  ASSUME SwitchInv, NEW t \in Task, Sweep(t)
  PROVE  /\ SwitchInv' /\ \A u \in Task : u # t => task'[u] = task[u]
         /\ task[t].at = "sweep" /\ task'[t].at = "load"
  <1> USE DEF SwitchInv
  <1>0. /\ task[t].key \in Key /\ Fits(task[t]) /\ task[t].at = "sweep"
        /\ UNCHANGED <<running, voiceNow, tickets, shared>>
        /\ rendered' = rendered \cup {task[t].key} /\ Goes(t, "load")
        /\ UnlinkFiles(Swept(task[t].key))
    BY DEF VoiceTypes, TaskRecord, SwitchesFit, Sweep
  <1>1. /\ task' \in [Task -> TaskRecord] /\ \A u \in Task : u # t => task'[u] = task[u]
        /\ task'[t].at = "load" /\ task'[t].op = task[t].op /\ task'[t].key = task[t].key
        /\ task'[t].phrase = task[t].phrase
    BY <1>0, TaskGoes DEF Steps
  <1>2. Fits(task[t])'
    <2>1. VoiceRendered(task[t].key)'
      BY <1>0, <1>1 DEF VoiceRendered
    <2> QED
      BY <1>0, <1>1, <2>1 DEF Fits
  <1>3. SwitchesFit'
    BY <1>0, <1>1, <1>2, OneSwitchMoves
  <1>4. RestsWhenDead' /\ AcksAreWhole'
    BY <1>0 DEF RestsWhenDead, AcksAreWhole
  <1>5. /\ handle' = [u \in Task |-> handle'[u]]
        /\ \A u \in Task : handle'[u] \in {handle[u], Nowhere}
        /\ DOMAIN fs' \subseteq DOMAIN fs /\ \A n \in DOMAIN fs' : fs'[n] = fs[n]
    BY <1>0 DEF UnlinkFiles
  <1>6. HandlesAreOwn'
    <2> SUFFICES ASSUME NEW u \in Task, handle'[u] # Nowhere
                 PROVE  \/ task'[u].at = "write" /\ handle'[u] \notin ConfigFiles
                        \/ task'[u].at = "save_write" /\ handle'[u] \in ConfigFiles
      BY DEF HandlesAreOwn, ConfigFiles, Ron, RonTmp, Config
    <2>1. handle'[u] = handle[u] /\ u # t /\ task'[u] = task[u]
      BY <1>0, <1>1, <1>5 DEF HandlesAreOwn
    <2> QED
      BY <2>1 DEF HandlesAreOwn
  <1>7. ConfigsAreRendered'
    BY <1>0, <1>5 DEF ConfigsAreRendered, VoiceRendered
  <1>8. VoiceTypes'
    BY <1>0, <1>1, <1>5 DEF VoiceTypes
  <1> QED
    BY <1>0, <1>1, <1>3, <1>4, <1>6, <1>7, <1>8

LEMMA AsleepIs ==
  Asleep = [at |-> "asleep", op |-> "set", key |-> Asleep.key, ticket |-> 0, phrase |-> 1]
  BY DEF Asleep

LEMMA BegunIs ==
  ASSUME NEW op \in {"set", "preview", "warm"}, NEW key \in Key
  PROVE  /\ Begun(op, key) \in TaskRecord /\ Begun(op, key).at = "provider"
         /\ Begun(op, key).phrase = 1
  <1> DEFINE a == [Asleep EXCEPT !.at = "provider"]
             b == [a EXCEPT !.op = op]
  <1>1. a = [at |-> "provider", op |-> "set", key |-> Asleep.key, ticket |-> 0, phrase |-> 1]
    BY AsleepIs
  <1>2. Begun(op, key) = [b EXCEPT !.key = key]
    BY DEF Begun
  <1> HIDE DEF a
  <1>3. b = [at |-> "provider", op |-> op, key |-> Asleep.key, ticket |-> 0, phrase |-> 1]
    BY <1>1
  <1> HIDE DEF b
  <1>4. Begun(op, key) = [at |-> "provider", op |-> op, key |-> key, ticket |-> 0, phrase |-> 1]
    BY <1>2, <1>3
  <1> QED
    BY <1>4 DEF TaskRecord, Steps

LEMMA AskKeeps ==
  ASSUME SwitchInv, NEW t \in Switch, NEW op \in {"set", "preview"}, NEW p \in VoiceProvider,
         NEW v \in VoiceId, AskVoice(t, op, p, v)
  PROVE  /\ SwitchInv' /\ \A u \in Task : u # t => task'[u] = task[u]
         /\ UNCHANGED <<fs, handle, shared>>
         /\ task[t].at = "asleep" /\ task'[t].at = "provider"
  <1> USE DEF SwitchInv
  <1>0. /\ t \in Task /\ running /\ task[t].at = "asleep"
        /\ UNCHANGED <<running, fs, handle, voiceNow, tickets, rendered, shared>>
    BY DEF AskVoice, Task
  <1>1. TargetOf(p, v) \in Key
    BY DEF TargetOf, VoiceTypes, Key
  <1> DEFINE r == Begun(op, TargetOf(p, v))
  <1>2. task' = [task EXCEPT ![t] = r]
    BY DEF AskVoice
  <1>3. r \in TaskRecord /\ r.at = "provider" /\ r.phrase = 1
    BY <1>1, BegunIs
  <1> HIDE DEF r
  <1>4. /\ task' \in [Task -> TaskRecord] /\ \A u \in Task : u # t => task'[u] = task[u]
        /\ task'[t] = r
    BY <1>0, <1>2, <1>3 DEF VoiceTypes
  <1>5. Fits(task[t])'
    BY <1>3, <1>4 DEF Fits, Saving
  <1>6. SwitchesFit' /\ HandlesAreOwn' /\ ConfigsAreRendered'
    BY <1>0, <1>4, <1>5, OneSwitchMoves, FilesUntouched
  <1>7. VoiceTypes' /\ RestsWhenDead' /\ AcksAreWhole'
    BY <1>0, <1>4 DEF VoiceTypes, RestsWhenDead, AcksAreWhole
  <1> QED
    BY <1>0, <1>3, <1>4, <1>6, <1>7

LEMMA StartKeeps ==
  ASSUME SwitchInv, StartDaemon
  PROVE  /\ SwitchInv' /\ \A u \in Task : u # Warm => task'[u] = task[u]
         /\ UNCHANGED <<fs, handle, shared>>
         /\ task[Warm].at \in {"asleep", "done"} /\ task'[Warm].at = "provider"
  <1> USE DEF SwitchInv
  <1>0. /\ Warm \in Task /\ ~running /\ running' = TRUE
        /\ UNCHANGED <<fs, handle, rendered, shared>> /\ tickets' = 0
    BY DEF StartDaemon, Task
  <1>1. PICK key \in Key : fs[Ron] = Whole(key)
    BY DEF StartDaemon, Readable, ConfigsAreRendered, ConfigFiles
  <1>2. fs[Ron][1] = key
    BY <1>1 DEF Whole
  <1> DEFINE r == Begun("warm", key)
  <1>3. task' = [task EXCEPT ![Warm] = r] /\ voiceNow' = [key |-> key, phrases |-> 0]
    BY <1>2 DEF StartDaemon
  <1>4. r \in TaskRecord /\ r.at = "provider" /\ r.phrase = 1
    BY BegunIs
  <1> HIDE DEF r
  <1>5. /\ task' \in [Task -> TaskRecord] /\ \A u \in Task : u # Warm => task'[u] = task[u]
        /\ task'[Warm] = r
    BY <1>0, <1>3, <1>4 DEF VoiceTypes
  <1>6. Fits(task[Warm])'
    BY <1>4, <1>5 DEF Fits, Saving
  <1>7. task[Warm].at \in {"asleep", "done"}
    BY <1>0 DEF RestsWhenDead
  <1>8. SwitchesFit' /\ HandlesAreOwn' /\ ConfigsAreRendered'
    BY <1>0, <1>5, <1>6, <1>7, OneSwitchMoves, FilesUntouched
  <1>9. VoiceTypes' /\ RestsWhenDead' /\ AcksAreWhole'
    BY <1>0, <1>3, <1>5 DEF VoiceTypes, RestsWhenDead, AcksAreWhole
  <1> QED
    BY <1>0, <1>4, <1>5, <1>7, <1>8, <1>9

LEMMA DieKeeps ==
  ASSUME SwitchInv, Die
  PROVE  /\ SwitchInv' /\ UNCHANGED <<fs, shared>> /\ \A t \in Task : handle'[t] = Nowhere
         /\ \A t \in Task : task'[t].at \in {"asleep", "done"}
  <1> USE DEF SwitchInv
  <1>0. /\ ~running' /\ UNCHANGED <<fs, voiceNow, tickets, rendered, shared>>
        /\ handle' = [t \in Task |-> Nowhere]
        /\ task' = [t \in Task |-> IF task[t].at = "asleep" THEN task[t]
                                   ELSE [task[t] EXCEPT !.at = "done"]]
    BY DEF Die
  <1>1. ASSUME NEW t \in Task
        PROVE  /\ task'[t] \in TaskRecord /\ task'[t].at \in {"asleep", "done"}
               /\ Fits(task[t])'
    <2>1. task[t] \in TaskRecord /\ Fits(task[t])
      BY DEF VoiceTypes, SwitchesFit
    <2> DEFINE r == [task[t] EXCEPT !.at = "done"]
    <2>2. r \in TaskRecord /\ r.at = "done" /\ r.op = task[t].op /\ r.phrase = task[t].phrase
      BY <2>1 DEF TaskRecord, Steps
    <2>3. \/ task'[t] = task[t] /\ task[t].at = "asleep"
          \/ task'[t] = r
      BY <1>0
    <2> HIDE DEF r
    <2> QED
      BY <2>1, <2>2, <2>3 DEF Fits, Saving
  <1>2. task' \in [Task -> TaskRecord]
    BY <1>0, <1>1
  <1>3. VoiceTypes' /\ SwitchesFit' /\ RestsWhenDead' /\ AcksAreWhole'
    BY <1>0, <1>1, <1>2 DEF VoiceTypes, SwitchesFit, RestsWhenDead, AcksAreWhole
  <1>4. HandlesAreOwn' /\ ConfigsAreRendered'
    BY <1>0 DEF HandlesAreOwn, ConfigsAreRendered, VoiceRendered
  <1> QED
    BY <1>0, <1>1, <1>3, <1>4

LEMMA SwitchInitial == VoiceInit => SwitchInv
  <1> SUFFICES ASSUME VoiceInit PROVE SwitchInv
    OBVIOUS
  <1> USE VoiceAssumption DEF VoiceAssumption
  <1>1. PICK k \in Key :
          /\ running = FALSE /\ fs = [n \in {Ron} |-> Whole(k)]
          /\ handle = [t \in Task |-> Nowhere] /\ voiceNow = [key |-> k, phrases |-> 0]
          /\ tickets = 0 /\ task = [t \in Task |-> Asleep] /\ rendered = {k} /\ shared = FALSE
    BY DEF VoiceInit
  <1>2. k.provider \in VoiceProvider /\ k.voice \in VoiceId
    BY DEF Key
  <1>3. Asleep.key \in Key
    <2>1. Asleep.key = [provider |-> CHOOSE p \in VoiceProvider : TRUE,
                        voice |-> CHOOSE v \in VoiceId : TRUE, model |-> Default]
      BY DEF Asleep
    <2>2. (CHOOSE p \in VoiceProvider : TRUE) \in VoiceProvider /\ (CHOOSE v \in VoiceId : TRUE) \in VoiceId
      BY <1>2
    <2> QED
      BY <2>1, <2>2 DEF Key
  <1>5. Asleep \in TaskRecord
    BY <1>3, AsleepIs DEF TaskRecord, Steps
  <1>6. Fits(Asleep)
    BY AsleepIs DEF Fits, Saving
  <1>7. VoiceTypes
    BY <1>1, <1>5 DEF VoiceTypes
  <1>8. SwitchesFit /\ HandlesAreOwn /\ RestsWhenDead /\ AcksAreWhole
    BY <1>1, <1>6, AsleepIs DEF SwitchesFit, HandlesAreOwn, RestsWhenDead, AcksAreWhole
  <1>9. ConfigsAreRendered
    BY <1>1 DEF ConfigsAreRendered, VoiceRendered
  <1> QED
    BY <1>7, <1>8, <1>9 DEF SwitchInv

LEMMA SwitchStep == SwitchInv /\ [VoiceNext]_voiceVars => SwitchInv'
  <1> SUFFICES ASSUME SwitchInv, [VoiceNext]_voiceVars PROVE SwitchInv'
    OBVIOUS
  <1>1. CASE StartDaemon \/ Die
    BY <1>1, StartKeeps, DieKeeps
  <1>2. CASE \E t \in Switch, op \in {"set", "preview"}, p \in VoiceProvider, v \in VoiceId :
               AskVoice(t, op, p, v)
    BY <1>2, AskKeeps
  <1>3. ASSUME NEW t \in Task, VoiceSteps(t) PROVE SwitchInv'
    BY <1>3, QuietStep, FileOpens, FileIsWritten, RenamePhraseKeeps, RenameConfigKeeps, SweepKeeps
       DEF VoiceSteps
  <1>4. CASE UNCHANGED voiceVars
    BY <1>4 DEF voiceVars, SwitchInv, VoiceTypes, SwitchesFit, Fits, HandlesAreOwn,
       ConfigsAreRendered, RestsWhenDead, AcksAreWhole, VoiceRendered
  <1> QED
    BY <1>1, <1>2, <1>3, <1>4 DEF VoiceNext

LEMMA WhatIsConfigured == SwitchInv => ConfiguredWasRendered
  <1> SUFFICES ASSUME SwitchInv, Readable(Ron)
               PROVE  \E k \in rendered : /\ k.provider = fs[Ron][1].provider
                                          /\ k.voice = fs[Ron][1].voice
    BY DEF ConfiguredWasRendered
  <1>1. PICK k \in Key : fs[Ron] = Whole(k) /\ VoiceRendered(k)
    BY DEF SwitchInv, ConfigsAreRendered, Readable, ConfigFiles
  <1>2. fs[Ron][1] = k
    BY <1>1 DEF Whole
  <1> QED
    BY <1>1, <1>2 DEF VoiceRendered

\* Where a task is at its temporary name, and that name.
AtName == {"write", "rename", "save_write", "save_rename"}
NameOf(t) == IF task[t].at \in {"write", "rename"} THEN NameToWrite(t) ELSE RonTmp

\* A task that writes holds its own file, unless that file was removed; what a
\* task renames is whole.
OwnFile(t) ==
  /\ task[t].at \in {"write", "save_write"} => \/ handle[t] = NameOf(t)
                                               \/ handle[t] = Nowhere /\ NameOf(t) \notin DOMAIN fs
  /\ task[t].at \in {"rename", "save_rename"} /\ NameOf(t) \in DOMAIN fs => fs[NameOf(t)] # Torn

\* No two tasks are at one temporary name, and only temporary files are torn.
WritersAreAlone ==
  /\ \A n \in DOMAIN fs : fs[n] = Torn => n[3] = "tmp"
  /\ \A t, u \in Task : t # u /\ task[t].at \in AtName /\ task[u].at \in AtName
                          => NameOf(t) # NameOf(u)
  /\ \A t \in Task : OwnFile(t)

FilesInv == SwitchInv /\ (~shared => WritersAreAlone)

LEMMA NameIs ==
  ASSUME NEW t \in Task
  PROVE  /\ NameOf(t)[3] = "tmp" /\ NameOf(t) # Nowhere
         /\ task[t].at \in AtName => Writing(t) = {NameOf(t)}
  <1>1. NameOf(t)[3] = "tmp" /\ NameOf(t) # Nowhere
    BY DEF NameOf, NameToWrite, Tmp, RonTmp, Nowhere
  <1>2. CASE task[t].at \in {"write", "rename"}
    BY <1>1, <1>2 DEF NameOf, NameToWrite, Writing
  <1>3. CASE task[t].at \in {"save_write", "save_rename"}
    BY <1>1, <1>3 DEF NameOf, Writing
  <1> QED
    BY <1>1, <1>2, <1>3 DEF AtName

\* A task between its files meets nobody.
LEMMA NobodyMet ==
  ASSUME WritersAreAlone, NEW t \in Task, \A u \in Task : u # t => task'[u] = task[u],
         UNCHANGED <<fs, handle>>, task'[t].at \notin AtName
  PROVE  WritersAreAlone'
  <1>1. \A u \in Task : u # t => NameOf(u)' = NameOf(u)
    BY DEF NameOf, NameToWrite
  <1> QED
    BY <1>1 DEF WritersAreAlone, OwnFile, AtName

LEMMA OpenMeetsNobody ==
  ASSUME FilesInv, ~shared', NEW t \in Task, OpenPhrase(t) \/ OpenConfig(t)
  PROVE  WritersAreAlone'
  <1>1. /\ \A u \in Task : u # t => task'[u] = task[u]
        /\ task'[t].key = task[t].key /\ task'[t].phrase = task[t].phrase
        /\ task'[t].at \in {"write", "save_write"}
    BY WriterGoes DEF FilesInv
  <1>2. PICK n : Open(t, n) /\ n = NameOf(t)'
    <2>1. CASE OpenPhrase(t)
      <3>1. task'[t].at = "write"
        BY <2>1, WriterGoes DEF FilesInv
      <3> QED
        BY <1>1, <2>1, <3>1 DEF OpenPhrase, NameOf, NameToWrite
    <2>2. CASE OpenConfig(t)
      <3>1. task'[t].at = "save_write"
        BY <2>2, WriterGoes DEF FilesInv
      <3> QED
        BY <2>2, <3>1 DEF OpenConfig, NameOf
    <2> QED
      BY <2>1, <2>2
  <1>3. /\ fs' = WithFile(fs, n, Torn) /\ handle' = [handle EXCEPT ![t] = n]
        /\ shared' = (shared \/ \E u \in Task \ {t} : n \in Writing(u))
    BY <1>2 DEF Open
  <1>4. ~shared /\ \A u \in Task \ {t} : n \notin Writing(u)
    BY <1>3, Zenon
  <1>5. WritersAreAlone
    BY <1>4 DEF FilesInv
  <1>6. \A u \in Task : u # t => NameOf(u)' = NameOf(u)
    BY <1>1 DEF NameOf, NameToWrite
  <1>7. \A u \in Task : u # t /\ task[u].at \in AtName => NameOf(u) # n
    BY <1>4, NameIs
  <1>8. /\ DOMAIN fs' = DOMAIN fs \cup {n} /\ fs'[n] = Torn
        /\ \A m \in DOMAIN fs : m # n => fs'[m] = fs[m]
    BY <1>3 DEF WithFile
  <1>9. handle'[t] = n /\ \A u \in Task : u # t => handle'[u] = handle[u]
    BY <1>3 DEF FilesInv, SwitchInv, VoiceTypes
  <1>10. n[3] = "tmp"
    BY <1>2 DEF NameOf, NameToWrite, Tmp, RonTmp
  <1>11. \A m \in DOMAIN fs' : fs'[m] = Torn => m[3] = "tmp"
    BY <1>5, <1>8, <1>10 DEF WritersAreAlone
  <1>12. \A v, u \in Task : v # u /\ task'[v].at \in AtName /\ task'[u].at \in AtName
                              => NameOf(v)' # NameOf(u)'
    BY <1>1, <1>2, <1>5, <1>6, <1>7 DEF WritersAreAlone
  <1>13. ASSUME NEW u \in Task PROVE OwnFile(u)'
    <2>1. CASE u = t
      BY <1>1, <1>2, <1>9, <2>1 DEF OwnFile
    <2>2. CASE u # t
      <3>1. OwnFile(u) /\ task'[u] = task[u] /\ handle'[u] = handle[u] /\ NameOf(u)' = NameOf(u)
        BY <1>1, <1>5, <1>6, <1>9, <2>2 DEF WritersAreAlone
      <3>2. task[u].at \in AtName => NameOf(u) # n
        BY <1>7, <2>2
      <3> QED
        BY <1>8, <3>1, <3>2 DEF OwnFile, AtName
    <2> QED
      BY <2>1, <2>2
  <1> QED
    BY <1>11, <1>12, <1>13 DEF WritersAreAlone

LEMMA WriteMeetsNobody ==
  ASSUME FilesInv, ~shared', NEW t \in Task, WritePhrase(t) \/ WriteConfig(t)
  PROVE  WritersAreAlone'
  <1>1. /\ \A u \in Task : u # t => task'[u] = task[u]
        /\ task'[t].key = task[t].key /\ task'[t].phrase = task[t].phrase
        /\ \/ task[t].at = "write" /\ task'[t].at = "rename"
           \/ task[t].at = "save_write" /\ task'[t].at = "save_rename"
    BY WriterGoes DEF FilesInv
  <1>2. WritersAreAlone
    BY DEF WritePhrase, WriteConfig, FilesInv
  <1>3. \A u \in Task : NameOf(u)' = NameOf(u) /\ (task'[u].at \in AtName <=> task[u].at \in AtName)
    BY <1>1 DEF NameOf, NameToWrite, AtName
  <1>4. PICK content : Write(t, content) /\ content # Torn
    <2>1. Whole("audio") # Torn /\ Whole(task[t].key) # Torn
      BY DEF Whole, Torn
    <2>2. CASE WritePhrase(t)
      BY <2>1, <2>2 DEF WritePhrase
    <2>3. CASE WriteConfig(t)
      BY <2>1, <2>3 DEF WriteConfig
    <2> QED
      BY <2>2, <2>3
  <1>5. \A u \in Task : u # t => handle'[u] = handle[u]
    BY <1>4 DEF Write, FilesInv, SwitchInv, VoiceTypes
  <1>6. \/ handle[t] = NameOf(t)
        \/ handle[t] = Nowhere /\ NameOf(t) \notin DOMAIN fs
    BY <1>1, <1>2 DEF WritersAreAlone, OwnFile
  <1>7. \A u \in Task : u # t /\ task[u].at \in AtName => NameOf(u) # NameOf(t)
    BY <1>1, <1>2 DEF WritersAreAlone, AtName
  <1>8. /\ \A m \in DOMAIN fs' : m # NameOf(t) => m \in DOMAIN fs /\ fs'[m] = fs[m]
        /\ NameOf(t) \in DOMAIN fs' => fs'[NameOf(t)] # Torn
    <2>1. CASE handle[t] = NameOf(t)
      <3>1. fs' = WithFile(fs, NameOf(t), content)
        BY <1>4, <2>1, NameIs DEF Write
      <3> QED
        BY <1>4, <3>1 DEF WithFile
    <2>2. CASE handle[t] = Nowhere /\ NameOf(t) \notin DOMAIN fs
      BY <1>4, <2>2 DEF Write
    <2> QED
      BY <1>6, <2>1, <2>2
  <1>9. \A m \in DOMAIN fs' : fs'[m] = Torn => m[3] = "tmp"
    BY <1>2, <1>8 DEF WritersAreAlone
  <1>10. \A v, u \in Task : v # u /\ task'[v].at \in AtName /\ task'[u].at \in AtName
                              => NameOf(v)' # NameOf(u)'
    BY <1>2, <1>3 DEF WritersAreAlone
  <1>11. ASSUME NEW u \in Task PROVE OwnFile(u)'
    <2>1. CASE u = t
      BY <1>1, <1>3, <1>8, <2>1 DEF OwnFile
    <2>2. CASE u # t
      <3>1. OwnFile(u) /\ task'[u] = task[u] /\ handle'[u] = handle[u] /\ NameOf(u)' = NameOf(u)
        BY <1>1, <1>2, <1>3, <1>5, <2>2 DEF WritersAreAlone
      <3>2. task[u].at \in AtName => NameOf(u) # NameOf(t)
        BY <1>7, <2>2
      <3> QED
        BY <1>8, <3>1, <3>2 DEF OwnFile, AtName
    <2> QED
      BY <2>1, <2>2
  <1> QED
    BY <1>9, <1>10, <1>11 DEF WritersAreAlone

\* A whole file leaves the name nobody else is at.
LEMMA RenameMeetsNobody ==
  ASSUME VoiceTypes, WritersAreAlone, NEW t \in Task, \A u \in Task : u # t => task'[u] = task[u],
         task[t].at \in {"rename", "save_rename"}, task'[t].at \notin AtName,
         NEW to, to[3] # "tmp", to # Nowhere, NameOf(t) \in DOMAIN fs, Rename(NameOf(t), to)
  PROVE  WritersAreAlone'
  <1> DEFINE from == NameOf(t)
  <1>1. from[3] = "tmp" /\ from # Nowhere /\ from \in DOMAIN fs /\ Rename(from, to)
    BY NameIs
  <1>2. from # to /\ fs[from] # Torn
    BY <1>1 DEF WritersAreAlone, OwnFile
  <1>3. \A u \in Task : u # t /\ task[u].at \in AtName => NameOf(u) # from
    BY DEF WritersAreAlone, AtName
  <1>4. \A u \in Task : NameOf(u) # to
    BY NameIs
  <1> HIDE DEF from
  <1>5. /\ DOMAIN fs' = (DOMAIN fs \ {from}) \cup {to} /\ fs'[to] = fs[from]
        /\ \A m \in DOMAIN fs : m # from /\ m # to => fs'[m] = fs[m]
        /\ handle' = [u \in Task |-> handle'[u]]
        /\ \A u \in Task : /\ handle[u] = to => handle'[u] = Nowhere
                           /\ handle[u] = from => handle'[u] = to
                           /\ handle[u] # to /\ handle[u] # from => handle'[u] = handle[u]
    BY <1>1, <1>2, FileRenamed
  <1>6. \A u \in Task : u # t => NameOf(u)' = NameOf(u)
    BY DEF NameOf, NameToWrite
  <1>7. \A m \in DOMAIN fs' : fs'[m] = Torn => m[3] = "tmp"
    BY <1>2, <1>5 DEF WritersAreAlone
  <1>8. \A v, u \in Task : v # u /\ task'[v].at \in AtName /\ task'[u].at \in AtName
                             => NameOf(v)' # NameOf(u)'
    BY <1>6 DEF WritersAreAlone
  <1>9. ASSUME NEW u \in Task PROVE OwnFile(u)'
    <2>1. CASE u = t
      BY <2>1 DEF OwnFile, AtName
    <2>2. CASE u # t
      <3>1. OwnFile(u) /\ task'[u] = task[u] /\ NameOf(u)' = NameOf(u)
        BY <1>6, <2>2 DEF WritersAreAlone
      <3>2. NameOf(u) # to /\ (task[u].at \in AtName => NameOf(u) # from)
        BY <1>3, <1>4, <2>2
      <3>3. handle[u] = NameOf(u) /\ task[u].at \in AtName => handle'[u] = NameOf(u)
        BY <1>5, <3>2
      <3>4. handle[u] = Nowhere => handle'[u] = Nowhere
        BY <1>1, <1>5
      <3> QED
        BY <1>5, <3>1, <3>2, <3>3, <3>4 DEF OwnFile, AtName
    <2> QED
      BY <2>1, <2>2
  <1> QED
    BY <1>7, <1>8, <1>9 DEF WritersAreAlone

\* A file that is swept away takes its writer's name with it.
LEMMA SweepMeetsNobody ==
  ASSUME VoiceTypes, WritersAreAlone, NEW t \in Task, \A u \in Task : u # t => task'[u] = task[u],
         task'[t].at \notin AtName, NEW gone, UnlinkFiles(gone)
  PROVE  WritersAreAlone'
  <1>1. /\ DOMAIN fs' = DOMAIN fs \ gone /\ \A n \in DOMAIN fs' : fs'[n] = fs[n]
        /\ \A u \in Task : handle'[u] = IF handle[u] \in gone THEN Nowhere ELSE handle[u]
    BY DEF UnlinkFiles
  <1>2. \A u \in Task : u # t => NameOf(u)' = NameOf(u)
    BY DEF NameOf, NameToWrite
  <1>3. \A n \in DOMAIN fs' : fs'[n] = Torn => n[3] = "tmp"
    BY <1>1 DEF WritersAreAlone
  <1>4. \A v, u \in Task : v # u /\ task'[v].at \in AtName /\ task'[u].at \in AtName
                             => NameOf(v)' # NameOf(u)'
    BY <1>2 DEF WritersAreAlone
  <1>5. ASSUME NEW u \in Task PROVE OwnFile(u)'
    <2>1. CASE u = t
      BY <2>1 DEF OwnFile, AtName
    <2>2. CASE u # t
      <3>1. OwnFile(u) /\ task'[u] = task[u] /\ NameOf(u)' = NameOf(u)
        BY <1>2, <2>2 DEF WritersAreAlone
      <3> QED
        BY <1>1, <3>1 DEF OwnFile
    <2> QED
      BY <2>1, <2>2
  <1> QED
    BY <1>3, <1>4, <1>5 DEF WritersAreAlone

LEMMA RenamesMeetNobody ==
  ASSUME FilesInv, ~shared', NEW t \in Task, RenamePhrase(t) \/ RenameConfig(t)
  PROVE  WritersAreAlone'
  <1>1. /\ VoiceTypes /\ WritersAreAlone /\ \A u \in Task : u # t => task'[u] = task[u]
        /\ task[t].at \in {"rename", "save_rename"} /\ task'[t].at \notin AtName
    <2>1. WritersAreAlone /\ VoiceTypes /\ SwitchInv
      BY DEF RenamePhrase, RenameConfig, FilesInv, SwitchInv
    <2>2. CASE RenamePhrase(t)
      BY <2>1, <2>2, RenamePhraseKeeps DEF AtName
    <2>3. CASE RenameConfig(t)
      BY <2>1, <2>3, WriterGoes DEF AtName
    <2> QED
      BY <2>2, <2>3
  <1>2. CASE UNCHANGED <<fs, handle>>
    BY <1>1, <1>2, NobodyMet
  <1>3. CASE RenamePhrase(t) /\ ~UNCHANGED <<fs, handle>>
    <2> DEFINE to == Wav(task[t].key, task[t].phrase)
    <2>1. task[t].at = "rename" /\ NameOf(t) = NameToWrite(t)
      BY <1>3 DEF RenamePhrase, NameOf
    <2>2. NameOf(t) \in DOMAIN fs /\ Rename(NameOf(t), to)
      BY <1>3, <2>1 DEF RenamePhrase
    <2>3. to[3] # "tmp" /\ to # Nowhere
      BY DEF Wav, Nowhere
    <2> HIDE DEF to
    <2> QED
      BY <1>1, <2>2, <2>3, RenameMeetsNobody
  <1>4. CASE RenameConfig(t) /\ ~UNCHANGED <<fs, handle>>
    <2>1. task[t].at = "save_rename" /\ NameOf(t) = RonTmp
      BY <1>4 DEF RenameConfig, NameOf
    <2>2. NameOf(t) \in DOMAIN fs /\ Rename(NameOf(t), Ron)
      BY <1>4, <2>1 DEF RenameConfig
    <2>3. Ron[3] # "tmp" /\ Ron # Nowhere
      BY DEF Ron, Nowhere
    <2> QED
      BY <1>1, <2>2, <2>3, RenameMeetsNobody
  <1> QED
    BY <1>2, <1>3, <1>4

LEMMA FilesInitial == VoiceInit => FilesInv
  <1> SUFFICES ASSUME VoiceInit PROVE FilesInv
    OBVIOUS
  <1>1. PICK k \in Key :
          /\ fs = [n \in {Ron} |-> Whole(k)] /\ handle = [t \in Task |-> Nowhere]
          /\ task = [t \in Task |-> Asleep]
    BY DEF VoiceInit
  <1>2. \A t \in Task : task[t].at = "asleep"
    BY <1>1, AsleepIs
  <1>3. \A n \in DOMAIN fs : fs[n] # Torn
    BY <1>1 DEF Whole, Torn
  <1>4. WritersAreAlone
    BY <1>2, <1>3 DEF WritersAreAlone, OwnFile, AtName
  <1> QED
    BY <1>4, SwitchInitial DEF FilesInv

LEMMA FilesStep == FilesInv /\ [VoiceNext]_voiceVars => FilesInv'
  <1> SUFFICES ASSUME FilesInv, [VoiceNext]_voiceVars, ~shared' PROVE WritersAreAlone'
    BY SwitchStep DEF FilesInv
  <1>0. SwitchInv /\ VoiceTypes
    BY DEF FilesInv, SwitchInv
  <1>1. CASE StartDaemon
    <2>1. /\ \A u \in Task : u # Warm => task'[u] = task[u]
          /\ UNCHANGED <<fs, handle, shared>> /\ task'[Warm].at \notin AtName
      BY <1>0, <1>1, StartKeeps DEF AtName
    <2>2. WritersAreAlone /\ Warm \in Task
      BY <2>1 DEF FilesInv, Task
    <2> QED
      BY <2>1, <2>2, NobodyMet
  <1>2. CASE Die
    <2>1. UNCHANGED <<fs, shared>> /\ \A t \in Task : task'[t].at \in {"asleep", "done"}
      BY <1>0, <1>2, DieKeeps
    <2>2. WritersAreAlone
      BY <2>1 DEF FilesInv
    <2> QED
      BY <2>1, <2>2 DEF WritersAreAlone, OwnFile, AtName
  <1>3. ASSUME NEW t \in Switch, NEW op \in {"set", "preview"}, NEW p \in VoiceProvider,
               NEW v \in VoiceId, AskVoice(t, op, p, v)
        PROVE  WritersAreAlone'
    <2>1. /\ \A u \in Task : u # t => task'[u] = task[u]
          /\ UNCHANGED <<fs, handle, shared>> /\ task'[t].at \notin AtName
      BY <1>0, <1>3, AskKeeps DEF AtName
    <2>2. WritersAreAlone /\ t \in Task
      BY <2>1 DEF FilesInv, Task
    <2> QED
      BY <2>1, <2>2, NobodyMet
  <1>4. ASSUME NEW t \in Task, VoiceSteps(t) PROVE WritersAreAlone'
    <2>1. CASE \/ GetProvider(t) \/ GivesUp(t) \/ Reuse(t) \/ Synthesize(t) \/ Load(t)
               \/ CheckTicket(t) \/ Swap(t) \/ ReadConfig(t)
      <3>1. /\ \A u \in Task : u # t => task'[u] = task[u]
            /\ UNCHANGED <<fs, handle, shared>> /\ task'[t].at \notin AtName
        BY <1>0, <2>1, QuietStep DEF AtName
      <3>2. WritersAreAlone
        BY <3>1 DEF FilesInv
      <3> QED
        BY <3>1, <3>2, NobodyMet
    <2>2. CASE Sweep(t)
      <3>1. /\ \A u \in Task : u # t => task'[u] = task[u]
            /\ task'[t].at \notin AtName
        BY <1>0, <2>2, SweepKeeps DEF AtName
      <3>2. WritersAreAlone /\ UnlinkFiles(Swept(task[t].key))
        BY <2>2 DEF FilesInv, Sweep
      <3> QED
        BY <1>0, <3>1, <3>2, SweepMeetsNobody
    <2> QED
      BY <1>4, <2>1, <2>2, OpenMeetsNobody, WriteMeetsNobody, RenamesMeetNobody DEF VoiceSteps
  <1>5. CASE UNCHANGED voiceVars
    <2>1. WritersAreAlone
      BY <1>5 DEF voiceVars, FilesInv
    <2> QED
      BY <1>5, <2>1 DEF voiceVars, WritersAreAlone, OwnFile, NameOf, NameToWrite
  <1> QED
    BY <1>1, <1>2, <1>3, <1>4, <1>5 DEF VoiceNext

\* Whatever renders, sweeps, deaths and switches met on the disk, the phrases in
\* memory are a whole vocabulary, a file under its final name is whole unless
\* two tasks met at one temporary name, and the configured voice is one that
\* was rendered (Speech::switch_to, set_voice; PhraseCache::render;
\* set_string_fields).
THEOREM VoiceSurvivesDeaths == VoiceSpec => []VoiceIsWhole
  <1>1. FilesInv => VoiceIsWhole
    <2>1. FilesInv => FilesAreWhole
      BY DEF FilesInv, WritersAreAlone, FilesAreWhole
    <2> QED
      BY <2>1, WhatIsConfigured DEF VoiceIsWhole, FilesInv, SwitchInv
  <1> QED
    BY <1>1, FilesInitial, FilesStep, PTL DEF VoiceSpec
=============================================================================
