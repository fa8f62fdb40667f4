----------------------------- MODULE HeardProofs -----------------------------
(***************************************************************************)
(* Theorems about what is heard: the microphone's ring and the wake-word   *)
(* watcher that reads it (Capture), and a recording's way through its      *)
(* segments and workers to the committed text (Transcribe), for a ring, a  *)
(* pause and a margin of any length.                                       *)
(***************************************************************************)
EXTENDS MCAudio, Induction, TLAPS


-----------------------------------------------------------------------------
(* The microphone's ring and the wake-word watcher *)

\* Two positions less than the ring apart have slots of their own.
LEMMA NoMultipleBetween ==
  ASSUME NEW C \in Nat \ {0}, NEW k \in Int, NEW d \in Int, d = C * k, 0 < d, d < C
  PROVE  FALSE
  <1>1. CASE k <= 0
    BY <1>1
  <1>2. CASE k >= 1
    BY <1>2
  <1> QED BY <1>1, <1>2

LEMMA SlotsDiffer ==
  ASSUME NEW C \in Nat \ {0}, NEW p \in Nat, NEW q \in Nat, p < q, q - p < C
  PROVE  p % C # q % C
  <1>1. /\ p  = C * (p \div C) + (p % C) /\ p \div C \in Nat
        /\ q = C * (q \div C) + (q % C) /\ q \div C \in Nat
    OBVIOUS
  <1> DEFINE a == p \div C
             b == q \div C
             r == p % C
  <1>2. SUFFICES ASSUME q % C = r PROVE FALSE
    OBVIOUS
  <1>3. a \in Nat /\ b \in Nat /\ r \in Int /\ p = C * a + r /\ q = C * b + r
    BY <1>1, <1>2
  <1> HIDE DEF a, b, r
  <1>4. C * b - C * a = C * (b - a)
    BY <1>3
  <1>5. q - p = C * (b - a)
    BY <1>3, <1>4
  <1> QED BY <1>3, <1>5, NoMultipleBetween

StoredTo == head + written
Copying == watch.at \in {"watching", "checking"}

Tracker == [phase : {"Quiet", "Collecting", "Done"}, onset : Int, silence : Int]
Stretch == [from : Int, to : Int]
WatchStep == [at : {"off", "idle", "watching", "checking"}, pos : Nat, from : Nat, to : Int,
              out : Seq(Int), check : Stretch]

CaptureTypes ==
  /\ head \in Nat /\ written \in Nat /\ chunk \in Nat
  /\ voice \in Seq(BOOLEAN) /\ Len(voice) = head + written + chunk /\ Len(voice) <= MaxSamples
  /\ samples \in [0 .. Capacity - 1 -> Int]
  /\ disturbed \in BOOLEAN
  /\ watch \in WatchStep
  /\ tracker \in Tracker
  /\ restarts \in Nat
  /\ saw \in [0 .. MaxSamples - 1 -> {"unseen", "speech", "silence"}]
  /\ checks \subseteq [epoch : Nat, from : Nat]

\* A slot holds a position of the newest lap that reached it.
RingHolds ==
  \A p \in 0 .. StoredTo - 1 :
    /\ samples[p % Capacity] \in p .. StoredTo - 1
    /\ p >= StoredTo - Capacity => samples[p % Capacity] = p

\* A copy is made of what was published, and of what the ring still holds while
\* the writer rests.
CopyHolds ==
  /\ ~disturbed => chunk = 0 /\ written = 0
  /\ Copying => watch.to <= head /\ (~disturbed => watch.from >= head - Capacity)
  /\ watch.pos <= head
  /\ \A i \in DOMAIN watch.out : watch.out[i] \in watch.from + i - 1 .. Len(voice) - 1

\* A whole gap of silence between two positions.
Gap(s, lo, hi) == \E p \in lo .. hi - SilenceGap : \A q \in p .. p + SilenceGap - 1 : s[q] = "silence"

Onsets == {c.from : c \in {c \in checks : c.epoch = restarts}}

\* What the tracker t knows of what it was told before p, when the stretches that
\* begin at A were checked.
TrackedTo(t, A, p, s) ==
  /\ A \subseteq Nat /\ \A c \in A : c <= Minus(p, WakeMargin)
  /\ t.silence # NoPosition =>
       t.silence \in 0 .. p - 1 /\ \A q \in t.silence .. p - 1 : s[q] = "silence"
  /\ t.phase = "Quiet" => \A c \in A : Gap(s, c, p)
  /\ t.phase = "Collecting" =>
       /\ t.onset \in Nat /\ t.onset <= Minus(p, WakeMargin)
       /\ t.silence # NoPosition => t.onset <= t.silence
       /\ \A c \in A : c <= t.onset /\ (c < t.onset => Gap(s, c, t.onset + WakeMargin))
  /\ t.phase = "Done" /\ t.silence # NoPosition => \A c \in A : c <= t.silence
  /\ \A c, d \in A : c < d => Gap(s, c, d + WakeMargin)

Reached == IF watch.at = "watching" THEN watch.from ELSE watch.pos

CaptureInv ==
  /\ CaptureTypes /\ RingHolds /\ CopyHolds /\ ReadIsWritten
  /\ \A c \in checks : c.epoch <= restarts
  /\ watch.at # "off" => TrackedTo(tracker, Onsets, Reached, saw)
  /\ OneCheckAStretch

LEMMA CaptureConstants ==
  /\ Capacity \in Nat \ {0} /\ MaxChunk \in Nat \ {0} /\ WakeWindow \in Nat \ {0}
  /\ SilenceGap \in Nat \ {0} /\ WakeMargin \in Nat /\ MaxSamples \in Nat
  BY CaptureAssumption DEF CaptureAssumption

LEMMA NoWatchIs ==
  /\ NoWatch \in WatchStep
  /\ NoWatch.at = "off" /\ NoWatch.pos = 0 /\ NoWatch.out = <<>> /\ NewTracker \in Tracker
  /\ NewTracker.phase = "Quiet" /\ NewTracker.silence = NoPosition
  BY DEF NoWatch, NoCheck, NoPosition, NewTracker, Tracker, WatchStep, Stretch

LEMMA CaptureInitial == CaptureInit => CaptureInv
  <1> SUFFICES ASSUME CaptureInit PROVE CaptureInv
    OBVIOUS
  <1>1. CaptureTypes
    <2>1. samples \in [0 .. Capacity - 1 -> Int]
      BY DEF CaptureInit, NoPosition
    <2>2. saw \in [0 .. MaxSamples - 1 -> {"unseen", "speech", "silence"}]
      BY DEF CaptureInit, Unheard
    <2>3. watch \in WatchStep /\ tracker \in Tracker
      BY NoWatchIs DEF CaptureInit
    <2>4. head = 0 /\ written = 0 /\ chunk = 0 /\ voice = <<>> /\ disturbed = FALSE /\ restarts = 0 /\ checks = {}
      BY DEF CaptureInit
    <2>5. voice \in Seq(BOOLEAN) /\ Len(voice) = 0
      BY <2>4
    <2>6. Len(voice) = head + written + chunk /\ Len(voice) <= MaxSamples
      BY <2>4, <2>5, CaptureConstants
    <2> QED
      BY <2>1, <2>2, <2>3, <2>4, <2>5, <2>6 DEF CaptureTypes
  <1>2. RingHolds /\ CopyHolds /\ ReadIsWritten
    BY CaptureConstants, NoWatchIs
     DEF CaptureInit, RingHolds, CopyHolds, ReadIsWritten, StoredTo, Copying
  <1> QED
    BY <1>1, <1>2, NoWatchIs DEF CaptureInit, CaptureInv, OneCheckAStretch

-----------------------------------------------------------------------------
\* One more sample is stored.
LEMMA StoreStep ==
  ASSUME CaptureTypes, RingHolds, Store
  PROVE  RingHolds' /\ samples' \in [0 .. Capacity - 1 -> Int]
  <1> DEFINE n == head + written
             place == n % Capacity
  <1>1. n \in Nat /\ StoredTo' = n + 1 /\ StoredTo = n /\ Capacity \in Nat \ {0}
    BY CaptureConstants DEF CaptureTypes, Store, StoredTo
  <1>2. place \in 0 .. Capacity - 1
    BY <1>1
  <1>3. samples' = [samples EXCEPT ![place] = n] /\ samples \in [0 .. Capacity - 1 -> Int]
    BY DEF Store, CaptureTypes
  <1>4. ASSUME NEW p \in 0 .. n
        PROVE  /\ samples'[p % Capacity] \in p .. n
               /\ p >= n + 1 - Capacity => samples'[p % Capacity] = p
    <2>1. p % Capacity \in 0 .. Capacity - 1 /\ p \in Nat
      BY <1>1
    <2>2. CASE p = n
      BY <1>1, <1>2, <1>3, <2>2
    <2>3. CASE p < n
      <3>1. samples[p % Capacity] \in p .. n - 1 /\ (p >= n - Capacity => samples[p % Capacity] = p)
        BY <1>1, <2>3 DEF RingHolds
      <3>2. CASE p % Capacity = place
        <4>1. ~(n - p < Capacity)
          BY <1>1, <2>1, <2>3, <3>2, SlotsDiffer
        <4>2. samples'[p % Capacity] = n
          BY <1>2, <1>3, <3>2
        <4> HIDE DEF n
        <4> QED BY <1>1, <2>1, <2>3, <4>1, <4>2
      <3>3. CASE p % Capacity # place
        <4>1. samples'[p % Capacity] = samples[p % Capacity]
          BY <1>3, <2>1, <3>3
        <4> HIDE DEF n
        <4> QED BY <1>1, <2>1, <2>3, <3>1, <4>1
      <3> QED BY <3>2, <3>3
    <2> QED BY <1>1, <2>2, <2>3
  <1>5. samples' \in [0 .. Capacity - 1 -> Int]
    BY <1>1, <1>2, <1>3
  <1> HIDE DEF n, place
  <1> QED BY <1>1, <1>4, <1>5 DEF RingHolds

-----------------------------------------------------------------------------
(* What the tracker does with one window *)

PushState == [tracker : Tracker, checks : Seq(Stretch)]

AskedBy(t) == {t.checks[k].from : k \in DOMAIN t.checks}

LEMMA MinusIs ==
  ASSUME NEW a \in Nat, NEW b \in Nat
  PROVE  /\ Minus(a, b) \in Nat /\ Minus(a, b) <= a /\ Minus(a, b) <= Minus(a + 1, b)
         /\ Minus(a, b) > 0 => Minus(a, b) + b = a
  BY DEF Minus

\* A gap found before a position is found before a later one.
LEMMA GapLater ==
  ASSUME NEW s, NEW a \in Int, NEW p \in Int, NEW q \in Int, p <= q, Gap(s, a, p)
  PROVE  Gap(s, a, q)
  <1>1. PICK n \in a .. p - SilenceGap : \A k \in n .. n + SilenceGap - 1 : s[k] = "silence"
    BY DEF Gap
  <1>2. n \in a .. q - SilenceGap
    BY <1>1, CaptureConstants
  <1> QED BY <1>1, <1>2 DEF Gap

LEMMA PushStep ==
  ASSUME NEW t \in PushState, NEW p \in Nat, NEW is \in BOOLEAN, NEW s, NEW A, NEW top \in Nat,
         p + 1 <= top, \A k \in DOMAIN t.checks : t.checks[k].to <= top,
         TrackedTo(t.tracker, A \cup AskedBy(t), p, s), s[p] = IF is THEN "speech" ELSE "silence"
  PROVE  LET u == Push(t, p, is)
         IN  /\ u \in PushState /\ \A k \in DOMAIN u.checks : u.checks[k].to <= top
             /\ TrackedTo(u.tracker, A \cup AskedBy(u), p + 1, s)
  <1> DEFINE old == t.tracker
             silence == IF is THEN NoPosition ELSE IF old.silence = NoPosition THEN p ELSE old.silence
             ended == StretchEnded(silence, p + 1)
             onset == old.onset
             told(ph, o) == [phase |-> ph, onset |-> o, silence |-> silence]
             c == [from |-> onset, to |-> IF ended THEN silence ELSE p + 1]
             u == Push(t, p, is)
             B == A \cup AskedBy(t)
  <1>1. /\ old \in Tracker /\ t.checks \in Seq(Stretch) /\ t = [tracker |-> old, checks |-> t.checks]
        /\ old.phase \in {"Quiet", "Collecting", "Done"} /\ onset \in Int /\ old.silence \in Int
    BY DEF PushState, Tracker
  <1>2. /\ silence \in Int
        /\ silence # NoPosition => ~is /\ silence \in 0 .. p /\ \A q \in silence .. p : s[q] = "silence"
        /\ is => silence = NoPosition
        /\ ended => silence # NoPosition /\ p + 1 - silence >= SilenceGap
    <2>1. old.silence # NoPosition =>
            old.silence \in 0 .. p - 1 /\ \A q \in old.silence .. p - 1 : s[q] = "silence"
      BY DEF TrackedTo
    <2> QED BY <1>1, <2>1 DEF StretchEnded, NoPosition
  <1>10. /\ old.phase = "Quiet" /\ is =>
             u = [tracker |-> told("Collecting", Minus(p, WakeMargin)), checks |-> t.checks]
         /\ old.phase = "Collecting" /\ (p + 1 - onset >= WakeWindow \/ ended) =>
             u = [tracker |-> told("Done", onset), checks |-> Append(t.checks, c)]
         /\ old.phase = "Done" /\ ended => u = [tracker |-> told("Quiet", onset), checks |-> t.checks]
         /\ /\ ~(old.phase = "Quiet" /\ is) /\ ~(old.phase = "Done" /\ ended)
            /\ ~(old.phase = "Collecting" /\ (p + 1 - onset >= WakeWindow \/ ended))
            => u = [tracker |-> told(old.phase, onset), checks |-> t.checks]
    BY <1>1 DEF Push, Tracker
  <1>11. c = [from |-> onset, to |-> IF ended THEN silence ELSE p + 1]
    OBVIOUS
  <1>12. B = A \cup AskedBy(t)
    OBVIOUS
  <1>13. /\ old.silence \in {NoPosition, silence} \/ is
         /\ silence # NoPosition => silence = p \/ silence = old.silence
    OBVIOUS
  <1>14. TrackedTo(old, B, p, s)
    OBVIOUS
  <1> HIDE DEF silence, ended, u, c, B
  <1>3. /\ B \subseteq Nat /\ \A a \in B : a \in Nat /\ a <= Minus(p, WakeMargin)
        /\ \A a, d \in B : a < d => Gap(s, a, d + WakeMargin)
    BY <1>14 DEF TrackedTo
  <1>4. /\ Minus(p, WakeMargin) \in Nat /\ Minus(p + 1, WakeMargin) \in Nat /\ Minus(p, WakeMargin) <= p /\ Minus(p, WakeMargin) <= Minus(p + 1, WakeMargin)
        /\ Minus(p, WakeMargin) > 0 => Minus(p, WakeMargin) + WakeMargin = p
    BY MinusIs, CaptureConstants, p + 1 \in Nat
  <1>5. CASE old.phase = "Quiet" /\ is
    <2>1. u = [tracker |-> told("Collecting", Minus(p, WakeMargin)), checks |-> t.checks]
      BY <1>10, <1>5
    <2>2. ASSUME NEW a \in B, a < Minus(p, WakeMargin) PROVE Gap(s, a, Minus(p, WakeMargin) + WakeMargin)
      <3>1. Minus(p, WakeMargin) > 0 /\ Minus(p, WakeMargin) + WakeMargin = p
        BY <1>3, <1>4, <2>2, CaptureConstants
      <3>2. Gap(s, a, p)
        BY <1>5, <1>14 DEF TrackedTo
      <3> QED BY <3>1, <3>2
    <2>3. u \in PushState /\ u.checks = t.checks /\ u.tracker = told("Collecting", Minus(p, WakeMargin))
      BY <1>1, <1>2, <1>4, <2>1 DEF PushState, Tracker
    <2>4. A \cup AskedBy(u) = B
      BY <1>12, <2>3 DEF AskedBy
    <2>5. TrackedTo(u.tracker, B, p + 1, s)
      <3>1. /\ u.tracker.silence = silence /\ u.tracker.phase \in {"Quiet", "Collecting", "Done"}
            /\ (p + 1) - 1 = p
        BY <1>1, <1>5, <2>3
      <3>2. B \subseteq Nat /\ \A a \in B : a <= Minus(p + 1, WakeMargin)
        BY <1>3, <1>4
      <3>3. silence # NoPosition => silence \in 0 .. (p + 1) - 1 /\ \A q \in silence .. (p + 1) - 1 : s[q] = "silence"
        BY <1>2, <3>1
      <3>4. u.tracker.phase = "Quiet" => \A a \in B : Gap(s, a, p + 1)
        BY <2>3
      <3>5. u.tracker.phase = "Collecting" =>
              /\ u.tracker.onset \in Nat /\ u.tracker.onset <= Minus(p + 1, WakeMargin)
              /\ silence # NoPosition => u.tracker.onset <= silence
              /\ \A a \in B : a <= u.tracker.onset /\ (a < u.tracker.onset => Gap(s, a, u.tracker.onset + WakeMargin))
        BY <1>2, <1>3, <1>4, <1>5, <2>2, <2>3
      <3>6. u.tracker.phase = "Done" /\ silence # NoPosition => \A a \in B : a <= silence
        BY <2>3
      <3>7. \A a, d \in B : a < d => Gap(s, a, d + WakeMargin)
        BY <1>3
      <3> QED BY <3>1, <3>2, <3>3, <3>4, <3>5, <3>6, <3>7, Zenon DEF TrackedTo
    <2> QED BY <2>3, <2>4, <2>5 DEF u, B
  <1>6. CASE old.phase = "Collecting" /\ (p + 1 - onset >= WakeWindow \/ ended)
    <2>1. u = [tracker |-> told("Done", onset), checks |-> Append(t.checks, c)]
      BY <1>10, <1>6
    <2>2. /\ onset \in Nat /\ onset <= Minus(p, WakeMargin)
          /\ old.silence # NoPosition => onset <= old.silence
          /\ \A a \in B : a <= onset /\ (a < onset => Gap(s, a, onset + WakeMargin))
      BY <1>6, <1>14 DEF TrackedTo
    <2>3. c \in Stretch /\ c.to <= top /\ c.from = onset
      BY <1>2, <1>11, <2>2, CaptureConstants DEF Stretch
    <2>4. silence # NoPosition => onset <= silence
      BY <1>1, <1>2, <1>4, <1>13, <2>2
    <2>5. /\ u \in PushState /\ u.checks = Append(t.checks, c) /\ u.tracker = told("Done", onset)
      BY <1>1, <1>2, <2>1, <2>3 DEF PushState, Tracker
    <2>6. A \cup AskedBy(u) = B \cup {onset}
      <3>1. /\ DOMAIN u.checks = 1 .. Len(t.checks) + 1 /\ DOMAIN t.checks = 1 .. Len(t.checks)
            /\ u.checks[Len(t.checks) + 1] = c /\ \A k \in 1 .. Len(t.checks) : u.checks[k] = t.checks[k]
            /\ Len(t.checks) \in Nat
        BY <1>1, <2>3, <2>5
      <3>2. AskedBy(u) = AskedBy(t) \cup {onset}
        <4>1. AskedBy(u) \subseteq AskedBy(t) \cup {onset}
          BY <2>3, <3>1 DEF AskedBy
        <4>2. \A k \in 1 .. Len(t.checks) : k \in DOMAIN u.checks /\ u.checks[k].from = t.checks[k].from
          BY <3>1
        <4>3. onset \in AskedBy(u)
          BY <2>3, <3>1 DEF AskedBy
        <4> QED BY <3>1, <4>1, <4>2, <4>3, Zenon DEF AskedBy
      <3> QED BY <1>12, <3>2
    <2>7. \A k \in DOMAIN u.checks : u.checks[k].to <= top
      BY <1>1, <2>3, <2>5
    <2>8. TrackedTo(u.tracker, B \cup {onset}, p + 1, s)
      <3>1. /\ u.tracker.silence = silence /\ u.tracker.phase \in {"Quiet", "Collecting", "Done"}
            /\ (p + 1) - 1 = p
        BY <1>1, <2>5
      <3>2. (B \cup {onset}) \subseteq Nat /\ \A a \in (B \cup {onset}) : a <= Minus(p + 1, WakeMargin)
        <4>1. onset \in Nat /\ onset <= Minus(p + 1, WakeMargin)
          BY <1>4, <2>2
        <4>2. \A a \in B : a \in Nat /\ a <= Minus(p + 1, WakeMargin)
          BY <1>3, <1>4
        <4> HIDE DEF onset
        <4> QED BY <4>1, <4>2, Zenon
      <3>3. silence # NoPosition => silence \in 0 .. (p + 1) - 1 /\ \A q \in silence .. (p + 1) - 1 : s[q] = "silence"
        BY <1>2, <3>1
      <3>4. u.tracker.phase = "Quiet" => \A a \in (B \cup {onset}) : Gap(s, a, p + 1)
        BY <2>5
      <3>5. u.tracker.phase = "Collecting" =>
              /\ u.tracker.onset \in Nat /\ u.tracker.onset <= Minus(p + 1, WakeMargin)
              /\ silence # NoPosition => u.tracker.onset <= silence
              /\ \A a \in (B \cup {onset}) : a <= u.tracker.onset /\ (a < u.tracker.onset => Gap(s, a, u.tracker.onset + WakeMargin))
        BY <2>5
      <3>6. u.tracker.phase = "Done" /\ silence # NoPosition => \A a \in (B \cup {onset}) : a <= silence
        BY <1>2, <1>3, <2>2, <2>4, <2>5
      <3>7. \A a, d \in (B \cup {onset}) : a < d => Gap(s, a, d + WakeMargin)
        <4>1. \A a \in B : ~(onset < a)
          BY <1>3, <2>2
        <4> QED BY <1>3, <2>2, <4>1
      <3> QED BY <3>1, <3>2, <3>3, <3>4, <3>5, <3>6, <3>7, Zenon DEF TrackedTo
    <2> QED BY <2>5, <2>6, <2>7, <2>8 DEF u, B
  <1>7. CASE old.phase = "Done" /\ ended
    <2>1. u = [tracker |-> told("Quiet", onset), checks |-> t.checks]
      BY <1>10, <1>7
    <2>2. ASSUME NEW a \in B PROVE Gap(s, a, p + 1)
      <3>1. a <= silence
        BY <1>1, <1>2, <1>3, <1>4, <1>7, <1>13, <1>14 DEF TrackedTo
      <3>2. silence \in a .. (p + 1) - SilenceGap
        BY <1>2, <1>3, <1>7, <3>1, CaptureConstants
      <3>3. \A k \in silence .. silence + SilenceGap - 1 : s[k] = "silence"
        BY <1>2, <1>7, CaptureConstants
      <3> QED BY <3>2, <3>3 DEF Gap
    <2>3. u \in PushState /\ u.checks = t.checks /\ u.tracker = told("Quiet", onset)
      BY <1>1, <1>2, <2>1 DEF PushState, Tracker
    <2>4. A \cup AskedBy(u) = B
      BY <1>12, <2>3 DEF AskedBy
    <2>5. TrackedTo(u.tracker, B, p + 1, s)
      <3>1. /\ u.tracker.silence = silence /\ u.tracker.phase \in {"Quiet", "Collecting", "Done"}
            /\ (p + 1) - 1 = p
        BY <1>1, <2>3
      <3>2. B \subseteq Nat /\ \A a \in B : a <= Minus(p + 1, WakeMargin)
        BY <1>3, <1>4
      <3>3. silence # NoPosition => silence \in 0 .. (p + 1) - 1 /\ \A q \in silence .. (p + 1) - 1 : s[q] = "silence"
        BY <1>2, <3>1
      <3>4. u.tracker.phase = "Quiet" => \A a \in B : Gap(s, a, p + 1)
        BY <2>2
      <3>5. u.tracker.phase = "Collecting" =>
              /\ u.tracker.onset \in Nat /\ u.tracker.onset <= Minus(p + 1, WakeMargin)
              /\ silence # NoPosition => u.tracker.onset <= silence
              /\ \A a \in B : a <= u.tracker.onset /\ (a < u.tracker.onset => Gap(s, a, u.tracker.onset + WakeMargin))
        BY <2>3
      <3>6. u.tracker.phase = "Done" /\ silence # NoPosition => \A a \in B : a <= silence
        BY <2>3
      <3>7. \A a, d \in B : a < d => Gap(s, a, d + WakeMargin)
        BY <1>3
      <3> QED BY <3>1, <3>2, <3>3, <3>4, <3>5, <3>6, <3>7, Zenon DEF TrackedTo
    <2> QED BY <2>3, <2>4, <2>5 DEF u, B
  <1>8. CASE /\ ~(old.phase = "Quiet" /\ is) /\ ~(old.phase = "Done" /\ ended)
             /\ ~(old.phase = "Collecting" /\ (p + 1 - onset >= WakeWindow \/ ended))
    <2>1. u = [tracker |-> told(old.phase, onset), checks |-> t.checks]
      BY <1>10, <1>8
    <2>2. u \in PushState /\ u.checks = t.checks /\ u.tracker = told(old.phase, onset)
      BY <1>1, <1>2, <2>1 DEF PushState, Tracker
    <2>3. A \cup AskedBy(u) = B
      BY <1>12, <2>2 DEF AskedBy
    <2>4. ASSUME old.phase = "Quiet" PROVE \A a \in B : Gap(s, a, p + 1)
      BY <1>3, <1>14, <2>4, GapLater DEF TrackedTo
    <2>5. ASSUME old.phase = "Collecting"
          PROVE  /\ onset \in Nat /\ onset <= Minus(p, WakeMargin)
                 /\ silence # NoPosition => onset <= silence
                 /\ \A a \in B : a <= onset /\ (a < onset => Gap(s, a, onset + WakeMargin))
      BY <1>1, <1>2, <1>4, <1>13, <1>14, <2>5 DEF TrackedTo
    <2>6. ASSUME old.phase = "Done" PROVE silence # NoPosition => \A a \in B : a <= silence
      BY <1>1, <1>2, <1>3, <1>4, <1>13, <1>14, <2>6 DEF TrackedTo
    <2>7. TrackedTo(u.tracker, B, p + 1, s)
      <3>1. /\ u.tracker.silence = silence /\ u.tracker.phase \in {"Quiet", "Collecting", "Done"}
            /\ (p + 1) - 1 = p
        BY <1>1, <2>2
      <3>2. B \subseteq Nat /\ \A a \in B : a <= Minus(p + 1, WakeMargin)
        BY <1>3, <1>4
      <3>3. silence # NoPosition => silence \in 0 .. (p + 1) - 1 /\ \A q \in silence .. (p + 1) - 1 : s[q] = "silence"
        BY <1>2, <3>1
      <3>4. u.tracker.phase = "Quiet" => \A a \in B : Gap(s, a, p + 1)
        BY <2>2, <2>4
      <3>5. u.tracker.phase = "Collecting" =>
              /\ u.tracker.onset \in Nat /\ u.tracker.onset <= Minus(p + 1, WakeMargin)
              /\ silence # NoPosition => u.tracker.onset <= silence
              /\ \A a \in B : a <= u.tracker.onset /\ (a < u.tracker.onset => Gap(s, a, u.tracker.onset + WakeMargin))
        BY <1>4, <2>2, <2>5
      <3>6. u.tracker.phase = "Done" /\ silence # NoPosition => \A a \in B : a <= silence
        BY <2>2, <2>6
      <3>7. \A a, d \in B : a < d => Gap(s, a, d + WakeMargin)
        BY <1>3
      <3> QED BY <3>1, <3>2, <3>3, <3>4, <3>5, <3>6, <3>7, Zenon DEF TrackedTo
    <2> QED BY <2>2, <2>3, <2>7 DEF u, B
  <1> QED BY <1>5, <1>6, <1>7, <1>8 DEF u, B

LEMMA PushTyped ==
  ASSUME NEW t \in PushState, NEW p \in Nat, NEW is \in BOOLEAN
  PROVE  Push(t, p, is) \in PushState
  <1> DEFINE old == t.tracker
             silence == IF is THEN NoPosition ELSE IF old.silence = NoPosition THEN p ELSE old.silence
             ended == StretchEnded(silence, p + 1)
             c == [from |-> old.onset, to |-> IF ended THEN silence ELSE p + 1]
  <1>1. /\ old \in Tracker /\ t.checks \in Seq(Stretch) /\ t = [tracker |-> old, checks |-> t.checks]
        /\ old.phase \in {"Quiet", "Collecting", "Done"} /\ old.onset \in Int /\ old.silence \in Int
    BY DEF PushState, Tracker
  <1>2. \E ph \in {"Quiet", "Collecting", "Done"}, o \in {old.onset, Minus(p, WakeMargin)},
           q \in {t.checks, Append(t.checks, c)} :
          Push(t, p, is) = [tracker |-> [phase |-> ph, onset |-> o, silence |-> silence], checks |-> q]
    BY <1>1 DEF Push, Tracker
  <1>3. silence \in Int
    BY <1>1 DEF NoPosition
  <1>4. c \in Stretch
    BY <1>1, <1>3 DEF Stretch
  <1>5. Minus(p, WakeMargin) \in Nat
    BY MinusIs, CaptureConstants
  <1> HIDE DEF silence, c
  <1>6. t.checks \in Seq(Stretch) /\ Append(t.checks, c) \in Seq(Stretch)
    BY <1>1, <1>4
  <1> QED BY <1>1, <1>2, <1>3, <1>5, <1>6 DEF PushState, Tracker

\* What is known of a tracker depends on what it was told only.
LEMMA TrackedAgrees ==
  ASSUME NEW t, NEW A, NEW p \in Nat, NEW s, NEW z, TrackedTo(t, A, p, s),
         t.silence \in Int, \A q \in Nat : q < p => z[q] = s[q]
  PROVE  TrackedTo(t, A, p, z)
  <1>1. ASSUME NEW a \in Nat, NEW q \in Nat, q <= p, Gap(s, a, q)
        PROVE  Gap(z, a, q)
    <2>1. PICK n \in a .. q - SilenceGap : \A k \in n .. n + SilenceGap - 1 : s[k] = "silence"
      BY <1>1 DEF Gap
    <2>2. \A k \in n .. n + SilenceGap - 1 : k \in Nat /\ k < p
      BY <1>1, <2>1, CaptureConstants
    <2>3. \A k \in n .. n + SilenceGap - 1 : z[k] = "silence"
      BY <2>1, <2>2
    <2> QED BY <2>3 DEF Gap
  <1>2. A \subseteq Nat /\ \A c \in A : c <= Minus(p, WakeMargin)
    BY DEF TrackedTo
  <1>3. /\ Minus(p, WakeMargin) \in Nat /\ WakeMargin \in Nat
        /\ Minus(p, WakeMargin) > 0 => Minus(p, WakeMargin) + WakeMargin = p
    BY MinusIs, CaptureConstants
  <1>4. \A c \in A, d \in Nat : c < d /\ d <= Minus(p, WakeMargin) /\ Gap(s, c, d + WakeMargin)
          => Gap(z, c, d + WakeMargin)
    <2> SUFFICES ASSUME NEW c \in A, NEW d \in Nat, c < d, d <= Minus(p, WakeMargin),
                        Gap(s, c, d + WakeMargin)
                 PROVE  Gap(z, c, d + WakeMargin)
      OBVIOUS
    <2>1. c \in Nat /\ d + WakeMargin \in Nat /\ d + WakeMargin <= p
      BY <1>2, <1>3
    <2> QED BY <1>1, <2>1
  <1>5. t.silence # NoPosition =>
          t.silence \in 0 .. p - 1 /\ \A q \in t.silence .. p - 1 : z[q] = "silence"
    BY DEF TrackedTo
  <1>6. t.phase = "Quiet" => \A c \in A : Gap(z, c, p)
    BY <1>1, <1>2 DEF TrackedTo
  <1>7. t.phase = "Collecting" =>
          \A c \in A : c <= t.onset /\ (c < t.onset => Gap(z, c, t.onset + WakeMargin))
    BY <1>4 DEF TrackedTo
  <1>8. \A c, d \in A : c < d => Gap(z, c, d + WakeMargin)
    BY <1>2, <1>4 DEF TrackedTo
  <1> QED BY <1>2, <1>5, <1>6, <1>7, <1>8, Zenon DEF TrackedTo

\* Fewer checks to account for.
LEMMA TrackedOfFewer ==
  ASSUME NEW t, NEW A, NEW B, NEW p, NEW s, TrackedTo(t, A, p, s), B \subseteq A
  PROVE  TrackedTo(t, B, p, s)
  BY Zenon DEF TrackedTo

\* The fold over the copy, window by window.
PushedFrom(f) ==
  /\ f[0] = [tracker |-> tracker, checks |-> <<>>]
  /\ \A i \in 1 .. Len(watch.out) : f[i] = Push(f[i - 1], watch.from + i - 1, Speech(watch.out[i]))

LEMMA SpeechTyped ==
  ASSUME CaptureTypes, CopyHolds, NEW i \in 1 .. Len(watch.out)
  PROVE  Speech(watch.out[i]) \in BOOLEAN /\ watch.from + i - 1 \in Nat
  <1>1. watch.out \in Seq(Int) /\ watch.from \in Nat /\ voice \in Seq(BOOLEAN)
    BY DEF CaptureTypes, WatchStep
  <1>2. watch.out[i] \in watch.from + i - 1 .. Len(voice) - 1
    BY <1>1 DEF CopyHolds
  <1> QED BY <1>1, <1>2 DEF Speech

LEMMA PushedSteps ==
  ASSUME CaptureTypes, CopyHolds
  PROVE  \E f : PushedFrom(f) /\ Pushed = f[Len(watch.out)]
  <1> DEFINE n == Len(watch.out)
             base == [tracker |-> tracker, checks |-> <<>>]
             next(x, i) == Push(x, watch.from + i - 1, Speech(watch.out[i]))
             body(f) == [i \in 0 .. n |-> IF i = 0 THEN base ELSE next(f[i - 1], i)]
             g == [i \in 1 .. n |-> [x \in PushState |-> next(x, i)]]
  <1>1. n \in Nat /\ base \in PushState
    BY DEF CaptureTypes, PushState
  <1>2. ASSUME NEW i \in 1 .. n, NEW x \in PushState PROVE next(x, i) \in PushState
    BY SpeechTyped, PushTyped
  <1> HIDE DEF base, next
  <1>3. g \in [1 .. n -> [PushState -> PushState]]
    BY <1>2
  <1>4. PICK h : Follows(h, n, PushState, base, g)
    BY <1>1, <1>3, RecursionExists
  <1>5. \A i \in 1 .. n : i - 1 \in 0 .. n /\ h[i] = next(h[i - 1], i)
    <2> SUFFICES ASSUME NEW i \in 1 .. n PROVE i - 1 \in 0 .. n /\ h[i] = next(h[i - 1], i)
      OBVIOUS
    <2>1. i - 1 \in 0 .. n
      BY <1>1
    <2>2. h[i - 1] \in PushState /\ h[i] = g[i][h[i - 1]]
      BY <1>4, <2>1 DEF Follows
    <2> QED BY <2>1, <2>2
  <1>6. h = body(h)
    BY <1>1, <1>4, <1>5 DEF Follows
  <1> DEFINE F == CHOOSE f : f = body(f)
  <1>7. F = body(F)
    <2> HIDE DEF body
    <2> QED BY <1>6
  <1>8. Pushed = F[n]
    BY DEF Pushed, next, base
  <1> HIDE DEF F
  <1>9. F[0] = base /\ \A i \in 1 .. n : F[i] = next(F[i - 1], i)
    <2> HIDE DEF n
    <2>1. F[0] = base
      BY <1>1, <1>7
    <2>2. \A i \in 1 .. n : i \in 0 .. n /\ i # 0
      BY <1>1
    <2> QED BY <1>7, <2>1, <2>2
  <1> QED BY <1>8, <1>9 DEF PushedFrom, base, next

LEMMA PushedTracks ==
  ASSUME CaptureTypes, CopyHolds, NEW s, NEW A,
         TrackedTo(tracker, A, watch.from, s), watch.from + Len(watch.out) <= head,
         \A i \in 1 .. Len(watch.out) :
           s[watch.from + i - 1] = IF Speech(watch.out[i]) THEN "speech" ELSE "silence"
  PROVE  /\ Pushed \in PushState /\ \A k \in DOMAIN Pushed.checks : Pushed.checks[k].to <= head
         /\ TrackedTo(Pushed.tracker, A \cup AskedBy(Pushed), watch.from + Len(watch.out), s)
  <1> DEFINE n == Len(watch.out)
             Good(x, i) == /\ x \in PushState /\ \A k \in DOMAIN x.checks : x.checks[k].to <= head
                           /\ TrackedTo(x.tracker, A \cup AskedBy(x), watch.from + i, s)
  <1>1. PICK f : PushedFrom(f) /\ Pushed = f[n]
    BY PushedSteps
  <1> DEFINE T == {i \in 0 .. n : Good(f[i], i)}
  <1>2. n \in Nat /\ head \in Nat /\ watch.from \in Nat
    BY DEF CaptureTypes, WatchStep
  <1>3. 0 \in T
    <2>1. f[0].tracker = tracker /\ f[0].checks = <<>> /\ f[0] \in PushState
      BY <1>1 DEF PushedFrom, PushState, CaptureTypes
    <2>2. AskedBy(f[0]) = {}
      BY <2>1 DEF AskedBy
    <2>3. A \cup AskedBy(f[0]) = A /\ watch.from + 0 = watch.from
      BY <1>2, <2>2
    <2>4. TrackedTo(f[0].tracker, A \cup AskedBy(f[0]), watch.from + 0, s)
      BY <2>1, <2>3
    <2>5. Good(f[0], 0)
      BY <2>1, <2>4
    <2> QED BY <1>2, <2>5
  <1>4. ASSUME NEW i \in 0 .. n - 1, i \in T PROVE i + 1 \in T
    <2> DEFINE p == watch.from + i
    <2>1. f[i + 1] = Push(f[i], p, Speech(watch.out[i + 1]))
      <3>1. i + 1 \in 1 .. n /\ (i + 1) - 1 = i /\ watch.from + (i + 1) - 1 = p
        BY <1>2
      <3>2. f[i + 1] = Push(f[(i + 1) - 1], watch.from + (i + 1) - 1, Speech(watch.out[i + 1]))
        BY <1>1, <3>1, Zenon DEF PushedFrom
      <3> QED BY <3>1, <3>2
    <2>2. /\ Speech(watch.out[i + 1]) \in BOOLEAN /\ p \in Nat /\ p + 1 <= head /\ p + 1 = watch.from + (i + 1)
          /\ s[p] = IF Speech(watch.out[i + 1]) THEN "speech" ELSE "silence"
      <3>1. i + 1 \in 1 .. n /\ watch.from + (i + 1) - 1 = p
        BY <1>2
      <3>2. Speech(watch.out[i + 1]) \in BOOLEAN
        BY <3>1, SpeechTyped
      <3>3. s[p] = IF Speech(watch.out[i + 1]) THEN "speech" ELSE "silence"
        BY <3>1, Zenon
      <3> QED BY <1>2, <3>1, <3>2, <3>3
    <2>3. Good(f[i], i)
      BY <1>4
    <2> HIDE DEF p
    <2>4. TrackedTo(f[i].tracker, A \cup AskedBy(f[i]), p, s)
      BY <2>3 DEF p
    <2>5. /\ f[i + 1] \in PushState /\ \A k \in DOMAIN f[i + 1].checks : f[i + 1].checks[k].to <= head
          /\ TrackedTo(f[i + 1].tracker, A \cup AskedBy(f[i + 1]), p + 1, s)
      BY <1>2, <2>1, <2>2, <2>3, <2>4, PushStep
    <2> QED BY <1>2, <2>2, <2>5
  <1>5. n \in T
    <2> HIDE DEF T
    <2>1. 0 .. n \subseteq T
      BY <1>2, <1>3, <1>4, NumbersUpTo
    <2> QED BY <1>2, <2>1
  <1> QED BY <1>1, <1>5

-----------------------------------------------------------------------------
(* The steps *)

Watched ==
  /\ \A c \in checks : c.epoch <= restarts
  /\ watch.at # "off" => TrackedTo(tracker, Onsets, Reached, saw)
  /\ OneCheckAStretch

LEMMA WatchedStays ==
  ASSUME Watched, UNCHANGED <<tracker, restarts, saw, checks>>,
         watch'.at = "off" \/ (watch.at # "off" /\ Reached' = Reached)
  PROVE  Watched'
  BY DEF Watched, Onsets, OneCheckAStretch, TrackedTo, Gap

LEMMA WatchLonger ==
  ASSUME NEW w \in WatchStep, NEW q \in Int
  PROVE  LET v == [w EXCEPT !.out = Append(@, q)]
         IN  /\ v \in WatchStep /\ v.at = w.at /\ v.from = w.from /\ v.to = w.to /\ v.pos = w.pos
             /\ v.check = w.check /\ v.out = Append(w.out, q) /\ v.out \in Seq(Int)
             /\ Len(v.out) = Len(w.out) + 1
  <1>1. w.out \in Seq(Int) /\ Append(w.out, q) \in Seq(Int) /\ Len(Append(w.out, q)) = Len(w.out) + 1
    BY DEF WatchStep
  <1> DEFINE o == Append(w.out, q)
             v == [w EXCEPT !.out = o]
  <1>2. o \in Seq(Int)
    BY <1>1
  <1> HIDE DEF o
  <1>3. v \in WatchStep
    BY <1>2 DEF WatchStep
  <1>4. v.at = w.at /\ v.from = w.from /\ v.to = w.to /\ v.pos = w.pos
    BY DEF WatchStep
  <1>5. v.check = w.check /\ v.out = o
    BY DEF WatchStep
  <1> HIDE DEF v
  <1>6. /\ v \in WatchStep /\ v.at = w.at /\ v.from = w.from /\ v.to = w.to /\ v.pos = w.pos
        /\ v.check = w.check /\ v.out = Append(w.out, q) /\ v.out \in Seq(Int) /\ Len(v.out) = Len(w.out) + 1
    BY <1>1, <1>2, <1>3, <1>4, <1>5 DEF o
  <1> QED BY <1>6 DEF v, o

WriterStep == OnProcess \/ Store \/ PublishChunk

LEMMA WriterKeepsTypes ==
  ASSUME CaptureTypes, RingHolds, CopyHolds, ReadIsWritten, WriterStep
  PROVE  CaptureTypes' /\ RingHolds' /\ CopyHolds' /\ ReadIsWritten' /\ UNCHANGED watcherSide
  <1>1. CASE OnProcess
    <2>0. PICK n \in 1 .. MaxChunk :
            /\ head + n <= MaxSamples /\ chunk' = n
            /\ \E block \in [1 .. n -> BOOLEAN] : voice' = voice \o block
      BY <1>1 DEF OnProcess
    <2>1. PICK block \in [1 .. n -> BOOLEAN] : voice' = voice \o block
      BY <2>0
    <2>2. /\ link = "streaming" /\ chunk = 0 /\ written = 0 /\ disturbed' = TRUE
          /\ UNCHANGED <<samples, head, written, watcherSide>>
      BY <1>1 DEF OnProcess
    <2>3. n \in Nat /\ block \in Seq(BOOLEAN) /\ Len(block) = n /\ head \in Nat /\ voice \in Seq(BOOLEAN)
          /\ Len(voice) = head
      BY <2>0, <2>1, <2>2, CaptureConstants DEF CaptureTypes
    <2>4. voice' \in Seq(BOOLEAN) /\ Len(voice') = head + n
      <3>1. voice \o block \in Seq(BOOLEAN) /\ Len(voice \o block) = Len(voice) + Len(block)
        BY <2>3
      <3> QED BY <2>1, <2>3, <3>1
    <2>5. CaptureTypes'
      BY <2>0, <2>1, <2>2, <2>3, <2>4 DEF CaptureTypes, watcherSide
    <2>6. RingHolds'
      BY <2>2 DEF RingHolds, StoredTo
    <2>7. /\ watch' = watch /\ watch.from \in Nat /\ watch.out \in Seq(Int)
          /\ \A i \in DOMAIN watch.out : watch.out[i] \in watch.from + i - 1 .. Len(voice) - 1
      BY <2>2 DEF CaptureTypes, CopyHolds, watcherSide, WatchStep
    <2>8. \A i \in DOMAIN watch.out : watch.out[i] \in watch.from + i - 1 .. Len(voice') - 1
      BY <2>3, <2>4, <2>7
    <2>9. CopyHolds'
      BY <2>2, <2>7, <2>8 DEF CopyHolds, Copying
    <2>10. ReadIsWritten'
      BY <2>2, <2>7 DEF ReadIsWritten
    <2> QED BY <2>2, <2>5, <2>6, <2>9, <2>10
  <1>2. CASE Store
    <2>1. /\ chunk > 0 /\ written' = written + 1 /\ chunk' = chunk - 1
          /\ UNCHANGED <<voice, head, watcherSide, disturbed>>
      BY <1>2 DEF Store
    <2>2. RingHolds' /\ samples' \in [0 .. Capacity - 1 -> Int]
      BY <1>2, StoreStep
    <2>3. CaptureTypes'
      BY <2>1, <2>2 DEF CaptureTypes, watcherSide
    <2>4. CopyHolds' /\ ReadIsWritten'
      BY <2>1 DEF CaptureTypes, CopyHolds, Copying, ReadIsWritten, watcherSide
    <2> QED BY <2>1, <2>2, <2>3, <2>4
  <1>3. CASE PublishChunk
    <2>1. /\ chunk = 0 /\ written > 0 /\ head' = head + written /\ written' = 0
          /\ UNCHANGED <<voice, samples, chunk, watcherSide, disturbed>>
      BY <1>3 DEF PublishChunk
    <2>2. CaptureTypes'
      BY <2>1 DEF CaptureTypes, watcherSide
    <2>3. RingHolds'
      BY <2>1 DEF RingHolds, StoredTo, CaptureTypes
    <2>4. disturbed
      BY <2>1 DEF CopyHolds, CaptureTypes
    <2>5. CopyHolds' /\ ReadIsWritten'
      BY <2>1, <2>4 DEF CaptureTypes, CopyHolds, Copying, ReadIsWritten, watcherSide, WatchStep
    <2> QED BY <2>1, <2>2, <2>3, <2>5
  <1> QED BY <1>1, <1>2, <1>3 DEF WriterStep

\* The copy begins where the ring still holds it.
LEMMA BeginCopyHolds ==
  ASSUME CaptureTypes, RingHolds, CopyHolds, NEW w \in WatchStep, NEW at \in {"watching", "checking"},
         NEW from \in Nat, NEW to \in Int, to <= head,
         w.pos <= head, BeginCopy(w, at, from, to), UNCHANGED streamSide
  PROVE  /\ watch' \in WatchStep
         /\ watch'.at = at /\ watch'.from = Later(from, OldestHeld(head)) /\ watch'.to = to
         /\ watch'.out = <<>> /\ watch'.pos = w.pos /\ disturbed' \in BOOLEAN
         /\ RingHolds' /\ CopyHolds' /\ ReadIsWritten'
  <1> DEFINE start == Later(from, OldestHeld(head))
  <1>1. start \in Nat /\ start >= head - Capacity
    BY CaptureConstants DEF Later, OldestHeld, Minus, CaptureTypes
  <1>2. /\ watch' = [w EXCEPT !.at = at, !.from = start, !.to = to, !.out = <<>>]
        /\ disturbed' = (chunk > 0 \/ written > 0)
    BY DEF BeginCopy
  <1> HIDE DEF start
  <1>6. at \in {"off", "idle", "watching", "checking"}
    OBVIOUS
  <1>7. ASSUME NEW v, v = [w EXCEPT !.at = at, !.from = start, !.to = to, !.out = <<>>]
        PROVE  v \in WatchStep /\ v.at = at /\ v.from = start /\ v.to = to /\ v.out = <<>> /\ v.pos = w.pos
    <2>1. w \in WatchStep /\ to \in Int /\ start \in Nat
      BY <1>1
    <2>2. <<>> \in Seq(Int)
      OBVIOUS
    <2>3. v \in WatchStep
      BY <1>6, <1>7, <2>1, <2>2 DEF WatchStep
    <2>4. v.from = start /\ v.to = to
      BY <1>7, <2>1 DEF WatchStep
    <2>5. v.out = <<>> /\ v.pos = w.pos
      BY <1>7, <2>1 DEF WatchStep
    <2>6. v.at = at
      BY <1>7, <2>1 DEF WatchStep
    <2> QED BY <2>3, <2>4, <2>5, <2>6
  <1>3. /\ watch'.at = at /\ watch'.from = start /\ watch'.to = to
        /\ watch'.out = <<>> /\ watch'.pos = w.pos
        /\ watch' \in WatchStep
    BY <1>2, <1>7, Zenon
  <1>4. RingHolds'
    BY DEF RingHolds, StoredTo, streamSide
  <1>5. CopyHolds' /\ ReadIsWritten'
    BY <1>1, <1>2, <1>3 DEF CopyHolds, Copying, ReadIsWritten, streamSide, CaptureTypes
  <1> QED BY <1>2, <1>3, <1>4, <1>5 DEF start

LEMMA CopySampleStep ==
  ASSUME CaptureTypes, RingHolds, CopyHolds, ReadIsWritten, Watched, CopySample
  PROVE  CaptureTypes' /\ RingHolds' /\ CopyHolds' /\ ReadIsWritten' /\ Watched'
  <1> DEFINE p == watch.from + Len(watch.out)
             q == samples[p % Capacity]
  <1>1. /\ Copying /\ p < watch.to /\ watch' = [watch EXCEPT !.out = Append(@, q)]
        /\ UNCHANGED <<streamSide, tracker, restarts, saw, checks, disturbed>>
    BY DEF CopySample, Copying
  <1>2. /\ p \in Nat /\ p < head /\ Capacity \in Nat \ {0} /\ watch.out \in Seq(Int) /\ watch.from \in Nat
        /\ head \in Nat /\ written \in Nat /\ chunk \in Nat /\ Len(voice) = head + written + chunk
    <2>1. watch \in WatchStep /\ head \in Nat /\ written \in Nat /\ chunk \in Nat
          /\ Len(voice) = head + written + chunk
      BY DEF CaptureTypes
    <2>2. watch.out \in Seq(Int) /\ watch.from \in Nat /\ Len(watch.out) \in Nat /\ watch.to \in Int
      BY <2>1 DEF WatchStep
    <2>3. watch.to <= head
      BY <1>1 DEF CopyHolds
    <2>4. p \in Nat /\ p < head
      BY <1>1, <2>1, <2>2, <2>3
    <2> QED BY <2>1, <2>2, <2>4, CaptureConstants
  <1>3. /\ q \in p .. Len(voice) - 1 /\ q \in Int
        /\ ~disturbed => q = p
    <2>1. q \in p .. StoredTo - 1 /\ (p >= StoredTo - Capacity => q = p)
      BY <1>2 DEF RingHolds, StoredTo
    <2>2. ~disturbed => p >= StoredTo - Capacity
      BY <1>1, <1>2 DEF CopyHolds, StoredTo
    <2> HIDE DEF p, q
    <2> QED BY <1>2, <2>1, <2>2 DEF StoredTo
  <1> HIDE DEF q
  <1>4. /\ watch'.at = watch.at /\ watch'.pos = watch.pos /\ watch'.from = watch.from /\ watch'.to = watch.to
        /\ watch'.out = Append(watch.out, q) /\ watch'.out \in Seq(Int) /\ Len(watch'.out) = Len(watch.out) + 1
        /\ watch' \in WatchStep
    BY <1>1, <1>3, WatchLonger DEF CaptureTypes
  <1>5. CaptureTypes' /\ RingHolds'
    BY <1>1, <1>4 DEF CaptureTypes, RingHolds, StoredTo, streamSide
  <1>6. \A i \in DOMAIN watch'.out :
          \/ i \in DOMAIN watch.out /\ watch'.out[i] = watch.out[i]
          \/ i = Len(watch.out) + 1 /\ watch'.out[i] = q
    BY <1>2, <1>3, <1>4
  <1>7. CopyHolds'
    <2>1. \A i \in DOMAIN watch'.out : watch'.out[i] \in watch.from + i - 1 .. Len(voice) - 1
      BY <1>2, <1>3, <1>6 DEF CopyHolds
    <2> QED BY <1>1, <1>4, <2>1 DEF CopyHolds, Copying, streamSide
  <1>8. ReadIsWritten'
    <2>1. \A i \in DOMAIN watch'.out : LET n == watch.from + i - 1
                                       IN IF disturbed THEN watch'.out[i] >= n ELSE watch'.out[i] = n
      BY <1>2, <1>3, <1>6 DEF ReadIsWritten
    <2> QED BY <1>1, <1>4, <2>1 DEF ReadIsWritten
  <1>9. Watched'
    BY <1>1, <1>4, WatchedStays DEF Reached, Copying
  <1> QED BY <1>5, <1>7, <1>8, <1>9

\* The watcher begins, or goes back to sleep.
LEMMA NoWatchAt ==
  ASSUME NEW p \in Nat
  PROVE  LET v == [NoWatch EXCEPT !.at = "idle", !.pos = p]
         IN  v \in WatchStep /\ v.at = "idle" /\ v.pos = p /\ v.out = <<>>
  <1>1. ASSUME NEW w \in WatchStep
        PROVE  LET v == [w EXCEPT !.at = "idle", !.pos = p]
               IN  v \in WatchStep /\ v.at = "idle" /\ v.pos = p /\ v.out = w.out
    BY DEF WatchStep
  <1> QED BY <1>1, NoWatchIs

LEMMA FreshTracks ==
  ASSUME NEW p, NEW s
  PROVE  TrackedTo(NewTracker, {}, p, s)
  BY NoWatchIs DEF TrackedTo

\* A new epoch has no checks.
LEMMA NewEpoch ==
  ASSUME CaptureTypes, Watched, restarts' = restarts + 1, checks' = checks, tracker' = NewTracker
  PROVE  Watched'
  <1>1. \A c \in checks' : c.epoch \in Nat /\ c.epoch <= restarts'  /\ c.epoch # restarts'
    BY DEF CaptureTypes, Watched
  <1>2. Onsets' = {}
    BY <1>1 DEF Onsets
  <1>3. TrackedTo(tracker', Onsets', Reached', saw')
    BY <1>2, FreshTracks
  <1>4. OneCheckAStretch'
    BY <1>1 DEF OneCheckAStretch
  <1> QED BY <1>1, <1>3, <1>4 DEF Watched

LEMMA NothingCopied ==
  ASSUME CaptureTypes, RingHolds, CopyHolds, UNCHANGED streamSide, UNCHANGED disturbed,
         watch'.at \notin {"watching", "checking"}, watch'.out = <<>>, watch'.pos <= head
  PROVE  RingHolds' /\ CopyHolds' /\ ReadIsWritten'
  <1>1. RingHolds'
    BY DEF RingHolds, StoredTo, streamSide
  <1>2. CopyHolds' /\ ReadIsWritten'
    BY DEF CopyHolds, Copying, ReadIsWritten, streamSide
  <1> QED BY <1>1, <1>2

LEMMA UnheardTyped == Unheard \in [0 .. MaxSamples - 1 -> {"unseen", "speech", "silence"}]
  BY DEF Unheard

LEMMA BeginWatcherStep ==
  ASSUME CaptureTypes, RingHolds, CopyHolds, ReadIsWritten, Watched, BeginWatcher
  PROVE  CaptureTypes' /\ RingHolds' /\ CopyHolds' /\ ReadIsWritten' /\ Watched'
  <1>1. /\ watch' = [NoWatch EXCEPT !.at = "idle", !.pos = head] /\ tracker' = NewTracker
        /\ restarts' = restarts + 1 /\ saw' = Unheard /\ UNCHANGED <<streamSide, checks, disturbed>>
    BY DEF BeginWatcher
  <1>2. head \in Nat
    BY DEF CaptureTypes
  <1>3. watch' \in WatchStep /\ watch'.at = "idle" /\ watch'.pos = head /\ watch'.out = <<>>
    BY <1>1, <1>2, NoWatchAt
  <1>4. CaptureTypes'
    BY <1>1, <1>3, NoWatchIs, UnheardTyped DEF CaptureTypes, streamSide
  <1>5. RingHolds' /\ CopyHolds' /\ ReadIsWritten'
    BY <1>1, <1>2, <1>3, NothingCopied
  <1>6. Watched'
    BY <1>1, NewEpoch
  <1> QED BY <1>4, <1>5, <1>6

LEMMA WatcherStepStep ==
  ASSUME CaptureTypes, RingHolds, CopyHolds, ReadIsWritten, Watched, WatcherStep
  PROVE  CaptureTypes' /\ RingHolds' /\ CopyHolds' /\ ReadIsWritten' /\ Watched'
  <1>1. /\ watch.at = "idle" /\ BeginCopy(watch, "watching", watch.pos, head) /\ UNCHANGED <<streamSide, checks>>
        /\ IF watch'.from > watch.pos
           THEN tracker' = NewTracker /\ restarts' = restarts + 1 /\ saw' = Unheard
           ELSE UNCHANGED <<tracker, restarts, saw>>
    BY DEF WatcherStep
  <1>2. watch \in WatchStep /\ head \in Nat /\ watch.pos <= head
    BY DEF CaptureTypes, CopyHolds
  <1>3. watch.pos \in Nat /\ head \in Int
    BY <1>2 DEF WatchStep
  <1>4. /\ watch' \in WatchStep /\ watch'.at = "watching" /\ watch'.pos = watch.pos
        /\ watch'.from = Later(watch.pos, OldestHeld(head)) /\ disturbed' \in BOOLEAN
        /\ RingHolds' /\ CopyHolds' /\ ReadIsWritten'
    <2>1. "watching" \in {"watching", "checking"}
      OBVIOUS
    <2>2. UNCHANGED streamSide /\ head <= head
      BY <1>1, <1>2
    <2> QED BY <1>1, <1>2, <1>3, <2>1, <2>2, BeginCopyHolds
  <1>5. CaptureTypes'
    BY <1>1, <1>4, NoWatchIs, UnheardTyped DEF CaptureTypes, streamSide
  <1>6. Watched'
    <2>1. CASE watch'.from > watch.pos
      BY <1>1, <2>1, NewEpoch
    <2>2. CASE ~(watch'.from > watch.pos)
      <3>1. watch'.from = watch.pos
        BY <1>3, <1>4, <2>2, CaptureConstants DEF Later, OldestHeld, Minus
      <3> QED BY <1>1, <1>4, <2>2, <3>1, WatchedStays DEF Reached
    <2> QED BY <2>1, <2>2
  <1> QED BY <1>4, <1>5, <1>6

\* A tick's windows go to the tracker.
LEMMA TrackStep ==
  ASSUME CaptureTypes, RingHolds, CopyHolds, ReadIsWritten, Watched, Track
  PROVE  CaptureTypes' /\ RingHolds' /\ CopyHolds' /\ ReadIsWritten' /\ Watched'
  <1> DEFINE n == Len(watch.out)
             c == Head(Pushed.checks)
             w == [watch EXCEPT !.pos = watch.to, !.check = c]
  <1>1. /\ watch.at = "watching" /\ watch.from + n = watch.to /\ tracker' = Pushed.tracker
        /\ saw' = [p \in DOMAIN saw |-> IF p \in watch.from .. watch.to - 1
                                        THEN IF Speech(watch.out[p - watch.from + 1]) THEN "speech" ELSE "silence"
                                        ELSE saw[p]]
        /\ UNCHANGED streamSide /\ restarts' = restarts
    BY DEF Track
  <1>2. \/ /\ Pushed.checks = <<>> /\ watch' = [NoWatch EXCEPT !.at = "idle", !.pos = watch.to]
           /\ checks' = checks /\ disturbed' = disturbed
        \/ /\ Pushed.checks # <<>> /\ BeginCopy(w, "checking", c.from, c.to)
           /\ checks' = checks \cup {[epoch |-> restarts, from |-> c.from]}
    BY DEF Track
  <1>3. /\ watch \in WatchStep /\ head \in Nat /\ written \in Nat /\ chunk \in Nat
        /\ Len(voice) = head + written + chunk /\ Len(voice) <= MaxSamples
        /\ tracker \in Tracker /\ restarts \in Nat /\ checks \subseteq [epoch : Nat, from : Nat]
        /\ saw \in [0 .. MaxSamples - 1 -> {"unseen", "speech", "silence"}]
    BY DEF CaptureTypes
  <1>4. /\ watch.out \in Seq(Int) /\ watch.from \in Nat /\ n \in Nat /\ watch.to \in Nat
        /\ watch.to <= head /\ watch.to <= MaxSamples
    <2>1. watch.out \in Seq(Int) /\ watch.from \in Nat /\ n \in Nat
      BY <1>3 DEF WatchStep
    <2>2. watch.to <= head
      BY <1>1 DEF CopyHolds, Copying
    <2> HIDE DEF n
    <2> QED BY <1>1, <1>3, <2>1, <2>2, CaptureConstants
  <1>5. saw' \in [0 .. MaxSamples - 1 -> {"unseen", "speech", "silence"}]
    BY <1>1, <1>3
  <1>6. \A q \in Nat : q < watch.from => saw'[q] = saw[q]
    <2> SUFFICES ASSUME NEW q \in Nat, q < watch.from PROVE saw'[q] = saw[q]
      OBVIOUS
    <2> HIDE DEF n
    <2>1. watch.from <= watch.to /\ q \in 0 .. MaxSamples - 1 /\ q \notin watch.from .. watch.to - 1
      BY <1>1, <1>4, CaptureConstants
    <2> QED BY <1>1, <1>3, <2>1
  <1>7. \A i \in 1 .. n : saw'[watch.from + i - 1] = IF Speech(watch.out[i]) THEN "speech" ELSE "silence"
    <2> SUFFICES ASSUME NEW i \in 1 .. n
                 PROVE  saw'[watch.from + i - 1] = IF Speech(watch.out[i]) THEN "speech" ELSE "silence"
      OBVIOUS
    <2> DEFINE p == watch.from + i - 1
    <2>1. p \in 0 .. MaxSamples - 1 /\ p \in watch.from .. watch.to - 1 /\ p - watch.from + 1 = i
      <3>1. p = watch.from + (i - 1) /\ i \in Nat /\ i >= 1 /\ i <= n
        BY <1>4
      <3> HIDE DEF n, p
      <3> QED BY <1>1, <1>4, <3>1, CaptureConstants
    <2> HIDE DEF p, n
    <2>2. saw'[p] = IF Speech(watch.out[i]) THEN "speech" ELSE "silence"
      BY <1>1, <1>3, <2>1
    <2> QED BY <2>2 DEF p
  <1>8. TrackedTo(tracker, Onsets, watch.from, saw)
    BY <1>1 DEF Watched, Reached
  <1>9. TrackedTo(tracker, Onsets, watch.from, saw')
    BY <1>3, <1>4, <1>6, <1>8, TrackedAgrees DEF Tracker
  <1>10. /\ Pushed \in PushState /\ \A k \in DOMAIN Pushed.checks : Pushed.checks[k].to <= head
         /\ TrackedTo(Pushed.tracker, Onsets \cup AskedBy(Pushed), watch.to, saw')
    BY <1>1, <1>4, <1>7, <1>9, PushedTracks
  <1>11. Pushed.tracker \in Tracker /\ Pushed.checks \in Seq(Stretch)
    BY <1>10 DEF PushState
  <1>12. ASSUME NEW B, B \subseteq Onsets \cup AskedBy(Pushed), Onsets' = B, Reached' = watch.to,
                checks' \subseteq [epoch : Nat, from : Nat], \A d \in checks' : d.epoch <= restarts
         PROVE  Watched'
    <2>1. TrackedTo(Pushed.tracker, B, watch.to, saw')
      BY <1>10, <1>12, TrackedOfFewer
    <2>2. TrackedTo(tracker', Onsets', Reached', saw')
      BY <1>1, <1>12, <2>1
    <2>3. \A a, b \in Onsets' : a < b => Gap(saw', a, b + WakeMargin)
      BY <2>2 DEF TrackedTo
    <2>4. OneCheckAStretch'
      <3>1. \A c1, d1 \in checks' : c1.epoch = restarts' /\ d1.epoch = restarts' /\ c1.from < d1.from
              => Gap(saw', c1.from, d1.from + WakeMargin)
        BY <2>3 DEF Onsets
      <3>2. checks' \in SUBSET [epoch : Nat, from : Nat]
        BY <1>12
      <3>3. ASSUME NEW c1 \in checks', NEW d1 \in checks',
                   c1.epoch = restarts', d1.epoch = restarts', c1.from < d1.from
            PROVE  \E p \in c1.from .. d1.from + WakeMargin - SilenceGap :
                     \A q \in p .. p + SilenceGap - 1 : saw'[q] = "silence"
        <4>1. Gap(saw', c1.from, d1.from + WakeMargin)
          BY <3>1, <3>3
        <4>2. (d1.from + WakeMargin) - SilenceGap = d1.from + WakeMargin - SilenceGap
          BY <3>2, CaptureConstants
        <4> QED BY <4>1, <4>2, Zenon DEF Gap
      <3> QED BY <3>3 DEF OneCheckAStretch
    <2> QED BY <1>1, <1>12, <2>2, <2>4 DEF Watched
  <1>13. CASE Pushed.checks = <<>>
    <2>1. /\ watch' = [NoWatch EXCEPT !.at = "idle", !.pos = watch.to]
          /\ checks' = checks /\ disturbed' = disturbed
      BY <1>2, <1>13
    <2>2. watch' \in WatchStep /\ watch'.at = "idle" /\ watch'.pos = watch.to /\ watch'.out = <<>>
      BY <1>4, <2>1, NoWatchAt
    <2>3. CaptureTypes'
      BY <1>1, <1>3, <1>5, <1>11, <2>1, <2>2 DEF CaptureTypes, streamSide
    <2>4. RingHolds' /\ CopyHolds' /\ ReadIsWritten'
      BY <1>1, <1>4, <2>1, <2>2, NothingCopied
    <2>5. Onsets' = Onsets /\ Reached' = watch.to
      BY <1>1, <2>1, <2>2 DEF Onsets, Reached
    <2>6. \A d \in checks' : d.epoch <= restarts
      BY <2>1 DEF Watched
    <2>7. Watched'
      BY <1>3, <1>12, <2>1, <2>5, <2>6
    <2> QED BY <2>3, <2>4, <2>7
  <1>14. CASE Pushed.checks # <<>>
    <2>1. /\ BeginCopy(w, "checking", c.from, c.to)
          /\ checks' = checks \cup {[epoch |-> restarts, from |-> c.from]}
      BY <1>2, <1>14
    <2>2. 1 \in DOMAIN Pushed.checks /\ c = Pushed.checks[1]
      BY <1>11, <1>14
    <2>3. c \in Stretch /\ c.to <= head /\ c.from \in AskedBy(Pushed)
      BY <1>10, <1>11, <2>2 DEF AskedBy
    <2>4. c.from \in Nat /\ c.to \in Int
      BY <1>10, <2>3 DEF TrackedTo, Stretch
    <2>5. w \in WatchStep /\ w.pos = watch.to
      BY <1>3, <1>4, <2>3 DEF WatchStep
    <2> HIDE DEF w, c
    <2>6. /\ watch' \in WatchStep /\ watch'.at = "checking" /\ watch'.pos = watch.to
          /\ disturbed' \in BOOLEAN /\ RingHolds' /\ CopyHolds' /\ ReadIsWritten'
      <3>1. "checking" \in {"watching", "checking"} /\ w.pos <= head
        BY <1>4, <2>5
      <3> QED BY <1>1, <2>1, <2>3, <2>4, <2>5, <3>1, BeginCopyHolds
    <2>7. checks' \subseteq [epoch : Nat, from : Nat] /\ \A d \in checks' : d.epoch <= restarts
      BY <1>3, <2>1, <2>4 DEF Watched
    <2>8. CaptureTypes'
      BY <1>1, <1>3, <1>5, <1>11, <2>6, <2>7 DEF CaptureTypes, streamSide
    <2>9. Onsets' \subseteq Onsets \cup AskedBy(Pushed) /\ Reached' = watch.to
      BY <1>1, <2>1, <2>3, <2>6 DEF Onsets, Reached
    <2>10. Watched'
      BY <1>12, <2>7, <2>9
    <2> QED BY <2>6, <2>8, <2>10
  <1> QED BY <1>13, <1>14

LEMMA AsleepStep ==
  ASSUME CaptureTypes, RingHolds, CopyHolds, ReadIsWritten, Watched, Decoded \/ StopWatcher
  PROVE  CaptureTypes' /\ RingHolds' /\ CopyHolds' /\ ReadIsWritten' /\ Watched'
  <1>1. /\ watch.at \in {"checking", "idle"} /\ watch' \in {NoWatch, [NoWatch EXCEPT !.at = "idle", !.pos = watch.pos]}
        /\ UNCHANGED <<streamSide, tracker, restarts, saw, checks, disturbed>>
    BY DEF Decoded, StopWatcher
  <1>2. watch.pos \in Nat /\ watch.pos <= head /\ head \in Nat
    BY DEF CaptureTypes, WatchStep, CopyHolds
  <1>3. /\ watch' \in WatchStep /\ watch'.out = <<>> /\ watch'.pos <= head
        /\ watch'.at = "off" \/ (watch'.at = "idle" /\ watch'.pos = watch.pos)
    <2>1. CASE watch' = NoWatch
      <3>1. NoWatch.out = <<>> /\ NoWatch.pos = 0 /\ NoWatch.at = "off" /\ NoWatch \in WatchStep
        BY NoWatchIs
      <3> QED BY <1>2, <2>1, <3>1
    <2>2. CASE watch' = [NoWatch EXCEPT !.at = "idle", !.pos = watch.pos]
      BY <1>2, <2>2, NoWatchAt
    <2> QED BY <1>1, <2>1, <2>2
  <1>4. CaptureTypes'
    BY <1>1, <1>3 DEF CaptureTypes, streamSide
  <1>5. RingHolds' /\ CopyHolds' /\ ReadIsWritten'
    BY <1>1, <1>3, NothingCopied
  <1>6. Watched'
    BY <1>1, <1>3, WatchedStays DEF Reached
  <1> QED BY <1>4, <1>5, <1>6

LEMMA CaptureStep == CaptureInv /\ [CaptureNext]_captureVars => CaptureInv'
  <1> SUFFICES ASSUME CaptureInv, [CaptureNext]_captureVars PROVE CaptureInv'
    OBVIOUS
  <1>1. CaptureTypes /\ RingHolds /\ CopyHolds /\ ReadIsWritten /\ Watched
    BY DEF CaptureInv, Watched
  <1>2. CASE WriterStep
    <2>1. CaptureTypes' /\ RingHolds' /\ CopyHolds' /\ ReadIsWritten' /\ UNCHANGED watcherSide
      BY <1>1, <1>2, WriterKeepsTypes
    <2>2. Watched'
      BY <1>1, <2>1, WatchedStays DEF watcherSide, Reached
    <2> QED BY <2>1, <2>2 DEF CaptureInv, Watched
  <1>3. CASE Pump \/ StreamError \/ UNCHANGED captureVars
    <2>1. UNCHANGED <<voice, samples, head, chunk, written, watch, tracker, restarts, saw, checks, disturbed>>
      BY <1>3 DEF Pump, StreamError, captureVars, watcherSide
    <2>2. CaptureTypes' /\ RingHolds' /\ CopyHolds' /\ ReadIsWritten'
      BY <1>1, <2>1 DEF CaptureTypes, RingHolds, StoredTo, CopyHolds, Copying, ReadIsWritten
    <2>3. Watched'
      BY <1>1, <2>1, WatchedStays DEF Reached
    <2> QED BY <2>2, <2>3 DEF CaptureInv, Watched
  <1>4. CASE CopySample
    BY <1>1, <1>4, CopySampleStep DEF CaptureInv, Watched
  <1>5. CASE BeginWatcher
    BY <1>1, <1>5, BeginWatcherStep DEF CaptureInv, Watched
  <1>6. CASE WatcherStep
    BY <1>1, <1>6, WatcherStepStep DEF CaptureInv, Watched
  <1>7. CASE Track
    BY <1>1, <1>7, TrackStep DEF CaptureInv, Watched
  <1>8. CASE Decoded \/ StopWatcher
    BY <1>1, <1>8, AsleepStep DEF CaptureInv, Watched
  <1> QED BY <1>2, <1>3, <1>4, <1>5, <1>6, <1>7, <1>8 DEF CaptureNext, WriterStep


-----------------------------------------------------------------------------
(* A recording and its two workers *)

Segment == [lo : Int, hi : Int]
LastSent == IF phase = "committing" THEN Len(heard) + 1 ELSE Len(heard)

SttTypes ==
  /\ has \subseteq {"stream", "offline"} /\ has # {}
  /\ heard \in Seq(BOOLEAN) /\ begin \in Nat \ {0} /\ phase \in {"idle", "recording", "committing"}
  /\ seg \in [silence : Nat, since : BOOLEAN, cut : BOOLEAN, backstopped : BOOLEAN]
  /\ bufStart \in Nat /\ pending \in Seq(Segment) /\ epoch \in Nat

\* What the segmenter remembers is what was heard.
SegmenterHolds ==
  phase = "recording" =>
    /\ begin <= bufStart /\ bufStart <= Len(heard) + 1
    /\ speech = Words(bufStart, Len(heard))
    /\ seg.since = (speech # {})
    /\ seg.silence # InSpeech =>
         seg.silence <= Len(heard) + 1 /\ \A i \in seg.silence .. Len(heard) : ~heard[i]

\* The segments hold every word up to the last cut, in order.
WordsOf(h, lo, hi) == {i \in lo .. hi : h[i]}
Cover(h, p, lo, hi) ==
  /\ \A i \in DOMAIN p : WordsOf(h, p[i].lo, p[i].hi) \subseteq lo .. hi
  /\ WordsOf(h, lo, hi) \subseteq UNION {WordsOf(h, p[i].lo, p[i].hi) : i \in DOMAIN p}
  /\ \A i, j \in DOMAIN p : i < j =>
       \A v \in WordsOf(h, p[i].lo, p[i].hi), w \in WordsOf(h, p[j].lo, p[j].hi) : v < w

PendingHolds ==
  /\ \A i \in DOMAIN pending : pending[i].lo >= 1 /\ pending[i].hi <= Len(heard)
  /\ phase = "idle" => pending = <<>>
  /\ "offline" \in has =>
       /\ phase = "recording" => Cover(heard, pending, begin, bufStart - 1)
       /\ phase = "committing" => Cover(heard, pending, begin, Len(heard))

\* The streaming worker's queue ends with the live recording: a message for every
\* window of it, and none that is older asks for a text.
Said(h, w, lo, hi) ==
  /\ w \in Seq(Int)
  /\ \A i \in DOMAIN w : w[i] \in WordsOf(h, lo, hi)
  /\ \A n \in WordsOf(h, lo, hi) : \E i \in DOMAIN w : w[i] = n
  /\ \A i, j \in DOMAIN w : i < j => w[i] < w[j]

Message == [kind : {"Begin"}, id : Nat] \cup [kind : {"Audio"}, at : Nat, word : BOOLEAN]
             \cup [kind : {"End"}, flush : BOOLEAN]
IsFlush(m) == m.kind = "End" /\ m.flush
MessageAt(m, p, b, e, h) ==
  /\ p < b - 1 => ~IsFlush(m)
  /\ p = b - 1 => m.kind = "Begin" /\ m.id = e
  /\ p \in b .. Len(h) => m.kind = "Audio" /\ m.at = p /\ m.word = h[p]
  /\ p = Len(h) + 1 => IsFlush(m)
Done == LastSent - Len(toStream)

StreamHolds ==
  /\ toStream \in Seq(Message) /\ stream \in [id : Nat, words : Seq(Int)]
  /\ phase = "idle" => reply = <<>> /\ \A j \in DOMAIN toStream : ~IsFlush(toStream[j])
  /\ phase # "idle" =>
       /\ begin <= Len(heard) + 1 /\ epoch # 0
       /\ \A j \in DOMAIN toStream : MessageAt(toStream[j], Done + j, begin, epoch, heard)
       /\ Done >= begin - 1 /\ Done <= Len(heard) =>
            live = epoch /\ stream.id = epoch /\ Said(heard, stream.words, begin, Done)
       /\ Done <= Len(heard) => reply = <<>>
       /\ Done = Len(heard) + 1 => reply # <<>> /\ Said(heard, Head(reply), begin, Len(heard))

CommitHolds ==
  /\ text.from \in Nat \ {0} /\ text.to \in 0 .. Len(heard) /\ CommitIsWhole

SttInv ==
  /\ SttTypes /\ SegmenterHolds /\ PendingHolds /\ CommitHolds
  /\ "offline" \notin has => StreamHolds

LEMMA TranscribeInitial == TranscribeInit => SttInv
  <1> SUFFICES ASSUME TranscribeInit PROVE SttInv
    OBVIOUS
  <1>1. SttTypes
    <2>1. has \subseteq {"stream", "offline"} /\ has # {}
      BY DEF TranscribeInit
    <2>2. heard = <<>> /\ begin = 1 /\ phase = "idle" /\ bufStart = 1 /\ pending = <<>> /\ epoch = 0
      BY DEF TranscribeInit
    <2>3. seg \in [silence : Nat, since : BOOLEAN, cut : BOOLEAN, backstopped : BOOLEAN]
      BY DEF TranscribeInit, NewSegmenter
    <2> QED BY <2>1, <2>2, <2>3 DEF SttTypes
  <1>2. SegmenterHolds /\ PendingHolds
    BY DEF TranscribeInit, SegmenterHolds, PendingHolds
  <1>3. CommitHolds
    BY DEF TranscribeInit, CommitHolds, CommitIsWhole, Words, ToSet
  <1>4. StreamHolds
    BY DEF TranscribeInit, StreamHolds, NoStream
  <1> QED BY <1>1, <1>2, <1>3, <1>4 DEF SttInv

-----------------------------------------------------------------------------
\* A segment that is trimmed loses no word.
LEMMA LeastAndLast ==
  ASSUME NEW lo \in Nat, NEW hi \in Int, NEW s \in SUBSET (lo .. hi), s # {}
  PROVE  Min(s) \in s /\ Max(s) \in s /\ \A x \in s : Min(s) <= x /\ x <= Max(s)
  <1>1. \E n \in s : \A x \in s : n <= x
    BY LeastNumber, s \in SUBSET Nat
  <1>2. \E n \in s : \A x \in s : n >= x
    <2> DEFINE T == {hi - x : x \in s}
    <2>1. T \in SUBSET Nat /\ T # {}
      <3>1. \A x \in s : hi - x \in Nat
        OBVIOUS
      <3> QED BY <3>1
    <2>2. PICK m \in T : \A y \in T : m <= y
      BY <2>1, LeastNumber
    <2>3. PICK n \in s : m = hi - n
      BY <2>2
    <2>4. \A x \in s : hi - x \in T
      OBVIOUS
    <2>5. \A x \in s : n \in Int /\ x \in Int /\ hi - n <= hi - x
      BY <2>2, <2>3, <2>4
    <2> QED BY <2>5
  <1>3. Min(s) \in s /\ \A x \in s : Min(s) <= x
    BY <1>1 DEF Min
  <1>4. Max(s) \in s /\ \A x \in s : Max(s) >= x
    BY <1>2 DEF Max
  <1>5. \A x \in s : x \in Int
    OBVIOUS
  <1> QED BY <1>3, <1>4, <1>5

LEMMA OfTwo ==
  ASSUME NEW a \in Int, NEW b \in Int
  PROVE  /\ Max({a, b}) = IF a >= b THEN a ELSE b
         /\ Min({a, b}) = IF a <= b THEN a ELSE b
  BY DEF Max, Min

LEMMA TrimHolds ==
  ASSUME NEW lo \in Nat \ {0}, NEW hi \in Int, NEW s, s = Words(lo, hi)
  PROVE  /\ Trim(lo, hi, s) \in Segment /\ Trim(lo, hi, s).lo >= lo /\ Trim(lo, hi, s).hi <= hi
         /\ Words(Trim(lo, hi, s).lo, Trim(lo, hi, s).hi) = s
  <1>1. Margin \in Nat
    BY TranscribeAssumption DEF TranscribeAssumption
  <1>2. CASE s = {}
    <2>1. Trim(lo, hi, s) = [lo |-> lo, hi |-> hi]
      BY <1>2 DEF Trim
    <2> QED BY <2>1 DEF Segment
  <1>3. CASE s # {}
    <2> DEFINE first == IF Min(s) > Margin THEN Min(s) - Margin ELSE 0
               last == Max(s) + Margin
               l == Max({lo, first})
               h == Min({hi, last})
    <2>1. s \in SUBSET (lo .. hi)
      BY DEF Words
    <2>2. Min(s) \in s /\ Max(s) \in s /\ \A x \in s : Min(s) <= x /\ x <= Max(s)
      BY <1>3, <2>1, LeastAndLast
    <2>3. Min(s) \in Nat /\ Max(s) \in Nat /\ lo <= Min(s) /\ Max(s) <= hi
      BY <2>1, <2>2
    <2>4. first \in Int /\ last \in Int /\ first <= Min(s) /\ Max(s) <= last
      BY <1>1, <2>3
    <2> HIDE DEF first, last
    <2>5. l = (IF lo >= first THEN lo ELSE first) /\ h = IF hi <= last THEN hi ELSE last
      BY <2>4, OfTwo
    <2> HIDE DEF l, h
    <2>6. l \in Int /\ h \in Int /\ l >= lo /\ h <= hi /\ l <= Min(s) /\ Max(s) <= h
      BY <2>3, <2>4, <2>5
    <2>7. Trim(lo, hi, s) = [lo |-> l, hi |-> h]
      BY <1>3 DEF Trim, l, h, first, last
    <2>8. Words(l, h) = s
      <3>1. \A x \in Words(l, h) : x \in Words(lo, hi)
        BY <2>6 DEF Words
      <3>2. \A x \in s : x \in l .. h /\ heard[x]
        BY <2>1, <2>2, <2>3, <2>6 DEF Words
      <3> QED BY <3>1, <3>2 DEF Words
    <2> QED BY <2>6, <2>7, <2>8 DEF Segment
  <1> QED BY <1>2, <1>3

\* One more segment, of the words that follow.
LEMMA CoverMore ==
  ASSUME NEW h, NEW p \in Seq(Segment), NEW lo \in Int, NEW mid \in Int, NEW hi \in Int, Cover(h, p, lo, mid - 1),
         lo <= mid, mid - 1 <= hi, NEW x \in Segment, WordsOf(h, x.lo, x.hi) = WordsOf(h, mid, hi)
  PROVE  Cover(h, Append(p, x), lo, hi)
  <1> DEFINE q == Append(p, x)
             n == Len(p) + 1
  <1>1. /\ DOMAIN q = 1 .. n /\ DOMAIN p = 1 .. n - 1 /\ q[n] = x /\ n \in Nat /\ n >= 1
        /\ \A i \in 1 .. n - 1 : q[i] = p[i]
    OBVIOUS
  <1> HIDE DEF q, n
  <1>2. /\ \A i \in 1 .. n - 1 : WordsOf(h, p[i].lo, p[i].hi) \subseteq lo .. mid - 1
        /\ WordsOf(h, lo, mid - 1) \subseteq UNION {WordsOf(h, p[i].lo, p[i].hi) : i \in 1 .. n - 1}
        /\ \A i, j \in 1 .. n - 1 : i < j =>
              \A v \in WordsOf(h, p[i].lo, p[i].hi), w \in WordsOf(h, p[j].lo, p[j].hi) : v < w
    BY <1>1 DEF Cover
  <1>3. \A v \in WordsOf(h, mid, hi) : v \in mid .. hi
    BY DEF WordsOf
  <1>4. \A i \in 1 .. n : i = n \/ i \in 1 .. n - 1
    BY <1>1
  <1>5. \A i \in DOMAIN q : WordsOf(h, q[i].lo, q[i].hi) \subseteq lo .. hi
    <2> SUFFICES ASSUME NEW i \in 1 .. n PROVE WordsOf(h, q[i].lo, q[i].hi) \subseteq lo .. hi
      BY <1>1
    <2>1. CASE i = n
      BY <1>1, <1>3, <2>1
    <2>2. CASE i \in 1 .. n - 1
      <3>1. WordsOf(h, q[i].lo, q[i].hi) \subseteq lo .. mid - 1
        BY <1>1, <1>2, <2>2
      <3> QED BY <3>1
    <2> QED BY <1>4, <2>1, <2>2
  <1>6. WordsOf(h, lo, hi) \subseteq UNION {WordsOf(h, q[i].lo, q[i].hi) : i \in DOMAIN q}
    <2> SUFFICES ASSUME NEW v \in WordsOf(h, lo, hi) PROVE \E i \in 1 .. n : v \in WordsOf(h, q[i].lo, q[i].hi)
      BY <1>1
    <2>1. v \in WordsOf(h, lo, mid - 1) \/ v \in WordsOf(h, mid, hi)
      BY DEF WordsOf
    <2>2. CASE v \in WordsOf(h, mid, hi)
      <3>1. WordsOf(h, q[n].lo, q[n].hi) = WordsOf(h, mid, hi)
        BY <1>1, Zenon
      <3>2. n \in 1 .. n
        BY <1>1
      <3> QED BY <2>2, <3>1, <3>2, Zenon
    <2>3. CASE v \in WordsOf(h, lo, mid - 1)
      <3>1. PICK i \in 1 .. n - 1 : v \in WordsOf(h, p[i].lo, p[i].hi)
        BY <1>2, <2>3
      <3> QED BY <1>1, <3>1
    <2> QED BY <2>1, <2>2, <2>3
  <1>7. \A i, j \in DOMAIN q : i < j =>
          \A v \in WordsOf(h, q[i].lo, q[i].hi), w \in WordsOf(h, q[j].lo, q[j].hi) : v < w
    <2> SUFFICES ASSUME NEW i \in 1 .. n, NEW j \in 1 .. n, i < j,
                        NEW v \in WordsOf(h, q[i].lo, q[i].hi), NEW w \in WordsOf(h, q[j].lo, q[j].hi)
                 PROVE  v < w
      BY <1>1
    <2>1. i \in 1 .. n - 1 /\ q[i] = p[i]
      BY <1>1
    <2>2. CASE j = n
      <3>1. v \in lo .. mid - 1 /\ w \in mid .. hi
        BY <1>1, <1>2, <1>3, <2>1, <2>2
      <3> QED BY <3>1
    <2>3. CASE j \in 1 .. n - 1
      BY <1>1, <1>2, <2>1, <2>3
    <2> QED BY <1>4, <2>2, <2>3
  <1> QED BY <1>5, <1>6, <1>7 DEF Cover, q

\* Silence adds nothing.
LEMMA CoverSilence ==
  ASSUME NEW h, NEW p, NEW lo \in Int, NEW mid \in Int, NEW hi \in Int, Cover(h, p, lo, mid - 1),
         mid - 1 <= hi, WordsOf(h, mid, hi) = {}
  PROVE  Cover(h, p, lo, hi)
  <1>1. \A v \in WordsOf(h, lo, hi) : v \in WordsOf(h, lo, mid - 1)
    <2> SUFFICES ASSUME NEW v \in WordsOf(h, lo, hi), v \notin WordsOf(h, lo, mid - 1) PROVE FALSE
      OBVIOUS
    <2>1. v \in WordsOf(h, mid, hi)
      BY DEF WordsOf
    <2> QED BY <2>1
  <1>2. \A i \in DOMAIN p : WordsOf(h, p[i].lo, p[i].hi) \subseteq lo .. hi
    <2>1. lo .. mid - 1 \subseteq lo .. hi
      OBVIOUS
    <2> QED BY <2>1, Zenon DEF Cover
  <1> QED BY <1>1, <1>2, Zenon DEF Cover

-----------------------------------------------------------------------------
(* The steps of a recording *)

\* What was heard stays as it was.
LEMMA WordsStay ==
  ASSUME heard \in Seq(BOOLEAN), NEW is \in BOOLEAN, heard' = Append(heard, is)
  PROVE  /\ heard' \in Seq(BOOLEAN) /\ Len(heard') = Len(heard) + 1 /\ heard'[Len(heard) + 1] = is
         /\ \A i \in 1 .. Len(heard) : heard'[i] = heard[i]
  OBVIOUS

LEMMA OldWords ==
  ASSUME NEW h \in Seq(BOOLEAN), NEW z, \A i \in 1 .. Len(h) : z[i] = h[i],
         NEW lo \in Int, NEW hi \in Int, lo >= 1, hi <= Len(h)
  PROVE  WordsOf(z, lo, hi) = WordsOf(h, lo, hi)
  <1>1. \A i \in lo .. hi : i \in 1 .. Len(h)
    OBVIOUS
  <1> QED BY <1>1 DEF WordsOf

LEMMA CoverStays ==
  ASSUME NEW h \in Seq(BOOLEAN), NEW z, \A i \in 1 .. Len(h) : z[i] = h[i],
         NEW p \in Seq(Segment), \A i \in DOMAIN p : p[i].lo >= 1 /\ p[i].hi <= Len(h),
         NEW lo \in Int, NEW hi \in Int, lo >= 1, hi <= Len(h), Cover(h, p, lo, hi)
  PROVE  Cover(z, p, lo, hi)
  <1>1. WordsOf(z, lo, hi) = WordsOf(h, lo, hi)
    BY OldWords
  <1>2. \A i \in DOMAIN p : WordsOf(z, p[i].lo, p[i].hi) = WordsOf(h, p[i].lo, p[i].hi)
    <2> SUFFICES ASSUME NEW i \in DOMAIN p
                 PROVE  WordsOf(z, p[i].lo, p[i].hi) = WordsOf(h, p[i].lo, p[i].hi)
      OBVIOUS
    <2>1. p[i] \in Segment
      OBVIOUS
    <2>2. p[i].lo \in Int /\ p[i].hi \in Int /\ p[i].lo >= 1 /\ p[i].hi <= Len(h)
      BY <2>1 DEF Segment
    <2> QED BY <2>2, OldWords
  <1> QED BY <1>1, <1>2 DEF Cover

\* What was committed stays what was said.
LEMMA CommitStays ==
  ASSUME SttTypes, CommitHolds, text' = text,
         heard' = heard \/ \E is \in BOOLEAN : heard' = Append(heard, is)
  PROVE  CommitHolds'
  <1>1. heard \in Seq(BOOLEAN)
    BY DEF SttTypes
  <1>2. \A i \in 1 .. Len(heard) : heard'[i] = heard[i]
    BY <1>1, WordsStay
  <1>3. Len(heard') >= Len(heard) /\ Len(heard') \in Nat /\ Len(heard) \in Nat
    BY <1>1
  <1>4. WordsOf(heard', text.from, text.to) = WordsOf(heard, text.from, text.to)
    BY <1>1, <1>2, OldWords DEF CommitHolds
  <1>5. CommitIsWhole'
    BY <1>4 DEF CommitHolds, CommitIsWhole, Words, WordsOf
  <1> QED BY <1>3, <1>5 DEF CommitHolds

\* A window is heard: the segmenter's step, and what it cuts.
LEMMA HearsSession ==
  ASSUME SttTypes, SegmenterHolds, PendingHolds, NEW is \in BOOLEAN, Hears(is)
  PROVE  SttTypes' /\ SegmenterHolds' /\ PendingHolds'
  <1> DEFINE n == Len(heard) + 1
             from == IF seg.silence = InSpeech THEN n ELSE seg.silence
             run == n + 1 - from
             stop == ~is /\ run >= Backstop /\ ~seg.backstopped
             cut == ~is /\ ~stop /\ run >= MinPause /\ seg.since /\ ~seg.cut
  <1>1. /\ phase = "recording" /\ heard' = Append(heard, is)
        /\ seg' = IF is THEN [seg EXCEPT !.silence = InSpeech, !.since = TRUE, !.cut = FALSE]
                  ELSE [silence |-> from, since |-> seg.since /\ ~cut,
                        cut |-> seg.cut \/ cut, backstopped |-> seg.backstopped \/ stop]
        /\ cut => /\ Decode(Trim(bufStart, CutAt(from) - 1, speech))
                  /\ bufStart' = CutAt(from) /\ speech' = {}
        /\ ~cut => /\ speech' = IF is THEN speech \cup {n} ELSE speech
                   /\ bufStart' = bufStart /\ pending' = pending
        /\ UNCHANGED <<has, begin, phase, epoch>>
    BY DEF Hears
  <1>2. /\ heard \in Seq(BOOLEAN) /\ Len(heard) \in Nat /\ begin \in Nat \ {0} /\ bufStart \in Nat
        /\ pending \in Seq(Segment) /\ seg.silence \in Nat /\ seg.since \in BOOLEAN
        /\ seg.cut \in BOOLEAN /\ seg.backstopped \in BOOLEAN
        /\ seg \in [silence : Nat, since : BOOLEAN, cut : BOOLEAN, backstopped : BOOLEAN]
    BY DEF SttTypes
  <1>3. /\ begin <= bufStart /\ bufStart <= n
        /\ speech = Words(bufStart, Len(heard)) /\ seg.since = (speech # {})
        /\ seg.silence # InSpeech =>
             seg.silence <= n /\ \A i \in seg.silence .. Len(heard) : ~heard[i]
    BY <1>1 DEF SegmenterHolds
  <1>4. heard' \in Seq(BOOLEAN) /\ Len(heard') = n /\ heard'[n] = is /\ n \in Nat /\ n >= 1
        /\ n - 1 = Len(heard) /\ \A i \in 1 .. Len(heard) : heard'[i] = heard[i]
    BY <1>1, <1>2, WordsStay
  <1>5. /\ from \in Nat /\ from >= 1 /\ from <= n /\ \A i \in from .. n - 1 : ~heard[i]
    BY <1>2, <1>3, <1>4 DEF InSpeech
  <1>6. MinPause \in Nat /\ MinPause >= 1 /\ MinPause \div 2 \in Nat /\ MinPause \div 2 < MinPause
    BY TranscribeAssumption DEF TranscribeAssumption
  <1>7. cut \in BOOLEAN /\ stop \in BOOLEAN
    OBVIOUS
  <1>8. cut => ~is /\ seg.since /\ n + 1 - from >= MinPause
    OBVIOUS
  <1> HIDE DEF n, from, run, stop, cut
  <1>9. seg' \in [silence : Nat, since : BOOLEAN, cut : BOOLEAN, backstopped : BOOLEAN]
    <2>1. CASE is
      BY <1>1, <1>2, <2>1 DEF InSpeech
    <2>2. CASE ~is
      BY <1>1, <1>2, <1>5, <1>7, <2>2
    <2> QED BY <2>1, <2>2
  <1>10. /\ seg'.since = (is \/ (seg.since /\ ~cut))
         /\ is => seg'.silence = InSpeech
         /\ ~is => seg'.silence = from
    <2>1. CASE is
      BY <1>1, <1>2, <2>1
    <2>2. CASE ~is
      BY <1>1, <1>2, <2>2
    <2> QED BY <2>1, <2>2
  <1>11. CASE cut
    <2> DEFINE at == CutAt(from)
               x == Trim(bufStart, at - 1, speech)
    <2>1. at \in Nat /\ from <= at /\ at <= n
      BY <1>4, <1>5, <1>6, <1>8, <1>11 DEF CutAt
    <2>2. PICK v \in speech : TRUE
      BY <1>3, <1>8, <1>11
    <2>3. bufStart <= v /\ v < from /\ v \in Int
      BY <1>2, <1>3, <1>4, <1>5, <2>2 DEF Words
    <2> HIDE DEF at
    <2>4. speech = Words(bufStart, at - 1)
      <3>1. \A i \in bufStart .. n - 1 : heard[i] => i < from
        BY <1>2, <1>4, <1>5
      <3>2. \A i \in bufStart .. n - 1 : heard[i] => i \in bufStart .. at - 1
        BY <1>2, <1>4, <1>5, <2>1, <3>1
      <3>3. bufStart .. at - 1 \subseteq bufStart .. n - 1
        BY <1>2, <1>4, <2>1
      <3> QED BY <1>3, <1>4, <3>2, <3>3 DEF Words
    <2>5. /\ x \in Segment /\ x.lo >= bufStart /\ x.hi <= at - 1 /\ Words(x.lo, x.hi) = speech
      BY <1>2, <1>3, <2>1, <2>4, TrimHolds
    <2> HIDE DEF x
    <2>6. bufStart' = at /\ speech' = {} /\ ("offline" \in has => pending' = Append(pending, x))
          /\ ("offline" \notin has => pending' = pending)
      BY <1>1, <1>11 DEF Decode, at, x
    <2>7. SttTypes'
      <3>1. pending' \in Seq(Segment)
        BY <1>2, <2>5, <2>6
      <3> QED BY <1>1, <1>2, <1>4, <1>9, <2>1, <2>6, <3>1 DEF SttTypes
    <2>8. SegmenterHolds'
      <3>1. begin <= at /\ at <= n + 1
        BY <1>2, <1>3, <1>4, <1>5, <2>1, <2>3
      <3>2. \A i \in from .. n : ~heard'[i]
        <4>1. \A i \in from .. n : i = n \/ (i \in from .. n - 1 /\ i \in 1 .. Len(heard))
          BY <1>4, <1>5
        <4> QED BY <1>4, <1>5, <1>8, <1>11, <4>1
      <3>3. \A i \in at .. n : ~heard'[i]
        BY <1>4, <1>5, <2>1, <3>2
      <3>4. seg'.since = FALSE /\ seg'.silence = from
        BY <1>8, <1>10, <1>11
      <3>5. Words(bufStart, Len(heard))' = {}
        BY <1>4, <2>6, <3>3 DEF Words
      <3>6. seg'.since = (speech' # {})
        BY <2>6, <3>4
      <3>7. seg'.silence <= Len(heard') + 1 /\ \A i \in seg'.silence .. Len(heard') : ~heard'[i]
        BY <1>4, <1>5, <3>2, <3>4
      <3> QED BY <1>1, <1>4, <2>6, <3>1, <3>5, <3>6, <3>7 DEF SegmenterHolds
    <2>9. \A i \in DOMAIN pending' : pending'[i].lo >= 1 /\ pending'[i].hi <= Len(heard')
      <3>1. \A i \in DOMAIN pending : pending[i].lo >= 1 /\ pending[i].hi <= n
        <4> SUFFICES ASSUME NEW i \in DOMAIN pending PROVE pending[i].lo >= 1 /\ pending[i].hi <= n
          OBVIOUS
        <4>1. pending[i] \in Segment
          BY <1>2
        <4>2. pending[i].lo >= 1 /\ pending[i].hi <= Len(heard) /\ pending[i].hi \in Int
          BY <4>1 DEF PendingHolds, Segment
        <4> QED BY <1>2, <1>4, <4>2
      <3>2. x.lo >= 1 /\ x.hi <= n
        BY <1>2, <1>3, <1>4, <2>1, <2>5 DEF Segment
      <3>3. CASE "offline" \in has
        <4> DEFINE q == Append(pending, x)
        <4>1. pending' = q /\ Len(heard') = n
          BY <1>4, <2>6, <3>3
        <4>2. DOMAIN q = 1 .. Len(pending) + 1 /\ q[Len(pending) + 1] = x /\ DOMAIN pending = 1 .. Len(pending)
              /\ \A i \in 1 .. Len(pending) : q[i] = pending[i]
          BY <1>2, <2>5
        <4>3. \A i \in DOMAIN q : i \in DOMAIN pending \/ i = Len(pending) + 1
          BY <1>2, <4>2
        <4> HIDE DEF q
        <4> QED BY <3>1, <3>2, <4>1, <4>2, <4>3
      <3>4. CASE "offline" \notin has
        BY <1>4, <2>6, <3>1, <3>4
      <3> QED BY <3>3, <3>4
    <2>10. "offline" \in has => Cover(heard', pending', begin, at - 1)
      <3> SUFFICES ASSUME "offline" \in has PROVE Cover(heard', pending', begin, at - 1)
        OBVIOUS
      <3>1. Cover(heard, pending, begin, bufStart - 1)
        BY <1>1 DEF PendingHolds
      <3> DEFINE q == Append(pending, x)
      <3>2. WordsOf(heard, x.lo, x.hi) = WordsOf(heard, bufStart, at - 1)
        BY <2>4, <2>5 DEF Words, WordsOf
      <3>3. begin \in Int /\ bufStart \in Int /\ at - 1 \in Int /\ begin <= bufStart /\ bufStart - 1 <= at - 1
        BY <1>2, <1>3, <1>5, <2>1, <2>3
      <3>4. Cover(heard, q, begin, at - 1)
        BY <1>2, <2>5, <3>1, <3>2, <3>3, CoverMore
      <3>5. q \in Seq(Segment) /\ pending' = q
        BY <1>2, <2>5, <2>6
      <3>6. \A i \in DOMAIN q : q[i].lo >= 1 /\ q[i].hi <= Len(heard)
        <4>1. \A i \in DOMAIN pending : pending[i].lo >= 1 /\ pending[i].hi <= Len(heard)
          BY DEF PendingHolds
        <4>2. x.lo >= 1 /\ x.hi <= Len(heard)
          BY <1>2, <1>3, <1>4, <2>1, <2>5 DEF Segment
        <4> QED BY <1>2, <2>5, <4>1, <4>2
      <3> HIDE DEF q
      <3>7. Cover(heard', q, begin, at - 1)
        <4>1. at - 1 <= Len(heard) /\ begin >= 1
          BY <1>2, <1>4, <2>1
        <4> QED BY <1>2, <1>4, <3>3, <3>4, <3>5, <3>6, <4>1, CoverStays
      <3> QED BY <3>5, <3>7
    <2>11. PendingHolds'
      BY <1>1, <1>2, <2>6, <2>9, <2>10 DEF PendingHolds
    <2> QED BY <2>7, <2>8, <2>11
  <1>12. CASE ~cut
    <2>1. /\ bufStart' = bufStart /\ pending' = pending
          /\ speech' = IF is THEN speech \cup {n} ELSE speech
      BY <1>1, <1>12
    <2>2. SttTypes'
      BY <1>1, <1>2, <1>4, <1>9, <2>1 DEF SttTypes
    <2>3. \A i \in bufStart .. n : i = n \/ (i \in bufStart .. Len(heard) /\ i \in 1 .. Len(heard))
      BY <1>2, <1>3, <1>4
    <2>4. Words(bufStart, Len(heard))' = speech'
      <3>1. bufStart .. Len(heard) \subseteq bufStart .. n /\ n \in bufStart .. n
        BY <1>2, <1>3, <1>4
      <3>2. speech = {i \in bufStart .. Len(heard) : heard[i]}
        BY <1>3 DEF Words
      <3>3. \A i \in speech : i \in bufStart .. n /\ heard'[i]
        BY <1>4, <2>3, <3>1, <3>2
      <3>4. \A i \in bufStart .. n : heard'[i] /\ i # n => i \in speech
        BY <1>4, <2>3, <3>2
      <3>5. n \notin speech
        BY <1>4, <3>2
      <3>6. {i \in bufStart .. n : heard'[i]} = speech'
        BY <1>4, <2>1, <3>1, <3>3, <3>4, <3>5
      <3> QED BY <1>4, <2>1, <3>6 DEF Words
    <2>5. SegmenterHolds'
      <3>1. seg'.since = (speech' # {})
        BY <1>3, <1>10, <1>12, <2>1
      <3>2. seg'.silence # InSpeech =>
              seg'.silence <= Len(heard') + 1 /\ \A i \in seg'.silence .. Len(heard') : ~heard'[i]
        <4> SUFFICES ASSUME seg'.silence # InSpeech
                     PROVE  seg'.silence <= Len(heard') + 1 /\ \A i \in seg'.silence .. Len(heard') : ~heard'[i]
          OBVIOUS
        <4>1. ~is /\ seg'.silence = from
          BY <1>10
        <4>2. \A i \in from .. n : i = n \/ (i \in from .. n - 1 /\ i \in 1 .. Len(heard))
          BY <1>4, <1>5
        <4>3. \A i \in from .. n : ~heard'[i]
          BY <1>4, <1>5, <4>1, <4>2
        <4> QED BY <1>4, <1>5, <4>1, <4>3
      <3>3. begin <= bufStart /\ bufStart <= n + 1
        BY <1>2, <1>3, <1>4
      <3> QED BY <1>1, <1>4, <2>1, <2>4, <3>1, <3>2, <3>3 DEF SegmenterHolds
    <2>6. \A i \in DOMAIN pending : pending[i].lo >= 1 /\ pending[i].hi <= n
      <3> SUFFICES ASSUME NEW i \in DOMAIN pending PROVE pending[i].lo >= 1 /\ pending[i].hi <= n
        OBVIOUS
      <3>1. pending[i] \in Segment
        BY <1>2
      <3>2. pending[i].lo >= 1 /\ pending[i].hi <= Len(heard) /\ pending[i].hi \in Int
        BY <3>1 DEF PendingHolds, Segment
      <3> QED BY <1>2, <1>4, <3>2
    <2>7. "offline" \in has => Cover(heard', pending, begin, bufStart - 1)
      <3>1. "offline" \in has => Cover(heard, pending, begin, bufStart - 1)
        BY <1>1 DEF PendingHolds
      <3>2. begin \in Int /\ bufStart - 1 \in Int /\ begin >= 1 /\ bufStart - 1 <= Len(heard)
        BY <1>2, <1>3, <1>4
      <3>3. \A i \in DOMAIN pending : pending[i].lo >= 1 /\ pending[i].hi <= Len(heard)
        BY DEF PendingHolds
      <3> QED BY <1>2, <1>4, <3>1, <3>2, <3>3, CoverStays
    <2>8. PendingHolds'
      BY <1>1, <1>4, <2>1, <2>6, <2>7 DEF PendingHolds
    <2> QED BY <2>2, <2>5, <2>8
  <1> QED BY <1>11, <1>12

-----------------------------------------------------------------------------
(* The streaming worker *)

\* One more message.
LEMMA Sent ==
  ASSUME NEW q \in Seq(Message), NEW m \in Message
  PROVE  /\ q \o <<m>> \in Seq(Message) /\ Len(q \o <<m>>) = Len(q) + 1
         /\ (q \o <<m>>)[Len(q) + 1] = m
         /\ \A j \in 1 .. Len(q) : (q \o <<m>>)[j] = q[j]
         /\ \A j \in DOMAIN (q \o <<m>>) : j \in 1 .. Len(q) \/ j = Len(q) + 1
  OBVIOUS

LEMMA SaidStays ==
  ASSUME NEW h \in Seq(BOOLEAN), NEW z, \A i \in 1 .. Len(h) : z[i] = h[i], NEW w,
         NEW lo \in Int, NEW hi \in Int, lo >= 1, hi <= Len(h), Said(h, w, lo, hi)
  PROVE  Said(z, w, lo, hi)
  <1>1. WordsOf(z, lo, hi) = WordsOf(h, lo, hi)
    BY OldWords
  <1> QED BY <1>1 DEF Said

LEMMA SaidMore ==
  ASSUME NEW h \in Seq(BOOLEAN), NEW w, NEW lo \in Nat \ {0}, NEW p \in Int, p >= lo, p <= Len(h),
         Said(h, w, lo, p - 1)
  PROVE  Said(h, IF h[p] THEN Append(w, p) ELSE w, lo, p)
  <1>1. /\ w \in Seq(Int) /\ \A i \in DOMAIN w : w[i] \in lo .. p - 1 /\ h[w[i]]
        /\ \A n \in lo .. p - 1 : h[n] => \E i \in DOMAIN w : w[i] = n
        /\ \A i, j \in DOMAIN w : i < j => w[i] < w[j]
    BY DEF Said, WordsOf
  <1>2. \A n \in lo .. p : n = p \/ n \in lo .. p - 1
    OBVIOUS
  <1>3. lo .. p - 1 \subseteq lo .. p /\ p \in lo .. p /\ h[p] \in BOOLEAN
    OBVIOUS
  <1>4. CASE ~h[p]
    BY <1>1, <1>2, <1>3, <1>4 DEF Said, WordsOf
  <1>5. CASE h[p]
    <2> DEFINE v == Append(w, p)
               n == Len(w) + 1
    <2>1. /\ v \in Seq(Int) /\ DOMAIN v = 1 .. n /\ DOMAIN w = 1 .. n - 1 /\ v[n] = p /\ n \in Nat /\ n >= 1
          /\ \A i \in 1 .. n - 1 : v[i] = w[i]
      BY <1>1
    <2>2. \A i \in 1 .. n : i = n \/ i \in 1 .. n - 1
      BY <2>1
    <2> HIDE DEF v, n
    <2>3. \A i \in DOMAIN v : v[i] \in lo .. p /\ h[v[i]]
      BY <1>1, <1>3, <1>5, <2>1, <2>2
    <2>4. ASSUME NEW k \in lo .. p, h[k] PROVE \E i \in DOMAIN v : v[i] = k
      <3>1. CASE k = p
        BY <2>1, <3>1
      <3>2. CASE k \in lo .. p - 1
        <4>1. PICK i \in DOMAIN w : w[i] = k
          BY <1>1, <2>4, <3>2
        <4> QED BY <2>1, <4>1
      <3> QED BY <1>2, <3>1, <3>2
    <2>5. ASSUME NEW i \in DOMAIN v, NEW j \in DOMAIN v, i < j PROVE v[i] < v[j]
      <3>1. i \in 1 .. n - 1 /\ v[i] = w[i]
        BY <2>1, <2>2, <2>5
      <3>2. CASE j = n
        <4>1. w[i] \in lo .. p - 1
          BY <1>1, <2>1, <3>1
        <4> QED BY <2>1, <3>1, <3>2, <4>1
      <3>3. CASE j \in 1 .. n - 1
        BY <1>1, <2>1, <2>5, <3>1, <3>3
      <3> QED BY <2>1, <2>2, <3>2, <3>3
    <2>6. Said(h, v, lo, p)
      BY <2>1, <2>3, <2>4, <2>5 DEF Said, WordsOf
    <2> QED BY <1>5, <2>6 DEF v
  <1> QED BY <1>3, <1>4, <1>5

LEMMA HearsStream ==
  ASSUME SttTypes, SegmenterHolds, StreamHolds, "offline" \notin has, NEW is \in BOOLEAN, Hears(is)
  PROVE  StreamHolds'
  <1> DEFINE n == Len(heard) + 1
             m == [kind |-> "Audio", at |-> n, word |-> is]
             q == Len(toStream)
  <1>1. /\ phase = "recording" /\ heard' = Append(heard, is) /\ toStream' = toStream \o <<m>>
        /\ UNCHANGED <<begin, phase, epoch, stream, live, reply>>
    BY DEF Hears, ToStream, SttTypes
  <1>2. /\ heard \in Seq(BOOLEAN) /\ Len(heard) \in Nat /\ begin \in Nat \ {0} /\ epoch \in Nat
        /\ toStream \in Seq(Message) /\ q \in Nat /\ n \in Nat
    BY DEF SttTypes, StreamHolds
  <1>3. heard' \in Seq(BOOLEAN) /\ Len(heard') = n /\ heard'[n] = is
        /\ \A i \in 1 .. Len(heard) : heard'[i] = heard[i]
    BY <1>1, <1>2, WordsStay
  <1>4. m \in Message
    BY <1>2 DEF Message
  <1>5. /\ toStream' \in Seq(Message) /\ Len(toStream') = q + 1 /\ toStream'[q + 1] = m
        /\ \A j \in 1 .. q : toStream'[j] = toStream[j]
        /\ \A j \in DOMAIN toStream' : j \in 1 .. q \/ j = q + 1
    BY <1>1, <1>2, <1>4, Sent
  <1>6. m.kind = "Audio" /\ m.at = n /\ m.word = is
    OBVIOUS
  <1> HIDE DEF m
  <1>7. Done = Len(heard) - q /\ Done' = Done /\ Done <= Len(heard) /\ Done \in Int /\ Len(heard) = n - 1
    BY <1>1, <1>2, <1>3, <1>5 DEF Done, LastSent
  <1>8. begin <= n
    BY <1>1, <1>2 DEF StreamHolds
  <1> HIDE DEF n, q
  <1>9. ASSUME NEW j \in DOMAIN toStream' PROVE MessageAt(toStream'[j], Done + j, begin, epoch, heard')
    <2>1. CASE j = q + 1
      <3>1. Done + j = n
        BY <1>2, <1>7, <2>1
      <3>2. ~(n < begin - 1) /\ n # begin - 1 /\ n # n + 1
        BY <1>2, <1>8
      <3>3. MessageAt(m, n, begin, epoch, heard')
        BY <1>3, <1>6, <3>2 DEF MessageAt
      <3> QED BY <1>5, <2>1, <3>1, <3>3
    <2>2. CASE j \in 1 .. q
      <3> DEFINE p == Done + j
      <3>1. p \in Int /\ p <= Len(heard) /\ p < n
        BY <1>2, <1>7, <2>2
      <3>2. MessageAt(toStream[j], p, begin, epoch, heard) /\ toStream'[j] = toStream[j]
        BY <1>1, <1>2, <1>5, <2>2 DEF StreamHolds, q
      <3> HIDE DEF p
      <3>3. p \in begin .. n => p \in begin .. Len(heard) /\ p \in 1 .. Len(heard)
        BY <1>2, <1>7, <3>1
      <3>4. MessageAt(toStream'[j], p, begin, epoch, heard')
        BY <1>1, <1>2, <1>3, <3>1, <3>2, <3>3 DEF MessageAt
      <3> QED BY <1>7, <3>4 DEF p
    <2> QED BY <1>5, <2>1, <2>2
  <1>10. Done >= begin - 1 => Said(heard, stream.words, begin, Done) /\ live = epoch /\ stream.id = epoch
    BY <1>1, <1>7 DEF StreamHolds
  <1>11. Done >= begin - 1 => Said(heard', stream.words, begin, Done)
    BY <1>2, <1>3, <1>7, <1>10, SaidStays
  <1>12. reply = <<>> /\ epoch # 0 /\ stream \in [id : Nat, words : Seq(Int)]
    BY <1>1, <1>7 DEF StreamHolds
  <1>13. Done' # Len(heard') + 1 /\ begin <= Len(heard') + 1
    BY <1>2, <1>3, <1>7, <1>8
  <1>14. phase' # "idle" /\ \A j \in DOMAIN toStream' : MessageAt(toStream'[j], Done' + j, begin', epoch', heard')
    BY <1>1, <1>7, <1>9
  <1> QED BY <1>1, <1>5, <1>7, <1>10, <1>11, <1>12, <1>13, <1>14 DEF StreamHolds

LEMMA BeginStream ==
  ASSUME SttTypes, StreamHolds, "offline" \notin has, BeginRecording
  PROVE  StreamHolds'
  <1> DEFINE n == Len(heard) + 1
             m == [kind |-> "Begin", id |-> epoch + 1]
             q == Len(toStream)
  <1>1. /\ phase = "idle" /\ phase' \in {"recording", "idle"} /\ toStream' = toStream \o <<m>>
        /\ begin' = n /\ epoch' = epoch + 1 /\ UNCHANGED <<heard, stream, live, reply>>
    BY DEF BeginRecording, ToStream, SttTypes
  <1>2. /\ heard \in Seq(BOOLEAN) /\ Len(heard) \in Nat /\ epoch \in Nat
        /\ toStream \in Seq(Message) /\ q \in Nat /\ n \in Nat /\ reply = <<>>
        /\ \A j \in 1 .. q : ~IsFlush(toStream[j])
        /\ stream \in [id : Nat, words : Seq(Int)]
    BY <1>1 DEF SttTypes, StreamHolds
  <1>3. m \in Message
    BY <1>2 DEF Message
  <1>4. /\ toStream' \in Seq(Message) /\ Len(toStream') = q + 1 /\ toStream'[q + 1] = m
        /\ \A j \in 1 .. q : toStream'[j] = toStream[j]
        /\ \A j \in DOMAIN toStream' : j \in 1 .. q \/ j = q + 1
    BY <1>1, <1>2, <1>3, Sent
  <1>5. m.kind = "Begin" /\ m.id = epoch + 1 /\ ~IsFlush(m) /\ Len(heard) = n - 1
    BY <1>2 DEF IsFlush
  <1> HIDE DEF m, n, q
  <1>6. CASE phase' = "idle"
    <2>1. \A j \in DOMAIN toStream' : ~IsFlush(toStream'[j])
      BY <1>2, <1>4, <1>5
    <2> QED BY <1>1, <1>2, <1>4, <1>6, <2>1 DEF StreamHolds
  <1>7. CASE phase' = "recording"
    <2>1. Done' = (n - 1) - (q + 1)
      BY <1>1, <1>2, <1>4, <1>5, <1>7 DEF Done, LastSent
    <2>2. ASSUME NEW j \in DOMAIN toStream'
          PROVE  MessageAt(toStream'[j], Done' + j, n, epoch + 1, heard)
      <3>1. CASE j = q + 1
        <4>1. Done' + j = n - 1 /\ n - 1 \notin n .. Len(heard) /\ n - 1 # n
          BY <1>2, <2>1, <3>1
        <4>2. MessageAt(m, n - 1, n, epoch + 1, heard)
          BY <1>2, <1>5, <4>1 DEF MessageAt
        <4> QED BY <1>4, <3>1, <4>1, <4>2
      <3>2. CASE j \in 1 .. q
        <4>1. Done' + j \in Int /\ Done' + j < n - 1
          BY <1>2, <2>1, <3>2
        <4>2. ~IsFlush(toStream'[j])
          BY <1>2, <1>4, <3>2
        <4> HIDE DEF Done
        <4> QED BY <1>2, <1>5, <4>1, <4>2 DEF MessageAt
      <3> QED BY <1>4, <3>1, <3>2
    <2>3. ~(Done' >= n - 1) /\ Done' # n
      BY <1>2, <2>1
    <2>4. epoch + 1 # 0 /\ n <= n
      BY <1>2
    <2>5. n <= Len(heard') + 1 /\ Len(heard') + 1 = n
      BY <1>1, <1>2, <1>5
    <2>6. begin' = n /\ epoch' = epoch + 1 /\ phase' # "idle" /\ heard' = heard /\ reply' = <<>> /\ stream' = stream
      BY <1>1, <1>2, <1>7
    <2> QED BY <1>2, <1>4, <2>2, <2>3, <2>4, <2>5, <2>6 DEF StreamHolds
  <1> QED BY <1>1, <1>6, <1>7

\* In a recording no message asks for a text yet.
LEMMA NoFlush ==
  ASSUME SttTypes, StreamHolds, phase = "recording"
  PROVE  reply = <<>> /\ \A j \in DOMAIN toStream : ~IsFlush(toStream[j])
  <1>1. Len(heard) \in Nat /\ toStream \in Seq(Message) /\ Len(toStream) \in Nat /\ begin \in Nat
    BY DEF SttTypes, StreamHolds
  <1>2. Done = Len(heard) - Len(toStream)
    BY DEF Done, LastSent
  <1>3. reply = <<>>
    BY <1>1, <1>2 DEF StreamHolds
  <1>4. ASSUME NEW j \in DOMAIN toStream PROVE ~IsFlush(toStream[j])
    <2>1. j \in 1 .. Len(toStream)
      BY <1>1
    <2> DEFINE p == Done + j
    <2>2. p \in Int /\ p <= Len(heard)
      BY <1>1, <1>2, <2>1
    <2>3. MessageAt(toStream[j], p, begin, epoch, heard)
      BY DEF StreamHolds
    <2> HIDE DEF p
    <2>4. p < begin - 1 \/ p = begin - 1 \/ p \in begin .. Len(heard)
      BY <1>1, <2>2
    <2> QED BY <2>3, <2>4 DEF MessageAt, IsFlush
  <1> QED BY <1>3, <1>4

LEMMA CancelStream ==
  ASSUME SttTypes, StreamHolds, "offline" \notin has, CancelRecording
  PROVE  StreamHolds'
  <1> DEFINE m == [kind |-> "End", flush |-> FALSE]
             q == Len(toStream)
  <1>1. /\ phase = "recording" /\ phase' = "idle" /\ toStream' = toStream \o <<m>>
        /\ UNCHANGED <<stream, reply>>
    BY DEF CancelRecording, EndStream, ToStream, SttTypes
  <1>2. /\ toStream \in Seq(Message) /\ q \in Nat /\ stream \in [id : Nat, words : Seq(Int)]
    BY DEF StreamHolds
  <1>3. m \in Message /\ ~IsFlush(m)
    BY DEF Message, IsFlush
  <1>4. /\ toStream' \in Seq(Message) /\ Len(toStream') = q + 1 /\ toStream'[q + 1] = m
        /\ \A j \in 1 .. q : toStream'[j] = toStream[j]
        /\ \A j \in DOMAIN toStream' : j \in 1 .. q \/ j = q + 1
    BY <1>1, <1>2, <1>3, Sent
  <1>5. reply = <<>> /\ \A j \in 1 .. q : ~IsFlush(toStream[j])
    BY <1>1, <1>2, NoFlush
  <1> HIDE DEF m, q
  <1>6. \A j \in DOMAIN toStream' : ~IsFlush(toStream'[j])
    BY <1>3, <1>4, <1>5
  <1> QED BY <1>1, <1>2, <1>4, <1>5, <1>6 DEF StreamHolds

LEMMA FinishStream ==
  ASSUME SttTypes, StreamHolds, "offline" \notin has, FinishRecording
  PROVE  StreamHolds'
  <1> DEFINE n == Len(heard) + 1
             m == [kind |-> "End", flush |-> TRUE]
             q == Len(toStream)
  <1>1. /\ phase = "recording" /\ phase' = "committing" /\ toStream' = toStream \o <<m>>
        /\ UNCHANGED <<heard, begin, epoch, stream, live, reply>>
    BY DEF FinishRecording, EndStream, ToStream, SttTypes
  <1>2. /\ heard \in Seq(BOOLEAN) /\ Len(heard) \in Nat /\ begin \in Nat \ {0}
        /\ toStream \in Seq(Message) /\ q \in Nat /\ n \in Nat /\ begin <= n
        /\ stream \in [id : Nat, words : Seq(Int)]
    BY <1>1 DEF SttTypes, StreamHolds
  <1>3. m \in Message /\ IsFlush(m)
    BY DEF Message, IsFlush
  <1>4. /\ toStream' \in Seq(Message) /\ Len(toStream') = q + 1 /\ toStream'[q + 1] = m
        /\ \A j \in 1 .. q : toStream'[j] = toStream[j]
        /\ \A j \in DOMAIN toStream' : j \in 1 .. q \/ j = q + 1
    BY <1>1, <1>2, <1>3, Sent
  <1> HIDE DEF m
  <1>5. Done = Len(heard) - q /\ Done' = Done /\ Done <= Len(heard) /\ Done \in Int /\ Len(heard) = n - 1
    BY <1>1, <1>2, <1>4 DEF Done, LastSent
  <1>6. \A j \in 1 .. q : MessageAt(toStream[j], Done + j, begin, epoch, heard)
    BY <1>1, <1>2 DEF StreamHolds
  <1> HIDE DEF n, q
  <1>7. ASSUME NEW j \in DOMAIN toStream' PROVE MessageAt(toStream'[j], Done + j, begin, epoch, heard)
    <2>1. CASE j = q + 1
      <3>1. Done + j = n /\ n \notin begin .. Len(heard) /\ ~(n < begin - 1) /\ n # begin - 1
        BY <1>2, <1>5, <2>1
      <3>2. MessageAt(m, n, begin, epoch, heard)
        BY <1>2, <1>3, <1>5, <3>1 DEF MessageAt
      <3> QED BY <1>4, <2>1, <3>1, <3>2
    <2>2. CASE j \in 1 .. q
      BY <1>4, <1>6, <2>2
    <2> QED BY <1>4, <2>1, <2>2
  <1>8. Done # Len(heard) + 1
    BY <1>2, <1>5
  <1>9. /\ phase' # "idle" /\ heard' = heard /\ begin' = begin /\ epoch' = epoch /\ stream' = stream
        /\ live' = live /\ reply' = reply
    BY <1>1
  <1> QED BY <1>1, <1>2, <1>4, <1>5, <1>7, <1>8, <1>9 DEF StreamHolds

\* The worker takes a message.
LEMMA StreamNextHolds ==
  ASSUME SttTypes, StreamHolds, StreamNext
  PROVE  StreamHolds'
  <1> DEFINE m == Head(toStream)
             q == Len(toStream)
             n == Len(heard) + 1
  <1>1. /\ toStream # <<>> /\ toStream' = Tail(toStream)
        /\ UNCHANGED <<heard, begin, phase, epoch>>
    BY DEF StreamNext, Worker, sessionVars
  <1>2. /\ heard \in Seq(BOOLEAN) /\ Len(heard) \in Nat /\ begin \in Nat \ {0} /\ epoch \in Nat
        /\ toStream \in Seq(Message) /\ q \in Nat /\ n \in Nat
        /\ stream \in [id : Nat, words : Seq(Int)]
    BY DEF SttTypes, StreamHolds
  <1>3. /\ m \in Message /\ m = toStream[1] /\ q >= 1 /\ toStream' \in Seq(Message)
        /\ Len(toStream') = q - 1 /\ \A j \in DOMAIN toStream' : j + 1 \in DOMAIN toStream /\ toStream'[j] = toStream[j + 1]
        /\ 1 \in DOMAIN toStream
    BY <1>1, <1>2
  <1>4. \/ /\ m.kind = "Begin" /\ live' = m.id
           /\ stream' = [id |-> m.id, words |-> <<>>] /\ reply' = reply
        \/ /\ m.kind = "Audio" /\ live' = live /\ reply' = reply
           /\ stream' = IF stream # NoStream /\ epoch = live /\ m.word
                        THEN [stream EXCEPT !.words = Append(@, m.at)] ELSE stream
        \/ /\ m.kind = "End" /\ stream' = NoStream /\ live' = live
           /\ reply' = IF m.flush THEN <<stream.words>> ELSE reply
    BY DEF StreamNext
  <1> HIDE DEF m
  <1>5. stream' \in [id : Nat, words : Seq(Int)]
    <2>1. CASE m.kind = "Begin"
      <3>1. m.id \in Nat /\ stream' = [id |-> m.id, words |-> <<>>]
        BY <1>3, <1>4, <2>1 DEF Message
      <3> QED BY <3>1
    <2>2. CASE m.kind = "Audio"
      <3>1. m.at \in Nat
        BY <1>3, <2>2 DEF Message
      <3>2. Append(stream.words, m.at) \in Seq(Int)
        BY <1>2, <3>1
      <3>3. [stream EXCEPT !.words = Append(@, m.at)] \in [id : Nat, words : Seq(Int)]
        BY <1>2, <3>2
      <3> QED BY <1>2, <1>4, <2>2, <3>3
    <2>3. CASE m.kind = "End"
      <3>1. NoStream = [id |-> 0, words |-> <<>>] /\ <<>> \in Seq(Int)
        BY DEF NoStream
      <3>2. stream' = NoStream
        BY <1>4, <2>3
      <3> QED BY <3>1, <3>2
    <2> QED BY <1>4, <2>1, <2>2, <2>3
  <1>6. ~IsFlush(m) => reply' = reply
    BY <1>4 DEF IsFlush
  <1> HIDE DEF q
  <1>7. CASE phase = "idle"
    <2>1. reply = <<>> /\ \A j \in DOMAIN toStream : ~IsFlush(toStream[j])
      BY <1>7 DEF StreamHolds
    <2>2. reply' = <<>> /\ \A j \in DOMAIN toStream' : ~IsFlush(toStream'[j])
      BY <1>3, <1>6, <2>1
    <2> QED BY <1>1, <1>3, <1>5, <1>7, <2>2 DEF StreamHolds
  <1>8. CASE phase # "idle"
    <2> DEFINE p == Done + 1
    <2>1. Done = LastSent - q /\ LastSent \in {n - 1, n} /\ Len(heard) = n - 1 /\ LastSent' = LastSent
      BY <1>1, <1>2 DEF Done, LastSent, q
    <2>2. Done \in Int /\ p <= n /\ Done' = p /\ p \in Int /\ Done = p - 1 /\ Done <= Len(heard)
      <3>1. Done' = LastSent' - (q - 1)
        BY <1>3 DEF Done
      <3>2. LastSent \in Int /\ LastSent <= n /\ q \in Int /\ q >= 1
        <4>1. LastSent = n - 1 \/ LastSent = n
          BY <2>1
        <4> HIDE DEF LastSent
        <4> QED BY <1>2, <1>3, <4>1
      <3> DEFINE d == Done
                 e == LastSent
      <3>3. d = e - q /\ Done' = e - (q - 1) /\ e \in Int /\ e <= n /\ Len(heard) = n - 1
        BY <2>1, <3>1, <3>2
      <3> HIDE DEF d, e, n
      <3>4. d \in Int /\ d + 1 <= n /\ Done' = d + 1 /\ d <= Len(heard) /\ d = (d + 1) - 1 /\ d + 1 \in Int
        BY <1>2, <3>2, <3>3
      <3> QED BY <3>4 DEF d
    <2>3. /\ begin <= n /\ epoch # 0 /\ reply = <<>>
          /\ \A j \in DOMAIN toStream : MessageAt(toStream[j], Done + j, begin, epoch, heard)
          /\ Done >= begin - 1 =>
               live = epoch /\ stream.id = epoch /\ Said(heard, stream.words, begin, Done)
      BY <1>2, <1>8, <2>2 DEF StreamHolds
    <2>4. MessageAt(m, p, begin, epoch, heard)
      BY <1>3, <2>3
    <2> HIDE DEF p, n
    <2>5. \A j \in DOMAIN toStream' : MessageAt(toStream'[j], p + j, begin, epoch, heard)
      <3> SUFFICES ASSUME NEW j \in DOMAIN toStream' PROVE MessageAt(toStream'[j], p + j, begin, epoch, heard)
        OBVIOUS
      <3>1. j + 1 \in DOMAIN toStream /\ toStream'[j] = toStream[j + 1] /\ j \in Int
        BY <1>3
      <3>2. Done + (j + 1) = p + j
        BY <2>2, <3>1
      <3> QED BY <2>3, <3>1, <3>2
    <2>6. /\ p >= begin - 1 /\ p <= Len(heard) =>
               live' = epoch /\ stream'.id = epoch /\ Said(heard, stream'.words, begin, p)
          /\ p <= Len(heard) => reply' = <<>>
          /\ p = Len(heard) + 1 => reply' # <<>> /\ Said(heard, Head(reply'), begin, Len(heard))
      <3>1. CASE p < begin - 1
        <4>1. ~IsFlush(m)
          BY <2>4, <3>1 DEF MessageAt
        <4> QED BY <1>2, <1>6, <2>1, <2>2, <2>3, <3>1, <4>1
      <3>2. CASE p = begin - 1
        <4>1. m.kind = "Begin" /\ m.id = epoch
          BY <2>4, <3>2 DEF MessageAt
        <4>2. live' = epoch /\ stream' = [id |-> epoch, words |-> <<>>] /\ reply' = <<>>
          BY <1>4, <2>3, <4>1
        <4>3. Said(heard, <<>>, begin, p)
          <5>1. WordsOf(heard, begin, p) = {}
            BY <1>2, <3>2 DEF WordsOf
          <5> QED BY <5>1 DEF Said
        <4>4. stream'.words = <<>> /\ stream'.id = epoch /\ p # Len(heard) + 1
          BY <1>2, <2>1, <2>3, <3>2, <4>2
        <4> QED BY <4>2, <4>3, <4>4
      <3>3. CASE p \in begin .. Len(heard)
        <4>1. m.kind = "Audio" /\ m.at = p /\ m.word = heard[p]
          BY <2>4, <3>3 DEF MessageAt
        <4>2. live = epoch /\ stream.id = epoch /\ Said(heard, stream.words, begin, p - 1)
          BY <1>2, <2>2, <2>3, <3>3
        <4>3. stream # NoStream
          BY <2>3, <4>2 DEF NoStream
        <4>4. stream' = IF heard[p] THEN [stream EXCEPT !.words = Append(@, p)] ELSE stream
          BY <1>4, <4>1, <4>2, <4>3
        <4>5. stream'.id = epoch /\ stream'.words = IF heard[p] THEN Append(stream.words, p) ELSE stream.words
          BY <1>2, <4>2, <4>4
        <4>6. Said(heard, IF heard[p] THEN Append(stream.words, p) ELSE stream.words, begin, p)
          BY <1>2, <3>3, <4>2, SaidMore
        <4>7. live' = live /\ reply' = reply /\ p # Len(heard) + 1
          BY <1>2, <1>4, <3>3, <4>1
        <4> QED BY <2>3, <4>2, <4>5, <4>6, <4>7
      <3>4. CASE p = Len(heard) + 1
        <4>1. m.kind = "End" /\ m.flush
          BY <2>4, <3>4 DEF MessageAt, IsFlush
        <4>2. reply' = <<stream.words>>
          BY <1>4, <4>1
        <4>3. Said(heard, stream.words, begin, Len(heard))
          BY <1>2, <2>1, <2>2, <2>3, <3>4
        <4> QED BY <1>2, <3>4, <4>2, <4>3
      <3> QED BY <1>2, <2>1, <2>2, <3>1, <3>2, <3>3, <3>4
    <2>7. begin <= Len(heard) + 1
      BY <1>2, <2>1, <2>3
    <2> HIDE DEF Done
    <2> QED BY <1>1, <1>3, <1>5, <1>8, <2>2, <2>3, <2>5, <2>6, <2>7 DEF StreamHolds
  <1> QED BY <1>7, <1>8

LEMMA CommitHoldsNext ==
  ASSUME SttInv, Commit
  PROVE  CommitHolds' /\ ("offline" \notin has => StreamHolds')
  <1>1. /\ phase = "committing" /\ phase' = "idle" /\ begin \in Nat \ {0} /\ heard \in Seq(BOOLEAN) /\ Len(heard) \in Nat
        /\ UNCHANGED <<heard, toStream, stream>>
    BY DEF Commit, SttInv, SttTypes
  <1>2. CASE "offline" \in has
    <2> DEFINE parts == [i \in DOMAIN pending |-> Words(pending[i].lo, pending[i].hi)]
    <2>1. text' = [parts |-> parts, from |-> begin, to |-> Len(heard)]
      BY <1>2 DEF Commit
    <2>2. Cover(heard, pending, begin, Len(heard))
      BY <1>1, <1>2 DEF SttInv, PendingHolds
    <2>3. /\ \A i \in DOMAIN parts : parts[i] \subseteq Words(begin, Len(heard))
          /\ \A v \in Words(begin, Len(heard)) : \E i \in DOMAIN parts : v \in parts[i]
          /\ \A i, j \in DOMAIN parts : i < j => \A v \in parts[i], w \in parts[j] : v < w
      BY <2>2 DEF Cover, Words, WordsOf
    <2> HIDE DEF parts
    <2>4. UNION ToSet(parts) = Words(begin, Len(heard))
      BY <2>3 DEF ToSet
    <2>5. text'.parts = parts /\ text'.from = begin /\ text'.to = Len(heard)
      BY <2>1
    <2>6. CommitIsWhole'
      BY <1>1, <2>3, <2>4, <2>5 DEF CommitIsWhole, Words
    <2> QED BY <1>1, <1>2, <2>5, <2>6 DEF CommitHolds
  <1>3. CASE "offline" \notin has
    <2> DEFINE w == Head(reply)
               parts == [i \in DOMAIN w |-> {w[i]}]
    <2>1. /\ text' = [parts |-> parts, from |-> begin, to |-> Len(heard)] /\ reply # <<>> /\ reply' = <<>>
      BY <1>3 DEF Commit
    <2>2. StreamHolds
      BY <1>3 DEF SttInv
    <2>3. toStream \in Seq(Message) /\ Len(toStream) \in Nat /\ stream \in [id : Nat, words : Seq(Int)]
      BY <2>2 DEF StreamHolds
    <2>4. Done = (Len(heard) + 1) - Len(toStream)
      BY <1>1 DEF Done, LastSent
    <2>5. ~(Done <= Len(heard))
      BY <1>1, <2>1, <2>2 DEF StreamHolds
    <2>6. Done = Len(heard) + 1 /\ Len(toStream) = 0
      BY <1>1, <2>3, <2>4, <2>5
    <2>7. Said(heard, w, begin, Len(heard))
      BY <1>1, <2>2, <2>6 DEF StreamHolds
    <2> HIDE DEF w
    <2>8. /\ \A i \in DOMAIN parts : parts[i] \subseteq Words(begin, Len(heard))
          /\ \A v \in Words(begin, Len(heard)) : \E i \in DOMAIN parts : v \in parts[i]
          /\ \A i, j \in DOMAIN parts : i < j => \A v \in parts[i], x \in parts[j] : v < x
      BY <2>7 DEF Said, Words, WordsOf
    <2> HIDE DEF parts
    <2>9. UNION ToSet(parts) = Words(begin, Len(heard))
      BY <2>8 DEF ToSet
    <2>10. text'.parts = parts /\ text'.from = begin /\ text'.to = Len(heard)
      BY <2>1
    <2>11. CommitIsWhole'
      BY <1>1, <2>8, <2>9, <2>10 DEF CommitIsWhole, Words
    <2>12. CommitHolds'
      BY <1>1, <2>10, <2>11 DEF CommitHolds
    <2>13. StreamHolds'
      <3>1. toStream' \in Seq(Message) /\ \A j \in DOMAIN toStream' : ~IsFlush(toStream'[j])
        BY <1>1, <2>3, <2>6
      <3> QED BY <1>1, <2>1, <2>3, <3>1 DEF StreamHolds
    <2> QED BY <2>12, <2>13
  <1> QED BY <1>2, <1>3

-----------------------------------------------------------------------------
(* The recording's other steps *)

LEMMA BeginSession ==
  ASSUME SttTypes, PendingHolds, BeginRecording
  PROVE  SttTypes' /\ SegmenterHolds' /\ PendingHolds'
  <1> DEFINE n == Len(heard) + 1
  <1>1. /\ phase = "idle" /\ phase' \in {"recording", "idle"} /\ begin' = n /\ bufStart' = n
        /\ speech' = {} /\ epoch' = epoch + 1 /\ seg' = NewSegmenter(n)
        /\ UNCHANGED <<has, heard, pending>>
    BY DEF BeginRecording, offlineVars
  <1>2. /\ heard \in Seq(BOOLEAN) /\ Len(heard) \in Nat /\ epoch \in Nat /\ pending = <<>>
        /\ n \in Nat \ {0} /\ Len(heard) = n - 1
    BY <1>1 DEF SttTypes, PendingHolds
  <1> HIDE DEF n
  <1>3. /\ seg' \in [silence : Nat, since : BOOLEAN, cut : BOOLEAN, backstopped : BOOLEAN]
        /\ seg'.silence = n /\ seg'.since = FALSE
    BY <1>1, <1>2 DEF NewSegmenter
  <1>4. SttTypes'
    BY <1>1, <1>2, <1>3 DEF SttTypes
  <1>5. n .. n - 1 = {}
    BY <1>2
  <1>6. SegmenterHolds'
    BY <1>1, <1>2, <1>3, <1>5 DEF SegmenterHolds, Words
  <1>7. Cover(heard, <<>>, n, n - 1)
    BY <1>5 DEF Cover, WordsOf
  <1>8. PendingHolds'
    BY <1>1, <1>2, <1>7 DEF PendingHolds
  <1> QED BY <1>4, <1>6, <1>8

LEMMA CancelSession ==
  ASSUME SttTypes, CancelRecording
  PROVE  SttTypes' /\ SegmenterHolds' /\ PendingHolds'
  <1>1. /\ phase' = "idle" /\ pending' = <<>> /\ epoch' = epoch + 1
        /\ UNCHANGED <<has, heard, begin, seg, bufStart>>
    BY DEF CancelRecording, EndStream
  <1>2. SttTypes'
    BY <1>1 DEF SttTypes
  <1> QED BY <1>1, <1>2 DEF SegmenterHolds, PendingHolds

LEMMA FinishSession ==
  ASSUME SttTypes, SegmenterHolds, PendingHolds, FinishRecording
  PROVE  SttTypes' /\ SegmenterHolds' /\ PendingHolds'
  <1> DEFINE x == Trim(bufStart, Len(heard), speech)
             tail == seg.since /\ bufStart <= Len(heard)
  <1>1. /\ phase = "recording" /\ phase' = "committing" /\ epoch' \in {epoch, epoch + 1}
        /\ tail => Decode(x)
        /\ ~tail => pending' = pending
        /\ UNCHANGED <<has, heard, begin, seg, bufStart>>
    BY DEF FinishRecording, EndStream
  <1>2. /\ heard \in Seq(BOOLEAN) /\ Len(heard) \in Nat /\ begin \in Nat \ {0} /\ bufStart \in Nat
        /\ pending \in Seq(Segment) /\ epoch \in Nat
    BY DEF SttTypes
  <1>3. /\ begin <= bufStart /\ bufStart <= Len(heard) + 1
        /\ speech = Words(bufStart, Len(heard)) /\ seg.since = (speech # {})
    BY <1>1 DEF SegmenterHolds
  <1>4. x \in Segment /\ x.lo >= bufStart /\ x.hi <= Len(heard) /\ Words(x.lo, x.hi) = speech
    BY <1>2, <1>3, TrimHolds
  <1>5. ~tail => WordsOf(heard, bufStart, Len(heard)) = {}
    BY <1>2, <1>3 DEF Words, WordsOf
  <1>6. pending' \in {pending, Append(pending, x)} /\ ("offline" \in has /\ tail => pending' = Append(pending, x))
        /\ (~tail => pending' = pending)
    BY <1>1 DEF Decode
  <1> HIDE DEF x, tail
  <1>7. Append(pending, x) \in Seq(Segment)
    BY <1>2, <1>4
  <1>8. SttTypes'
    <2>1. pending' \in Seq(Segment) /\ epoch' \in Nat
      <3>1. epoch' \in Nat
        BY <1>1, <1>2
      <3>2. pending' \in Seq(Segment)
        BY <1>2, <1>6, <1>7
      <3> QED BY <3>1, <3>2
    <2> QED BY <1>1, <2>1 DEF SttTypes
  <1>9. \A i \in DOMAIN pending' : pending'[i].lo >= 1 /\ pending'[i].hi <= Len(heard)
    <2>1. \A i \in DOMAIN pending : pending[i].lo >= 1 /\ pending[i].hi <= Len(heard)
      BY DEF PendingHolds
    <2>2. x.lo >= 1 /\ x.hi <= Len(heard)
      BY <1>2, <1>3, <1>4 DEF Segment
    <2>3. \A i \in DOMAIN Append(pending, x) : Append(pending, x)[i] = x \/
            (i \in DOMAIN pending /\ Append(pending, x)[i] = pending[i])
      BY <1>2, <1>4
    <2>4. CASE pending' = pending
      BY <2>1, <2>4
    <2>5. CASE pending' = Append(pending, x)
      BY <2>1, <2>2, <2>3, <2>5
    <2> QED BY <1>6, <2>4, <2>5
  <1>10. "offline" \in has => Cover(heard, pending', begin, Len(heard))
    <2> SUFFICES ASSUME "offline" \in has PROVE Cover(heard, pending', begin, Len(heard))
      OBVIOUS
    <2>1. Cover(heard, pending, begin, bufStart - 1)
      BY <1>1 DEF PendingHolds
    <2>2. begin \in Int /\ bufStart \in Int /\ Len(heard) \in Int /\ bufStart - 1 <= Len(heard)
      BY <1>2, <1>3
    <2>3. CASE ~tail
      <3>1. Cover(heard, pending, begin, Len(heard))
        BY <1>5, <2>1, <2>2, <2>3, CoverSilence
      <3> QED BY <1>6, <2>3, <3>1
    <2>4. CASE tail
      <3>1. WordsOf(heard, x.lo, x.hi) = WordsOf(heard, bufStart, Len(heard))
        BY <1>3, <1>4 DEF Words, WordsOf
      <3>2. Cover(heard, Append(pending, x), begin, Len(heard))
        BY <1>2, <1>3, <1>4, <2>1, <2>2, <3>1, CoverMore
      <3> QED BY <1>6, <2>4, <3>2
    <2> QED BY <2>3, <2>4
  <1>11. PendingHolds' /\ SegmenterHolds'
    BY <1>1, <1>9, <1>10 DEF PendingHolds, SegmenterHolds
  <1> QED BY <1>8, <1>11

LEMMA TranscribeStep == SttInv /\ [TranscribeNext]_sttVars => SttInv'
  <1> SUFFICES ASSUME SttInv, [TranscribeNext]_sttVars PROVE SttInv'
    OBVIOUS
  <1>1. SttTypes /\ SegmenterHolds /\ PendingHolds /\ CommitHolds /\ ("offline" \notin has => StreamHolds)
    BY DEF SttInv
  <1>2. CASE BeginRecording
    <2>1. text' = text /\ heard' = heard /\ has' = has
      BY <1>2 DEF BeginRecording
    <2> QED BY <1>1, <1>2, <2>1, BeginSession, BeginStream, CommitStays DEF SttInv
  <1>3. ASSUME NEW is \in BOOLEAN, Hears(is) PROVE SttInv'
    <2>1. text' = text /\ heard' = Append(heard, is) /\ has' = has
      BY <1>3 DEF Hears
    <2>2. CommitHolds'
      BY <1>1, <2>1, CommitStays
    <2> QED BY <1>1, <1>3, <2>1, <2>2, HearsSession, HearsStream DEF SttInv
  <1>4. CASE CancelRecording
    <2>1. text' = text /\ heard' = heard /\ has' = has
      BY <1>4 DEF CancelRecording
    <2> QED BY <1>1, <1>4, <2>1, CancelSession, CancelStream, CommitStays DEF SttInv
  <1>5. CASE FinishRecording
    <2>1. text' = text /\ heard' = heard /\ has' = has
      BY <1>5 DEF FinishRecording
    <2> QED BY <1>1, <1>5, <2>1, FinishSession, FinishStream, CommitStays DEF SttInv
  <1>6. CASE Commit
    <2>1. /\ phase' = "idle" /\ pending' = <<>>
          /\ UNCHANGED <<has, heard, begin, seg, bufStart, speech, epoch>>
      BY <1>6 DEF Commit
    <2>2. SttTypes' /\ SegmenterHolds' /\ PendingHolds'
      BY <1>1, <2>1 DEF SttTypes, SegmenterHolds, PendingHolds
    <2> QED BY <1>6, <2>1, <2>2, CommitHoldsNext DEF SttInv
  <1>7. CASE DecodeNext \/ StreamNext \/ UNCHANGED sttVars
    <2>1. UNCHANGED <<has, heard, begin, phase, seg, bufStart, speech, pending, text, epoch>>
      BY <1>7 DEF DecodeNext, StreamNext, Worker, sessionVars, sttVars
    <2>2. SttTypes' /\ SegmenterHolds' /\ CommitHolds'
      BY <1>1, <2>1 DEF SttTypes, SegmenterHolds, CommitHolds, CommitIsWhole, Words
    <2>3. PendingHolds'
      BY <1>1, <2>1 DEF PendingHolds
    <2>4. "offline" \notin has => StreamHolds'
      <3>1. CASE StreamNext
        BY <1>1, <3>1, StreamNextHolds
      <3>2. CASE DecodeNext \/ UNCHANGED sttVars
        <4>1. UNCHANGED <<toStream, stream, live, reply>>
          BY <3>2 DEF DecodeNext, sttVars
        <4> QED BY <1>1, <2>1, <4>1 DEF StreamHolds, Done, LastSent
      <3> QED BY <1>7, <3>1, <3>2
    <2> QED BY <2>1, <2>2, <2>3, <2>4 DEF SttInv
  <1> QED BY <1>2, <1>3, <1>4, <1>5, <1>6, <1>7 DEF TranscribeNext

-----------------------------------------------------------------------------
(* From the ring to the text *)

HeardInv == CaptureInv /\ SttInv

LEMMA HeardInitial == Init => HeardInv
  BY CaptureInitial, TranscribeInitial DEF Init, HeardInv

LEMMA HeardStep == HeardInv /\ [Next]_vars => HeardInv'
  <1> SUFFICES ASSUME HeardInv, [Next]_vars PROVE HeardInv'
    OBVIOUS
  <1>1. [CaptureNext]_captureVars
    <2>1. CASE CaptureNext
      BY <2>1
    <2>2. CASE UNCHANGED captureVars
      BY <2>2
    <2> QED BY <2>1, <2>2 DEF Next, vars
  <1>2. [TranscribeNext]_sttVars
    <2>1. CASE TranscribeNext
      BY <2>1
    <2>2. CASE UNCHANGED sttVars
      BY <2>2
    <2> QED BY <2>1, <2>2 DEF Next, vars
  <1> QED BY <1>1, <1>2, CaptureStep, TranscribeStep DEF HeardInv

\* What the watcher copies out of the ring is what was captured, a stretch of speech
\* is checked once, and a commit is every word that was said, once and in order
\* (ring.rs read, wake.rs push, segment.rs push, session.rs finish, engine.rs
\* stream_loop).
THEOREM NothingHeardIsLost == Spec => []HeardIsWhole
  <1>1. HeardInv => HeardIsWhole
    BY DEF HeardInv, CaptureInv, SttInv, CommitHolds, HeardIsWhole
  <1> QED BY <1>1, HeardInitial, HeardStep, PTL DEF Spec
=============================================================================
