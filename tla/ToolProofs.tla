----------------------------- MODULE ToolProofs -----------------------------
(***************************************************************************)
(* Theorems about the tool loop and the native tools, and the settings     *)
(* that tools and commands save: what a lookup reports is new enough       *)
(* (Lookups), "play" undoes "pause" (Media), an edit of the settings is    *)
(* atomic (Settings), the conversation of the tool loop is one a provider  *)
(* accepts (ToolLoop), and what the web and terminal tools answer is what  *)
(* was read and done (Pages, Terminal), for any number of calls, players,  *)
(* fields, files, rounds, turns, hops and tokens.                          *)
(***************************************************************************)
EXTENDS Lookups, Media, Settings, ToolLoop, Answers, Induction, FiniteSetTheorems, SequenceTheorems, TLAPS

-----------------------------------------------------------------------------
(* The lookups *)

Version == 1..MaxVersion
CopyRecord == [version : {NoVersion} \cup Version, until : Nat]
CallRecord == [at : {"free", "place", "slot", "asked", "fetch", "sent", "answered"},
               todo : SUBSET Subject, of : Subject \cup {NoVersion}, since : Nat,
               sent : {NoVersion} \cup Version, reply : CopyRecord]

LookupsTypes ==
  /\ now \in 1..MaxTime /\ last \in Nat
  /\ version \in [Subject -> Version]
  /\ replaced \in [Subject -> [Version -> Nat]]
  /\ copy \in [Subject -> CopyRecord]
  /\ call \in [Caller -> CallRecord]

\* Versions are replaced one after the other, and the last one never.
InTurn ==
  \A s \in Subject : \A v \in Version :
    /\ v < version[s] => replaced[s][v] <= now
    /\ v >= version[s] => replaced[s][v] = Never
    /\ \A u \in Version : u < v => replaced[s][u] <= replaced[s][v]

\* A copy is good no longer than the property allows, and for most of a lease
\* after the version before it was replaced.
CopyIsGood(s) ==
  /\ copy[s].version = NoVersion => copy[s].until = 0
  /\ copy[s].version # NoVersion =>
       /\ copy[s].version <= version[s]
       /\ copy[s].until <= now + Lease
       /\ copy[s].until <= replaced[s][copy[s].version] + Lease + Timeout
       /\ \A u \in Version : u < copy[s].version => replaced[s][u] + Lease <= copy[s].until + Timeout

\* The copy of s was the newest at time t or after.
NewSince(s, t) ==
  /\ copy[s].version # NoVersion
  /\ t <= replaced[s][copy[s].version]

\* A request that is on its way, and its answer: where that is or will be "not
\* modified", whatever copy there is now was the newest after the request.
OnItsWay(x) ==
  x.at \in {"sent", "answered"} =>
    /\ x.of \in Subject /\ x.sent <= version[x.of]
    /\ x.since <= now /\ now <= x.since + Timeout
    /\ \A u \in Version : u < x.sent => replaced[x.of][u] + Lease <= x.since + Timeout
    /\ x.at = "sent" /\ x.sent = version[x.of] => NewSince(x.of, x.since)
    /\ x.at = "answered" =>
         /\ x.since + Lease <= x.reply.until /\ x.reply.until <= now + Lease
         /\ x.reply.version = NoVersion =>
              /\ x.sent # NoVersion /\ x.since <= replaced[x.of][x.sent]
              /\ NewSince(x.of, x.since)
         /\ x.reply.version # NoVersion =>
              /\ x.reply.version <= version[x.of]
              /\ x.since <= replaced[x.of][x.reply.version]
              /\ \A u \in Version : u < x.reply.version => replaced[x.of][u] + Lease <= x.reply.until

NewsInv ==
  /\ LookupsTypes /\ InTurn /\ NewsIsNew
  /\ \A s \in Subject : CopyIsGood(s)
  /\ \A c \in Caller : OnItsWay(call[c])

LEMMA Bounds ==
  /\ Lease \in Nat /\ Timeout \in Nat /\ Gap \in Nat /\ MaxTime \in Nat /\ MaxVersion \in Nat
  /\ 0 < Timeout /\ 0 < MaxVersion /\ 0 < MaxTime /\ Timeout + Timeout < Lease
  /\ 1 \in Version /\ NoVersion \notin Version /\ Never \in Nat /\ MaxTime + Lease + Timeout < Never
  BY LookupsAssumption DEF LookupsAssumption, Version, NoVersion, Never

LEMMA FreeIs ==
  /\ NoCall \in CallRecord /\ NoCall.at = "free" /\ NoCopy \in CopyRecord
  /\ NoCopy.version = NoVersion /\ NoCopy.until = 0
  /\ NoCall = [at |-> "free", todo |-> {}, of |-> NoVersion, since |-> 0, sent |-> NoVersion,
               reply |-> NoCopy]
  BY DEF NoCall, NoCopy, CallRecord, CopyRecord

LEMMA LookupsInitial == LookupsInit => NewsInv
  <1> SUFFICES ASSUME LookupsInit PROVE NewsInv
    OBVIOUS
  <1>1. /\ now = 1 /\ last = 0 /\ version = [s \in Subject |-> 1]
        /\ replaced = [s \in Subject |-> [v \in Version |-> Never]]
        /\ copy = [s \in Subject |-> NoCopy] /\ call = [c \in Caller |-> NoCall] /\ ~old
    BY DEF LookupsInit, Version, NoVersion
  <1>2. LookupsTypes
    BY <1>1, Bounds, FreeIs DEF LookupsTypes
  <1>3. InTurn
    BY <1>1, Bounds DEF InTurn, Version
  <1>4. \A s \in Subject : CopyIsGood(s)
    BY <1>1, FreeIs DEF CopyIsGood
  <1>5. \A c \in Caller : OnItsWay(call[c])
    BY <1>1, FreeIs DEF OnItsWay
  <1> QED
    BY <1>1, <1>2, <1>3, <1>4, <1>5 DEF NewsInv, NewsIsNew

\* Call c becomes x, the others stay.
Becomes(c, x) ==
  /\ call' \in [Caller -> CallRecord]
  /\ call'[c] = x
  /\ \A d \in Caller : d # c => call'[d] = call[d]

LEMMA CallBecomes ==
  ASSUME LookupsTypes, NEW c \in Caller, NEW x \in CallRecord, call' = [call EXCEPT ![c] = x]
  PROVE  Becomes(c, x)
  BY DEF LookupsTypes, Becomes

\* A call that goes to another step with another time, or none.
LEMMA CallGoes ==
  ASSUME LookupsTypes, NEW c \in Caller, NEW at \in {"slot", "asked", "fetch"}, NEW t \in Nat,
         \/ call' = [call EXCEPT ![c].at = at]
         \/ call' = [call EXCEPT ![c].at = at, ![c].since = t]
  PROVE  call' \in [Caller -> CallRecord] /\ call'[c].at = at
         /\ \A d \in Caller : d # c => call'[d] = call[d]
  <1>0. call[c] \in CallRecord
    BY DEF LookupsTypes
  <1> DEFINE a == [call[c] EXCEPT !.at = at]
             b == [a EXCEPT !.since = t]
  <1>1. call' = [call EXCEPT ![c] = a] \/ call' = [call EXCEPT ![c] = b]
    BY DEF LookupsTypes
  <1>2. a \in CallRecord /\ a.at = at
    BY <1>0 DEF CallRecord
  <1> HIDE DEF a
  <1>3. b \in CallRecord /\ b.at = at
    BY <1>2 DEF CallRecord
  <1> HIDE DEF b
  <1> QED
    BY <1>1, <1>2, <1>3 DEF LookupsTypes

\* The next subject of a call, or its end.
LEMMA NextIs ==
  ASSUME LookupsTypes, NEW c \in Caller, NEW s
  PROVE  Next1(c, s) \in CallRecord /\ Next1(c, s).at \in {"free", "fetch"}
  <1>0. call[c].todo \subseteq Subject
    BY DEF LookupsTypes, CallRecord
  <1> DEFINE a == [NoCall EXCEPT !.at = "fetch"]
             b == [a EXCEPT !.todo = call[c].todo \ {s}]
  <1>1. a \in CallRecord /\ a.at = "fetch"
    BY FreeIs DEF CallRecord
  <1>2. Next1(c, s) = IF call[c].todo = {s} THEN NoCall ELSE b
    BY DEF Next1
  <1> HIDE DEF a
  <1>3. b \in CallRecord /\ b.at = "fetch"
    BY <1>0, <1>1 DEF CallRecord
  <1> HIDE DEF b
  <1> QED
    BY <1>2, <1>3, FreeIs

\* A step of one call that asks no source and stores nothing.
LEMMA QuietLookup ==
  ASSUME NewsInv, NEW c \in Caller, call' \in [Caller -> CallRecord],
         call'[c].at \notin {"sent", "answered"}, \A d \in Caller : d # c => call'[d] = call[d],
         UNCHANGED <<now, version, replaced, copy>>, last' \in Nat, ~old'
  PROVE  NewsInv'
  <1>1. LookupsTypes' /\ InTurn' /\ NewsIsNew'
    BY DEF NewsInv, LookupsTypes, InTurn, NewsIsNew
  <1>2. \A s \in Subject : CopyIsGood(s)'
    BY DEF NewsInv, CopyIsGood
  <1>3. ASSUME NEW d \in Caller PROVE OnItsWay(call[d])'
    <2>1. CASE d = c
      BY <2>1 DEF OnItsWay
    <2>2. CASE d # c
      <3>1. OnItsWay(call[d]) /\ call'[d] = call[d]
        BY <2>2 DEF NewsInv
      <3> QED
        BY <3>1 DEF OnItsWay, NewSince
    <2> QED
      BY <2>1, <2>2
  <1> QED
    BY <1>1, <1>2, <1>3 DEF NewsInv

LEMMA QuietSteps ==
  ASSUME NewsInv, NEW c \in Caller,
         AskWeather(c) \/ Reserve(c) \/ AskPlace(c) \/ PlaceAnswers(c) \/ AskNews(c) \/ FetchFails(c)
  PROVE  NewsInv'
  <1>0. LookupsTypes /\ ~old
    BY DEF NewsInv, NewsIsNew
  <1>1. UNCHANGED <<now, version, replaced, copy>> /\ ~old'
    <2>1. UNCHANGED <<now, version, replaced, copy, old>>
      BY DEF AskWeather, Reserve, AskPlace, PlaceAnswers, AskNews, FetchFails
    <2> QED
      BY <1>0, <2>1
  <1>2. ASSUME NEW x \in CallRecord, x.at \notin {"sent", "answered"}, last' = last,
               call' = [call EXCEPT ![c] = x]
        PROVE  NewsInv'
    <2>1. Becomes(c, x)
      BY <1>0, <1>2, CallBecomes
    <2> QED
      BY <1>0, <1>1, <1>2, <2>1, QuietLookup DEF Becomes, LookupsTypes
  <1>3. CASE AskWeather(c) \/ AskNews(c)
    <2>1. PICK rest \in SUBSET Subject, at \in {"place", "fetch"} :
            \/ call' = [call EXCEPT ![c] = [NoCall EXCEPT !.todo = rest, !.at = at]]
            \/ call' = [call EXCEPT ![c] = [NoCall EXCEPT !.at = at, !.todo = rest]]
      <3>1. CASE AskWeather(c)
        <4>1. PICK f \in Forecast, named \in BOOLEAN :
                call' = [call EXCEPT ![c] = [NoCall EXCEPT !.todo = {f},
                                               !.at = IF named /\ f \notin places THEN "place" ELSE "fetch"]]
          BY <3>1 DEF AskWeather
        <4>2. {f} \in SUBSET Subject
          BY DEF Subject
        <4> QED
          BY <4>1, <4>2
      <3>2. CASE AskNews(c)
        <4>1. PICK feeds \in SUBSET NewsFeed :
                call' = [call EXCEPT ![c] = [NoCall EXCEPT !.at = "fetch", !.todo = feeds]]
          BY <3>2 DEF AskNews
        <4> QED
          BY <4>1 DEF Subject
      <3> QED
        BY <1>3, <3>1, <3>2
    <2> DEFINE a == [NoCall EXCEPT !.at = at]
               b == [a EXCEPT !.todo = rest]
               d == [NoCall EXCEPT !.todo = rest]
               e == [d EXCEPT !.at = at]
    <2>2. a \in CallRecord /\ a.at = at /\ d \in CallRecord
      BY FreeIs DEF CallRecord
    <2>3. call' = [call EXCEPT ![c] = b] \/ call' = [call EXCEPT ![c] = e]
      BY <2>1
    <2> HIDE DEF a, d
    <2>4. b \in CallRecord /\ b.at = at /\ e \in CallRecord /\ e.at = at
      BY <2>2 DEF CallRecord
    <2>5. last' = last
      BY <1>3 DEF AskWeather, AskNews
    <2> HIDE DEF b, e
    <2> QED
      BY <1>2, <2>3, <2>4, <2>5
  <1>4. CASE Reserve(c)
    <2>1. now + Wait \in Nat
      BY <1>0, Bounds DEF Wait, Monus, LookupsTypes
    <2>2. call' = [call EXCEPT ![c].at = "slot", ![c].since = now + Wait] /\ last' = now + Wait
      BY <1>4 DEF Reserve
    <2>3. /\ call' \in [Caller -> CallRecord] /\ call'[c].at = "slot"
          /\ \A d \in Caller : d # c => call'[d] = call[d]
      BY <1>0, <2>1, <2>2, CallGoes
    <2> QED
      BY <1>1, <2>1, <2>2, <2>3, QuietLookup
  <1>5. CASE AskPlace(c)
    <2>1. now \in Nat /\ call' = [call EXCEPT ![c].at = "asked", ![c].since = now] /\ last' = last
      BY <1>0, <1>5 DEF AskPlace, LookupsTypes
    <2>2. /\ call' \in [Caller -> CallRecord] /\ call'[c].at = "asked"
          /\ \A d \in Caller : d # c => call'[d] = call[d]
      BY <1>0, <2>1, CallGoes
    <2> QED
      BY <1>0, <1>1, <2>1, <2>2, QuietLookup DEF LookupsTypes
  <1>6. CASE PlaceAnswers(c)
    <2>1. /\ last' = last
          /\ call' = [call EXCEPT ![c].at = "fetch"] \/ call' = [call EXCEPT ![c] = NoCall]
      BY <1>6 DEF PlaceAnswers
    <2>2. CASE call' = [call EXCEPT ![c].at = "fetch"]
      <3>1. /\ call' \in [Caller -> CallRecord] /\ call'[c].at = "fetch"
            /\ \A d \in Caller : d # c => call'[d] = call[d]
        BY <1>0, <2>2, CallGoes
      <3> QED
        BY <1>0, <1>1, <2>1, <3>1, QuietLookup DEF LookupsTypes
    <2>3. CASE call' = [call EXCEPT ![c] = NoCall]
      BY <1>2, <2>1, <2>3, FreeIs
    <2> QED
      BY <2>1, <2>2, <2>3
  <1>7. CASE FetchFails(c)
    <2>1. last' = last /\ call' = [call EXCEPT ![c] = Next1(c, call[c].of)]
      BY <1>7 DEF FetchFails
    <2> DEFINE s == call[c].of
    <2>2. Next1(c, s) \in CallRecord /\ Next1(c, s).at \in {"free", "fetch"}
      BY <1>0, NextIs
    <2> QED
      BY <1>2, <2>1, <2>2
  <1> QED
    BY <1>3, <1>4, <1>5, <1>6, <1>7

\* A copy that is good is reported, or its source is asked.
LEMMA FetchKeeps ==
  ASSUME NewsInv, NEW c \in Caller, Fetch(c)
  PROVE  NewsInv'
  <1>0. /\ LookupsTypes /\ ~old /\ call[c].todo \subseteq Subject /\ now \in Nat /\ now <= MaxTime
        /\ UNCHANGED <<now, version, replaced, last>>
    BY Bounds DEF NewsInv, NewsIsNew, LookupsTypes, CallRecord, Fetch
  <1>1. PICK s \in call[c].todo :
          IF copy[s].until > now
          THEN /\ Tell(s, copy[s].version)
               /\ copy' = [copy EXCEPT ![s] = Kept(s, @)]
               /\ call' = [call EXCEPT ![c] = Next1(c, s)]
          ELSE /\ call' = [call EXCEPT ![c].at = "sent", ![c].of = s, ![c].since = now,
                                       ![c].sent = copy[s].version]
               /\ UNCHANGED <<old, copy>>
    BY DEF Fetch
  <1>2. /\ s \in Subject /\ copy[s] \in CopyRecord /\ CopyIsGood(s)
        /\ copy[s].until \in Nat /\ copy[s].version \in {NoVersion} \cup Version
    BY <1>0, <1>1 DEF NewsInv, LookupsTypes, CopyRecord
  <1>3. CASE copy[s].until > now
    <2>1. copy[s].version \in Version /\ replaced[s][copy[s].version] \in Nat
      BY <1>0, <1>2, <1>3 DEF CopyIsGood, LookupsTypes
    <2>2. ~old'
      <3>1. ~(replaced[s][copy[s].version] + Lease + Timeout < now)
        BY <1>0, <1>2, <1>3, <2>1, Bounds DEF CopyIsGood
      <3> QED
        BY <1>0, <1>1, <1>3, <3>1, Zenon DEF Tell
    <2>3. UNCHANGED copy
      BY <1>0, <1>1, <1>3 DEF Kept, LookupsTypes
    <2>4. call' = [call EXCEPT ![c] = Next1(c, s)]
      BY <1>1, <1>3
    <2>5. Next1(c, s) \in CallRecord /\ Next1(c, s).at \in {"free", "fetch"}
      BY <1>0, NextIs
    <2>6. Becomes(c, Next1(c, s))
      BY <1>0, <2>4, <2>5, CallBecomes
    <2> QED
      BY <1>0, <2>2, <2>3, <2>5, <2>6, QuietLookup DEF Becomes, LookupsTypes
  <1>4. CASE ~(copy[s].until > now)
    <2>1. UNCHANGED <<old, copy>>
      BY <1>1, <1>4
    <2>6. PICK x \in CallRecord :
            /\ Becomes(c, x)
            /\ x.at = "sent" /\ x.of = s /\ x.since = now /\ x.sent = copy[s].version
      <3> DEFINE x0 == [call[c] EXCEPT !.at = "sent"]
                 x1 == [x0 EXCEPT !.of = s]
                 x2 == [x1 EXCEPT !.since = now]
                 x == [x2 EXCEPT !.sent = copy[s].version]
      <3>1. call' = [call EXCEPT ![c] = x]
        BY <1>0, <1>1, <1>4 DEF LookupsTypes
      <3>2. x0 \in CallRecord /\ x0.at = "sent"
        BY <1>0 DEF LookupsTypes, CallRecord
      <3> HIDE DEF x0
      <3>3. x1 \in CallRecord /\ x1.at = "sent" /\ x1.of = s
        BY <1>2, <3>2 DEF CallRecord
      <3> HIDE DEF x1
      <3>4. x2 \in CallRecord /\ x2.at = "sent" /\ x2.of = s /\ x2.since = now
        BY <1>0, <3>3 DEF CallRecord
      <3> HIDE DEF x2
      <3>5. x \in CallRecord /\ x.at = "sent" /\ x.of = s /\ x.since = now /\ x.sent = copy[s].version
        BY <1>2, <3>4 DEF CallRecord
      <3> HIDE DEF x
      <3>6. Becomes(c, x)
        BY <1>0, <3>1, <3>5, CallBecomes
      <3> QED
        BY <3>5, <3>6
    <2>7. LookupsTypes' /\ InTurn' /\ NewsIsNew'
      BY <1>0, <2>1, <2>6 DEF NewsInv, LookupsTypes, InTurn, NewsIsNew, Becomes
    <2>8. \A r \in Subject : CopyIsGood(r)'
      BY <1>0, <2>1 DEF NewsInv, CopyIsGood
    <2>9. OnItsWay(x)'
      <3>1. version[s] \in Version /\ \A v \in Version : replaced[s][v] \in Nat
        BY <1>0, <1>2 DEF LookupsTypes
      <3>2. copy[s].version <= version[s]
        BY <1>2, <3>1, Bounds DEF CopyIsGood, NoVersion, Version
      <3>3. \A u \in Version : u < copy[s].version => replaced[s][u] + Lease <= now + Timeout
        BY <1>0, <1>2, <1>4, <3>1, Bounds DEF CopyIsGood, NoVersion, Version
      <3>4. copy[s].version = version[s] => NewSince(s, now)
        <4>1. replaced[s][version[s]] = Never
          BY <1>2, <3>1, Bounds DEF NewsInv, InTurn, Version
        <4> QED
          BY <1>0, <3>1, <4>1, Bounds DEF NewSince, Version, NoVersion
      <3> QED
        BY <1>0, <1>2, <2>1, <2>6, <3>2, <3>3, <3>4, Bounds DEF OnItsWay, NewSince
    <2>10. ASSUME NEW d \in Caller PROVE OnItsWay(call[d])'
      <3>1. CASE d = c
        BY <2>6, <2>9, <3>1 DEF Becomes
      <3>2. CASE d # c
        <4>1. OnItsWay(call[d]) /\ call'[d] = call[d]
          BY <2>6, <3>2 DEF NewsInv, Becomes
        <4> QED
          BY <1>0, <2>1, <4>1 DEF OnItsWay, NewSince
      <3> QED
        BY <3>1, <3>2
    <2> QED
      BY <2>7, <2>8, <2>10 DEF NewsInv
  <1> QED
    BY <1>3, <1>4

\* The source answers with what it publishes at that moment.
LEMMA AnswerKeeps ==
  ASSUME NewsInv, NEW c \in Caller, SourceAnswers(c)
  PROVE  NewsInv'
  <1>0. /\ LookupsTypes /\ call[c].at = "sent" /\ OnItsWay(call[c]) /\ now \in Nat /\ now <= MaxTime
        /\ UNCHANGED <<now, version, replaced, copy, last, old>>
    BY Bounds DEF NewsInv, LookupsTypes, SourceAnswers
  <1>1. PICK s \in Subject, since \in Nat, v \in {NoVersion} \cup Version :
          s = call[c].of /\ since = call[c].since /\ v = call[c].sent
    BY <1>0 DEF OnItsWay, LookupsTypes, CallRecord
  <1>2. version[s] \in Version /\ \A u \in Version : replaced[s][u] \in Nat
    BY <1>0 DEF LookupsTypes
  <1>3. PICK w \in {NoVersion} \cup Version : w = IF v = version[s] THEN NoVersion ELSE version[s]
    BY <1>2
  <1>4. PICK x \in CallRecord :
          /\ Becomes(c, x) /\ x.at = "answered" /\ x.of = s /\ x.since = since /\ x.sent = v
          /\ x.reply.version = w /\ x.reply.until = now + Lease
    <2> DEFINE reply == [version |-> w, until |-> now + Lease]
               x0 == [call[c] EXCEPT !.at = "answered"]
               x == [x0 EXCEPT !.reply = reply]
    <2>1. call' = [call EXCEPT ![c].at = "answered", ![c].reply = reply]
      BY <1>1, <1>3 DEF SourceAnswers
    <2>2. reply \in CopyRecord /\ reply.version = w /\ reply.until = now + Lease
      BY <1>0, Bounds DEF CopyRecord
    <2> HIDE DEF reply
    <2>3. call' = [call EXCEPT ![c] = x]
      BY <1>0, <2>1 DEF LookupsTypes
    <2>4. x0 \in CallRecord /\ x0.at = "answered" /\ x0.of = s /\ x0.since = since /\ x0.sent = v
      BY <1>0, <1>1 DEF LookupsTypes, CallRecord
    <2> HIDE DEF x0
    <2>5. x \in CallRecord /\ x.at = "answered" /\ x.of = s /\ x.since = since /\ x.sent = v
          /\ x.reply = reply
      BY <2>2, <2>4 DEF CallRecord
    <2> HIDE DEF x
    <2>6. Becomes(c, x)
      BY <1>0, <2>3, <2>5, CallBecomes
    <2> QED
      BY <2>2, <2>5, <2>6
  <1>5. LookupsTypes' /\ InTurn' /\ NewsIsNew'
    BY <1>0, <1>4 DEF NewsInv, LookupsTypes, InTurn, NewsIsNew, Becomes
  <1>6. \A r \in Subject : CopyIsGood(r)'
    BY <1>0 DEF NewsInv, CopyIsGood
  <1>7. OnItsWay(x)'
    <2>1. replaced[s][version[s]] = Never /\ \A u \in Version : u < version[s] => replaced[s][u] <= now
      BY <1>2, Bounds DEF NewsInv, InTurn, Version
    <2>2. /\ since <= now /\ now <= since + Timeout /\ v <= version[s]
          /\ \A u \in Version : u < v => replaced[s][u] + Lease <= since + Timeout
          /\ v = version[s] => NewSince(s, since)
      BY <1>0, <1>1 DEF OnItsWay
    <2>3. /\ w = NoVersion => v # NoVersion /\ since <= replaced[s][v] /\ NewSince(s, since)
          /\ w # NoVersion => w = version[s] /\ since <= replaced[s][w]
      BY <1>0, <1>2, <1>3, <2>1, <2>2, Bounds
    <2>4. w # NoVersion => \A u \in Version : u < w => replaced[s][u] + Lease <= now + Lease
      BY <1>0, <1>2, <2>1, <2>3, Bounds
    <2>5. w # NoVersion => w <= version[s]
      BY <1>2, <2>3 DEF Version
    <2>6. NewSince(s, since) => NewSince(s, since)'
      BY <1>0 DEF NewSince
    <2>7. since + Lease <= now + Lease /\ now + Lease <= now + Lease
      BY <1>0, <2>2, Bounds
    <2>8. /\ s \in Subject /\ v <= version'[s] /\ since <= now' /\ now' <= since + Timeout
          /\ \A u \in Version : u < v => replaced'[s][u] + Lease <= since + Timeout
          /\ since + Lease <= now + Lease /\ now + Lease <= now' + Lease
          /\ w = NoVersion => v # NoVersion /\ since <= replaced'[s][v] /\ NewSince(s, since)'
          /\ w # NoVersion =>
               /\ w <= version'[s] /\ since <= replaced'[s][w]
               /\ \A u \in Version : u < w => replaced'[s][u] + Lease <= now + Lease
      BY <1>0, <2>2, <2>3, <2>4, <2>5, <2>6, <2>7
    <2>9. /\ x.at = "answered" /\ x.of = s /\ x.since = since /\ x.sent = v
          /\ x.reply.version = w /\ x.reply.until = now + Lease
      BY <1>4
    <2> QED
      BY <2>8, <2>9 DEF OnItsWay
  <1>8. ASSUME NEW d \in Caller PROVE OnItsWay(call[d])'
    <2>1. CASE d = c
      BY <1>4, <1>7, <2>1 DEF Becomes
    <2>2. CASE d # c
      <3>1. OnItsWay(call[d]) /\ call'[d] = call[d]
        BY <1>4, <2>2 DEF NewsInv, Becomes
      <3> QED
        BY <1>0, <3>1 DEF OnItsWay, NewSince
    <2> QED
      BY <2>1, <2>2
  <1> QED
    BY <1>5, <1>6, <1>8 DEF NewsInv

\* The copy of s becomes e, which call c was told and which was the newest less
\* than Timeout ago.  What else is on its way still meets a copy that was the
\* newest after it was asked for: one older than the copy it asked about was
\* replaced a whole lease before.
LEMMA CopyBecomes ==
  ASSUME NewsInv, NEW c \in Caller, NEW s \in Subject, NEW e \in CopyRecord,
         copy' = [copy EXCEPT ![s] = e], UNCHANGED <<now, version, replaced, last>>, Tell(s, e.version),
         call' \in [Caller -> CallRecord], call'[c].at \notin {"sent", "answered"},
         \A d \in Caller : d # c => call'[d] = call[d],
         e.version # NoVersion, e.version <= version[s], e.until <= now + Lease,
         now <= replaced[s][e.version] + Timeout,
         \A u \in Version : u < e.version => replaced[s][u] + Lease <= e.until + Timeout
  PROVE  NewsInv'
  <1>0. /\ LookupsTypes /\ ~old /\ now \in Nat /\ now <= MaxTime /\ version[s] \in Version
        /\ \A u \in Version : replaced[s][u] \in Nat
        /\ e.version \in Version /\ e.until \in Nat
    BY Bounds DEF NewsInv, NewsIsNew, LookupsTypes, CopyRecord
  <1>1. copy'[s] = e /\ \A r \in Subject : r # s => copy'[r] = copy[r]
    BY <1>0 DEF LookupsTypes
  <1>2. LookupsTypes' /\ InTurn'
    BY <1>0 DEF NewsInv, LookupsTypes, InTurn
  <1>3. NewsIsNew'
    <2>1. ~(replaced[s][e.version] + Lease + Timeout < now)
      BY <1>0, Bounds
    <2>2. ~old'
      BY <1>0, <2>1, Zenon DEF Tell
    <2> QED
      BY <2>2 DEF NewsIsNew
  <1>4. ASSUME NEW r \in Subject PROVE CopyIsGood(r)'
    <2>1. CASE r = s
      BY <1>0, <1>1, <2>1, Bounds DEF CopyIsGood
    <2>2. CASE r # s
      BY <1>1, <2>2 DEF NewsInv, CopyIsGood
    <2> QED
      BY <2>1, <2>2
  <1>5. ASSUME NEW d \in Caller PROVE OnItsWay(call[d])'
    <2>1. CASE d = c
      BY <2>1 DEF OnItsWay
    <2>2. CASE d # c /\ call[d].at \notin {"sent", "answered"}
      BY <2>2 DEF OnItsWay
    <2>3. CASE d # c /\ call[d].at \in {"sent", "answered"}
      <3>1. OnItsWay(call[d]) /\ call'[d] = call[d] /\ call[d] \in CallRecord
        BY <1>0, <2>3 DEF NewsInv, LookupsTypes
      <3>2. PICK x \in CallRecord : x = call[d]
        BY <3>1
      <3>3. /\ OnItsWay(x) /\ x.at \in {"sent", "answered"} /\ x.of \in Subject
            /\ x.since \in Nat /\ x.sent \in {NoVersion} \cup Version
            /\ x.sent <= version[x.of] /\ x.since <= now
            /\ \A u \in Version : u < x.sent => replaced[x.of][u] + Lease <= x.since + Timeout
        BY <2>3, <3>1, <3>2 DEF OnItsWay, CallRecord
      <3>4. CASE x.of # s
        BY <1>1, <2>3, <3>1, <3>2, <3>3, <3>4 DEF OnItsWay, NewSince
      <3>5. CASE x.of = s
        <4>1. x.sent <= e.version
          <5>1. ~(e.version < x.sent)
            BY <1>0, <3>3, <3>5, Bounds
          <5> QED
            BY <1>0, <3>3, <5>1, Bounds DEF Version, NoVersion
        <4>2. x.at = "sent" /\ x.sent = version[s] => x.since <= replaced[s][e.version]
          <5>1. version[s] <= e.version => replaced[s][e.version] = Never
            BY <1>0 DEF NewsInv, InTurn
          <5> QED
            BY <1>0, <3>3, <4>1, <5>1, Bounds
        <4>3. x.at = "answered" /\ x.reply.version = NoVersion => x.since <= replaced[s][e.version]
          <5> SUFFICES ASSUME x.at = "answered", x.reply.version = NoVersion
                       PROVE  x.since <= replaced[s][e.version]
            OBVIOUS
          <5>1. x.sent \in Version /\ x.since <= replaced[s][x.sent]
            BY <3>3, <3>5 DEF OnItsWay
          <5>2. x.sent = e.version \/ replaced[s][x.sent] <= replaced[s][e.version]
            <6>1. x.sent < e.version => replaced[s][x.sent] <= replaced[s][e.version]
              BY <1>0, <5>1 DEF NewsInv, InTurn
            <6> QED
              BY <1>0, <4>1, <5>1, <6>1 DEF Version
          <5> QED
            BY <1>0, <3>3, <5>1, <5>2
        <4>4. x.since <= replaced[s][e.version] => NewSince(s, x.since)'
          BY <1>0, <1>1 DEF NewSince
        <4>5. call'[d] = x
          BY <3>1, <3>2
        <4> QED
          BY <3>3, <3>5, <4>2, <4>3, <4>4, <4>5 DEF OnItsWay
      <3> QED
        BY <3>4, <3>5
    <2> QED
      BY <2>1, <2>2, <2>3
  <1> QED
    BY <1>2, <1>3, <1>4, <1>5 DEF NewsInv

LEMMA AnswerIsStored ==
  ASSUME NewsInv, NEW c \in Caller, NotModified(c) \/ Modified(c)
  PROVE  NewsInv'
  <1>0. /\ LookupsTypes /\ call[c].at = "answered" /\ OnItsWay(call[c]) /\ now \in Nat
        /\ UNCHANGED <<now, version, replaced, last>>
    BY Bounds DEF NewsInv, LookupsTypes, NotModified, Modified
  <1>1. PICK x \in CallRecord : x = call[c]
    BY <1>0 DEF LookupsTypes
  <1>2. PICK s \in Subject : s = x.of
    BY <1>0, <1>1 DEF OnItsWay
  <1>3. /\ x.since \in Nat /\ x.reply.until \in Nat /\ x.reply.version \in {NoVersion} \cup Version
        /\ OnItsWay(x) /\ x.at = "answered"
    BY <1>0, <1>1 DEF CallRecord, CopyRecord
  <1>4. /\ x.since <= now /\ now <= x.since + Timeout
        /\ x.since + Lease <= x.reply.until /\ x.reply.until <= now + Lease
    BY <1>3 DEF OnItsWay
  <1>5. PICK g \in Nat : g = Good(s, x.reply) /\ x.reply.until <= g /\ g <= now + Lease
    BY <1>0, <1>3, <1>4, Bounds DEF Good
  <1>6. /\ copy[s].version \in {NoVersion} \cup Version /\ version[s] \in Version
        /\ \A u \in Version : replaced[s][u] \in Nat /\ (u < version[s] => replaced[s][u] <= now)
    BY <1>0 DEF NewsInv, LookupsTypes, CopyRecord, InTurn
  <1>7. PICK e \in CopyRecord :
          /\ copy' = [copy EXCEPT ![s] = e] /\ Tell(s, e.version) /\ e.until = g
          /\ call' = [call EXCEPT ![c] = Next1(c, s)]
          /\ IF x.reply.version = NoVersion THEN e.version = copy[s].version
             ELSE e.version = x.reply.version
    <2>1. CASE NotModified(c)
      <3> DEFINE e == [copy[s] EXCEPT !.until = g]
      <3>1. e \in CopyRecord /\ e.version = copy[s].version /\ e.until = g
        BY <1>0 DEF LookupsTypes, CopyRecord
      <3>2. /\ copy' = [copy EXCEPT ![s].until = g] /\ Tell(s, copy[s].version)
            /\ call' = [call EXCEPT ![c] = Next1(c, s)] /\ x.reply.version = NoVersion
        BY <1>1, <1>2, <1>5, <2>1 DEF NotModified
      <3>3. copy' = [copy EXCEPT ![s] = e]
        BY <1>0, <3>2 DEF LookupsTypes
      <3> HIDE DEF e
      <3> QED
        BY <3>1, <3>2, <3>3
    <2>2. CASE Modified(c)
      <3> DEFINE e == [version |-> x.reply.version, until |-> g]
      <3>1. /\ copy' = [copy EXCEPT ![s] = e] /\ Tell(s, x.reply.version)
            /\ call' = [call EXCEPT ![c] = Next1(c, s)] /\ x.reply.version # NoVersion
        BY <1>1, <1>2, <1>5, <2>2 DEF Modified
      <3>2. e \in CopyRecord /\ e.version = x.reply.version /\ e.until = g
        BY <1>3, <1>5 DEF CopyRecord
      <3> HIDE DEF e
      <3> QED
        BY <3>1, <3>2
    <2> QED
      BY <2>1, <2>2
  <1>8. /\ e.version \in Version /\ e.version # NoVersion /\ e.version <= version[s]
        /\ x.since <= replaced[s][e.version]
        /\ \A u \in Version : u < e.version => replaced[s][u] + Lease <= e.until + Timeout
    <2>1. CASE x.reply.version = NoVersion
      <3>1. NewSince(s, x.since) /\ e.version = copy[s].version
        BY <1>2, <1>3, <1>7, <2>1 DEF OnItsWay
      <3>2. e.version \in Version /\ e.version # NoVersion /\ e.version <= version[s]
            /\ x.since <= replaced[s][e.version]
        BY <1>6, <3>1, Bounds DEF NewSince, NewsInv, CopyIsGood
      <3>3. \A u \in Version : u < e.version => u < version[s]
        BY <1>6, <3>2 DEF Version
      <3>4. now + Lease <= e.until + Timeout
        BY <1>0, <1>3, <1>4, <1>5, <1>7, Bounds
      <3>5. \A u \in Version : u < e.version => replaced[s][u] + Lease <= e.until + Timeout
        BY <1>0, <1>5, <1>6, <1>7, <3>3, <3>4, Bounds
      <3> QED
        BY <3>2, <3>5
    <2>2. CASE x.reply.version # NoVersion
      <3>1. /\ e.version = x.reply.version /\ e.version \in Version /\ e.version <= version[s]
            /\ x.since <= replaced[s][e.version]
            /\ \A u \in Version : u < e.version => replaced[s][u] + Lease <= x.reply.until
        BY <1>2, <1>3, <1>7, <2>2 DEF OnItsWay
      <3>2. \A u \in Version : u < e.version => replaced[s][u] + Lease <= e.until + Timeout
        BY <1>3, <1>5, <1>6, <1>7, <3>1, Bounds
      <3> QED
        BY <2>2, <3>1, <3>2
    <2> QED
      BY <2>1, <2>2
  <1>9. now <= replaced[s][e.version] + Timeout
    BY <1>0, <1>3, <1>4, <1>6, <1>8, Bounds
  <1>10. /\ call' \in [Caller -> CallRecord] /\ call'[c].at \notin {"sent", "answered"}
         /\ \A d \in Caller : d # c => call'[d] = call[d]
    <2>1. Next1(c, s) \in CallRecord /\ Next1(c, s).at \in {"free", "fetch"}
      BY <1>0, NextIs
    <2> QED
      BY <1>0, <1>7, <2>1, CallBecomes DEF Becomes
  <1> QED
    BY <1>0, <1>5, <1>7, <1>8, <1>9, <1>10, CopyBecomes

LEMMA PublishKeeps ==
  ASSUME NewsInv, NEW s \in Subject, Publish(s)
  PROVE  NewsInv'
  <1>0. /\ LookupsTypes /\ now \in Nat /\ now <= MaxTime /\ UNCHANGED <<now, copy, call, last, old>>
        /\ \A r \in Subject : version[r] \in Version /\ \A u \in Version : replaced[r][u] \in Nat
    BY Bounds DEF NewsInv, LookupsTypes, Publish
  <1>1. PICK v \in Version : v = version[s]
    BY <1>0
  <1>2. /\ v + 1 \in Version /\ version' = [version EXCEPT ![s] = v + 1]
        /\ replaced' = [replaced EXCEPT ![s][v] = now]
    BY <1>0, <1>1, Bounds DEF Publish, Version
  <1>3. /\ version'[s] = v + 1 /\ replaced'[s][v] = now
        /\ \A u \in Version : u # v => replaced'[s][u] = replaced[s][u]
        /\ \A r \in Subject : r # s => version'[r] = version[r] /\ replaced'[r] = replaced[r]
    BY <1>0, <1>2 DEF LookupsTypes
  <1>4. LookupsTypes'
    BY <1>0, <1>2 DEF LookupsTypes
  <1>5. replaced[s][v] = Never /\ \A u \in Version : u < v => replaced[s][u] <= now
    BY <1>0, <1>1 DEF NewsInv, InTurn, Version
  <1>6. InTurn'
    <2> SUFFICES ASSUME NEW r \in Subject, NEW u \in Version
                 PROVE  /\ u < version'[r] => replaced'[r][u] <= now
                        /\ u >= version'[r] => replaced'[r][u] = Never
                        /\ \A t \in Version : t < u => replaced'[r][t] <= replaced'[r][u]
      BY <1>0 DEF InTurn
    <2>1. CASE r # s
      BY <1>3, <2>1 DEF NewsInv, InTurn
    <2>2. CASE r = s
      <3>1. \A t \in Version : /\ t < v => replaced'[s][t] <= now
                               /\ t > v => replaced'[s][t] = Never
        BY <1>0, <1>1, <1>3, <1>5 DEF NewsInv, InTurn, Version
      <3>2. \A t \in Version : t < u => replaced'[s][t] <= replaced'[s][u]
        <4> SUFFICES ASSUME NEW t \in Version, t < u PROVE replaced'[s][t] <= replaced'[s][u]
          OBVIOUS
        <4>1. CASE u < v
          BY <1>3, <4>1 DEF NewsInv, InTurn, Version
        <4>2. CASE u = v
          BY <1>0, <1>3, <3>1, <4>2
        <4>3. CASE u > v
          <5>1. replaced'[s][u] = Never /\ now <= Never
            BY <1>0, <3>1, <4>3, Bounds
          <5>2. t < v \/ t = v \/ t > v
            BY DEF Version
          <5>3. replaced'[s][t] <= now \/ replaced'[s][t] = Never
            BY <1>0, <1>3, <3>1, <5>2
          <5>4. replaced'[s][t] \in Nat
            BY <1>4 DEF LookupsTypes
          <5> QED
            BY <1>0, <5>1, <5>3, <5>4, Bounds
        <4> QED
          BY <4>1, <4>2, <4>3 DEF Version
      <3> QED
        BY <1>0, <1>3, <2>2, <3>1, <3>2 DEF Version
    <2> QED
      BY <2>1, <2>2
  <1>7. ASSUME NEW r \in Subject PROVE CopyIsGood(r)'
    <2>1. CASE r # s
      BY <1>0, <1>3, <2>1 DEF NewsInv, CopyIsGood
    <2>2. CASE r = s
      <3>1. /\ CopyIsGood(s) /\ copy[s].version \in {NoVersion} \cup Version /\ copy[s].until \in Nat
        BY <1>0 DEF NewsInv, LookupsTypes, CopyRecord
      <3>2. CASE copy[s].version = NoVersion
        BY <1>0, <2>2, <3>1, <3>2 DEF CopyIsGood
      <3>3. CASE copy[s].version # NoVersion
        <4>1. copy[s].version <= v /\ copy[s].until <= now + Lease
              /\ copy[s].until <= replaced[s][copy[s].version] + Lease + Timeout
          BY <1>1, <3>1, <3>3 DEF CopyIsGood
        <4>2. copy[s].until <= replaced'[s][copy[s].version] + Lease + Timeout
          BY <1>0, <1>3, <3>1, <3>3, <4>1, Bounds
        <4>3. \A u \in Version : u < copy[s].version => replaced'[s][u] + Lease <= copy[s].until + Timeout
          <5>1. \A u \in Version : u < copy[s].version => u # v
            BY <3>1, <3>3, <4>1 DEF Version
          <5> QED
            BY <1>3, <3>1, <3>3, <5>1 DEF CopyIsGood
        <4>4. copy[s].version <= v + 1
          BY <3>1, <3>3, <4>1 DEF Version
        <4> QED
          BY <1>0, <1>3, <2>2, <3>3, <4>1, <4>2, <4>3, <4>4 DEF CopyIsGood
      <3> QED
        BY <3>2, <3>3
    <2> QED
      BY <2>1, <2>2
  <1>8. ASSUME NEW d \in Caller PROVE OnItsWay(call[d])'
    <2>1. PICK x \in CallRecord : x = call[d]
      BY <1>0 DEF LookupsTypes
    <2>2. OnItsWay(x) /\ call'[d] = x
      BY <1>0, <2>1 DEF NewsInv
    <2>3. CASE x.at \notin {"sent", "answered"} \/ x.of # s
      BY <1>0, <1>3, <2>2, <2>3 DEF OnItsWay, NewSince
    <2>4. CASE x.at \in {"sent", "answered"} /\ x.of = s
      <3>1. /\ x.since \in Nat /\ x.sent \in {NoVersion} \cup Version
            /\ x.reply.version \in {NoVersion} \cup Version
            /\ copy[s].version \in {NoVersion} \cup Version
        BY <1>0 DEF CallRecord, CopyRecord, LookupsTypes
      <3>2. x.sent <= v /\ x.since <= now
        BY <1>1, <2>2, <2>4 DEF OnItsWay
      <3>3. \A u \in Version : x.since <= replaced[s][u] => x.since <= replaced'[s][u]
        BY <1>0, <1>3, <3>1, <3>2
      <3>4. \A u \in Version : u < v => replaced'[s][u] = replaced[s][u]
        BY <1>3 DEF Version
      <3>5. \A u \in Version : u < x.sent => replaced'[s][u] + Lease <= x.since + Timeout
        <4>1. \A u \in Version : u < x.sent => u < v
          BY <3>1, <3>2, Bounds DEF Version, NoVersion
        <4> QED
          BY <2>2, <2>4, <3>4, <4>1 DEF OnItsWay
      <3>6. x.sent <= version'[s] /\ x.sent # version'[s]
        BY <1>3, <3>1, <3>2, Bounds DEF Version, NoVersion
      <3>7. NewSince(s, x.since) => NewSince(s, x.since)'
        BY <1>0, <3>1, <3>3 DEF NewSince
      <3>8. x.at = "answered" =>
              /\ x.since + Lease <= x.reply.until /\ x.reply.until <= now + Lease
              /\ x.reply.version = NoVersion =>
                   /\ x.sent # NoVersion /\ x.since <= replaced'[s][x.sent]
                   /\ NewSince(s, x.since)'
              /\ x.reply.version # NoVersion =>
                   /\ x.reply.version <= version'[s]
                   /\ x.since <= replaced'[s][x.reply.version]
                   /\ \A u \in Version : u < x.reply.version =>
                        replaced'[s][u] + Lease <= x.reply.until
        <4> SUFFICES ASSUME x.at = "answered"
                     PROVE  /\ x.since + Lease <= x.reply.until /\ x.reply.until <= now + Lease
                            /\ x.reply.version = NoVersion =>
                                 /\ x.sent # NoVersion /\ x.since <= replaced'[s][x.sent]
                                 /\ NewSince(s, x.since)'
                            /\ x.reply.version # NoVersion =>
                                 /\ x.reply.version <= version'[s]
                                 /\ x.since <= replaced'[s][x.reply.version]
                                 /\ \A u \in Version : u < x.reply.version =>
                                      replaced'[s][u] + Lease <= x.reply.until
          OBVIOUS
        <4>1. x.since + Lease <= x.reply.until /\ x.reply.until <= now + Lease
          BY <2>2 DEF OnItsWay
        <4>2. CASE x.reply.version = NoVersion
          BY <2>2, <2>4, <3>1, <3>3, <3>7, <4>1, <4>2 DEF OnItsWay
        <4>3. CASE x.reply.version # NoVersion
          <5>1. /\ x.reply.version \in Version /\ x.reply.version <= v
                /\ x.since <= replaced[s][x.reply.version]
                /\ \A u \in Version : u < x.reply.version => replaced[s][u] + Lease <= x.reply.until
            BY <1>1, <2>2, <2>4, <3>1, <4>3 DEF OnItsWay
          <5>2. \A u \in Version : u < x.reply.version => u < v
            BY <5>1 DEF Version
          <5>3. x.reply.version <= version'[s]
            BY <1>3, <5>1 DEF Version
          <5> QED
            BY <3>3, <3>4, <4>1, <4>3, <5>1, <5>2, <5>3
        <4> QED
          BY <4>2, <4>3
      <3>9. now <= x.since + Timeout
        BY <2>2, <2>4 DEF OnItsWay
      <3> QED
        BY <1>0, <2>2, <2>4, <3>2, <3>5, <3>6, <3>8, <3>9 DEF OnItsWay
    <2> QED
      BY <2>3, <2>4
  <1> QED
    BY <1>0, <1>4, <1>6, <1>7, <1>8 DEF NewsInv, NewsIsNew

\* Time does not pass a request by that is due.
LEMMA TickKeeps ==
  ASSUME NewsInv, Tick
  PROVE  NewsInv'
  <1>0. /\ LookupsTypes /\ now \in Nat /\ now < MaxTime /\ now' = now + 1
        /\ UNCHANGED <<version, replaced, copy, call, last, old>>
        /\ \A r \in Subject : version[r] \in Version /\ \A u \in Version : replaced[r][u] \in Nat
    BY Bounds DEF NewsInv, LookupsTypes, Tick
  <1>1. LookupsTypes'
    BY <1>0, Bounds DEF LookupsTypes
  <1>2. InTurn'
    BY <1>0 DEF NewsInv, InTurn
  <1>3. ASSUME NEW s \in Subject PROVE CopyIsGood(s)'
    <2>1. CopyIsGood(s) /\ copy[s].until \in Nat
      BY <1>0 DEF NewsInv, LookupsTypes, CopyRecord
    <2>2. copy[s].until <= now + Lease => copy[s].until <= now' + Lease
      BY <1>0, <2>1, Bounds
    <2> QED
      BY <1>0, <2>1, <2>2 DEF CopyIsGood
  <1>4. ASSUME NEW d \in Caller PROVE OnItsWay(call[d])'
    <2>1. PICK x \in CallRecord : x = call[d]
      BY <1>0 DEF LookupsTypes
    <2>2. /\ OnItsWay(x) /\ call'[d] = x /\ x.since \in Nat /\ x.reply.until \in Nat
      BY <1>0, <2>1 DEF NewsInv, CallRecord, CopyRecord
    <2>3. x.at \in {"sent", "answered"} => now' <= x.since + Timeout
      BY <1>0, <2>1, <2>2, Bounds DEF Tick
    <2>4. /\ x.since <= now => x.since <= now'
          /\ x.reply.until <= now + Lease => x.reply.until <= now' + Lease
      BY <1>0, <2>2, Bounds
    <2> QED
      BY <1>0, <2>2, <2>3, <2>4 DEF OnItsWay, NewSince
  <1> QED
    BY <1>0, <1>1, <1>2, <1>3, <1>4 DEF NewsInv, NewsIsNew

LEMMA LookupsStep == NewsInv /\ [LookupsNext]_lookupsVars => NewsInv'
  <1> SUFFICES ASSUME NewsInv, [LookupsNext]_lookupsVars PROVE NewsInv'
    OBVIOUS
  <1>1. ASSUME NEW c \in Caller, LookupSteps(c) PROVE NewsInv'
    BY <1>1, QuietSteps, FetchKeeps, AnswerKeeps, AnswerIsStored DEF LookupSteps
  <1>2. CASE Tick
    BY <1>2, TickKeeps
  <1>3. ASSUME NEW s \in Subject, Publish(s) PROVE NewsInv'
    BY <1>3, PublishKeeps
  <1>4. CASE UNCHANGED lookupsVars
    BY <1>4 DEF lookupsVars, NewsInv, LookupsTypes, InTurn, NewsIsNew, CopyIsGood, OnItsWay, NewSince
  <1> QED
    BY <1>1, <1>2, <1>3, <1>4 DEF LookupsNext

\* What a lookup reports was the newest not longer ago than a copy is good for
\* and a request takes, for any number of calls, places, feeds and versions,
\* however their requests overlap and in whatever order the answers are stored
\* (weather.rs forecast, news.rs fetch).
THEOREM LookupsAreNew == LookupsSpec => []NewsIsNew
  <1>1. NewsInv => NewsIsNew
    BY DEF NewsInv
  <1> QED
    BY <1>1, LookupsInitial, LookupsStep, PTL DEF LookupsSpec

-----------------------------------------------------------------------------
(* The media tool *)

Doing == [verb : Verb \cup {"none"}, at : {"free", "asking", "sending"}, names : SUBSET Player,
          list : [Player -> {"Playing", "Paused", "Stopped", "Gone"}], to : SUBSET Player]

MediaTypes ==
  /\ status \in [Player -> {"Playing", "Paused", "Stopped", "Gone"}]
  /\ paused \in SUBSET Player /\ silenced \in SUBSET Player
  /\ doing \in [Command -> Doing]
  /\ \A c \in Command : Busy(c) => doing[c].verb \in Verb

\* Where a "play" is between the list of players and its last player.
Resumes(x) ==
  /\ x.verb = "play"
  /\ x.at = "asking" =>
       \A p \in silenced : status[p] = "Paused" /\ (p \in x.names \/ x.list[p] = "Paused")
  /\ x.at = "sending" =>
       /\ \A p \in x.to : status[p] = "Paused"
       /\ silenced = x.to \cup {p \in silenced : status[p] = "Playing"}

\* While what was silenced waits to be resumed, it is what cosmo remembers, and
\* nothing but one "play" is under way.
Waits ==
  silenced # {} =>
    /\ silenced = paused
    /\ \A c \in Command : Busy(c) => Resumes(doing[c]) /\ \A d \in Command \ {c} : ~Busy(d)
    /\ (\A c \in Command : ~Busy(c)) => \A p \in silenced : status[p] = "Paused"

MediaInv == MediaTypes /\ Waits

LEMMA NoCommandIs ==
  NoCommand \in Doing /\ NoCommand.at = "free" /\ NoCommand.verb = "none"
  BY DEF NoCommand, Doing, NotListed

LEMMA MediaInitial == MediaInit => MediaInv
  BY NoCommandIs DEF MediaInit, MediaInv, MediaTypes, Waits, Busy

\* What one command does leaves the others alone.
LEMMA CommandBecomes ==
  ASSUME MediaTypes, NEW c \in Command, NEW x \in Doing, doing' = [doing EXCEPT ![c] = x]
  PROVE  /\ doing' \in [Command -> Doing] /\ doing'[c] = x
         /\ \A d \in Command : d # c => doing'[d] = doing[d] /\ (Busy(d)' <=> Busy(d))
  BY DEF MediaTypes, Busy

LEMMA ListKeeps ==
  ASSUME MediaInv, NEW c \in Command, List(c)
  PROVE  MediaInv'
  <1>1. PICK verb \in Verb :
          /\ doing' = [doing EXCEPT ![c] = [NoCommand EXCEPT !.verb = verb, !.at = "asking",
                                                             !.names = {p \in Player : status[p] # "Gone"}]]
          /\ silenced' = IF verb = "play" /\ \A d \in Command : ~Busy(d) THEN silenced ELSE {}
    BY DEF List
  <1>2. PICK x \in Doing : /\ doing' = [doing EXCEPT ![c] = x] /\ x.verb = verb /\ x.at = "asking"
                           /\ x.names = {p \in Player : status[p] # "Gone"}
    <2> DEFINE there == {p \in Player : status[p] # "Gone"}
               a == [NoCommand EXCEPT !.verb = verb]
               b == [a EXCEPT !.at = "asking"]
               x == [b EXCEPT !.names = there]
    <2> HIDE DEF there
    <2>1. a \in Doing /\ a.verb = verb
      BY NoCommandIs DEF Doing
    <2> HIDE DEF a
    <2>2. b \in Doing /\ b.verb = verb /\ b.at = "asking"
      BY <2>1 DEF Doing
    <2> HIDE DEF b
    <2>3. there \in SUBSET Player
      BY DEF there
    <2>4. x \in Doing /\ x.verb = verb /\ x.at = "asking" /\ x.names = there
      BY <2>2, <2>3 DEF Doing
    <2>5. doing' = [doing EXCEPT ![c] = x]
      BY <1>1 DEF a, b, there
    <2> QED
      BY <2>4, <2>5 DEF there
  <1>3. /\ doing' \in [Command -> Doing] /\ doing'[c] = x
        /\ \A d \in Command : d # c => doing'[d] = doing[d] /\ (Busy(d)' <=> Busy(d))
    BY <1>2, CommandBecomes DEF MediaInv
  <1>4. UNCHANGED <<status, paused>>
    BY DEF List
  <1>5. MediaTypes'
    BY <1>1, <1>2, <1>3, <1>4 DEF MediaInv, MediaTypes
  <1>6. ASSUME silenced' # {} PROVE Waits'
    <2>1. silenced' = silenced /\ verb = "play" /\ \A d \in Command : ~Busy(d)
      BY <1>1, <1>6
    <2>2. silenced = paused /\ \A p \in silenced : status[p] = "Paused"
      BY <1>6, <2>1 DEF MediaInv, Waits
    <2>3. \A p \in silenced : p \in x.names
      BY <1>2, <2>2 DEF MediaInv, MediaTypes
    <2>4. Resumes(x)'
      BY <1>2, <1>4, <2>1, <2>2, <2>3 DEF Resumes
    <2>5. Busy(c)'
      BY <1>2, <1>3 DEF Busy
    <2> QED
      BY <1>3, <1>4, <2>1, <2>2, <2>4, <2>5 DEF Waits
  <1> QED
    BY <1>5, <1>6 DEF MediaInv, Waits

LEMMA AskKeeps ==
  ASSUME MediaInv, NEW c \in Command, AskState(c)
  PROVE  MediaInv'
  <1>0. UNCHANGED <<status, paused, silenced>> /\ doing[c].at = "asking" /\ doing[c] \in Doing
    BY DEF AskState, MediaInv, MediaTypes
  <1>1. PICK p \in doing[c].names : doing' = [doing EXCEPT ![c].names = @ \ {p}, ![c].list[p] = status[p]]
    BY DEF AskState
  <1>2. PICK x \in Doing :
          /\ doing' = [doing EXCEPT ![c] = x] /\ x.verb = doing[c].verb /\ x.at = "asking"
          /\ x.names = doing[c].names \ {p}
          /\ x.list = [doing[c].list EXCEPT ![p] = status[p]]
    <2> DEFINE y == [doing[c] EXCEPT !.names = @ \ {p}]
               x == [y EXCEPT !.list[p] = status[p]]
    <2>1. y \in Doing /\ y.verb = doing[c].verb /\ y.at = "asking" /\ y.names = doing[c].names \ {p}
          /\ y.list = doing[c].list
      BY <1>0 DEF Doing
    <2>2. doing' = [doing EXCEPT ![c] = x]
      BY <1>0, <1>1 DEF MediaInv, MediaTypes
    <2> HIDE DEF y
    <2>3. [y.list EXCEPT ![p] = status[p]] \in [Player -> {"Playing", "Paused", "Stopped", "Gone"}]
      BY <1>0, <1>1, <2>1 DEF Doing, MediaInv, MediaTypes
    <2>4. x = [y EXCEPT !.list = [y.list EXCEPT ![p] = status[p]]]
      BY <2>1 DEF Doing
    <2>5. x \in Doing /\ x.verb = doing[c].verb /\ x.at = "asking" /\ x.names = doing[c].names \ {p}
          /\ x.list = [doing[c].list EXCEPT ![p] = status[p]]
      BY <2>1, <2>3, <2>4 DEF Doing
    <2> QED
      BY <2>2, <2>5
  <1>3. /\ doing' \in [Command -> Doing] /\ doing'[c] = x
        /\ \A d \in Command : d # c => doing'[d] = doing[d] /\ (Busy(d)' <=> Busy(d))
    BY <1>2, CommandBecomes DEF MediaInv
  <1>4. Busy(c) /\ Busy(c)'
    BY <1>0, <1>2, <1>3 DEF Busy
  <1>5. MediaTypes'
    BY <1>0, <1>2, <1>3, <1>4 DEF MediaInv, MediaTypes
  <1>6. ASSUME silenced # {} PROVE Waits'
    <2>1. silenced = paused /\ Resumes(doing[c]) /\ \A d \in Command \ {c} : ~Busy(d)
      BY <1>4, <1>6 DEF MediaInv, Waits
    <2>2. \A q \in silenced : status[q] = "Paused" /\ (q \in x.names \/ x.list[q] = "Paused")
      <3> SUFFICES ASSUME NEW q \in silenced PROVE status[q] = "Paused" /\ (q \in x.names \/ x.list[q] = "Paused")
        OBVIOUS
      <3>1. status[q] = "Paused" /\ (q \in doing[c].names \/ doing[c].list[q] = "Paused")
        BY <1>0, <2>1 DEF Resumes
      <3>2. q \in Player /\ doing[c].list \in [Player -> {"Playing", "Paused", "Stopped", "Gone"}]
        BY <1>0 DEF Doing, MediaInv, MediaTypes
      <3> QED
        BY <1>2, <3>1, <3>2
    <2>3. Resumes(x)'
      BY <1>0, <1>2, <2>1, <2>2 DEF Resumes
    <2> QED
      BY <1>0, <1>3, <1>4, <2>1, <2>3 DEF Waits
  <1> QED
    BY <1>0, <1>5, <1>6 DEF MediaInv, Waits

LEMMA ChooseKeeps ==
  ASSUME MediaInv, NEW c \in Command, Choose(c)
  PROVE  MediaInv'
  <1>0. /\ UNCHANGED <<status, paused, silenced>> /\ doing[c].at = "asking" /\ doing[c].names = {}
        /\ doing[c] \in Doing
    BY DEF Choose, MediaInv, MediaTypes
  <1>1. PICK to \in SUBSET Player :
          /\ to = Targets(doing[c].verb, doing[c].list)
          /\ doing' = [doing EXCEPT ![c] = IF to = {} THEN NoCommand ELSE [@ EXCEPT !.at = "sending", !.to = to]]
    <2>1. doing[c].verb \in Verb
      BY <1>0 DEF MediaInv, MediaTypes, Busy
    <2>2. Targets(doing[c].verb, doing[c].list) \in SUBSET Player
      BY <2>1 DEF Targets, Resume, Ours, FirstIn, FirstByName, In, Verb
    <2> QED
      BY <2>2 DEF Choose
  <1>2. PICK x \in Doing :
          /\ doing' = [doing EXCEPT ![c] = x]
          /\ to = {} => x = NoCommand
          /\ to # {} => x.verb = doing[c].verb /\ x.at = "sending" /\ x.to = to
    <2>1. CASE to = {}
      <3>1. doing' = [doing EXCEPT ![c] = NoCommand]
        BY <1>1, <2>1
      <3> QED
        BY <2>1, <3>1, NoCommandIs
    <2>2. CASE to # {}
      <3> DEFINE y == [doing[c] EXCEPT !.at = "sending"]
                 x == [y EXCEPT !.to = to]
      <3>1. y \in Doing /\ y.verb = doing[c].verb /\ y.at = "sending"
        BY <1>0 DEF Doing
      <3>2. doing' = [doing EXCEPT ![c] = x]
        BY <1>0, <1>1, <2>2 DEF MediaInv, MediaTypes
      <3> HIDE DEF y
      <3>3. x \in Doing /\ x.verb = doing[c].verb /\ x.at = "sending" /\ x.to = to
        BY <3>1 DEF Doing
      <3> QED
        BY <2>2, <3>2, <3>3
    <2> QED
      BY <2>1, <2>2
  <1>3. /\ doing' \in [Command -> Doing] /\ doing'[c] = x
        /\ \A d \in Command : d # c => doing'[d] = doing[d] /\ (Busy(d)' <=> Busy(d))
    BY <1>2, CommandBecomes DEF MediaInv
  <1>4. Busy(c)
    BY <1>0 DEF Busy
  <1>5. MediaTypes'
    BY <1>0, <1>2, <1>3, <1>4, NoCommandIs DEF MediaInv, MediaTypes, Busy
  <1>6. ASSUME silenced # {} PROVE Waits'
    <2>1. silenced = paused /\ Resumes(doing[c]) /\ \A d \in Command \ {c} : ~Busy(d)
      BY <1>4, <1>6 DEF MediaInv, Waits
    <2>2. doing[c].verb = "play" /\ \A p \in silenced : status[p] = "Paused" /\ doing[c].list[p] = "Paused"
      BY <1>0, <2>1 DEF Resumes
    <2>3. Ours(doing[c].list) = silenced
      BY <2>1, <2>2 DEF Ours, In, MediaInv, MediaTypes
    <2>4. to = silenced
      BY <1>1, <1>6, <2>2, <2>3 DEF Targets, Resume
    <2>5. /\ x.verb = "play" /\ x.at = "sending" /\ x.to = silenced /\ Busy(c)'
      BY <1>2, <1>3, <1>6, <2>2, <2>4 DEF Busy
    <2>6. Resumes(x)'
      BY <1>0, <2>2, <2>5 DEF Resumes
    <2> QED
      BY <1>0, <1>3, <2>1, <2>5, <2>6 DEF Waits
  <1> QED
    BY <1>0, <1>5, <1>6 DEF MediaInv, Waits

LEMMA SendKeeps ==
  ASSUME MediaInv, NEW c \in Command, SendTo(c)
  PROVE  MediaInv'
  <1>0. UNCHANGED <<paused, silenced>> /\ doing[c].at = "sending" /\ doing[c] \in Doing /\ Busy(c)
    BY DEF SendTo, MediaInv, MediaTypes, Busy
  <1>1. PICK p \in doing[c].to :
          IF status[p] = "Gone"
          THEN doing' = [doing EXCEPT ![c] = NoCommand] /\ UNCHANGED status
          ELSE /\ status' = [status EXCEPT ![p] = After(doing[c].verb, @)]
               /\ doing' = [doing EXCEPT ![c].to = @ \ {p}]
    BY DEF SendTo, FirstByName
  <1>2. p \in Player /\ doing[c].verb \in Verb
    BY <1>0 DEF Doing, MediaInv, MediaTypes
  <1>3. silenced # {} =>
          /\ silenced = paused /\ doing[c].verb = "play" /\ \A d \in Command \ {c} : ~Busy(d)
          /\ \A q \in doing[c].to : status[q] = "Paused"
          /\ silenced = doing[c].to \cup {q \in silenced : status[q] = "Playing"}
    BY <1>0 DEF MediaInv, Waits, Resumes
  <1>4. CASE status[p] = "Gone"
    <2>1. /\ doing' \in [Command -> Doing] /\ doing'[c] = NoCommand /\ UNCHANGED status
          /\ \A d \in Command : d # c => doing'[d] = doing[d] /\ (Busy(d)' <=> Busy(d))
      BY <1>1, <1>4, NoCommandIs, CommandBecomes DEF MediaInv
    <2>2. MediaTypes' /\ silenced = {}
      BY <1>0, <1>1, <1>3, <1>4, <2>1, NoCommandIs DEF MediaInv, MediaTypes, Busy
    <2> QED
      BY <1>0, <2>2 DEF MediaInv, Waits
  <1>5. CASE status[p] # "Gone"
    <2>1. PICK x \in Doing : /\ doing' = [doing EXCEPT ![c] = x] /\ x.verb = doing[c].verb
                             /\ x.at = "sending" /\ x.to = doing[c].to \ {p}
      <3> DEFINE x == [doing[c] EXCEPT !.to = @ \ {p}]
      <3>1. x \in Doing /\ x.verb = doing[c].verb /\ x.at = "sending" /\ x.to = doing[c].to \ {p}
        BY <1>0 DEF Doing
      <3>2. doing' = [doing EXCEPT ![c] = x]
        BY <1>1, <1>5 DEF MediaInv, MediaTypes
      <3> QED
        BY <3>1, <3>2
    <2>2. /\ doing' \in [Command -> Doing] /\ doing'[c] = x
          /\ \A d \in Command : d # c => doing'[d] = doing[d] /\ (Busy(d)' <=> Busy(d))
      BY <2>1, CommandBecomes DEF MediaInv
    <2>3. PICK s \in {"Playing", "Paused", "Stopped", "Gone"} :
            s = After(doing[c].verb, status[p]) /\ status' = [status EXCEPT ![p] = s]
      BY <1>1, <1>2, <1>5 DEF After, Verb, MediaInv, MediaTypes
    <2>4. MediaTypes'
      BY <1>0, <1>2, <2>1, <2>2, <2>3 DEF MediaInv, MediaTypes, Busy
    <2>5. ASSUME silenced # {} PROVE Waits'
      <3>1. s = "Playing"
        BY <1>3, <2>3, <2>5 DEF After
      <3>2. status'[p] = "Playing" /\ \A q \in Player : q # p => status'[q] = status[q]
        BY <1>2, <2>3, <3>1 DEF MediaInv, MediaTypes
      <3>3. silenced \subseteq Player /\ x.to \subseteq Player
        BY DEF Doing, MediaInv, MediaTypes
      <3>4. \A q \in x.to : status'[q] = "Paused"
        BY <1>3, <2>1, <2>5, <3>2, <3>3
      <3>5. silenced = x.to \cup {q \in silenced : status'[q] = "Playing"}
        BY <1>1, <1>3, <2>1, <2>5, <3>2, <3>3
      <3>6. Resumes(x)'
        BY <1>0, <1>3, <2>1, <2>5, <3>4, <3>5 DEF Resumes
      <3>7. Busy(c)'
        BY <2>1, <2>2 DEF Busy
      <3> QED
        BY <1>0, <1>3, <2>2, <2>5, <3>6, <3>7 DEF Waits
    <2> QED
      BY <1>0, <2>4, <2>5 DEF MediaInv, Waits
  <1> QED
    BY <1>4, <1>5

LEMMA DoneKeeps ==
  ASSUME MediaInv, NEW c \in Command, MediaDone(c)
  PROVE  MediaInv'
  <1>1. /\ doing' \in [Command -> Doing] /\ doing'[c] = NoCommand /\ UNCHANGED status
        /\ \A d \in Command : d # c => doing'[d] = doing[d] /\ (Busy(d)' <=> Busy(d))
    BY NoCommandIs, CommandBecomes DEF MediaDone, MediaInv
  <1>2. ~Busy(c)'
    BY <1>1, NoCommandIs DEF Busy
  <1>3. MediaTypes'
    BY <1>1, <1>2 DEF MediaInv, MediaTypes, MediaDone, In, Busy
  <1>4. ASSUME silenced' # {} PROVE Waits'
    <2>1. /\ silenced' = paused' /\ \A d \in Command \ {c} : ~Busy(d)
          /\ \A p \in silenced' : status[p] = "Paused"
      BY <1>4 DEF MediaDone
    <2> QED
      BY <1>1, <1>2, <2>1 DEF Waits
  <1> QED
    BY <1>3, <1>4 DEF MediaInv, Waits

LEMMA MediaStep == MediaInv /\ [MediaNext]_mediaVars => MediaInv'
  <1> SUFFICES ASSUME MediaInv, [MediaNext]_mediaVars PROVE MediaInv'
    OBVIOUS
  <1>1. ASSUME NEW c \in Command, List(c) \/ AskState(c) \/ Choose(c) \/ SendTo(c) \/ MediaDone(c)
        PROVE  MediaInv'
    BY <1>1, ListKeeps, AskKeeps, ChooseKeeps, SendKeeps, DoneKeeps
  <1>2. ASSUME NEW p \in Player, ByHand(p) PROVE MediaInv'
    BY <1>2 DEF ByHand, MediaInv, MediaTypes, Waits, Busy
  <1>3. CASE UNCHANGED mediaVars
    BY <1>3 DEF mediaVars, MediaInv, MediaTypes, Waits, Busy, Resumes
  <1> QED
    BY <1>1, <1>2, <1>3 DEF MediaNext

\* A "play" after a "pause", with nothing else done to a player in between,
\* resumes what was silenced and nothing else, for any number of players and of
\* commands, in whatever order they answer (media.rs control and targets).
THEOREM PauseIsUndone == MediaSpec => []PlayUndoesPause
  <1>1. MediaInv => PlayUndoesPause
    BY DEF MediaInv, Waits, Resumes, PlayUndoesPause, Busy
  <1> QED
    BY <1>1, MediaInitial, MediaStep, PTL DEF MediaSpec

-----------------------------------------------------------------------------
(* The settings *)

Line == [kind : {"active", "commented", "note", "open", "close"}, key : Key \cup {""},
         value : Value \cup {Invalid, Default, ""}]

\* A file that is whole, apart from its values.
Formed(s) == s \in Seq(Line) /\ Parses(s) /\ NotesKept(s)

LEMMA KindsAre == Note.kind = "note" /\ OpenParen.kind = "open" /\ CloseParen.kind = "close"
  BY DEF Note, OpenParen, CloseParen

LEMMA LeastIs ==
  ASSUME NEW S \in SUBSET Nat, S # {}
  PROVE  LeastOf(S) \in S /\ \A j \in S : LeastOf(S) <= j
  <1>1. \E x \in S : \A y \in S : x <= y
    BY LeastNumber
  <1> QED
    BY <1>1 DEF LeastOf

\* Where a line with a field is.
LEMMA FieldsAreInside ==
  ASSUME NEW s, Formed(s), NEW i \in DOMAIN s, s[i].kind \in {"active", "commented"}
  PROVE  i \in 3..Len(s) - 1 /\ DOMAIN s = 1..Len(s) /\ Len(s) \in Nat
  <1>1. DOMAIN s = 1..Len(s) /\ Len(s) \in Nat /\ Len(s) >= 4
    BY DEF Formed, NotesKept
  <1>2. i # 1 /\ i # 2 /\ i # Len(s)
    BY KindsAre DEF Formed, NotesKept
  <1> QED
    BY <1>1, <1>2

\* The line that sets a field is an active one, or a commented one when no
\* active one does.
LEMMA LineToSetIs ==
  ASSUME NEW s, Formed(s), NEW k \in Key
  PROVE  /\ LineToSet(s, k) = 0 => Lines(s, "active", k) = {}
         /\ LineToSet(s, k) # 0 =>
              /\ LineToSet(s, k) \in DOMAIN s
              /\ s[LineToSet(s, k)].kind \in {"active", "commented"} /\ s[LineToSet(s, k)].key = k
              /\ \A j \in Lines(s, "active", k) : j = LineToSet(s, k)
  <1>1. DOMAIN s = 1..Len(s) /\ Len(s) \in Nat
    BY DEF Formed
  <1>2. Lines(s, "active", k) \in SUBSET Nat /\ Lines(s, "commented", k) \in SUBSET Nat
    BY <1>1 DEF Lines
  <1>3. 0 \notin DOMAIN s
    BY <1>1
  <1>4. CASE Lines(s, "active", k) # {}
    <2>1. LineToSet(s, k) \in Lines(s, "active", k)
      BY <1>2, <1>4, LeastIs DEF LineToSet
    <2> QED
      BY <1>3, <1>4, <2>1 DEF Lines, Formed, Parses, EachOnce
  <1>5. CASE Lines(s, "active", k) = {} /\ Lines(s, "commented", k) # {}
    <2>1. LineToSet(s, k) \in Lines(s, "commented", k)
      BY <1>2, <1>5, LeastIs DEF LineToSet
    <2> QED
      BY <1>3, <1>5, <2>1 DEF Lines
  <1>6. CASE Lines(s, "active", k) = {} /\ Lines(s, "commented", k) = {}
    BY <1>6 DEF LineToSet
  <1> QED
    BY <1>4, <1>5, <1>6

LEMMA Joined ==
  ASSUME NEW a \in Seq(Line), NEW b \in Seq(Line)
  PROVE  /\ a \o b \in Seq(Line) /\ Len(a \o b) = Len(a) + Len(b)
         /\ DOMAIN (a \o b) = 1..Len(a) + Len(b)
         /\ \A i \in 1..Len(a) : (a \o b)[i] = a[i]
         /\ \A i \in 1..Len(b) : (a \o b)[Len(a) + i] = b[i]
  <1>1. a \o b \in Seq(Line) /\ Len(a \o b) = Len(a) + Len(b) /\ Len(a) \in Nat /\ Len(b) \in Nat
    OBVIOUS
  <1>2. DOMAIN (a \o b) = 1..Len(a) + Len(b)
    BY <1>1
  <1>3. \A i \in 1..Len(a) : (a \o b)[i] = a[i]
    OBVIOUS
  <1>4. \A i \in 1..Len(b) : (a \o b)[Len(a) + i] = b[i]
    OBVIOUS
  <1> QED
    BY <1>1, <1>2, <1>3, <1>4

\* A line put in before the closing parenthesis, which is the last line.
LEMMA Inserted ==
  ASSUME NEW s, Formed(s), NEW e \in Line
  PROVE  LET t == InsertAt(s, Len(s), e)
         IN  /\ t \in Seq(Line) /\ Len(t) = Len(s) + 1 /\ DOMAIN t = 1..Len(s) + 1
             /\ \A i \in 1..Len(s) - 1 : t[i] = s[i]
             /\ t[Len(s)] = e /\ t[Len(s) + 1] = CloseParen
  <1>1. s \in Seq(Line) /\ Len(s) \in Nat /\ Len(s) >= 4 /\ s[Len(s)] = CloseParen
        /\ \A i \in 1..Len(s) : s[i] \in Line
    BY DEF Formed, NotesKept
  <1> DEFINE n == Len(s)
             a == SubSeq(s, 1, n - 1)
             b == SubSeq(s, n, n)
             t == (a \o <<e>>) \o b
  <1>2. a \in Seq(Line) /\ Len(a) = n - 1 /\ \A i \in 1..n - 1 : a[i] = s[i]
    BY <1>1
  <1>3. b \in Seq(Line) /\ Len(b) = 1 /\ b[1] = s[n]
    BY <1>1
  <1>4. <<e>> \in Seq(Line) /\ Len(<<e>>) = 1 /\ <<e>>[1] = e
    OBVIOUS
  <1> HIDE DEF a, b, n
  <1>5. n \in Nat /\ n >= 4
    BY <1>1 DEF n
  <1>6. /\ a \o <<e>> \in Seq(Line) /\ Len(a \o <<e>>) = n
        /\ \A i \in 1..n - 1 : (a \o <<e>>)[i] = a[i]
        /\ (a \o <<e>>)[n] = e
    BY <1>2, <1>4, <1>5
  <1> DEFINE c == a \o <<e>>
  <1> HIDE DEF c
  <1>7. c \in Seq(Line) /\ Len(c) = n /\ (\A i \in 1..n - 1 : c[i] = a[i]) /\ c[n] = e
    BY <1>6 DEF c
  <1>8. /\ c \o b \in Seq(Line) /\ Len(c \o b) = n + 1
        /\ \A i \in 1..n : (c \o b)[i] = c[i]
        /\ (c \o b)[n + 1] = b[1]
    BY <1>3, <1>5, <1>7, Joined
  <1>9. InsertAt(s, Len(s), e) = c \o b
    BY DEF InsertAt, a, b, c, n
  <1>10. DOMAIN (c \o b) = 1..n + 1
    BY <1>8, <1>5
  <1>11. /\ \A i \in 1..n - 1 : (c \o b)[i] = s[i]
         /\ (c \o b)[n] = e /\ (c \o b)[n + 1] = CloseParen
    BY <1>1, <1>2, <1>3, <1>5, <1>7, <1>8 DEF n
  <1> QED
    BY <1>8, <1>9, <1>10, <1>11 DEF n

\* Setting a field sets it, leaves the others and the notes, and sets it once.
LEMMA FieldIsSet ==
  ASSUME NEW s, Formed(s), NEW k \in Key, NEW v \in Value \cup {Invalid}
  PROVE  LET t == SetField(s, k, v)
         IN  /\ Formed(t)
             /\ \E i \in DOMAIN t : t[i] = Active(k, v)
             /\ ValueOf(t, k) = v
             /\ \A q \in Key : q # k => ValueOf(t, q) = ValueOf(s, q)
  <1>0. /\ s \in Seq(Line) /\ s # Torn /\ EachOnce(s) /\ NotesKept(s)
        /\ DOMAIN s = 1..Len(s) /\ Len(s) \in Nat /\ Len(s) >= 4
    BY DEF Formed, Parses, NotesKept
  <1>1. /\ Active(k, v) \in Line /\ Active(k, v).kind = "active" /\ Active(k, v).key = k
        /\ Active(k, v).value = v
    BY DEF Active, Line
  <1>2. \A f : ValueOf(f, k) = IF Lines(f, "active", k) = {} THEN Default
                               ELSE f[CHOOSE i \in Lines(f, "active", k) : TRUE].value
    BY DEF ValueOf
  <1>3. CASE LineToSet(s, k) # 0
    <2>1. PICK i \in DOMAIN s : i = LineToSet(s, k)
      BY <1>3, LineToSetIs
    <2>2. /\ s[i].kind \in {"active", "commented"} /\ s[i].key = k
          /\ \A j \in Lines(s, "active", k) : j = i
      BY <1>3, <2>1, LineToSetIs
    <2>3. i \in 3..Len(s) - 1
      BY <2>2, FieldsAreInside
    <2> DEFINE t == [s EXCEPT ![i] = Active(k, v)]
    <2>4. SetField(s, k, v) = t
      BY <1>3, <2>1 DEF SetField
    <2>5. /\ t \in Seq(Line) /\ DOMAIN t = DOMAIN s /\ Len(t) = Len(s)
          /\ t[i] = Active(k, v) /\ \A j \in DOMAIN s : j # i => t[j] = s[j]
      BY <1>0, <1>1
    <2> HIDE DEF t
    <2>6. Lines(t, "active", k) = {i}
      BY <1>1, <2>2, <2>5 DEF Lines
    <2>7. \A q \in Key : q # k => Lines(t, "active", q) = Lines(s, "active", q) /\ i \notin Lines(s, "active", q)
      BY <1>1, <2>2, <2>5 DEF Lines
    <2>8. EachOnce(t)
      BY <1>0, <2>6, <2>7 DEF EachOnce
    <2>9. t # Torn
      BY <1>0, <2>5 DEF Torn
    <2>10. NotesKept(t)
      <3>1. PICK m \in 3..Len(s) - 1 :
              /\ s[m] = Note
              /\ \A j \in (3..Len(s) - 1) \ {m} : s[j].kind \in {"active", "commented"}
        BY <1>0 DEF NotesKept
      <3>2. m # i
        BY <2>2, <3>1, KindsAre
      <3>3. t[m] = Note /\ \A j \in (3..Len(t) - 1) \ {m} : t[j].kind \in {"active", "commented"}
        BY <1>0, <1>1, <2>5, <3>1, <3>2
      <3>4. /\ Len(t) >= 4 /\ t[1] = Note /\ t[2] = OpenParen /\ t[Len(t)] = CloseParen
        BY <1>0, <2>3, <2>5 DEF NotesKept
      <3> QED
        BY <2>5, <3>3, <3>4 DEF NotesKept
    <2>11. ValueOf(t, k) = v
      BY <1>1, <2>5, <2>6 DEF ValueOf
    <2>12. ASSUME NEW q \in Key, q # k PROVE ValueOf(t, q) = ValueOf(s, q)
      <3>1. CASE Lines(s, "active", q) = {}
        BY <2>7, <2>12, <3>1 DEF ValueOf
      <3>2. CASE Lines(s, "active", q) # {}
        <4>1. PICK j \in Lines(s, "active", q) : j = CHOOSE n \in Lines(s, "active", q) : TRUE
          BY <3>2
        <4>2. ValueOf(s, q) = s[j].value /\ ValueOf(t, q) = t[j].value
          BY <2>7, <2>12, <3>2, <4>1 DEF ValueOf
        <4>3. j # i /\ j \in DOMAIN s
          BY <2>7, <2>12 DEF Lines
        <4> QED
          BY <2>5, <4>2, <4>3
      <3> QED
        BY <3>1, <3>2
    <2> QED
      BY <2>4, <2>5, <2>8, <2>9, <2>10, <2>11, <2>12 DEF Formed, Parses
  <1>4. CASE LineToSet(s, k) = 0
    <2>1. Lines(s, "active", k) = {}
      BY <1>4, LineToSetIs
    <2> DEFINE n == Len(s)
               t == InsertAt(s, n, Active(k, v))
    <2>2. n = CHOOSE j \in DOMAIN s : s[j] = CloseParen /\ \A x \in j + 1..Len(s) : s[x] # CloseParen
      <3>1. n \in DOMAIN s /\ s[n] = CloseParen /\ \A x \in n + 1..Len(s) : s[x] # CloseParen
        BY <1>0 DEF NotesKept
      <3>2. ASSUME NEW j \in DOMAIN s, s[j] = CloseParen, \A x \in j + 1..Len(s) : s[x] # CloseParen
            PROVE  j = n
        BY <1>0, <3>1, <3>2
      <3> QED
        BY <3>1, <3>2
    <2>3. SetField(s, k, v) = t
      BY <1>4, <2>2 DEF SetField
    <2>4. /\ t \in Seq(Line) /\ Len(t) = n + 1 /\ DOMAIN t = 1..n + 1
          /\ \A i \in 1..n - 1 : t[i] = s[i]
          /\ t[n] = Active(k, v) /\ t[n + 1] = CloseParen
      BY <1>1, Inserted
    <2>5. n \in Nat /\ n >= 4 /\ DOMAIN s = 1..n /\ s[n] = CloseParen
      BY <1>0 DEF NotesKept
    <2> HIDE DEF t, n
    <2>6. CloseParen.kind # "active"
      BY DEF CloseParen
    <2>7. Lines(t, "active", k) = {n}
      <3>1. n \in Lines(t, "active", k)
        BY <1>1, <2>4, <2>5 DEF Lines
      <3>2. ASSUME NEW j \in Lines(t, "active", k), j # n PROVE FALSE
        <4>1. j \in 1..n + 1 /\ t[j].kind = "active" /\ t[j].key = k
          BY <2>4 DEF Lines
        <4>2. j \in 1..n - 1
          BY <2>4, <2>5, <2>6, <3>2, <4>1
        <4>3. j \in Lines(s, "active", k)
          BY <2>4, <2>5, <4>1, <4>2 DEF Lines
        <4> QED
          BY <2>1, <4>3
      <3> QED
        BY <3>1, <3>2
    <2>8. ASSUME NEW q \in Key, q # k
          PROVE  Lines(t, "active", q) = Lines(s, "active", q) /\ Lines(s, "active", q) \subseteq 1..n - 1
      <3>1. Lines(s, "active", q) \subseteq 1..n - 1
        BY <2>5, <2>6 DEF Lines
      <3>2. ASSUME NEW j \in Lines(t, "active", q) PROVE j \in Lines(s, "active", q)
        <4>1. j \in 1..n + 1 /\ t[j].kind = "active" /\ t[j].key = q
          BY <2>4 DEF Lines
        <4>2. j \in 1..n - 1
          BY <1>1, <2>4, <2>5, <2>6, <2>8, <4>1
        <4> QED
          BY <2>4, <2>5, <4>1, <4>2 DEF Lines
      <3>3. ASSUME NEW j \in Lines(s, "active", q) PROVE j \in Lines(t, "active", q)
        <4>1. j \in 1..n - 1
          BY <3>1
        <4>2. s[j].kind = "active" /\ s[j].key = q
          BY DEF Lines
        <4> QED
          BY <2>4, <2>5, <4>1, <4>2 DEF Lines
      <3> QED
        BY <3>1, <3>2, <3>3
    <2>9. EachOnce(t) /\ t # Torn
      BY <1>0, <2>4, <2>5, <2>7, <2>8 DEF EachOnce, Torn
    <2>10. NotesKept(t)
      <3>1. PICK m \in 3..n - 1 :
              /\ s[m] = Note
              /\ \A j \in (3..n - 1) \ {m} : s[j].kind \in {"active", "commented"}
        BY <1>0 DEF NotesKept, n
      <3>2. ASSUME NEW j \in (3..n) \ {m} PROVE t[j].kind \in {"active", "commented"}
        <4>1. CASE j = n
          BY <1>1, <2>4, <4>1
        <4>2. CASE j # n
          <5>1. j \in (3..n - 1) \ {m} /\ j \in 1..n - 1
            BY <2>5, <4>2
          <5> QED
            BY <2>4, <3>1, <5>1
        <4> QED
          BY <4>1, <4>2
      <3>3. t[m] = Note /\ m \in 3..n
        BY <2>4, <2>5, <3>1
      <3>4. t[1] = Note /\ t[2] = OpenParen /\ n + 1 >= 4
        BY <1>0, <2>4, <2>5 DEF NotesKept, n
      <3>5. Len(t) - 1 = n
        BY <2>4, <2>5
      <3> QED
        BY <2>4, <3>2, <3>3, <3>4, <3>5 DEF NotesKept
    <2>11. ValueOf(t, k) = v
      BY <1>1, <2>4, <2>7 DEF ValueOf
    <2>12. ASSUME NEW q \in Key, q # k PROVE ValueOf(t, q) = ValueOf(s, q)
      <3>1. CASE Lines(s, "active", q) = {}
        BY <2>8, <2>12, <3>1 DEF ValueOf
      <3>2. CASE Lines(s, "active", q) # {}
        <4>1. PICK j \in Lines(s, "active", q) : j = CHOOSE x \in Lines(s, "active", q) : TRUE
          BY <3>2
        <4>2. ValueOf(s, q) = s[j].value /\ ValueOf(t, q) = t[j].value
          BY <2>8, <2>12, <3>2, <4>1 DEF ValueOf
        <4>3. j \in 1..n - 1
          BY <2>8, <2>12
        <4> QED
          BY <2>4, <4>2, <4>3
      <3> QED
        BY <3>1, <3>2
    <2>13. \E i \in DOMAIN t : t[i] = Active(k, v)
      BY <2>4, <2>5
    <2> QED
      BY <2>3, <2>4, <2>9, <2>10, <2>11, <2>12, <2>13 DEF Formed, Parses
  <1> QED
    BY <1>3, <1>4

Edit == [at : {"free", "read", "opened", "written"}, lines : Seq(Line), key : Key \cup {""},
         value : Value \cup {Invalid, ""}, file : Nat]

SettingsTypes ==
  /\ saves \in Nat /\ path \in 0..MaxSaves /\ path <= saves /\ saves <= MaxSaves
  /\ tmp \in 0..NoFile /\ (tmp # NoFile => tmp <= saves) /\ tmp # path
  /\ inode \in [0..MaxSaves -> Seq(Line)]
  /\ edit \in [Writer -> Edit]
  /\ wanted \in [Key -> Value \cup {Default}]

\* The file is whole and has the value last saved of every field.
FileIsKept ==
  /\ Formed(inode[path]) /\ Valid(inode[path])
  /\ \A k \in Key : ValueOf(inode[path], k) = wanted[k]

\* The copy of a command is the file with one field set.
IsEdited(e) ==
  /\ e.key \in Key /\ Formed(e.lines)
  /\ \E i \in DOMAIN e.lines : e.lines[i] = Active(e.key, e.value)
  /\ \A k \in Key : ValueOf(e.lines, k) = IF k = e.key THEN e.value ELSE wanted[k]

\* What a command is about to write or has written is at the temporary name,
\* and a new file when it has none yet.
UnderWay(e) ==
  e.at # "free" =>
    /\ IsEdited(e)
    /\ e.at = "read" => e.file \in 0..MaxSaves /\ e.file = saves /\ path < saves
    /\ e.at \in {"opened", "written"} =>
         Valid(e.lines) /\ e.value \in Value /\ e.file = tmp /\ tmp # NoFile
    /\ e.at = "written" => inode[tmp] = e.lines

OneWrites == \A w, v \in Writer : Editing(w) /\ Editing(v) => w = v

SettingsInv ==
  raced \/ (SettingsTypes /\ FileIsKept /\ OneWrites /\ \A w \in Writer : UnderWay(edit[w]))

LEMMA NoEditIs ==
  NoEdit \in Edit /\ NoEdit.at = "free" /\ Torn \in Seq(Line) /\ MaxSaves \in Nat /\ NoFile = MaxSaves + 1
  BY SettingsAssumption DEF SettingsAssumption, NoEdit, Edit, NoFile, Torn

LEMMA FirstIsWhole ==
  ASSUME NEW s \in FirstFiles
  PROVE  Formed(s) /\ Valid(s) /\ \A k \in Key : ValueOf(s, k) \in Value \cup {Default}
  <1>1. PICK n \in 0..MaxFields : \E f \in [1..n -> FieldLine] :
          EachOnce(f) /\ s = (<<Note, OpenParen>> \o f) \o <<Note, CloseParen>>
    BY DEF FirstFiles
  <1>0. PICK f \in [1..n -> FieldLine] :
          EachOnce(f) /\ s = (<<Note, OpenParen>> \o f) \o <<Note, CloseParen>>
    BY <1>1
  <1>2. n \in Nat
    BY SettingsAssumption DEF SettingsAssumption
  <1>3. Note \in Line /\ OpenParen \in Line /\ CloseParen \in Line
    BY DEF Note, OpenParen, CloseParen, Line
  <1>4. FieldLine \subseteq Line /\ \A l \in FieldLine : l.kind \in {"active", "commented"}
                                  /\ (l.kind = "active" => l.value \in Value)
    <2> SUFFICES ASSUME NEW l \in FieldLine
                 PROVE  l \in Line /\ l.kind \in {"active", "commented"} /\ (l.kind = "active" => l.value \in Value)
      OBVIOUS
    <2>1. CASE \E k \in Key, v \in Value : l = Active(k, v)
      <3>1. PICK k \in Key, v \in Value : l = [kind |-> "active", key |-> k, value |-> v]
        BY <2>1 DEF Active
      <3> QED
        BY <3>1 DEF Line
    <2>2. CASE \E k \in Key : l = Commented(k, Default)
      <3>1. PICK k \in Key, v \in {Default} : l = [kind |-> "commented", key |-> k, value |-> v]
        BY <2>2 DEF Commented
      <3> QED
        BY <3>1 DEF Line
    <2> QED
      BY <2>1, <2>2 DEF FieldLine
  <1>5. f \in Seq(Line) /\ Len(f) = n /\ DOMAIN f = 1..n
    BY <1>2, <1>4
  <1> DEFINE a == <<Note, OpenParen>>
             b == <<Note, CloseParen>>
             c == a \o f
  <1>6. /\ a \in Seq(Line) /\ Len(a) = 2 /\ a[1] = Note /\ a[2] = OpenParen
        /\ b \in Seq(Line) /\ Len(b) = 2 /\ b[1] = Note /\ b[2] = CloseParen
    BY <1>3
  <1> HIDE DEF a, b
  <1>7. /\ c \in Seq(Line) /\ Len(c) = n + 2
        /\ \A i \in 1..2 : c[i] = a[i]
        /\ \A i \in 1..n : c[2 + i] = f[i]
    <2>1. /\ a \o f \in Seq(Line) /\ Len(a \o f) = Len(a) + Len(f)
          /\ \A i \in 1..Len(a) : (a \o f)[i] = a[i]
          /\ \A i \in 1..Len(f) : (a \o f)[Len(a) + i] = f[i]
      BY <1>5, <1>6, Joined
    <2> QED
      BY <1>2, <1>5, <1>6, <2>1
  <1>8. s = c \o b
    BY <1>0 DEF a, b
  <1> HIDE DEF c
  <1>9. /\ s \in Seq(Line) /\ Len(s) = n + 4 /\ DOMAIN s = 1..n + 4
        /\ \A i \in 1..n + 2 : s[i] = c[i]
        /\ \A i \in 1..2 : s[n + 2 + i] = b[i]
    <2>1. /\ c \o b \in Seq(Line) /\ Len(c \o b) = Len(c) + Len(b) /\ DOMAIN (c \o b) = 1..Len(c) + Len(b)
          /\ \A i \in 1..Len(c) : (c \o b)[i] = c[i]
          /\ \A i \in 1..Len(b) : (c \o b)[Len(c) + i] = b[i]
      BY <1>6, <1>7, Joined
    <2>2. Len(c) + Len(b) = n + 4
      BY <1>2, <1>6, <1>7
    <2> QED
      BY <1>2, <1>6, <1>7, <1>8, <2>1, <2>2
  <1>10. /\ s[1] = Note /\ s[2] = OpenParen /\ s[n + 3] = Note /\ s[n + 4] = CloseParen
    <2>1. s[1] = a[1] /\ s[2] = a[2]
      <3>1. 1 \in 1..2 /\ 2 \in 1..2 /\ 1 \in 1..n + 2 /\ 2 \in 1..n + 2
        BY <1>2
      <3>2. c[1] = a[1] /\ c[2] = a[2]
        BY <1>7, <3>1
      <3>3. s[1] = c[1] /\ s[2] = c[2]
        BY <1>9, <3>1
      <3> QED
        BY <3>2, <3>3
    <2>2. n + 2 + 1 = n + 3 /\ n + 2 + 2 = n + 4 /\ 1 \in 1..2 /\ 2 \in 1..2
      BY <1>2
    <2>3. s[n + 2 + 1] = b[1] /\ s[n + 2 + 2] = b[2]
      BY <1>9, <2>2
    <2> QED
      BY <1>6, <2>1, <2>2, <2>3
  <1>11. \A i \in 3..n + 2 : i - 2 \in 1..n /\ s[i] = f[i - 2] /\ s[i] \in FieldLine
    <2> SUFFICES ASSUME NEW i \in 3..n + 2 PROVE i - 2 \in 1..n /\ s[i] = f[i - 2] /\ s[i] \in FieldLine
      OBVIOUS
    <2>1. i - 2 \in 1..n /\ 2 + (i - 2) = i /\ i \in 1..n + 2
      BY <1>2
    <2>2. s[i] = f[i - 2]
      BY <1>7, <1>9, <2>1
    <2> QED
      BY <1>1, <2>1, <2>2
  <1>12. NotesKept(s)
    <2>1. \A i \in (3..Len(s) - 1) \ {n + 3} : i \in 3..n + 2
      BY <1>2, <1>9
    <2>2. n + 3 \in 3..Len(s) - 1 /\ Len(s) >= 4
      BY <1>2, <1>9
    <2> QED
      BY <1>4, <1>9, <1>10, <1>11, <2>1, <2>2 DEF NotesKept
  <1>13. ASSUME NEW i \in DOMAIN s, s[i].kind = "active" PROVE i \in 3..n + 2
    <2>1. i # 1 /\ i # 2 /\ i # n + 3 /\ i # n + 4
      BY <1>10, <1>13, KindsAre
    <2> QED
      BY <1>2, <1>9, <2>1
  <1>14. EachOnce(s)
    <2> SUFFICES ASSUME NEW k \in Key, NEW i \in Lines(s, "active", k), NEW j \in Lines(s, "active", k)
                 PROVE  i = j
      BY DEF EachOnce
    <2>1. i \in 3..n + 2 /\ j \in 3..n + 2
      BY <1>13 DEF Lines
    <2>2. i - 2 \in Lines(f, "active", k) /\ j - 2 \in Lines(f, "active", k)
      BY <1>5, <1>11, <2>1 DEF Lines
    <2>3. i - 2 = j - 2
      BY <1>0, <2>2 DEF EachOnce
    <2> QED
      BY <1>2, <2>1, <2>3
  <1>15. s # Torn
    BY <1>2, <1>9 DEF Torn
  <1>16. Formed(s)
    BY <1>9, <1>12, <1>14, <1>15 DEF Formed, Parses
  <1>17. \A i \in DOMAIN s : s[i].kind = "active" => s[i].value \in Value
    BY <1>4, <1>11, <1>13
  <1>18. Valid(s)
    BY <1>16, <1>17 DEF Valid, Formed
  <1>19. ASSUME NEW k \in Key PROVE ValueOf(s, k) \in Value \cup {Default}
    <2>1. CASE Lines(s, "active", k) = {}
      BY <2>1 DEF ValueOf
    <2>2. CASE Lines(s, "active", k) # {}
      <3>1. PICK i \in Lines(s, "active", k) : ValueOf(s, k) = s[i].value
        BY <2>2 DEF ValueOf
      <3> QED
        BY <1>17, <3>1 DEF Lines
    <2> QED
      BY <2>1, <2>2
  <1> QED
    BY <1>16, <1>18, <1>19

LEMMA SettingsInitial == SettingsInit => SettingsInv
  <1> SUFFICES ASSUME SettingsInit PROVE SettingsInv
    OBVIOUS
  <1>1. PICK s \in FirstFiles :
          /\ inode = [n \in 0..MaxSaves |-> IF n = 0 THEN s ELSE Torn]
          /\ wanted = [k \in Key |-> ValueOf(s, k)]
    BY DEF SettingsInit
  <1>2. Formed(s) /\ Valid(s) /\ \A k \in Key : ValueOf(s, k) \in Value \cup {Default}
    BY FirstIsWhole
  <1>3. path = 0 /\ tmp = MaxSaves + 1 /\ saves = 0 /\ edit = [w \in Writer |-> NoEdit] /\ 0 \in 0..MaxSaves
    BY NoEditIs DEF SettingsInit
  <1>4. SettingsTypes
    BY <1>1, <1>2, <1>3, NoEditIs DEF SettingsTypes, Formed
  <1>5. FileIsKept
    BY <1>1, <1>2, <1>3 DEF FileIsKept
  <1>6. OneWrites /\ \A w \in Writer : UnderWay(edit[w])
    BY <1>3, NoEditIs DEF OneWrites, UnderWay, Editing
  <1> QED
    BY <1>4, <1>5, <1>6 DEF SettingsInv

\* A command that writes alone goes on as e; the others are not under way.
LEMMA EditBecomes ==
  ASSUME SettingsTypes, OneWrites, NEW w \in Writer, NEW e \in Edit, edit' = [edit EXCEPT ![w] = e],
         Editing(w) \/ \A v \in Writer : ~Editing(v)
  PROVE  /\ edit' \in [Writer -> Edit] /\ edit'[w] = e
         /\ OneWrites'
         /\ \A v \in Writer : v # w => edit'[v].at = "free"
  BY DEF SettingsTypes, OneWrites, Editing

LEMMA ReadKeeps ==
  ASSUME SettingsTypes, FileIsKept, OneWrites, \A v \in Writer : UnderWay(edit[v]),
         NEW w \in Writer, Read(w)
  PROVE  SettingsInv'
  <1> SUFFICES ASSUME ~raced' PROVE SettingsInv'
    BY DEF SettingsInv
  <1>1. /\ \A v \in Writer : ~Editing(v)
        /\ saves' = saves + 1 /\ saves < MaxSaves /\ UNCHANGED <<inode, path, tmp, wanted>>
    BY DEF Read
  <1>2. Parses(inode[path])
    BY DEF FileIsKept, Formed
  <1>3. PICK k \in Key, v \in Value \cup {Invalid} :
          edit' = [edit EXCEPT ![w] = [NoEdit EXCEPT !.at = "read", !.lines = SetField(inode[path], k, v),
                                                     !.key = k, !.value = v, !.file = saves']]
    BY <1>2 DEF Read
  <1>4. PICK s \in Seq(Line) :
          /\ s = SetField(inode[path], k, v) /\ Formed(s)
          /\ \E i \in DOMAIN s : s[i] = Active(k, v)
          /\ ValueOf(s, k) = v /\ \A q \in Key : q # k => ValueOf(s, q) = ValueOf(inode[path], q)
    BY FieldIsSet DEF FileIsKept, Formed
  <1>5. saves' \in Nat /\ saves' \in 0..MaxSaves /\ saves' <= MaxSaves /\ path < saves'
    BY <1>1, NoEditIs DEF SettingsTypes
  <1>6. PICK e \in Edit : /\ edit' = [edit EXCEPT ![w] = e] /\ e.at = "read" /\ e.lines = s
                          /\ e.key = k /\ e.value = v /\ e.file = saves'
    <2> DEFINE n == saves'
               a == [NoEdit EXCEPT !.at = "read"]
               b == [a EXCEPT !.lines = s]
               c == [b EXCEPT !.key = k]
               d == [c EXCEPT !.value = v]
               e == [d EXCEPT !.file = n]
    <2>1. edit' = [edit EXCEPT ![w] = e]
      BY <1>3, <1>4
    <2>2. n \in Nat /\ n = saves'
      BY <1>5
    <2> HIDE DEF n
    <2>3. a \in Edit /\ a.at = "read"
      BY NoEditIs DEF Edit
    <2> HIDE DEF a
    <2>4. b \in Edit /\ b.at = "read" /\ b.lines = s
      BY <2>3 DEF Edit
    <2> HIDE DEF b
    <2>5. c \in Edit /\ c.at = "read" /\ c.lines = s /\ c.key = k
      BY <2>4 DEF Edit
    <2> HIDE DEF c
    <2>6. d \in Edit /\ d.at = "read" /\ d.lines = s /\ d.key = k /\ d.value = v
      BY <2>5 DEF Edit
    <2> HIDE DEF d
    <2>7. e \in Edit /\ e.at = "read" /\ e.lines = s /\ e.key = k /\ e.value = v /\ e.file = n
      BY <2>2, <2>6 DEF Edit
    <2> QED
      BY <2>1, <2>2, <2>7
  <1>7. /\ edit' \in [Writer -> Edit] /\ edit'[w] = e /\ OneWrites'
        /\ \A u \in Writer : u # w => edit'[u].at = "free"
    BY <1>1, <1>6, EditBecomes
  <1>8. SettingsTypes'
    BY <1>1, <1>5, <1>7 DEF SettingsTypes
  <1>9. FileIsKept'
    BY <1>1 DEF FileIsKept
  <1>10. IsEdited(e)'
    <2>1. \A q \in Key : ValueOf(s, q) = IF q = k THEN v ELSE wanted[q]
      BY <1>4 DEF FileIsKept
    <2> QED
      BY <1>1, <1>4, <1>6, <2>1 DEF IsEdited
  <1>11. UnderWay(e)'
    BY <1>1, <1>5, <1>6, <1>10 DEF UnderWay
  <1>12. \A u \in Writer : UnderWay(edit[u])'
    BY <1>7, <1>11 DEF UnderWay
  <1> QED
    BY <1>7, <1>8, <1>9, <1>12 DEF SettingsInv

\* A command that is refused, or dies, leaves what there is.
LEMMA EndKeeps ==
  ASSUME SettingsTypes, FileIsKept, OneWrites, \A v \in Writer : UnderWay(edit[v]),
         NEW w \in Writer, Refused(w) \/ Dies(w)
  PROVE  SettingsInv'
  <1>1. Editing(w) /\ edit' = [edit EXCEPT ![w] = NoEdit] /\ UNCHANGED <<inode, path, tmp, saves, wanted, raced>>
    BY DEF Refused, Dies, Editing
  <1>2. /\ edit' \in [Writer -> Edit] /\ edit'[w] = NoEdit /\ OneWrites'
        /\ \A u \in Writer : u # w => edit'[u].at = "free"
    BY <1>1, EditBecomes, NoEditIs
  <1>3. \A u \in Writer : UnderWay(edit[u])'
    BY <1>2, NoEditIs DEF UnderWay
  <1> QED
    BY <1>1, <1>2, <1>3 DEF SettingsInv, SettingsTypes, FileIsKept

LEMMA OpenKeeps ==
  ASSUME SettingsTypes, FileIsKept, OneWrites, \A v \in Writer : UnderWay(edit[v]),
         NEW w \in Writer, OpenTmp(w)
  PROVE  SettingsInv'
  <1>1. PICK x \in Edit : x = edit[w]
    BY DEF SettingsTypes
  <1>2. /\ x.at = "read" /\ Valid(x.lines) /\ IsEdited(x) /\ x.file \in 0..MaxSaves /\ x.file = saves
        /\ path < saves /\ UNCHANGED <<path, saves, wanted, raced>> /\ Editing(w)
    BY <1>1 DEF OpenTmp, UnderWay, Editing
  <1>3. PICK n \in 0..MaxSaves :
          /\ n # path /\ n <= saves /\ n # NoFile /\ tmp' = n
          /\ inode' = [inode EXCEPT ![n] = Torn]
          /\ edit' = [edit EXCEPT ![w].at = "opened", ![w].file = n]
    <2> DEFINE n == IF tmp = NoFile THEN x.file ELSE tmp
    <2>1. tmp' = n /\ inode' = [inode EXCEPT ![n] = Torn]
          /\ edit' = [edit EXCEPT ![w].at = "opened", ![w].file = n]
      BY <1>1 DEF OpenTmp
    <2>2. n \in 0..MaxSaves /\ n # path /\ n <= saves /\ n # NoFile
      BY <1>2, NoEditIs DEF SettingsTypes
    <2> QED
      BY <2>1, <2>2
  <1>4. PICK e \in Edit : /\ edit' = [edit EXCEPT ![w] = e] /\ e.at = "opened" /\ e.lines = x.lines
                          /\ e.key = x.key /\ e.value = x.value /\ e.file = n
    <2> DEFINE y == [x EXCEPT !.at = "opened"]
               e == [y EXCEPT !.file = n]
    <2>1. edit' = [edit EXCEPT ![w] = e]
      BY <1>1, <1>3 DEF SettingsTypes
    <2>2. y \in Edit /\ y.at = "opened" /\ y.lines = x.lines /\ y.key = x.key /\ y.value = x.value
      BY DEF Edit
    <2> HIDE DEF y
    <2>3. n \in Nat
      OBVIOUS
    <2>4. e \in Edit /\ e.at = "opened" /\ e.lines = x.lines /\ e.key = x.key /\ e.value = x.value /\ e.file = n
      BY <2>2, <2>3 DEF Edit
    <2> QED
      BY <2>1, <2>4
  <1>5. /\ edit' \in [Writer -> Edit] /\ edit'[w] = e /\ OneWrites'
        /\ \A u \in Writer : u # w => edit'[u].at = "free"
    BY <1>2, <1>4, EditBecomes
  <1>6. x.value \in Value
    <2>1. PICK i \in DOMAIN x.lines : x.lines[i] = Active(x.key, x.value)
      BY <1>2 DEF IsEdited
    <2>2. Active(x.key, x.value).kind = "active" /\ Active(x.key, x.value).value = x.value
      BY DEF Active
    <2> QED
      BY <1>2, <2>1, <2>2 DEF Valid
  <1>7. inode' \in [0..MaxSaves -> Seq(Line)] /\ inode'[path] = inode[path]
    BY <1>3, NoEditIs DEF SettingsTypes
  <1>8. SettingsTypes'
    BY <1>2, <1>3, <1>5, <1>7, NoEditIs DEF SettingsTypes
  <1>9. FileIsKept'
    BY <1>2, <1>7 DEF FileIsKept
  <1>10. UnderWay(e)'
    BY <1>2, <1>3, <1>4, <1>6 DEF UnderWay, IsEdited
  <1>11. \A u \in Writer : UnderWay(edit[u])'
    BY <1>5, <1>10 DEF UnderWay
  <1> QED
    BY <1>5, <1>8, <1>9, <1>11 DEF SettingsInv

LEMMA WriteKeeps ==
  ASSUME SettingsTypes, FileIsKept, OneWrites, \A v \in Writer : UnderWay(edit[v]),
         NEW w \in Writer, WriteTmp(w)
  PROVE  SettingsInv'
  <1>1. PICK x \in Edit : x = edit[w]
    BY DEF SettingsTypes
  <1>2. /\ x.at = "opened" /\ Valid(x.lines) /\ IsEdited(x) /\ x.value \in Value /\ x.file = tmp /\ tmp # NoFile
        /\ UNCHANGED <<path, tmp, saves, wanted, raced>> /\ Editing(w)
        /\ inode' = [inode EXCEPT ![tmp] = x.lines]
    BY <1>1 DEF WriteTmp, UnderWay, Editing
  <1>3. PICK e \in Edit : /\ edit' = [edit EXCEPT ![w] = e] /\ e.at = "written" /\ e.lines = x.lines
                          /\ e.key = x.key /\ e.value = x.value /\ e.file = x.file
    <2> DEFINE e == [x EXCEPT !.at = "written"]
    <2>1. edit' = [edit EXCEPT ![w] = e]
      BY <1>1 DEF WriteTmp, SettingsTypes
    <2>2. e \in Edit /\ e.at = "written" /\ e.lines = x.lines /\ e.key = x.key /\ e.value = x.value
          /\ e.file = x.file
      BY DEF Edit
    <2> QED
      BY <2>1, <2>2
  <1>4. /\ edit' \in [Writer -> Edit] /\ edit'[w] = e /\ OneWrites'
        /\ \A u \in Writer : u # w => edit'[u].at = "free"
    BY <1>2, <1>3, EditBecomes
  <1>5. tmp \in 0..MaxSaves /\ tmp # path
    BY <1>2, NoEditIs DEF SettingsTypes
  <1>6. x.lines \in Seq(Line)
    BY DEF Edit
  <1>7. inode' \in [0..MaxSaves -> Seq(Line)] /\ inode'[path] = inode[path] /\ inode'[tmp] = x.lines
    BY <1>2, <1>5, <1>6 DEF SettingsTypes
  <1>8. SettingsTypes'
    BY <1>2, <1>4, <1>7 DEF SettingsTypes
  <1>9. FileIsKept'
    BY <1>2, <1>7 DEF FileIsKept
  <1>10. UnderWay(e)'
    BY <1>2, <1>3, <1>7 DEF UnderWay, IsEdited
  <1>11. \A u \in Writer : UnderWay(edit[u])'
    BY <1>4, <1>10 DEF UnderWay
  <1> QED
    BY <1>4, <1>8, <1>9, <1>11 DEF SettingsInv

LEMMA RenameKeeps ==
  ASSUME SettingsTypes, FileIsKept, OneWrites, \A v \in Writer : UnderWay(edit[v]),
         NEW w \in Writer, Rename(w)
  PROVE  SettingsInv'
  <1>1. PICK x \in Edit : x = edit[w]
    BY DEF SettingsTypes
  <1>2. /\ Valid(x.lines) /\ IsEdited(x) /\ x.value \in Value /\ tmp # NoFile /\ inode[tmp] = x.lines
        /\ Editing(w)
    BY <1>1 DEF Rename, UnderWay, Editing
  <1>3. /\ path' = tmp /\ tmp' = NoFile /\ wanted' = [wanted EXCEPT ![x.key] = x.value]
        /\ edit' = [edit EXCEPT ![w] = NoEdit] /\ UNCHANGED <<inode, saves, raced>>
    BY <1>1, <1>2 DEF Rename
  <1>4. /\ edit' \in [Writer -> Edit] /\ edit'[w] = NoEdit /\ OneWrites'
        /\ \A u \in Writer : u # w => edit'[u].at = "free"
    BY <1>2, <1>3, EditBecomes, NoEditIs
  <1>5. x.key \in Key
    BY <1>2 DEF IsEdited
  <1>6. wanted' \in [Key -> Value \cup {Default}] /\ \A k \in Key : wanted'[k] = IF k = x.key THEN x.value ELSE wanted[k]
    BY <1>2, <1>3, <1>5 DEF SettingsTypes
  <1>7. SettingsTypes'
    BY <1>2, <1>3, <1>4, <1>6, NoEditIs DEF SettingsTypes
  <1>8. FileIsKept'
    BY <1>2, <1>3, <1>6 DEF FileIsKept, IsEdited
  <1>9. \A u \in Writer : UnderWay(edit[u])'
    BY <1>4, NoEditIs DEF UnderWay
  <1> QED
    BY <1>4, <1>7, <1>8, <1>9 DEF SettingsInv

LEMMA SettingsStep == SettingsInv /\ [SettingsNext]_settingsVars => SettingsInv'
  <1> SUFFICES ASSUME SettingsInv, [SettingsNext]_settingsVars PROVE SettingsInv'
    OBVIOUS
  <1>1. CASE raced
    <2>1. ASSUME NEW w \in Writer, \/ Read(w) \/ Refused(w) \/ OpenTmp(w) \/ WriteTmp(w)
                                    \/ Rename(w) \/ Dies(w)
          PROVE  raced'
      BY <1>1, <2>1 DEF Read, Refused, OpenTmp, WriteTmp, Rename, Dies
    <2> QED
      BY <1>1, <2>1 DEF SettingsNext, settingsVars, SettingsInv
  <1>2. CASE ~raced
    <2>1. SettingsTypes /\ FileIsKept /\ OneWrites /\ \A v \in Writer : UnderWay(edit[v])
      BY <1>2 DEF SettingsInv
    <2>2. ASSUME NEW w \in Writer, \/ Read(w) \/ Refused(w) \/ OpenTmp(w) \/ WriteTmp(w)
                                    \/ Rename(w) \/ Dies(w)
          PROVE  SettingsInv'
      BY <2>1, <2>2, ReadKeeps, EndKeeps, OpenKeeps, WriteKeeps, RenameKeeps
    <2>3. CASE UNCHANGED settingsVars
      BY <2>1, <2>3 DEF settingsVars, SettingsInv, SettingsTypes, FileIsKept, OneWrites, UnderWay, IsEdited, Editing
    <2> QED
      BY <2>2, <2>3 DEF SettingsNext
  <1> QED
    BY <1>1, <1>2

\* Whatever command is killed or refused at whatever moment, the file is whole,
\* has the value last saved of every field, and the user's notes: for files of any
\* length, any fields and values, and any number of commands, as long as no two
\* were at it at once (cosmo-config lib.rs set_string_fields).
THEOREM EditsAreAtomic == SettingsSpec => []SavedIsKept
  <1>1. SettingsInv => SavedIsKept
    BY DEF SettingsInv, FileIsKept, Formed, SavedIsKept
  <1> QED
    BY <1>1, SettingsInitial, SettingsStep, PTL DEF SettingsSpec

-----------------------------------------------------------------------------
(* The tool loop *)

\* The user's message of the turn is at p.
StartsAt(h, p) ==
  /\ p \in 1..Len(h) /\ h[p].role = "user"
  /\ \A j \in (p + 1)..Len(h) : h[j].role # "user"

\* The places after p with the result of a run of call c.
RunsSince(h, p, c) == {i \in Ran(h) : i > p /\ h[i].result = c}

\* Each result has its call before it, with nothing between but results.
Owned(h) ==
  \A i \in 1..Len(h) : h[i].role = "tool" =>
    \E j \in 1..(i - 1) :
      /\ h[j].role = "assistant" /\ i - j <= Len(h[j].calls) /\ h[j].calls[i - j] = h[i].of
      /\ \A k \in (j + 1)..i : h[k].role = "tool"

\* The calls of message i are to be answered.
Asks(h, i) == i \in 1..Len(h) /\ h[i].role = "assistant" /\ h[i].stop = "tool_calls"
AllAnswered(h) == \A i \in 1..Len(h) : Asks(h, i) => Answered(h, i)

\* The calls of message p are answered up to the end of h, and those in rest are left.
AnsweredUpTo(h, rest, p) ==
  /\ Asks(h, p)
  /\ \A i \in 1..Len(h) : i # p /\ Asks(h, i) => Answered(h, i)
  /\ p + Len(h[p].calls) = Len(h) + Len(rest)
  /\ \A k \in 1..(Len(h) - p) : h[p + k].role = "tool" /\ h[p + k].of = h[p].calls[k]
  /\ \A k \in 1..Len(rest) : rest[k].id = h[p].calls[Len(h) - p + k]

\* At rest a turn's locals are empty, and the accumulator is while nothing streams.
Idle ==
  /\ loop = "idle" => kept = <<>> /\ heard = <<>>
  /\ loop # "stream" => acc = Empty
  /\ loop \notin {"calls", "tool"} => todo = <<>>
  /\ held => loop \in {"calls", "held"}
  /\ loop = "calls" => rounds <= LoopRounds
  /\ loop = "tool" => todo # <<>> /\ todo[1].call \in AllowCalls

\* Every call the loop took up has its result, or is one of those left to do.
Conversation ==
  /\ Owned(stored) /\ AllAnswered(stored)
  /\ Owned(kept)
  /\ IF loop \in {"calls", "tool"} THEN \E p \in 1..Len(kept) : AnsweredUpTo(kept, todo, p)
     ELSE AllAnswered(kept)

\* What was spoken in the turn is in its messages and in the accumulator.
Spoken == loop \notin {"idle", "error"} => heard = SpokenBy(kept) \o acc.text

\* The turn began with the message of the user at p; since then no call ran more often
\* than it was counted or than MAX_REPEATS, nor will it when the call under way returns.
Counted(p) ==
  \A c \in Call :
    LET n == Cardinality(RunsSince(kept, p, c))
        next == IF loop = "tool" /\ todo[1].call = c THEN 1 ELSE 0
    IN  n + next <= MaxRepeats /\ n + next <= seen[c]

\* A call of the turn is held only if the flag says so, and nothing runs after it.
HeldSince(p) ==
  \A j \in p..Len(kept) : kept[j].role = "tool" /\ kept[j].result = "held" =>
    held /\ \A i \in Ran(kept) : i <= j

TurnHolds == loop # "idle" => \E p \in 1..Len(kept) : StartsAt(kept, p) /\ Counted(p) /\ HeldSince(p)

LoopInv == LoopTypeOK /\ Idle /\ Conversation /\ Spoken /\ TurnHolds

LEMMA MessageParts ==
  ASSUME NEW m \in Message
  PROVE  /\ m.role \in {"user", "assistant", "tool"}
         /\ m.role = "assistant" => m.text \in Seq(Nat) /\ m.calls \in Seq(CallId) /\ m.stop \in Reasons
         /\ m.role = "tool" => m.of \in CallId /\ m.result \in NotRun \cup AllowCalls
  BY DEF Message

LEMMA MadeMessages ==
  /\ UserMessage \in Message /\ UserMessage.role = "user"
  /\ \A t \in Seq(Nat), cs \in Seq(ToolCall), r \in Reasons :
       LET m == AssistantMessage(t, cs, r)
       IN  /\ m \in Message /\ m.role = "assistant" /\ m.text = t /\ m.stop = r
           /\ Len(m.calls) = Len(cs) /\ \A k \in 1..Len(cs) : m.calls[k] = cs[k].id
  /\ \A id \in CallId, r \in NotRun \cup AllowCalls :
       LET m == ToolResult(id, r)
       IN  m \in Message /\ m.role = "tool" /\ m.of = id /\ m.result = r
  <1>1. UserMessage \in Message /\ UserMessage.role = "user"
    BY DEF Message, UserMessage
  <1>2. ASSUME NEW t \in Seq(Nat), NEW cs \in Seq(ToolCall), NEW r \in Reasons
        PROVE  LET m == AssistantMessage(t, cs, r)
               IN  /\ m \in Message /\ m.role = "assistant" /\ m.text = t /\ m.stop = r
                   /\ Len(m.calls) = Len(cs) /\ \A k \in 1..Len(cs) : m.calls[k] = cs[k].id
    <2> DEFINE ids == [i \in DOMAIN cs |-> cs[i].id]
    <2>0. \A x \in ToolCall : x.id \in CallId
      BY DEF ToolCall
    <2>1. \A k \in 1..Len(cs) : cs[k] \in ToolCall /\ cs[k].id \in CallId
      BY <2>0
    <2>2. ids \in Seq(CallId) /\ Len(ids) = Len(cs) /\ \A k \in 1..Len(cs) : ids[k] = cs[k].id
      BY <2>1
    <2> HIDE DEF ids
    <2>3. [role |-> "assistant", text |-> t, calls |-> ids, stop |-> r] \in Message
      BY <2>2 DEF Message
    <2>4. AssistantMessage(t, cs, r) = [role |-> "assistant", text |-> t, calls |-> ids, stop |-> r]
      BY DEF AssistantMessage, ids
    <2> QED BY <2>2, <2>3, <2>4
  <1>3. ASSUME NEW id \in CallId, NEW r \in NotRun \cup AllowCalls
        PROVE  LET m == ToolResult(id, r)
               IN  m \in Message /\ m.role = "tool" /\ m.of = id /\ m.result = r
    BY DEF Message, ToolResult
  <1> QED BY <1>1, <1>2, <1>3

LEMMA Appended ==
  ASSUME NEW h \in Seq(Message), NEW m \in Message
  PROVE  /\ Append(h, m) \in Seq(Message) /\ Len(Append(h, m)) = Len(h) + 1
         /\ \A i \in 1..Len(h) : Append(h, m)[i] = h[i]
         /\ Append(h, m)[Len(h) + 1] = m
  OBVIOUS

(* What was spoken *)

\* f is the fold over the messages of h.
Says(f, h) ==
  /\ f \in [0..Len(h) -> Seq(Nat)] /\ f[0] = <<>>
  /\ \A i \in 1..Len(h) : f[i] = SaidWith(f[i - 1], h[i])

LEMMA SaidTyped ==
  ASSUME NEW t \in Seq(Nat), NEW m \in Message PROVE SaidWith(t, m) \in Seq(Nat)
  BY MessageParts DEF SaidWith

LEMMA SpokenSteps ==
  ASSUME NEW h \in Seq(Message)
  PROVE  \E f : Says(f, h) /\ SpokenBy(h) = f[Len(h)]
  <1> DEFINE n == Len(h)
             body(f) == [i \in 0..n |-> IF i = 0 THEN <<>> ELSE SaidWith(f[i - 1], h[i])]
             g == [i \in 1..n |-> [t \in Seq(Nat) |-> SaidWith(t, h[i])]]
  <1>1. n \in Nat /\ <<>> \in Seq(Nat)
    OBVIOUS
  <1>2. ASSUME NEW i \in 1..n, NEW t \in Seq(Nat) PROVE SaidWith(t, h[i]) \in Seq(Nat)
    BY SaidTyped
  <1>3. g \in [1..n -> [Seq(Nat) -> Seq(Nat)]]
    BY <1>2
  <1>4. PICK f : Follows(f, n, Seq(Nat), <<>>, g)
    BY <1>1, <1>3, RecursionExists
  <1>5. \A i \in 1..n : f[i] = SaidWith(f[i - 1], h[i])
    <2> SUFFICES ASSUME NEW i \in 1..n PROVE f[i] = SaidWith(f[i - 1], h[i])
      OBVIOUS
    <2>1. i - 1 \in 0..n
      BY <1>1
    <2>2. f[i - 1] \in Seq(Nat) /\ f[i] = g[i][f[i - 1]]
      BY <1>4, <2>1 DEF Follows
    <2> QED BY <2>2
  <1>6. f = body(f)
    BY <1>1, <1>4, <1>5 DEF Follows
  <1> DEFINE F == CHOOSE e : e = body(e)
  <1>7. F = body(F)
    <2> HIDE DEF body
    <2> QED BY <1>6
  <1>8. SpokenBy(h) = F[n]
    BY DEF SpokenBy
  <1> HIDE DEF F
  <1>9. DOMAIN F = 0..n /\ F[0] = <<>> /\ \A i \in 1..n : F[i] = SaidWith(F[i - 1], h[i])
    <2> HIDE DEF n
    <2>1. F[0] = <<>> /\ DOMAIN F = 0..n /\ F = [i \in 0..n |-> F[i]]
      BY <1>1, <1>7
    <2>2. \A i \in 1..n : i \in 0..n /\ i # 0
      BY <1>1
    <2> QED BY <1>7, <2>1, <2>2
  <1>10. \A i \in 0..n : F[i] \in Seq(Nat)
    <2> DEFINE T == {i \in 0..n : F[i] \in Seq(Nat)}
    <2>1. 0 \in T
      <3>1. 0 \in 0..n
        BY <1>1
      <3> QED BY <1>1, <1>9, <3>1, Zenon
    <2>2. ASSUME NEW i \in 0..(n - 1), i \in T PROVE i + 1 \in T
      <3>1. i + 1 \in 1..n /\ i + 1 \in 0..n /\ (i + 1) - 1 = i
        BY <1>1
      <3>2. F[i + 1] = SaidWith(F[i], h[i + 1])
        BY <1>9, <3>1
      <3> QED BY <1>2, <2>2, <3>1, <3>2
    <2>3. 0..n \subseteq T
      BY <1>1, <2>1, <2>2, NumbersUpTo, Zenon
    <2> QED BY <2>3
  <1>11. F \in [0..n -> Seq(Nat)]
    <2>1. F = [i \in 0..n |-> F[i]]
      BY <1>7
    <2> QED BY <1>10, <2>1
  <1> QED BY <1>8, <1>9, <1>11 DEF Says

\* Another message adds what it says.
LEMMA SpokenAppend ==
  ASSUME NEW h \in Seq(Message), NEW m \in Message
  PROVE  SpokenBy(Append(h, m)) = SaidWith(SpokenBy(h), m) /\ SpokenBy(h) \in Seq(Nat)
  <1> DEFINE n == Len(h)
             hm == Append(h, m)
  <1>1. PICK f : Says(f, h) /\ SpokenBy(h) = f[n]
    BY SpokenSteps
  <1>2. hm \in Seq(Message) /\ Len(hm) = n + 1 /\ n \in Nat
        /\ hm[n + 1] = m /\ \A i \in 1..n : hm[i] = h[i]
    OBVIOUS
  <1> HIDE DEF hm
  <1>3. PICK k : Says(k, hm) /\ SpokenBy(hm) = k[n + 1]
    BY <1>2, SpokenSteps
  <1> HIDE DEF n
  <1> DEFINE T == {i \in 0..n : k[i] = f[i]}
  <1>4. 0 \in T
    BY <1>1, <1>2, <1>3 DEF Says
  <1>5. ASSUME NEW i \in 0..(n - 1), i \in T PROVE i + 1 \in T
    <2>1. i + 1 \in 1..n /\ i + 1 \in 1..(n + 1) /\ (i + 1) - 1 = i /\ i + 1 \in 0..n
      BY <1>2
    <2>2. f[i + 1] = SaidWith(f[i], h[i + 1])
      BY <1>1, <2>1 DEF Says, n
    <2>3. k[i + 1] = SaidWith(k[i], hm[i + 1])
      BY <1>2, <1>3, <2>1 DEF Says
    <2> QED BY <1>2, <1>5, <2>1, <2>2, <2>3
  <1>6. 0..n \subseteq T
    BY <1>2, <1>4, <1>5, NumbersUpTo, Zenon
  <1>7. k[n] = f[n] /\ n + 1 \in 1..(n + 1) /\ (n + 1) - 1 = n
    BY <1>2, <1>6
  <1>8. k[n + 1] = SaidWith(k[n], hm[n + 1])
    BY <1>2, <1>3, <1>7 DEF Says
  <1>9. f[n] \in Seq(Nat)
    BY <1>1, <1>2 DEF Says, n
  <1> QED BY <1>1, <1>2, <1>3, <1>7, <1>8, <1>9 DEF hm

(* The turn and its runs *)

LEMMA TurnStartsAt == ASSUME NEW h, NEW p, Len(h) \in Nat, StartsAt(h, p) PROVE TurnStart(h) = p
  <1>1. \A q \in 1..Len(h) : h[q].role = "user" /\ (\A j \in (q + 1)..Len(h) : h[j].role # "user") => q = p
    <2> SUFFICES ASSUME NEW q \in 1..Len(h), h[q].role = "user",
                        \A j \in (q + 1)..Len(h) : h[j].role # "user", q # p
                 PROVE  FALSE
      OBVIOUS
    <2>1. p \in 1..Len(h) /\ (p \in (q + 1)..Len(h) \/ q \in (p + 1)..Len(h))
      BY DEF StartsAt
    <2> QED BY <2>1 DEF StartsAt
  <1> QED BY <1>1, Zenon DEF TurnStart, StartsAt

LEMMA StartStays ==
  ASSUME NEW h \in Seq(Message), NEW m \in Message, m.role # "user", NEW p, StartsAt(h, p)
  PROVE  StartsAt(Append(h, m), p)
  <1> DEFINE hm == Append(h, m)
  <1>1. Len(hm) = Len(h) + 1 /\ (\A i \in 1..Len(h) : hm[i] = h[i]) /\ hm[Len(h) + 1] = m
    BY Appended
  <1> HIDE DEF hm
  <1>2. p \in 1..Len(hm) /\ hm[p].role = "user"
    BY <1>1 DEF StartsAt
  <1>3. ASSUME NEW j \in (p + 1)..Len(hm) PROVE hm[j].role # "user"
    <2>1. CASE j = Len(h) + 1
      BY <1>1, <2>1
    <2>2. CASE j # Len(h) + 1
      <3>1. j \in (p + 1)..Len(h) /\ j \in 1..Len(h)
        BY <1>1, <2>2 DEF StartsAt
      <3> QED BY <1>1, <3>1 DEF StartsAt
    <2> QED BY <2>1, <2>2
  <1>4. StartsAt(hm, p)
    BY <1>2, <1>3 DEF StartsAt
  <1> QED BY <1>4 DEF hm

LEMMA RunsFinite ==
  ASSUME NEW h \in Seq(Message), NEW p, NEW c
  PROVE  /\ RunsSince(h, p, c) \subseteq 1..Len(h)
         /\ IsFiniteSet(RunsSince(h, p, c)) /\ Cardinality(RunsSince(h, p, c)) \in Nat
  <1>1. RunsSince(h, p, c) \subseteq 1..Len(h)
    BY DEF RunsSince, Ran
  <1>2. Len(h) \in Nat /\ 1 \in Int /\ Len(h) \in Int
    OBVIOUS
  <1>3. IsFiniteSet(1..Len(h))
    BY <1>2, FS_Interval
  <1> QED BY <1>1, <1>3, FS_Subset, FS_CardinalityType

LEMMA RunsStay ==
  ASSUME NEW h \in Seq(Message), NEW m \in Message, ~(m.role = "tool" /\ m.result \in AllowCalls)
  PROVE  Ran(Append(h, m)) = Ran(h) /\ \A p, c : RunsSince(Append(h, m), p, c) = RunsSince(h, p, c)
  <1> DEFINE hm == Append(h, m)
  <1>1. Len(hm) = Len(h) + 1 /\ (\A i \in 1..Len(h) : hm[i] = h[i]) /\ hm[Len(h) + 1] = m
    BY Appended
  <1> HIDE DEF hm
  <1>2. Ran(hm) = Ran(h)
    BY <1>1 DEF Ran
  <1>3. \A i \in Ran(h) : hm[i] = h[i]
    BY <1>1 DEF Ran
  <1>4. \A p, c : RunsSince(hm, p, c) = RunsSince(h, p, c)
    BY <1>2, <1>3 DEF RunsSince
  <1> QED BY <1>2, <1>4 DEF hm

LEMMA RunsGrow ==
  ASSUME NEW h \in Seq(Message), NEW m \in Message, m.role = "tool", m.result \in AllowCalls,
         NEW p \in 1..Len(h)
  PROVE  /\ Ran(Append(h, m)) = Ran(h) \cup {Len(h) + 1}
         /\ \A c : Cardinality(RunsSince(Append(h, m), p, c)) =
                     Cardinality(RunsSince(h, p, c)) + (IF m.result = c THEN 1 ELSE 0)
  <1> DEFINE hm == Append(h, m)
  <1>1. Len(hm) = Len(h) + 1 /\ (\A i \in 1..Len(h) : hm[i] = h[i]) /\ hm[Len(h) + 1] = m
        /\ Len(h) \in Nat
    BY Appended
  <1> HIDE DEF hm
  <1>2. Ran(hm) = Ran(h) \cup {Len(h) + 1}
    BY <1>1 DEF Ran
  <1>3. \A i \in Ran(h) : hm[i] = h[i]
    BY <1>1 DEF Ran
  <1>4. ASSUME NEW c
        PROVE  Cardinality(RunsSince(hm, p, c)) =
                 Cardinality(RunsSince(h, p, c)) + (IF m.result = c THEN 1 ELSE 0)
    <2>1. CASE m.result = c
      <3>1. RunsSince(hm, p, c) = RunsSince(h, p, c) \cup {Len(h) + 1}
        BY <1>1, <1>2, <1>3, <2>1 DEF RunsSince
      <3>2. Len(h) + 1 \notin RunsSince(h, p, c)
        BY <1>1, RunsFinite
      <3>3. Cardinality(RunsSince(h, p, c) \cup {Len(h) + 1}) = Cardinality(RunsSince(h, p, c)) + 1
        BY <3>2, RunsFinite, FS_AddElement
      <3> QED BY <2>1, <3>1, <3>3
    <2>2. CASE m.result # c
      <3>1. RunsSince(hm, p, c) = RunsSince(h, p, c)
        BY <1>1, <1>2, <1>3, <2>2 DEF RunsSince
      <3>2. Cardinality(RunsSince(h, p, c)) \in Nat
        BY RunsFinite
      <3> QED BY <2>2, <3>1, <3>2
    <2> QED BY <2>1, <2>2
  <1> QED BY <1>2, <1>4 DEF hm

(* The conversation *)

LEMMA AppendTold ==
  ASSUME NEW h \in Seq(Message), NEW m \in Message, m.role # "tool", Owned(h)
  PROVE  Owned(Append(h, m))
  <1> DEFINE hm == Append(h, m)
  <1>1. Len(hm) = Len(h) + 1 /\ (\A i \in 1..Len(h) : hm[i] = h[i]) /\ hm[Len(h) + 1] = m
        /\ Len(h) \in Nat
    BY Appended
  <1> HIDE DEF hm
  <1>2. ASSUME NEW i \in 1..Len(hm), hm[i].role = "tool"
        PROVE  \E j \in 1..(i - 1) :
                 /\ hm[j].role = "assistant" /\ i - j <= Len(hm[j].calls) /\ hm[j].calls[i - j] = hm[i].of
                 /\ \A k \in (j + 1)..i : hm[k].role = "tool"
    <2>1. i \in 1..Len(h) /\ hm[i] = h[i]
      BY <1>1, <1>2
    <2>2. PICK j \in 1..(i - 1) :
            /\ h[j].role = "assistant" /\ i - j <= Len(h[j].calls) /\ h[j].calls[i - j] = h[i].of
            /\ \A k \in (j + 1)..i : h[k].role = "tool"
      BY <1>2, <2>1 DEF Owned
    <2>3. j \in 1..Len(h) /\ \A k \in (j + 1)..i : k \in 1..Len(h)
      BY <2>1
    <2>4. hm[j] = h[j] /\ \A k \in (j + 1)..i : hm[k] = h[k]
      BY <1>1, <2>3
    <2> QED BY <2>1, <2>2, <2>4
  <1>3. Owned(hm)
    BY <1>2 DEF Owned
  <1> QED BY <1>3 DEF hm

\* What is answered stays so.
LEMMA AnsweredStays ==
  ASSUME NEW h \in Seq(Message), NEW m \in Message, NEW i \in 1..Len(h), Answered(h, i)
  PROVE  Answered(Append(h, m), i)
  <1> DEFINE hm == Append(h, m)
  <1>1. Len(hm) = Len(h) + 1 /\ (\A j \in 1..Len(h) : hm[j] = h[j]) /\ Len(h) \in Nat
    BY Appended
  <1> HIDE DEF hm
  <1>2. ASSUME NEW k \in 1..Len(hm[i].calls)
        PROVE  i + k <= Len(hm) /\ hm[i + k].role = "tool" /\ hm[i + k].of = hm[i].calls[k]
    <2>1. hm[i] = h[i] /\ k \in 1..Len(h[i].calls)
      BY <1>1
    <2>2. i + k <= Len(h) /\ h[i + k].role = "tool" /\ h[i + k].of = h[i].calls[k]
      BY <2>1 DEF Answered
    <2>3. k >= 1 /\ k \in Int
      OBVIOUS
    <2>4. i + k \in 1..Len(h)
      BY <2>2, <2>3
    <2> QED BY <1>1, <2>1, <2>2, <2>4
  <1>3. Answered(hm, i)
    BY <1>2 DEF Answered
  <1> QED BY <1>3 DEF hm

LEMMA AllAnsweredStays ==
  ASSUME NEW h \in Seq(Message), NEW m \in Message, AllAnswered(h),
         ~(m.role = "assistant" /\ m.stop = "tool_calls")
  PROVE  AllAnswered(Append(h, m))
  <1> DEFINE hm == Append(h, m)
  <1>1. Len(hm) = Len(h) + 1 /\ (\A j \in 1..Len(h) : hm[j] = h[j]) /\ hm[Len(h) + 1] = m /\ Len(h) \in Nat
    BY Appended
  <1>2. \A i \in 1..Len(h) : Answered(h, i) => Answered(hm, i)
    BY AnsweredStays
  <1> HIDE DEF hm
  <1>3. ASSUME NEW i \in 1..Len(hm), Asks(hm, i) PROVE Answered(hm, i)
    <2>1. i \in 1..Len(h) /\ Asks(h, i)
      BY <1>1, <1>3 DEF Asks
    <2> QED BY <1>2, <2>1 DEF AllAnswered
  <1>4. AllAnswered(hm)
    BY <1>3 DEF AllAnswered
  <1> QED BY <1>4 DEF hm

\* A response with calls opens their answers.
LEMMA AnswersOpen ==
  ASSUME NEW h \in Seq(Message), NEW m \in Message, AllAnswered(h), NEW rest \in Seq(ToolCall),
         m.role = "assistant", m.stop = "tool_calls", Len(m.calls) = Len(rest),
         \A k \in 1..Len(rest) : m.calls[k] = rest[k].id
  PROVE  AnsweredUpTo(Append(h, m), rest, Len(h) + 1)
  <1> DEFINE hm == Append(h, m)
             p == Len(h) + 1
  <1>1. Len(hm) = p /\ (\A j \in 1..Len(h) : hm[j] = h[j]) /\ hm[p] = m /\ Len(h) \in Nat
    BY Appended
  <1>2. \A i \in 1..Len(h) : Answered(h, i) => Answered(hm, i)
    BY AnsweredStays
  <1> HIDE DEF hm
  <1>3. Asks(hm, p)
    BY <1>1 DEF Asks
  <1>4. ASSUME NEW i \in 1..Len(hm), i # p, Asks(hm, i) PROVE Answered(hm, i)
    <2>1. i \in 1..Len(h) /\ Asks(h, i)
      BY <1>1, <1>4 DEF Asks
    <2> QED BY <1>2, <2>1 DEF AllAnswered
  <1>5. p + Len(hm[p].calls) = Len(hm) + Len(rest)
    BY <1>1
  <1>6. Len(hm) - p = 0 /\ \A k \in 1..Len(rest) : Len(hm) - p + k = k
    BY <1>1
  <1>7. \A k \in 1..(Len(hm) - p) : hm[p + k].role = "tool" /\ hm[p + k].of = hm[p].calls[k]
    BY <1>6
  <1>8. \A k \in 1..Len(rest) : rest[k].id = hm[p].calls[Len(hm) - p + k]
    BY <1>1, <1>6
  <1>9. AnsweredUpTo(hm, rest, p)
    BY <1>3, <1>4, <1>5, <1>7, <1>8 DEF AnsweredUpTo
  <1> QED BY <1>9 DEF hm

LEMMA BeforeTheLast ==
  ASSUME NEW n \in Nat, NEW p \in 1..n, NEW l, l = n + 1, NEW k \in 1..(l - p), p + k # n + 1
  PROVE  k \in 1..(n - p) /\ p + k \in 1..n
  OBVIOUS

\* A result answers the first of the calls that are left.
LEMMA AnswersNext ==
  ASSUME NEW h \in Seq(Message), NEW rest \in Seq(ToolCall), NEW p \in 1..Len(h),
         AnsweredUpTo(h, rest, p), Owned(h), rest # <<>>,
         NEW m \in Message, m.role = "tool", m.of = rest[1].id
  PROVE  AnsweredUpTo(Append(h, m), Tail(rest), p) /\ Owned(Append(h, m))
  <1> DEFINE hm == Append(h, m)
             tl == Tail(rest)
             n == Len(h)
  <1>1. Len(hm) = n + 1 /\ (\A j \in 1..n : hm[j] = h[j]) /\ hm[n + 1] = m /\ n \in Nat /\ p \in Int
        /\ p <= n
    BY Appended
  <1>2. Len(rest) >= 1 /\ Len(tl) = Len(rest) - 1 /\ Len(rest) \in Nat
        /\ \A k \in 1..Len(tl) : tl[k] = rest[k + 1]
    OBVIOUS
  <1>3. \A i \in 1..n : Answered(h, i) => Answered(hm, i)
    BY AnsweredStays
  <1>4. hm[p] = h[p] /\ Asks(h, p)
    BY <1>1 DEF AnsweredUpTo
  <1> HIDE DEF hm, tl, n
  <1>5. Asks(hm, p)
    BY <1>1, <1>4 DEF Asks, n
  <1>6. ASSUME NEW i \in 1..Len(hm), i # p, Asks(hm, i) PROVE Answered(hm, i)
    <2>1. i \in 1..n /\ Asks(h, i)
      BY <1>1, <1>6 DEF Asks, n
    <2> QED BY <1>3, <1>6, <2>1 DEF AnsweredUpTo, n
  <1>7. p + Len(h[p].calls) = n + Len(rest)
    BY DEF AnsweredUpTo, n
  <1>8. Len(h[p].calls) \in Nat
    <2>1. h[p] \in Message /\ h[p].role = "assistant"
      BY <1>4 DEF Asks
    <2> QED BY <2>1, MessageParts
  <1>9. p + Len(hm[p].calls) = Len(hm) + Len(tl)
    <2>1. Len(hm) + Len(tl) = n + Len(rest)
      BY <1>1, <1>2
    <2> QED BY <1>4, <1>7, <2>1
  <1>10. m.of = h[p].calls[n + 1 - p]
    <2>1. 1 \in 1..Len(rest) /\ n - p + 1 = n + 1 - p
      BY <1>1, <1>2
    <2> QED BY <2>1 DEF AnsweredUpTo, n
  <1>11. ASSUME NEW k \in 1..(Len(hm) - p)
         PROVE  hm[p + k].role = "tool" /\ hm[p + k].of = hm[p].calls[k]
    <2>1. CASE p + k = n + 1
      <3>1. k = n + 1 - p
        BY <1>1, <2>1
      <3> QED BY <1>1, <1>4, <1>10, <2>1, <3>1
    <2>2. CASE p + k # n + 1
      <3>0. Len(hm) = n + 1 /\ n \in Nat /\ p \in 1..n
        BY <1>1
      <3>1. k \in 1..(n - p) /\ p + k \in 1..n
        BY <3>0, <2>2, BeforeTheLast, Zenon
      <3>2. h[p + k].role = "tool" /\ h[p + k].of = h[p].calls[k]
        BY <3>1 DEF AnsweredUpTo, n
      <3> QED BY <1>1, <1>4, <3>1, <3>2
    <2> QED BY <2>1, <2>2
  <1>12. ASSUME NEW k \in 1..Len(tl) PROVE tl[k].id = hm[p].calls[Len(hm) - p + k]
    <2>1. k + 1 \in 1..Len(rest) /\ n - p + (k + 1) = Len(hm) - p + k
      BY <1>1, <1>2
    <2>2. rest[k + 1].id = h[p].calls[n - p + (k + 1)]
      BY <2>1 DEF AnsweredUpTo, n
    <2> QED BY <1>2, <1>4, <2>1, <2>2
  <1>13. AnsweredUpTo(hm, tl, p)
    BY <1>5, <1>6, <1>9, <1>11, <1>12 DEF AnsweredUpTo
  <1>14. ASSUME NEW i \in 1..Len(hm), hm[i].role = "tool"
         PROVE  \E j \in 1..(i - 1) :
                  /\ hm[j].role = "assistant" /\ i - j <= Len(hm[j].calls) /\ hm[j].calls[i - j] = hm[i].of
                  /\ \A k \in (j + 1)..i : hm[k].role = "tool"
    <2>1. CASE i = n + 1
      <3>1. p \in 1..(i - 1) /\ hm[p].role = "assistant"
        BY <1>1, <1>4, <2>1 DEF Asks
      <3>2. i - p <= Len(hm[p].calls)
        BY <1>1, <1>2, <1>4, <1>7, <1>8, <2>1
      <3>3. hm[p].calls[i - p] = hm[i].of
        BY <1>1, <1>4, <1>10, <2>1
      <3>4. ASSUME NEW k \in (p + 1)..i PROVE hm[k].role = "tool"
        <4>1. k - p \in 1..(Len(hm) - p) /\ p + (k - p) = k
          BY <1>1, <2>1
        <4> QED BY <1>11, <4>1
      <3> QED BY <3>1, <3>2, <3>3, <3>4
    <2>2. CASE i # n + 1
      <3>1. i \in 1..n /\ hm[i] = h[i]
        BY <1>1, <2>2
      <3>2. PICK j \in 1..(i - 1) :
              /\ h[j].role = "assistant" /\ i - j <= Len(h[j].calls) /\ h[j].calls[i - j] = h[i].of
              /\ \A k \in (j + 1)..i : h[k].role = "tool"
        BY <1>14, <3>1 DEF Owned, n
      <3>3. j \in 1..n /\ \A k \in (j + 1)..i : k \in 1..n
        BY <1>1, <3>1
      <3>4. hm[j] = h[j] /\ \A k \in (j + 1)..i : hm[k] = h[k]
        BY <1>1, <3>3
      <3> QED BY <3>1, <3>2, <3>4
    <2> QED BY <2>1, <2>2
  <1>15. Owned(hm)
    BY <1>14 DEF Owned
  <1> QED BY <1>13, <1>15 DEF hm, tl

\* When none is left every call has its answer.
LEMMA AnswersComplete ==
  ASSUME NEW h \in Seq(Message), NEW p \in 1..Len(h), AnsweredUpTo(h, <<>>, p)
  PROVE  AllAnswered(h)
  <1>1. h[p] \in Message /\ h[p].role = "assistant" /\ Len(h) \in Nat /\ p \in Int
    BY DEF AnsweredUpTo, Asks
  <1>2. Len(h[p].calls) \in Nat
    BY <1>1, MessageParts
  <1>3. Len(<<>>) = 0 /\ p + Len(h[p].calls) = Len(h) + Len(<<>>)
    BY DEF AnsweredUpTo
  <1>4. Len(h[p].calls) = Len(h) - p
    BY <1>1, <1>2, <1>3
  <1>5. \A k \in 1..Len(h[p].calls) :
          p + k <= Len(h) /\ h[p + k].role = "tool" /\ h[p + k].of = h[p].calls[k]
    <2>1. \A k \in 1..(Len(h) - p) : h[p + k].role = "tool" /\ h[p + k].of = h[p].calls[k]
      BY DEF AnsweredUpTo
    <2>2. \A k \in 1..(Len(h) - p) : p + k <= Len(h)
      BY <1>1
    <2> QED BY <1>4, <2>1, <2>2, Zenon
  <1>6. Answered(h, p)
    BY <1>5 DEF Answered
  <1> QED BY <1>6 DEF AnsweredUpTo, AllAnswered

LEMMA ShapeKeeps ==
  ASSUME NEW m \in Message
  PROVE  /\ Shape(m) \in Message /\ Shape(m).role = m.role
         /\ m.role = "assistant" => Shape(m).calls = m.calls /\ Shape(m).stop = m.stop
         /\ m.role = "tool" => Shape(m).of = m.of
  <1>1. CASE m.role = "user"
    BY <1>1 DEF Message, Shape
  <1>2. CASE m.role = "assistant"
    <2>1. m \in [role : {"assistant"}, text : Seq(Nat), calls : Seq(CallId), stop : Reasons]
      BY <1>2 DEF Message
    <2>2. Shape(m) = [m EXCEPT !.text = <<>>] /\ <<>> \in Seq(Nat)
      BY <1>2 DEF Shape
    <2> QED BY <1>2, <2>1, <2>2 DEF Message
  <1>3. CASE m.role = "tool"
    <2>1. m \in [role : {"tool"}, of : CallId, result : NotRun \cup AllowCalls]
      BY <1>3 DEF Message
    <2>2. Shape(m) = [m EXCEPT !.result = "earlier"] /\ "earlier" \in NotRun
      BY <1>3 DEF Shape, NotRun
    <2> QED BY <1>3, <2>1, <2>2 DEF Message
  <1> QED BY <1>1, <1>2, <1>3, MessageParts

\* The tail begins after the oldest results of those that are kept at most, or is empty.
LEMMA TailStartsWell ==
  ASSUME NEW h \in Seq(Message)
  PROVE  /\ TailStart(h) \in 0..Len(h) /\ Len(h) - TailStart(h) <= Keep
         /\ TailStart(h) = Len(h) \/ h[TailStart(h) + 1].role # "tool"
  <1> DEFINE from == IF Len(h) > Keep THEN Len(h) - Keep ELSE 0
             Ends(s) == s = Len(h) \/ h[s + 1].role # "tool"
             T == {s \in from..Len(h) : Ends(s)}
  <1>1. Keep \in Nat /\ Len(h) \in Nat /\ from \in 0..Len(h) /\ Len(h) - from <= Keep
    BY LoopAssumption
  <1> HIDE DEF from
  <1>2. T \in SUBSET Nat /\ Len(h) \in T
    BY <1>1
  <1>3. PICK s \in T : \A q \in T : s <= q
    BY <1>2, LeastNumber
  <1>4. s \in from..Len(h) /\ Ends(s)
    BY <1>3
  <1>5. \A i \in (from + 1)..s : h[i].role = "tool"
    <2> SUFFICES ASSUME NEW i \in (from + 1)..s PROVE h[i].role = "tool"
      OBVIOUS
    <2>1. i - 1 \in from..Len(h) /\ i - 1 < s /\ (i - 1) + 1 = i
      BY <1>1, <1>4
    <2>2. i - 1 \notin T
      BY <1>1, <1>3, <1>4, <2>1
    <2> QED BY <2>1, <2>2
  <1>6. \E q \in from..Len(h) : (\A i \in (from + 1)..q : h[i].role = "tool") /\ Ends(q)
    BY <1>4, <1>5
  <1>7. TailStart(h) =
          CHOOSE q \in from..Len(h) : (\A i \in (from + 1)..q : h[i].role = "tool") /\ Ends(q)
    BY DEF TailStart, from
  <1>8. TailStart(h) \in from..Len(h) /\ Ends(TailStart(h))
    <2> HIDE DEF Ends
    <2> QED BY <1>6, <1>7, Zenon
  <1> QED BY <1>1, <1>8

LEMMA ShiftedBack ==
  ASSUME NEW s \in Nat, NEW n \in Nat, NEW i \in 1..(n - s), NEW q \in Int,
         NEW j \in 1..(i - 1), s + j = q, NEW k \in (j + 1)..i
  PROVE  k \in 1..(n - s) /\ s + k \in (q + 1)..(s + i)
  OBVIOUS

LEMMA TailIsWhole ==
  ASSUME NEW h \in Seq(Message), Owned(h), AllAnswered(h)
  PROVE  LET t == [i \in 1..(Len(h) - TailStart(h)) |-> Shape(h[TailStart(h) + i])]
         IN  t \in Seq(Message) /\ Len(t) <= Keep /\ Owned(t) /\ AllAnswered(t)
  <1> DEFINE s == TailStart(h)
             n == Len(h)
             t == [i \in 1..(n - s) |-> Shape(h[s + i])]
  <1>1. s \in 0..n /\ n - s <= Keep /\ (s = n \/ h[s + 1].role # "tool") /\ n \in Nat
    BY TailStartsWell
  <1> HIDE DEF s
  <1>2. \A i \in 1..(n - s) : s + i \in 1..n /\ h[s + i] \in Message
    BY <1>1
  <1>3. /\ t \in Seq(Message) /\ Len(t) = n - s
        /\ \A i \in 1..(n - s) : t[i] = Shape(h[s + i])
    <2>1. \A i \in 1..(n - s) : Shape(h[s + i]) \in Message
      BY <1>2, ShapeKeeps
    <2>2. n - s \in Nat
      BY <1>1
    <2> QED BY <2>1, <2>2
  <1> HIDE DEF t
  <1>4. \A i \in 1..(n - s) :
          /\ t[i].role = h[s + i].role
          /\ h[s + i].role = "assistant" => t[i].calls = h[s + i].calls /\ t[i].stop = h[s + i].stop
          /\ h[s + i].role = "tool" => t[i].of = h[s + i].of
    BY <1>2, <1>3, ShapeKeeps
  <1>5. ASSUME NEW i \in 1..Len(t), t[i].role = "tool"
        PROVE  \E j \in 1..(i - 1) :
                 /\ t[j].role = "assistant" /\ i - j <= Len(t[j].calls) /\ t[j].calls[i - j] = t[i].of
                 /\ \A k \in (j + 1)..i : t[k].role = "tool"
    <2>1. i \in 1..(n - s) /\ s + i \in 1..n /\ h[s + i].role = "tool" /\ t[i].of = h[s + i].of
      BY <1>2, <1>3, <1>4, <1>5
    <2>2. PICK q \in 1..((s + i) - 1) :
            /\ h[q].role = "assistant" /\ (s + i) - q <= Len(h[q].calls)
            /\ h[q].calls[(s + i) - q] = h[s + i].of
            /\ \A k \in (q + 1)..(s + i) : h[k].role = "tool"
      BY <2>1 DEF Owned
    <2>3. q > s
      <3> SUFFICES ASSUME q <= s PROVE FALSE
        BY <1>1
      <3>1. s + 1 \in (q + 1)..(s + i) /\ s # n
        BY <1>1, <2>1
      <3> QED BY <1>1, <2>2, <3>1
    <2> DEFINE j == q - s
    <2>4. j \in 1..(i - 1) /\ j \in 1..(n - s) /\ s + j = q /\ i - j = (s + i) - q
      BY <1>1, <2>1, <2>3
    <2> HIDE DEF j
    <2>5. t[j].role = "assistant" /\ t[j].calls = h[q].calls
      BY <1>4, <2>2, <2>4
    <2>6. ASSUME NEW k \in (j + 1)..i PROVE t[k].role = "tool"
      <3>1. s \in Nat /\ n \in Nat /\ q \in Int
        BY <1>1, <2>2
      <3>2. k \in 1..(n - s) /\ s + k \in (q + 1)..(s + i)
        BY <2>1, <2>4, <3>1, ShiftedBack
      <3> QED BY <1>4, <2>2, <3>2
    <2> QED BY <2>1, <2>2, <2>4, <2>5, <2>6
  <1>6. ASSUME NEW i \in 1..Len(t), Asks(t, i), NEW k \in 1..Len(t[i].calls)
        PROVE  i + k <= Len(t) /\ t[i + k].role = "tool" /\ t[i + k].of = t[i].calls[k]
    <2>1. i \in 1..(n - s) /\ s + i \in 1..n /\ Asks(h, s + i) /\ t[i].calls = h[s + i].calls
      BY <1>2, <1>3, <1>4, <1>6 DEF Asks
    <2>2. Answered(h, s + i) /\ k \in 1..Len(h[s + i].calls)
      BY <2>1 DEF AllAnswered
    <2>3. (s + i) + k <= n /\ h[(s + i) + k].role = "tool" /\ h[(s + i) + k].of = h[s + i].calls[k]
      BY <2>2 DEF Answered
    <2>4. k >= 1 /\ k \in Int
      OBVIOUS
    <2>5. i + k \in 1..(n - s) /\ s + (i + k) = (s + i) + k
      BY <1>1, <2>1, <2>3, <2>4
    <2> QED BY <1>3, <1>4, <2>1, <2>3, <2>5
  <1>7. Owned(t) /\ AllAnswered(t)
    BY <1>5, <1>6 DEF Owned, AllAnswered, Answered
  <1> QED BY <1>1, <1>3, <1>7 DEF s, t

(* The steps *)

LEMMA LoopTypes ==
  ASSUME LoopTypeOK
  PROVE  /\ kept \in Seq(Message) /\ stored \in Seq(Message) /\ todo \in Seq(ToolCall)
         /\ turns \in Nat /\ rounds \in Nat /\ heard \in Seq(Nat)
         /\ acc \in [text : Seq(Nat), calls : Seq(ToolCall), stop : Reasons,
                     started : BOOLEAN, done : BOOLEAN]
         /\ acc.text \in Seq(Nat) /\ SpokenBy(kept) \in Seq(Nat)
         /\ seen \in [Call -> Nat] /\ MaxRepeats \in Nat
  <1>1. LoopRounds \in Nat /\ MaxTurns \in Nat /\ MaxRepeats \in Nat
    BY LoopAssumption
  <1>2. kept \in Seq(Message) /\ stored \in Seq(Message) /\ todo \in Seq(ToolCall) /\ heard \in Seq(Nat)
        /\ seen \in [Call -> Nat]
    BY DEF LoopTypeOK
  <1>3. acc \in [text : Seq(Nat), calls : Seq(ToolCall), stop : Reasons,
                 started : BOOLEAN, done : BOOLEAN]
    BY DEF LoopTypeOK
  <1>4. turns \in Nat /\ rounds \in Nat
    BY <1>1 DEF LoopTypeOK
  <1>5. SpokenBy(kept) \in Seq(Nat)
    BY <1>2, MadeMessages, SpokenAppend
  <1> QED BY <1>1, <1>2, <1>3, <1>4, <1>5

LEMMA EmptyAcc ==
  /\ Empty \in [text : Seq(Nat), calls : Seq(ToolCall), stop : Reasons, started : BOOLEAN, done : BOOLEAN]
  /\ Empty.text = <<>>
  BY DEF Empty, Reasons

LEMMA LoopInitial == LoopInit => LoopInv
  <1> SUFFICES ASSUME LoopInit PROVE LoopInv
    OBVIOUS
  <1>0. LoopRounds \in Nat /\ MaxRepeats \in Nat /\ MaxTurns \in Nat /\ Keep \in Nat
    BY LoopAssumption
  <1>1. LoopTypeOK
    <2>1. <<>> \in Seq(Message) /\ Len(<<>>) = 0 /\ <<>> \in Seq(ToolCall) /\ <<>> \in Seq(Nat)
      OBVIOUS
    <2>2. seen \in [Call -> Nat]
      BY DEF LoopInit
    <2>3. acc \in [text : Seq(Nat), calls : Seq(ToolCall), stop : Reasons,
                   started : BOOLEAN, done : BOOLEAN]
      BY EmptyAcc DEF LoopInit
    <2>4. /\ format \in Format /\ turns \in 0..MaxTurns /\ loop \in LoopPC /\ loop = "idle"
          /\ rounds \in 0..(LoopRounds + 1) /\ held \in BOOLEAN
      <3>1. format \in Format /\ loop = "idle" /\ held \in BOOLEAN /\ turns = 0 /\ rounds = 0
        BY DEF LoopInit
      <3> QED BY <1>0, <3>1 DEF LoopPC
    <2>6. Len(stored) <= Keep
      BY <1>0, <2>1 DEF LoopInit
    <2>5. stored \in Seq(Message) /\ kept \in Seq(Message) /\ todo \in Seq(ToolCall) /\ heard \in Seq(Nat)
      BY <2>1 DEF LoopInit
    <2> QED BY <2>2, <2>3, <2>4, <2>5, <2>6 DEF LoopTypeOK
  <1>2. Idle
    BY DEF LoopInit, Idle
  <1>3. Conversation
    BY DEF LoopInit, Conversation, Owned, AllAnswered
  <1>4. Spoken /\ TurnHolds
    BY DEF LoopInit, Spoken, TurnHolds
  <1> QED BY <1>1, <1>2, <1>3, <1>4 DEF LoopInv

\* What an invariant says of the conversation while no call is handled.
LEMMA AtRest ==
  ASSUME Conversation, loop \notin {"calls", "tool"}
  PROVE  Owned(kept) /\ AllAnswered(kept) /\ Owned(stored) /\ AllAnswered(stored)
  BY DEF Conversation

\* Nothing is added to the conversation, and no call is taken up or done.
LEMMA LoopWaits ==
  ASSUME LoopInv, loop \in {"ask", "sent", "stream"}, loop' \in {"sent", "stream", "error"},
         UNCHANGED <<kept, stored, todo, seen, held>>
  PROVE  Conversation' /\ TurnHolds'
  <1>1. Conversation'
    BY DEF LoopInv, Conversation
  <1>2. PICK p \in 1..Len(kept) : StartsAt(kept, p) /\ Counted(p) /\ HeldSince(p)
    BY DEF LoopInv, TurnHolds
  <1>3. Counted(p)'
    BY <1>2 DEF Counted
  <1>4. HeldSince(p)'
    BY <1>2 DEF HeldSince
  <1>5. TurnHolds'
    BY <1>2, <1>3, <1>4 DEF TurnHolds
  <1> QED BY <1>1, <1>5

\* The request or its stream goes on or ends with an error.
LEMMA Streams ==
  ASSUME LoopInv,
         Send \/ RequestFails \/ FirstByteTimeout \/ StreamStarts \/ StreamBreaks \/ IdleTimeout
         \/ (loop = "stream" /\ Fail)
  PROVE  LoopInv'
  <1>1. /\ loop \in {"ask", "sent", "stream"} /\ loop' \in {"sent", "stream", "error"}
        /\ UNCHANGED <<kept, stored, todo, seen, held, rounds, format, turns, heard>>
        /\ acc' \in {acc, Empty} /\ (loop' # "stream" => acc' = Empty)
        /\ (loop' = "error" \/ acc' = acc) /\ (loop' # "error" => rounds <= LoopRounds)
    <2>1. CASE Fail /\ loop \in {"sent", "stream"}
      BY <2>1 DEF Fail, convVars
    <2>2. CASE Send \/ StreamStarts
      BY <2>2 DEF LoopInv, LoopTypeOK, Idle, Send, StreamStarts, convVars
    <2> QED BY <2>1, <2>2 DEF RequestFails, FirstByteTimeout, StreamBreaks, IdleTimeout
  <1>2. Conversation' /\ TurnHolds'
    BY <1>1, LoopWaits
  <1>3. LoopTypeOK'
    BY <1>1, EmptyAcc DEF LoopInv, LoopTypeOK, LoopPC
  <1>4. Idle'
    BY <1>1 DEF LoopInv, Idle
  <1>5. Spoken'
    BY <1>1 DEF LoopInv, Spoken
  <1> QED BY <1>2, <1>3, <1>4, <1>5 DEF LoopInv

\* An event of the stream that is no text.
LEMMA FedNoText ==
  ASSUME LoopInv, MessageStart \/ ToolCallDelta \/ FinishReason \/ Done PROVE LoopInv'
  <1> DEFINE Acc == [text : Seq(Nat), calls : Seq(ToolCall), stop : Reasons,
                     started : BOOLEAN, done : BOOLEAN]
  <1>1. /\ loop = "stream" /\ loop' = loop
        /\ UNCHANGED <<kept, stored, todo, seen, held, rounds, format, turns, heard>>
    BY DEF MessageStart, ToolCallDelta, FinishReason, Done, Feed, Open, convVars
  <1>2. acc \in Acc /\ turns \in Nat /\ rounds \in Nat
    BY LoopTypes DEF LoopInv
  <1>3. acc' \in Acc /\ acc'.text = acc.text
    <2>1. CASE MessageStart
      BY <1>2, <2>1 DEF MessageStart, Feed
    <2>2. CASE ToolCallDelta
      <3>1. PICK c \in NewCall(Len(acc.calls) + 1) : acc' = [acc EXCEPT !.calls = Append(@, c)]
        BY <2>2 DEF ToolCallDelta, Feed
      <3>2. Len(acc.calls) + 1 \in Nat
        BY <1>2
      <3>3. c \in ToolCall
        BY <1>2, <3>1, <3>2 DEF NewCall, ToolCall, CallId
      <3>4. Append(acc.calls, c) \in Seq(ToolCall)
        BY <1>2, <3>3
      <3> QED BY <1>2, <3>1, <3>4
    <2>3. CASE FinishReason
      BY <1>2, <2>3 DEF FinishReason, Feed, Reasons
    <2>4. CASE Done
      BY <1>2, <2>4 DEF Done, Feed
    <2> QED BY <2>1, <2>2, <2>3, <2>4
  <1>4. Conversation' /\ TurnHolds'
    BY <1>1, LoopWaits
  <1>5. LoopTypeOK'
    BY <1>1, <1>3 DEF LoopInv, LoopTypeOK
  <1>6. Idle'
    BY <1>1 DEF LoopInv, Idle
  <1>7. Spoken'
    BY <1>1, <1>3 DEF LoopInv, Spoken
  <1> QED BY <1>4, <1>5, <1>6, <1>7 DEF LoopInv

LEMMA ConcatAppend ==
  ASSUME NEW a \in Seq(Nat), NEW b \in Seq(Nat), NEW n \in Nat
  PROVE  Append(a \o b, n) = a \o Append(b, n)
  <1>1. a \o b \in Seq(Nat) /\ <<n>> \in Seq(Nat)
    BY ConcatProperties
  <1>2. Append(a \o b, n) = (a \o b) \o <<n>>
    BY <1>1, AppendIsConcat
  <1>3. Append(b, n) = b \o <<n>>
    BY AppendIsConcat
  <1>4. (a \o b) \o <<n>> = a \o (b \o <<n>>)
    BY <1>1, ConcatAssociative
  <1> QED BY <1>2, <1>3, <1>4, Zenon

LEMMA FedText == ASSUME LoopInv, TextDelta PROVE LoopInv'
  <1> DEFINE Acc == [text : Seq(Nat), calls : Seq(ToolCall), stop : Reasons,
                     started : BOOLEAN, done : BOOLEAN]
  <1>1. /\ loop = "stream" /\ loop' = loop
        /\ UNCHANGED <<kept, stored, todo, seen, held, rounds, format, turns>>
        /\ acc' = [acc EXCEPT !.text = Append(@, rounds)] /\ heard' = Append(heard, rounds)
    BY DEF TextDelta, Feed, Open, convVars
  <1>2. acc \in Acc /\ rounds \in Nat /\ heard \in Seq(Nat) /\ kept \in Seq(Message)
    BY LoopTypes DEF LoopInv
  <1>3. Append(acc.text, rounds) \in Seq(Nat) /\ heard' \in Seq(Nat)
    BY <1>1, <1>2
  <1>4. acc' \in Acc /\ acc'.text = Append(acc.text, rounds)
    BY <1>1, <1>2, <1>3
  <1>5. Conversation' /\ TurnHolds'
    BY <1>1, LoopWaits
  <1>6. LoopTypeOK'
    BY <1>1, <1>3, <1>4 DEF LoopInv, LoopTypeOK
  <1>7. Idle'
    BY <1>1 DEF LoopInv, Idle
  <1>8. Spoken'
    <2>1. heard = SpokenBy(kept) \o acc.text /\ SpokenBy(kept) \in Seq(Nat) /\ acc.text \in Seq(Nat)
      BY <1>1, <1>2, SpokenAppend, MadeMessages DEF LoopInv, Spoken
    <2>2. Append(SpokenBy(kept) \o acc.text, rounds) = SpokenBy(kept) \o Append(acc.text, rounds)
      BY <1>2, <2>1, ConcatAppend
    <2> QED BY <1>1, <1>4, <2>1, <2>2 DEF Spoken
  <1> QED BY <1>5, <1>6, <1>7, <1>8 DEF LoopInv

\* The assistant's message ends the response or the turn.
LEMMA Responds ==
  ASSUME LoopInv, loop \in {"ask", "sent", "stream"},
         NEW t \in Seq(Nat), NEW cs \in Seq(ToolCall), NEW r \in Reasons,
         kept' = Append(kept, AssistantMessage(t, cs, r)),
         todo' = IF r = "tool_calls" THEN cs ELSE <<>>,
         loop' = CASE r = "tool_calls" -> "calls" [] r = "stop" -> "reply" [] OTHER -> "error",
         acc' = Empty, heard' \in Seq(Nat), heard' = SpokenBy(kept) \o t,
         loop' = "calls" => rounds <= LoopRounds,
         UNCHANGED <<stored, seen, held, rounds, format, turns>>
  PROVE  LoopInv'
  <1> DEFINE m == AssistantMessage(t, cs, r)
  <1>1. /\ m \in Message /\ m.role = "assistant" /\ m.text = t /\ m.stop = r
        /\ Len(m.calls) = Len(cs) /\ \A k \in 1..Len(cs) : m.calls[k] = cs[k].id
    BY MadeMessages
  <1>2. kept' = Append(kept, m)
    OBVIOUS
  <1> HIDE DEF m
  <1>3. kept \in Seq(Message) /\ kept' \in Seq(Message) /\ Len(kept') = Len(kept) + 1 /\ Len(kept) \in Nat
        /\ (\A i \in 1..Len(kept) : kept'[i] = kept[i]) /\ kept'[Len(kept) + 1] = m
    BY <1>1, <1>2, Appended DEF LoopInv, LoopTypeOK
  <1>4. loop' \in {"calls", "reply", "error"} /\ (loop' = "calls" <=> r = "tool_calls")
    OBVIOUS
  <1>5. LoopTypeOK'
    <2>1. todo' \in Seq(ToolCall)
      OBVIOUS
    <2> QED BY <1>3, <1>4, <2>1, EmptyAcc DEF LoopInv, LoopTypeOK, LoopPC
  <1>6. ~held
    BY DEF LoopInv, Idle
  <1>7. Idle'
    BY <1>4, <1>6 DEF Idle
  <1>8. Conversation'
    <2>1. Owned(kept) /\ AllAnswered(kept) /\ Owned(stored) /\ AllAnswered(stored)
      BY AtRest DEF LoopInv
    <2>2. Owned(kept')
      BY <1>1, <1>2, <1>3, <2>1, AppendTold
    <2>3. CASE r = "tool_calls"
      <3>1. AnsweredUpTo(Append(kept, m), cs, Len(kept) + 1)
        BY <1>1, <1>3, <2>1, <2>3, AnswersOpen
      <3>2. Len(kept) + 1 \in 1..Len(kept')
        BY <1>3
      <3>3. \E p \in 1..Len(kept') : AnsweredUpTo(kept', todo', p)
        BY <1>2, <2>3, <3>1, <3>2
      <3> QED BY <1>4, <2>1, <2>2, <2>3, <3>3 DEF Conversation
    <2>4. CASE r # "tool_calls"
      <3>1. AllAnswered(kept')
        BY <1>1, <1>2, <1>3, <2>1, <2>4, AllAnsweredStays
      <3> QED BY <1>4, <2>1, <2>2, <2>4, <3>1 DEF Conversation
    <2> QED BY <2>3, <2>4
  <1>9. Spoken'
    <2>1. SpokenBy(kept') = SpokenBy(kept) \o t
      BY <1>1, <1>2, <1>3, SpokenAppend DEF SaidWith
    <2>2. SpokenBy(kept) \o t \in Seq(Nat)
      OBVIOUS
    <2>3. (SpokenBy(kept) \o t) \o <<>> = SpokenBy(kept) \o t
      BY <2>2
    <2> QED BY <2>1, <2>3, EmptyAcc DEF Spoken
  <1>10. TurnHolds'
    <2>1. PICK p \in 1..Len(kept) : StartsAt(kept, p) /\ Counted(p) /\ HeldSince(p)
      BY DEF LoopInv, TurnHolds
    <2>2. StartsAt(kept', p) /\ p \in 1..Len(kept')
      <3>1. StartsAt(Append(kept, m), p)
        BY <1>1, <1>3, <2>1, StartStays
      <3> QED BY <1>2, <1>3, <3>1
    <2>3. Ran(kept') = Ran(kept) /\ \A c : RunsSince(kept', p, c) = RunsSince(kept, p, c)
      BY <1>1, <1>2, <1>3, RunsStay
    <2>4. Counted(p)'
      <3> SUFFICES ASSUME NEW c \in Call
                   PROVE  /\ Cardinality(RunsSince(kept', p, c)) <= MaxRepeats
                          /\ Cardinality(RunsSince(kept', p, c)) <= seen[c]
                          /\ Cardinality(RunsSince(kept', p, c)) \in Nat
        <4>1. loop' # "tool" /\ seen' = seen
          BY <1>4
        <4> QED BY <4>1 DEF Counted
      <3>1. Cardinality(RunsSince(kept, p, c)) \in Nat
        BY <1>3, RunsFinite
      <3> QED BY <2>1, <2>3, <3>1 DEF Counted
    <2>5. HeldSince(p)'
      BY <1>1, <1>3, <2>1, <2>3 DEF HeldSince
    <2> QED BY <2>2, <2>4, <2>5 DEF TurnHolds
  <1> QED BY <1>5, <1>7, <1>8, <1>9, <1>10 DEF LoopInv

\* Giving up, a response in one piece, and a stream that ends.
LEMMA ResponseEnds ==
  ASSUME LoopInv, GiveUp \/ WholeResponse \/ StreamEnds PROVE LoopInv'
  <1>1. /\ kept \in Seq(Message) /\ turns \in Nat /\ rounds \in Nat /\ heard \in Seq(Nat)
        /\ acc.text \in Seq(Nat) /\ acc.calls \in Seq(ToolCall) /\ acc.stop \in Reasons
        /\ SpokenBy(kept) \in Seq(Nat)
    BY LoopTypes DEF LoopInv
  <1>2. CASE GiveUp
    <2>1. /\ loop = "ask" /\ acc = Empty /\ todo = <<>>
          /\ kept' = Append(kept, AssistantMessage(<<rounds>>, <<>>, "stop")) /\ loop' = "reply"
          /\ heard' = Append(heard, rounds)
          /\ UNCHANGED <<format, stored, turns, rounds, seen, acc, todo, held>>
      BY <1>2 DEF GiveUp, LoopInv, Idle, convVars
    <2>2. heard = SpokenBy(kept) \o <<>>
      BY <2>1, EmptyAcc DEF LoopInv, Spoken
    <2>3. heard' = SpokenBy(kept) \o <<rounds>>
      BY <1>1, <2>1, <2>2, ConcatEmptySeq, AppendIsConcat
    <2>4. <<rounds>> \in Seq(Nat) /\ <<>> \in Seq(ToolCall) /\ heard' \in Seq(Nat)
      BY <1>1, <2>1
    <2>5. "stop" \in Reasons
      BY DEF Reasons
    <2> QED BY <2>1, <2>3, <2>4, <2>5, Responds
  <1>3. CASE WholeResponse
    <2>1. PICK n \in 0..MaxText, stop \in Reasons,
               cs \in {<<>>} \cup {<<c>> : c \in IF Made < LoopCalls THEN NewCall(1) ELSE {}} :
            /\ heard' = heard \o [i \in 1..n |-> rounds]
            /\ Respond([i \in 1..n |-> rounds], cs, stop)
      BY <1>3 DEF WholeResponse
    <2> DEFINE t == [i \in 1..n |-> rounds]
    <2>2. t \in Seq(Nat) /\ heard \o t \in Seq(Nat)
      BY <1>1, LoopAssumption
    <2>3. cs \in Seq(ToolCall)
      <3>1. \A c \in NewCall(1) : c \in ToolCall
        BY <1>1 DEF NewCall, ToolCall, CallId
      <3>2. <<>> \in Seq(ToolCall) /\ \A c \in ToolCall : <<c>> \in Seq(ToolCall)
        OBVIOUS
      <3>3. cs = <<>> \/ \E c \in NewCall(1) : cs = <<c>>
        BY <2>1
      <3> QED BY <3>1, <3>2, <3>3
    <2>4. loop = "sent" /\ rounds <= LoopRounds
      BY <1>3 DEF WholeResponse, LoopInv, LoopTypeOK
    <2>5. heard = SpokenBy(kept) \o <<>>
      BY <2>4, EmptyAcc DEF LoopInv, Spoken, Idle
    <2>6. heard = SpokenBy(kept)
      BY <1>1, <2>5, ConcatEmptySeq
    <2> HIDE DEF t
    <2>7. /\ kept' = Append(kept, AssistantMessage(t, cs, stop))
          /\ todo' = IF stop = "tool_calls" THEN cs ELSE <<>>
          /\ loop' = CASE stop = "tool_calls" -> "calls" [] stop = "stop" -> "reply" [] OTHER -> "error"
          /\ acc' = Empty /\ heard' = heard \o t
          /\ UNCHANGED <<stored, seen, held, rounds, format, turns>>
      BY <2>1 DEF Respond, t, convVars
    <2> QED BY <2>2, <2>3, <2>4, <2>6, <2>7, Responds
  <1>4. CASE StreamEnds
    <2>1. CASE ~Finished
      <3>1. loop = "stream" /\ Fail
        BY <1>4, <2>1 DEF StreamEnds
      <3> QED BY <3>1, Streams
    <2>2. CASE Finished
      <3>1. loop = "stream" /\ rounds <= LoopRounds /\ heard = SpokenBy(kept) \o acc.text
        BY <1>4 DEF StreamEnds, LoopInv, LoopTypeOK, Spoken
      <3>2. /\ kept' = Append(kept, AssistantMessage(acc.text, acc.calls, acc.stop))
            /\ todo' = IF acc.stop = "tool_calls" THEN acc.calls ELSE <<>>
            /\ loop' = CASE acc.stop = "tool_calls" -> "calls" [] acc.stop = "stop" -> "reply"
                       [] OTHER -> "error"
            /\ acc' = Empty /\ heard' = heard
            /\ UNCHANGED <<stored, seen, held, rounds, format, turns>>
        BY <1>4, <2>2 DEF StreamEnds, Respond, convVars
      <3> QED BY <1>1, <3>1, <3>2, Responds
    <2> QED BY <2>1, <2>2
  <1> QED BY <1>2, <1>3, <1>4

LEMMA BeforeLast ==
  ASSUME NEW n \in Nat, NEW p \in 1..n, NEW j \in p..(n + 1), j # n + 1
  PROVE  j \in p..n /\ j \in 1..n
  OBVIOUS

\* A call gets its result: of a run, or of none.
LEMMA AnswersAll ==
  ASSUME LoopInv, loop \in {"calls", "tool"}, todo # <<>>,
         NEW r \in NotRun \cup AllowCalls,
         kept' = Append(kept, ToolResult(todo[1].id, r)), todo' = Tail(todo),
         loop' = "calls", UNCHANGED <<format, stored, turns, rounds, acc, heard>>,
         seen' \in [Call -> Nat], \A c \in Call : seen[c] <= seen'[c],
         held' \in BOOLEAN, r = "held" => held', held => held',
         r \in AllowCalls => loop = "tool" /\ ~held /\ r = todo[1].call
  PROVE  LoopInv'
  <1> DEFINE m == ToolResult(todo[1].id, r)
  <1>1. kept \in Seq(Message) /\ todo \in Seq(ToolCall) /\ seen \in [Call -> Nat] /\ MaxRepeats \in Nat
        /\ SpokenBy(kept) \in Seq(Nat) /\ Len(kept) \in Nat
    BY LoopTypes DEF LoopInv
  <1>2. todo[1] \in ToolCall /\ todo[1].id \in CallId
    <2>1. todo[1] \in ToolCall
      BY <1>1
    <2> QED BY <2>1 DEF ToolCall
  <1>3. m \in Message /\ m.role = "tool" /\ m.of = todo[1].id /\ m.result = r
    BY <1>2, MadeMessages
  <1>4. kept' = Append(kept, m)
    OBVIOUS
  <1> HIDE DEF m
  <1>5. /\ kept' \in Seq(Message) /\ Len(kept') = Len(kept) + 1
        /\ (\A i \in 1..Len(kept) : kept'[i] = kept[i]) /\ kept'[Len(kept) + 1] = m
    BY <1>1, <1>3, <1>4, Appended
  <1>6. todo' \in Seq(ToolCall)
    BY <1>1
  <1>7. rounds <= LoopRounds
    BY DEF LoopInv, LoopTypeOK, Idle
  <1>8. LoopTypeOK'
    BY <1>5, <1>6 DEF LoopInv, LoopTypeOK, LoopPC
  <1>9. Idle'
    BY <1>7 DEF LoopInv, Idle
  <1>10. Conversation'
    <2>1. Owned(stored) /\ AllAnswered(stored) /\ Owned(kept)
      BY DEF LoopInv, Conversation
    <2>2. PICK p \in 1..Len(kept) : AnsweredUpTo(kept, todo, p)
      BY DEF LoopInv, Conversation
    <2>3. AnsweredUpTo(kept', todo', p) /\ Owned(kept')
      BY <1>1, <1>3, <1>4, <2>1, <2>2, AnswersNext
    <2>4. p \in 1..Len(kept')
      BY <1>1, <1>5
    <2> QED BY <2>1, <2>3, <2>4 DEF Conversation
  <1>11. Spoken'
    <2>1. SpokenBy(kept') = SpokenBy(kept)
      BY <1>1, <1>3, <1>4, SpokenAppend DEF SaidWith
    <2> QED BY <2>1 DEF LoopInv, Spoken
  <1>12. TurnHolds'
    <2>1. PICK p \in 1..Len(kept) : StartsAt(kept, p) /\ Counted(p) /\ HeldSince(p)
      BY DEF LoopInv, TurnHolds
    <2>2. p \in 1..Len(kept') /\ StartsAt(kept', p)
      <3>1. StartsAt(Append(kept, m), p)
        BY <1>1, <1>3, <2>1, StartStays
      <3> QED BY <1>1, <1>4, <1>5, <3>1
    <2>3. CASE r \notin AllowCalls
      <3>1. Ran(kept') = Ran(kept) /\ \A c : RunsSince(kept', p, c) = RunsSince(kept, p, c)
        BY <1>1, <1>3, <1>4, <2>3, RunsStay
      <3>2. ASSUME NEW c \in Call
            PROVE  /\ Cardinality(RunsSince(kept', p, c)) <= MaxRepeats
                   /\ Cardinality(RunsSince(kept', p, c)) <= seen'[c]
                   /\ Cardinality(RunsSince(kept', p, c)) \in Nat
        <4>1. Cardinality(RunsSince(kept, p, c)) \in Nat /\ seen[c] \in Nat /\ seen'[c] \in Nat
          BY <1>1, RunsFinite
        <4> QED BY <1>1, <2>1, <3>1, <4>1 DEF Counted
      <3>3. Counted(p)'
        BY <3>2 DEF Counted
      <3>4. HeldSince(p)'
        <4> SUFFICES ASSUME NEW j \in p..Len(kept'), kept'[j].role = "tool", kept'[j].result = "held"
                     PROVE  held' /\ \A i \in Ran(kept') : i <= j
          BY DEF HeldSince
        <4>1. CASE j = Len(kept) + 1
          <5>1. held'
            BY <1>3, <1>5, <4>1
          <5>2. Ran(kept) \subseteq 1..Len(kept)
            BY DEF Ran
          <5> QED BY <1>1, <3>1, <4>1, <5>1, <5>2
        <4>2. CASE j # Len(kept) + 1
          <5>1. j \in p..Len(kept) /\ j \in 1..Len(kept)
            BY <1>1, <1>5, <4>2, BeforeLast, Zenon
          <5>2. kept[j].role = "tool" /\ kept[j].result = "held"
            BY <1>5, <5>1
          <5>3. held /\ \A i \in Ran(kept) : i <= j
            BY <2>1, <5>1, <5>2 DEF HeldSince
          <5> QED BY <3>1, <5>3
        <4> QED BY <4>1, <4>2
      <3> QED BY <2>2, <3>3, <3>4 DEF TurnHolds
    <2>4. CASE r \in AllowCalls
      <3>1. loop = "tool" /\ ~held /\ r = todo[1].call
        BY <2>4
      <3>2. /\ Ran(kept') = Ran(kept) \cup {Len(kept) + 1}
            /\ \A c : Cardinality(RunsSince(kept', p, c)) =
                        Cardinality(RunsSince(kept, p, c)) + (IF r = c THEN 1 ELSE 0)
        <4>1. m.result \in AllowCalls
          BY <1>3, <2>4
        <4> QED BY <1>1, <1>3, <1>4, <4>1, RunsGrow
      <3>3. ASSUME NEW c \in Call
            PROVE  /\ Cardinality(RunsSince(kept', p, c)) <= MaxRepeats
                   /\ Cardinality(RunsSince(kept', p, c)) <= seen'[c]
                   /\ Cardinality(RunsSince(kept', p, c)) \in Nat
        <4>1. Cardinality(RunsSince(kept, p, c)) \in Nat /\ seen[c] \in Nat /\ seen'[c] \in Nat
          BY <1>1, RunsFinite
        <4>2. LET n == Cardinality(RunsSince(kept, p, c))
                  next == IF r = c THEN 1 ELSE 0
              IN  n + next <= MaxRepeats /\ n + next <= seen[c]
          BY <2>1, <3>1 DEF Counted
        <4> QED BY <1>1, <3>2, <4>1, <4>2
      <3>4. Counted(p)'
        <4>1. loop' # "tool"
          OBVIOUS
        <4> QED BY <3>3, <4>1 DEF Counted
      <3>5. HeldSince(p)'
        <4> SUFFICES ASSUME NEW j \in p..Len(kept'), kept'[j].role = "tool", kept'[j].result = "held"
                     PROVE  FALSE
          BY DEF HeldSince
        <4>1. CASE j = Len(kept) + 1
          <5>1. "held" \in Call \cap NotRun
            BY <1>3, <1>5, <2>4, <4>1 DEF Call, NotRun
          <5> QED BY <5>1, LoopAssumption
        <4>2. CASE j # Len(kept) + 1
          <5>1. j \in p..Len(kept) /\ j \in 1..Len(kept)
            BY <1>1, <1>5, <4>2, BeforeLast, Zenon
          <5>2. kept[j].role = "tool" /\ kept[j].result = "held"
            BY <1>5, <5>1
          <5> QED BY <2>1, <3>1, <5>1, <5>2 DEF HeldSince
        <4> QED BY <4>1, <4>2
      <3> QED BY <2>2, <3>4, <3>5 DEF TurnHolds
    <2> QED BY <2>3, <2>4
  <1> QED BY <1>8, <1>9, <1>10, <1>11, <1>12 DEF LoopInv

LEMMA CountsUp ==
  ASSUME NEW f \in [Call -> Nat], NEW c \in Call, NEW g, g = [f EXCEPT ![c] = @ + 1]
  PROVE  g \in [Call -> Nat] /\ \A d \in Call : g[d] = IF d = c THEN f[d] + 1 ELSE f[d]
  OBVIOUS

LEMMA CallRefused ==
  ASSUME LoopInv, NEW c \in ToSet(todo),
         AfterHold(c) \/ Unparsed(c) \/ Deny(c) \/ HoldCall(c) \/ Repeated(c)
  PROVE  LoopInv'
  <1>1. /\ loop = "calls" /\ loop' = "calls" /\ todo # <<>> /\ c = todo[1]
        /\ todo' = Tail(todo) /\ UNCHANGED <<format, stored, turns, rounds, acc, heard>>
    BY DEF AfterHold, Unparsed, Deny, HoldCall, Repeated, NextCall, Result, convVars
  <1>2. seen \in [Call -> Nat] /\ held \in BOOLEAN
    BY DEF LoopInv, LoopTypeOK
  <1>3. \E r \in NotRun :
          /\ kept' = Append(kept, ToolResult(todo[1].id, r))
          /\ held' \in BOOLEAN /\ (r = "held" => held') /\ (held => held')
    <2>1. CASE AfterHold(c)
      BY <1>1, <1>2, <2>1 DEF AfterHold, Result, NotRun
    <2>2. CASE Unparsed(c)
      BY <1>1, <1>2, <2>2 DEF Unparsed, Result, NotRun
    <2>3. CASE Deny(c)
      BY <1>1, <1>2, <2>3 DEF Deny, Result, NotRun
    <2>4. CASE HoldCall(c)
      BY <1>1, <1>2, <2>4 DEF HoldCall, Result, NotRun
    <2>5. CASE Repeated(c)
      BY <1>1, <1>2, <2>5 DEF Repeated, Result, NotRun
    <2> QED BY <2>1, <2>2, <2>3, <2>4, <2>5
  <1>4. seen' \in [Call -> Nat] /\ \A d \in Call : seen[d] <= seen'[d]
    <2>1. CASE seen' = seen
      BY <1>2, <2>1
    <2>2. CASE c.call \in Call /\ seen' = [seen EXCEPT ![c.call] = @ + 1]
      <3>1. seen' \in [Call -> Nat]
            /\ \A d \in Call : seen'[d] = IF d = c.call THEN seen[d] + 1 ELSE seen[d]
        BY <1>2, <2>2, CountsUp
      <3>2. \A d \in Call : seen[d] \in Nat
        BY <1>2
      <3> QED BY <3>1, <3>2
    <2> QED BY <2>1, <2>2 DEF AfterHold, Unparsed, Deny, HoldCall, Repeated, Count, Call
  <1>5. \A r \in NotRun : r \notin AllowCalls
    BY LoopAssumption DEF Call
  <1>6. PICK r \in NotRun :
          /\ kept' = Append(kept, ToolResult(todo[1].id, r))
          /\ held' \in BOOLEAN /\ (r = "held" => held') /\ (held => held')
    BY <1>3
  <1> QED BY <1>1, <1>4, <1>5, <1>6, AnswersAll

LEMMA CallRan == ASSUME LoopInv, ToolReturns PROVE LoopInv'
  <1>1. /\ loop = "tool" /\ loop' = "calls" /\ todo # <<>> /\ todo[1].call \in AllowCalls /\ ~held
        /\ kept' = Append(kept, ToolResult(todo[1].id, todo[1].call)) /\ todo' = Tail(todo)
        /\ UNCHANGED <<format, stored, turns, rounds, acc, heard, seen, held>>
    BY DEF ToolReturns, Result, convVars, LoopInv, Idle
  <1>2. seen \in [Call -> Nat] /\ held \in BOOLEAN
    BY DEF LoopInv, LoopTypeOK
  <1>3. seen' \in [Call -> Nat] /\ \A d \in Call : seen[d] <= seen'[d]
    BY <1>1, <1>2
  <1>4. todo[1].call # "held"
    BY <1>1, LoopAssumption DEF Call, NotRun
  <1> QED BY <1>1, <1>2, <1>3, <1>4, AnswersAll

\* An allowed call is counted and runs.
LEMMA CallRuns == ASSUME LoopInv, NEW c \in ToSet(todo), Execute(c) PROVE LoopInv'
  <1>1. /\ loop = "calls" /\ loop' = "tool" /\ todo # <<>> /\ c = todo[1] /\ ~held
        /\ c.call \in AllowCalls /\ seen[c.call] < MaxRepeats
        /\ seen' = [seen EXCEPT ![c.call] = @ + 1]
        /\ UNCHANGED <<format, stored, turns, kept, rounds, acc, todo, held, heard>>
    BY DEF Execute, NextCall, Count, convVars
  <1>2. seen \in [Call -> Nat] /\ MaxRepeats \in Nat /\ kept \in Seq(Message)
    BY LoopTypes DEF LoopInv
  <1>3. rounds <= LoopRounds /\ acc = Empty
    BY <1>1 DEF LoopInv, Idle
  <1>4. /\ seen' \in [Call -> Nat]
        /\ \A d \in Call : seen'[d] = IF d = c.call THEN seen[d] + 1 ELSE seen[d]
    <2>1. c.call \in Call
      BY <1>1 DEF Call
    <2> QED BY <1>1, <1>2, <2>1, CountsUp
  <1>5. LoopTypeOK'
    BY <1>1, <1>3, <1>4 DEF LoopInv, LoopTypeOK, LoopPC
  <1>6. Idle'
    BY <1>1, <1>3 DEF Idle
  <1>7. Conversation'
    BY <1>1 DEF LoopInv, Conversation
  <1>8. Spoken'
    BY <1>1 DEF LoopInv, Spoken
  <1>9. TurnHolds'
    <2>1. PICK p \in 1..Len(kept) : StartsAt(kept, p) /\ Counted(p) /\ HeldSince(p)
      BY <1>1 DEF LoopInv, TurnHolds
    <2>2. ASSUME NEW d \in Call
          PROVE  LET n == Cardinality(RunsSince(kept, p, d))
                     next == IF c.call = d THEN 1 ELSE 0
                 IN  n + next <= MaxRepeats /\ n + next <= seen'[d]
      <3>1. Cardinality(RunsSince(kept, p, d)) \in Nat
        BY <1>2, RunsFinite
      <3>2. Cardinality(RunsSince(kept, p, d)) <= MaxRepeats /\ Cardinality(RunsSince(kept, p, d)) <= seen[d]
        BY <1>1, <2>1, <3>1 DEF Counted
      <3>3. seen[d] \in Nat /\ seen'[d] = IF d = c.call THEN seen[d] + 1 ELSE seen[d]
        BY <1>2, <1>4
      <3> QED BY <1>1, <1>2, <3>1, <3>2, <3>3
    <2>3. Counted(p)'
      BY <1>1, <2>2 DEF Counted
    <2>4. HeldSince(p)'
      BY <1>1, <2>1 DEF HeldSince
    <2> QED BY <1>1, <2>1, <2>3, <2>4 DEF TurnHolds
  <1> QED BY <1>5, <1>6, <1>7, <1>8, <1>9 DEF LoopInv

LEMMA RoundDone == ASSUME LoopInv, RoundEnds PROVE LoopInv'
  <1>1. /\ loop = "calls" /\ todo = <<>> /\ loop' \in {"held", "ask"}
        /\ (loop' = "held" <=> held) /\ rounds' \in {rounds, rounds + 1}
        /\ UNCHANGED <<format, stored, turns, kept, seen, acc, todo, held, heard>>
    BY DEF RoundEnds, convVars
  <1>2. rounds <= LoopRounds /\ acc = Empty /\ rounds \in Nat /\ LoopRounds \in Nat /\ kept \in Seq(Message)
    BY <1>1, LoopTypes, LoopAssumption DEF LoopInv, Idle
  <1>3. rounds' \in 0..(LoopRounds + 1)
    BY <1>1, <1>2
  <1>4. LoopTypeOK'
    BY <1>1, <1>3 DEF LoopInv, LoopTypeOK, LoopPC
  <1>5. Idle'
    BY <1>1, <1>2 DEF Idle
  <1>6. Conversation'
    <2>1. Owned(stored) /\ AllAnswered(stored) /\ Owned(kept)
      BY DEF LoopInv, Conversation
    <2>2. PICK p \in 1..Len(kept) : AnsweredUpTo(kept, <<>>, p)
      BY <1>1 DEF LoopInv, Conversation
    <2>3. AllAnswered(kept)
      BY <1>2, <2>2, AnswersComplete
    <2> QED BY <1>1, <2>1, <2>3 DEF Conversation
  <1>7. Spoken'
    BY <1>1 DEF LoopInv, Spoken
  <1>8. TurnHolds'
    <2>1. PICK p \in 1..Len(kept) : StartsAt(kept, p) /\ Counted(p) /\ HeldSince(p)
      BY <1>1 DEF LoopInv, TurnHolds
    <2>2. Counted(p)'
      BY <1>1, <2>1 DEF Counted
    <2>3. HeldSince(p)'
      BY <1>1, <2>1 DEF HeldSince
    <2> QED BY <1>1, <2>1, <2>2, <2>3 DEF TurnHolds
  <1> QED BY <1>4, <1>5, <1>6, <1>7, <1>8 DEF LoopInv

\* A turn begins with a copy of what is stored and the user's message.
LEMMA TurnBegins == ASSUME LoopInv, BeginLoop PROVE LoopInv'
  <1>1. /\ loop = "idle" /\ loop' = "ask" /\ turns < MaxTurns /\ turns' = turns + 1
        /\ kept' = Append(stored, UserMessage) /\ rounds' = 1
        /\ UNCHANGED <<format, stored, seen, acc, todo, held, heard>>
    BY DEF BeginLoop
  <1>2. /\ stored \in Seq(Message) /\ seen \in [Call -> Nat] /\ turns \in Nat
        /\ MaxTurns \in Nat /\ LoopRounds \in Nat /\ MaxRepeats \in Nat
    BY LoopTypes, LoopAssumption DEF LoopInv
  <1>3. UserMessage \in Message /\ UserMessage.role = "user"
    BY MadeMessages
  <1>4. /\ kept' \in Seq(Message) /\ Len(kept') = Len(stored) + 1 /\ Len(stored) \in Nat
        /\ (\A i \in 1..Len(stored) : kept'[i] = stored[i]) /\ kept'[Len(stored) + 1] = UserMessage
    BY <1>1, <1>2, <1>3, Appended
  <1>5. heard = <<>> /\ acc = Empty /\ todo = <<>> /\ ~held
    BY <1>1 DEF LoopInv, Idle
  <1>6. LoopTypeOK'
    <2>1. turns' \in 0..MaxTurns /\ rounds' \in 0..(LoopRounds + 1)
      BY <1>1, <1>2
    <2> QED BY <1>1, <1>4, <2>1 DEF LoopInv, LoopTypeOK, LoopPC
  <1>7. Idle'
    BY <1>1, <1>5 DEF Idle
  <1>8. Conversation'
    <2>1. Owned(stored) /\ AllAnswered(stored)
      BY DEF LoopInv, Conversation
    <2>2. Owned(kept') /\ AllAnswered(kept')
      BY <1>1, <1>2, <1>3, <2>1, AppendTold, AllAnsweredStays
    <2> QED BY <1>1, <2>1, <2>2 DEF Conversation
  <1>9. Spoken'
    <2>1. SpokenBy(kept') = <<>>
      BY <1>1, <1>2, <1>3, SpokenAppend DEF SaidWith
    <2>2. <<>> \o <<>> = <<>>
      BY EmptySeq, ConcatEmptySeq
    <2> QED BY <1>1, <1>5, <2>1, <2>2, EmptyAcc DEF Spoken
  <1>10. TurnHolds'
    <2>0. PICK p \in Nat : p = Len(stored) + 1
      BY <1>4
    <2>1. p \in 1..Len(kept') /\ Len(kept') = p /\ kept'[p].role = "user" /\ StartsAt(kept', p)
      BY <1>3, <1>4, <2>0 DEF StartsAt
    <2>2. ASSUME NEW c \in Call
          PROVE  /\ Cardinality(RunsSince(kept', p, c)) = 0
                 /\ 0 <= MaxRepeats /\ 0 <= seen'[c]
      <3>1. RunsSince(kept', p, c) = {}
        BY <2>1 DEF RunsSince, Ran
      <3>2. seen'[c] \in Nat
        BY <1>1, <1>2
      <3> QED BY <1>2, <3>1, <3>2, FS_EmptySet
    <2>3. Counted(p)'
      BY <1>1, <2>2 DEF Counted
    <2>4. HeldSince(p)'
      <3>1. \A j \in p..Len(kept') : j = p
        BY <2>1
      <3> QED BY <2>1, <3>1 DEF HeldSince
    <2> QED BY <2>1, <2>3, <2>4 DEF TurnHolds
  <1> QED BY <1>6, <1>7, <1>8, <1>9, <1>10 DEF LoopInv

\* A turn ends, its locals are dropped, and what is stored is whole.
LEMMA TurnEnds ==
  ASSUME LoopInv, Forget, UNCHANGED <<format, turns>>,
         stored' \in Seq(Message), Len(stored') <= Keep, Owned(stored'), AllAnswered(stored')
  PROVE  LoopInv'
  <1>1. /\ loop' = "idle" /\ kept' = <<>> /\ rounds' = 0 /\ seen' = [c \in Call |-> 0]
        /\ acc' = Empty /\ todo' = <<>> /\ held' = FALSE /\ heard' = <<>>
    BY DEF Forget
  <1>2. LoopTypeOK'
    <2>1. <<>> \in Seq(Message) /\ <<>> \in Seq(ToolCall) /\ <<>> \in Seq(Nat)
      OBVIOUS
    <2>2. seen' \in [Call -> Nat] /\ rounds' \in 0..(LoopRounds + 1)
      BY <1>1, LoopAssumption
    <2>3. acc' \in [text : Seq(Nat), calls : Seq(ToolCall), stop : Reasons,
                    started : BOOLEAN, done : BOOLEAN]
      BY <1>1, EmptyAcc
    <2> QED BY <1>1, <2>1, <2>2, <2>3 DEF LoopInv, LoopTypeOK, LoopPC
  <1>3. Idle'
    BY <1>1 DEF Idle
  <1>4. Owned(kept') /\ AllAnswered(kept')
    BY <1>1 DEF Owned, AllAnswered
  <1>5. Conversation'
    BY <1>1, <1>4 DEF Conversation
  <1>6. Spoken' /\ TurnHolds'
    BY <1>1 DEF Spoken, TurnHolds
  <1> QED BY <1>2, <1>3, <1>5, <1>6 DEF LoopInv

LEMMA TailKept == ASSUME LoopInv, KeepTail PROVE LoopInv'
  <1>1. /\ loop \notin {"calls", "tool"} /\ Forget /\ UNCHANGED <<format, turns>>
        /\ stored' = [i \in 1..(Len(kept) - TailStart(kept)) |-> Shape(kept[TailStart(kept) + i])]
    BY DEF KeepTail
  <1>2. kept \in Seq(Message) /\ Owned(kept) /\ AllAnswered(kept)
    BY <1>1, LoopTypes, AtRest DEF LoopInv
  <1>3. stored' \in Seq(Message) /\ Len(stored') <= Keep /\ Owned(stored') /\ AllAnswered(stored')
    BY <1>1, <1>2, TailIsWhole
  <1> QED BY <1>1, <1>3, TurnEnds

LEMMA LoopCancelled == ASSUME LoopInv, CancelLoop PROVE LoopInv'
  <1>1. Forget /\ UNCHANGED <<format, stored, turns>>
    BY DEF CancelLoop, convVars
  <1>2. stored \in Seq(Message) /\ Len(stored) <= Keep /\ Owned(stored) /\ AllAnswered(stored)
    BY DEF LoopInv, LoopTypeOK, Conversation
  <1> QED BY <1>1, <1>2, TurnEnds

LEMMA LoopStep == ASSUME LoopInv, [LoopNext]_loopVars PROVE LoopInv'
  <1>1. CASE BeginLoop
    BY <1>1, TurnBegins
  <1>2. CASE Send \/ RequestFails \/ FirstByteTimeout \/ StreamStarts \/ StreamBreaks \/ IdleTimeout
    BY <1>2, Streams
  <1>3. CASE GiveUp \/ WholeResponse \/ StreamEnds
    BY <1>3, ResponseEnds
  <1>4. CASE Event
    BY <1>4, FedNoText, FedText DEF Event
  <1>5. CASE HandleCall
    BY <1>5, CallRefused, CallRuns DEF HandleCall
  <1>6. CASE ToolReturns
    BY <1>6, CallRan
  <1>7. CASE RoundEnds
    BY <1>7, RoundDone
  <1>8. CASE KeepTail
    BY <1>8, TailKept
  <1>9. CASE CancelLoop
    BY <1>9, LoopCancelled
  <1>10. CASE UNCHANGED loopVars
    BY <1>10 DEF loopVars, LoopInv, LoopTypeOK, Idle, Conversation, Spoken, TurnHolds, Counted, HeldSince
  <1> QED BY <1>1, <1>2, <1>3, <1>4, <1>5, <1>6, <1>7, <1>8, <1>9, <1>10 DEF LoopNext

LEMMA LoopInvIsSafe == ASSUME LoopInv PROVE LoopSafe
  <1>1. /\ kept \in Seq(Message) /\ acc.text \in Seq(Nat) /\ SpokenBy(kept) \in Seq(Nat)
        /\ Len(kept) \in Nat /\ seen \in [Call -> Nat] /\ MaxRepeats \in Nat
    BY LoopTypes DEF LoopInv
  <1>2. TurnIsBounded
    <2> SUFFICES ASSUME loop # "idle"
                 PROVE  /\ \A c \in Call :
                             Cardinality({i \in Ran(kept) : i > TurnStart(kept) /\ kept[i].result = c}) <= MaxRepeats
                        /\ \A i \in Ran(kept) : \A j \in TurnStart(kept)..(i - 1) :
                             ~(kept[j].role = "tool" /\ kept[j].result = "held")
      BY DEF TurnIsBounded
    <2>1. PICK p \in 1..Len(kept) : StartsAt(kept, p) /\ Counted(p) /\ HeldSince(p)
      BY DEF LoopInv, TurnHolds
    <2>2. TurnStart(kept) = p
      BY <1>1, <2>1, TurnStartsAt
    <2>3. ASSUME NEW c \in Call PROVE Cardinality(RunsSince(kept, p, c)) <= MaxRepeats
      <3>1. Cardinality(RunsSince(kept, p, c)) \in Nat
        BY <1>1, RunsFinite
      <3> QED BY <1>1, <2>1, <3>1 DEF Counted
    <2>4. ASSUME NEW i \in Ran(kept), NEW j \in p..(i - 1),
                 kept[j].role = "tool", kept[j].result = "held"
          PROVE  FALSE
      <3>1. i \in 1..Len(kept) /\ j \in p..Len(kept) /\ ~(i <= j)
        BY <1>1 DEF Ran
      <3> QED BY <2>1, <2>4, <3>1 DEF HeldSince
    <2> QED BY <2>2, <2>3, <2>4 DEF RunsSince
  <1>3. ConversationIsAnswerable
    <2>1. \A h \in Conversations : Owned(h) /\ AllAnswered(h)
      BY DEF LoopInv, Conversation, Conversations
    <2>2. \A h \in Conversations : NoOrphan(h)
      BY <2>1 DEF Owned, NoOrphan
    <2> QED BY <2>1, <2>2 DEF ConversationIsAnswerable, AllAnswered, Asks
  <1>4. SpokenIsRemembered
    <2> SUFFICES ASSUME loop \in {"reply", "held"} PROVE heard = SpokenBy(kept)
      BY DEF SpokenIsRemembered
    <2>1. heard = SpokenBy(kept) \o <<>>
      BY EmptyAcc DEF LoopInv, Spoken, Idle
    <2> QED BY <1>1, <2>1, ConcatEmptySeq
  <1> QED BY <1>2, <1>3, <1>4 DEF LoopInv, LoopSafe

\* No turn asks, repeats or goes on past its bounds, the conversation the model is sent
\* and the one that is stored hold the one result of every call that was taken up, and
\* what a turn has spoken is what its messages say, for any number of turns, rounds and
\* calls (cosmo-reason lib.rs, engine.rs).
THEOREM LoopIsSafe == LoopSpec => []LoopSafe
  <1>1. LoopInit => LoopInv
    BY LoopInitial
  <1>2. LoopInv /\ [LoopNext]_loopVars => LoopInv'
    BY LoopStep
  <1>3. LoopInv => LoopSafe
    BY LoopInvIsSafe
  <1> QED BY <1>1, <1>2, <1>3, PTL DEF LoopSpec

-----------------------------------------------------------------------------
(* The text of a page *)

LEMMA FirstPlaceIs ==
  ASSUME NEW T \in SUBSET Nat, T # {}
  PROVE  FirstPlace(T) \in T /\ \A i \in T : FirstPlace(T) <= i
  BY LeastNumber, Zenon DEF FirstPlace

\* What stands where something was taken out.
Space == " "

\* c is s with a gap where the tokens from a to e were.
Cut(s, a, e) == SubSeq(s, 1, a - 1) \o <<Space>> \o SubSeq(s, e + 1, Len(s))
IsCut(c, s, a, e) == /\ Len(c) = Len(s) - (e - a) /\ c[a] = Space
                     /\ (\A i \in 1..(a - 1) : c[i] = s[i]) /\ \A i \in (a + 1)..Len(c) : c[i] = s[i + (e - a)]

LEMMA CutIs ==
  ASSUME NEW S, NEW s \in Seq(S), Space \in S, NEW a \in 1..Len(s), NEW e \in a..Len(s)
  PROVE  Cut(s, a, e) \in Seq(S) /\ IsCut(Cut(s, a, e), s, a, e)
  <1>0. PICK f, g, h : f = SubSeq(s, 1, a - 1) /\ g = SubSeq(s, e + 1, Len(s)) /\ h = <<Space>>
    OBVIOUS
  <1>6. Len(s) \in Nat /\ a \in Nat /\ e \in Nat
    OBVIOUS
  <1>1. f \in Seq(S) /\ Len(f) = a - 1 /\ \A i \in 1..(a - 1) : f[i] = s[i]
    BY <1>0
  <1>2. g \in Seq(S) /\ Len(g) = Len(s) - e /\ \A i \in 1..(Len(s) - e) : g[i] = s[i + e]
    BY <1>0
  <1>3. h \in Seq(S) /\ Len(h) = 1 /\ h[1] = Space /\ 1 \in 1..Len(h)
    BY <1>0
  <1>4. PICK c : c = Cut(s, a, e)
    OBVIOUS
  <1>5. /\ c \in Seq(S) /\ Len(c) = (Len(f) + Len(h)) + Len(g) /\ (\A i \in 1..Len(f) : c[i] = f[i])
        /\ (\A i \in 1..Len(h) : c[Len(f) + i] = h[i]) /\ \A i \in 1..Len(g) : c[(Len(f) + Len(h)) + i] = g[i]
    <2>1. f \in Seq(S) /\ h \in Seq(S) /\ g \in Seq(S)
      BY <1>1, <1>2, <1>3
    <2>2. c = (f \o h) \o g
      BY <1>0, <1>4, Zenon DEF Cut
    <2>3. PICK q : q = f \o h
      OBVIOUS
    <2>4. q \in Seq(S) /\ Len(q) = Len(f) + Len(h) /\ (\A i \in 1..Len(f) : q[i] = f[i])
          /\ \A i \in 1..Len(h) : q[Len(f) + i] = h[i]
      BY <2>1, <2>3, ConcatTyped
    <2>5. c \in Seq(S) /\ Len(c) = Len(q) + Len(g) /\ (\A i \in 1..Len(q) : c[i] = q[i])
          /\ \A i \in 1..Len(g) : c[Len(q) + i] = g[i]
      BY <2>1, <2>2, <2>3, <2>4, ConcatTyped
    <2>6. Len(f) \in Nat /\ Len(h) \in Nat
      BY <2>1
    <2>7. (\A i \in 1..Len(f) : i \in 1..Len(q)) /\ \A i \in 1..Len(h) : Len(f) + i \in 1..Len(q)
      BY <2>4, <2>6
    <2> QED BY <2>4, <2>5, <2>7, Zenon
  <1>7. Len(c) = Len(s) - (e - a)
    BY <1>1, <1>2, <1>3, <1>5, <1>6
  <1>8. c[a] = Space
    <2>1. c[Len(f) + 1] = h[1]
      BY <1>3, <1>5
    <2>2. Len(f) + 1 = a
      BY <1>1, <1>6
    <2> QED BY <1>3, <2>1, <2>2
  <1>9. \A i \in 1..(a - 1) : c[i] = s[i]
    BY <1>1, <1>5
  <1>10. ASSUME NEW i \in (a + 1)..Len(c) PROVE c[i] = s[i + (e - a)]
    <2>1. i - a \in 1..(Len(s) - e) /\ (Len(f) + Len(h)) + (i - a) = i /\ (i - a) + e = i + (e - a)
      BY <1>1, <1>3, <1>6, <1>7
    <2>2. PICK k : k = i - a
      OBVIOUS
    <2>3. k \in 1..Len(g) /\ k \in 1..(Len(s) - e)
      BY <1>2, <2>1, <2>2
    <2>4. c[(Len(f) + Len(h)) + k] = g[k] /\ g[k] = s[k + e]
      BY <1>2, <1>5, <2>3
    <2> QED BY <2>1, <2>2, <2>4
  <1>11. IsCut(c, s, a, e)
    BY <1>7, <1>8, <1>9, <1>10, Zenon DEF IsCut
  <1> QED BY <1>4, <1>5, <1>11, Zenon

\* s is what is left of the page p: m[i] is the place its token i has in the page,
\* 0 where something was taken out.
KeptBy(m, s, p) ==
  /\ m \in [1..Len(s) -> 0..Len(p)]
  /\ \A i \in 1..Len(s) : (m[i] = 0 => s[i] = Space) /\ (m[i] # 0 => s[i] = p[m[i]])
  /\ \A i, j \in 1..Len(s) : i < j /\ m[i] # 0 /\ m[j] # 0 => m[i] < m[j]
  /\ \A k \in 1..Len(p) : p[k] \notin Block \cup Inline /\ ~Enclosed(p, k) => \E i \in 1..Len(s) : m[i] = k
LeftOf(s, p) == \E m : KeptBy(m, s, p)

DroppedTags == {Dropped[i] : i \in DOMAIN Dropped}

LEMMA TagsAre ==
  /\ DroppedTags = {"head", "nav"}
  /\ \A tag \in DroppedTags : /\ StartTags[tag] \in Inline /\ EndTags[tag] \in Inline
                              /\ StartTags[tag] # EndTags[tag] /\ StartTags[tag] # Space /\ EndTags[tag] # Space
  /\ \A tag \in DroppedTags : \E i \in DOMAIN Dropped : Dropped[i] = tag
  <1>1. DOMAIN Dropped = {1, 2} /\ Dropped[1] = "head" /\ Dropped[2] = "nav"
    BY DEF Dropped
  <1>2. DroppedTags = {"head", "nav"}
    BY <1>1 DEF DroppedTags
  <1>3. /\ StartTags["head"] = "<head>" /\ StartTags["nav"] = "<nav>"
        /\ EndTags["head"] = "</head>" /\ EndTags["nav"] = "</nav>"
    BY DEF StartTags, EndTags
  <1>4. \A tag \in DroppedTags : /\ StartTags[tag] \in Inline /\ EndTags[tag] \in Inline
                              /\ StartTags[tag] # EndTags[tag] /\ StartTags[tag] # Space /\ EndTags[tag] # Space
    BY <1>2, <1>3 DEF Inline, Space
  <1> QED BY <1>2, <1>4 DEF DroppedTags

\* The tokens from a to e are an element of s, or a tag of one that has no end.
Element(s, a, e, tag) == s[a] = StartTags[tag] /\ (e = a \/ s[e] = EndTags[tag])

LEMMA WithoutFirstIs ==
  ASSUME NEW S, Space \in S, NEW s \in Seq(S), NEW tag
  PROVE  \/ WithoutFirst(s, tag) = s
         \/ \E a \in 1..Len(s) : \E e \in a..Len(s) :
              /\ Element(s, a, e, tag)
              /\ WithoutFirst(s, tag) = Cut(s, a, e)
  <1>1. PICK open, a : open = Places(s, 1, StartTags[tag]) /\ a = FirstPlace(open)
    OBVIOUS
  <1>2. CASE open = {}
    BY <1>1, <1>2, Zenon DEF WithoutFirst
  <1>3. CASE open # {}
    <2>1. Len(s) \in Nat /\ open \in SUBSET Nat
      BY <1>1 DEF Places
    <2>2. a \in 1..Len(s) /\ s[a] = StartTags[tag]
      <3>1. a \in open
        BY <1>1, <1>3, <2>1, FirstPlaceIs, Zenon
      <3> QED BY <1>1, <3>1, Zenon DEF Places
    <2>3. PICK close, e : close = Places(s, a, EndTags[tag]) /\ e = ElementEnd(s, a, tag)
      OBVIOUS
    <2>4. e \in a..Len(s) /\ (e = a \/ s[e] = EndTags[tag])
      <3>1. CASE close = {}
        <4>1. e = a
          BY <2>3, <3>1, Zenon DEF ElementEnd
        <4> QED BY <2>1, <2>2, <4>1
      <3>2. CASE close # {}
        <4>1. close \in SUBSET Nat
          BY <2>1, <2>2, <2>3 DEF Places
        <4>2. e \in close
          BY <2>3, <3>2, <4>1, FirstPlaceIs, Zenon DEF ElementEnd
        <4> QED BY <2>3, <4>2, Zenon DEF Places
      <3> QED BY <3>1, <3>2
    <2>5. WithoutFirst(s, tag) = Cut(s, a, e)
      BY <1>1, <1>3, <2>3, Zenon DEF WithoutFirst, Cut, Space
    <2>6. Element(s, a, e, tag)
      BY <2>2, <2>4, Zenon DEF Element
    <2> QED BY <2>2, <2>4, <2>5, <2>6, Zenon
  <1> QED BY <1>2, <1>3

LEMMA CutLeaves ==
  ASSUME NEW S, Space \in S, NEW p \in Seq(S), NEW s \in Seq(S), NEW m, KeptBy(m, s, p), NEW tag \in DroppedTags,
         NEW a \in 1..Len(s), NEW e \in a..Len(s), Element(s, a, e, tag), NEW c \in Seq(S), IsCut(c, s, a, e)
  PROVE  LeftOf(c, p)
  <1> DEFINE Place(i) == IF i < a THEN i ELSE i + (e - a)
             w == [i \in 1..Len(c) |-> IF i = a THEN 0 ELSE m[Place(i)]]
  <1>1. /\ m \in [1..Len(s) -> 0..Len(p)]
        /\ \A i \in 1..Len(s) : (m[i] = 0 => s[i] = Space) /\ (m[i] # 0 => s[i] = p[m[i]])
        /\ \A i, j \in 1..Len(s) : i < j /\ m[i] # 0 /\ m[j] # 0 => m[i] < m[j]
        /\ \A k \in 1..Len(p) : p[k] \notin Block \cup Inline /\ ~Enclosed(p, k) => \E i \in 1..Len(s) : m[i] = k
    BY DEF KeptBy
  <1>2. /\ Len(s) \in Nat /\ Len(c) \in Nat /\ a \in Nat /\ e \in Nat /\ Len(p) \in Nat
        /\ a <= e /\ e <= Len(s) /\ 1 <= a
    OBVIOUS
  <1>a. /\ Len(c) = Len(s) - (e - a) /\ c[a] = Space
        /\ (\A i \in 1..(a - 1) : c[i] = s[i]) /\ \A i \in (a + 1)..Len(c) : c[i] = s[i + (e - a)]
    BY Zenon DEF IsCut
  <1>b. s[a] = StartTags[tag] /\ (e = a \/ s[e] = EndTags[tag])
    BY Zenon DEF Element
  <1>c. Len(c) = Len(s) - (e - a)
    BY <1>a
  <1>3. ASSUME NEW i \in 1..Len(c), i # a
        PROVE  Place(i) \in 1..Len(s) /\ c[i] = s[Place(i)] /\ w[i] = m[Place(i)]
    <2>1. i \in Nat /\ 1 <= i /\ i <= Len(s) - (e - a)
      BY <1>2, <1>c
    <2>2. CASE i < a
      <3>1. i \in 1..(a - 1) /\ i \in 1..Len(s)
        BY <1>2, <2>1, <2>2
      <3> QED BY <1>a, <1>3, <2>2, <3>1
    <2>3. CASE i > a
      <3>1. i \in (a + 1)..Len(c) /\ i + (e - a) \in 1..Len(s) /\ ~(i < a)
        BY <1>2, <2>1, <2>3
      <3> QED BY <1>a, <1>3, <3>1
    <2>4. i < a \/ i > a
      BY <1>2, <1>3, <2>1
    <2> QED BY <2>2, <2>3, <2>4
  <1>4. a \in 1..Len(c) /\ w[a] = 0
    <2>1. a \in 1..(Len(s) - (e - a))
      BY <1>2
    <2> QED BY <1>c, <2>1
  <1>5. DOMAIN w = 1..Len(c)
    OBVIOUS
  <1>6. ASSUME NEW i \in 1..Len(c), NEW j \in 1..Len(c), i < j, i # a, j # a PROVE Place(i) < Place(j)
    BY <1>2, <1>6
  <1>7. ASSUME NEW i \in 1..Len(s), i < a \/ e < i PROVE \E j \in 1..Len(c) : j # a /\ Place(j) = i
    <2>1. CASE i < a
      <3>1. i \in 1..(Len(s) - (e - a)) /\ i # a
        BY <1>2, <2>1
      <3> QED BY <1>c, <2>1, <3>1
    <2>2. CASE e < i
      <3>1. i - (e - a) \in 1..(Len(s) - (e - a)) /\ i - (e - a) # a /\ ~(i - (e - a) < a) /\ (i - (e - a)) + (e - a) = i
        BY <1>2, <2>2
      <3>2. PICK j : j = i - (e - a)
        OBVIOUS
      <3>3. j \in 1..Len(c) /\ j # a /\ ~(j < a) /\ j + (e - a) = i
        BY <1>c, <3>1, <3>2, Zenon
      <3> QED BY <3>3
    <2> QED BY <1>7, <2>1, <2>2
  <1> HIDE DEF w, Place
  <1>8. w \in [1..Len(c) -> 0..Len(p)]
    <2>1. ASSUME NEW i \in 1..Len(c) PROVE w[i] \in 0..Len(p)
      <3>1. CASE i = a
        BY <1>2, <1>4, <3>1
      <3>2. CASE i # a
        <4>1. m[Place(i)] \in 0..Len(p)
          BY <1>1, <1>3, <3>2
        <4> QED BY <1>3, <3>2, <4>1
      <3> QED BY <3>1, <3>2
    <2>2. w = [i \in 1..Len(c) |-> w[i]]
      BY <1>5 DEF w
    <2> QED BY <2>1, <2>2
  <1>9. ASSUME NEW i \in 1..Len(c) PROVE (w[i] = 0 => c[i] = Space) /\ (w[i] # 0 => c[i] = p[w[i]])
    <2>1. CASE i = a
      BY <1>a, <1>4, <2>1
    <2>2. CASE i # a
      <3>1. PICK j : j = Place(i)
        OBVIOUS
      <3>2. j \in 1..Len(s) /\ c[i] = s[j] /\ w[i] = m[j]
        BY <1>3, <2>2, <3>1, Zenon
      <3> QED BY <1>1, <3>2
    <2> QED BY <2>1, <2>2
  <1>10. ASSUME NEW i \in 1..Len(c), NEW j \in 1..Len(c), i < j, w[i] # 0, w[j] # 0 PROVE w[i] < w[j]
    <2>1. i # a /\ j # a
      BY <1>4, <1>10
    <2>2. PICK k, l : k = Place(i) /\ l = Place(j)
      OBVIOUS
    <2>3. k \in 1..Len(s) /\ w[i] = m[k] /\ l \in 1..Len(s) /\ w[j] = m[l]
      BY <1>3, <2>1, <2>2, Zenon
    <2>4. k < l
      BY <1>6, <1>10, <2>1, <2>2, Zenon
    <2> QED BY <1>1, <1>10, <2>3, <2>4
  <1>11. ASSUME NEW k \in 1..Len(p), p[k] \notin Block \cup Inline, ~Enclosed(p, k)
         PROVE  \E i \in 1..Len(c) : w[i] = k
    <2>1. PICK i \in 1..Len(s) : m[i] = k
      BY <1>1, <1>11, Zenon
    <2>2. k # 0 /\ k \in Nat /\ s[i] = p[k]
      BY <1>1, <2>1
    <2>3. CASE i < a \/ e < i
      <3>1. PICK j \in 1..Len(c) : j # a /\ Place(j) = i
        BY <1>7, <2>3, Zenon
      <3>2. w[j] = k
        BY <1>3, <2>1, <3>1, Zenon
      <3> QED BY <3>2
    <2>4. CASE i = a \/ i = e
      <3>1. s[i] \in Inline
        BY <1>b, <2>4, TagsAre
      <3> QED BY <1>11, <2>2, <3>1
    <2>5. CASE a < i /\ i < e
      <3>1. a \in 1..Len(s) /\ e \in 1..Len(s) /\ e # a
        BY <1>2, <2>5
      <3>2. s[a] # Space /\ s[e] # Space /\ s[e] = EndTags[tag]
        BY <1>b, <3>1, TagsAre
      <3>3. m[a] # 0 /\ m[e] # 0
        BY <1>1, <3>1, <3>2
      <3>4. PICK x, y : x = m[a] /\ y = m[e]
        OBVIOUS
      <3>5. x < k /\ k < y
        BY <1>1, <2>1, <2>2, <2>5, <3>1, <3>3, <3>4
      <3>6. p[x] = StartTags[tag] /\ p[y] = EndTags[tag] /\ x \in 0..Len(p) /\ y \in 0..Len(p)
        BY <1>1, <1>b, <3>1, <3>2, <3>3, <3>4
      <3>7. x \in 1..k /\ y \in k..Len(p)
        BY <1>2, <2>2, <3>3, <3>4, <3>5, <3>6
      <3>8. PICK d \in DOMAIN Dropped : Dropped[d] = tag
        BY TagsAre, Zenon
      <3>9. Enclosed(p, k)
        BY <3>6, <3>7, <3>8, Zenon DEF Enclosed
      <3> QED BY <1>11, <3>9
    <2>6. (i < a \/ e < i) \/ (i = a \/ i = e) \/ (a < i /\ i < e)
      BY <1>2
    <2> QED BY <2>3, <2>4, <2>5, <2>6, Zenon
  <1>12. KeptBy(w, c, p)
    BY <1>8, <1>9, <1>10, <1>11, Zenon DEF KeptBy
  <1> QED BY <1>12, Zenon DEF LeftOf

LEMMA WithoutFirstLeaves ==
  ASSUME NEW S, Space \in S, NEW p \in Seq(S), NEW s \in Seq(S), LeftOf(s, p), NEW tag \in DroppedTags
  PROVE  WithoutFirst(s, tag) \in Seq(S) /\ LeftOf(WithoutFirst(s, tag), p) /\ Len(WithoutFirst(s, tag)) <= Len(s)
  <1>1. CASE WithoutFirst(s, tag) = s
    BY <1>1
  <1>2. ASSUME NEW a \in 1..Len(s), NEW e \in a..Len(s), Element(s, a, e, tag),
               WithoutFirst(s, tag) = Cut(s, a, e)
        PROVE  WithoutFirst(s, tag) \in Seq(S) /\ LeftOf(WithoutFirst(s, tag), p) /\ Len(WithoutFirst(s, tag)) <= Len(s)
    <2>1. PICK c : c = WithoutFirst(s, tag)
      OBVIOUS
    <2>2. c \in Seq(S) /\ IsCut(c, s, a, e)
      BY <1>2, <2>1, CutIs
    <2>a. Len(c) = Len(s) - (e - a)
      BY <2>2, Zenon DEF IsCut
    <2>3. PICK m : KeptBy(m, s, p)
      BY DEF LeftOf
    <2>4. LeftOf(c, p)
      BY <1>2, <2>2, <2>3, CutLeaves
    <2>5. Len(c) <= Len(s)
      <3>1. Len(s) \in Nat /\ a \in Nat /\ e \in Nat /\ a <= e
        OBVIOUS
      <3> QED BY <2>a, <3>1
    <2> QED BY <2>1, <2>2, <2>4, <2>5, Zenon
  <1> QED BY <1>1, <1>2, WithoutFirstIs

LEMMA WithoutElementLeaves ==
  ASSUME NEW S, Space \in S, NEW p \in Seq(S), NEW s \in Seq(S), LeftOf(s, p), NEW tag \in DroppedTags
  PROVE  WithoutElement(s, tag) \in Seq(S) /\ LeftOf(WithoutElement(s, tag), p)
  <1> DEFINE n == Len(s)
             T == {t \in Seq(S) : LeftOf(t, p)}
             g == [i \in 1..n |-> [t \in T |-> WithoutFirst(t, tag)]]
             body(f) == [i \in 0..n |-> IF i = 0 THEN s ELSE WithoutFirst(f[i - 1], tag)]
             F == CHOOSE f : f = body(f)
  <1>1. WithoutElement(s, tag) = F[n]
    BY Zenon DEF WithoutElement
  <1>2. n \in Nat /\ s \in T
    OBVIOUS
  <1>3. ASSUME NEW t \in T PROVE WithoutFirst(t, tag) \in T
    BY WithoutFirstLeaves, Zenon
  <1>4. g \in [1..n -> [T -> T]]
    BY <1>3
  <1> HIDE DEF T
  <1>5. PICK f : Follows(f, n, T, s, g)
    <2> HIDE DEF g, n
    <2> QED BY <1>2, <1>4, RecursionExists, Zenon
  <1>6. f \in [0..n -> T] /\ f[0] = s /\ \A i \in 1..n : f[i] = g[i][f[i - 1]]
    BY <1>5, Zenon DEF Follows
  <1>7. ASSUME NEW i \in 1..n PROVE f[i] = WithoutFirst(f[i - 1], tag)
    <2>1. i - 1 \in 0..n
      BY <1>2
    <2>2. f[i - 1] \in T
      BY <1>6, <2>1, Zenon
    <2> QED BY <1>6, <2>2
  <1>8. f = body(f)
    <2>1. ASSUME NEW i \in 0..n PROVE f[i] = IF i = 0 THEN s ELSE WithoutFirst(f[i - 1], tag)
      <3>1. i = 0 \/ i \in 1..n
        BY <1>2
      <3> QED BY <1>2, <1>6, <1>7, <3>1
    <2>2. f = [i \in 0..n |-> f[i]]
      BY <1>6
    <2> QED BY <2>1, <2>2
  <1>9. ASSUME NEW h, h = body(h) PROVE \A i \in 0..n : h[i] \in T
    <2>1. \A i \in 0..n : h[i] = IF i = 0 THEN s ELSE WithoutFirst(h[i - 1], tag)
      BY <1>9
    <2> DEFINE M == {i \in 0..n : h[i] \in T}
    <2>2. 0 \in M
      BY <1>2, <2>1
    <2>3. ASSUME NEW i \in 0..(n - 1), i \in M PROVE i + 1 \in M
      <3>1. i + 1 \in 0..n /\ i + 1 # 0 /\ (i + 1) - 1 = i
        BY <1>2
      <3>2. h[i + 1] = WithoutFirst(h[i], tag)
        BY <2>1, <3>1
      <3> QED BY <1>3, <2>3, <3>1, <3>2
    <2> HIDE DEF n
    <2>4. 0..n \subseteq M
      <3> HIDE DEF M
      <3> QED BY <1>2, <2>2, <2>3, NumbersUpTo, Zenon
    <2> QED BY <2>4
  <1>10. F = body(F)
    <2> HIDE DEF body
    <2> QED BY <1>8, Zenon
  <1>11. F[n] \in T
    <2>1. n \in 0..n
      BY <1>2
    <2> HIDE DEF F, body, n
    <2> QED BY <1>9, <1>10, <2>1, Zenon
  <1> QED BY <1>1, <1>11 DEF T

\* t is the text of the page p, as TextIsKept asks for it.
TextKept(p, t) ==
  \E at \in [{i \in DOMAIN t : t[i] \notin {" ", "/"}} -> DOMAIN p] :
    /\ \A i \in DOMAIN at : t[i] = p[at[i]]
    /\ Walks(at, {k \in DOMAIN p : p[k] \notin Block \cup Inline /\ ~Enclosed(p, k)})

Shown(token) == CASE token \in Block -> "/" [] token \in Inline -> " " [] OTHER -> token
Blank(token) == token \in {" ", "/"}

LEMMA ShownIs ==
  ASSUME NEW token
  PROVE  /\ token \in Block \cup Inline => Blank(Shown(token))
         /\ token = Space => Blank(Shown(token))
         /\ token \notin Block \cup Inline => Shown(token) = token
  <1>1. Space \notin Block \cup Inline
    BY DEF Space, Block, Inline
  <1>2. CASE token \in Block
    <2>1. token = "<p>"
      BY <1>2 DEF Block
    <2>2. token \notin Inline
      BY <2>1 DEF Inline
    <2>3. Shown(token) = "/"
      BY <1>2, <2>2, Zenon DEF Shown
    <2> QED BY <1>1, <1>2, <2>3, Zenon DEF Blank
  <1>3. CASE token \in Inline /\ token \notin Block
    <2>1. Shown(token) = " "
      BY <1>3, Zenon DEF Shown
    <2> QED BY <1>1, <1>3, <2>1, Zenon DEF Blank
  <1>4. CASE token \notin Block \cup Inline
    <2>1. Shown(token) = token
      BY <1>4, Zenon DEF Shown
    <2> QED BY <1>4, <2>1, Zenon DEF Blank, Space
  <1> QED BY <1>2, <1>3, <1>4, Zenon

LEMMA ShownKeeps ==
  ASSUME NEW S, NEW p \in Seq(S), NEW s \in Seq(S), NEW m, KeptBy(m, s, p), NEW t,
         t = [i \in DOMAIN s |-> Shown(s[i])], \A k \in 1..Len(p) : ~Blank(p[k])
  PROVE  TextKept(p, t)
  <1>1. /\ m \in [1..Len(s) -> 0..Len(p)]
        /\ \A i \in 1..Len(s) : (m[i] = 0 => s[i] = Space) /\ (m[i] # 0 => s[i] = p[m[i]])
        /\ \A i, j \in 1..Len(s) : i < j /\ m[i] # 0 /\ m[j] # 0 => m[i] < m[j]
        /\ \A k \in 1..Len(p) : p[k] \notin Block \cup Inline /\ ~Enclosed(p, k) => \E i \in 1..Len(s) : m[i] = k
    BY Zenon DEF KeptBy
  <1>2. DOMAIN t = 1..Len(s) /\ DOMAIN p = 1..Len(p) /\ Len(p) \in Nat /\ Len(s) \in Nat
    OBVIOUS
  <1>3. \A i \in 1..Len(s) : t[i] = Shown(s[i])
    OBVIOUS
  <1> DEFINE D == {i \in DOMAIN t : t[i] \notin {" ", "/"}}
             K == {k \in DOMAIN p : p[k] \notin Block \cup Inline /\ ~Enclosed(p, k)}
             at == [i \in D |-> m[i]]
  <1>4. D = {i \in 1..Len(s) : ~Blank(t[i])}
    BY <1>2, Zenon DEF Blank
  <1> HIDE DEF D, K
  <1>5. ASSUME NEW i \in D PROVE i \in 1..Len(s) /\ m[i] # 0 /\ m[i] \in 1..Len(p) /\ t[i] = p[m[i]]
    <2>1. i \in 1..Len(s) /\ ~Blank(Shown(s[i]))
      BY <1>3, <1>4, <1>5
    <2>2. s[i] # Space /\ s[i] \notin Block \cup Inline /\ Shown(s[i]) = s[i]
      BY <2>1, ShownIs, Zenon
    <2>3. m[i] # 0 /\ s[i] = p[m[i]]
      BY <1>1, <2>1, <2>2, Zenon
    <2>4. m[i] \in 0..Len(p)
      BY <1>1, <2>1, Zenon
    <2>5. m[i] \in 1..Len(p)
      BY <1>2, <2>3, <2>4
    <2> QED BY <1>3, <2>1, <2>2, <2>3, <2>5
  <1>6. ASSUME NEW k \in K PROVE \E i \in D : m[i] = k
    <2>1. k \in 1..Len(p) /\ p[k] \notin Block \cup Inline /\ ~Enclosed(p, k)
      BY <1>2, <1>6, Zenon DEF K
    <2>2. PICK i \in 1..Len(s) : m[i] = k
      BY <1>1, <2>1, Zenon
    <2>3. k # 0
      BY <1>2, <2>1
    <2>4. s[i] = p[k]
      BY <1>1, <2>2, <2>3, Zenon
    <2>5. Shown(s[i]) = s[i] /\ ~Blank(s[i])
      BY <2>1, <2>4, ShownIs, Zenon
    <2>6. i \in D
      BY <1>3, <1>4, <2>5, Zenon
    <2> QED BY <2>2, <2>6
  <1>7. at \in [D -> DOMAIN p] /\ DOMAIN at = D /\ \A i \in D : at[i] = m[i]
    <2>1. \A i \in D : m[i] \in DOMAIN p
      BY <1>2, <1>5, Zenon
    <2> QED BY <2>1
  <1> HIDE DEF at
  <1>8. Walks(at, K)
    <2>1. ASSUME NEW i \in DOMAIN at, NEW j \in DOMAIN at, i < j PROVE at[i] < at[j]
      <3>1. i \in 1..Len(s) /\ j \in 1..Len(s) /\ m[i] # 0 /\ m[j] # 0 /\ at[i] = m[i] /\ at[j] = m[j]
        BY <1>5, <1>7, <2>1, Zenon
      <3>2. m[i] < m[j]
        BY <1>1, <2>1, <3>1, Zenon
      <3> QED BY <3>1, <3>2, Zenon
    <2>2. ASSUME NEW k \in K PROVE \E i \in DOMAIN at : at[i] = k
      BY <1>6, <1>7, Zenon
    <2> QED BY <2>1, <2>2, Zenon DEF Walks
  <1>9. \A i \in DOMAIN at : t[i] = p[at[i]]
    BY <1>5, <1>7, Zenon
  <1> QED BY <1>7, <1>8, <1>9, Zenon DEF TextKept, D, K

LEMMA TextOf ==
  ASSUME NEW p \in Seq(PageToken)
  PROVE  TextKept(p, HtmlText(p))
  <1> DEFINE S == PageToken \cup {Space}
  <1>1. p \in Seq(S) /\ Space \in S /\ Len(p) \in Nat
    OBVIOUS
  <1>2. LeftOf(p, p)
    <2> DEFINE m == [i \in 1..Len(p) |-> i]
    <2>1. m \in [1..Len(p) -> 0..Len(p)] /\ \A i \in 1..Len(p) : m[i] = i /\ m[i] # 0
      BY <1>1
    <2> HIDE DEF m
    <2>2. KeptBy(m, p, p)
      BY <2>1, Zenon DEF KeptBy
    <2> QED BY <2>2, Zenon DEF LeftOf
  <1>3. Dropped[1] \in DroppedTags /\ Dropped[2] \in DroppedTags
    BY TagsAre DEF Dropped
  <1>4. PICK q : q = WithoutElement(p, Dropped[1])
    OBVIOUS
  <1>5. PICK r : r = WithoutElement(q, Dropped[2])
    OBVIOUS
  <1> HIDE DEF S
  <1>6. q \in Seq(S) /\ LeftOf(q, p)
    BY <1>1, <1>2, <1>3, <1>4, WithoutElementLeaves
  <1>7. r \in Seq(S) /\ LeftOf(r, p)
    BY <1>1, <1>3, <1>5, <1>6, WithoutElementLeaves
  <1>8. PICK m : KeptBy(m, r, p)
    BY <1>7, Zenon DEF LeftOf
  <1>9. HtmlText(p) = [i \in DOMAIN r |-> Shown(r[i])]
    <2>1. PICK w : w = WithoutElement(WithoutElement(p, Dropped[1]), Dropped[2])
      OBVIOUS
    <2>2. HtmlText(p) = [i \in DOMAIN w |-> Shown(w[i])]
      BY <2>1 DEF HtmlText, Shown
    <2>3. w = r
      BY <1>4, <1>5, <2>1
    <2> QED BY <2>2, <2>3
  <1>10. \A k \in 1..Len(p) : ~Blank(p[k])
    <2>1. \A token \in PageToken : ~Blank(token)
      BY PagesAssumption, Zenon DEF PagesAssumption, Blank
    <2>2. \A k \in 1..Len(p) : p[k] \in PageToken
      OBVIOUS
    <2> QED BY <2>1, <2>2, Zenon
  <1> QED BY <1>1, <1>7, <1>8, <1>9, <1>10, ShownKeeps

-----------------------------------------------------------------------------
(* The titles of a feed *)

ItemStart == "<item>"
ItemStop == "</item>"
TitleStart == "<title>"
UpTags == {"<item>", "<title>", "<summary>", "<content>", "<b>"}
DownTags == {"</item>", "</>"}

LEMMA FeedTagsAre ==
  /\ ItemTags = {ItemStart, ItemStop} /\ ItemStart # ItemStop
  /\ ItemTags \subseteq FeedTags /\ TitleStart \in FeedTags \ ItemTags
  /\ \A token : token \in FeedTags \ ItemTags => token \in UpTags \/ token = "</>"
  /\ UpTags \subseteq FeedTags /\ DownTags \subseteq FeedTags
  /\ ItemStart \in UpTags /\ UpTags \cap DownTags = {}
  <1>1. {Starts[f] : f \in Fields} = {"<title>", "<summary>", "<content>"}
    BY DEF Starts, Fields
  <1>2. FeedTags = {"<item>", "</item>", "<title>", "<summary>", "<content>", "<b>", "</>"}
    BY <1>1 DEF FeedTags, ItemTags
  <1> QED BY <1>2 DEF ItemStart, ItemStop, TitleStart, UpTags, DownTags, ItemTags

\* How many of the first n tokens are in K.
Tally(s, n, K) == Cardinality({j \in 1..n : s[j] \in K})

LEMMA CountSteps ==
  ASSUME NEW s, NEW n \in Nat, NEW K
  PROVE  /\ Tally(s, n, K) \in Nat
         /\ s[n + 1] \in K => Tally(s, n + 1, K) = Tally(s, n, K) + 1
         /\ s[n + 1] \notin K => Tally(s, n + 1, K) = Tally(s, n, K)
  <1> DEFINE C(i) == {j \in 1..i : s[j] \in K}
  <1>1. IsFiniteSet(C(n)) /\ Cardinality(C(n)) \in Nat
    <2>1. IsFiniteSet(1..n)
      BY FS_Interval
    <2>2. C(n) \subseteq 1..n
      OBVIOUS
    <2>3. IsFiniteSet(C(n))
      BY <2>1, <2>2, FS_Subset, Zenon
    <2> QED BY <2>3, FS_CardinalityType, Zenon
  <1>2. CASE s[n + 1] \in K
    <2>1. C(n + 1) = C(n) \cup {n + 1} /\ n + 1 \notin C(n)
      BY <1>2
    <2> HIDE DEF C
    <2>2. Cardinality(C(n + 1)) = Cardinality(C(n)) + 1
      BY <1>1, <2>1, FS_AddElement, Zenon
    <2> QED BY <1>1, <1>2, <2>2 DEF Tally, C
  <1>3. CASE s[n + 1] \notin K
    <2>1. C(n + 1) = C(n)
      BY <1>3
    <2> QED BY <1>1, <1>3, <2>1 DEF Tally
  <1> QED BY <1>2, <1>3

\* An item that is open stays open until it ends, and none begins inside it.
LEMMA DepthStays ==
  ASSUME NEW s, WellFormed(s), NEW n \in Nat, n + 1 \in DOMAIN s, FeedDepth(s, n) >= 1
  PROVE  s[n + 1] # ItemStart /\ (s[n + 1] # ItemStop => FeedDepth(s, n + 1) >= 1)
  <1>1. PICK u, d, v, e : u = Tally(s, n, UpTags) /\ d = Tally(s, n, DownTags)
                          /\ v = Tally(s, n + 1, UpTags) /\ e = Tally(s, n + 1, DownTags)
    OBVIOUS
  <1>2. FeedDepth(s, n) = u - d /\ FeedDepth(s, n + 1) = v - e
    BY <1>1, Zenon DEF FeedDepth, Tally, UpTags, DownTags
  <1>3. u \in Nat /\ d \in Nat
    BY <1>1, CountSteps, Zenon
  <1>4. PICK token : token = s[n + 1]
    OBVIOUS
  <1>5. (token \in UpTags => v = u + 1) /\ (token \notin UpTags => v = u)
    BY <1>1, <1>4, CountSteps, Zenon
  <1>6. (token \in DownTags => e = d + 1) /\ (token \notin DownTags => e = d)
    BY <1>1, <1>4, CountSteps, Zenon
  <1>7. (token = ItemStart => FeedDepth(s, n + 1) = 1) /\ (token = "</>" => FeedDepth(s, n + 1) >= 1)
    BY <1>4, Zenon DEF WellFormed, ItemStart
  <1>8. u - d >= 1
    BY <1>2
  <1>9. CASE token \in UpTags
    <2>1. v = u + 1 /\ e = d
      BY <1>5, <1>6, <1>9, FeedTagsAre
    <2>2. v - e >= 2 /\ v - e # 1
      BY <1>3, <1>8, <2>1
    <2>3. FeedDepth(s, n + 1) >= 1 /\ FeedDepth(s, n + 1) # 1
      BY <1>2, <1>3, <2>1, <2>2
    <2> QED BY <1>4, <1>7, <2>3
  <1>10. CASE token \notin UpTags
    <2>1. token # ItemStart
      BY <1>10, FeedTagsAre
    <2>2. CASE token = "</>"
      BY <1>4, <1>7, <2>1, <2>2
    <2>3. CASE token = ItemStop
      BY <1>4, <2>1, <2>3
    <2>4. CASE token # "</>" /\ token # ItemStop
      <3>1. token \notin DownTags
        BY <2>4, Zenon DEF DownTags, ItemStop
      <3>2. v = u /\ e = d
        BY <1>5, <1>6, <1>10, <3>1
      <3>3. FeedDepth(s, n + 1) >= 1
        BY <1>2, <3>2
      <3> QED BY <1>4, <2>1, <3>3
    <2> QED BY <2>2, <2>3, <2>4
  <1> QED BY <1>9, <1>10

LEMMA ItemOpens ==
  ASSUME NEW s, WellFormed(s), NEW n \in DOMAIN s, s[n] = ItemStart
  PROVE  FeedDepth(s, n) = 1
  BY Zenon DEF WellFormed, ItemStart

(* What is read of a feed *)

FeedWord == {"<item>"} \cup FeedToken
Entry == [title : Seq(FeedWord), summary : Seq(FeedWord)]
ItemState == [in : BOOLEAN, field : {"none", "title", "summary", "content"},
              title : Seq(FeedWord), summary : Seq(FeedWord)]
ReadState == [item : ItemState, list : Seq(Entry)]

InItem(st) == st.item.in
Rests(st) == st.item.field = "none"
Reads(st) == st.item.field = "title"
TitleRead(st) == st.item.title

Item(i, f, t, u) == [in |-> i, field |-> f, title |-> t, summary |-> u]

St(i, f, t, u, l) == [item |-> [in |-> i, field |-> f, title |-> t, summary |-> u], list |-> l]

LEMMA StateParts ==
  ASSUME NEW st \in ReadState
  PROVE  \E i \in BOOLEAN, f \in {"none", "title", "summary", "content"}, t \in Seq(FeedWord), u \in Seq(FeedWord),
            l \in Seq(Entry) : st = St(i, f, t, u, l)
  <1>1. st.item \in ItemState /\ st.list \in Seq(Entry) /\ st = [item |-> st.item, list |-> st.list]
    BY DEF ReadState
  <1>2. PICK item : item = st.item
    OBVIOUS
  <1>3. /\ item.in \in BOOLEAN /\ item.field \in {"none", "title", "summary", "content"}
        /\ item.title \in Seq(FeedWord) /\ item.summary \in Seq(FeedWord)
        /\ item = [in |-> item.in, field |-> item.field, title |-> item.title, summary |-> item.summary]
    BY <1>1, <1>2 DEF ItemState
  <1>4. st = St(item.in, item.field, item.title, item.summary, st.list)
    BY <1>1, <1>2, <1>3, Zenon DEF St
  <1> QED BY <1>1, <1>3, <1>4

Has(st, i, f, t, l) == /\ InItem(st) = i /\ TitleRead(st) = t /\ st.list = l
                       /\ (Rests(st) <=> f = "none") /\ (Reads(st) <=> f = "title")

LEMMA StateOf ==
  ASSUME NEW i \in BOOLEAN, NEW f \in {"none", "title", "summary", "content"}, NEW t \in Seq(FeedWord),
         NEW u \in Seq(FeedWord), NEW l \in Seq(Entry), NEW st, st = St(i, f, t, u, l)
  PROVE  st \in ReadState /\ Has(st, i, f, t, l)
  <1>1. st \in ReadState
    BY DEF St, ReadState, ItemState
  <1>2. InItem(st) = i /\ TitleRead(st) = t /\ st.list = l
    BY DEF St, InItem, TitleRead
  <1>3. (Rests(st) <=> f = "none") /\ (Reads(st) <=> f = "title")
    BY DEF St, Rests, Reads
  <1> QED BY <1>1, <1>2, <1>3, Zenon DEF Has

\* What a token makes of a state.
Gives(i, f, t, u, l, token, r) ==
  /\ token = ItemStart => r = St(TRUE, f, <<>>, <<>>, l)
  /\ token = ItemStop =>
       r = St(FALSE, "none", t, u, IF i /\ t # <<>> THEN Append(l, [title |-> t, summary |-> u]) ELSE l)
  /\ token \in FeedTags \ ItemTags =>
       \E g \in {"none", "title", "summary", "content"} :
         r = St(i, g, t, u, l) /\ (g = "title" <=> i /\ token = TitleStart) /\ (~i => g = "none")
  /\ token \notin FeedTags =>
       \E w \in {u, Append(u, token), <<token>>} : r = St(i, f, IF f = "title" THEN Append(t, token) ELSE t, w, l)

LEMMA ReadTokenGives ==
  ASSUME NEW i \in BOOLEAN, NEW f \in {"none", "title", "summary", "content"}, NEW t \in Seq(FeedWord),
         NEW u \in Seq(FeedWord), NEW l \in Seq(Entry), NEW token, NEW r, r = ReadToken(St(i, f, t, u, l), token)
  PROVE  Gives(i, f, t, u, l, token, r)
  <1> DEFINE st == St(i, f, t, u, l)
             item == st.item
  <1>0. item = [in |-> i, field |-> f, title |-> t, summary |-> u] /\ st = [item |-> item, list |-> l]
    BY DEF St
  <1>a. Fields = {"title", "summary", "content"} /\ Starts["title"] = "<title>" /\ Starts["summary"] = "<summary>"
        /\ Starts["content"] = "<content>"
    BY DEF Fields, Starts
  <1>b. FeedTags = {"<item>", "</item>", "<title>", "<summary>", "<content>", "<b>", "</>"} /\ ItemTags = {"<item>", "</item>"}
    <2>1. {Starts[g] : g \in Fields} = {"<title>", "<summary>", "<content>"}
      BY <1>a
    <2> QED BY <2>1 DEF FeedTags, ItemTags
  <1>c. (\E g \in Fields : token = Starts[g]) <=> token \in {"<title>", "<summary>", "<content>"}
    BY <1>a
  <1>1. CASE token = "<item>"
    <2>1. r = [st EXCEPT !.item = [NoItem EXCEPT !.in = TRUE, !.field = item.field]]
      BY <1>1, <1>c, Zenon DEF ReadToken
    <2>2. r = St(TRUE, f, <<>>, <<>>, l)
      BY <1>0, <2>1 DEF NoItem, St
    <2> QED BY <1>1, <1>b, <2>2 DEF ItemStart, ItemStop, Gives
  <1>2. CASE token = "</item>"
    <2>1. r = [item |-> FieldEnds([item EXCEPT !.in = FALSE]),
               list |-> IF item.in /\ item.title # <<>>
                        THEN Append(st.list, [title |-> item.title, summary |-> item.summary])
                        ELSE st.list]
      BY <1>2, <1>c, Zenon DEF ReadToken
    <2>2. FieldEnds([item EXCEPT !.in = FALSE]) = [in |-> FALSE, field |-> "none", title |-> t, summary |-> u]
      <3>1. PICK x : x = [item EXCEPT !.in = FALSE]
        OBVIOUS
      <3>2. PICK y : y = item
        OBVIOUS
      <3>3. y = Item(i, f, t, u)
        BY <1>0, <3>2, Zenon DEF Item
      <3>4. PICK b, v : b = FALSE /\ v = "none"
        OBVIOUS
      <3>5. x = Item(b, f, t, u)
        <4>1. [y EXCEPT !.in = b] = [in |-> b, field |-> y.field, title |-> y.title, summary |-> y.summary]
          BY <3>3 DEF Item
        <4>2. y.field = f /\ y.title = t /\ y.summary = u
          BY <3>3 DEF Item
        <4> QED BY <3>1, <3>2, <3>4, <4>1, <4>2, Zenon DEF Item
      <3>6. FieldEnds(x) = Item(FALSE, "none", t, u)
        <4>1. [x EXCEPT !.field = v] = [in |-> x.in, field |-> v, title |-> x.title, summary |-> x.summary]
          BY <3>5 DEF Item
        <4>2. x.in = b /\ x.title = t /\ x.summary = u
          BY <3>5 DEF Item
        <4> QED BY <3>4, <4>1, <4>2, Zenon DEF Item, FieldEnds
      <3> QED BY <3>1, <3>6, Zenon DEF Item
    <2>3. r = St(FALSE, "none", t, u, IF i /\ t # <<>> THEN Append(l, [title |-> t, summary |-> u]) ELSE l)
      BY <1>0, <2>1, <2>2 DEF St
    <2> QED BY <1>2, <1>b, <2>3 DEF ItemStart, ItemStop, Gives
  <1>3. CASE token \in {"<title>", "<summary>", "<content>"}
    <2>1. PICK h : h = CHOOSE g \in Fields : token = Starts[g]
      OBVIOUS
    <2>2. h \in Fields /\ token = Starts[h]
      BY <1>3, <1>c, <2>1, Zenon
    <2>3. r = [st EXCEPT !.item.field = IF item.in THEN h ELSE "none"]
      <3>1. token # "<item>" /\ token # "</item>"
        BY <1>3
      <3> QED BY <1>3, <1>c, <2>1, <3>1, Zenon DEF ReadToken
    <2>4. PICK g : g = IF i THEN h ELSE "none"
      OBVIOUS
    <2>5. r = St(i, g, t, u, l)
      BY <1>0, <2>3, <2>4 DEF St
    <2>6. g \in {"none", "title", "summary", "content"} /\ (g = "title" <=> i /\ token = "<title>") /\ (~i => g = "none")
      BY <1>a, <2>2, <2>4
    <2> QED BY <1>3, <1>b, <2>5, <2>6 DEF ItemStart, ItemStop, TitleStart, Gives
  <1>4. CASE token \in {"<b>", "</>"}
    <2>1. token \notin {"<title>", "<summary>", "<content>"} /\ token # "<item>" /\ token # "</item>"
      BY <1>4
    <2>2. r = [st EXCEPT !.item.field = "none"] \/ r = [st EXCEPT !.item = FieldEnds(@)]
      BY <1>4, <1>c, <2>1, Zenon DEF ReadToken
    <2>3. r = St(i, "none", t, u, l)
      BY <1>0, <2>2 DEF FieldEnds, St
    <2> QED BY <1>4, <1>b, <2>3 DEF ItemStart, ItemStop, TitleStart, Gives
  <1>5. CASE token \notin FeedTags
    <2>1. token \notin {"<title>", "<summary>", "<content>"} /\ token # "<item>" /\ token # "</item>" /\ token # "<b>" /\ token # "</>"
      BY <1>5, <1>b
    <2>2. r = [st EXCEPT !.item = Append1(@, token)]
      BY <1>c, <2>1, Zenon DEF ReadToken
    <2>3. \/ f = "title" /\ Append1(item, token) = [in |-> i, field |-> f, title |-> Append(t, token), summary |-> u]
          \/ f # "title" /\ \E w \in {u, Append(u, token), <<token>>} :
                Append1(item, token) = [in |-> i, field |-> f, title |-> t, summary |-> w]
      <3>1. PICK x : x = item
        OBVIOUS
      <3>2. x = [in |-> i, field |-> f, title |-> t, summary |-> u]
        BY <1>0, <3>1
      <3>3. x.field = f /\ x.summary = u
        BY <3>2
      <3>4. CASE f = "title"
        <4>1. Append1(x, token) = [x EXCEPT !.title = Append(@, token)]
          BY <3>3, <3>4 DEF Append1
        <4>2. [x EXCEPT !.title = Append(@, token)] = [in |-> i, field |-> f, title |-> Append(t, token), summary |-> u]
          <5>1. x = Item(i, f, t, u) /\ x.title = t
            BY <3>2 DEF Item
          <5>2. PICK v : v = Append(t, token)
            OBVIOUS
          <5>3. [x EXCEPT !.title = v] = [in |-> x.in, field |-> x.field, title |-> v, summary |-> x.summary]
            BY <5>1 DEF Item
          <5>4. x.in = i /\ x.field = f /\ x.summary = u
            BY <5>1 DEF Item
          <5> QED BY <5>1, <5>2, <5>3, <5>4, Zenon
        <4>3. Append1(x, token) = [in |-> i, field |-> f, title |-> Append(t, token), summary |-> u]
          BY <4>1, <4>2, Zenon
        <4> QED BY <3>1, <3>4, <4>3, Zenon
      <3>5. CASE f # "title"
        <4>1. \/ Append1(x, token) = [x EXCEPT !.summary = Append(@, token)]
              \/ Append1(x, token) = [x EXCEPT !.summary = <<token>>]
              \/ Append1(x, token) = x
          BY <3>3, <3>5 DEF Append1
        <4>2. /\ [x EXCEPT !.summary = Append(@, token)] = [in |-> i, field |-> f, title |-> t, summary |-> Append(u, token)]
              /\ [x EXCEPT !.summary = <<token>>] = [in |-> i, field |-> f, title |-> t, summary |-> <<token>>]
          <5>1. x = Item(i, f, t, u) /\ x.summary = u
            BY <3>2 DEF Item
          <5>2. /\ [x EXCEPT !.summary = Append(u, token)] = Item(i, f, t, Append(u, token))
                /\ [x EXCEPT !.summary = <<token>>] = Item(i, f, t, <<token>>)
            <6>1. PICK v, w : v = Append(u, token) /\ w = <<token>>
              OBVIOUS
            <6>2. /\ [x EXCEPT !.summary = v] = [in |-> x.in, field |-> x.field, title |-> x.title, summary |-> v]
                  /\ [x EXCEPT !.summary = w] = [in |-> x.in, field |-> x.field, title |-> x.title, summary |-> w]
              BY <5>1 DEF Item
            <6>3. x.in = i /\ x.field = f /\ x.title = t
              BY <5>1 DEF Item
            <6> QED BY <6>1, <6>2, <6>3, Zenon DEF Item
          <5> QED BY <5>1, <5>2, Zenon DEF Item
        <4> QED BY <3>1, <3>2, <3>5, <4>1, <4>2, Zenon
      <3> QED BY <3>4, <3>5
    <2>4. \E w \in {u, Append(u, token), <<token>>} : r = St(i, f, IF f = "title" THEN Append(t, token) ELSE t, w, l)
      BY <1>0, <2>2, <2>3 DEF St
    <2> QED BY <1>5, <1>b, <2>4 DEF ItemStart, ItemStop, Gives
  <1> QED BY <1>1, <1>2, <1>3, <1>4, <1>5, <1>b

LEMMA AppendTyped ==
  ASSUME NEW S, NEW t \in Seq(S), NEW x \in S
  PROVE  Append(t, x) \in Seq(S) /\ <<x>> \in Seq(S)
  OBVIOUS

\* What a token of each kind makes of what is read.
TokenChanges(st, token, r) ==
  /\ token = ItemStart => InItem(r) /\ TitleRead(r) = <<>> /\ r.list = st.list /\ (Reads(r) <=> Reads(st))
  /\ token = ItemStop =>
       /\ ~InItem(r) /\ Rests(r)
       /\ \/ InItem(st) /\ TitleRead(st) # <<>> /\ \E x \in Entry : x.title = TitleRead(st) /\ r.list = Append(st.list, x)
          \/ ~(InItem(st) /\ TitleRead(st) # <<>>) /\ r.list = st.list
  /\ token \in FeedTags \ ItemTags =>
       /\ (InItem(r) <=> InItem(st)) /\ TitleRead(r) = TitleRead(st) /\ r.list = st.list
       /\ Reads(r) <=> InItem(st) /\ token = TitleStart
       /\ ~InItem(st) => Rests(r)
  /\ token \notin FeedTags =>
       /\ (InItem(r) <=> InItem(st)) /\ r.list = st.list /\ (Rests(r) <=> Rests(st)) /\ (Reads(r) <=> Reads(st))
       /\ TitleRead(r) = IF Reads(st) THEN Append(TitleRead(st), token) ELSE TitleRead(st)

LEMMA ReadTokenIs ==
  ASSUME NEW st \in ReadState, NEW token \in FeedWord, NEW r, r = ReadToken(st, token)
  PROVE  r \in ReadState /\ TokenChanges(st, token, r)
  <1>1. PICK i \in BOOLEAN, f \in {"none", "title", "summary", "content"}, t \in Seq(FeedWord), u \in Seq(FeedWord),
             l \in Seq(Entry) : st = St(i, f, t, u, l)
    BY StateParts
  <1>2. /\ InItem(st) = i /\ TitleRead(st) = t /\ st.list = l /\ (Rests(st) <=> f = "none") /\ (Reads(st) <=> f = "title")
    <2>1. Has(st, i, f, t, l) /\ st \in ReadState
      BY <1>1, StateOf, Zenon
    <2> QED BY <2>1, Zenon DEF Has
  <1>a. Gives(i, f, t, u, l, token, r)
    BY <1>1, ReadTokenGives, Zenon
  <1>3. TRUE \in BOOLEAN /\ FALSE \in BOOLEAN /\ <<>> \in Seq(FeedWord) /\ "none" \in {"none", "title", "summary", "content"}
    OBVIOUS
  <1>4. CASE token = ItemStart
    <2>1. r = St(TRUE, f, <<>>, <<>>, l)
      BY <1>a, <1>4, Zenon DEF Gives
    <2>2. r \in ReadState /\ InItem(r) = TRUE /\ TitleRead(r) = <<>> /\ r.list = l /\ (Reads(r) <=> f = "title")
      <3>1. Has(r, TRUE, f, <<>>, l) /\ r \in ReadState
        BY <1>3, <2>1, StateOf, Zenon
      <3> QED BY <3>1, Zenon DEF Has
    <2> QED BY <1>2, <1>4, <2>2, FeedTagsAre DEF TokenChanges
  <1>5. CASE token = ItemStop
    <2>1. PICK m : m = IF i /\ t # <<>> THEN Append(l, [title |-> t, summary |-> u]) ELSE l
      OBVIOUS
    <2>2. r = St(FALSE, "none", t, u, m)
      BY <1>a, <1>5, <2>1, Zenon DEF Gives
    <2>3. [title |-> t, summary |-> u] \in Entry /\ [title |-> t, summary |-> u].title = t
      BY DEF Entry
    <2>4. m \in Seq(Entry)
      BY <2>1, <2>3
    <2>5. r \in ReadState /\ InItem(r) = FALSE /\ r.list = m /\ (Rests(r) <=> "none" = "none")
      <3>1. Has(r, FALSE, "none", t, m) /\ r \in ReadState
        BY <1>3, <2>2, <2>4, StateOf, Zenon
      <3> QED BY <3>1, Zenon DEF Has
    <2>6. CASE i /\ t # <<>>
      BY <1>2, <1>5, <2>1, <2>3, <2>5, <2>6, FeedTagsAre DEF TokenChanges
    <2>7. CASE ~(i /\ t # <<>>)
      BY <1>2, <1>5, <2>1, <2>5, <2>7, FeedTagsAre DEF TokenChanges
    <2> QED BY <2>6, <2>7
  <1>6. CASE token \in FeedTags \ ItemTags
    <2>1. PICK g \in {"none", "title", "summary", "content"} :
            r = St(i, g, t, u, l) /\ (g = "title" <=> i /\ token = TitleStart) /\ (~i => g = "none")
      BY <1>a, <1>6, Zenon DEF Gives
    <2>2. r \in ReadState /\ InItem(r) = i /\ TitleRead(r) = t /\ r.list = l /\ (Rests(r) <=> g = "none") /\ (Reads(r) <=> g = "title")
      <3>1. Has(r, i, g, t, l) /\ r \in ReadState
        BY <2>1, StateOf, Zenon
      <3> QED BY <3>1, Zenon DEF Has
    <2> QED BY <1>2, <1>6, <2>1, <2>2, FeedTagsAre DEF TokenChanges
  <1>7. CASE token \notin FeedTags
    <2>1. PICK w \in {u, Append(u, token), <<token>>} : r = St(i, f, IF f = "title" THEN Append(t, token) ELSE t, w, l)
      BY <1>a, <1>7, Zenon DEF Gives
    <2>2. PICK v : v = IF f = "title" THEN Append(t, token) ELSE t
      OBVIOUS
    <2>3. v \in Seq(FeedWord) /\ w \in Seq(FeedWord)
      BY <2>1, <2>2, AppendTyped, Zenon
    <2>4. r = St(i, f, v, w, l)
      BY <2>1, <2>2, Zenon
    <2>5. r \in ReadState /\ InItem(r) = i /\ TitleRead(r) = v /\ r.list = l /\ (Rests(r) <=> f = "none") /\ (Reads(r) <=> f = "title")
      <3>1. Has(r, i, f, v, l) /\ r \in ReadState
        BY <2>3, <2>4, StateOf, Zenon
      <3> QED BY <3>1, Zenon DEF Has
    <2> QED BY <1>2, <1>7, <2>2, <2>5, FeedTagsAre DEF TokenChanges
  <1> QED BY <1>4, <1>5, <1>6, <1>7, FeedTagsAre

LEMMA RestsReads ==
  ASSUME NEW st, Rests(st)
  PROVE  ~Reads(st)
  BY DEF Rests, Reads

(* Which text is which title's *)

\* t is what s has at the places of K, in their order.
Traces(t, K, s) == \E at \in [DOMAIN t -> K] : Walks(at, K) /\ \A j \in DOMAIN at : t[j] = s[at[j]]

\* A walk through K goes on to k.
GoesOn(f, n, K, k) == \E g \in [1..(n + 1) -> K \cup {k}] : Walks(g, K \cup {k}) /\ g[n + 1] = k /\ \A i \in 1..n : g[i] = f[i]

LEMMA WalkGrows ==
  ASSUME NEW n \in Nat, NEW K \in SUBSET Nat, NEW f \in [1..n -> K], Walks(f, K),
         NEW k \in Nat, \A j \in K : j < k
  PROVE  GoesOn(f, n, K, k)
  <1> DEFINE g == [i \in 1..(n + 1) |-> IF i = n + 1 THEN k ELSE f[i]]
  <1>1. (\A i, j \in 1..n : i < j => f[i] < f[j]) /\ (\A x \in K : \E i \in 1..n : f[i] = x)
    BY DEF Walks
  <1>2. g[n + 1] = k /\ (\A i \in 1..n : g[i] = f[i] /\ f[i] \in K) /\ DOMAIN g = 1..(n + 1)
    OBVIOUS
  <1>3. \A i \in 1..(n + 1) : i \in 1..n \/ i = n + 1
    OBVIOUS
  <1>4. g \in [1..(n + 1) -> K \cup {k}]
    BY <1>2, <1>3
  <1> HIDE DEF g
  <1>5. ASSUME NEW i \in 1..(n + 1), NEW j \in 1..(n + 1), i < j PROVE g[i] < g[j]
    <2>1. i \in 1..n
      BY <1>5
    <2>2. CASE j \in 1..n
      BY <1>1, <1>2, <1>5, <2>1, <2>2
    <2>3. CASE j = n + 1
      BY <1>2, <2>1, <2>3
    <2> QED BY <1>3, <2>2, <2>3
  <1>6. ASSUME NEW x \in K \cup {k} PROVE \E i \in 1..(n + 1) : g[i] = x
    <2>1. CASE x = k
      BY <1>2, <2>1
    <2>2. CASE x \in K
      <3>1. PICK i \in 1..n : f[i] = x
        BY <1>1, <2>2
      <3>2. i \in 1..(n + 1) /\ g[i] = x
        BY <1>2, <3>1
      <3> QED BY <3>2
    <2> QED BY <2>1, <2>2
  <1>7. Walks(g, K \cup {k})
    BY <1>2, <1>5, <1>6, Zenon DEF Walks
  <1> QED BY <1>2, <1>4, <1>7, Zenon DEF GoesOn

LEMMA TraceGrows ==
  ASSUME NEW S, NEW t \in Seq(S), NEW K \in SUBSET Nat, NEW s, Traces(t, K, s),
         NEW k \in Nat, \A j \in K : j < k, s[k] \in S
  PROVE  Traces(Append(t, s[k]), K \cup {k}, s)
  <1>1. PICK at \in [DOMAIN t -> K] : Walks(at, K) /\ \A j \in DOMAIN at : t[j] = s[at[j]]
    BY DEF Traces
  <1>2. Len(t) \in Nat /\ DOMAIN t = 1..Len(t) /\ DOMAIN at = 1..Len(t)
    OBVIOUS
  <1>3. at \in [1..Len(t) -> K]
    BY <1>2
  <1>4. PICK g \in [1..(Len(t) + 1) -> K \cup {k}] :
          Walks(g, K \cup {k}) /\ g[Len(t) + 1] = k /\ \A i \in 1..Len(t) : g[i] = at[i]
    <2>1. PICK n : n = Len(t)
      OBVIOUS
    <2>2. n \in Nat /\ at \in [1..n -> K]
      BY <1>2, <1>3, <2>1
    <2>a. Walks(at, K)
      BY <1>1
    <2>3. GoesOn(at, n, K, k)
      BY <2>a, <2>2, WalkGrows
    <2> QED BY <2>1, <2>3, Zenon DEF GoesOn
  <1>5. PICK x : x = s[k]
    OBVIOUS
  <1>6. PICK u : u = Append(t, x)
    OBVIOUS
  <1>7. DOMAIN u = 1..(Len(t) + 1) /\ u[Len(t) + 1] = x /\ \A i \in 1..Len(t) : u[i] = t[i]
    BY <1>5, <1>6
  <1>8. \A j \in 1..(Len(t) + 1) : u[j] = s[g[j]]
    <2>1. \A j \in 1..(Len(t) + 1) : j \in 1..Len(t) \/ j = Len(t) + 1
      BY <1>2
    <2>2. \A j \in 1..Len(t) : u[j] = s[g[j]]
      BY <1>1, <1>2, <1>4, <1>7, Zenon
    <2>3. u[Len(t) + 1] = s[g[Len(t) + 1]]
      BY <1>4, <1>5, <1>7, Zenon
    <2> QED BY <2>1, <2>2, <2>3, Zenon
  <1>9. g \in [DOMAIN u -> K \cup {k}] /\ DOMAIN g = 1..(Len(t) + 1)
    BY <1>4, <1>7
  <1>10. Traces(u, K \cup {k}, s)
    <2>1. \A j \in DOMAIN g : u[j] = s[g[j]]
      BY <1>8, <1>9
    <2> QED BY <1>4, <1>9, <2>1, Zenon DEF Traces
  <1> QED BY <1>5, <1>6, <1>10, Zenon

LEMMA TraceOfNone ==
  ASSUME NEW s
  PROVE  Traces(<<>>, {}, s)
  <1>1. <<>> \in [DOMAIN <<>> -> {}] /\ DOMAIN <<>> = {}
    OBVIOUS
  <1>2. Walks(<<>>, {})
    BY <1>1, Zenon DEF Walks
  <1> QED BY <1>1, <1>2, Zenon DEF Traces

LEMMA TraceIsEmpty ==
  ASSUME NEW S, NEW t \in Seq(S), NEW K, NEW s, Traces(t, K, s)
  PROVE  t = <<>> <=> K = {}
  <1>1. PICK at \in [DOMAIN t -> K] : Walks(at, K)
    BY Zenon DEF Traces
  <1>2. DOMAIN at = DOMAIN t /\ \A i \in DOMAIN t : at[i] \in K
    OBVIOUS
  <1>3. \A k \in K : \E i \in DOMAIN t : at[i] = k
    BY <1>1, <1>2, Zenon DEF Walks
  <1>4. t = <<>> <=> DOMAIN t = {}
    OBVIOUS
  <1> QED BY <1>2, <1>3, <1>4, Zenon

\* The item that begins at a is open at n; a title of it has begun and no tag stands behind; its text so far.
Opens(s, a, n) == a \in 1..n /\ s[a] = ItemStart /\ \A k \in (a + 1)..n : s[k] \notin ItemTags
Titling(s, a, n) == \E t \in (a + 1)..n : s[t] = TitleStart /\ \A j \in (t + 1)..n : s[j] \notin FeedTags
TitleOf(s, a, n) == {k \in (a + 1)..n : s[k] \notin FeedTags /\ Titling(s, a, k - 1)}

LEMMA OpensOnce ==
  ASSUME NEW s, NEW n \in Nat, NEW a, NEW b, Opens(s, a, n), Opens(s, b, n)
  PROVE  a = b
  <1>1. a \in 1..n /\ b \in 1..n
    BY Zenon DEF Opens
  <1>2. \A x, y \in 1..n : Opens(s, x, n) /\ Opens(s, y, n) => ~(x < y)
    <2> SUFFICES ASSUME NEW x \in 1..n, NEW y \in 1..n, Opens(s, x, n), Opens(s, y, n), x < y PROVE FALSE
      OBVIOUS
    <2>1. y \in (x + 1)..n
      OBVIOUS
    <2>2. s[y] \notin ItemTags /\ s[y] = ItemStart
      BY <2>1, Zenon DEF Opens
    <2> QED BY <2>2, FeedTagsAre
  <1>3. ~(a < b) /\ ~(b < a)
    BY <1>1, <1>2, Zenon
  <1> QED BY <1>1, <1>3

LEMMA TitleAtIs ==
  ASSUME NEW s, NEW n \in Nat
  PROVE  TitleAt(s, n + 1) = {k \in 1..n : \E a \in 1..n : Opens(s, a, n) /\ s[n + 1] = ItemStop /\ k \in TitleOf(s, a, n)}
  <1> DEFINE e == n + 1
  <1>1. ASSUME NEW a \in 1..e PROVE ItemAt(s, a, e) <=> a \in 1..n /\ Opens(s, a, n) /\ s[e] = ItemStop
    <2>1. (a < e <=> a \in 1..n) /\ (a + 1)..(e - 1) = (a + 1)..n
      OBVIOUS
    <2> HIDE DEF e
    <2> QED BY <2>1, Zenon DEF ItemAt, Opens, ItemStart, ItemStop
  <1>2. ASSUME NEW a \in 1..n, NEW k \in 1..e, Opens(s, a, n)
        PROVE  InTitle(s, a, k) <=> s[k] \notin FeedTags /\ Titling(s, a, k - 1)
    BY Zenon DEF InTitle, Titling, TitleStart
  <1>3. ASSUME NEW k \in 1..e, NEW a \in 1..k, ItemAt(s, a, e), InTitle(s, a, k)
        PROVE  k \in 1..n /\ a \in 1..n /\ Opens(s, a, n) /\ s[e] = ItemStop /\ k \in TitleOf(s, a, n)
    <2>1. a \in 1..e
      OBVIOUS
    <2>2. a \in 1..n /\ Opens(s, a, n) /\ s[e] = ItemStop
      BY <1>1, <1>3, <2>1, Zenon
    <2>3. s[k] \notin FeedTags /\ Titling(s, a, k - 1)
      BY <1>2, <1>3, <2>2, Zenon
    <2>4. k # e /\ k # a
      BY <2>2, <2>3, FeedTagsAre DEF Opens
    <2>5. k \in 1..n /\ k \in (a + 1)..n
      BY <2>2, <2>4
    <2> QED BY <2>2, <2>3, <2>5, Zenon DEF TitleOf
  <1>4. ASSUME NEW k \in 1..n, NEW a \in 1..n, Opens(s, a, n), s[e] = ItemStop, k \in TitleOf(s, a, n)
        PROVE  k \in 1..e /\ a \in 1..k /\ ItemAt(s, a, e) /\ InTitle(s, a, k)
    <2>1. k \in (a + 1)..n /\ s[k] \notin FeedTags /\ Titling(s, a, k - 1)
      BY <1>4, Zenon DEF TitleOf
    <2>2. k \in 1..e /\ a \in 1..k /\ a \in 1..e
      BY <2>1
    <2>3. ItemAt(s, a, e)
      BY <1>1, <1>4, <2>2, Zenon
    <2>4. InTitle(s, a, k)
      BY <1>2, <1>4, <2>1, <2>2, Zenon
    <2> QED BY <2>2, <2>3, <2>4
  <1> DEFINE R == {k \in 1..n : \E a \in 1..n : Opens(s, a, n) /\ s[e] = ItemStop /\ k \in TitleOf(s, a, n)}
  <1>5. ASSUME NEW k \in TitleAt(s, e) PROVE k \in R
    <2>1. PICK a \in 1..k : k \in 1..e /\ ItemAt(s, a, e) /\ InTitle(s, a, k)
      BY Zenon DEF TitleAt
    <2> HIDE DEF e
    <2> QED BY <1>3, <2>1, Zenon
  <1>6. ASSUME NEW k \in R PROVE k \in TitleAt(s, e)
    <2>1. PICK a \in 1..n : k \in 1..n /\ Opens(s, a, n) /\ s[e] = ItemStop /\ k \in TitleOf(s, a, n)
      OBVIOUS
    <2> HIDE DEF e
    <2> QED BY <1>4, <2>1, Zenon DEF TitleAt
  <1> QED BY <1>5, <1>6, Zenon

\* What is read of the item at hand, and of those before it, in the first n tokens.
TitledBy(s, n) == {e \in 1..n : TitleAt(s, e) # {}}
ItemIs(s, n, st) ==
  /\ InItem(st) <=> \E a \in 1..n : Opens(s, a, n)
  /\ ~InItem(st) => Rests(st)
  /\ \A a \in 1..n : Opens(s, a, n) => Traces(TitleRead(st), TitleOf(s, a, n), s) /\ (Reads(st) <=> Titling(s, a, n))
  /\ InItem(st) => FeedDepth(s, n) >= 1
ListTraces(list, end, s) == \A i \in DOMAIN list : Traces(list[i].title, TitleAt(s, end[i]), s)
ListIs(s, n, st) ==
  \E end \in [DOMAIN st.list -> TitledBy(s, n)] : Walks(end, TitledBy(s, n)) /\ ListTraces(st.list, end, s)

LEMMA OpensSteps ==
  ASSUME NEW s, NEW n \in Nat
  PROVE  /\ s[n + 1] = ItemStart => \A a \in 1..(n + 1) : Opens(s, a, n + 1) <=> a = n + 1
         /\ s[n + 1] = ItemStop => \A a \in 1..(n + 1) : ~Opens(s, a, n + 1)
         /\ s[n + 1] \notin ItemTags => \A a \in 1..(n + 1) : Opens(s, a, n + 1) <=> a \in 1..n /\ Opens(s, a, n)
  <1> DEFINE e == n + 1
  <1>1. ASSUME NEW a \in 1..n PROVE Opens(s, a, e) <=> Opens(s, a, n) /\ s[e] \notin ItemTags
    <2>1. (a + 1)..e = ((a + 1)..n) \cup {e} /\ a \in 1..e
      OBVIOUS
    <2> HIDE DEF e
    <2> QED BY <2>1 DEF Opens
  <1>2. Opens(s, e, e) <=> s[e] = ItemStart
    <2>1. (e + 1)..e = {} /\ e \in 1..e
      OBVIOUS
    <2> HIDE DEF e
    <2> QED BY <2>1 DEF Opens
  <1>3. \A a \in 1..e : (a \in 1..n /\ a # e) \/ (a = e /\ a \notin 1..n)
    OBVIOUS
  <1>4. e \in 1..e
    OBVIOUS
  <1> HIDE DEF e
  <1>5. ItemStart \in ItemTags /\ ItemStop \in ItemTags /\ ItemStart # ItemStop
    BY FeedTagsAre
  <1>6. s[e] = ItemStart => \A a \in 1..e : Opens(s, a, e) <=> a = e
    BY <1>1, <1>2, <1>3, <1>5
  <1>7. s[e] = ItemStop => \A a \in 1..e : ~Opens(s, a, e)
    BY <1>1, <1>2, <1>3, <1>5
  <1>8. s[e] \notin ItemTags => \A a \in 1..e : Opens(s, a, e) <=> a \in 1..n /\ Opens(s, a, n)
    BY <1>1, <1>2, <1>3, <1>5
  <1> QED BY <1>6, <1>7, <1>8 DEF e

LEMMA TitlingSteps ==
  ASSUME NEW s, NEW n \in Nat, NEW a \in 1..n
  PROVE  /\ s[n + 1] \in FeedTags => /\ Titling(s, a, n + 1) <=> s[n + 1] = TitleStart
                                     /\ TitleOf(s, a, n + 1) = TitleOf(s, a, n)
         /\ s[n + 1] \notin FeedTags => /\ Titling(s, a, n + 1) <=> Titling(s, a, n)
                                        /\ Titling(s, a, n) => TitleOf(s, a, n + 1) = TitleOf(s, a, n) \cup {n + 1}
                                        /\ ~Titling(s, a, n) => TitleOf(s, a, n + 1) = TitleOf(s, a, n)
  <1> DEFINE e == n + 1
  <1>1. (a + 1)..e = ((a + 1)..n) \cup {e} /\ e - 1 = n /\ (e + 1)..e = {} /\ e \notin (a + 1)..n
    OBVIOUS
  <1>2. \A t \in (a + 1)..n : (t + 1)..e = ((t + 1)..n) \cup {e}
    OBVIOUS
  <1>3. TitleStart \in FeedTags
    BY FeedTagsAre
  <1> HIDE DEF e
  <1>4. Titling(s, a, e) <=> \/ \E t \in (a + 1)..n : s[t] = TitleStart /\ \A j \in ((t + 1)..n) \cup {e} : s[j] \notin FeedTags
                             \/ s[e] = TitleStart
    <2>1. ASSUME NEW t \in (a + 1)..n
          PROVE  (\A j \in (t + 1)..e : s[j] \notin FeedTags) <=> (\A j \in ((t + 1)..n) \cup {e} : s[j] \notin FeedTags)
      BY <1>2, Zenon
    <2>2. \A j \in (e + 1)..e : s[j] \notin FeedTags
      BY <1>1, Zenon
    <2>3. Titling(s, a, e) <=> \E t \in ((a + 1)..n) \cup {e} : s[t] = TitleStart /\ \A j \in (t + 1)..e : s[j] \notin FeedTags
      BY <1>1, Zenon DEF Titling
    <2> QED BY <2>1, <2>2, <2>3, Zenon
  <1>5. s[e] \in FeedTags => (Titling(s, a, e) <=> s[e] = TitleStart)
    BY <1>4, Zenon
  <1>6. s[e] \notin FeedTags => (Titling(s, a, e) <=> Titling(s, a, n))
    BY <1>3, <1>4, Zenon DEF Titling
  <1>7. \A k : k \in TitleOf(s, a, e) <=> (k \in TitleOf(s, a, n) \/ (k = e /\ s[e] \notin FeedTags /\ Titling(s, a, n)))
    <2>1. \A k : k \in TitleOf(s, a, e) <=> (k \in (a + 1)..n \/ k = e) /\ s[k] \notin FeedTags /\ Titling(s, a, k - 1)
      BY <1>1 DEF TitleOf
    <2>2. \A k : k \in TitleOf(s, a, n) <=> k \in (a + 1)..n /\ s[k] \notin FeedTags /\ Titling(s, a, k - 1)
      BY DEF TitleOf
    <2>3. \A k : k \in (a + 1)..n => k # e
      BY <1>1
    <2>4. TAKE k
    <2>5. CASE k = e
      BY <1>1, <2>1, <2>2, <2>5
    <2>6. CASE k # e
      BY <2>1, <2>2, <2>6
    <2> QED BY <2>5, <2>6
  <1>b. PICK A, B : A = TitleOf(s, a, e) /\ B = TitleOf(s, a, n)
    OBVIOUS
  <1>c. \A k : k \in A <=> (k \in B \/ (k = e /\ s[e] \notin FeedTags /\ Titling(s, a, n)))
    BY <1>7, <1>b
  <1>8. s[e] \in FeedTags => TitleOf(s, a, e) = TitleOf(s, a, n)
    BY <1>b, <1>c
  <1>9. s[e] \notin FeedTags => /\ Titling(s, a, n) => TitleOf(s, a, e) = TitleOf(s, a, n) \cup {e}
                                /\ ~Titling(s, a, n) => TitleOf(s, a, e) = TitleOf(s, a, n)
    BY <1>b, <1>c
  <1> QED BY <1>5, <1>6, <1>8, <1>9, Zenon DEF e

LEMMA TitleNew ==
  ASSUME NEW s, NEW a \in Nat
  PROVE  TitleOf(s, a, a) = {} /\ ~Titling(s, a, a)
  <1>1. (a + 1)..a = {}
    OBVIOUS
  <1> QED BY <1>1 DEF TitleOf, Titling

\* A list is as it was, or one entry longer.
LEMMA ListStays ==
  ASSUME NEW s, NEW n \in Nat, NEW st, NEW r, ListIs(s, n, st), r.list = st.list, TitleAt(s, n + 1) = {}
  PROVE  ListIs(s, n + 1, r)
  <1>1. ASSUME NEW e \in 1..(n + 1) PROVE e \in 1..n \/ e = n + 1
    OBVIOUS
  <1>2. ASSUME NEW e \in 1..n PROVE e \in 1..(n + 1)
    OBVIOUS
  <1>3. TitledBy(s, n + 1) = TitledBy(s, n)
    BY <1>1, <1>2 DEF TitledBy
  <1> QED BY <1>3, Zenon DEF ListIs

LEMMA ListGrows ==
  ASSUME NEW s, NEW n \in Nat, NEW st \in ReadState, NEW r, ListIs(s, n, st), TitleAt(s, n + 1) # {},
         NEW x \in Entry, r.list = Append(st.list, x), Traces(x.title, TitleAt(s, n + 1), s)
  PROVE  ListIs(s, n + 1, r)
  <1> DEFINE e == n + 1
             K == TitledBy(s, n)
  <1>1. PICK end \in [DOMAIN st.list -> K] : Walks(end, K) /\ ListTraces(st.list, end, s)
    BY Zenon DEF ListIs
  <1>2. PICK l, m : l = st.list /\ m = Len(l)
    OBVIOUS
  <1>3. l \in Seq(Entry)
    BY <1>2 DEF ReadState
  <1>4. m \in Nat /\ DOMAIN l = 1..m
    BY <1>2, <1>3
  <1>5. K \in SUBSET Nat /\ e \in Nat /\ \A j \in K : j < e
    BY DEF TitledBy
  <1>6. K \cup {e} = TitledBy(s, e)
    <2>1. \A j : j \in 1..e <=> (j \in 1..n \/ j = e)
      OBVIOUS
    <2> HIDE DEF e
    <2> QED BY <2>1 DEF TitledBy, e
  <1> HIDE DEF e, K
  <1>7. end \in [1..m -> K] /\ Walks(end, K)
    BY <1>1, <1>2, <1>4, Zenon
  <1>8. GoesOn(end, m, K, e)
    BY <1>4, <1>5, <1>7, WalkGrows
  <1>9. PICK g \in [1..(m + 1) -> K \cup {e}] : Walks(g, K \cup {e}) /\ g[m + 1] = e /\ \A i \in 1..m : g[i] = end[i]
    BY <1>8, Zenon DEF GoesOn
  <1>10. PICK k : k = Append(l, x)
    OBVIOUS
  <1>11. r.list = k /\ DOMAIN k = 1..(m + 1) /\ k[m + 1] = x /\ \A i \in 1..m : k[i] = l[i]
    <2>1. DOMAIN k = 1..(m + 1) /\ k[m + 1] = x /\ \A i \in 1..m : k[i] = l[i]
      BY <1>2, <1>3, <1>10
    <2> QED BY <1>2, <1>10, <2>1, Zenon
  <1>12. ListTraces(k, g, s)
    <2>1. ASSUME NEW i \in 1..m PROVE Traces(k[i].title, TitleAt(s, g[i]), s)
      <3>1. Traces(l[i].title, TitleAt(s, end[i]), s)
        BY <1>1, <1>2, <1>4, Zenon DEF ListTraces
      <3>2. k[i] = l[i] /\ g[i] = end[i]
        BY <1>9, <1>11, Zenon
      <3> QED BY <3>1, <3>2, Zenon
    <2>2. Traces(k[m + 1].title, TitleAt(s, g[m + 1]), s)
      BY <1>9, <1>11, Zenon DEF e
    <2>3. \A i \in DOMAIN k : i \in 1..m \/ i = m + 1
      BY <1>4, <1>11
    <2> QED BY <2>1, <2>2, <2>3, Zenon DEF ListTraces
  <1>13. g \in [DOMAIN r.list -> TitledBy(s, e)] /\ Walks(g, TitledBy(s, e)) /\ ListTraces(r.list, g, s)
    BY <1>6, <1>9, <1>11, <1>12, Zenon
  <1>14. ListIs(s, e, r)
    BY <1>13, Zenon DEF ListIs
  <1> QED BY <1>14 DEF e

LEMMA FeedStep ==
  ASSUME NEW s \in Seq(FeedWord), WellFormed(s), NEW n \in Nat, n + 1 \in DOMAIN s,
         NEW st \in ReadState, ItemIs(s, n, st), ListIs(s, n, st), NEW r, r = ReadToken(st, s[n + 1])
  PROVE  r \in ReadState /\ ItemIs(s, n + 1, r) /\ ListIs(s, n + 1, r)
  <1> DEFINE e == n + 1
  <1>1. PICK token : token = s[e]
    OBVIOUS
  <1>2. token \in FeedWord
    BY <1>1
  <1>3. r \in ReadState /\ TokenChanges(st, token, r)
    BY <1>1, <1>2, ReadTokenIs
  <1>4. /\ InItem(st) <=> \E a \in 1..n : Opens(s, a, n)
        /\ ~InItem(st) => Rests(st)
        /\ \A a \in 1..n : Opens(s, a, n) => Traces(TitleRead(st), TitleOf(s, a, n), s) /\ (Reads(st) <=> Titling(s, a, n))
        /\ InItem(st) => FeedDepth(s, n) >= 1
    BY Zenon DEF ItemIs
  <1>5. TitleAt(s, e) = {k \in 1..n : \E a \in 1..n : Opens(s, a, n) /\ s[e] = ItemStop /\ k \in TitleOf(s, a, n)}
    BY TitleAtIs, Zenon
  <1>6. e \in 1..e /\ (\A a \in 1..n : a \in 1..e) /\ e \in DOMAIN s /\ e \in Nat /\ e \notin 1..n
    OBVIOUS
  <1>7. InItem(st) => s[e] # ItemStart /\ (s[e] # ItemStop => FeedDepth(s, e) >= 1)
    BY <1>4, DepthStays
  <1>8. TitleRead(st) \in Seq(FeedWord)
    BY DEF ReadState, ItemState, TitleRead
  <1>o. /\ s[e] = ItemStart => \A a \in 1..e : Opens(s, a, e) <=> a = e
        /\ s[e] = ItemStop => \A a \in 1..e : ~Opens(s, a, e)
        /\ s[e] \notin ItemTags => \A a \in 1..e : Opens(s, a, e) <=> a \in 1..n /\ Opens(s, a, n)
    BY OpensSteps, Zenon
  <1>t. \A a \in 1..n :
         /\ s[e] \in FeedTags => /\ Titling(s, a, e) <=> s[e] = TitleStart
                                 /\ TitleOf(s, a, e) = TitleOf(s, a, n)
         /\ s[e] \notin FeedTags => /\ Titling(s, a, e) <=> Titling(s, a, n)
                                    /\ Titling(s, a, n) => TitleOf(s, a, e) = TitleOf(s, a, n) \cup {e}
                                    /\ ~Titling(s, a, n) => TitleOf(s, a, e) = TitleOf(s, a, n)
    BY TitlingSteps, Zenon
  <1>9. s[e] # ItemStop => TitleAt(s, e) = {}
    BY <1>5
  <1> HIDE DEF e
  <1>10. CASE s[e] = ItemStart
    <2>1. InItem(r) /\ TitleRead(r) = <<>> /\ r.list = st.list /\ (Reads(r) <=> Reads(st))
      BY <1>1, <1>3, <1>10, Zenon DEF e, TokenChanges
    <2>2. ~InItem(st) /\ s[e] # ItemStop
      BY <1>7, <1>10, FeedTagsAre
    <2>3. ~Reads(r)
      BY <1>4, <2>1, <2>2, RestsReads
    <2>4. FeedDepth(s, e) >= 1
      <3>1. FeedDepth(s, e) = 1
        BY <1>6, <1>10, ItemOpens, Zenon
      <3> QED BY <3>1
    <2>5. TitleOf(s, e, e) = {} /\ ~Titling(s, e, e)
      BY <1>6, TitleNew, Zenon
    <2>6. Traces(TitleRead(r), TitleOf(s, e, e), s)
      BY <2>1, <2>5, TraceOfNone, Zenon
    <2>7. \A a \in 1..e : Opens(s, a, e) <=> a = e
      BY <1>o, <1>10, Zenon
    <2>8. \A a \in 1..e : Opens(s, a, e) => Traces(TitleRead(r), TitleOf(s, a, e), s) /\ (Reads(r) <=> Titling(s, a, e))
      BY <2>3, <2>5, <2>6, <2>7, Zenon
    <2>9. ItemIs(s, e, r)
      BY <1>6, <2>1, <2>4, <2>7, <2>8, Zenon DEF ItemIs
    <2>10. ListIs(s, e, r)
      BY <1>9, <2>1, <2>2, ListStays, Zenon DEF e
    <2> QED BY <1>3, <2>9, <2>10 DEF e
  <1>11. CASE s[e] = ItemStop
    <2>1. /\ ~InItem(r) /\ Rests(r)
          /\ \/ InItem(st) /\ TitleRead(st) # <<>> /\ \E x \in Entry : x.title = TitleRead(st) /\ r.list = Append(st.list, x)
             \/ ~(InItem(st) /\ TitleRead(st) # <<>>) /\ r.list = st.list
      BY <1>1, <1>3, <1>11, Zenon DEF e, TokenChanges
    <2>2. \A a \in 1..e : ~Opens(s, a, e)
      BY <1>o, <1>11, Zenon
    <2>3. ItemIs(s, e, r)
      BY <2>1, <2>2, Zenon DEF ItemIs
    <2>4. ASSUME NEW a \in 1..n, Opens(s, a, n) PROVE TitleAt(s, e) = TitleOf(s, a, n)
      <3>1. \A b \in 1..n : Opens(s, b, n) => b = a
        BY <2>4, OpensOnce, Zenon
      <3>2. TitleOf(s, a, n) \subseteq 1..n
        BY <2>4 DEF TitleOf
      <3> QED BY <1>5, <1>11, <2>4, <3>1, <3>2
    <2>5. CASE InItem(st) /\ TitleRead(st) # <<>>
      <3>1. PICK a \in 1..n : Opens(s, a, n)
        BY <1>4, <2>5, Zenon
      <3>2. Traces(TitleRead(st), TitleAt(s, e), s)
        BY <1>4, <2>4, <3>1, Zenon
      <3>3. TitleAt(s, e) # {}
        BY <1>8, <2>5, <3>2, TraceIsEmpty, Zenon
      <3>4. PICK x \in Entry : x.title = TitleRead(st) /\ r.list = Append(st.list, x)
        BY <2>1, <2>5, Zenon
      <3>5. Traces(x.title, TitleAt(s, e), s)
        BY <3>2, <3>4, Zenon
      <3>6. ListIs(s, e, r)
        BY <3>3, <3>4, <3>5, ListGrows, Zenon DEF e
      <3> QED BY <1>3, <2>3, <3>6 DEF e
    <2>6. CASE ~(InItem(st) /\ TitleRead(st) # <<>>)
      <3>1. r.list = st.list
        BY <2>1, <2>6, Zenon
      <3>2. TitleAt(s, e) = {}
        <4>1. CASE InItem(st)
          <5>1. PICK a \in 1..n : Opens(s, a, n)
            BY <1>4, <4>1, Zenon
          <5>2. Traces(TitleRead(st), TitleAt(s, e), s) /\ TitleRead(st) = <<>>
            BY <1>4, <2>4, <2>6, <4>1, <5>1, Zenon
          <5> QED BY <1>8, <5>2, TraceIsEmpty, Zenon
        <4>2. CASE ~InItem(st)
          BY <1>4, <1>5, <4>2
        <4> QED BY <4>1, <4>2
      <3>3. ListIs(s, e, r)
        BY <3>1, <3>2, ListStays, Zenon DEF e
      <3> QED BY <1>3, <2>3, <3>3 DEF e
    <2> QED BY <2>5, <2>6
  <1>12. CASE s[e] \in FeedTags \ ItemTags
    <2>1. /\ (InItem(r) <=> InItem(st)) /\ TitleRead(r) = TitleRead(st) /\ r.list = st.list
          /\ Reads(r) <=> InItem(st) /\ token = TitleStart
          /\ ~InItem(st) => Rests(r)
      BY <1>1, <1>3, <1>12, Zenon DEF e, TokenChanges
    <2>2. s[e] # ItemStop /\ s[e] \notin ItemTags /\ s[e] \in FeedTags
      BY <1>12, FeedTagsAre
    <2>3. \A a \in 1..e : Opens(s, a, e) <=> a \in 1..n /\ Opens(s, a, n)
      BY <1>o, <2>2, Zenon
    <2>4. \A a \in 1..n : (Titling(s, a, e) <=> s[e] = TitleStart) /\ TitleOf(s, a, e) = TitleOf(s, a, n)
      BY <1>t, <2>2, Zenon
    <2>5. InItem(r) <=> \E a \in 1..e : Opens(s, a, e)
      BY <1>4, <1>6, <2>1, <2>3, Zenon
    <2>6. ASSUME NEW a \in 1..e, Opens(s, a, e)
          PROVE  Traces(TitleRead(r), TitleOf(s, a, e), s) /\ (Reads(r) <=> Titling(s, a, e))
      <3>1. a \in 1..n /\ Opens(s, a, n) /\ InItem(st)
        BY <1>4, <2>3, <2>6, Zenon
      <3>2. Traces(TitleRead(r), TitleOf(s, a, e), s)
        BY <1>4, <2>1, <2>4, <3>1, Zenon
      <3>3. Reads(r) <=> Titling(s, a, e)
        BY <1>1, <2>1, <2>4, <3>1 DEF e
      <3> QED BY <3>2, <3>3
    <2>7. ItemIs(s, e, r)
      BY <1>7, <2>1, <2>2, <2>5, <2>6, Zenon DEF ItemIs
    <2>8. ListIs(s, e, r)
      BY <1>9, <2>1, <2>2, ListStays, Zenon DEF e
    <2> QED BY <1>3, <2>7, <2>8 DEF e
  <1>13. CASE s[e] \notin FeedTags
    <2>1. /\ (InItem(r) <=> InItem(st)) /\ r.list = st.list /\ (Rests(r) <=> Rests(st)) /\ (Reads(r) <=> Reads(st))
          /\ TitleRead(r) = IF Reads(st) THEN Append(TitleRead(st), token) ELSE TitleRead(st)
      BY <1>1, <1>3, <1>13, Zenon DEF e, TokenChanges
    <2>2. s[e] # ItemStop /\ s[e] \notin ItemTags
      BY <1>13, FeedTagsAre
    <2>3. \A a \in 1..e : Opens(s, a, e) <=> a \in 1..n /\ Opens(s, a, n)
      BY <1>o, <2>2, Zenon
    <2>4. \A a \in 1..n : /\ Titling(s, a, e) <=> Titling(s, a, n)
                          /\ Titling(s, a, n) => TitleOf(s, a, e) = TitleOf(s, a, n) \cup {e}
                          /\ ~Titling(s, a, n) => TitleOf(s, a, e) = TitleOf(s, a, n)
      BY <1>t, <1>13, Zenon
    <2>5. InItem(r) <=> \E a \in 1..e : Opens(s, a, e)
      BY <1>4, <1>6, <2>1, <2>3, Zenon
    <2>6. ASSUME NEW a \in 1..e, Opens(s, a, e)
          PROVE  Traces(TitleRead(r), TitleOf(s, a, e), s) /\ (Reads(r) <=> Titling(s, a, e))
      <3>1. a \in 1..n /\ Opens(s, a, n)
        BY <2>3, <2>6, Zenon
      <3>2. Traces(TitleRead(st), TitleOf(s, a, n), s) /\ (Reads(st) <=> Titling(s, a, n))
        BY <1>4, <3>1, Zenon
      <3>3. CASE Titling(s, a, n)
        <4>1. TitleOf(s, a, e) = TitleOf(s, a, n) \cup {e} /\ TitleRead(r) = Append(TitleRead(st), s[e])
          BY <1>1, <2>1, <2>4, <3>1, <3>2, <3>3, Zenon
        <4>2. PICK K : K = TitleOf(s, a, n)
          OBVIOUS
        <4>3. K \in SUBSET Nat /\ \A j \in K : j < e
          BY <3>1, <4>2 DEF TitleOf, e
        <4>4. Traces(TitleRead(st), K, s) /\ s[e] \in FeedWord
          BY <1>1, <1>2, <3>2, <4>2, Zenon
        <4>5. Traces(Append(TitleRead(st), s[e]), K \cup {e}, s)
          BY <1>6, <1>8, <4>3, <4>4, TraceGrows, Zenon
        <4> QED BY <2>1, <2>4, <3>1, <3>2, <3>3, <4>1, <4>2, <4>5, Zenon
      <3>4. CASE ~Titling(s, a, n)
        BY <2>1, <2>4, <3>1, <3>2, <3>4, Zenon
      <3> QED BY <3>3, <3>4
    <2>7. ItemIs(s, e, r)
      BY <1>4, <1>7, <2>1, <2>2, <2>5, <2>6, Zenon DEF ItemIs
    <2>8. ListIs(s, e, r)
      BY <1>9, <2>1, <2>2, ListStays, Zenon DEF e
    <2> QED BY <1>3, <2>7, <2>8 DEF e
  <1>14. s[e] = ItemStart \/ s[e] = ItemStop \/ s[e] \in FeedTags \ ItemTags \/ s[e] \notin FeedTags
    BY FeedTagsAre
  <1> QED BY <1>10, <1>11, <1>12, <1>13, <1>14, Zenon

LEMMA FeedBegins ==
  ASSUME NEW s, NEW st, st = [item |-> NoItem, list |-> <<>>]
  PROVE  st \in ReadState /\ ItemIs(s, 0, st) /\ ListIs(s, 0, st)
  <1>1. st = St(FALSE, "none", <<>>, <<>>, <<>>)
    BY Zenon DEF St, NoItem
  <1>2. FALSE \in BOOLEAN /\ "none" \in {"none", "title", "summary", "content"} /\ <<>> \in Seq(FeedWord) /\ <<>> \in Seq(Entry)
    OBVIOUS
  <1>3. st \in ReadState /\ Has(st, FALSE, "none", <<>>, <<>>)
    BY <1>1, <1>2, StateOf, Zenon
  <1>4. ~InItem(st) /\ Rests(st) /\ st.list = <<>>
    BY <1>3, Zenon DEF Has
  <1>5. \A a : a \notin 1..0
    OBVIOUS
  <1>6. ItemIs(s, 0, st)
    BY <1>4, <1>5, Zenon DEF ItemIs
  <1>7. TitledBy(s, 0) = {}
    BY <1>5 DEF TitledBy
  <1>8. <<>> \in [DOMAIN <<>> -> {}] /\ DOMAIN <<>> = {}
    OBVIOUS
  <1>9. Walks(<<>>, {}) /\ ListTraces(<<>>, <<>>, s)
    BY <1>8, Zenon DEF Walks, ListTraces
  <1>10. ListIs(s, 0, st)
    BY <1>4, <1>7, <1>8, <1>9, Zenon DEF ListIs
  <1> QED BY <1>3, <1>6, <1>10

LEMMA ParseIs ==
  ASSUME NEW s \in Seq(FeedWord), WellFormed(s)
  PROVE  \E st \in ReadState : ListIs(s, Len(s), st) /\ Parse(s) = st.list
  <1> DEFINE N == Len(s)
             base == [item |-> NoItem, list |-> <<>>]
             g == [i \in 1..N |-> [st \in ReadState |-> ReadToken(st, s[i])]]
             body(f) == [n \in 0..N |-> IF n = 0 THEN base ELSE ReadToken(f[n - 1], s[n])]
             F == CHOOSE f : f = body(f)
  <1>1. Parse(s) = F[N].list
    BY Zenon DEF Parse
  <1>2. N \in Nat /\ \A i \in 1..N : s[i] \in FeedWord
    OBVIOUS
  <1>3. base \in ReadState /\ ItemIs(s, 0, base) /\ ListIs(s, 0, base)
    BY FeedBegins, Zenon
  <1> HIDE DEF base
  <1>4. g \in [1..N -> [ReadState -> ReadState]]
    <2>1. ASSUME NEW i \in 1..N, NEW st \in ReadState PROVE ReadToken(st, s[i]) \in ReadState
      BY <1>2, ReadTokenIs, Zenon
    <2> QED BY <2>1
  <1>5. PICK f : Follows(f, N, ReadState, base, g)
    <2> HIDE DEF g, N
    <2> QED BY <1>2, <1>3, <1>4, RecursionExists, Zenon
  <1>6. f \in [0..N -> ReadState] /\ f[0] = base /\ \A i \in 1..N : f[i] = g[i][f[i - 1]]
    BY <1>5, Zenon DEF Follows
  <1>7. ASSUME NEW i \in 1..N PROVE f[i] = ReadToken(f[i - 1], s[i])
    <2>1. i - 1 \in 0..N
      BY <1>2
    <2>2. f[i - 1] \in ReadState
      BY <1>6, <2>1, Zenon
    <2> QED BY <1>6, <2>2
  <1>8. f = body(f)
    <2>1. ASSUME NEW i \in 0..N PROVE f[i] = IF i = 0 THEN base ELSE ReadToken(f[i - 1], s[i])
      <3>1. i = 0 \/ i \in 1..N
        BY <1>2
      <3> QED BY <1>2, <1>6, <1>7, <3>1
    <2>2. f = [i \in 0..N |-> f[i]]
      BY <1>6
    <2> QED BY <2>1, <2>2
  <1>9. ASSUME NEW h, h = body(h)
        PROVE  \A i \in 0..N : h[i] \in ReadState /\ ItemIs(s, i, h[i]) /\ ListIs(s, i, h[i])
    <2>1. \A i \in 0..N : h[i] = IF i = 0 THEN base ELSE ReadToken(h[i - 1], s[i])
      BY <1>9
    <2> DEFINE M == {i \in 0..N : h[i] \in ReadState /\ ItemIs(s, i, h[i]) /\ ListIs(s, i, h[i])}
    <2>2. 0 \in M
      <3>1. 0 \in 0..N /\ h[0] = base
        BY <1>2, <2>1
      <3> QED BY <1>3, <3>1, Zenon
    <2>3. ASSUME NEW i \in 0..(N - 1), i \in M PROVE i + 1 \in M
      <3>1. i + 1 \in 0..N /\ i + 1 # 0 /\ (i + 1) - 1 = i /\ i \in Nat /\ i + 1 \in DOMAIN s
        BY <1>2
      <3>2. h[i + 1] = ReadToken(h[i], s[i + 1])
        BY <2>1, <3>1
      <3>3. h[i] \in ReadState /\ ItemIs(s, i, h[i]) /\ ListIs(s, i, h[i])
        BY <2>3, Zenon
      <3>4. PICK r : r = h[i + 1]
        OBVIOUS
      <3>5. r \in ReadState /\ ItemIs(s, i + 1, r) /\ ListIs(s, i + 1, r)
        BY <3>1, <3>2, <3>3, <3>4, FeedStep, Zenon
      <3> QED BY <3>1, <3>4, <3>5, Zenon
    <2> HIDE DEF N
    <2>4. 0..N \subseteq M
      <3> HIDE DEF M
      <3> QED BY <1>2, <2>2, <2>3, NumbersUpTo, Zenon
    <2> QED BY <2>4
  <1>10. F = body(F)
    <2> HIDE DEF body
    <2> QED BY <1>8, Zenon
  <1>11. F[N] \in ReadState /\ ListIs(s, N, F[N])
    <2>1. N \in 0..N
      BY <1>2
    <2> HIDE DEF F, body, N
    <2> QED BY <1>9, <1>10, <2>1, Zenon
  <1> HIDE DEF F
  <1> QED BY <1>1, <1>11, Zenon

\* The titles of the list l are those of the feed s, as TitlesAreWhole asks for it.
TitlesKept(s, l) ==
  \E end \in [DOMAIN l -> Titled(s)] :
    /\ Walks(end, Titled(s))
    /\ \A i \in DOMAIN l :
         \E at \in [DOMAIN l[i].title -> TitleAt(s, end[i])] :
           /\ Walks(at, TitleAt(s, end[i]))
           /\ \A j \in DOMAIN at : l[i].title[j] = s[at[j]]

LEMMA TitlesOf ==
  ASSUME NEW s \in Seq(FeedWord), WellFormed(s)
  PROVE  TitlesKept(s, Parse(s))
  <1>1. PICK st \in ReadState : ListIs(s, Len(s), st) /\ Parse(s) = st.list
    BY ParseIs, Zenon
  <1>2. DOMAIN s = 1..Len(s)
    OBVIOUS
  <1>3. TitledBy(s, Len(s)) = Titled(s)
    BY <1>2, Zenon DEF TitledBy, Titled
  <1>4. PICK l : l = Parse(s)
    OBVIOUS
  <1>5. \E end \in [DOMAIN l -> Titled(s)] : Walks(end, Titled(s)) /\ ListTraces(l, end, s)
    BY <1>1, <1>3, <1>4, Zenon DEF ListIs
  <1>6. TitlesKept(s, l)
    BY <1>5, Zenon DEF TitlesKept, ListTraces, Traces
  <1> QED BY <1>4, <1>6

LEMMA NoTitles ==
  TitlesKept(<<>>, <<>>)
  <1>1. Titled(<<>>) = {}
    BY DEF Titled
  <1>2. <<>> \in [DOMAIN <<>> -> {}] /\ DOMAIN <<>> = {}
    OBVIOUS
  <1>3. Walks(<<>>, {})
    BY <1>2, Zenon DEF Walks
  <1> QED BY <1>1, <1>2, <1>3, Zenon DEF TitlesKept

-----------------------------------------------------------------------------
(* The pages and the terminal *)

\* What has been read of pages and feeds; the words of a search are looked at as it is made.
PagesInv ==
  /\ requested \cap Local = {}
  /\ reading = "checked" => url \notin Local
  /\ reading = "done" => TextKept(page, text)
  /\ TitlesKept(feed, items)
  /\ SearchFallsBack

LEMMA PagesInvSays ==
  PagesInv => PagesAreRead
  BY Zenon DEF PagesInv, PagesAreRead, HopsArePublic, TextIsKept, TextKept, TitlesAreWhole, TitlesKept

LEMMA PagesInitial ==
  PagesInit => PagesInv
  <1> SUFFICES ASSUME PagesInit PROVE PagesInv
    OBVIOUS
  <1>1. requested = {} /\ reading = "asked" /\ feed = <<>> /\ items = <<>>
    BY DEF PagesInit
  <1>2. reading # "checked" /\ reading # "done" /\ reading # "searched"
    BY <1>1
  <1>3. TitlesKept(feed, items)
    BY <1>1, NoTitles, Zenon
  <1>4. requested \cap Local = {}
    BY <1>1
  <1> QED BY <1>2, <1>3, <1>4, Zenon DEF PagesInv, SearchFallsBack

LEMMA WebSearchFallsBack ==
  WebSearch => SearchFallsBack'
  <1> SUFFICES ASSUME WebSearch PROVE SearchFallsBack'
    OBVIOUS
  <1>1. PICK b \in Backend, k \in BOOLEAN, up \in SUBSET {"backend", "wikipedia"},
             titles \in {<<>>, <<"t">>, <<"u", "t">>}, texts \in SUBSET {"t", "u"} :
         LET q == [NoSearch EXCEPT !.backend = b, !.key = k, !.up = up]
             wiki == [q EXCEPT !.hits = Wikipedia(titles, texts), !.source = "wikipedia"]
         IN search' = IF b \in Keyed /\ k /\ "backend" \in up
                      THEN [q EXCEPT !.hits = titles, !.source = b]
                      ELSE IF "wikipedia" \notin up THEN [q EXCEPT !.source = "error"]
                      ELSE IF b = "wikipedia" THEN wiki
                      ELSE IF FallsBack(q) THEN [wiki EXCEPT !.note = TRUE]
                      ELSE [q EXCEPT !.source = "error"]
    BY Zenon DEF WebSearch
  <1>2. PICK hits : hits = Wikipedia(titles, texts)
    OBVIOUS
  <1> DEFINE q == [NoSearch EXCEPT !.backend = b, !.key = k, !.up = up]
             wiki == [q EXCEPT !.hits = hits, !.source = "wikipedia"]
  <1>3. q = [backend |-> b, key |-> k, up |-> up, hits |-> <<>>, source |-> "none", note |-> FALSE]
    <2>1. PICK x : x = NoSearch
      OBVIOUS
    <2>2. x = [backend |-> "none", key |-> FALSE, up |-> {}, hits |-> <<>>, source |-> "none", note |-> FALSE]
      BY <2>1 DEF NoSearch
    <2>3. PICK v, w, c, d, e, f : v = FALSE /\ w = "none" /\ c = {} /\ d = b /\ e = k /\ f = up
      OBVIOUS
    <2>4. x = [backend |-> w, key |-> v, up |-> c, hits |-> <<>>, source |-> w, note |-> v]
      BY <2>2, <2>3, Zenon
    <2>5. PICK y : y = [x EXCEPT !.backend = d, !.key = e, !.up = f]
      OBVIOUS
    <2>6. y.backend = d /\ y.key = e /\ y.up = f /\ y.hits = <<>> /\ y.source = w /\ y.note = v
      BY <2>4, <2>5
    <2>7. y = [backend |-> y.backend, key |-> y.key, up |-> y.up, hits |-> y.hits, source |-> y.source, note |-> y.note]
      BY <2>4, <2>5
    <2> QED BY <2>1, <2>3, <2>5, <2>6, <2>7, Zenon
  <1>4. search' = IF b \in Keyed /\ k /\ "backend" \in up
                  THEN [q EXCEPT !.hits = titles, !.source = b]
                  ELSE IF "wikipedia" \notin up THEN [q EXCEPT !.source = "error"]
                  ELSE IF b = "wikipedia" THEN wiki
                  ELSE IF b # "wikipedia" THEN [wiki EXCEPT !.note = TRUE]
                  ELSE [q EXCEPT !.source = "error"]
    <2>1. q.backend = b
      BY <1>3
    <2> HIDE DEF q
    <2> QED BY <1>1, <1>2, <2>1, Zenon DEF FallsBack, q
  <1>5. b \in {"wikipedia", "ollama", "tavily", "unknown"} /\ Keyed = {"ollama", "tavily"}
    BY DEF Backend, Keyed
  <1>6. CASE b \in Keyed /\ k /\ "backend" \in up
    <2>1. search'.source = b /\ search'.backend = b /\ search'.note = FALSE
      BY <1>3, <1>4, <1>6
    <2> QED BY <1>5, <1>6, <2>1 DEF SearchFallsBack
  <1>7. CASE ~(b \in Keyed /\ k /\ "backend" \in up) /\ "wikipedia" \notin up
    <2>1. search'.source = "error" /\ search'.backend = b /\ search'.key = k /\ search'.up = up /\ search'.note = FALSE
      BY <1>3, <1>4, <1>7
    <2> QED BY <1>5, <1>7, <2>1 DEF SearchFallsBack
  <1>8. CASE ~(b \in Keyed /\ k /\ "backend" \in up) /\ "wikipedia" \in up
    <2>1. search'.source = "wikipedia" /\ search'.backend = b /\ (search'.note <=> b # "wikipedia")
      BY <1>3, <1>4, <1>8
    <2> QED BY <1>5, <1>8, <2>1 DEF SearchFallsBack
  <1> QED BY <1>6, <1>7, <1>8

LEMMA PagesStep ==
  PagesInv /\ [PagesNext]_pagesVars => PagesInv'
  <1> SUFFICES ASSUME PagesInv, [PagesNext]_pagesVars PROVE PagesInv'
    OBVIOUS
  <1>0. /\ requested \cap Local = {}
        /\ reading = "checked" => url \notin Local
        /\ reading = "done" => TextKept(page, text)
        /\ TitlesKept(feed, items)
        /\ SearchFallsBack
    BY Zenon DEF PagesInv
  <1>1. CASE CheckAddress
    <2>1. /\ reading' = IF url \notin Local THEN "checked" ELSE "refused"
          /\ url' = url /\ requested' = requested /\ feed' = feed /\ items' = items
      BY <1>1, Zenon DEF CheckAddress, Public
    <2>2. reading' # "done" /\ reading' # "searched" /\ (reading' = "checked" => url' \notin Local)
      BY <2>1
    <2>3. TitlesKept(feed', items')
      BY <1>0, <2>1, Zenon
    <2> QED BY <1>0, <2>1, <2>2, <2>3, Zenon DEF PagesInv, SearchFallsBack
  <1>2. CASE Get
    <2>1. /\ reading = "checked" /\ requested' = requested \cup {url} /\ reading' \in {"asked", "read", "refused"}
          /\ feed' = feed /\ items' = items
      BY <1>2 DEF Get
    <2>2. reading' # "done" /\ reading' # "searched" /\ reading' # "checked"
      BY <2>1
    <2>3. TitlesKept(feed', items')
      BY <1>0, <2>1, Zenon
    <2>4. requested' \cap Local = {}
      BY <1>0, <2>1
    <2> QED BY <2>2, <2>3, <2>4, Zenon DEF PagesInv, SearchFallsBack
  <1>3. CASE ReadBody
    <2>1. PICK n \in 1..MaxTokens : \E s \in [1..n -> PageToken] : page' = s /\ text' = HtmlText(s)
      BY <1>3, Zenon DEF ReadBody
    <2>2. PICK s \in [1..n -> PageToken] : page' = s /\ text' = HtmlText(s)
      BY <2>1
    <2>3. reading' = "done" /\ requested' = requested /\ feed' = feed /\ items' = items
      BY <1>3, Zenon DEF ReadBody
    <2>4. s \in Seq(PageToken)
      <3>1. n \in Nat
        <4>1. MaxTokens \in Nat /\ MaxFeed \in Nat
          BY PagesAssumption, Zenon DEF PagesAssumption
        <4> QED BY <4>1
      <3> QED BY <3>1
    <2>5. TextKept(s, HtmlText(s))
      BY <2>4, TextOf, Zenon
    <2>6. TextKept(page', text')
      BY <2>2, <2>5, Zenon
    <2>8. TitlesKept(feed', items')
      BY <1>0, <2>3, Zenon
    <2>9. reading' # "checked" /\ reading' # "searched"
      BY <2>3
    <2> QED BY <1>0, <2>3, <2>6, <2>8, <2>9, Zenon DEF PagesInv, SearchFallsBack
  <1>4. CASE ReadFeed
    <2>1. PICK n \in 1..MaxFeed : \E s \in [1..n -> FeedToken] :
            feed' = <<"<item>">> \o s /\ WellFormed(feed') /\ items' = Parse(feed')
      BY <1>4, Zenon DEF ReadFeed
    <2>2. PICK s \in [1..n -> FeedToken] : feed' = <<"<item>">> \o s /\ WellFormed(feed') /\ items' = Parse(feed')
      BY <2>1
    <2>3. reading' = "fed" /\ requested' = requested
      BY <1>4, Zenon DEF ReadFeed
    <2>4. PICK f : f = <<"<item>">> \o s
      OBVIOUS
    <2>5. f \in Seq(FeedWord)
      <3>1. n \in Nat
        <4>1. MaxTokens \in Nat /\ MaxFeed \in Nat
          BY PagesAssumption, Zenon DEF PagesAssumption
        <4> QED BY <4>1
      <3>2. s \in Seq(FeedToken)
        BY <3>1
      <3>3. s \in Seq(FeedWord) /\ <<"<item>">> \in Seq(FeedWord)
        BY <3>2 DEF FeedWord
      <3> QED BY <2>4, <3>3, ConcatTyped, Zenon
    <2>6. feed' = f /\ WellFormed(f) /\ items' = Parse(f)
      BY <2>2, <2>4, Zenon
    <2>7. TitlesKept(f, Parse(f))
      BY <2>5, <2>6, TitlesOf, Zenon
    <2>8. TitlesKept(feed', items')
      BY <2>6, <2>7, Zenon
    <2>9. reading' # "checked" /\ reading' # "done" /\ reading' # "searched"
      BY <2>3
    <2> QED BY <1>0, <2>3, <2>8, <2>9, Zenon DEF PagesInv, SearchFallsBack
  <1>5. CASE WebSearch
    <2>1. reading' = "searched" /\ requested' = requested /\ feed' = feed /\ items' = items
      BY <1>5, Zenon DEF WebSearch
    <2>2. SearchFallsBack'
      BY <1>5, WebSearchFallsBack, Zenon
    <2>3. reading' # "checked" /\ reading' # "done"
      BY <2>1
    <2>4. TitlesKept(feed', items')
      BY <1>0, <2>1, Zenon
    <2> QED BY <1>0, <2>1, <2>2, <2>3, <2>4, Zenon DEF PagesInv
  <1>6. CASE UNCHANGED pagesVars
    <2>1. url' = url /\ requested' = requested /\ reading' = reading /\ page' = page /\ text' = text /\ feed' = feed
          /\ items' = items /\ search' = search
      BY <1>6 DEF pagesVars
    <2>2. TitlesKept(feed', items')
      BY <1>0, <2>1, Zenon
    <2>3. TextKept(page', text') <=> TextKept(page, text)
      BY <2>1, Zenon
    <2>4. SearchFallsBack' <=> SearchFallsBack
      BY <2>1, Zenon DEF SearchFallsBack
    <2> QED BY <1>0, <2>1, <2>2, <2>3, <2>4, Zenon DEF PagesInv
  <1> QED BY <1>1, <1>2, <1>3, <1>4, <1>5, <1>6 DEF PagesNext

ToolRecord == [at : {"free", "session", "keys", "capture", "watch", "done"}, polls : Nat,
               answer : {"none", "failed", "text", "timeout", "done"}]

\* What is known of a call and whether the shell was in front since it was asked.
Watched(t, was, front) ==
  /\ t.at # "free" /\ front => was
  /\ t.at = "done" => was
  /\ t.polls > 0 => t.at \in {"watch", "done"}
  /\ t.answer = "done" => was

TerminalInv ==
  /\ tool \in [TerminalCall -> ToolRecord] /\ idle \in [TerminalCall -> BOOLEAN]
  /\ \A c \in TerminalCall : Watched(tool[c], idle[c], running = 0)

LEMMA TerminalInvSays ==
  TerminalInv => WatchedWasDone
  BY Zenon DEF TerminalInv, Watched, WatchedWasDone

LEMMA TerminalInitial ==
  TerminalInit => TerminalInv
  <1> SUFFICES ASSUME TerminalInit PROVE TerminalInv
    OBVIOUS
  <1>1. NoTool \in ToolRecord /\ NoTool.at = "free" /\ NoTool.polls = 0 /\ NoTool.answer = "none"
    BY DEF NoTool, ToolRecord
  <1>2. tool = [c \in TerminalCall |-> NoTool] /\ idle = [c \in TerminalCall |-> FALSE]
    BY Zenon DEF TerminalInit
  <1>3. tool \in [TerminalCall -> ToolRecord] /\ idle \in [TerminalCall -> BOOLEAN] /\ \A c \in TerminalCall : tool[c] = NoTool
    BY <1>1, <1>2
  <1>4. Watched(NoTool, FALSE, TRUE) /\ Watched(NoTool, TRUE, TRUE) /\ Watched(NoTool, FALSE, FALSE) /\ Watched(NoTool, TRUE, FALSE)
    BY <1>1 DEF Watched
  <1>5. ASSUME NEW c \in TerminalCall PROVE Watched(tool[c], idle[c], running = 0)
    <2>1. idle[c] = TRUE \/ idle[c] = FALSE
      BY <1>3
    <2> QED BY <1>1, <1>3 DEF Watched
  <1> QED BY <1>3, <1>5, Zenon DEF TerminalInv

\* A call steps to t; the pane and the other calls are as they were.
LEMMA CallSteps ==
  ASSUME TerminalInv, NEW c \in TerminalCall, NEW t \in ToolRecord, NEW was \in BOOLEAN,
         tool' = [tool EXCEPT ![c] = t], idle' = [idle EXCEPT ![c] = was], running' = running,
         Watched(t, was, running = 0)
  PROVE  TerminalInv'
  <1>1. tool \in [TerminalCall -> ToolRecord] /\ idle \in [TerminalCall -> BOOLEAN]
        /\ \A d \in TerminalCall : Watched(tool[d], idle[d], running = 0)
    BY Zenon DEF TerminalInv
  <1>2. tool' \in [TerminalCall -> ToolRecord] /\ idle' \in [TerminalCall -> BOOLEAN]
    BY <1>1
  <1>3. ASSUME NEW d \in TerminalCall PROVE Watched(tool'[d], idle'[d], running' = 0)
    <2>1. CASE d = c
      <3>1. tool'[d] = t /\ idle'[d] = was
        BY <1>1, <2>1
      <3> QED BY <3>1, Zenon
    <2>2. CASE d # c
      <3>1. tool'[d] = tool[d] /\ idle'[d] = idle[d]
        BY <1>1, <2>2
      <3> QED BY <1>1, <3>1, Zenon
    <2> QED BY <2>1, <2>2
  <1> QED BY <1>2, <1>3, Zenon DEF TerminalInv

LEMMA ToolParts ==
  ASSUME NEW t \in ToolRecord
  PROVE  /\ t.at \in {"free", "session", "keys", "capture", "watch", "done"} /\ t.polls \in Nat
         /\ t.answer \in {"none", "failed", "text", "timeout", "done"}
  BY DEF ToolRecord

LEMMA CallAsked ==
  ASSUME TerminalInv, NEW c \in TerminalCall, NEW at \in {"session", "capture", "watch"}, Asked(c, at), running' = running
  PROVE  TerminalInv'
  <1>1. PICK t : t = [NoTool EXCEPT !.at = at]
    OBVIOUS
  <1>2. t = [at |-> at, polls |-> 0, answer |-> "none"]
    BY <1>1 DEF NoTool
  <1>3. t \in ToolRecord /\ t.at = at /\ t.polls = 0 /\ t.answer = "none"
    BY <1>2 DEF ToolRecord
  <1>4. PICK was : was = (running = 0)
    OBVIOUS
  <1>5. was \in BOOLEAN /\ tool' = [tool EXCEPT ![c] = t] /\ idle' = [idle EXCEPT ![c] = was]
    BY <1>1, <1>4, Zenon DEF Asked
  <1>6. t.at # "done" /\ ~(t.polls > 0) /\ t.answer # "done"
    BY <1>3
  <1>7. was <=> running = 0
    BY <1>4, Zenon
  <1>8. Watched(t, was, running = 0)
    BY <1>3, <1>6, <1>7, Zenon DEF Watched
  <1> QED BY <1>3, <1>5, <1>8, CallSteps, Zenon

LEMMA ToolGoes ==
  ASSUME TerminalInv, NEW c \in TerminalCall, NEW at \in {"keys", "capture", "done"}, Goes(c, at),
         tool[c].at # "free", at # "done" => tool[c].at \in {"session", "keys"}, at = "done" => running = 0,
         running' = running, idle' = idle
  PROVE  TerminalInv'
  <1>1. tool \in [TerminalCall -> ToolRecord] /\ idle \in [TerminalCall -> BOOLEAN]
        /\ \A d \in TerminalCall : Watched(tool[d], idle[d], running = 0)
    BY Zenon DEF TerminalInv
  <1>2. PICK o : o = tool[c]
    OBVIOUS
  <1>3. o \in ToolRecord /\ Watched(o, idle[c], running = 0)
    BY <1>1, <1>2, Zenon
  <1>4. PICK t : t = [o EXCEPT !.at = at]
    OBVIOUS
  <1>5. t \in ToolRecord /\ t.at = at /\ t.polls = o.polls /\ t.answer = o.answer
    BY <1>3, <1>4 DEF ToolRecord
  <1>6. tool' = [tool EXCEPT ![c] = t]
    BY <1>1, <1>2, <1>4 DEF Goes
  <1>7. idle' = [idle EXCEPT ![c] = idle[c]] /\ idle[c] \in BOOLEAN
    BY <1>1
  <1>8. Watched(t, idle[c], running = 0)
    <2>1. o.at # "free" /\ (at # "done" => o.at \in {"session", "keys"})
      BY <1>2
    <2>2. at # "done" => ~(o.polls > 0)
      BY <1>3, <2>1 DEF Watched
    <2> QED BY <1>3, <1>5, <2>1, <2>2 DEF Watched
  <1> QED BY <1>5, <1>6, <1>7, <1>8, CallSteps, Zenon

LEMMA CallAnswers ==
  ASSUME TerminalInv, NEW c \in TerminalCall, NEW answer \in {"failed", "text", "timeout", "done"}, Answers(c, answer),
         answer = "done" => idle[c], running' = running, idle' = idle
  PROVE  TerminalInv'
  <1>1. tool \in [TerminalCall -> ToolRecord] /\ idle \in [TerminalCall -> BOOLEAN]
    BY Zenon DEF TerminalInv
  <1>2. PICK t : t = [NoTool EXCEPT !.answer = answer]
    OBVIOUS
  <1>3. t = [at |-> "free", polls |-> 0, answer |-> answer]
    BY <1>2 DEF NoTool
  <1>4. t \in ToolRecord /\ t.at = "free" /\ t.polls = 0 /\ t.answer = answer
    BY <1>3 DEF ToolRecord
  <1>5. tool' = [tool EXCEPT ![c] = t]
    BY <1>2, Zenon DEF Answers
  <1>6. idle' = [idle EXCEPT ![c] = idle[c]] /\ idle[c] \in BOOLEAN
    BY <1>1
  <1>7. Watched(t, idle[c], running = 0)
    BY <1>4 DEF Watched
  <1> QED BY <1>4, <1>5, <1>6, <1>7, CallSteps, Zenon

LEMMA CallPolls ==
  ASSUME TerminalInv, NEW c \in TerminalCall, Poll(c)
  PROVE  TerminalInv'
  <1>1. tool \in [TerminalCall -> ToolRecord] /\ idle \in [TerminalCall -> BOOLEAN]
        /\ \A d \in TerminalCall : Watched(tool[d], idle[d], running = 0)
    BY Zenon DEF TerminalInv
  <1>2. tool[c].at = "watch" /\ running' = running /\ idle' = idle
    BY Zenon DEF Poll
  <1>3. tool[c].at # "free"
    BY <1>2
  <1>4. \/ Answers(c, "failed") \/ Answers(c, "timeout")
        \/ running = 0 /\ Goes(c, "done")
        \/ tool' = [tool EXCEPT ![c].polls = @ + 1]
    BY DEF Poll, Overdue
  <1>5. CASE Answers(c, "failed") \/ Answers(c, "timeout")
    BY <1>2, <1>5, CallAnswers
  <1>6. CASE running = 0 /\ Goes(c, "done")
    BY <1>2, <1>3, <1>6, ToolGoes
  <1>7. CASE tool' = [tool EXCEPT ![c].polls = @ + 1]
    <2>1. PICK o : o = tool[c]
      OBVIOUS
    <2>2. o \in ToolRecord /\ Watched(o, idle[c], running = 0) /\ o.at = "watch"
      BY <1>1, <1>2, <2>1, Zenon
    <2>3. PICK t : t = [o EXCEPT !.polls = o.polls + 1]
      OBVIOUS
    <2>4. t \in ToolRecord /\ t.at = o.at /\ t.answer = o.answer
      BY <2>2, <2>3 DEF ToolRecord
    <2>5. tool' = [tool EXCEPT ![c] = t]
      BY <1>1, <1>7, <2>1, <2>3
    <2>6. idle' = [idle EXCEPT ![c] = idle[c]] /\ idle[c] \in BOOLEAN
      BY <1>1, <1>2
    <2>7. Watched(t, idle[c], running = 0)
      BY <2>2, <2>4 DEF Watched
    <2> QED BY <1>2, <2>4, <2>5, <2>6, <2>7, CallSteps, Zenon
  <1> QED BY <1>4, <1>5, <1>6, <1>7

\* The pane steps: a call that was asked before is idle where the shell is in front now.
LEMMA PaneSteps ==
  ASSUME TerminalInv, tool' = tool, Idles \/ (running' = running /\ idle' = idle)
  PROVE  TerminalInv'
  <1>1. tool \in [TerminalCall -> ToolRecord] /\ idle \in [TerminalCall -> BOOLEAN]
        /\ \A d \in TerminalCall : Watched(tool[d], idle[d], running = 0)
    BY Zenon DEF TerminalInv
  <1>2. CASE Idles
    <2>1. idle' = [d \in TerminalCall |-> idle[d] \/ running' = 0]
      BY <1>2, Zenon DEF Idles
    <2>2. idle' \in [TerminalCall -> BOOLEAN] /\ \A d \in TerminalCall : idle'[d] <=> (idle[d] \/ running' = 0)
      BY <1>1, <2>1
    <2>3. \A d \in TerminalCall : Watched(tool[d], idle'[d], running' = 0)
      BY <1>1, <2>2, Zenon DEF Watched
    <2> QED BY <1>1, <2>2, <2>3, Zenon DEF TerminalInv
  <1>3. CASE running' = running /\ idle' = idle
    BY <1>1, <1>3, Zenon DEF TerminalInv
  <1> QED BY <1>2, <1>3

LEMMA TerminalStep ==
  TerminalInv /\ [TerminalNext]_terminalVars => TerminalInv'
  <1> SUFFICES ASSUME TerminalInv, [TerminalNext]_terminalVars PROVE TerminalInv'
    OBVIOUS
  <1>1. ASSUME NEW c \in TerminalCall, AskRun(c) PROVE TerminalInv'
    <2>1. Asked(c, "session") /\ running' = running /\ "session" \in {"session", "capture", "watch"}
      BY <1>1 DEF AskRun
    <2> QED BY <2>1, CallAsked, Zenon
  <1>2. ASSUME NEW c \in TerminalCall, NewSession(c) PROVE TerminalInv'
    <2>1. Goes(c, "keys") /\ tool[c].at = "session" /\ running' = running /\ idle' = idle
      BY <1>2, Zenon DEF NewSession
    <2> QED BY <2>1, ToolGoes
  <1>3. ASSUME NEW c \in TerminalCall, SendKeys(c) PROVE TerminalInv'
    <2>1. (Goes(c, "capture") \/ Answers(c, "failed")) /\ tool[c].at = "keys" /\ running' = running /\ idle' = idle
      BY <1>3, Zenon DEF SendKeys
    <2>2. CASE Goes(c, "capture")
      BY <2>1, <2>2, ToolGoes
    <2>3. CASE Answers(c, "failed")
      BY <2>1, <2>3, CallAnswers
    <2> QED BY <2>1, <2>2, <2>3
  <1>4. ASSUME NEW c \in TerminalCall, AskRead(c) \/ AskWatch(c) PROVE TerminalInv'
    <2>1. (Asked(c, "capture") \/ Asked(c, "watch")) /\ running' = running
          /\ "capture" \in {"session", "capture", "watch"} /\ "watch" \in {"session", "capture", "watch"}
      BY <1>4 DEF AskRead, AskWatch
    <2> QED BY <2>1, CallAsked, Zenon
  <1>5. ASSUME NEW c \in TerminalCall, Poll(c) PROVE TerminalInv'
    BY <1>5, CallPolls, Zenon
  <1>6. ASSUME NEW c \in TerminalCall, Capture(c) PROVE TerminalInv'
    <2>1. tool[c] \in ToolRecord /\ Watched(tool[c], idle[c], running = 0)
      BY Zenon DEF TerminalInv
    <2>2. tool[c].polls \in Nat
      BY <2>1, ToolParts, Zenon
    <2>3. PICK answer : answer = IF ~session THEN "failed" ELSE IF tool[c].at = "done" \/ tool[c].polls > 0 THEN "done" ELSE "text"
      OBVIOUS
    <2>4. tool[c].at \in {"capture", "done"} /\ Answers(c, answer) /\ running' = running /\ idle' = idle
      BY <1>6, <2>3, Zenon DEF Capture
    <2>5. answer \in {"failed", "text", "timeout", "done"} /\ (answer = "done" => tool[c].at = "done" \/ tool[c].polls > 0)
      BY <2>3
    <2>6. answer = "done" => idle[c]
      BY <2>1, <2>4, <2>5 DEF Watched
    <2> QED BY <2>4, <2>5, <2>6, CallAnswers, Zenon
  <1>7. ASSUME NEW c \in TerminalCall, TmuxFails(c) PROVE TerminalInv'
    <2>1. Answers(c, "failed") /\ running' = running /\ idle' = idle
      BY <1>7, Zenon DEF TmuxFails
    <2> QED BY <2>1, CallAnswers
  <1>8. ASSUME ShellReads \/ ProgramEnds \/ SessionEnds \/ ProgramReads PROVE TerminalInv'
    <2>1. tool' = tool /\ (Idles \/ (running' = running /\ idle' = idle))
      BY <1>8, Zenon DEF ShellReads, ProgramEnds, SessionEnds, ProgramReads
    <2> QED BY <2>1, PaneSteps, Zenon
  <1>9. CASE UNCHANGED terminalVars
    <2>1. tool' = tool /\ running' = running /\ idle' = idle
      BY <1>9 DEF terminalVars
    <2> QED BY <2>1, PaneSteps, Zenon
  <1> QED BY <1>1, <1>2, <1>3, <1>4, <1>5, <1>6, <1>7, <1>8, <1>9 DEF TerminalNext, TerminalSteps

\* The tools answer with what there is, for any web, pages, feeds and commands: nothing
\* of this computer or its network is asked for, whatever redirects to it; a page's text
\* and a title are there in full and in order; a search falls back and says so; and a
\* watch that says done saw the shell in front (search.rs, news.rs, terminal.rs).
THEOREM AnswersAreGiven == PagesSpec /\ TerminalSpec => []AnswersAreTrue
  <1>1. PagesInit => PagesInv
    BY PagesInitial
  <1>2. PagesInv /\ [PagesNext]_pagesVars => PagesInv'
    BY PagesStep
  <1>3. TerminalInit => TerminalInv
    BY TerminalInitial
  <1>4. TerminalInv /\ [TerminalNext]_terminalVars => TerminalInv'
    BY TerminalStep
  <1>5. PagesInv /\ TerminalInv => AnswersAreTrue
    BY PagesInvSays, TerminalInvSays, Zenon DEF AnswersAreTrue
  <1> QED BY <1>1, <1>2, <1>3, <1>4, <1>5, PTL DEF PagesSpec, TerminalSpec

=============================================================================
