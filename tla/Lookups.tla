------------------------------- MODULE Lookups -------------------------------
(***************************************************************************)
(* The tools that look things up: the forecast of a place, the headlines   *)
(* of the chosen feeds, the coordinates of a place the user names          *)
(* (crates/cosmo-tools/src/weather.rs, news.rs, geo.rs and the handlers in *)
(* crates/cosmo-daemon/src/toolhost.rs).  Several calls are under way at   *)
(* once, each with an await between reading a cache and filling it; what a *)
(* source publishes is a version number.                                   *)
(***************************************************************************)
EXTENDS Naturals, FiniteSets

CONSTANTS
  Caller,       \* tool calls under way at once
  Forecast,     \* the places a forecast is asked for
  NewsFeed,         \* the news feeds of the profile
  Lease,        \* ticks a copy is used before its source is asked again
  Timeout,      \* ticks a request may take
  Gap,          \* ticks between two requests to the geocoder
  MaxVersion,   \* bound: versions of one source
  MaxTime       \* bound: ticks

\* A copy is good for much longer than a request may take: an answer that is late is
\* stored before a copy that is newer than it has to be asked about (10 s against
\* 10 and 15 minutes, weather.rs and news.rs).
ASSUME LookupsAssumption ==
  /\ {Lease, Timeout, Gap, MaxVersion, MaxTime} \subseteq Nat \ {0}
  /\ 2 * Timeout < Lease
  /\ Forecast \cap NewsFeed = {}

Subject == Forecast \cup NewsFeed
NoVersion    == 0          \* versions and times count from 1
Never   == MaxTime + Lease + Timeout + 1

VARIABLES
  now,          \* the clock
  version,      \* version[s]: what the source of s publishes now
  replaced,     \* ghost: replaced[s][v]: when version v was no longer the newest
  copy,         \* copy[s]: CACHE, the copy of s and how long it is good for
  places,       \* geo.rs CACHE: the queries answered before
  last,         \* geo.rs LAST: the last moment given out for a request
  call,         \* call[c]: what each tool call is doing
  old,          \* ghost: what was reported had been replaced too long ago
  asked         \* ghost: when the geocoder was last asked, and whether too soon

lookupsVars == <<now, version, replaced, copy, places, last, call, old, asked>>

NoCopy == [version |-> NoVersion, until |-> 0]
NoCall == [at |-> "free", todo |-> {}, of |-> NoVersion, since |-> 0, sent |-> NoVersion, reply |-> NoCopy]

LookupsInit ==
  /\ now = 1
  /\ version = [s \in Subject |-> 1]
  /\ replaced = [s \in Subject |-> [v \in 1..MaxVersion |-> Never]]
  /\ copy = [s \in Subject |-> NoCopy]
  /\ places = {}
  /\ last = NoVersion
  /\ call = [c \in Caller |-> NoCall]
  /\ old = FALSE
  /\ asked = [at |-> NoVersion, soon |-> FALSE]

Monus(a, b) == IF a > b THEN a - b ELSE 0

----------------------------------------------------------------------------
(* The geocoder: one request a second, across the whole process.           *)

\* The weather of the profile's home, or of a named place, which is looked up.
AskWeather(c) ==
  /\ call[c] = NoCall
  /\ \E f \in Forecast, named \in BOOLEAN :
       call' = [call EXCEPT ![c] = [NoCall EXCEPT !.todo = {f},
                                                  !.at = IF named /\ f \notin places THEN "place" ELSE "fetch"]]
  /\ UNCHANGED <<now, version, replaced, copy, places, last, old, asked>>

\* An elapsed() of a moment still to come is zero.
Wait == IF last = NoVersion THEN 0 ELSE Monus(Gap, Monus(now, last))

\* The caller's moment is given out under the mutex, before it sleeps.
Reserve(c) ==
  /\ call[c].at = "place"
  /\ last' = now + Wait
  /\ call' = [call EXCEPT ![c].at = "slot", ![c].since = now + Wait]
  /\ UNCHANGED <<now, version, replaced, copy, places, old, asked>>

AskPlace(c) ==
  /\ call[c].at = "slot"
  /\ now >= call[c].since
  /\ call' = [call EXCEPT ![c].at = "asked", ![c].since = now]
  /\ asked' = [at |-> now, soon |-> asked.soon \/ (asked.at # NoVersion /\ now < asked.at + Gap)]
  /\ UNCHANGED <<now, version, replaced, copy, places, last, old>>

\* Found: the place is kept and its forecast fetched.  No answer, an error, or
\* no such place: the tool's answer is that.
PlaceAnswers(c) ==
  /\ call[c].at = "asked"
  /\ \/ /\ places' = places \cup call[c].todo
        /\ call' = [call EXCEPT ![c].at = "fetch"]
     \/ /\ call' = [call EXCEPT ![c] = NoCall]
        /\ UNCHANGED places
  /\ UNCHANGED <<now, version, replaced, copy, last, old, asked>>

----------------------------------------------------------------------------
(* A forecast or a feed: the copy while it is good, else its source, asked *)
(* whether the copy is still the newest.                                   *)

\* The headlines of the chosen feeds, one after the other.
AskNews(c) ==
  /\ call[c] = NoCall
  /\ \E feeds \in SUBSET NewsFeed \ {{}} :
       call' = [call EXCEPT ![c] = [NoCall EXCEPT !.at = "fetch", !.todo = feeds]]
  /\ UNCHANGED <<now, version, replaced, copy, places, last, old, asked>>

\* A copy that is good is reported; so is what the source answers.
Tell(s, v) == old' = (old \/ replaced[s][v] + Lease + Timeout < now)
Next1(c, s) == IF call[c].todo = {s} THEN NoCall
               ELSE [NoCall EXCEPT !.at = "fetch", !.todo = call[c].todo \ {s}]

\* Mutant: using a copy makes it as good as a new one.
Used(s, e) == [e EXCEPT !.until = now + Lease]
Kept(s, e) == e

Fetch(c) ==
  /\ call[c].at = "fetch"
  /\ \E s \in call[c].todo :
       IF copy[s].until > now
       THEN /\ Tell(s, copy[s].version)
            /\ copy' = [copy EXCEPT ![s] = Kept(s, @)]
            /\ call' = [call EXCEPT ![c] = Next1(c, s)]
       ELSE /\ call' = [call EXCEPT ![c].at = "sent", ![c].of = s, ![c].since = now,
                                    ![c].sent = copy[s].version]
            /\ UNCHANGED <<old, copy>>
  /\ UNCHANGED <<now, version, replaced, places, last, asked>>

\* The source answers: not modified since the copy, or what it publishes now.
\* A forecast says when it expires; a feed is good from when it is stored.
SourceAnswers(c) ==
  /\ call[c].at = "sent"
  /\ LET s == call[c].of
     IN call' = [call EXCEPT ![c].at = "answered",
                             ![c].reply = [version |-> IF call[c].sent = version[s] THEN NoVersion ELSE version[s],
                                           until |-> now + Lease]]
  /\ UNCHANGED <<now, version, replaced, copy, places, last, old, asked>>

Good(s, reply) == IF s \in NewsFeed THEN now + Lease ELSE reply.until

\* Not modified: whatever copy there is now is good for longer, and reported.
NotModified(c) ==
  /\ call[c].at = "answered"
  /\ call[c].reply.version = NoVersion
  /\ LET s == call[c].of
     IN /\ copy' = [copy EXCEPT ![s].until = Good(s, call[c].reply)]
        /\ Tell(s, copy[s].version)
        /\ call' = [call EXCEPT ![c] = Next1(c, s)]
  /\ UNCHANGED <<now, version, replaced, places, last, asked>>

\* Stored, whatever has been stored meanwhile, and reported.
Modified(c) ==
  /\ call[c].at = "answered"
  /\ call[c].reply.version # NoVersion
  /\ LET s == call[c].of
     IN /\ copy' = [copy EXCEPT ![s] = [version |-> call[c].reply.version, until |-> Good(s, call[c].reply)]]
        /\ Tell(s, call[c].reply.version)
        /\ call' = [call EXCEPT ![c] = Next1(c, s)]
  /\ UNCHANGED <<now, version, replaced, places, last, asked>>

\* No answer in time, an error status or a body that cannot be read: the copy
\* stays as it is, and the next feed is read.
FetchFails(c) ==
  /\ call[c].at \in {"sent", "answered"}
  /\ call' = [call EXCEPT ![c] = Next1(c, call[c].of)]
  /\ UNCHANGED <<now, version, replaced, copy, places, last, old, asked>>

----------------------------------------------------------------------------

Publish(s) ==
  /\ version[s] < MaxVersion
  /\ version' = [version EXCEPT ![s] = @ + 1]
  /\ replaced' = [replaced EXCEPT ![s][version[s]] = now]
  /\ UNCHANGED <<now, copy, places, last, call, old, asked>>

\* Requests time out, and sleepers wake when their moment comes.
Tick ==
  /\ now < MaxTime
  /\ \A c \in Caller : /\ call[c].at \in {"asked", "sent", "answered"} => now < call[c].since + Timeout
                       /\ call[c].at = "slot" => now < call[c].since
  /\ now' = now + 1
  /\ UNCHANGED <<version, replaced, copy, places, last, call, old, asked>>

LookupSteps(c) == \/ AskWeather(c) \/ Reserve(c) \/ AskPlace(c) \/ PlaceAnswers(c)
                  \/ AskNews(c) \/ Fetch(c) \/ SourceAnswers(c)
                  \/ NotModified(c) \/ Modified(c) \/ FetchFails(c)

LookupsNext == Tick \/ (\E c \in Caller : LookupSteps(c)) \/ (\E s \in Subject : Publish(s))

LookupsSpec == LookupsInit /\ [][LookupsNext]_lookupsVars

----------------------------------------------------------------------------
(* Properties.                                                             *)

\* What the user is told was the newest not longer ago than a copy is good for
\* and a request takes, however requests of several calls for the same place or
\* feed overlap and in whatever order their answers are stored.
NewsIsNew == ~old

\* geo.rs: "One request a second, across the whole process."
OneRequestASecond == ~asked.soon
=============================================================================
