-------------------------------- MODULE Pages --------------------------------
(***************************************************************************)
(* What the assistant reads from the web (crates/cosmo-tools/src/search.rs *)
(* and news.rs): a search with its fallback, a page through its redirects, *)
(* the text of a page and the items of a feed.  A page and a feed are      *)
(* sequences of tokens: tags and pieces of text, as the parsers hand them  *)
(* on.                                                                     *)
(***************************************************************************)
EXTENDS Integers, Sequences, FiniteSets

CONSTANTS
  Address,      \* web addresses
  Local,        \* those that name this computer or its network
  MaxHops,      \* redirects followed
  PageToken,    \* the tokens of a page
  FeedToken,    \* the tokens of a feed
  MaxTokens,    \* bound: tokens of a page
  MaxFeed       \* bound: tokens of a feed

\* What HtmlText parts the text with is no text of its own.
ASSUME PagesAssumption == /\ Local \subseteq Address /\ {MaxHops, MaxTokens, MaxFeed} \subseteq Nat
                          /\ {" ", "/"} \cap PageToken = {}

VARIABLES
  web,          \* web[a]: the address a redirects to, "page", or "error"
  url,          \* the address read_page is at
  hops,         \* redirects it has followed
  requested,    \* ghost: the addresses it has sent a request to
  reading,      \* "asked", "checked", "read", "refused": how far it is
  page,         \* the page's tokens
  text,         \* what the model gets of it
  feed,         \* a feed's tokens
  items,        \* the items read of it
  search        \* a search and what came of it

pagesVars == <<web, url, hops, requested, reading, page, text, feed, items, search>>

NoSearch == [backend |-> "none", key |-> FALSE, up |-> {}, hits |-> <<>>, source |-> "none", note |-> FALSE]

PagesInit ==
  /\ web \in [Address -> Address \cup {"page", "error"}]
  /\ url \in Address
  /\ hops = 0 /\ requested = {} /\ reading = "asked"
  /\ page = <<>> /\ text = <<>> /\ feed = <<>> /\ items = <<>> /\ search = NoSearch

----------------------------------------------------------------------------
(* read_page: redirects are followed one at a time.                        *)

\* Mutant: only the address that was asked for is looked at.
PublicAtFirst == hops > 0 \/ url \notin Local

\* check_public: no name or number of this computer or its network.
Public == url \notin Local

CheckAddress ==
  /\ reading = "asked"
  /\ reading' = IF Public THEN "checked" ELSE "refused"
  /\ UNCHANGED <<web, url, hops, requested, page, text, feed, items, search>>

\* A redirect is the next address to check, up to a bound; anything else but a
\* page is an error.
Get ==
  /\ reading = "checked"
  /\ requested' = requested \cup {url}
  /\ IF web[url] \in Address
     THEN /\ hops' = hops + 1
          /\ IF hops < MaxHops THEN url' = web[url] /\ reading' = "asked"
                               ELSE reading' = "refused" /\ UNCHANGED url
     ELSE /\ reading' = IF web[url] = "page" THEN "read" ELSE "refused"
          /\ UNCHANGED <<url, hops>>
  /\ UNCHANGED <<web, page, text, feed, items, search>>

----------------------------------------------------------------------------
(* html_text: the elements that are no text go first, kind by kind.        *)

Dropped == <<"head", "nav">>
StartTags  == [head |-> "<head>", nav |-> "<nav>"]
EndTags == [head |-> "</head>", nav |-> "</nav>"]
Block  == {"<p>"}
Inline == {"<header>", "</header>", "<head>", "</head>", "<nav>", "</nav>"}

FirstPlace(S) == CHOOSE k \in S : \A j \in S : k <= j
Places(s, from, token) == {k \in from..Len(s) : s[k] = token}

\* Where the element that opens at a ends: at its first close, else with its tag.
ElementEnd(s, a, tag) ==
  LET close == Places(s, a, EndTags[tag]) IN IF close = {} THEN a ELSE FirstPlace(close)

WithoutFirst(s, tag) ==
  LET open == Places(s, 1, StartTags[tag])
      a == FirstPlace(open)
  IN IF open = {} THEN s
     ELSE SubSeq(s, 1, a - 1) \o <<" ">> \o SubSeq(s, ElementEnd(s, a, tag) + 1, Len(s))

\* Each round takes a tag away: one per token is enough.
WithoutElement(s, tag) ==
  LET left[n \in 0..Len(s)] == IF n = 0 THEN s ELSE WithoutFirst(left[n - 1], tag)
  IN left[Len(s)]

\* What markup is left parts words, and a block's parts lines.
HtmlText(s) ==
  LET rest == WithoutElement(WithoutElement(s, Dropped[1]), Dropped[2])
  IN [i \in DOMAIN rest |-> CASE rest[i] \in Block -> "/" [] rest[i] \in Inline -> " " [] OTHER -> rest[i]]

\* Bound: what bodies say is told apart only where no address redirects.
Direct == \A a \in Address : web[a] = "page"

\* The page's body arrives; the model gets its text.
ReadBody ==
  /\ reading = "read" /\ Direct
  /\ \E s \in UNION {[1..n -> PageToken] : n \in 1..MaxTokens} : page' = s /\ text' = HtmlText(s)
  /\ reading' = "done"
  /\ UNCHANGED <<web, url, hops, requested, feed, items, search>>

----------------------------------------------------------------------------
(* A feed, token by token: the field that is being read, and what is read. *)

Fields == {"title", "summary", "content"}
Starts == [title |-> "<title>", summary |-> "<summary>", content |-> "<content>"]
NoItem == [in |-> FALSE, field |-> "none", title |-> <<>>, summary |-> <<>>]

\* append: the first of summary and content is the summary.
Append1(item, piece) ==
  CASE item.field = "title" -> [item EXCEPT !.title = Append(@, piece)]
    [] item.field = "summary" -> [item EXCEPT !.summary = Append(@, piece)]
    [] item.field = "content" /\ item.summary = <<>> -> [item EXCEPT !.summary = <<piece>>]
    [] OTHER -> item

\* Any end is the end of the field being read.
FieldEnds(item) == [item EXCEPT !.field = "none"]

\* parse, from a feed's first item on: item is what has been read of the item at hand, list the items before.
ReadToken(st, token) ==
  LET item == st.item
  IN CASE token = "<item>" -> [st EXCEPT !.item = [NoItem EXCEPT !.in = TRUE, !.field = item.field]]
       [] token = "</item>" ->
            [item |-> FieldEnds([item EXCEPT !.in = FALSE]),
             list |-> IF item.in /\ item.title # <<>>
                      THEN Append(st.list, [title |-> item.title, summary |-> item.summary])
                      ELSE st.list]
       [] \E f \in Fields : token = Starts[f] ->
            LET f == CHOOSE g \in Fields : token = Starts[g]
            IN [st EXCEPT !.item.field = IF item.in THEN f ELSE "none"]
       [] token = "<b>" -> [st EXCEPT !.item.field = "none"]
       [] token = "</>" -> [st EXCEPT !.item = FieldEnds(@)]
       [] OTHER -> [st EXCEPT !.item = Append1(@, token)]

Parse(s) ==
  LET read[n \in 0..Len(s)] == IF n = 0 THEN [item |-> NoItem, list |-> <<>>] ELSE ReadToken(read[n - 1], s[n])
  IN read[Len(s)].list

\* The reader stops at an end that does not match; items are not nested.
FeedDepth(s, k) == Cardinality({j \in 1..k : s[j] \in {"<item>", "<title>", "<summary>", "<content>", "<b>"}})
                 - Cardinality({j \in 1..k : s[j] \in {"</item>", "</>"}})
WellFormed(s) == \A k \in DOMAIN s : /\ s[k] = "<item>" => FeedDepth(s, k) = 1
                                     /\ s[k] = "</item>" => FeedDepth(s, k) = 0
                                     /\ s[k] = "</>" => FeedDepth(s, k) >= 1

ReadFeed ==
  /\ reading = "asked" /\ Direct
  /\ \E s \in UNION {[1..n -> FeedToken] : n \in 1..MaxFeed} :
       feed' = <<"<item>">> \o s /\ WellFormed(feed') /\ items' = Parse(feed')
  /\ reading' = "fed"
  /\ UNCHANGED <<web, url, hops, requested, page, text, search>>

----------------------------------------------------------------------------
(* web_search: the backend that is configured, else Wikipedia.             *)

\* The articles found, in the order of the search, that have a text.
Wikipedia(titles, texts) == SelectSeq(titles, LAMBDA t : t \in texts)

Backend == {"wikipedia", "ollama", "tavily", "unknown"}
Keyed   == {"ollama", "tavily"}

\* A backend that fails, lacks its key or is not known is Wikipedia's with a note.
FallsBack(q) == q.backend # "wikipedia"

WebSearch ==
  /\ reading = "asked" /\ Direct
  /\ \E b \in Backend, k \in BOOLEAN, up \in SUBSET {"backend", "wikipedia"},
       titles \in {<<>>, <<"t">>, <<"u", "t">>}, texts \in SUBSET {"t", "u"} :
       LET q == [NoSearch EXCEPT !.backend = b, !.key = k, !.up = up]
           wiki == [q EXCEPT !.hits = Wikipedia(titles, texts), !.source = "wikipedia"]
       IN search' = IF b \in Keyed /\ k /\ "backend" \in up
                    THEN [q EXCEPT !.hits = titles, !.source = b]
                    ELSE IF "wikipedia" \notin up THEN [q EXCEPT !.source = "error"]
                    ELSE IF b = "wikipedia" THEN wiki
                    ELSE IF FallsBack(q) THEN [wiki EXCEPT !.note = TRUE]
                    ELSE [q EXCEPT !.source = "error"]
  /\ reading' = "searched"
  /\ UNCHANGED <<web, url, hops, requested, page, text, feed, items>>

PagesNext == CheckAddress \/ Get \/ ReadBody \/ ReadFeed \/ WebSearch

PagesSpec == PagesInit /\ [][PagesNext]_pagesVars

----------------------------------------------------------------------------
(* Properties.                                                             *)

\* However pages redirect to each other, nothing on this computer or its network
\* is asked for anything.
HopsArePublic == requested \cap Local = {}

\* f walks through the members of S in their order.
Walks(f, S) == /\ \A i, j \in DOMAIN f : i < j => f[i] < f[j]
               /\ \A k \in S : \E i \in DOMAIN f : f[i] = k

\* A page's text is lost only inside an element that is closed: "an element with
\* no close only loses its opening tag, never the rest of the page".
Enclosed(s, k) == \E i \in DOMAIN Dropped, a \in 1..k, b \in k..Len(s) :
                    s[a] = StartTags[Dropped[i]] /\ s[b] = EndTags[Dropped[i]]
TextIsKept ==
  reading = "done" =>
    \E at \in [{i \in DOMAIN text : text[i] \notin {" ", "/"}} -> DOMAIN page] :
      /\ \A i \in DOMAIN at : text[i] = page[at[i]]
      /\ Walks(at, {k \in DOMAIN page : page[k] \notin Block \cup Inline /\ ~Enclosed(page, k)})

\* The title of an item is all the text right inside its title, piece by piece:
\* of the item from a to e, what stands behind a start of a title and other text.
ItemTags == {"<item>", "</item>"}
FeedTags == ItemTags \cup {Starts[f] : f \in Fields} \cup {"<b>", "</>"}
ItemAt(s, a, e) == /\ a < e /\ s[a] = "<item>" /\ s[e] = "</item>"
                   /\ \A k \in (a + 1)..(e - 1) : s[k] \notin ItemTags
InTitle(s, a, k) == /\ s[k] \notin FeedTags
                    /\ \E t \in (a + 1)..(k - 1) :
                         s[t] = "<title>" /\ \A j \in (t + 1)..(k - 1) : s[j] \notin FeedTags
TitleAt(s, e) == {k \in 1..e : \E a \in 1..k : ItemAt(s, a, e) /\ InTitle(s, a, k)}
Titled(s) == {e \in DOMAIN s : TitleAt(s, e) # {}}
TitlesAreWhole ==
  \E end \in [DOMAIN items -> Titled(feed)] :
    /\ Walks(end, Titled(feed))
    /\ \A i \in DOMAIN items :
         \E at \in [DOMAIN items[i].title -> TitleAt(feed, end[i])] :
           /\ Walks(at, TitleAt(feed, end[i]))
           /\ \A j \in DOMAIN at : items[i].title[j] = feed[at[j]]

\* A search is answered whenever its backend or Wikipedia answers, and says whose
\* answer it is when that is not the one that was configured.
SearchFallsBack ==
  reading = "searched" =>
    /\ search.source = "error" =>
         /\ "wikipedia" \notin search.up
         /\ ~(search.backend \in Keyed /\ search.key /\ "backend" \in search.up)
    /\ search.note <=> search.source \notin {"error", search.backend}

PagesAreRead == HopsArePublic /\ TextIsKept /\ TitlesAreWhole /\ SearchFallsBack
=============================================================================
