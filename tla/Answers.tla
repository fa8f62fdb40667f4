------------------------------- MODULE Answers -------------------------------
(***************************************************************************)
(* The native tools that answer with what they read: the web (Pages) and   *)
(* the terminal (Terminal).                                                *)
(***************************************************************************)
EXTENDS Pages, Terminal

\* No page sends the daemon to an address of this computer, no text of one and no
\* title is lost, a search names its source, and a watch that says done was
\* (search.rs, news.rs, terminal.rs).
AnswersAreTrue == PagesAreRead /\ WatchedWasDone
=============================================================================
