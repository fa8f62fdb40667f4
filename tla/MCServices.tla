------------------------------ MODULE MCServices ------------------------------
(***************************************************************************)
(* Small instances of what surrounds a turn in the daemon and beside it:   *)
(* the session lock, the overlay, the applet, the control socket and a     *)
(* connection to it.  They share no state that is                          *)
(* modelled, so a behaviour is of one part, chosen at the start, while the *)
(* others rest.  The overlay and the applet each follow the event stream.  *)
(***************************************************************************)
EXTENDS LockTracker, Overlay, Applet, Socket, Serve

VARIABLE part

lockVars == vars

ServicesInit ==
  /\ part \in {"lock", "overlay", "applet", "socket", "serve"}
  /\ Init
  /\ part # "lock" => session = "open" /\ windows = "active" /\ service = "up"
  /\ OverlayInit
  /\ AppletInit
  /\ SocketInit
  /\ ServeInit

ServicesNext ==
  \/ /\ part = "lock" /\ Next
     /\ UNCHANGED <<part, overlayVars, appletFace, muddled, socketVars, serveVars>>
  \/ /\ part = "overlay" /\ OverlayNext
     /\ UNCHANGED <<part, lockVars, appletFace, muddled, socketVars, serveVars>>
  \/ /\ part = "applet" /\ AppletNext
     /\ UNCHANGED <<part, lockVars, faceVars, socketVars, serveVars>>
  \/ /\ part = "socket" /\ SocketNext
     /\ UNCHANGED <<part, lockVars, overlayVars, appletFace, muddled, serveVars>>
  \/ /\ part = "serve" /\ ServeNext
     /\ UNCHANGED <<part, lockVars, overlayVars, appletFace, muddled, socketVars>>

servicesVars ==
  <<part, lockVars, overlayVars, appletFace, muddled, socketVars, serveVars>>

\* The fairness of LockTracker and of Overlay, each for its own part.
ServicesFairness ==
  /\ WF_lockVars(part = "lock" /\ TakeSignal) /\ WF_lockVars(part = "lock" /\ SetFromSignal)
  /\ WF_lockVars(part = "lock" /\ WindowThread)
  /\ WF_lockVars(part = "lock" /\ KeepTracker)
  /\ \A t \in Turn : WF_lockVars(part = "lock" /\ WriteUnknown(t))
  /\ WF_overlayVars(part = "overlay" /\ Announces /\ UNCHANGED faceVars)
  /\ WF_overlayVars(part = "overlay" /\ Start /\ UNCHANGED faceVars)
  /\ WF_overlayVars(part = "overlay" /\ Link /\ UNCHANGED faceVars)
  /\ WF_overlayVars(part = "overlay" /\ Forward /\ UNCHANGED faceVars)
  /\ SF_overlayVars(part = "overlay" /\ TakeBurst)
  /\ SF_overlayVars(part = "overlay" /\ AskStatus)
  /\ WF_overlayVars(part = "overlay" /\ AnswerStatus)
  /\ WF_overlayVars(part = "overlay" /\ TakeStatus)
  /\ WF_overlayVars(part = "overlay" /\ TakeView)
  /\ WF_overlayVars(part = "overlay" /\ \E t \in Token : Handle(t))

ServicesSpec == ServicesInit /\ [][ServicesNext]_servicesVars /\ ServicesFairness

-----------------------------------------------------------------------------
\* The gate catches up with the session in both directions (lock.rs): a lock that
\* lasts is noticed, and an unlock is, unless the tracker has a reason to refuse.
SessionIsFollowed == part = "lock" => LockIsNoticed /\ UnlockIsNoticed

\* What the two faces show is what waits: the icon's state and count, once nothing is
\* under way, and on the overlay never a call of a daemon that is gone
\* (cosmo-applet main.rs, cosmo-overlay view.rs).
FacesFollow == IconFollows /\ OldHoldsGoAway

\* One daemon has the socket, and on a connection to it every request has one
\* response, after all of its events (lib.rs bind_socket, serve).
OneDaemonAnswers == OneDaemon /\ ResponseIsLast
=============================================================================
