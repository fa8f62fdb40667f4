------------------------------ MODULE Accounts ------------------------------
(***************************************************************************)
(* Connecting a reasoning provider: the keys in the Secret Service         *)
(* (crates/cosmo-reason/src/secret.rs), the browser sign-in (login.rs),    *)
(* the endpoint a configuration stands for (provider.rs), the daemon's     *)
(* commands about them (crates/cosmo-daemon/src/engine.rs), and their two  *)
(* clients, the panel applet (crates/cosmo-applet/src/main.rs, a process   *)
(* per monitor) and the command line (crates/cosmo-cli/src/main.rs).       *)
(*                                                                         *)
(* A key is the number of the grant that made it, a sign-in an attempt     *)
(* with its own port, challenge and state.  A configuration is the         *)
(* provider it names and whose address its api_base is, "preset" when it   *)
(* is empty.  The steps inside one `reasoning set` are the module Turns;   *)
(* here it is one action.  No environment variable overrides a key or an   *)
(* endpoint (they are for development only).                               *)
(***************************************************************************)
EXTENDS Naturals, FiniteSets

CONSTANTS
  Provider,         \* PRESETS
  Browser,          \* those with a browser sign-in
  Keyless,          \* those that run on this computer
  SignIn,           \* the sign-ins, in the daemon or on the command line
  Panel,            \* the applet's processes
  MaxKeys,          \* bound: keys ever made
  MaxAsks           \* bound: requests the panels have under way

NoKey == 0
NoOne == "no one"   \* no sign-in, no provider

ASSUME AccountsAssumption ==
  /\ Browser \subseteq Provider \ Keyless /\ Keyless \subseteq Provider
  /\ NoOne \notin SignIn \cup Provider
  /\ MaxKeys \in Nat /\ MaxAsks \in Nat

VARIABLES
  up,               \* the daemon runs
  file,             \* config.ron: the provider and whose address is api_base
  cfg,              \* the daemon's copy
  reasonClient,           \* the reasoner: the provider, key and address it was built with
  keyring,          \* the key stored for each provider
  locked,           \* the keyring is locked
  made,             \* keys made so far
  sign,             \* each sign-in: its step, provider, and the key it brought
  slot,             \* the sign-in the engine would abort
  asks,             \* requests under way: who, what, which provider
  answers,          \* answers and events under way to a panel
  info,             \* what each panel knows: the provider in use, those connected
  terminal          \* the command line: the provider it has just connected

keyVars      == <<keyring, locked, made>>
panelVars    == <<asks, answers, info>>
accountsVars == <<up, file, cfg, reasonClient, keyVars, sign, slot, panelVars, terminal>>

Unknown  == [active |-> NoOne, connected |-> {}]
NoClient == [provider |-> NoOne, key |-> NoKey, address |-> NoOne]
Waiting  == {"bound", "waiting", "exchanging", "storing"}

----------------------------------------------------------------------------
(* Keys and endpoints.                                                     *)

\* keyring_lookup: a key, or the reason there is none.
Lookup(p) == IF locked THEN "locked" ELSE IF keyring[p] = NoKey THEN "missing" ELSE "key"

\* A provider is connected: its key can be read, or its server answers.
ProviderConnected(p) == p \in Keyless \/ Lookup(p) = "key"

\* Endpoint::resolve: the address requests go to.
Address(c) == IF c.base = "preset" THEN c.provider ELSE c.base

\* store_key: a locked keyring refuses it.
Stored(p, k) == IF locked THEN keyring ELSE [keyring EXCEPT ![p] = k]

\* set_string_fields with an endpoint of the old provider's cleared.
Switched(c, p, same) == [provider |-> p, base |-> IF same THEN c.base ELSE "preset"]

AccountsInit ==
  /\ up = TRUE
  /\ file \in [provider : Provider, base : {"preset"}]
  /\ cfg = file
  /\ reasonClient = NoClient
  /\ keyring = [p \in Provider |-> NoKey]
  /\ locked = FALSE
  /\ made = 0
  /\ sign = [s \in SignIn |-> [step |-> "new", provider |-> NoOne, key |-> NoKey]]
  /\ slot = NoOne
  /\ asks = {} /\ answers = {}
  /\ info = [l \in Panel |-> Unknown]
  /\ terminal = NoOne

----------------------------------------------------------------------------
(* The daemon.                                                             *)

\* key_changed: the next turn builds a fresh client.
KeyChanged(c, p) == IF c.provider = p THEN NoClient ELSE reasonClient

Answer(a, to) == [to |-> to, kind |-> a.kind, provider |-> a.provider]

\* reasoning_info: the providers, asked one by one while others go on.
AnswerReasoning(a) ==
  /\ a.kind = "info"
  /\ answers' = answers \cup {[to |-> a.from, kind |-> "info", active |-> cfg.provider,
                               connected |-> {p \in Provider : ProviderConnected(p)}]}
  /\ UNCHANGED <<file, cfg, reasonClient, keyring, sign, slot>>

\* set_reasoning.
AnswerSet(a) ==
  /\ a.kind = "set"
  /\ file' = Switched(file, a.provider, cfg.provider = a.provider)
  /\ cfg' = file'
  /\ reasonClient' = KeyChanged(cfg', a.provider)
  /\ answers' = answers \cup {Answer(a, a.from)}
  /\ UNCHANGED <<keyring, sign, slot>>

\* Command::StoreKey.
AnswerStore(a) ==
  /\ a.kind = "store"
  /\ keyring' = Stored(a.provider, a.key)
  /\ IF locked THEN UNCHANGED <<reasonClient, answers>>
               ELSE /\ reasonClient' = KeyChanged(cfg, a.provider)
                    /\ answers' = answers \cup {Answer(a, a.from)}
  /\ UNCHANGED <<file, cfg, sign, slot>>

\* sign_in_start up to its spawn: the listener is bound and the task waits on it.
AnswerSignIn(a) ==
  /\ a.kind = "sign in"
  /\ IF a.provider \notin Browser THEN UNCHANGED sign
     ELSE \E s \in SignIn :
            /\ sign[s].step = "new"
            /\ sign' = [sign EXCEPT ![s] = [step |-> "bound", provider |-> a.provider, key |-> NoKey]]
  /\ UNCHANGED <<file, cfg, reasonClient, keyring, slot, answers>>

HandleCommand ==
  \E a \in asks :
    /\ up
    /\ AnswerReasoning(a) \/ AnswerSet(a) \/ AnswerStore(a) \/ AnswerSignIn(a)
    /\ asks' = asks \ {a}
    /\ UNCHANGED <<up, locked, made, info, terminal>>

AbortedNot(s) == sign

\* The step an abort leaves a sign-in's task in.
Aborted(s) == IF s = NoOne \/ sign[s].step \notin Waiting THEN sign
              ELSE [sign EXCEPT ![s].step = "aborted"]

\* sign_in_start after its spawn: the slot, and the one it held is aborted.
Register(s) ==
  /\ up
  /\ sign[s].step = "bound"
  /\ slot' = s
  /\ sign' = [Aborted(slot) EXCEPT ![s].step = "waiting"]
  /\ UNCHANGED <<up, file, cfg, reasonClient, keyVars, panelVars, terminal>>

\* A turn takes the reasoner, building it when there is none.
ReasonTurn ==
  /\ up
  /\ reasonClient = NoClient
  /\ ProviderConnected(cfg.provider)
  /\ reasonClient' = [provider |-> cfg.provider, key |-> keyring[cfg.provider], address |-> Address(cfg)]
  /\ UNCHANGED <<up, file, cfg, keyVars, sign, slot, panelVars, terminal>>

\* The process stops: its tasks go with it.
StopDaemon ==
  /\ up
  /\ up' = FALSE
  /\ reasonClient' = NoClient
  /\ slot' = NoOne
  /\ asks' = {} /\ answers' = {}
  /\ info' = [l \in Panel |-> Unknown]
  /\ sign' = [s \in SignIn |-> IF sign[s].step \in Waiting THEN [sign[s] EXCEPT !.step = "aborted"]
                                                           ELSE sign[s]]
  /\ UNCHANGED <<file, cfg, keyVars, terminal>>

\* The process starts and reads config.ron.
StartAgain ==
  /\ ~up
  /\ up' = TRUE
  /\ cfg' = file
  /\ UNCHANGED <<file, reasonClient, keyVars, sign, slot, panelVars, terminal>>

----------------------------------------------------------------------------
(* PendingLogin::finish, in the daemon's task.                             *)

\* The outcome reaches every panel.
SignedIn(s, ok) ==
  answers' = answers \cup {[to |-> l, kind |-> "signed in", provider |-> sign[s].provider,
                            ok |-> ok] : l \in Panel}

\* The browser comes back, from this attempt's page or, the port having been
\* given out again, from the page of an attempt that is over.
Returns(s) ==
  /\ sign[s].step = "waiting"
  /\ \E t \in SignIn :
       /\ t = s \/ sign[t].step \in {"aborted", "done"}
       /\ IF t = s THEN /\ sign' = [sign EXCEPT ![s].step = "exchanging"]
                        /\ UNCHANGED answers
                   ELSE /\ sign' = [sign EXCEPT ![s].step = "done"]   \* StateMismatch
                        /\ SignedIn(s, FALSE)
  /\ UNCHANGED <<up, file, cfg, reasonClient, keyVars, slot, asks, info, terminal>>

\* It was refused, or did not come back in WAIT.
NotBack(s) ==
  /\ sign[s].step = "waiting"
  /\ sign' = [sign EXCEPT ![s].step = "done"]
  /\ SignedIn(s, FALSE)
  /\ UNCHANGED <<up, file, cfg, reasonClient, keyVars, slot, asks, info, terminal>>

\* exchange: the provider makes a key for the code and its verifier, or refuses.
Exchange(s) ==
  /\ sign[s].step = "exchanging"
  /\ \/ /\ made < MaxKeys
        /\ made' = made + 1
        /\ sign' = [sign EXCEPT ![s].step = "storing", ![s].key = made']
        /\ UNCHANGED answers
     \/ /\ sign' = [sign EXCEPT ![s].step = "done"]
        /\ SignedIn(s, FALSE)
        /\ UNCHANGED made
  /\ UNCHANGED <<up, file, cfg, reasonClient, keyring, locked, slot, asks, info, terminal>>

\* store_key, then Event::SignIn.
StoreIt(s) ==
  /\ sign[s].step = "storing"
  /\ keyring' = Stored(sign[s].provider, sign[s].key)
  /\ sign' = [sign EXCEPT ![s].step = "done"]
  /\ SignedIn(s, ~locked)
  /\ UNCHANGED <<up, file, cfg, reasonClient, locked, made, slot, asks, info, terminal>>

GoesOn(s) == NotBack(s) \/ Exchange(s) \/ StoreIt(s)

----------------------------------------------------------------------------
(* The panel applet.                                                       *)

Asked(new) == asks' = asks \cup new
Request(l, kind, p) == [from |-> l, kind |-> kind, provider |-> p]

\* The cards: a connected provider is used or its key replaced, another is
\* signed in to or given a key; nothing is offered before the first answer.
Offered(l) ==
  IF info[l] = Unknown THEN {}
  ELSE    {Request(l, "set", p) : p \in info[l].connected}
     \cup {Request(l, "sign in", p) : p \in Browser \ info[l].connected}
     \cup {[from |-> l, kind |-> "store", provider |-> p, key |-> made + 1] :
             p \in Provider \ (Keyless \cup (Browser \ info[l].connected))}

\* A connection and opening the section ask for the providers; the cards do the rest.
Clicks(l) ==
  /\ up
  /\ Cardinality(asks) + Cardinality(answers) < MaxAsks
  /\ \E a \in {Request(l, "info", NoOne)} \cup Offered(l) :
       /\ Asked({a})
       /\ a.kind = "sign in" => \E s \in SignIn : sign[s].step = "new"
       /\ a.kind = "store" => made < MaxKeys
       /\ made' = IF a.kind = "store" THEN made + 1 ELSE made
  /\ UNCHANGED <<up, file, cfg, reasonClient, keyring, locked, sign, slot, answers, info, terminal>>

\* active_connected: the provider in use can answer, as far as the panel knows.
ActiveConnected(l) == info[l].active \in info[l].connected

\* An answer or an event arrives; a new key is used at once when nothing else is.
TakeAnswer ==
  \E a \in answers :
    LET l == a.to
        use == IF ActiveConnected(l) THEN {} ELSE {Request(l, "set", a.provider)}
        again == {Request(l, "info", NoOne)}
    IN /\ answers' = answers \ {a}
       /\ CASE a.kind = "info" -> /\ info' = [info EXCEPT ![l] = [active |-> a.active,
                                                                  connected |-> a.connected]]
                                  /\ UNCHANGED asks
            [] a.kind = "set" -> Asked(again) /\ UNCHANGED info
            [] a.kind = "store" -> Asked(again \cup use) /\ UNCHANGED info
            [] a.kind = "signed in" -> Asked(again \cup (IF a.ok THEN use ELSE {})) /\ UNCHANGED info
       /\ UNCHANGED <<up, file, cfg, reasonClient, keyVars, sign, slot, terminal>>

----------------------------------------------------------------------------
(* The command line and the user.                                          *)

\* auth_login: a key by browser or pasted, straight into the keyring.
AuthLogin ==
  /\ terminal = NoOne
  /\ made < MaxKeys
  /\ ~locked
  /\ \E p \in Provider \ Keyless :
       /\ keyring' = Stored(p, made + 1)
       /\ terminal' = p
  /\ made' = made + 1
  /\ UNCHANGED <<up, file, cfg, reasonClient, locked, sign, slot, panelVars>>

\* Then use_provider, when config.ron names another and the user agrees:
\* through the daemon, or the file when there is none.
UseProvider ==
  /\ terminal # NoOne
  /\ \/ UNCHANGED <<file, cfg, reasonClient>>
     \/ /\ file.provider # terminal
        /\ IF up THEN /\ file' = Switched(file, terminal, cfg.provider = terminal)
                      /\ cfg' = file'
                      /\ reasonClient' = KeyChanged(cfg', terminal)
                 ELSE /\ file' = Switched(file, terminal, FALSE)
                      /\ UNCHANGED <<cfg, reasonClient>>
  /\ terminal' = NoOne
  /\ UNCHANGED <<up, keyVars, sign, slot, panelVars>>

\* auth_logout.
AuthLogout ==
  /\ \E p \in Provider : keyring[p] # NoKey /\ keyring' = [keyring EXCEPT ![p] = NoKey]
  /\ ~locked
  /\ UNCHANGED <<up, file, cfg, reasonClient, locked, made, sign, slot, panelVars, terminal>>

\* The user sets api_base in config.ron, for the provider it names, while no daemon runs.
EditConfig ==
  /\ ~up
  /\ file' = [file EXCEPT !.base = file.provider]
  /\ UNCHANGED <<up, cfg, reasonClient, keyVars, sign, slot, panelVars, terminal>>

LockKeyring ==
  /\ locked' = ~locked
  /\ UNCHANGED <<up, file, cfg, reasonClient, keyring, made, sign, slot, panelVars, terminal>>

AccountsNext ==
  \/ HandleCommand \/ ReasonTurn \/ StopDaemon \/ StartAgain \/ TakeAnswer
  \/ \E s \in SignIn : Register(s) \/ Returns(s) \/ GoesOn(s)
  \/ \E l \in Panel : Clicks(l)
  \/ AuthLogin \/ UseProvider \/ AuthLogout \/ EditConfig \/ LockKeyring

AccountsSpec == AccountsInit /\ [][AccountsNext]_accountsVars

----------------------------------------------------------------------------
(* Properties.                                                             *)

\* A sign-in that a newer one replaced stores nothing any more: whatever the
\* order in which two panels' sign-ins are started and registered, the only one
\* still on its way is the one the slot holds, or one not registered yet.
OneSignIn ==
  \A s \in SignIn : sign[s].step \in Waiting \ {"bound"} => slot = s

\* A key is only ever sent to the provider it was stored for (secret.rs),
\* whoever switches the provider, and whatever address was set for another.
KeyGoesToItsProvider ==
  reasonClient # NoClient => reasonClient.address = reasonClient.provider

\* Of several sign-ins the newest counts, and a key goes nowhere but to the
\* provider it was stored for (engine.rs sign_in_start, secret.rs).
AccountsAreSafe == OneSignIn /\ KeyGoesToItsProvider
=============================================================================
