---------------------------- MODULE DesktopLaunch ----------------------------
(***************************************************************************)
(* What the library asks of other programs of a Linux desktop: to show a   *)
(* file in its folder (the file manager, else the portal, else a url), the *)
(* activation token of Wayland that such a request carries, and to be the  *)
(* default handler of a url scheme.  On Windows the handlers of the url    *)
(* schemes are in the registry, and share some of what is written there.   *)
(***************************************************************************)
EXTENDS Naturals, Sequences, FiniteSets

CONSTANTS Launches,   \* calls of ShowInFolder(), and of XdgActivationToken()
          Waits,      \* those that are the latter
          Windows,
          NoWindow,
          Protocols   \* the url schemes registered on Windows

VARIABLES
  asked,     \* what is asked for: "launch", "scheme" or "registry"
  step,      \* [Launches -> where it is]
  waitsOn,   \* [Launches -> the window whose token it waits for]
  focus,     \* the focus window
  visible,   \* windows that are
  wayland,   \* the application is a client of Wayland
  requests,  \* [Windows -> tokens asked for that did not come]
  stranded,  \* launches whose window died while they waited
  doubtful,  \* launches whose request failed for want of an answer in time
  openings,  \* [Launches -> programs that opened the folder]
  entries,   \* "userapp-" entries with our command line, for the scheme
  defaultIs, \* the handler of the scheme: "entry", "desktopFile" or "other"
  fileMatches, \* the desktop file of the application has our command line
  registered, \* RegisterUrlScheme() came last, and could do what it wanted
  registry,  \* what of it is written, by <<key, protocol>>
  handles,   \* protocols that were registered, and none unregistered since
  torn,      \* those whose registration, or the end of it, failed halfway
  bereft     \* those that another one's end took the shared entries of

launchVars == <<step, waitsOn, focus, visible, wayland, requests, stranded, doubtful,
                openings>>
schemeVars == <<entries, defaultIs, fileMatches, registered>>
registryVars == <<registry, handles, torn, bereft>>
vars == <<asked, launchVars, schemeVars, registryVars>>

Shows == Launches \ Waits
Init ==
  /\ asked \in {"launch", "scheme", "registry"}
  /\ step = [l \in Launches |-> "notCalled"]
  /\ waitsOn = [l \in Launches |-> NoWindow]
  /\ focus = NoWindow /\ visible = {} /\ wayland \in BOOLEAN /\ (wayland => asked = "launch")
  /\ requests = [w \in Windows |-> 0] /\ stranded = {} /\ doubtful = {}
  /\ openings = [l \in Launches |-> {}]
  /\ entries = 0 /\ defaultIs = "other" /\ registered = FALSE
  /\ fileMatches \in BOOLEAN /\ (fileMatches => asked = "scheme")
  /\ registry = {} /\ handles = {} /\ torn = {} /\ bereft = {}

Go(l, s) == step' = [step EXCEPT ![l] = s]
Opened(l, by) == openings' = [openings EXCEPT ![l] = @ \union {by}]

-----------------------------------------------------------------------------
\* A step s whose token came continues as After(s).
After(s) == CASE s = "managerToken" -> "managerCall"
              [] s = "portalToken"  -> "portalCall"
              [] s = "waitToken"    -> "done"
AsksToken == {"managerToken", "portalToken", "waitToken"}

ShowInFolder(l) ==
  /\ step[l] = "notCalled" /\ l \in Shows /\ Go(l, "managerProxy")
  /\ UNCHANGED <<waitsOn, focus, visible, wayland, requests, stranded, doubtful,
                 openings, schemeVars>>
\* XdgActivationToken() queues the request and runs an event loop.
XdgActivationToken(l) ==
  /\ step[l] = "notCalled" /\ l \in Waits /\ Go(l, "waitToken")
  /\ UNCHANGED <<waitsOn, focus, visible, wayland, requests, stranded, doubtful,
                 openings, schemeVars>>

\* DBusShowInFolder() has its proxy, or has not and calls fail().
ManagerProxy(l) ==
  /\ step[l] = "managerProxy"
  /\ \E s \in {"managerToken", "portalProxy"} : Go(l, s)
  /\ UNCHANGED <<waitsOn, focus, visible, wayland, requests, stranded, doubtful,
                 openings, schemeVars>>
\* PortalShowInFolder(): without the proxy or the file a url is opened instead.
PortalProxy(l) ==
  /\ step[l] = "portalProxy"
  /\ \/ Go(l, "portalToken") /\ UNCHANGED openings
     \/ Go(l, "done") /\ Opened(l, "url")
  /\ UNCHANGED <<waitsOn, focus, visible, wayland, requests, stranded, doubtful, schemeVars>>

\* RunWithXdgActivationToken(): an invisible focus window is tried again later,
\* which changes nothing; a native one is asked, and its next token is taken.
RunWithXdgActivationToken(l) ==
  /\ step[l] \in AsksToken /\ waitsOn[l] = NoWindow /\ l \notin stranded
  /\ IF focus # NoWindow /\ wayland
     THEN /\ focus \in visible
          /\ waitsOn' = [waitsOn EXCEPT ![l] = focus]
          /\ requests' = [requests EXCEPT ![focus] = @ + 1]
          /\ UNCHANGED step
     ELSE /\ focus = NoWindow \/ focus \in visible
          /\ Go(l, After(step[l]))
          /\ UNCHANGED <<waitsOn, requests>>
  /\ UNCHANGED <<focus, visible, wayland, stranded, doubtful, openings, schemeVars>>

\* xdgActivationTokenCreated: all that wait on the window take the same token.
Takers(w) == {l \in Launches : waitsOn[l] = w}
TokenCreated(w) ==
  /\ requests[w] > 0 /\ requests' = [requests EXCEPT ![w] = @ - 1]
  /\ step' = [l \in Launches |-> IF l \in Takers(w) THEN After(step[l]) ELSE step[l]]
  /\ waitsOn' = [l \in Launches |-> IF l \in Takers(w) THEN NoWindow ELSE waitsOn[l]]
  /\ UNCHANGED <<focus, visible, wayland, stranded, doubtful, openings, schemeVars>>

\* The file manager, then the portal: it opened the folder, it failed, or it
\* opened it and its answer did not come in time.
ManagerAnswers(l) ==
  /\ step[l] = "managerCall"
  /\ \/ Go(l, "done") /\ Opened(l, "manager") /\ UNCHANGED doubtful
     \/ Go(l, "portalProxy") /\ UNCHANGED <<openings, doubtful>>
     \/ Go(l, "portalProxy") /\ Opened(l, "manager") /\ doubtful' = doubtful \union {l}
  /\ UNCHANGED <<waitsOn, focus, visible, wayland, requests, stranded, schemeVars>>
PortalAnswers(l) ==
  /\ step[l] = "portalCall" /\ Go(l, "done")
  /\ \/ Opened(l, "portal") /\ UNCHANGED doubtful
     \/ Opened(l, "url") /\ UNCHANGED doubtful
     \/ /\ openings' = [openings EXCEPT ![l] = @ \union {"portal", "url"}]
        /\ doubtful' = doubtful \union {l}
  /\ UNCHANGED <<waitsOn, focus, visible, wayland, requests, stranded, schemeVars>>

\* Windows (external): focus moves, they show, hide and die.
FocusMoves ==
  /\ focus' \in (Windows \union {NoWindow}) \ {focus}
  /\ UNCHANGED <<step, waitsOn, visible, wayland, requests, stranded, doubtful, openings,
                 schemeVars>>
WindowShows(w) ==
  /\ w \notin visible /\ visible' = visible \union {w}
  /\ UNCHANGED <<step, waitsOn, focus, wayland, requests, stranded, doubtful, openings,
                 schemeVars>>
\* The signal's connection dies with the window: whoever waits is never called.
WindowDies(w) ==
  /\ w \in visible /\ visible' = visible \ {w}
  /\ focus' = IF focus = w THEN NoWindow ELSE focus
  /\ stranded' = stranded \union Takers(w)
  /\ waitsOn' = [l \in Launches |-> IF l \in Takers(w) THEN NoWindow ELSE waitsOn[l]]
  /\ requests' = [requests EXCEPT ![w] = 0]
  /\ UNCHANGED <<step, wayland, doubtful, openings, schemeVars>>

-----------------------------------------------------------------------------
\* Url schemes.

\* CheckUrlScheme(): the default handler has our command line.
Check == defaultIs = "entry" \/ (defaultIs = "desktopFile" /\ fileMatches)

\* RegisterUrlScheme(): UnregisterUrlScheme() deletes our entries first, whatever
\* is made or fails to be made next.
RegisterMutant ==
  /\ IF Check THEN UNCHANGED <<entries, defaultIs, registered>>
     ELSE \/ fileMatches /\ defaultIs' = "desktopFile" /\ entries' = entries
               /\ registered' = TRUE
          \/ /\ ~fileMatches /\ defaultIs' = "entry" /\ entries' = entries + 1
             /\ registered' = TRUE
  /\ UNCHANGED <<launchVars, fileMatches>>
Register ==
  /\ IF Check THEN registered' = TRUE /\ UNCHANGED <<entries, defaultIs>>
     ELSE \/ /\ fileMatches /\ defaultIs' = "desktopFile" /\ entries' = 0
             /\ registered' = TRUE
          \/ /\ ~fileMatches /\ defaultIs' = "entry" /\ entries' = 1
             /\ registered' = TRUE
          \/ defaultIs' = "other" /\ entries' = 0 /\ registered' = FALSE
  /\ UNCHANGED <<launchVars, fileMatches>>

\* UnregisterUrlScheme() deletes the entries, not a desktop file.
Unregister ==
  /\ entries' = 0 /\ registered' = FALSE
  /\ defaultIs' = IF defaultIs = "entry" THEN "other" ELSE defaultIs
  /\ UNCHANGED <<launchVars, fileMatches>>

\* Another program becomes the default, or an update changes the desktop file.
OtherRegisters ==
  /\ defaultIs # "other" /\ defaultIs' = "other" /\ registered' = FALSE
  /\ UNCHANGED <<launchVars, entries, fileMatches>>
FileChanges ==
  /\ fileMatches' = ~fileMatches /\ registered' = (registered /\ defaultIs = "entry")
  /\ UNCHANGED <<launchVars, entries, defaultIs>>

-----------------------------------------------------------------------------
\* Url schemes of Windows.  What FullRegister() writes, in this order: of the keys
\* only the first of each that the application opens are told apart, and those
\* under the names of the application are shared by all its protocols.
Shared == "shared"
Keys(p) == << <<"class", p>>, <<"capabilities", Shared>>, <<"association", p>>,
              <<"application", Shared>>, <<"legacy", p>> >>
Written(p) == {Keys(p)[i] : i \in DOMAIN Keys(p)}

\* CheckUrlScheme(): all of it is there.
CheckRegistry(p) == Written(p) \subseteq registry

\* RegisterUrlScheme() writes what is not there until something fails.
RegisterInRegistry(p) ==
  /\ \E n \in 0..Len(Keys(p)) :
       /\ registry' = registry \union {Keys(p)[i] : i \in 1..n}
       /\ IF n = Len(Keys(p))
          THEN handles' = handles \union {p} /\ torn' = torn \ {p} /\ bereft' = bereft \ {p}
          ELSE torn' = torn \union {p} /\ UNCHANGED <<handles, bereft>>
  /\ UNCHANGED <<launchVars, schemeVars>>

\* UnregisterUrlScheme() does nothing unless all is there, and then removes what it
\* can: with the key of the associations those of other protocols go too.
Associations == {<<"association", q>> : q \in Protocols}
UnregisterFromRegistry(p) ==
  /\ IF CheckRegistry(p)
     THEN \E kept \in SUBSET Written(p) :
            /\ registry' = registry \ ((Written(p) \union
                 (IF <<"association", p>> \in kept THEN {} ELSE Associations)) \ kept)
            /\ torn' = IF kept = {} THEN torn \ {p} ELSE torn \union {p}
            /\ bereft' = Protocols \ {p}
     ELSE UNCHANGED <<registry, torn, bereft>>
  /\ handles' = {}
  /\ UNCHANGED <<launchVars, schemeVars>>

-----------------------------------------------------------------------------
Proceed(l) == \/ ManagerProxy(l) \/ PortalProxy(l) \/ ManagerAnswers(l) \/ PortalAnswers(l)
              \/ RunWithXdgActivationToken(l)
LaunchNext ==
  \/ \E l \in Launches : ShowInFolder(l) \/ XdgActivationToken(l) \/ Proceed(l)
  \/ \E w \in Windows : TokenCreated(w) \/ WindowShows(w) \/ WindowDies(w)
  \/ FocusMoves
SchemeNext == Register \/ Unregister \/ OtherRegisters \/ FileChanges
RegistryNext == \E p \in Protocols : RegisterInRegistry(p) \/ UnregisterFromRegistry(p)
Next ==
  /\ UNCHANGED asked
  /\ \/ asked = "launch" /\ LaunchNext /\ UNCHANGED registryVars
     \/ asked = "scheme" /\ SchemeNext /\ UNCHANGED registryVars
     \/ asked = "registry" /\ RegistryNext

\* Calls over D-Bus are answered or time out, a window asked for a token gives
\* it, and the event loop runs what is queued.
Launching(A) == asked = "launch" /\ A /\ UNCHANGED <<asked, registryVars>>
Fairness == /\ \A l \in Launches : SF_vars(Launching(Proceed(l)))
            /\ \A w \in Windows : WF_vars(Launching(TokenCreated(w)))
Spec == Init /\ [][Next]_vars /\ Fairness

-----------------------------------------------------------------------------
TypeOK ==
  /\ step \in [Launches -> AsksToken \union {"notCalled", "managerProxy", "portalProxy",
                                             "managerCall", "portalCall", "done"}]
  /\ waitsOn \in [Launches -> Windows \union {NoWindow}]
  /\ focus \in Windows \union {NoWindow} /\ visible \subseteq Windows
  /\ wayland \in BOOLEAN /\ fileMatches \in BOOLEAN /\ registered \in BOOLEAN
  /\ requests \in [Windows -> Nat]
  /\ stranded \union doubtful \subseteq Launches
  /\ openings \in [Launches -> SUBSET {"manager", "portal", "url"}]
  /\ asked \in {"launch", "scheme", "registry"}
  /\ registry \subseteq UNION {Written(p) : p \in Protocols}
  /\ handles \union torn \union bereft \subseteq Protocols
  /\ entries \in 0..1 /\ defaultIs \in {"entry", "desktopFile", "other"}

\* A folder is opened once for a call, unless an answer came too late; and who
\* waits for a token asked the window for it.
OpenedOnce ==
  /\ \A l \in Shows \ doubtful : Cardinality(openings[l]) <= 1
  /\ \A l \in Shows : step[l] = "done" => openings[l] # {}
  /\ \A l \in Launches : waitsOn[l] # NoWindow => requests[waitsOn[l]] > 0

\* A registration that could make its entry is there until another one or an
\* update of the desktop file takes it away, and entries do not pile up.
SchemeIsOurs == (registered => Check) /\ entries <= 1

\* A protocol that was registered completely is checked as such until one is
\* unregistered; and what is its own is there with all it needs, or not at all,
\* unless something failed, or the end of another protocol took what they share:
\* then CheckUrlScheme() fails and the rest is never removed.
Own(p) == Written(p) \ {<<"capabilities", Shared>>, <<"application", Shared>>}
RegistryIsWhole ==
  /\ \A p \in handles : CheckRegistry(p)
  /\ \A p \in Protocols \ (torn \union bereft) :
       CheckRegistry(p) \/ Own(p) \intersect registry = {}

\* Every call ends, unless the window whose token it waits for dies, or a window
\* that stays invisible keeps the focus.
LaunchEnds ==
  \A l \in Launches :
    step[l] # "notCalled" ~>
      \/ step[l] = "done" \/ l \in stranded
      \/ focus # NoWindow /\ focus \notin visible
=============================================================================
