------------------------------ MODULE XSettings ------------------------------
(***************************************************************************)
(* XSettings keeps a copy of the settings that a settings manager publishes*)
(* in a property of its window, each with a serial that grows when it is   *)
(* changed, and calls the callbacks registered for a setting that changed. *)
(* The map of settings is a flat_map, of which what it maps is modelled    *)
(* here: an element inserted moves others, and the lifetime of a callback  *)
(* remembers the address of its element.  The connection does not fail     *)
(* here, and a property fits a reply.                                      *)
(***************************************************************************)
EXTENDS Integers

CONSTANTS SettingNames, Subscribers,
          MaxSerial,     \* bound on the changes of the settings
          MaxNotifies    \* bound on the events not read

VARIABLES
  published,    \* by the manager: settings, as functions to [value, serial]
  lastSerial,   \* of the manager
  restarted,    \* a manager began again with lower serials
  notifies,     \* PropertyNotify events not read
  xsettings,    \* "none", "initialized" or "not" when the constructor gave up
  keepers,      \* holders of the instance other than callbacks' lifetimes
  settings,     \* the map, from names to [value, serial, links]
  registered,   \* [Subscribers -> [name, known]] of live lifetimes
  stale,        \* callbacks whose element may have moved since
  calledDead    \* callbacks that were called without a live lifetime

vars == <<published, lastSerial, restarted, notifies, xsettings, keepers, settings,
          registered, stale, calledDead>>
managerVars == <<published, lastSerial, restarted>>

Unset == -1   \* no value yet, and the first last_change_serial

Init == /\ published = <<>> /\ lastSerial = 0 /\ restarted = FALSE /\ notifies = 0
        /\ xsettings = "none" /\ keepers = FALSE /\ settings = <<>>
        /\ registered = <<>> /\ stale = {} /\ calledDead = {}

Live == DOMAIN registered

\* settings[p] inserts what is not there.
Missing == [value |-> Unset, serial |-> Unset, links |-> {}]
Element(map, p) == IF p \in DOMAIN map THEN map[p] ELSE Missing
Inserted(map, p) == [q \in DOMAIN map \union {p} |-> Element(map, q)]

-----------------------------------------------------------------------------
\* updateValue() takes a higher serial only.
Updated(e, s) ==
  IF s.serial <= e.serial THEN e
  ELSE [value |-> s.value, serial |-> s.serial, links |-> e.links]

\* populateSettings(getSettings()): each published setting is looked up, and
\* updates its own element alone.
Populated(map) ==
  [p \in DOMAIN map \union DOMAIN published |->
     IF p \in DOMAIN published THEN Updated(Element(map, p), published[p]) ELSE map[p]]

\* Subscribers of the settings whose value this replaced.
CalledBy(old, new) ==
  {c \in Subscribers : \E p \in DOMAIN old :
     c \in old[p].links /\ new[p].serial # old[p].serial}

Populate ==
  /\ settings' = Populated(settings)
  /\ LET called == CalledBy(settings, settings')
     IN /\ registered' = [c \in Live |->
                            IF c \in called
                            THEN [registered[c] EXCEPT
                                    !.known = settings'[registered[c].name].value]
                            ELSE registered[c]]
        /\ calledDead' = calledDead \union (called \ Live)
  /\ stale' = IF DOMAIN settings' # DOMAIN settings THEN stale \union Live ELSE stale

-----------------------------------------------------------------------------
\* Instance(): another holder, or the constructor, which gives up when there is
\* no manager, or fails to install its handler or to change the event mask.
Instance ==
  /\ ~keepers /\ keepers' = TRUE
  /\ \/ /\ xsettings = "none" /\ xsettings' = "initialized"
        /\ notifies' = 0 /\ Populate
     \/ /\ xsettings = "none" /\ xsettings' = "not"
        /\ UNCHANGED <<notifies, settings, registered, stale, calledDead>>
     \/ /\ xsettings # "none"
        /\ UNCHANGED <<xsettings, notifies, settings, registered, stale, calledDead>>
  /\ UNCHANGED managerVars

\* ~XSettings(), when neither a holder nor a callback's lifetime needs it.
Freed(held, live) ==
  IF held \/ live # {} THEN UNCHANGED <<xsettings, settings, notifies>>
  ELSE xsettings' = "none" /\ settings' = <<>> /\ notifies' = 0

Drop ==
  /\ keepers /\ keepers' = FALSE
  /\ Freed(FALSE, Live)
  /\ UNCHANGED <<managerVars, registered, stale, calledDead>>

\* setting(): a name that was never published is inserted too.
Setting(p) ==
  /\ keepers /\ p \notin DOMAIN settings
  /\ settings' = Inserted(settings, p)
  /\ stale' = stale \union Live
  /\ UNCHANGED <<managerVars, notifies, xsettings, keepers, registered, calledDead>>

RegisterCallbackForProperty(c, p) ==
  /\ keepers /\ c \notin Live
  /\ \A q \in DOMAIN settings : c \notin settings[q].links
  /\ settings' = [Inserted(settings, p) EXCEPT ![p].links = @ \union {c}]
  /\ registered' = [x \in Live \union {c} |->
                      IF x = c THEN [name |-> p, known |-> Element(settings, p).value]
                      ELSE registered[x]]
  /\ stale' = (IF p \in DOMAIN settings THEN stale ELSE stale \union Live) \ {c}
  /\ calledDead' = calledDead \ {c}
  /\ UNCHANGED <<managerVars, notifies, xsettings, keepers>>

\* The lifetime of a callback ends.  It erases the callback from the element it
\* remembers, which after an insertion is another one, or freed memory.
Erase(c) ==
  LET erased == [p \in DOMAIN settings |-> [settings[p] EXCEPT !.links = @ \ {c}]]
  IN /\ settings' \in IF c \in stale THEN {erased, settings} ELSE {erased}
     /\ UNCHANGED <<xsettings, notifies>>

Unregister(c) ==
  /\ c \in Live
  /\ registered' = [x \in Live \ {c} |-> registered[x]]
  /\ IF keepers \/ Live # {c} THEN Erase(c) ELSE Freed(FALSE, {})
  /\ UNCHANGED <<managerVars, keepers, stale, calledDead>>

\* The handler, for an event of the manager's window.
PropertyNotify ==
  /\ xsettings = "initialized" /\ notifies > 0 /\ notifies' = notifies - 1
  /\ Populate
  /\ UNCHANGED <<managerVars, xsettings, keepers>>

-----------------------------------------------------------------------------
\* The settings manager (external).
Notify == notifies' = IF xsettings = "initialized" THEN notifies + 1 ELSE notifies
Publish(p) ==
  /\ notifies < MaxNotifies /\ lastSerial < MaxSerial
  /\ lastSerial' = lastSerial + 1
  /\ published' = [q \in DOMAIN published \union {p} |->
       IF q = p THEN [value |-> lastSerial', serial |-> lastSerial'] ELSE published[q]]
  /\ Notify
  /\ UNCHANGED <<restarted, xsettings, keepers, settings, registered, stale, calledDead>>
Withdraw(p) ==
  /\ notifies < MaxNotifies /\ p \in DOMAIN published
  /\ published' = [q \in DOMAIN published \ {p} |-> published[q]]
  /\ Notify
  /\ UNCHANGED <<lastSerial, restarted, xsettings, keepers, settings, registered, stale,
                 calledDead>>
\* A new manager has a new window, which nobody watches.
Restart ==
  /\ ~restarted /\ restarted' = TRUE /\ lastSerial' = 0
  /\ published' = <<>>
  /\ xsettings' = IF xsettings = "initialized" THEN "not" ELSE xsettings
  /\ notifies' = 0
  /\ UNCHANGED <<keepers, settings, registered, stale, calledDead>>

Next ==
  \/ Instance \/ Drop \/ PropertyNotify \/ Restart
  \/ \E p \in SettingNames :
       \/ Setting(p) \/ Publish(p) \/ Withdraw(p)
       \/ \E c \in Subscribers : RegisterCallbackForProperty(c, p)
  \/ \E c \in Subscribers : Unregister(c)

Spec == Init /\ [][Next]_vars

-----------------------------------------------------------------------------
Serials == Unset..MaxSerial
TypeOK ==
  /\ DOMAIN published \subseteq SettingNames
  /\ \A p \in DOMAIN published : published[p] \in [value : Serials, serial : Serials]
  /\ lastSerial \in 0..MaxSerial /\ restarted \in BOOLEAN /\ keepers \in BOOLEAN
  /\ notifies \in 0..MaxNotifies /\ xsettings \in {"none", "initialized", "not"}
  /\ DOMAIN settings \subseteq SettingNames
  /\ \A p \in DOMAIN settings :
       settings[p] \in [value : Serials, serial : Serials, links : SUBSET Subscribers]
  /\ \A c \in Live : registered[c] \in [name : SettingNames, known : Serials]
  /\ Live \subseteq Subscribers /\ stale \union calledDead \subseteq Subscribers

\* With no event unread the copy has every published setting as it is, for the
\* manager whose window is watched.
SettingsFollow ==
  xsettings = "initialized" /\ notifies = 0 =>
    \A p \in DOMAIN published :
      p \in DOMAIN settings /\ settings[p].value = published[p].value

\* Who registered a callback was last told the value that the copy has.
CallbacksKnow ==
  \A c \in Live : /\ registered[c].name \in DOMAIN settings
                  /\ registered[c].known = settings[registered[c].name].value

\* A callback is not called after its lifetime, unless a setting was inserted
\* while it lived, so that its lifetime erased nothing, or what it should not.
NoDeadCallback == calledDead \subseteq stale
=============================================================================
