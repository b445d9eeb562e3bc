---------------------------- MODULE CustomAppIcon ----------------------------
(***************************************************************************)
(* The custom icon of the application's bundle on macOS: the resource fork *)
(* of the file Icon\r and a bit of the bundle's FinderInfo attribute,      *)
(* written one after the other with the help of other programs.  Each step *)
(* may fail, the process may die between two, and an update of the         *)
(* application replaces the bundle.  The programs and the extended         *)
(* attributes are the system's.                                            *)
(***************************************************************************)
EXTENDS Naturals

CONSTANTS Icons,      \* the icons, and their digests
          NoIcon, MaxDeaths

VARIABLES
  attr,      \* FinderInfo: none, too short, with the bit of a custom icon or without
  file,      \* there is an Icon\r
  fork,      \* its resource fork: an icon, or nothing
  dock,      \* what the Dock showed when it was started last
  temps,     \* temporary files
  pc,        \* the step the call is at
  setting,   \* the icon it sets
  before,    \* the fork when it began
  result,    \* what the last call returned
  deaths,
  halfway    \* a fork was written and the bit not set after it

vars == <<attr, file, fork, dock, temps, pc, setting, before, result, deaths, halfway>>

Attributes == {"none", "short", "plain", "custom"}
Failed == "nullopt"
Zero == "0"      \* a digest of 0; and false, as an optional digest
Success == "true"
Failure == "false"

\* What the system shows for the bundle.
Displayed == IF attr = "custom" /\ file THEN fork ELSE NoIcon

Init ==
  /\ attr \in Attributes \ {"custom"} /\ file = FALSE /\ fork = NoIcon /\ dock = NoIcon
  /\ temps = 0 /\ pc = "idle" /\ setting = NoIcon /\ before = NoIcon /\ result = Failed
  /\ deaths = 0 /\ halfway = FALSE

\* A call returns, and gsl::finally removes the temporary file.
Return(value) ==
  /\ pc' = "idle" /\ result' = value /\ temps' = temps - (IF setting = NoIcon THEN 0 ELSE 1)
  /\ setting' = NoIcon
GoOn(step) == pc' = step /\ UNCHANGED <<result, temps, setting>>

-----------------------------------------------------------------------------
\* SetCustomAppIcon(), of an image or of a file.  Before there is a temporary
\* file nothing changes.
SetCustomAppIcon(i) ==
  /\ pc = "idle" /\ before' = fork
  /\ \/ result' = Failed /\ UNCHANGED <<temps, pc, setting>>
     \/ pc' = "sips" /\ temps' = temps + 1 /\ setting' = i /\ result' = result
  /\ UNCHANGED <<attr, file, fork, dock, deaths, halfway>>

\* SetPreparedIcon(): the icon has not been saved, or sips or touch failed.
SipsAndTouch ==
  /\ pc = "sips"
  /\ \/ Return(Failed) /\ UNCHANGED file
     \/ GoOn("fork") /\ file' = TRUE
  /\ UNCHANGED <<attr, fork, dock, before, deaths, halfway>>

\* Without a resource fork of the temporary file, false is returned as a digest.
CopyFork ==
  /\ pc = "fork"
  /\ \/ (Return(Zero) \/ Return(Failed)) /\ UNCHANGED <<fork, halfway>>
     \/ GoOn("attribute") /\ fork' = setting /\ halfway' = TRUE
  /\ UNCHANGED <<attr, file, dock, before, deaths>>

\* EnableCustomIcon(): a bit that is set is cleared first, so that the system
\* sees it change.  An attribute that is too short is an error.
ClearBit ==
  /\ pc = "attribute"
  /\ \/ Return(Failed) /\ UNCHANGED attr
     \/ /\ attr # "short" /\ GoOn("bit")
        /\ attr' = IF attr = "custom" THEN "plain" ELSE attr
  /\ UNCHANGED <<file, fork, dock, before, deaths, halfway>>
SetBit ==
  /\ pc = "bit"
  /\ \/ Return(Failed) /\ UNCHANGED <<attr, halfway>>
     \/ GoOn("dock") /\ attr' = "custom" /\ halfway' = FALSE
  /\ UNCHANGED <<file, fork, dock, before, deaths>>

\* RefreshDock() ends the call, of one or the other kind.
RefreshDock ==
  /\ pc = "dock"
  /\ \/ /\ Return(IF setting = NoIcon THEN Failure ELSE Failed)
        /\ UNCHANGED dock
     \/ /\ Return(IF setting = NoIcon THEN Success ELSE setting)
        /\ dock' = Displayed
  /\ UNCHANGED <<attr, file, fork, before, deaths, halfway>>

-----------------------------------------------------------------------------
\* ClearCustomAppIcon(): the file, if it can be removed, and then the attribute.
RemoveFile ==
  /\ pc = "idle" /\ before' = fork
  /\ \/ file' = FALSE /\ fork' = NoIcon
     \/ file /\ UNCHANGED <<file, fork>>
  /\ GoOn("delete")
  /\ UNCHANGED <<attr, dock, deaths, halfway>>
DeleteAttribute ==
  /\ pc = "delete"
  /\ \/ Return(Failure) /\ UNCHANGED <<attr, halfway>>
     \/ attr = "none" /\ Return(Success) /\ UNCHANGED <<attr, halfway>>
     \/ attr \notin {"none", "short"} /\ GoOn("dock") /\ attr' = "none" /\ halfway' = FALSE
  /\ UNCHANGED <<file, fork, dock, before, deaths>>

\* CurrentCustomAppIconDigest() reads the attribute, whatever its bit, and the fork.
CurrentDigest ==
  CASE attr = "short" -> Failed
    [] attr = "none" \/ (attr # "short" /\ fork = NoIcon) -> Zero
    [] OTHER -> fork

-----------------------------------------------------------------------------
\* The process dies in the middle of a call.
Die ==
  /\ pc # "idle" /\ deaths < MaxDeaths
  /\ deaths' = deaths + 1 /\ pc' = "idle" /\ setting' = NoIcon /\ result' = Failed
  /\ UNCHANGED <<attr, file, fork, dock, temps, before, halfway>>

\* An update writes a new bundle.
Update ==
  /\ pc = "idle"
  /\ attr' = "none" /\ file' = FALSE /\ fork' = NoIcon /\ halfway' = FALSE
  /\ result' = Failed
  /\ UNCHANGED <<dock, temps, pc, setting, before, deaths>>

Next ==
  \/ \E i \in Icons : SetCustomAppIcon(i)
  \/ SipsAndTouch \/ CopyFork \/ ClearBit \/ SetBit \/ RefreshDock
  \/ RemoveFile \/ DeleteAttribute \/ Die \/ Update

Spec == Init /\ [][Next]_vars

-----------------------------------------------------------------------------
Shown == Icons \union {NoIcon}
TypeOK ==
  /\ attr \in Attributes /\ file \in BOOLEAN /\ halfway \in BOOLEAN
  /\ fork \in Shown /\ dock \in Shown /\ setting \in Shown /\ before \in Shown
  /\ pc \in {"idle", "sips", "fork", "attribute", "bit", "dock", "delete"}
  /\ result \in Icons \union {Failed, Zero, Success, Failure}
  /\ temps \in Nat /\ deaths \in 0..MaxDeaths

\* A digest that a call returned is the current one, and that of the icon that the
\* system and the Dock show; a digest of 0 is a failure that left the fork as it
\* was; and when the icon was cleared none is shown and the digest is 0.
ResultIsCurrent ==
  pc = "idle" =>
    /\ result \in Icons => CurrentDigest = result /\ Displayed = result /\ dock = result
    /\ result = Zero => fork = before
    /\ result = Success => Displayed = NoIcon /\ CurrentDigest = Zero

\* The digest is that of what the system shows, 0 for no icon, but in the middle
\* of a call, and after one that ended between the writing of the fork and that
\* of the bit: an earlier bit may be set, or cleared, and is not asked for.
DigestIsDisplayed ==
  pc = "idle" /\ ~halfway /\ attr # "short" =>
    CurrentDigest = IF Displayed = NoIcon THEN Zero ELSE Displayed

\* No temporary file stays, but for the process dying.
TempsRemoved == temps <= deaths + (IF setting = NoIcon THEN 0 ELSE 1)
=============================================================================
