--------------------------- MODULE SystemSettings ---------------------------
(***************************************************************************)
(* The settings and the log of their revisions                             *)
(* (system-settings.service.ts).  update and remove read the row, then     *)
(* write it where it has the version the administrator saw; the            *)
(* transaction does not lock what it read.  The key of the online-order    *)
(* intake, refused here, is no member of Settings.                         *)
(***************************************************************************)
EXTENDS Integers, Sequences

CONSTANTS Settings, SystemOwned, Administrators,
          SettingValues,  \* pairs of a type and a value
          MaxVersion      \* bound: revisions of one setting

VARIABLES setting,   \* the SystemSetting rows
          revisions, \* the SystemSettingRevision rows of each
          view,      \* what each administrator's screen shows
          change     \* the change each administrator's request is making

vars == <<setting, revisions, view, change>>

Nothing == <<"none", 0>>
NoSetting == [row |-> "NONE", value |-> Nothing, version |-> 0]
NoView == [key |-> "none", version |-> 0]
NoChange == [kind |-> "none", key |-> "none", expected |-> 0, value |-> Nothing, read |-> NoSetting]

SettingTypeOK ==
  /\ setting \in [Settings -> [row : {"NONE", "LIVE", "DELETED"},
                               value : SettingValues \cup {Nothing}, version : 0..MaxVersion]]
  /\ \A a \in Administrators : /\ view[a].key \in Settings \cup {"none"}
                               /\ change[a].kind \in {"none", "update", "remove"}

Init ==
  /\ setting \in [Settings -> {NoSetting} \cup
       [row : {"LIVE"}, value : SettingValues, version : {1}]]
  /\ \A k \in Settings : setting[k].row = "LIVE" <=> k \in SystemOwned
  /\ revisions = [k \in Settings |->
       IF k \in SystemOwned THEN <<[value |-> setting[k].value, deleted |-> FALSE]>> ELSE <<>>]
  /\ view = [a \in Administrators |-> NoView]
  /\ change = [a \in Administrators |-> NoChange]

-----------------------------------------------------------------------------
\* createRevision; (settingId, version) is unique, so that a second row for a
\* version would fail the transaction.
CreateRevision(k, value, deleted) ==
  revisions' = [revisions EXCEPT ![k] = Append(@, [value |-> value, deleted |-> deleted])]

\* The key of a setting that was removed stays taken.
CreateSetting(k, value) ==
  /\ setting[k].row = "NONE"
  /\ setting' = [setting EXCEPT ![k] = [row |-> "LIVE", value |-> value, version |-> 1]]
  /\ CreateRevision(k, value, FALSE)
  /\ UNCHANGED <<view, change>>

ViewSetting(a, k) ==
  /\ setting[k].row = "LIVE"
  /\ view' = [view EXCEPT ![a] = [key |-> k, version |-> setting[k].version]]
  /\ UNCHANGED <<setting, revisions, change>>

\* update or remove up to its write: a value must have the type of the row.
ReadSetting(a, kind, value) ==
  LET k == view[a].key IN
  /\ k # "none" /\ change[a].kind = "none" /\ setting[k].row = "LIVE"
  /\ kind = "update" => value[1] = setting[k].value[1]
  /\ kind = "remove" => k \notin SystemOwned /\ value = Nothing
  /\ change' = [change EXCEPT ![a] =
       [kind |-> kind, key |-> k, expected |-> view[a].version, value |-> value,
        read |-> setting[k]]]
  /\ UNCHANGED <<setting, revisions, view>>

\* Mutant: a row that was changed since is overwritten.
NotOlder(c) == setting[c.key].row = "LIVE" /\ setting[c.key].version >= c.expected
AsExpected(c) == setting[c.key].row = "LIVE" /\ setting[c.key].version = c.expected

\* The write and the revision: of the row as written for an update, of the
\* row as it was read for a removal.
WriteSetting(a) ==
  LET c == change[a] IN
  /\ c.kind # "none"
  /\ \/ /\ AsExpected(c) /\ c.expected < MaxVersion
        /\ IF c.kind = "update"
           THEN /\ setting' = [setting EXCEPT ![c.key].value = c.value, ![c.key].version = @ + 1]
                /\ CreateRevision(c.key, c.value, FALSE)
           ELSE /\ setting' = [setting EXCEPT ![c.key].row = "DELETED", ![c.key].version = @ + 1]
                /\ CreateRevision(c.key, c.read.value, TRUE)
     \/ ~AsExpected(c) /\ UNCHANGED <<setting, revisions>>
  /\ change' = [change EXCEPT ![a] = NoChange]
  /\ UNCHANGED view

Next ==
  \/ \E k \in Settings, value \in SettingValues : CreateSetting(k, value)
  \/ \E a \in Administrators, k \in Settings : ViewSetting(a, k)
  \/ \E a \in Administrators, value \in SettingValues : ReadSetting(a, "update", value)
  \/ \E a \in Administrators : ReadSetting(a, "remove", Nothing) \/ WriteSetting(a)

Spec == Init /\ [][Next]_vars

-----------------------------------------------------------------------------
\* The log has one revision for each version of a setting, in order, and the
\* last one is the row: whoever reads the log knows every value the setting
\* had, the one it was removed with included.  A setting keeps its type, and
\* the settings the system relies on stay.
RevisionsTellAll ==
  /\ SettingTypeOK
  /\ \A k \in Settings :
       LET n == setting[k].version  log == revisions[k] IN
       /\ Len(log) = n
       /\ n > 0 => /\ log[n].value = setting[k].value
                   /\ log[n].deleted <=> setting[k].row = "DELETED"
       /\ \A m \in DOMAIN log : /\ log[m].value[1] = log[1].value[1]
                                /\ log[m].deleted => m = n
  /\ \A k \in SystemOwned : setting[k].row = "LIVE"

\* A setting is changed only by an administrator whose screen showed it as it
\* stood, and a removed one stays removed.
ChangesSeen ==
  \A k \in Settings : setting[k].row # "NONE" /\ setting'[k] # setting[k] =>
    /\ setting[k].row = "LIVE"
    /\ \E a \in Administrators :
         change[a].key = k /\ change[a].expected = setting[k].version
=============================================================================
