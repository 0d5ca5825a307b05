----------------------------- MODULE ProfileStore -----------------------------
(***************************************************************************)
(* CoffeeProfileStore (src/manager/coffee_profiles.cpp) as the manager     *)
(* uses it: a list in memory, profiles.ini, and the temporary file a save  *)
(* goes through.  Every change of the list is followed by a save, and the  *)
(* process may die between any two system calls of the save.               *)
(***************************************************************************)
EXTENDS Sequences, Integers, FiniteSets

CONSTANTS
  Typed,      \* names as a person types them
  Names,      \* the names among them that carry no surrounding blanks
  Blank,      \* the empty name
  Trim,       \* [Typed -> Names \cup {Blank}], trim()
  Paths,      \* paths of .rdp files
  NoLink,     \* a profile that is linked to no .rdp file
  Settings,   \* the other fields of a profile, taken together
  Hostless,   \* the settings among them whose host is empty
  Reread      \* [Settings -> Settings], the fields after a save and a load

ASSUME StoreAssumption ==
  /\ Names \subseteq Typed
  /\ Blank \notin Names
  /\ NoLink \notin Paths
  /\ Trim \in [Typed -> Names \cup {Blank}]
  /\ \A n \in Names : Trim[n] = n
  /\ Reread \in [Settings -> Settings]

VARIABLES
  profiles,   \* _profiles
  ini,        \* the list in profiles.ini, empty when the file is missing
  tmpThere,   \* profiles.ini.tmp exists
  tmp,        \* the list in it
  saving,     \* where save() is: SaveSteps
  dropped,    \* names deleted or renamed away since the process started
  blind       \* this process started without being able to read profiles.ini

storeVars == <<profiles, ini, tmpThere, tmp, saving, dropped, blind>>

(* "down" is no step of save(): no process runs. *)
SaveSteps == {"down", "idle", "open", "write", "chmod", "rename"}

Profile == [name : Names, link : Paths \cup {NoLink}, set : Settings]

NamesOf(list) == {list[i].name : i \in DOMAIN list}

Running == saving # "down"
--------------------------------------------------------------------------------
(* The operations on the list. *)

Find(list, name) == name \in NamesOf(list)

IndexOf(list, name) ==
  CHOOSE i \in DOMAIN list : /\ list[i].name = name
                             /\ \A j \in DOMAIN list : list[j].name = name => i <= j

(* A name, and somewhere to connect to. *)
Validate(typed, link, set) == Trim[typed] # Blank /\ (link # NoLink \/ set \notin Hostless)

\* Mutant: the name is kept as typed.
EntryAsTyped(typed, link, set) == [name |-> typed, link |-> link, set |-> set]

Entry(typed, link, set) == [name |-> Trim[typed], link |-> link, set |-> set]

CanAdd(list, typed, link, set) == Validate(typed, link, set) /\ ~Find(list, Trim[typed])

Added(list, entry) == Append(list, entry)

CanUpdate(list, original, typed, link, set) ==
  /\ Validate(typed, link, set)
  /\ Find(list, original)
  /\ Trim[typed] # original => ~Find(list, Trim[typed])

Updated(list, original, entry) == [list EXCEPT ![IndexOf(list, original)] = entry]

\* Mutant: everything behind the profile is erased with it.
RemovedToTheEnd(list, name) == SubSeq(list, 1, IndexOf(list, name) - 1)

Removed(list, name) ==
  LET k == IndexOf(list, name)
  IN  [i \in 1..(Len(list) - 1) |-> IF i < k THEN list[i] ELSE list[i + 1]]

(* load(): the text of every value comes back without surrounding blanks. *)
Reload(list) == [i \in DOMAIN list |-> [list[i] EXCEPT !.set = Reread[@]]]
--------------------------------------------------------------------------------
StoreInit ==
  /\ profiles = << >>
  /\ ini = << >>
  /\ tmpThere = FALSE
  /\ tmp = << >>
  /\ saving = "down"
  /\ dropped = {}
  /\ blind = FALSE

(* main(): a file that exists and cannot be read is reported and treated   *)
(* as an empty list.                                                       *)
Start(readable) ==
  /\ saving = "down"
  /\ profiles' = IF readable THEN Reload(ini) ELSE << >>
  /\ saving' = "idle"
  /\ dropped' = {}
  /\ blind' = ~readable
  /\ UNCHANGED <<ini, tmpThere, tmp>>

(* Each change of the list is followed by persist(). *)
AddProfile(typed, link, set) ==
  /\ saving = "idle"
  /\ CanAdd(profiles, typed, link, set)
  /\ profiles' = Added(profiles, Entry(typed, link, set))
  /\ dropped' = dropped \ {Trim[typed]}
  /\ saving' = "open"
  /\ UNCHANGED <<ini, tmpThere, tmp, blind>>

UpdateProfile(original, typed, link, set) ==
  /\ saving = "idle"
  /\ CanUpdate(profiles, original, typed, link, set)
  /\ profiles' = Updated(profiles, original, Entry(typed, link, set))
  /\ dropped' = (dropped \cup {original}) \ {Trim[typed]}
  /\ saving' = "open"
  /\ UNCHANGED <<ini, tmpThere, tmp, blind>>

RemoveProfile(name) ==
  /\ saving = "idle"
  /\ Find(profiles, name)
  /\ profiles' = Removed(profiles, name)
  /\ dropped' = dropped \cup {name}
  /\ saving' = "open"
  /\ UNCHANGED <<ini, tmpThere, tmp, blind>>

\* Mutant: the temporary file is opened for appending.
OpenTmpAppending ==
  /\ saving = "open"
  /\ tmpThere' = TRUE
  /\ saving' = "write"
  /\ UNCHANGED <<profiles, ini, tmp, dropped, blind>>

(* save(): the temporary file is opened truncated ... *)
OpenTmp ==
  /\ saving = "open"
  /\ tmpThere' = TRUE
  /\ tmp' = << >>
  /\ saving' = "write"
  /\ UNCHANGED <<profiles, ini, dropped, blind>>

(* ... written and flushed ... *)
WriteTmp ==
  /\ saving = "write"
  /\ tmp' = tmp \o profiles
  /\ saving' = "chmod"
  /\ UNCHANGED <<profiles, ini, tmpThere, dropped, blind>>

(* ... made private ... *)
ChmodTmp ==
  /\ saving = "chmod"
  /\ saving' = "rename"
  /\ UNCHANGED <<profiles, ini, tmpThere, tmp, dropped, blind>>

(* ... and renamed over profiles.ini. *)
RenameTmp ==
  /\ saving = "rename"
  /\ ini' = tmp
  /\ tmpThere' = FALSE
  /\ tmp' = << >>
  /\ saving' = "idle"
  /\ UNCHANGED <<profiles, dropped, blind>>

(* makeDirs() or the open fails: whatever temporary file there was stays.  *)
OpenFails ==
  /\ saving = "open"
  /\ saving' = "idle"
  /\ UNCHANGED <<profiles, ini, tmpThere, tmp, dropped, blind>>

(* A write, the chmod or the rename fails: the temporary file is removed,  *)
(* the change stays in memory and the person is told.                      *)
SaveFails ==
  /\ saving \in {"write", "chmod", "rename"}
  /\ tmpThere' = FALSE
  /\ tmp' = << >>
  /\ saving' = "idle"
  /\ UNCHANGED <<profiles, ini, dropped, blind>>

(* The process ends, in the middle of a save too. *)
Die ==
  /\ Running
  /\ profiles' = << >>
  /\ saving' = "down"
  /\ UNCHANGED <<ini, tmpThere, tmp, dropped, blind>>

SaveStep == OpenTmp \/ WriteTmp \/ ChmodTmp \/ RenameTmp \/ OpenFails \/ SaveFails

StoreNext ==
  \/ \E readable \in BOOLEAN : Start(readable)
  \/ \E typed \in Typed, link \in Paths \cup {NoLink}, set \in Settings :
       \/ AddProfile(typed, link, set)
       \/ \E original \in Names : UpdateProfile(original, typed, link, set)
  \/ \E name \in Names : RemoveProfile(name)
  \/ SaveStep
  \/ Die

StoreSpec == StoreInit /\ [][StoreNext]_storeVars
--------------------------------------------------------------------------------
StoreTypeOK ==
  /\ profiles \in Seq(Profile)
  /\ ini \in Seq(Profile)
  /\ tmpThere \in BOOLEAN
  /\ tmp \in Seq(Profile)
  /\ saving \in SaveSteps
  /\ dropped \subseteq Names
  /\ blind \in BOOLEAN

UniqueIn(list) == \A i, j \in DOMAIN list : list[i].name = list[j].name => i = j

(* find(), update() and remove() take the first profile of a name, and the *)
(* rows of the window know a profile by its name alone: no two profiles    *)
(* of the list or of the file may share one, after any sequence of         *)
(* additions, renames, deletions, failed saves, crashes and restarts.      *)
NamesUnique == UniqueIn(profiles) /\ UniqueIn(ini)

(* A process that could read profiles.ini never loses a profile of it: a   *)
(* name that is in the file and not in the list was deleted or renamed     *)
(* away in this process.  So no later save can drop a profile nobody       *)
(* touched, whichever saves failed in between.                             *)
NothingForgotten ==
  Running /\ ~blind => NamesOf(ini) \subseteq NamesOf(profiles) \cup dropped

(* The list is one a person can rely on: no name twice, no profile lost.   *)
ListKept == NamesUnique /\ NothingForgotten

Book == INSTANCE ProfileBook WITH book <- ini, view <- profiles, open <- Running,
                                  Reload <- Reload

(* "Writes atomically (temp file + rename)": profiles.ini only ever goes   *)
(* from one whole list to another, namely the one in memory.               *)
ImplementsBook == Book!BookSpec
================================================================================
