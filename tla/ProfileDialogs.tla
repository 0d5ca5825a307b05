---------------------------- MODULE ProfileDialogs ----------------------------
(***************************************************************************)
(* The manager window's work on profiles (src/manager/coffee_rdp_manager   *)
(* .cpp): the edit form, deleting, importing, exporting and dropping files,*)
(* over the profile store and the linked .rdp files.                       *)
(*                                                                         *)
(* Handlers run one at a time on GTK's main thread, so nothing interleaves *)
(* with a save but the end of the process.  A dialog blocks the rows and   *)
(* buttons under it; it does not block a drop, which the whole window      *)
(* takes.  Another program may rewrite a .rdp file at any time.            *)
(***************************************************************************)
EXTENDS ProfileStore, RdpDocument

CONSTANTS
  Values,         \* [ToSet(Fields) -> what the field may hold]
  OwnFields,      \* fields that reach the session by flags or its file scan
  Taken,          \* [SpinOrRef -> [values -> values]], the conversions of those rows
  Forms,          \* what a person may put in the form's settings
  Documents,      \* what another program may leave in a .rdp file
  FileName,       \* [Paths -> Typed], baseNameWithoutExt()
  Numbered,       \* [Typed -> Seq(Typed)], the name with " (2)", " (3)", ... behind it
  MaxForeign,     \* bound: how often another program writes a file
  MaxGestures,    \* bound: clicks, drops and changes of the form
  MaxFaults       \* bound: files that cannot be read or written, and process ends

VARIABLES
  file,           \* [Paths -> document], empty when the file is missing
  form,           \* the open edit dialog, or NoForm
  doomed,         \* the open delete dialog: its row's context, or NoRow
  chooser,        \* the open file dialog: "none", "import" or a profile's name
  committing,     \* onEditSave() has passed the .rdp file
  writer,         \* [Paths -> name of the profile that last set the file, or Unset]
  foreign, gestures, faults  \* the counters the bounds speak of

uiVars == <<file, form, doomed, chooser, committing, writer, foreign, gestures, faults>>
vars == <<storeVars, uiVars>>

Pending == "pending"   \* the file has been set and the store is asked next

NoForm == [original |-> Blank, name |-> Blank, link |-> NoLink, loaded |-> NoLink,
           set |-> FreshProfile, shown |-> FALSE]

NoRow == [name |-> Blank, alive |-> FALSE, shown |-> FALSE]

Free == saving = "idle" /\ ~committing

(* The fields whose rows change a value: a spin row brings a number within *)
(* its range, and Save takes a secret reference without its quotes.        *)
SpinOrRef == ToSet(Fields) \cap {"port", "idle", "opref"}

(* populateFields(), qualityIndex() and what onEditSave() then takes from  *)
(* the rows: the combo shows a preset it does not know as "Default", which *)
(* is saved as no preset.                                                  *)
RowValue(f, value) ==
  CASE f = "quality" -> IF value \in Presets THEN value ELSE Empty
    [] f \in SpinOrRef -> Taken[f][value]
    [] OTHER -> value

InRows(set) == [f \in DOMAIN set |-> RowValue(f, set[f])]

(* What the rows of the form can hold. *)
FormSettings == {set \in Settings : InRows(set) = set}

(* A line of a .rdp file: the value of a field is one the field may hold.  *)
Lines == {line \in [key : ToSet(Fields) \cup {"perf", Other}, type : {"s", "i"}, value : STRING] :
            /\ line.value # Unset
            /\ line.key \in ToSet(Fields) => line.value \in Values[line.key]}

(* Where the session's scan, which looks for lines of type s, finds a key, *)
(* it finds what the manager reads, which looks at the first line.         *)
ScansAgree(doc) == \A f \in OwnFields : ScanKey(doc, f) \in {Unset, GetValue(doc, f)}

(* Every field holds one of its values, whether it is typed, read from a   *)
(* file, split off an address or told from the performance keys.           *)
ASSUME ValuesAssumption ==
  /\ Settings = {set \in [ToSet(Fields) -> UNION {Values[f] : f \in ToSet(Fields)}] :
                   \A f \in ToSet(Fields) : set[f] \in Values[f]}
  /\ \A f \in ToSet(Fields) : Initially[f] \in Values[f] /\ Values[f] \subseteq STRING \ {Unset}
  /\ \A f \in ToSet(Fields) \cap {"shortcuts", "cert"} : Values[f] \subseteq {"0", "1"}
  /\ "quality" \in ToSet(Fields) => Presets \subseteq Values["quality"]
  /\ \A a \in Values["address"] :
       /\ HostIn(a) \in Values["address"]
       /\ "port" \in ToSet(Fields) /\ PortIn(a) # Unset => PortIn(a) \in Values["port"]

(* A row keeps a value it has converted, and the initial one: no reference *)
(* is in two pairs of quotes.                                              *)
ASSUME RowsAssumption ==
  \A f \in SpinOrRef :
    /\ Taken[f][Initially[f]] = Initially[f]
    /\ \A v \in Values[f] : Taken[f][v] \in Values[f] /\ Taken[f][Taken[f][v]] = Taken[f][v]

(* The bounds, and the two readers of a field: a save and a load change no *)
(* field the session is told of.                                           *)
ASSUME DialogsAssumption ==
  /\ Names \cap {Unset, Pending, "import"} = {}
  /\ Blank \in Typed
  /\ FileName \in [Paths -> Typed]
  /\ Numbered \in [Typed -> Seq(Typed)]
  /\ OwnFields \subseteq ToSet(Fields) \cap {"quality", "shortcuts", "cert"}
  /\ \A set \in Settings, f \in OwnFields : Reread[set][f] = set[f]
  /\ Forms \subseteq FormSettings
  /\ Documents \subseteq Seq(Lines)

(* No dialog of the window is open. *)
Idle == Free /\ ~form.shown /\ ~doomed.shown /\ chooser = Unset

counters == <<foreign, gestures, faults>>

Gesture == gestures < MaxGestures /\ gestures' = gestures + 1 /\ UNCHANGED <<foreign, faults>>

Fault == faults < MaxFaults /\ faults' = faults + 1 /\ UNCHANGED <<foreign, gestures>>

FaultUnless(works) == IF works THEN UNCHANGED faults ELSE faults < MaxFaults /\ faults' = faults + 1

Init ==
  /\ StoreInit
  /\ file \in [Paths -> Documents]
  /\ form = NoForm
  /\ doomed = NoRow
  /\ chooser = Unset
  /\ committing = FALSE
  /\ writer = [f \in Paths |-> Unset]
  /\ foreign = 0 /\ gestures = 0 /\ faults = 0
--------------------------------------------------------------------------------
(* The edit form. *)

(* onRdpPathChanged(): a new path to a readable file fills every field from *)
(* it, starting from a fresh profile; any other path leaves them alone.     *)
PathChanged(f, path, readable) ==
  LET filled == path # NoLink /\ path # f.loaded /\ file[path] # << >> /\ readable
  IN  [f EXCEPT !.link = path,
                !.set = IF filled THEN InRows(ToProfile(file[path], FreshProfile)) ELSE @,
                !.loaded = IF filled \/ path = @ THEN path ELSE NoLink]

(* presentEditDialog() *)
Present(original, name, link, set, readable) ==
  PathChanged([original |-> original, name |-> name, link |-> NoLink, loaded |-> NoLink,
               set |-> InRows(set), shown |-> TRUE], link, readable)

OnAddClicked ==
  /\ Idle /\ Gesture
  /\ form' = Present(Blank, Blank, NoLink, FreshProfile, TRUE)
  /\ UNCHANGED <<storeVars, file, doomed, chooser, committing, writer>>

OnEditClicked(i, readable) ==
  /\ Idle /\ gestures < MaxGestures /\ gestures' = gestures + 1 /\ FaultUnless(readable)
  /\ LET p == profiles[i] IN form' = Present(p.name, p.name, p.link, p.set, readable)
  /\ UNCHANGED <<storeVars, file, doomed, chooser, committing, writer, foreign>>

(* The person changes the name, the fields, or the path. *)
EditForm(changed) ==
  /\ Free /\ form.shown /\ Gesture
  /\ form' = changed
  /\ UNCHANGED <<storeVars, file, doomed, chooser, committing, writer>>

ChangeName(typed) == EditForm([form EXCEPT !.name = typed])

ChangeFields(set) == EditForm([form EXCEPT !.set = set])

ChangePath(path) == EditForm(PathChanged(form, path, TRUE))

CancelForm ==
  /\ Free /\ form.shown
  /\ form' = NoForm
  /\ UNCHANGED <<storeVars, file, doomed, chooser, committing, writer, counters>>

(* CoffeeRdpDocument::save(): by a temporary file and rename(), so that    *)
(* the path holds the old document or the new one.                         *)
Replaced(path, doc) == [file EXCEPT ![path] = doc]

(* onEditSave(): after validate(), the linked file is read, merged and     *)
(* replaced; a file that cannot be read or written ends the handler.       *)
SaveToFile ==
  /\ Free /\ form.shown /\ Validate(form.name, form.link, form.set)
  /\ file' = IF form.link = NoLink THEN file
             ELSE Replaced(form.link, FromProfile(form.set, file[form.link]))
  /\ writer' = IF form.link = NoLink THEN writer ELSE [writer EXCEPT ![form.link] = Pending]
  /\ committing' = TRUE
  /\ UNCHANGED <<storeVars, form, doomed, chooser, counters>>

(* Then the store takes the profile ... *)
SaveToStore ==
  /\ committing
  /\ IF form.original = Blank
     THEN AddProfile(form.name, form.link, form.set)
     ELSE UpdateProfile(form.original, form.name, form.link, form.set)
  /\ writer' = [f \in Paths |-> IF writer[f] = Pending THEN Trim[form.name] ELSE writer[f]]
  /\ form' = NoForm
  /\ committing' = FALSE
  /\ UNCHANGED <<file, doomed, chooser, counters>>

(* ... or refuses it, and the form stays open. *)
StoreRefuses ==
  /\ committing
  /\ IF form.original = Blank
     THEN ~CanAdd(profiles, form.name, form.link, form.set)
     ELSE ~CanUpdate(profiles, form.original, form.name, form.link, form.set)
  /\ writer' = [f \in Paths |-> IF writer[f] = Pending THEN Unset ELSE writer[f]]
  /\ committing' = FALSE
  /\ UNCHANGED <<storeVars, file, form, doomed, chooser, counters>>
--------------------------------------------------------------------------------
(* Rows.  refreshList(), which ends every save, destroys all rows and with *)
(* them the contexts their buttons were connected with.                    *)

RefreshList == doomed' = [doomed EXCEPT !.alive = FALSE]

SaveWorks ==
  /\ OpenTmp \/ WriteTmp \/ ChmodTmp
  /\ UNCHANGED uiVars

SaveEnds ==
  /\ \/ RenameTmp /\ UNCHANGED counters
     \/ (OpenFails \/ SaveFails) /\ Fault
  /\ RefreshList
  /\ UNCHANGED <<file, form, chooser, committing, writer>>

OnDeleteClicked(i) ==
  /\ Idle /\ Gesture
  /\ doomed' = [name |-> profiles[i].name, alive |-> TRUE, shown |-> TRUE]
  /\ UNCHANGED <<storeVars, file, form, chooser, committing, writer>>

(* onDeleteConfirmed() reads the name from the row's context.  A context   *)
(* refreshList() has freed may hold the name of any row made since, whose  *)
(* context took its place in memory, or something that is no name.         *)
NameInContext == IF doomed.alive THEN {doomed.name} ELSE NamesOf(profiles) \cup {doomed.name}

OnDeleteConfirmed(name) ==
  /\ doomed.shown
  /\ name \in NameInContext
  /\ RemoveProfile(name)
  /\ doomed' = NoRow
  /\ UNCHANGED <<file, form, chooser, committing, writer, counters>>

OnDeleteCancelled ==
  /\ Free /\ doomed.shown
  /\ doomed' = NoRow
  /\ UNCHANGED <<storeVars, file, form, chooser, committing, writer, counters>>
--------------------------------------------------------------------------------
(* Import, export and drop. *)

(* suggestProfileName(): the first free name, or the taken one, which the  *)
(* store will refuse.                                                      *)
SuggestedName(base) ==
  LET candidates == <<base>> \o Numbered[base]
      isFree(i)  == ~Find(profiles, candidates[i])
  IN  IF \E i \in DOMAIN candidates : isFree(i)
      THEN candidates[CHOOSE i \in DOMAIN candidates :
                        isFree(i) /\ \A j \in 1..(i - 1) : ~isFree(j)]
      ELSE base

(* A file dialog opens, for an import or to export the profile of a name. *)
Choose(purpose) ==
  /\ Idle /\ Gesture
  /\ chooser' = purpose
  /\ UNCHANGED <<storeVars, file, form, doomed, committing, writer>>

OnImportClicked == Choose("import")

OnExportClicked(i) == Choose(profiles[i].name)

ChooserDismissed ==
  /\ Free /\ chooser # Unset
  /\ chooser' = Unset
  /\ UNCHANGED <<storeVars, file, form, doomed, committing, writer, counters>>

(* A file that exists.  The form opens on the file's own values; nothing   *)
(* is added yet.                                                           *)
OnImportFileChosen(path) ==
  /\ Free /\ chooser = "import" /\ file[path] # << >>
  /\ chooser' = Unset
  /\ form' = Present(Blank, SuggestedName(FileName[path]), path,
                     ToProfile(file[path], FreshProfile), TRUE)
  /\ UNCHANGED <<storeVars, file, doomed, committing, writer, counters>>

(* The profile is looked up by name when the file has been chosen. *)
OnExportFileChosen(path) ==
  /\ Free /\ chooser \notin {Unset, "import"}
  /\ chooser' = Unset
  /\ IF Find(profiles, chooser)
     THEN /\ file' = Replaced(path, FromProfile(profiles[IndexOf(profiles, chooser)].set,
                                                file[path]))
          /\ writer' = [writer EXCEPT ![path] = Unset]
     ELSE UNCHANGED <<file, writer>>
  /\ UNCHANGED <<storeVars, form, doomed, committing, counters>>

(* onWindowDrop(): the file's profile is added at once, under any dialog.  *)
(* A name the store refuses skips the file.  A file in which the session   *)
(* finds another line than the manager has set nothing the profile shows.  *)
OnWindowDrop(path) ==
  /\ ~committing /\ file[path] # << >> /\ Gesture
  /\ AddProfile(SuggestedName(FileName[path]), path, ToProfile(file[path], FreshProfile))
  /\ writer' = [writer EXCEPT ![path] = IF ScansAgree(file[path])
                                         THEN Trim[SuggestedName(FileName[path])]
                                         ELSE Unset]
  /\ UNCHANGED <<file, form, doomed, chooser, committing>>
--------------------------------------------------------------------------------
(* Another program writes the file. *)
ForeignWrite(path, doc) ==
  /\ foreign < MaxForeign
  /\ file' = [file EXCEPT ![path] = doc]
  /\ writer' = [writer EXCEPT ![path] = Unset]
  /\ foreign' = foreign + 1
  /\ UNCHANGED <<storeVars, form, doomed, chooser, committing, gestures, faults>>

StartManager(readable) ==
  /\ Start(readable)
  /\ FaultUnless(readable)
  /\ UNCHANGED <<file, form, doomed, chooser, committing, writer, foreign, gestures>>

Exit ==
  /\ Die /\ Fault
  /\ form' = NoForm /\ doomed' = NoRow /\ chooser' = Unset /\ committing' = FALSE
  /\ writer' = [f \in Paths |-> IF ini = profiles /\ writer[f] # Pending THEN writer[f] ELSE Unset]
  /\ UNCHANGED file

Next ==
  \/ \E readable \in BOOLEAN : StartManager(readable)
  \/ OnAddClicked
  \/ \E i \in DOMAIN profiles, readable \in BOOLEAN : OnEditClicked(i, readable)
  \/ \E typed \in Typed : ChangeName(typed)
  \/ \E set \in Forms : ChangeFields(set)
  \/ \E path \in Paths \cup {NoLink} : ChangePath(path)
  \/ CancelForm
  \/ SaveToFile
  \/ SaveToStore
  \/ StoreRefuses
  \/ SaveWorks
  \/ SaveEnds
  \/ \E i \in DOMAIN profiles : OnDeleteClicked(i) \/ OnExportClicked(i)
  \/ \E name \in Names : OnDeleteConfirmed(name)
  \/ OnDeleteCancelled
  \/ OnImportClicked
  \/ ChooserDismissed
  \/ \E path \in Paths :
       \/ OnImportFileChosen(path)
       \/ OnExportFileChosen(path)
       \/ OnWindowDrop(path)
       \/ \E doc \in Documents : ForeignWrite(path, doc)
  \/ Exit

Spec == Init /\ [][Next]_vars
--------------------------------------------------------------------------------
TypeOK ==
  /\ StoreTypeOK
  /\ file \in [Paths -> Seq(Lines)]
  /\ form \in [original : Names \cup {Blank}, name : Typed, link : Paths \cup {NoLink},
              loaded : Paths \cup {NoLink}, set : FormSettings, shown : BOOLEAN]
  /\ doomed \in [name : Names \cup {Blank}, alive : BOOLEAN, shown : BOOLEAN]
  /\ committing \in BOOLEAN
  /\ chooser \in Names \cup {Unset, "import"}
  /\ writer \in [Paths -> Names \cup {Unset, Pending}]
  /\ foreign \in Nat /\ gestures \in Nat /\ faults \in Nat

(* What a profile's own Save, or the drop that made it, left in its linked *)
(* file agrees with the profile: a session started from it runs with the   *)
(* values the profile shows, whether they reach it as flags or out of the  *)
(* file, and whatever lines the file had before.  Only another program,    *)
(* another profile linked to the file, an export onto it, a refused save,  *)
(* a crash before profiles.ini was replaced or a drop of a file in which   *)
(* the session finds another line than the manager can part the two.       *)
LinkedInStep ==
  ~committing =>
    \A i \in DOMAIN profiles :
      LET p == profiles[i]
      IN  p.link # NoLink /\ writer[p.link] = p.name =>
            \A f \in OwnFields :
              SessionValue(SessionArgs(p.set), file[p.link], f) = AskedFor(p.set, f)

OthersOf(doc) == Select(doc, LinesOf(doc, Other))

(* "preserving every line it doesn't understand, verbatim and in order":   *)
(* no handler of the manager, save, export or import, touches such a line. *)
OthersKept ==
  [][foreign' = foreign => \A f \in Paths : OthersOf(file'[f]) = OthersOf(file[f])]_vars

(* The rows of a form opened on a file just saved hold what was saved from *)
(* them, whatever the file had before.  Excepted are an empty preset, which*)
(* comes back as the one the standard keys tell, if any; an emptied key    *)
(* combination, which comes back as the default's; and an address typed    *)
(* with its port, which comes back as the two.                             *)
ShownAsSaved ==
  [][committing' /\ ~committing /\ form.link # NoLink
       /\ HostIn(form.set["address"]) = form.set["address"] =>
       LET saved == file'[form.link]
           shown == InRows(ToProfile(saved, FreshProfile))
       IN  \A f \in DOMAIN shown :
             \/ shown[f] = form.set[f]
             \/ form.set[f] = Empty /\ f = "quality" /\ shown[f] = InferQuality(saved)
             \/ form.set[f] = Empty /\ f = "combo" /\ shown[f] = Initially[f]]_vars

(* The delete dialog says which profile will be removed: no other one is.  *)
DeletesTheNamed ==
  [][doomed.shown /\ ~doomed'.shown /\ Running' =>
       NamesOf(profiles) \ NamesOf(profiles') \subseteq {doomed.name}]_vars

(* Of a file without a preset: "the file's own standard keys still apply   *)
(* through FreeRDP's parser".  The session applies its default over them.  *)
FileKeysApply ==
  \A i \in DOMAIN profiles :
    LET p == profiles[i]
    IN  p.link # NoLink /\ p.set["quality"] = Empty /\ InferQuality(file[p.link]) # Empty =>
          SessionValue(SessionArgs(p.set), file[p.link], "quality") = InferQuality(file[p.link])
================================================================================
