----------------------------- MODULE ProfileProofs -----------------------------
(***************************************************************************)
(* What the profile store keeps through every sequence of dialogs, drops,  *)
(* failed saves, process ends and restarts, for any names, files, settings *)
(* and bounds.  A rename or deletion finds the profile it is about because *)
(* names are unique; profiles.ini is only replaced by the list in memory   *)
(* because the temporary file, once it has been written, is that list.     *)
(***************************************************************************)
EXTENDS ProfileDialogs, NaturalsInduction, WellFoundedInduction, TLAPS

(* A list of profiles, whatever its names, links and settings are. *)
Elements(list) == {list[i] : i \in DOMAIN list}

IsProfile(p) == p = [name |-> p.name, link |-> p.link, set |-> p.set]

IsList(list) == /\ list \in Seq(Elements(list))
                /\ \A i \in DOMAIN list : IsProfile(list[i])

Lists == IsList(profiles) /\ IsList(ini) /\ IsList(tmp)

(* The temporary file of a save that has been written is the list; before  *)
(* it is empty.                                                            *)
TmpIsView ==
  /\ saving = "write" => tmp = << >>
  /\ saving \in {"chmod", "rename"} => tmp = profiles

DownIsEmpty == saving = "down" => profiles = << >>

IInv == Lists /\ TmpIsView /\ DownIsEmpty /\ NamesUnique /\ NothingForgotten
--------------------------------------------------------------------------------
(* The operations on a list. *)

LEMMA EmptyList == IsList(<< >>) /\ UniqueIn(<< >>) /\ NamesOf(<< >>) = {}
BY DEF IsList, Elements, UniqueIn, NamesOf

LEMMA AddedList ==
  ASSUME NEW list, IsList(list), NEW p, IsProfile(p)
  PROVE  /\ IsList(Added(list, p))
         /\ NamesOf(Added(list, p)) = NamesOf(list) \cup {p.name}
         /\ UniqueIn(list) /\ ~Find(list, p.name) => UniqueIn(Added(list, p))
<1> DEFINE S == Elements(list) \cup {p}
           new == Append(list, p)
<1>1. list \in Seq(S)
  BY DEF IsList
<1>2. /\ new \in Seq(S) /\ DOMAIN new = 1..(Len(list) + 1) /\ DOMAIN list = 1..Len(list)
      /\ Len(list) \in Nat
      /\ \A i \in 1..Len(list) : new[i] = list[i]
      /\ new[Len(list) + 1] = p
  BY <1>1
<1> HIDE DEF new
<1>3. new \in Seq(Elements(new))
  BY <1>2 DEF Elements
<1>4. \A i \in DOMAIN new : IsProfile(new[i])
  BY <1>2 DEF IsList
<1>5. NamesOf(new) = NamesOf(list) \cup {p.name}
  BY <1>2 DEF NamesOf
<1>6. ASSUME UniqueIn(list), ~Find(list, p.name) PROVE UniqueIn(new)
  <2>1. \A i \in 1..Len(list) : new[i].name # p.name
    BY <1>2, <1>6 DEF Find, NamesOf
  <2>. QED BY <1>2, <1>6, <2>1 DEF UniqueIn
<1>. QED BY <1>3, <1>4, <1>5, <1>6 DEF IsList, Added, new

(* With unique names the profile of a name has one place. *)
LEMMA PlaceOfName ==
  ASSUME NEW list, IsList(list), UniqueIn(list), NEW name, Find(list, name)
  PROVE  /\ IndexOf(list, name) \in DOMAIN list
         /\ list[IndexOf(list, name)].name = name
         /\ \A i \in DOMAIN list : list[i].name = name => i = IndexOf(list, name)
<1>1. DOMAIN list = 1..Len(list) /\ Len(list) \in Nat
  BY DEF IsList
<1>2. PICK k \in DOMAIN list : list[k].name = name
  BY DEF Find, NamesOf
<1>3. \A j \in DOMAIN list : list[j].name = name => k = j
  BY <1>2 DEF UniqueIn
<1>4. \E i \in DOMAIN list : /\ list[i].name = name
                             /\ \A j \in DOMAIN list : list[j].name = name => i <= j
  BY <1>1, <1>2, <1>3
<1>. QED BY <1>4, <1>2, <1>3 DEF IndexOf

LEMMA UpdatedList ==
  ASSUME NEW list, IsList(list), UniqueIn(list), NEW name, Find(list, name),
         NEW p, IsProfile(p)
  PROVE  /\ IsList(Updated(list, name, p))
         /\ NamesOf(Updated(list, name, p)) = (NamesOf(list) \ {name}) \cup {p.name}
         /\ (p.name # name => ~Find(list, p.name)) => UniqueIn(Updated(list, name, p))
<1> DEFINE k == IndexOf(list, name)
           new == [list EXCEPT ![k] = p]
           S == Elements(list) \cup {p}
<1>1. /\ k \in DOMAIN list /\ list[k].name = name
      /\ \A i \in DOMAIN list : list[i].name = name => i = k
  BY PlaceOfName
<1>2. list \in Seq(S) /\ DOMAIN list = 1..Len(list) /\ Len(list) \in Nat
  BY DEF IsList
<1> HIDE DEF k
<1>3. /\ new \in Seq(S) /\ DOMAIN new = DOMAIN list /\ new[k] = p
      /\ \A i \in DOMAIN list : i # k => new[i] = list[i]
  BY <1>1, <1>2
<1> HIDE DEF new
<1>4. new \in Seq(Elements(new))
  BY <1>2, <1>3 DEF Elements
<1>5. \A i \in DOMAIN new : IsProfile(new[i])
  BY <1>3 DEF IsList
<1>6. NamesOf(new) = (NamesOf(list) \ {name}) \cup {p.name}
  BY <1>1, <1>3 DEF NamesOf
<1>7. ASSUME p.name # name => ~Find(list, p.name) PROVE UniqueIn(new)
  <2>1. \A i \in DOMAIN list : i # k => new[i].name # p.name
    BY <1>1, <1>3, <1>7 DEF Find, NamesOf
  <2>2. \A i, j \in DOMAIN list : i # k /\ j # k /\ new[i].name = new[j].name => i = j
    BY <1>3 DEF UniqueIn
  <2>. QED BY <1>3, <2>1, <2>2 DEF UniqueIn
<1>. QED BY <1>4, <1>5, <1>6, <1>7 DEF IsList, Updated, new, k

LEMMA RemovedList ==
  ASSUME NEW list, IsList(list), UniqueIn(list), NEW name, Find(list, name)
  PROVE  /\ IsList(Removed(list, name))
         /\ NamesOf(Removed(list, name)) = NamesOf(list) \ {name}
         /\ UniqueIn(Removed(list, name))
<1> DEFINE k == IndexOf(list, name)
           old(i) == IF i < k THEN i ELSE i + 1
           new == [i \in 1..(Len(list) - 1) |-> IF i < k THEN list[i] ELSE list[i + 1]]
<1>1. /\ k \in DOMAIN list /\ list[k].name = name
      /\ \A i \in DOMAIN list : list[i].name = name => i = k
  BY PlaceOfName
<1>2. DOMAIN list = 1..Len(list) /\ Len(list) \in Nat
  BY DEF IsList
<1> HIDE DEF k
<1>3. Len(list) - 1 \in Nat /\ k \in 1..Len(list)
  BY <1>1, <1>2
<1>4. \A i \in 1..(Len(list) - 1) : old(i) \in DOMAIN list /\ old(i) # k /\ new[i] = list[old(i)]
  BY <1>2, <1>3
<1>5. \A j \in DOMAIN list : j # k => \E i \in 1..(Len(list) - 1) : old(i) = j
  <2> SUFFICES ASSUME NEW j \in DOMAIN list, j # k
               PROVE  \E i \in 1..(Len(list) - 1) : old(i) = j
      OBVIOUS
  <2>1. CASE j < k
    BY <2>1, <1>2, <1>3
  <2>2. CASE j > k
    <3>1. j - 1 \in 1..(Len(list) - 1) /\ old(j - 1) = j
      BY <2>2, <1>2, <1>3
    <3>. QED BY <3>1
  <2>. QED BY <2>1, <2>2, <1>2, <1>3
<1>6. \A i, j \in 1..(Len(list) - 1) : old(i) = old(j) => i = j
  BY <1>3
<1>7. DOMAIN new = 1..(Len(list) - 1)
  OBVIOUS
<1> HIDE DEF new, old
<1>8. \A i \in DOMAIN new : IsProfile(new[i])
  BY <1>4, <1>7 DEF IsList
<1>9. NamesOf(new) = NamesOf(list) \ {name}
  <2>1. ASSUME NEW i \in DOMAIN new PROVE new[i].name \in NamesOf(list) \ {name}
    BY <2>1, <1>1, <1>4, <1>7 DEF NamesOf
  <2>2. ASSUME NEW j \in DOMAIN list, list[j].name # name
        PROVE  \E i \in DOMAIN new : new[i].name = list[j].name
    BY <2>2, <1>1, <1>4, <1>5, <1>7
  <2>. QED BY <2>1, <2>2 DEF NamesOf
<1>10. UniqueIn(new)
  BY <1>4, <1>6, <1>7 DEF UniqueIn
<1>11. new \in Seq(Elements(new))
  <2>1. \A i \in 1..(Len(list) - 1) : new[i] \in Elements(new)
    BY <1>7 DEF Elements
  <2>2. new = [i \in 1..(Len(list) - 1) |-> new[i]]
    BY DEF new
  <2>. QED BY <1>3, <2>1, <2>2
<1>. QED BY <1>8, <1>9, <1>10, <1>11 DEF IsList, Removed, new, k

LEMMA ReloadedList ==
  ASSUME NEW list, IsList(list)
  PROVE  /\ IsList(Reload(list))
         /\ NamesOf(Reload(list)) = NamesOf(list)
         /\ UniqueIn(list) => UniqueIn(Reload(list))
<1> DEFINE new == Reload(list)
<1>1. DOMAIN list = 1..Len(list) /\ Len(list) \in Nat
  BY DEF IsList
<1>2. DOMAIN new = DOMAIN list
  BY DEF Reload
<1>3. ASSUME NEW i \in DOMAIN list PROVE IsProfile(new[i]) /\ new[i].name = list[i].name
  <2>1. new[i] = [list[i] EXCEPT !.set = Reread[@]]
    BY DEF Reload
  <2>2. list[i] = [name |-> list[i].name, link |-> list[i].link, set |-> list[i].set]
    BY DEF IsList, IsProfile
  <2>3. new[i] = [name |-> list[i].name, link |-> list[i].link, set |-> Reread[list[i].set]]
    BY <2>1, <2>2
  <2>. QED BY <2>3 DEF IsProfile
<1>4. new \in Seq(Elements(new))
  BY <1>1 DEF Reload, Elements
<1> HIDE DEF new
<1>5. NamesOf(new) = NamesOf(list)
  BY <1>2, <1>3 DEF NamesOf
<1>6. UniqueIn(list) => UniqueIn(new)
  BY <1>2, <1>3 DEF UniqueIn
<1>. QED BY <1>2, <1>3, <1>4, <1>5, <1>6 DEF IsList, new
--------------------------------------------------------------------------------
(* The actions of the store.  Each lemma also says what the step is for    *)
(* somebody who only knows ProfileBook.                                    *)

BookStep == [Book!BookNext]_(Book!bookVars)

LEMMA SetOfEntries ==
  ASSUME NEW typed, NEW link, NEW set
  PROVE  IsProfile(Entry(typed, link, set)) /\ Entry(typed, link, set).name = Trim[typed]
BY DEF IsProfile, Entry

LEMMA StartKeeps ==
  ASSUME IInv, NEW readable \in BOOLEAN, Start(readable)
  PROVE  IInv' /\ BookStep
<1> USE DEF IInv
<1>1. /\ saving = "down" /\ saving' = "idle" /\ dropped' = {} /\ blind' = ~readable
      /\ UNCHANGED <<ini, tmpThere, tmp>>
  BY DEF Start
<1>2. /\ readable => profiles' = Reload(ini)
      /\ ~readable => profiles' = << >>
  BY DEF Start
<1>3. Lists'
  BY <1>1, <1>2, EmptyList, ReloadedList DEF Lists
<1>4. TmpIsView' /\ DownIsEmpty'
  BY <1>1 DEF TmpIsView, DownIsEmpty
<1>5. NamesUnique'
  BY <1>1, <1>2, EmptyList, ReloadedList DEF Lists, NamesUnique
<1>6. NothingForgotten'
  BY <1>1, <1>2, ReloadedList DEF Lists, NothingForgotten, Running
<1>7. BookStep
  <2>1. Book!Rise
    BY <1>1, <1>2 DEF Book!Rise, Running
  <2>. QED BY <2>1 DEF BookStep, Book!BookNext
<1>. QED BY <1>3, <1>4, <1>5, <1>6, <1>7

(* A step that changes the list and begins a save. *)
LEMMA ChangeKeeps ==
  ASSUME IInv, saving = "idle", saving' = "open", UNCHANGED <<ini, tmpThere, tmp, blind>>,
         IsList(profiles'), UniqueIn(profiles'),
         NamesOf(profiles) \cup dropped \subseteq NamesOf(profiles') \cup dropped'
  PROVE  IInv' /\ BookStep
<1> USE DEF IInv
<1>1. Lists' /\ TmpIsView' /\ DownIsEmpty' /\ NamesUnique'
  BY DEF Lists, TmpIsView, DownIsEmpty, NamesUnique
<1>2. NothingForgotten'
  BY DEF NothingForgotten, Running
<1>3. BookStep
  <2>1. Book!Change
    BY DEF Book!Change, Running
  <2>. QED BY <2>1 DEF BookStep, Book!BookNext
<1>. QED BY <1>1, <1>2, <1>3

LEMMA AddKeeps ==
  ASSUME IInv, NEW typed, NEW link, NEW set, AddProfile(typed, link, set)
  PROVE  IInv' /\ BookStep
<1> DEFINE p == Entry(typed, link, set)
<1>1. IsProfile(p) /\ p.name = Trim[typed]
  BY SetOfEntries
<1>2. /\ saving = "idle" /\ saving' = "open" /\ UNCHANGED <<ini, tmpThere, tmp, blind>>
      /\ profiles' = Added(profiles, p) /\ dropped' = dropped \ {p.name}
      /\ ~Find(profiles, p.name)
  BY <1>1 DEF AddProfile, CanAdd
<1> HIDE DEF p
<1>3. IsList(profiles) /\ UniqueIn(profiles)
  BY DEF IInv, Lists, NamesUnique
<1>4. /\ IsList(profiles') /\ UniqueIn(profiles')
      /\ NamesOf(profiles') = NamesOf(profiles) \cup {p.name}
  BY <1>1, <1>2, <1>3, AddedList
<1>. QED BY <1>2, <1>4, ChangeKeeps

LEMMA UpdateKeeps ==
  ASSUME IInv, NEW original, NEW typed, NEW link, NEW set,
         UpdateProfile(original, typed, link, set)
  PROVE  IInv' /\ BookStep
<1> DEFINE p == Entry(typed, link, set)
<1>1. IsProfile(p) /\ p.name = Trim[typed]
  BY SetOfEntries
<1>2. /\ saving = "idle" /\ saving' = "open" /\ UNCHANGED <<ini, tmpThere, tmp, blind>>
      /\ profiles' = Updated(profiles, original, p)
      /\ dropped' = (dropped \cup {original}) \ {p.name}
      /\ Find(profiles, original)
      /\ p.name # original => ~Find(profiles, p.name)
  BY <1>1 DEF UpdateProfile, CanUpdate
<1> HIDE DEF p
<1>3. IsList(profiles) /\ UniqueIn(profiles)
  BY DEF IInv, Lists, NamesUnique
<1>4. /\ IsList(profiles') /\ UniqueIn(profiles')
      /\ NamesOf(profiles') = (NamesOf(profiles) \ {original}) \cup {p.name}
  BY <1>1, <1>2, <1>3, UpdatedList
<1>. QED BY <1>2, <1>4, ChangeKeeps

LEMMA RemoveKeeps ==
  ASSUME IInv, NEW name, RemoveProfile(name)
  PROVE  IInv' /\ BookStep
<1>1. /\ saving = "idle" /\ saving' = "open" /\ UNCHANGED <<ini, tmpThere, tmp, blind>>
      /\ profiles' = Removed(profiles, name) /\ dropped' = dropped \cup {name}
      /\ Find(profiles, name)
  BY DEF RemoveProfile
<1>2. IsList(profiles) /\ UniqueIn(profiles)
  BY DEF IInv, Lists, NamesUnique
<1>3. /\ IsList(profiles') /\ UniqueIn(profiles')
      /\ NamesOf(profiles') = NamesOf(profiles) \ {name}
  BY <1>1, <1>2, RemovedList
<1>. QED BY <1>1, <1>3, ChangeKeeps

(* The steps of a save: the temporary file becomes the list, and then      *)
(* profiles.ini becomes the temporary file.                                *)
LEMMA SaveKeeps ==
  ASSUME IInv, SaveStep
  PROVE  IInv' /\ BookStep
<1> USE DEF IInv
<1>1. CASE OpenTmp
  <2>1. Lists' /\ TmpIsView' /\ DownIsEmpty' /\ NamesUnique' /\ NothingForgotten'
    BY <1>1, EmptyList
       DEF OpenTmp, Lists, TmpIsView, DownIsEmpty, NamesUnique, NothingForgotten, Running
  <2>2. UNCHANGED Book!bookVars
    BY <1>1 DEF OpenTmp, Book!bookVars, Running
  <2>. QED BY <2>1, <2>2 DEF BookStep
<1>2. CASE WriteTmp
  <2>1. tmp' = profiles
    <3>1. tmp = << >> /\ tmp' = tmp \o profiles
      BY <1>2 DEF WriteTmp, TmpIsView
    <3>2. profiles \in Seq(Elements(profiles))
      BY DEF Lists, IsList
    <3>. QED BY <3>1, <3>2
  <2>2. Lists' /\ TmpIsView' /\ DownIsEmpty' /\ NamesUnique' /\ NothingForgotten'
    BY <1>2, <2>1
       DEF WriteTmp, Lists, TmpIsView, DownIsEmpty, NamesUnique, NothingForgotten, Running
  <2>3. UNCHANGED Book!bookVars
    BY <1>2 DEF WriteTmp, Book!bookVars, Running
  <2>. QED BY <2>2, <2>3 DEF BookStep
<1>3. CASE ChmodTmp
  <2>1. Lists' /\ TmpIsView' /\ DownIsEmpty' /\ NamesUnique' /\ NothingForgotten'
    BY <1>3
       DEF ChmodTmp, Lists, TmpIsView, DownIsEmpty, NamesUnique, NothingForgotten, Running
  <2>2. UNCHANGED Book!bookVars
    BY <1>3 DEF ChmodTmp, Book!bookVars, Running
  <2>. QED BY <2>1, <2>2 DEF BookStep
<1>4. CASE RenameTmp
  <2>1. ini' = profiles /\ profiles' = profiles
    BY <1>4 DEF RenameTmp, TmpIsView
  <2>2. Lists' /\ TmpIsView' /\ DownIsEmpty' /\ NamesUnique' /\ NothingForgotten'
    BY <1>4, <2>1, EmptyList
       DEF RenameTmp, Lists, TmpIsView, DownIsEmpty, NamesUnique, NothingForgotten
  <2>3. Book!Commit
    BY <1>4, <2>1 DEF RenameTmp, Book!Commit, Running
  <2>. QED BY <2>2, <2>3 DEF BookStep, Book!BookNext
<1>5. CASE OpenFails \/ SaveFails
  <2>1. Lists' /\ TmpIsView' /\ DownIsEmpty' /\ NamesUnique' /\ NothingForgotten'
    BY <1>5, EmptyList
       DEF OpenFails, SaveFails, Lists, TmpIsView, DownIsEmpty, NamesUnique, NothingForgotten,
           Running
  <2>2. UNCHANGED Book!bookVars
    BY <1>5 DEF OpenFails, SaveFails, Book!bookVars, Running
  <2>. QED BY <2>1, <2>2 DEF BookStep
<1>. QED BY <1>1, <1>2, <1>3, <1>4, <1>5 DEF SaveStep

LEMMA DieKeeps ==
  ASSUME IInv, Die
  PROVE  IInv' /\ BookStep
<1>1. IInv'
  BY EmptyList
     DEF Die, IInv, Lists, TmpIsView, DownIsEmpty, NamesUnique, NothingForgotten, Running
<1>2. Book!Fall
  BY DEF Die, Book!Fall, Running
<1>. QED BY <1>1, <1>2 DEF BookStep, Book!BookNext

LEMMA UntouchedKeeps ==
  ASSUME IInv, UNCHANGED storeVars
  PROVE  IInv' /\ BookStep
<1>1. IInv'
  BY DEF storeVars, IInv, Lists, TmpIsView, DownIsEmpty, NamesUnique, NothingForgotten, Running
<1>2. UNCHANGED Book!bookVars
  BY DEF storeVars, Book!bookVars, Running
<1>. QED BY <1>1, <1>2 DEF BookStep
--------------------------------------------------------------------------------
(* The window: each handler is one step of the store, or none. *)

LEMMA StoreOrNot ==
  ASSUME [Next]_vars
  PROVE  \/ \E readable \in BOOLEAN : StartManager(readable)
         \/ SaveToStore \/ SaveWorks \/ SaveEnds \/ Exit
         \/ \E name \in Names : OnDeleteConfirmed(name)
         \/ \E path \in Paths : OnWindowDrop(path)
         \/ UNCHANGED storeVars
<1>1. OnAddClicked \/ CancelForm \/ SaveToFile \/ StoreRefuses \/ OnDeleteCancelled
      \/ OnImportClicked \/ ChooserDismissed
        => UNCHANGED storeVars
  BY DEF OnAddClicked, CancelForm, SaveToFile, StoreRefuses, OnDeleteCancelled,
         OnImportClicked, Choose, ChooserDismissed
<1>2. ASSUME NEW i \in DOMAIN profiles,
             \/ \E readable \in BOOLEAN : OnEditClicked(i, readable)
             \/ OnDeleteClicked(i)
             \/ OnExportClicked(i)
      PROVE  UNCHANGED storeVars
  BY <1>2 DEF OnEditClicked, OnDeleteClicked, OnExportClicked, Choose
<1>3. (\E typed \in Typed : ChangeName(typed)) \/ (\E set \in Forms : ChangeFields(set))
      \/ (\E path \in Paths \cup {NoLink} : ChangePath(path))
        => UNCHANGED storeVars
  BY DEF ChangeName, ChangeFields, ChangePath, EditForm
<1>4. ASSUME NEW path \in Paths,
             \/ OnImportFileChosen(path)
             \/ OnExportFileChosen(path)
             \/ \E doc \in Documents : ForeignWrite(path, doc)
      PROVE  UNCHANGED storeVars
  BY <1>4 DEF OnImportFileChosen, OnExportFileChosen, ForeignWrite
<1>5. UNCHANGED vars => UNCHANGED storeVars
  BY DEF vars
<1>. QED BY <1>1, <1>2, <1>3, <1>4, <1>5 DEF Next

LEMMA NextKeeps ==
  ASSUME IInv, [Next]_vars
  PROVE  IInv' /\ BookStep
<1>1. ASSUME NEW readable \in BOOLEAN, StartManager(readable)
      PROVE  IInv' /\ BookStep
  BY <1>1, StartKeeps DEF StartManager
<1>2. CASE SaveToStore
  BY <1>2, AddKeeps, UpdateKeeps DEF SaveToStore
<1>3. CASE SaveWorks \/ SaveEnds
  <2>1. SaveStep
    BY <1>3 DEF SaveWorks, SaveEnds, SaveStep
  <2>. QED BY <2>1, SaveKeeps
<1>4. ASSUME NEW name \in Names, OnDeleteConfirmed(name)
      PROVE  IInv' /\ BookStep
  BY <1>4, RemoveKeeps DEF OnDeleteConfirmed
<1>5. ASSUME NEW path \in Paths, OnWindowDrop(path)
      PROVE  IInv' /\ BookStep
  BY <1>5, AddKeeps DEF OnWindowDrop
<1>6. CASE Exit
  BY <1>6, DieKeeps DEF Exit
<1>7. CASE UNCHANGED storeVars
  BY <1>7, UntouchedKeeps
<1>. QED BY <1>1, <1>2, <1>3, <1>4, <1>5, <1>6, <1>7, StoreOrNot

LEMMA InitKeeps == Init => IInv /\ Book!BookInit
<1> SUFFICES ASSUME Init PROVE IInv /\ Book!BookInit
    OBVIOUS
<1>1. IInv
  BY EmptyList
     DEF Init, StoreInit, IInv, Lists, TmpIsView, DownIsEmpty, NamesUnique, NothingForgotten,
         Running
<1>2. Book!BookInit
  BY DEF Init, StoreInit, Book!BookInit, Running
<1>. QED BY <1>1, <1>2

(* The inductive invariant of the store under the window's handlers. *)
THEOREM StoreInvariant == Spec => []IInv
<1>1. IInv /\ [Next]_vars => IInv'
  BY NextKeeps
<1>2. Init => IInv
  BY InitKeeps
<1>. QED BY <1>1, <1>2, PTL DEF Spec

(* No two profiles of the list or of profiles.ini share a name, and no     *)
(* profile of a profiles.ini that could be read leaves the list without    *)
(* having been deleted or renamed away.                                    *)
THEOREM StoreKeepsList == Spec => []ListKept
<1>1. IInv => ListKept
  BY DEF IInv, ListKept
<1>. QED BY <1>1, StoreInvariant, PTL

(* The list, profiles.ini and its temporary file implement ProfileBook:    *)
(* the durable list is only ever replaced whole, by the list in memory.    *)
THEOREM StoreImplementsBook == Spec => ImplementsBook
<1>1. Init => Book!BookInit
  BY InitKeeps
<1>2. IInv /\ [Next]_vars => [Book!BookNext]_(Book!bookVars)
  BY NextKeeps DEF BookStep
<1>. QED BY <1>1, <1>2, StoreInvariant, PTL DEF Spec, ImplementsBook, Book!BookSpec
--------------------------------------------------------------------------------
(* Recursion and induction on the numbers up to m, by the least one that   *)
(* would refute them.                                                      *)

NatBelow == {pair \in Nat \X Nat : pair[1] < pair[2]}

LEMMA LeastNat ==
  ASSUME NEW T, T \subseteq Nat, T # {}
  PROVE  \E n \in T : \A m \in T : n <= m
<1>1. IsWellFoundedOn(NatBelow, Nat)
  BY NatLessThanWellFounded, Zenon DEF OpToRel, NatBelow
<1>2. PICK n \in T : \A m \in T : <<m, n>> \notin NatBelow
  BY <1>1, WFMin
<1>3. ASSUME NEW m \in T PROVE n <= m
  <2>1. m \in Nat /\ n \in Nat /\ ~(m < n)
    BY <1>2 DEF NatBelow
  <2>. QED BY <2>1
<1>. QED BY <1>3

LEMMA UpTo ==
  ASSUME NEW m \in Nat, NEW T, 0 \in T, \A n \in 1..m : n - 1 \in T => n \in T
  PROVE  \A n \in 0..m : n \in T
<1> DEFINE R == {n \in 0..m : n \notin T}
<1>1. SUFFICES ASSUME R # {} PROVE FALSE
    OBVIOUS
<1>2. R \subseteq Nat
  OBVIOUS
<1>3. PICK n \in R : \A k \in R : n <= k
  <2> HIDE DEF R
  <2>. QED BY <1>1, <1>2, LeastNat
<1>4. n \in 1..m /\ n - 1 \in 0..m /\ ~(n <= n - 1)
  BY <1>3
<1>5. n - 1 \in T
  BY <1>3, <1>4
<1>. QED BY <1>3, <1>4, <1>5

(* A function given by what it is at 0 and how it goes on. *)
Unfolds(g, start, step, m) == g[0] = start /\ \A n \in 1..m : g[n] = step[n][g[n - 1]]

LEMMA RecursionExists ==
  ASSUME NEW X, NEW start \in X, NEW m \in Nat, NEW step \in [1..m -> [X -> X]]
  PROVE  \E g \in [0..m -> X] : Unfolds(g, start, step, m)
<1> DEFINE T == {k \in 0..m : \E g \in [0..k -> X] : Unfolds(g, start, step, k)}
<1>1. 0 \in T
  <2>1. [n \in 0..0 |-> start] \in [0..0 -> X] /\ Unfolds([n \in 0..0 |-> start], start, step, 0)
    BY DEF Unfolds
  <2>. QED BY <2>1
<1>2. ASSUME NEW k \in 1..m, k - 1 \in T PROVE k \in T
  <2>1. PICK g \in [0..(k - 1) -> X] : Unfolds(g, start, step, k - 1)
    BY <1>2
  <2> DEFINE h == [n \in 0..k |-> IF n = k THEN step[k][g[k - 1]] ELSE g[n]]
  <2>2. k - 1 \in 0..(k - 1) /\ g[k - 1] \in X
    BY <2>1
  <2>3. step[k][g[k - 1]] \in X
    BY <2>2
  <2>4. h \in [0..k -> X]
    BY <2>1, <2>3
  <2>5. h[0] = start
    BY <2>1 DEF Unfolds
  <2>6. ASSUME NEW n \in 1..k PROVE h[n] = step[n][h[n - 1]]
    <3>1. h[n - 1] = g[n - 1]
      OBVIOUS
    <3>2. n # k => h[n] = g[n] /\ n \in 1..(k - 1)
      OBVIOUS
    <3>3. n = k => h[n] = step[n][g[n - 1]]
      OBVIOUS
    <3> HIDE DEF h
    <3>. QED BY <2>1, <3>1, <3>2, <3>3 DEF Unfolds
  <2> HIDE DEF h
  <2>. QED BY <2>4, <2>5, <2>6 DEF Unfolds
<1> HIDE DEF T
<1>3. \A k \in 1..m : k - 1 \in T => k \in T
  BY <1>2
<1>4. \A k \in 0..m : k \in T
  BY <1>1, <1>3, UpTo
<1>5. m \in T
  BY <1>4
<1>. QED BY <1>5 DEF T

(* Select() adds the entries at the places in P one by one. *)
Selects(g, s, P) ==
  /\ g[0] = << >>
  /\ \A n \in 1..Len(s) : g[n] = IF n \in P THEN Append(g[n - 1], s[n]) ELSE g[n - 1]

LEMMA SelectUnfolds ==
  ASSUME NEW S, NEW s \in Seq(S), NEW P
  PROVE  \E g \in [0..Len(s) -> Seq({s[i] : i \in DOMAIN s \cap P})] :
            Selects(g, s, P) /\ Select(s, P) = g[Len(s)]
<1> DEFINE m == Len(s)
           K == {s[i] : i \in DOMAIN s \cap P}
           X == Seq(K)
           step == [n \in 1..m |-> [t \in X |-> IF n \in P THEN Append(t, s[n]) ELSE t]]
           Is(g) == g = [n \in 0..m |-> IF n = 0 THEN << >>
                                        ELSE IF n \in P THEN Append(g[n - 1], s[n]) ELSE g[n - 1]]
<1>1. m \in Nat /\ DOMAIN s = 1..m
  OBVIOUS
<1>2. << >> \in X
  OBVIOUS
<1>3. step \in [1..m -> [X -> X]]
  <2>1. ASSUME NEW n \in 1..m, NEW t \in X PROVE (IF n \in P THEN Append(t, s[n]) ELSE t) \in X
    <3>1. n \in P => s[n] \in K
      BY <1>1
    <3> HIDE DEF K
    <3>. QED BY <3>1
  <2> HIDE DEF X
  <2>. QED BY <2>1
<1> HIDE DEF X, m
<1>4. PICK g \in [0..m -> X] : Unfolds(g, << >>, step, m)
  <2> HIDE DEF step
  <2>. QED BY <1>1, <1>2, <1>3, RecursionExists
<1>5. \A n \in 1..m : g[n] = IF n \in P THEN Append(g[n - 1], s[n]) ELSE g[n - 1]
  <2>1. \A n \in 1..m : g[n - 1] \in X
    BY <1>1, <1>4
  <2>2. \A n \in 1..m : step[n][g[n - 1]] = IF n \in P THEN Append(g[n - 1], s[n]) ELSE g[n - 1]
    BY <2>1
  <2> HIDE DEF step
  <2>. QED BY <1>4, <2>2 DEF Unfolds
<1>6. g[0] = << >>
  BY <1>4 DEF Unfolds
<1>7. Is(g)
  <2>1. g = [n \in 0..m |-> g[n]]
    BY <1>4
  <2>2. \A n \in 0..m : g[n] = IF n = 0 THEN << >>
                               ELSE IF n \in P THEN Append(g[n - 1], s[n]) ELSE g[n - 1]
    BY <1>1, <1>5, <1>6
  <2>. QED BY <2>1, <2>2
<1> DEFINE f == CHOOSE h : Is(h)
<1>8. Is(f)
  <2> HIDE DEF Is
  <2>. QED BY <1>7
<1>9. Select(s, P) = f[m]
  BY DEF Select, m
<1> HIDE DEF f
<1>10. \A n \in 0..m : f[n] = IF n = 0 THEN << >>
                              ELSE IF n \in P THEN Append(f[n - 1], s[n]) ELSE f[n - 1]
  BY <1>8
<1> HIDE DEF Is
<1>11. \A n \in 0..m : f[n] \in X
  <2> DEFINE T == {n \in 0..m : f[n] = g[n]}
  <2>1. 0 \in T
    BY <1>1, <1>6, <1>10
  <2>2. ASSUME NEW n \in 1..m, n - 1 \in T PROVE n \in T
    <3>1. n \in 0..m /\ n # 0
      BY <1>1
    <3>2. f[n] = g[n]
      BY <1>5, <1>10, <2>2, <3>1
    <3>. QED BY <3>1, <3>2
  <2> HIDE DEF T
  <2>3. \A n \in 0..m : n \in T
    BY <1>1, <2>1, <2>2, UpTo
  <2>. QED BY <1>4, <2>3 DEF T
<1>12. f \in [0..m -> X]
  <2>1. f = [n \in 0..m |-> f[n]]
    BY <1>8 DEF Is
  <2>. QED BY <1>11, <2>1
<1>13. Selects(f, s, P)
  <2>1. 0 \in 0..m /\ \A n \in 1..m : n \in 0..m /\ n # 0
    BY <1>1
  <2>. QED BY <1>10, <2>1 DEF Selects, m
<1>. QED BY <1>9, <1>12, <1>13 DEF X, m

LEMMA SelectsAgree ==
  ASSUME NEW s, NEW t, NEW P, NEW Q, NEW g, NEW h, Selects(g, s, P), Selects(h, t, Q),
         Len(s) \in Nat, Len(t) \in Nat, NEW m \in Nat, m <= Len(s), m <= Len(t),
         \A i \in 1..m : (i \in P <=> i \in Q) /\ (i \in P => s[i] = t[i])
  PROVE  \A n \in 0..m : g[n] = h[n]
<1> DEFINE T == {n \in 0..m : g[n] = h[n]}
<1>1. 0 \in T
  BY DEF Selects
<1>2. ASSUME NEW n \in 1..m, n - 1 \in T PROVE n \in T
  <2>1. n \in 1..Len(s) /\ n \in 1..Len(t) /\ n \in 0..m
    OBVIOUS
  <2>2. /\ g[n] = IF n \in P THEN Append(g[n - 1], s[n]) ELSE g[n - 1]
        /\ h[n] = IF n \in Q THEN Append(h[n - 1], t[n]) ELSE h[n - 1]
    BY <2>1 DEF Selects
  <2>3. g[n] = h[n]
    BY <1>2, <2>2
  <2>. QED BY <2>1, <2>3
<1> HIDE DEF T
<1>3. \A n \in 0..m : n \in T
  BY <1>1, <1>2, UpTo
<1>. QED BY <1>3 DEF T
--------------------------------------------------------------------------------
(* The lines of a document that belong to a class of lines, in their order.*)

PlacesOf(doc, C) == {i \in DOMAIN doc : doc[i] \in C}

In(doc, C) == Select(doc, PlacesOf(doc, C))

LEMMA InSequence ==
  ASSUME NEW S, NEW doc \in Seq(S), NEW C
  PROVE  In(doc, C) \in Seq(S \cap C)
<1>1. In(doc, C) \in Seq({doc[i] : i \in DOMAIN doc \cap PlacesOf(doc, C)})
  <2>1. PICK g \in [0..Len(doc) -> Seq({doc[i] : i \in DOMAIN doc \cap PlacesOf(doc, C)})] :
          In(doc, C) = g[Len(doc)]
    BY SelectUnfolds DEF In
  <2>2. Len(doc) \in 0..Len(doc)
    OBVIOUS
  <2>. QED BY <2>1, <2>2
<1>2. {doc[i] : i \in DOMAIN doc \cap PlacesOf(doc, C)} \subseteq S \cap C
  BY DEF PlacesOf
<1>. QED BY <1>1, <1>2

LEMMA InAppended ==
  ASSUME NEW S, NEW doc \in Seq(S), NEW line \in S, NEW C
  PROVE  In(Append(doc, line), C) =
           IF line \in C THEN Append(In(doc, C), line) ELSE In(doc, C)
<1> DEFINE new == Append(doc, line)
           P == PlacesOf(doc, C)
           Q == PlacesOf(new, C)
           m == Len(doc)
<1>1. /\ new \in Seq(S) /\ Len(new) = m + 1 /\ DOMAIN new = 1..(m + 1) /\ DOMAIN doc = 1..m
      /\ m \in Nat /\ \A i \in 1..m : new[i] = doc[i]
      /\ new[m + 1] = line
  OBVIOUS
<1> HIDE DEF new
<1>2. /\ \A i \in 1..m : i \in P <=> i \in Q
      /\ m + 1 \in Q <=> line \in C
  BY <1>1 DEF PlacesOf
<1> HIDE DEF P, Q
<1>3. PICK g : Selects(g, doc, P) /\ Select(doc, P) = g[m]
  BY SelectUnfolds
<1>4. PICK h : Selects(h, new, Q) /\ Select(new, Q) = h[m + 1]
  BY <1>1, SelectUnfolds
<1> HIDE DEF m
<1>5. \A n \in 0..m : g[n] = h[n]
  <2>1. Len(doc) \in Nat /\ Len(new) \in Nat /\ m <= Len(doc) /\ m <= Len(new)
    BY <1>1 DEF m
  <2>. QED BY <1>1, <1>2, <1>3, <1>4, <2>1, SelectsAgree
<1>6. h[m + 1] = IF m + 1 \in Q THEN Append(h[m], new[m + 1]) ELSE h[m]
  <2>1. m + 1 \in 1..Len(new) /\ (m + 1) - 1 = m
    BY <1>1
  <2>. QED BY <1>4, <2>1 DEF Selects
<1>7. g[m] = h[m]
  BY <1>1, <1>5
<1>. QED BY <1>1, <1>2, <1>3, <1>4, <1>6, <1>7 DEF In, P, Q, new

(* Writing a line of no class member over another leaves the class.        *)
LEMMA InReplaced ==
  ASSUME NEW S, NEW doc \in Seq(S), NEW k \in DOMAIN doc, NEW line \in S, NEW C,
         doc[k] \notin C, line \notin C
  PROVE  In([doc EXCEPT ![k] = line], C) = In(doc, C)
<1> DEFINE new == [doc EXCEPT ![k] = line]
           P == PlacesOf(doc, C)
           Q == PlacesOf(new, C)
           m == Len(doc)
<1>1. /\ new \in Seq(S) /\ Len(new) = m /\ DOMAIN new = 1..m /\ DOMAIN doc = 1..m
      /\ m \in Nat /\ new[k] = line
      /\ \A i \in 1..m : i # k => new[i] = doc[i]
  OBVIOUS
<1> HIDE DEF new
<1>2. \A i \in 1..m : (i \in P <=> i \in Q) /\ (i \in P => doc[i] = new[i])
  BY <1>1 DEF PlacesOf
<1> HIDE DEF P, Q
<1>3. PICK g : Selects(g, doc, P) /\ Select(doc, P) = g[m]
  BY SelectUnfolds
<1>4. PICK h : Selects(h, new, Q) /\ Select(new, Q) = h[m]
  BY <1>1, SelectUnfolds
<1> HIDE DEF m
<1>5. \A n \in 0..m : g[n] = h[n]
  <2>1. Len(doc) \in Nat /\ Len(new) \in Nat /\ m <= Len(doc) /\ m <= Len(new)
    BY <1>1 DEF m
  <2>. QED BY <1>1, <1>2, <1>3, <1>4, <2>1, SelectsAgree
<1>6. g[m] = h[m]
  BY <1>1, <1>5
<1>. QED BY <1>3, <1>4, <1>6 DEF In, P, Q, new

(* Dropping lines outside the class leaves the class.                      *)
LEMMA InSelected ==
  ASSUME NEW S, NEW doc \in Seq(S), NEW P, NEW C, \A i \in DOMAIN doc : doc[i] \in C => i \in P
  PROVE  In(Select(doc, P), C) = In(doc, C)
<1> DEFINE Q == PlacesOf(doc, C)
           m == Len(doc)
<1>1. m \in Nat /\ DOMAIN doc = 1..m
  OBVIOUS
<1>2. PICK g \in [0..m -> Seq({doc[i] : i \in DOMAIN doc \cap P})] :
        Selects(g, doc, P) /\ Select(doc, P) = g[m]
  BY SelectUnfolds
<1>3. PICK h : Selects(h, doc, Q) /\ Select(doc, Q) = h[m]
  BY SelectUnfolds
<1>4. \A n \in 0..m : g[n] \in Seq(S)
  <2>1. {doc[i] : i \in DOMAIN doc \cap P} \subseteq S
    OBVIOUS
  <2>. QED BY <1>2, <2>1
<1> DEFINE T == {n \in 0..m : In(g[n], C) = h[n]}
<1>5. 0 \in T
  <2>1. << >> \in Seq({})
    OBVIOUS
  <2>2. In(<< >>, C) \in Seq({} \cap C)
    BY <2>1, InSequence
  <2>3. In(<< >>, C) = << >>
    BY <2>2
  <2>4. g[0] = << >> /\ h[0] = << >>
    BY <1>2, <1>3 DEF Selects
  <2>. QED BY <1>1, <2>3, <2>4
<1>6. ASSUME NEW n \in 1..m, n - 1 \in T PROVE n \in T
  <2>1. /\ n \in 0..m /\ n - 1 \in 0..m /\ doc[n] \in S /\ g[n - 1] \in Seq(S)
        /\ n \in 1..Len(doc) /\ n \in DOMAIN doc
    BY <1>1, <1>4
  <2>2. /\ g[n] = IF n \in P THEN Append(g[n - 1], doc[n]) ELSE g[n - 1]
        /\ h[n] = IF n \in Q THEN Append(h[n - 1], doc[n]) ELSE h[n - 1]
    BY <1>2, <1>3, <2>1 DEF Selects
  <2>3. n \in Q <=> doc[n] \in C
    BY <2>1 DEF PlacesOf
  <2>4. In(g[n - 1], C) = h[n - 1]
    BY <1>6
  <2>5. In(Append(g[n - 1], doc[n]), C) =
          IF doc[n] \in C THEN Append(In(g[n - 1], C), doc[n]) ELSE In(g[n - 1], C)
    <3>1. \A d \in Seq(S), line \in S :
            In(Append(d, line), C) = IF line \in C THEN Append(In(d, C), line) ELSE In(d, C)
      BY InAppended
    <3>. QED BY <2>1, <3>1
  <2> HIDE DEF Q, m
  <2>6. In(g[n], C) = h[n]
    BY <2>1, <2>2, <2>3, <2>4, <2>5
  <2>. QED BY <2>1, <2>6
<1> HIDE DEF T
<1>7. \A n \in 0..m : n \in T
  BY <1>1, <1>5, <1>6, UpTo
<1>8. m \in T
  BY <1>1, <1>7
<1>. QED BY <1>2, <1>3, <1>8 DEF In, T

(* The first line of a class is the first of its lines. *)
LEMMA FirstOfClass ==
  ASSUME NEW S, NEW doc \in Seq(S), NEW C
  PROVE  /\ PlacesOf(doc, C) = {} => In(doc, C) = << >>
         /\ \A k \in PlacesOf(doc, C) :
              (\A j \in PlacesOf(doc, C) : k <= j) => In(doc, C) # << >> /\ In(doc, C)[1] = doc[k]
<1> DEFINE P == PlacesOf(doc, C)
           m == Len(doc)
           None(n) == \A j \in 1..n : j \notin P
<1>1. m \in Nat /\ DOMAIN doc = 1..m /\ P \subseteq 1..m
  BY DEF PlacesOf
<1>2. PICK g \in [0..m -> Seq({doc[i] : i \in DOMAIN doc \cap P})] :
        Selects(g, doc, P) /\ Select(doc, P) = g[m]
  BY SelectUnfolds
<1>3. \A n \in 0..m : g[n] \in Seq(S)
  <2>1. {doc[i] : i \in DOMAIN doc \cap P} \subseteq S
    OBVIOUS
  <2>. QED BY <1>2, <2>1
<1>a. /\ g[0] = << >>
      /\ \A n \in 1..m : g[n] = IF n \in P THEN Append(g[n - 1], doc[n]) ELSE g[n - 1]
  BY <1>2 DEF Selects
<1> HIDE DEF P, m
<1> DEFINE First(n, k) == k \in 1..n => g[n] # << >> /\ g[n][1] = doc[k]
           T == {n \in 0..m : None(n) => g[n] = << >>}
<1>4. \A n \in 0..m : n \in T
  <2>1. 0 \in T
    BY <1>1, <1>a
  <2>2. ASSUME NEW n \in 1..m, n - 1 \in T PROVE n \in T
    <3>1. None(n) => None(n - 1) /\ n \notin P
      BY <1>1
    <3>. QED BY <1>1, <1>a, <2>2, <3>1
  <2> HIDE DEF T
  <2>. QED BY <1>1, <2>1, <2>2, UpTo
<1>5. ASSUME NEW k \in P, \A j \in P : k <= j PROVE g[m] # << >> /\ g[m][1] = doc[k]
  <2> DEFINE R == {n \in 0..m : First(n, k)}
  <2>1. 0 \in R
    BY <1>1
  <2>2. ASSUME NEW n \in 1..m, n - 1 \in R PROVE n \in R
    <3>1. n \in 0..m /\ n - 1 \in 0..m /\ k \in 1..m /\ g[n - 1] \in Seq(S)
      BY <1>1, <1>3, <1>5
    <3>2. g[n] = IF n \in P THEN Append(g[n - 1], doc[n]) ELSE g[n - 1]
      BY <1>a
    <3>3. CASE k = n
      <4>1. None(n - 1)
        BY <1>1, <1>5, <3>1, <3>3
      <4>2. g[n - 1] = << >>
        BY <1>4, <3>1, <4>1
      <4>. QED BY <3>1, <3>2, <3>3, <4>2
    <3>4. CASE k < n
      <4>1. g[n - 1] # << >> /\ g[n - 1][1] = doc[k] /\ Len(g[n - 1]) \in Nat
        BY <1>1, <2>2, <3>1, <3>4
      <4>2. Append(g[n - 1], doc[n]) # << >> /\ Append(g[n - 1], doc[n])[1] = doc[k]
        <5>1. DOMAIN doc = 1..m /\ doc[n] \in S
          BY <1>1
        <5>. QED BY <3>1, <4>1, <5>1
      <4>. QED BY <3>1, <3>2, <4>1, <4>2
    <3>5. CASE n < k
      BY <3>1, <3>5
    <3>. QED BY <1>1, <3>1, <3>3, <3>4, <3>5
  <2> HIDE DEF R
  <2>3. \A n \in 0..m : n \in R
    BY <1>1, <2>1, <2>2, UpTo
  <2>4. m \in R /\ k \in 1..m
    BY <1>1, <1>5, <2>3
  <2>. QED BY <2>4 DEF R
<1>6. P = {} => g[m] = << >>
  <2>1. m \in T
    BY <1>1, <1>4
  <2>. QED BY <2>1
<1>. QED BY <1>2, <1>5, <1>6 DEF In, P, m

LEMMA SelectSequence ==
  ASSUME NEW S, NEW s \in Seq(S), NEW P
  PROVE  Select(s, P) \in Seq({s[i] : i \in DOMAIN s \cap P}) /\ Select(s, P) \in Seq(S)
<1>1. Select(s, P) \in Seq({s[i] : i \in DOMAIN s \cap P})
  <2>1. PICK g \in [0..Len(s) -> Seq({s[i] : i \in DOMAIN s \cap P})] : Select(s, P) = g[Len(s)]
    BY SelectUnfolds
  <2>2. Len(s) \in 0..Len(s)
    OBVIOUS
  <2>. QED BY <2>1, <2>2
<1>2. {s[i] : i \in DOMAIN s \cap P} \subseteq S
  OBVIOUS
<1>. QED BY <1>1, <1>2
--------------------------------------------------------------------------------
(* A .rdp document: what a key's lines are decides what is read of it, and *)
(* no operation on another key touches them.                               *)

KeyClass(key) == {line \in Lines : line.key = key}

ScanClass(key) == {line \in Lines : line.key = key /\ line.type = "s"}

FirstValue(doc, C) == IF In(doc, C) = << >> THEN Unset ELSE In(doc, C)[1].value

LEMMA ReadOfClass ==
  ASSUME NEW doc \in Seq(Lines), NEW key
  PROVE  /\ GetValue(doc, key) = FirstValue(doc, KeyClass(key))
         /\ ScanKey(doc, key) = FirstValue(doc, ScanClass(key))
<1>1. DOMAIN doc = 1..Len(doc) /\ Len(doc) \in Nat /\ \A i \in DOMAIN doc : doc[i] \in Lines
  OBVIOUS
<1>2. LinesOf(doc, key) = PlacesOf(doc, KeyClass(key))
  BY <1>1 DEF LinesOf, PlacesOf, KeyClass
<1>3. ScanLines(doc, key) = PlacesOf(doc, ScanClass(key))
  BY <1>1 DEF ScanLines, LinesOf, PlacesOf, ScanClass
<1>4. GetValue(doc, key) = FirstValue(doc, KeyClass(key))
  <2> DEFINE P == LinesOf(doc, key)
  <2>1. CASE P = {}
    BY <1>2, <2>1, FirstOfClass DEF GetValue, Has, FirstValue
  <2>2. CASE P # {}
    <3>1. P \subseteq Nat
      BY <1>1 DEF LinesOf
    <3>2. \E i \in P : \A j \in P : i <= j
      <4> HIDE DEF P
      <4>. QED BY <2>2, <3>1, LeastNat
    <3>3. FindLine(doc, key) \in P /\ \A j \in P : FindLine(doc, key) <= j
      BY <3>2 DEF FindLine
    <3>. QED BY <1>2, <2>2, <3>3, FirstOfClass DEF GetValue, Has, FirstValue
  <2>. QED BY <2>1, <2>2
<1>5. ScanKey(doc, key) = FirstValue(doc, ScanClass(key))
  <2> DEFINE P == ScanLines(doc, key)
             k == CHOOSE i \in P : \A j \in P : i <= j
  <2>1. CASE P = {}
    BY <1>3, <2>1, FirstOfClass DEF ScanKey, FirstValue
  <2>2. CASE P # {}
    <3>1. P \subseteq Nat
      BY <1>1 DEF ScanLines, LinesOf
    <3>2. \E i \in P : \A j \in P : i <= j
      <4> HIDE DEF P
      <4>. QED BY <2>2, <3>1, LeastNat
    <3>3. k \in P /\ \A j \in P : k <= j
      <4> HIDE DEF P
      <4>. QED BY <3>2
    <3>4. ScanKey(doc, key) = doc[k].value
      BY <2>2 DEF ScanKey
    <3> HIDE DEF k
    <3>. QED BY <1>3, <3>3, <3>4, FirstOfClass DEF FirstValue
  <2>. QED BY <2>1, <2>2
<1>. QED BY <1>4, <1>5

(* What a key reads as, to the manager and to the session, after its line  *)
(* has been set.                                                           *)
LEMMA SetLineSets ==
  ASSUME NEW doc \in Seq(Lines), NEW key, NEW type, NEW value, Line(key, type, value) \in Lines
  PROVE  /\ SetLine(doc, key, type, value) \in Seq(Lines)
         /\ \A C : (\A line \in C : line.key # key) =>
                     In(SetLine(doc, key, type, value), C) = In(doc, C)
         /\ GetValue(SetLine(doc, key, type, value), key) = value
         /\ type = "s" => ScanKey(SetLine(doc, key, type, value), key) = value
<1> DEFINE line == Line(key, type, value)
           new == SetLine(doc, key, type, value)
           m == Len(doc)
<1>1. DOMAIN doc = 1..m /\ m \in Nat
  OBVIOUS
<1>2. line.key = key /\ line.type = type /\ line.value = value
  BY DEF Line
<1> HIDE DEF line
<1>3. CASE Has(doc, key)
  <2> DEFINE k == FindLine(doc, key)
             P == LinesOf(doc, key)
  <2>1. k \in P /\ \A j \in P : k <= j
    <3>1. P \subseteq Nat /\ P # {}
      BY <1>1, <1>3 DEF LinesOf, Has
    <3>2. \E i \in P : \A j \in P : i <= j
      <4> HIDE DEF P
      <4>. QED BY <3>1, LeastNat
    <3>. QED BY <3>2 DEF FindLine
  <2>2. new = [doc EXCEPT ![k] = line]
    BY <1>3 DEF SetLine, line
  <2>3. k \in DOMAIN doc /\ doc[k].key = key /\ \A j \in DOMAIN doc : doc[j].key = key => k <= j
    BY <2>1 DEF LinesOf
  <2> HIDE DEF new, k, P
  <2>4. new \in Seq(Lines)
    BY <2>2, <2>3 DEF line
  <2>5. ASSUME NEW C, \A l \in C : l.key # key PROVE In(new, C) = In(doc, C)
    <3>1. line \in Lines /\ line \notin C /\ doc[k] \notin C
      BY <1>2, <2>3, <2>5 DEF line
    <3>2. In([doc EXCEPT ![k] = line], C) = In(doc, C)
      BY <2>3, <3>1, InReplaced
    <3>. QED BY <2>2, <3>2
  <2>6. /\ DOMAIN new = DOMAIN doc /\ new[k] = line
        /\ \A j \in DOMAIN doc : j # k => new[j] = doc[j]
    BY <2>2, <2>3
  <2>7. k \in LinesOf(new, key) /\ \A j \in LinesOf(new, key) : k <= j
    BY <1>1, <1>2, <2>3, <2>6 DEF LinesOf
  <2>8. \A i \in LinesOf(new, key) : (\A j \in LinesOf(new, key) : i <= j) => i = k
    BY <1>1, <2>3, <2>6, <2>7 DEF LinesOf
  <2>9. GetValue(new, key) = value
    <3>1. FindLine(new, key) = k
      BY <2>7, <2>8 DEF FindLine
    <3>. QED BY <1>2, <2>6, <2>7, <3>1 DEF GetValue, Has
  <2>10. ASSUME type = "s" PROVE ScanKey(new, key) = value
    <3>1. k \in ScanLines(new, key) /\ \A j \in ScanLines(new, key) : k <= j
      BY <1>2, <2>6, <2>7, <2>10 DEF ScanLines
    <3>2. \A i \in ScanLines(new, key) : (\A j \in ScanLines(new, key) : i <= j) => i = k
      BY <1>1, <2>3, <2>6, <3>1 DEF ScanLines, LinesOf
    <3>3. (CHOOSE i \in ScanLines(new, key) : \A j \in ScanLines(new, key) : i <= j) = k
      BY <3>1, <3>2
    <3>. QED BY <1>2, <2>6, <3>1, <3>3 DEF ScanKey
  <2>. QED BY <2>4, <2>5, <2>9, <2>10 DEF new
<1>4. CASE ~Has(doc, key)
  <2>1. new = Append(doc, line)
    BY <1>4 DEF SetLine, line
  <2> HIDE DEF new
  <2>2. /\ new \in Seq(Lines) /\ DOMAIN new = 1..(m + 1) /\ new[m + 1] = line
        /\ \A i \in 1..m : new[i] = doc[i]
    BY <2>1 DEF line
  <2>3. \A C : (\A l \in C : l.key # key) => In(new, C) = In(doc, C)
    BY <1>2, <2>1, InAppended DEF line
  <2>4. LinesOf(new, key) = {m + 1}
    <3>1. \A i \in 1..m : doc[i].key # key
      BY <1>1, <1>4 DEF Has, LinesOf
    <3>. QED BY <1>1, <1>2, <2>2, <3>1 DEF LinesOf
  <2>5. GetValue(new, key) = value
    <3>1. FindLine(new, key) = m + 1
      BY <1>1, <2>4 DEF FindLine
    <3>. QED BY <1>2, <2>2, <2>4, <3>1 DEF GetValue, Has
  <2>6. ASSUME type = "s" PROVE ScanKey(new, key) = value
    <3>1. ScanLines(new, key) = {m + 1}
      BY <1>2, <2>2, <2>4, <2>6 DEF ScanLines
    <3>2. (CHOOSE i \in {m + 1} : \A j \in {m + 1} : i <= j) = m + 1
      BY <1>1
    <3>. QED BY <1>2, <2>2, <3>1, <3>2 DEF ScanKey
  <2>. QED BY <2>2, <2>3, <2>5, <2>6 DEF new
<1>. QED BY <1>3, <1>4

LEMMA RemoveLinesRemoves ==
  ASSUME NEW doc \in Seq(Lines), NEW key
  PROVE  /\ RemoveLines(doc, key) \in Seq(Lines)
         /\ \A C : (\A line \in C : line.key # key) => In(RemoveLines(doc, key), C) = In(doc, C)
         /\ GetValue(RemoveLines(doc, key), key) = Unset
         /\ ScanKey(RemoveLines(doc, key), key) = Unset
<1> DEFINE P == DOMAIN doc \ LinesOf(doc, key)
           new == RemoveLines(doc, key)
           K == {doc[i] : i \in DOMAIN doc \cap P}
<1>1. new \in Seq(K) /\ new \in Seq(Lines)
  BY SelectSequence DEF RemoveLines
<1>2. \A line \in K : line.key # key
  BY DEF LinesOf
<1>3. ASSUME NEW C, \A line \in C : line.key # key PROVE In(new, C) = In(doc, C)
  <2>1. \A i \in DOMAIN doc : doc[i] \in C => i \in P
    BY <1>3 DEF LinesOf
  <2>. QED BY <2>1, InSelected DEF RemoveLines
<1> HIDE DEF K, P, new
<1>4. LinesOf(new, key) = {}
  <2>1. \A i \in DOMAIN new : new[i] \in K
    BY <1>1
  <2>. QED BY <1>2, <2>1 DEF LinesOf
<1>. QED BY <1>1, <1>3, <1>4 DEF GetValue, Has, ScanKey, ScanLines, new

(* A field is in the file with its value, for both readers; or it is not   *)
(* in the file, and its value is one that needs no line.                   *)
InFile(doc, field, value) ==
  \/ GetValue(doc, field) = value /\ (field \in OwnFields => ScanKey(doc, field) = value)
  \/ /\ GetValue(doc, field) = Unset /\ ScanKey(doc, field) = Unset
     /\ \/ field \in Sticky /\ value = Initially[field]
        \/ field \in Removable \cup {"quality"} /\ value = Empty

LEMMA FieldKinds ==
  ASSUME NEW field \in ToSet(Fields)
  PROVE  /\ field \in Required \cup Sticky \cup Removable \cup {"quality"}
         /\ field \notin {Other, "perf"}
         /\ field \in OwnFields => TypeOf(field) = "s"
<1>1. field \in Required \cup Sticky \cup Removable \cup {"quality"}
  BY FieldsAssumption DEF ToSet
<1>2. field \notin {Other, "perf"}
  BY <1>1 DEF Required, Sticky, Removable, Other
<1>3. field \in OwnFields => TypeOf(field) = "s"
  BY DialogsAssumption DEF TypeOf
<1>. QED BY <1>1, <1>2, <1>3

LEMMA FieldLine ==
  ASSUME NEW field \in ToSet(Fields), NEW value \in Values[field]
  PROVE  /\ Line(field, TypeOf(field), value) \in Lines
         /\ Line(field, "s", value) \in Lines
         /\ value # Unset
<1>1. value \in STRING /\ value # Unset
  BY ValuesAssumption
<1>2. TypeOf(field) \in {"s", "i"}
  BY DEF TypeOf
<1>. QED BY <1>1, <1>2 DEF Line, Lines

LEMMA WriteFieldWrites ==
  ASSUME NEW doc \in Seq(Lines), NEW field \in ToSet(Fields), NEW value \in Values[field]
  PROVE  /\ WriteField(doc, field, value) \in Seq(Lines)
         /\ \A C : (\A line \in C : line.key \notin {field, "perf"}) =>
                     In(WriteField(doc, field, value), C) = In(doc, C)
         /\ InFile(WriteField(doc, field, value), field, value)
<1> DEFINE new == WriteField(doc, field, value)
           Kept(d) == \A C : (\A line \in C : line.key \notin {field, "perf"}) => In(d, C) = In(doc, C)
           set == SetLine(doc, field, TypeOf(field), value)
           sets == SetLine(doc, field, "s", value)
           gone == RemoveLines(doc, field)
<1>1. /\ field \in Required \cup Sticky \cup Removable \cup {"quality"}
      /\ field # "perf"
      /\ field \in OwnFields => TypeOf(field) = "s"
  BY FieldKinds
<1>a. /\ Required \cap Sticky = {} /\ Required \cap Removable = {} /\ Sticky \cap Removable = {}
      /\ "quality" \notin Required \cup Sticky \cup Removable
  BY DEF Required, Sticky, Removable
<1>2. set \in Seq(Lines) /\ Kept(set) /\ InFile(set, field, value)
  <2>1. Line(field, TypeOf(field), value) \in Lines
    BY FieldLine
  <2>2. /\ set \in Seq(Lines)
        /\ \A C : (\A line \in C : line.key # field) => In(set, C) = In(doc, C)
        /\ GetValue(set, field) = value
        /\ TypeOf(field) = "s" => ScanKey(set, field) = value
    BY <2>1, SetLineSets
  <2> HIDE DEF set
  <2>. QED BY <1>1, <2>2 DEF InFile
<1>3. sets \in Seq(Lines) /\ Kept(sets) /\ InFile(sets, field, value)
  <2>1. Line(field, "s", value) \in Lines
    BY FieldLine
  <2>2. /\ sets \in Seq(Lines)
        /\ \A C : (\A line \in C : line.key # field) => In(sets, C) = In(doc, C)
        /\ GetValue(sets, field) = value /\ ScanKey(sets, field) = value
    BY <2>1, SetLineSets
  <2> HIDE DEF sets
  <2>. QED BY <2>2 DEF InFile
<1>4. /\ gone \in Seq(Lines) /\ Kept(gone)
      /\ value = Empty /\ field \in Removable \cup {"quality"} => InFile(gone, field, value)
  <2>1. /\ gone \in Seq(Lines)
        /\ \A C : (\A line \in C : line.key # field) => In(gone, C) = In(doc, C)
        /\ GetValue(gone, field) = Unset /\ ScanKey(gone, field) = Unset
    BY RemoveLinesRemoves
  <2> HIDE DEF gone
  <2>. QED BY <2>1 DEF InFile
<1>5. CASE field \in Required
  <2>1. new = set
    BY <1>5, <1>a DEF WriteField, WriteRequired
  <2>. QED BY <1>2, <2>1
<1>6. CASE field \in Sticky
  <2>2. CASE value # Initially[field] \/ Has(doc, field)
    <3>1. new = set
      BY <1>6, <1>a, <2>2 DEF WriteField, WriteSticky
    <3>. QED BY <1>2, <3>1
  <2>3. CASE value = Initially[field] /\ ~Has(doc, field)
    <3>1. new = doc
      BY <1>6, <1>a, <2>3 DEF WriteField, WriteSticky
    <3>2. GetValue(doc, field) = Unset /\ ScanKey(doc, field) = Unset
      BY <2>3 DEF GetValue, Has, ScanKey, ScanLines
    <3>. QED BY <1>6, <2>3, <3>1, <3>2 DEF InFile
  <2>. QED BY <2>2, <2>3
<1>7. CASE field \in Removable
  <2>2. new = IF value = Empty THEN gone ELSE sets
    BY <1>7, <1>a DEF WriteField, WriteRemovable
  <2>. QED BY <1>3, <1>4, <1>7, <2>2
<1>8. CASE field = "quality"
  <2>2. new = WriteQuality(doc, value)
    BY <1>8, <1>a DEF WriteField
  <2>3. CASE value = Empty
    <3>1. new = gone
      BY <1>8, <2>2, <2>3, FieldsAssumption DEF WriteQuality
    <3>. QED BY <1>4, <1>8, <2>3, <3>1
  <2>4. CASE value # Empty /\ value \in Presets
    <3> DEFINE both == SetLine(sets, "perf", "i", value)
    <3>1. new = both
      BY <1>8, <2>2, <2>4 DEF WriteQuality
    <3>2. Line("perf", "i", value) \in Lines
      <4>1. value \in STRING /\ value # Unset
        BY ValuesAssumption
      <4>2. "perf" \notin ToSet(Fields)
        BY FieldKinds, Zenon
      <4>. QED BY <4>1, <4>2 DEF Line, Lines
    <3>3. /\ both \in Seq(Lines)
          /\ \A C : (\A line \in C : line.key # "perf") => In(both, C) = In(sets, C)
      <4> HIDE DEF sets
      <4>. QED BY <1>3, <3>2, SetLineSets
    <3>4. Kept(both)
      <4> HIDE DEF both, sets
      <4>. QED BY <1>3, <3>3
    <3>5. GetValue(both, field) = GetValue(sets, field) /\ ScanKey(both, field) = ScanKey(sets, field)
      <4>1. /\ In(both, KeyClass(field)) = In(sets, KeyClass(field))
            /\ In(both, ScanClass(field)) = In(sets, ScanClass(field))
        <5> HIDE DEF both, sets
        <5>1. \A line \in KeyClass(field) \cup ScanClass(field) : line.key # "perf"
          BY <1>1 DEF KeyClass, ScanClass
        <5>. QED BY <3>3, <5>1
      <4> HIDE DEF both, sets
      <4>. QED BY <1>3, <3>3, <4>1, ReadOfClass DEF FirstValue
    <3>6. InFile(both, field, value)
      <4> HIDE DEF both, sets
      <4>. QED BY <1>3, <3>5 DEF InFile
    <3>. QED BY <3>1, <3>3, <3>4, <3>6
  <2>5. CASE value # Empty /\ value \notin Presets
    <3>1. new = sets
      BY <1>8, <2>2, <2>5 DEF WriteQuality
    <3>. QED BY <1>3, <3>1
  <2>. QED BY <2>3, <2>4, <2>5
<1>. QED BY <1>1, <1>5, <1>6, <1>7, <1>8
--------------------------------------------------------------------------------
(* A profile written into a document, all of its fields. *)

LEMMA SettingsAreValues ==
  ASSUME NEW set \in Settings, NEW field \in ToSet(Fields)
  PROVE  set[field] \in Values[field]
BY ValuesAssumption

LEMMA FieldsWrittenUnfolds ==
  ASSUME NEW set \in Settings, NEW doc \in Seq(Lines)
  PROVE  \E g \in [0..Len(Fields) -> Seq(Lines)] :
           /\ g[0] = doc
           /\ \A n \in 1..Len(Fields) : g[n] = WriteField(g[n - 1], Fields[n], set[Fields[n]])
           /\ FieldsWritten(set, doc) = g[Len(Fields)]
<1> DEFINE m == Len(Fields)
           X == Seq(Lines)
           write(n, d) == WriteField(d, Fields[n], set[Fields[n]])
           step == [n \in 1..m |-> [d \in X |-> write(n, d)]]
           Is(g) == g = [n \in 0..m |-> IF n = 0 THEN doc ELSE write(n, g[n - 1])]
<1>1. m \in Nat /\ \A n \in 1..m : Fields[n] \in ToSet(Fields)
  BY FieldsAssumption DEF ToSet
<1>2. step \in [1..m -> [X -> X]]
  <2>1. ASSUME NEW n \in 1..m, NEW d \in X PROVE write(n, d) \in X
    <3>1. Fields[n] \in ToSet(Fields) /\ set[Fields[n]] \in Values[Fields[n]]
      BY <1>1, SettingsAreValues
    <3>. QED BY <3>1, WriteFieldWrites
  <2> HIDE DEF X, write, m
  <2>. QED BY <2>1
<1> HIDE DEF X, m, write
<1>3. PICK g \in [0..m -> X] : Unfolds(g, doc, step, m)
  <2>1. doc \in X
    BY DEF X
  <2> HIDE DEF step
  <2>. QED BY <1>1, <1>2, <2>1, RecursionExists
<1>4. \A n \in 1..m : g[n] = write(n, g[n - 1])
  <2>1. \A n \in 1..m : g[n - 1] \in X
    BY <1>1, <1>3
  <2>2. \A n \in 1..m : step[n][g[n - 1]] = write(n, g[n - 1])
    BY <2>1
  <2> HIDE DEF step
  <2>. QED BY <1>3, <2>2 DEF Unfolds
<1>5. g[0] = doc
  BY <1>3 DEF Unfolds
<1>6. Is(g)
  <2>1. g = [n \in 0..m |-> g[n]]
    BY <1>3
  <2>2. \A n \in 0..m : g[n] = IF n = 0 THEN doc ELSE write(n, g[n - 1])
    BY <1>1, <1>4, <1>5
  <2>. QED BY <2>1, <2>2
<1> DEFINE f == CHOOSE h : Is(h)
<1>7. Is(f)
  <2> HIDE DEF Is
  <2>. QED BY <1>6
<1>8. FieldsWritten(set, doc) = f[m]
  BY DEF FieldsWritten, m, write
<1> HIDE DEF f
<1>9. \A n \in 0..m : f[n] = IF n = 0 THEN doc ELSE write(n, f[n - 1])
  BY <1>7
<1>10. f = [n \in 0..m |-> f[n]]
  BY <1>7
<1> HIDE DEF Is
<1>11. \A n \in 0..m : f[n] = g[n]
  <2> DEFINE T == {n \in 0..m : f[n] = g[n]}
  <2>1. 0 \in T
    BY <1>1, <1>5, <1>9
  <2>2. ASSUME NEW n \in 1..m, n - 1 \in T PROVE n \in T
    <3>1. n \in 0..m /\ n # 0
      BY <1>1
    <3>2. f[n] = g[n]
      BY <1>4, <1>9, <2>2, <3>1
    <3>. QED BY <3>1, <3>2
  <2> HIDE DEF T
  <2>3. \A n \in 0..m : n \in T
    BY <1>1, <2>1, <2>2, UpTo
  <2>. QED BY <2>3 DEF T
<1>12. m \in 0..m
  BY <1>1
<1>. QED BY <1>3, <1>4, <1>5, <1>8, <1>11, <1>12 DEF X, m, write

(* Every field is in the file, every line of another key is as it was.     *)
LEMMA FromProfileWrites ==
  ASSUME NEW set \in Settings, NEW doc \in Seq(Lines)
  PROVE  /\ FromProfile(set, doc) \in Seq(Lines)
         /\ In(FromProfile(set, doc), KeyClass(Other)) = In(doc, KeyClass(Other))
         /\ \A f \in ToSet(Fields) : InFile(FromProfile(set, doc), f, set[f])
<1> DEFINE m == Len(Fields)
<1>1. /\ m \in Nat /\ \A n \in 1..m : Fields[n] \in ToSet(Fields)
      /\ \A f \in ToSet(Fields) : \E n \in 1..m : Fields[n] = f
  BY FieldsAssumption DEF ToSet
<1>2. PICK g \in [0..m -> Seq(Lines)] :
        /\ g[0] = doc
        /\ \A n \in 1..m : g[n] = WriteField(g[n - 1], Fields[n], set[Fields[n]])
        /\ FieldsWritten(set, doc) = g[m]
  BY FieldsWrittenUnfolds
<1> HIDE DEF m
<1>3. ASSUME NEW n \in 1..m
      PROVE  /\ g[n - 1] \in Seq(Lines)
             /\ \A C : (\A line \in C : line.key \notin {Fields[n], "perf"}) =>
                          In(g[n], C) = In(g[n - 1], C)
             /\ InFile(g[n], Fields[n], set[Fields[n]])
  <2>1. n - 1 \in 0..m /\ Fields[n] \in ToSet(Fields) /\ set[Fields[n]] \in Values[Fields[n]]
    BY <1>1, SettingsAreValues
  <2>2. g[n - 1] \in Seq(Lines) /\ g[n] = WriteField(g[n - 1], Fields[n], set[Fields[n]])
    BY <1>2, <2>1
  <2>. QED BY <2>1, <2>2, WriteFieldWrites
<1>4. ASSUME NEW f \in ToSet(Fields), NEW n \in 1..m, f # Fields[n], InFile(g[n - 1], f, set[f])
      PROVE  InFile(g[n], f, set[f])
  <2>1. f # "perf"
    BY FieldKinds
  <2>2. \A line \in KeyClass(f) \cup ScanClass(f) : line.key \notin {Fields[n], "perf"}
    BY <1>4, <2>1 DEF KeyClass, ScanClass
  <2>3. /\ In(g[n], KeyClass(f)) = In(g[n - 1], KeyClass(f))
        /\ In(g[n], ScanClass(f)) = In(g[n - 1], ScanClass(f))
    BY <1>3, <2>2
  <2>4. g[n] \in Seq(Lines) /\ g[n - 1] \in Seq(Lines)
    BY <1>1, <1>2
  <2>5. GetValue(g[n], f) = GetValue(g[n - 1], f) /\ ScanKey(g[n], f) = ScanKey(g[n - 1], f)
    BY <2>3, <2>4, ReadOfClass DEF FirstValue
  <2>. QED BY <1>4, <2>5 DEF InFile
<1> DEFINE Written(n) == \A k \in 1..n : InFile(g[n], Fields[k], set[Fields[k]])
           T == {n \in 0..m : In(g[n], KeyClass(Other)) = In(doc, KeyClass(Other)) /\ Written(n)}
<1>5. 0 \in T
  BY <1>1, <1>2
<1>6. ASSUME NEW n \in 1..m, n - 1 \in T PROVE n \in T
  <2>1. n \in 0..m /\ n - 1 \in 0..m
    BY <1>1
  <2>2. In(g[n], KeyClass(Other)) = In(doc, KeyClass(Other))
    <3>1. Fields[n] # Other
      BY <1>1, FieldKinds
    <3>2. \A line \in KeyClass(Other) : line.key \notin {Fields[n], "perf"}
      BY <3>1 DEF KeyClass, Other
    <3>3. In(g[n - 1], KeyClass(Other)) = In(doc, KeyClass(Other))
      BY <1>6
    <3>. QED BY <1>3, <3>2, <3>3
  <2>3. ASSUME NEW k \in 1..n PROVE InFile(g[n], Fields[k], set[Fields[k]])
    <3>1. k \in 1..m /\ Fields[k] \in ToSet(Fields)
      BY <1>1
    <3>2. CASE Fields[k] = Fields[n]
      BY <1>3, <3>2
    <3>3. CASE Fields[k] # Fields[n]
      <4>1. k \in 1..(n - 1)
        BY <1>1, <3>3
      <4>2. InFile(g[n - 1], Fields[k], set[Fields[k]])
        BY <1>6, <4>1
      <4>. QED BY <1>4, <3>1, <3>3, <4>2
    <3>. QED BY <3>2, <3>3
  <2>. QED BY <2>1, <2>2, <2>3
<1> HIDE DEF T
<1>7. \A n \in 0..m : n \in T
  BY <1>1, <1>5, <1>6, UpTo
<1>8. m \in T /\ m \in 0..m
  BY <1>1, <1>7
<1>9. FromProfile(set, doc) = g[m]
  BY <1>2 DEF FromProfile
<1>10. Written(m)
  BY <1>8 DEF T
<1>11. In(g[m], KeyClass(Other)) = In(doc, KeyClass(Other))
  BY <1>8 DEF T
<1>12. \A f \in ToSet(Fields) : InFile(g[m], f, set[f])
  BY <1>1, <1>10
<1>. QED BY <1>2, <1>8, <1>9, <1>11, <1>12
--------------------------------------------------------------------------------
(* Types.  A profile read from a file has values its fields may hold.      *)

LEMMA IntoSettings ==
  ASSUME NEW set, set = [f \in ToSet(Fields) |-> set[f]],
         \A f \in ToSet(Fields) : set[f] \in Values[f]
  PROVE  set \in Settings
<1>1. set \in [ToSet(Fields) -> UNION {Values[f] : f \in ToSet(Fields)}]
  OBVIOUS
<1>. QED BY <1>1, ValuesAssumption

LEMMA FreshIsSettings == FreshProfile \in Settings
<1>1. \A f \in ToSet(Fields) : FreshProfile[f] \in Values[f]
  BY ValuesAssumption DEF FreshProfile
<1>2. FreshProfile = [f \in ToSet(Fields) |-> FreshProfile[f]]
  BY DEF FreshProfile
<1>. QED BY <1>1, <1>2, IntoSettings

(* Settings in the form's rows are settings the rows hold. *)
LEMMA RowsHold ==
  ASSUME NEW set \in Settings
  PROVE  InRows(set) \in FormSettings
<1> DEFINE new == InRows(set)
<1>1. DOMAIN set = ToSet(Fields)
  BY ValuesAssumption
<1>2. new = [f \in ToSet(Fields) |-> RowValue(f, set[f])]
  BY <1>1 DEF InRows
<1>3. ASSUME NEW f \in ToSet(Fields)
      PROVE  /\ RowValue(f, set[f]) \in Values[f]
             /\ RowValue(f, RowValue(f, set[f])) = RowValue(f, set[f])
  <2>1. set[f] \in Values[f]
    BY SettingsAreValues
  <2>2. CASE f = "quality"
    <3>1. Empty \in Values[f]
      BY <2>2, ValuesAssumption DEF Initially, Required, Sticky, Removable
    <3>. QED BY <2>1, <2>2, <3>1 DEF RowValue, SpinOrRef
  <2>3. CASE f # "quality" /\ f \in SpinOrRef
    BY <2>1, <2>3, RowsAssumption DEF RowValue
  <2>4. CASE f # "quality" /\ f \notin SpinOrRef
    BY <2>1, <2>4 DEF RowValue
  <2>. QED BY <2>2, <2>3, <2>4
<1>4. /\ new = [f \in ToSet(Fields) |-> new[f]]
      /\ \A f \in ToSet(Fields) : new[f] \in Values[f] /\ RowValue(f, new[f]) = new[f]
  BY <1>2, <1>3
<1> HIDE DEF new
<1>5. new \in Settings
  BY <1>4, IntoSettings
<1>6. InRows(new) = [f \in ToSet(Fields) |-> RowValue(f, new[f])]
  BY <1>4 DEF InRows
<1>7. InRows(new) = new
  BY <1>4, <1>6
<1>8. new \in FormSettings
  BY <1>5, <1>7 DEF FormSettings
<1>. QED BY <1>8 DEF new

LEMMA FreshInRows == FreshProfile \in FormSettings
<1>1. DOMAIN FreshProfile = ToSet(Fields)
  BY DEF FreshProfile
<1>2. Initially["quality"] = Empty
  BY DEF Initially, Required, Sticky, Removable
<1>3. ASSUME NEW f \in ToSet(Fields) PROVE RowValue(f, FreshProfile[f]) = FreshProfile[f]
  <2>1. FreshProfile[f] = Initially[f]
    BY DEF FreshProfile
  <2>. QED BY <1>2, <2>1, RowsAssumption DEF RowValue
<1>4. InRows(FreshProfile) = [f \in ToSet(Fields) |-> FreshProfile[f]]
  BY <1>1, <1>3 DEF InRows
<1>5. FreshProfile = [f \in ToSet(Fields) |-> FreshProfile[f]]
  BY DEF FreshProfile
<1>. QED BY <1>4, <1>5, FreshIsSettings DEF FormSettings

LEMMA ValueOfKey ==
  ASSUME NEW doc \in Seq(Lines), NEW key, GetValue(doc, key) # Unset
  PROVE  /\ GetValue(doc, key) \in STRING
         /\ key \in ToSet(Fields) => GetValue(doc, key) \in Values[key]
<1>1. \E i \in DOMAIN doc : doc[i].key = key /\ GetValue(doc, key) = doc[i].value
  <2>1. Has(doc, key)
    BY DEF GetValue
  <2> DEFINE P == LinesOf(doc, key)
  <2>2. P \subseteq Nat /\ P # {}
    BY <2>1 DEF Has, LinesOf
  <2>3. \E i \in P : \A j \in P : i <= j
    <3> HIDE DEF P
    <3>. QED BY <2>2, LeastNat
  <2>4. FindLine(doc, key) \in P
    BY <2>3 DEF FindLine
  <2>. QED BY <2>1, <2>4 DEF GetValue, LinesOf
<1>2. \A i \in DOMAIN doc : doc[i] \in Lines
  OBVIOUS
<1>. QED BY <1>1, <1>2 DEF Lines

LEMMA ReadIsSettings ==
  ASSUME NEW doc \in Seq(Lines), NEW before \in Settings
  PROVE  ToProfile(doc, before) \in Settings
<1>1. DOMAIN before = ToSet(Fields)
  BY ValuesAssumption
<1>2. ASSUME NEW f \in ToSet(Fields) PROVE ReadField(doc, f, before[f]) \in Values[f]
  <2>1. before[f] \in Values[f]
    BY SettingsAreValues
  <2>2. GetValue(doc, f) # Unset => GetValue(doc, f) \in Values[f]
    BY ValueOfKey
  <2>3. FirstSet(GetValue(doc, f), before[f]) \in Values[f]
    BY <2>1, <2>2 DEF FirstSet
  <2>4. CASE f = "quality"
    <3>1. InferQuality(doc) # Empty => InferQuality(doc) \in Values[f]
      BY <2>4, ValuesAssumption DEF InferQuality
    <3>2. ReadField(doc, f, before[f]) =
            IF GetValue(doc, f) # Unset THEN GetValue(doc, f)
            ELSE IF InferQuality(doc) # Empty THEN InferQuality(doc) ELSE before[f]
      BY <2>4 DEF ReadField
    <3>. QED BY <2>1, <2>2, <3>1, <3>2
  <2>5. CASE f = "address"
    <3>1. ReadField(doc, f, before[f]) = HostIn(FirstSet(GetValue(doc, f), before[f]))
      BY <2>5 DEF ReadField
    <3>. QED BY <2>3, <2>5, <3>1, ValuesAssumption
  <2>6. CASE f = "port"
    <3>1. ReadField(doc, f, before[f]) =
            FirstSet(GetValue(doc, f), FirstSet(PortIn(GetValue(doc, "address")), before[f]))
      BY <2>6 DEF ReadField
    <3>2. PortIn(GetValue(doc, "address")) # Unset => PortIn(GetValue(doc, "address")) \in Values[f]
      <4>1. PortIn(Unset) = Unset
        BY DEF PortIn, Unset
      <4>2. "address" \in ToSet(Fields)
        BY FieldsAssumption
      <4>3. GetValue(doc, "address") # Unset => GetValue(doc, "address") \in Values["address"]
        BY <4>2, ValueOfKey
      <4>. QED BY <2>6, <4>1, <4>3, ValuesAssumption
    <3>. QED BY <2>1, <2>2, <3>1, <3>2 DEF FirstSet
  <2>7. CASE f \notin {"quality", "address", "port"}
    <3>1. ReadField(doc, f, before[f]) = FirstSet(GetValue(doc, f), before[f])
      BY <2>7 DEF ReadField
    <3>. QED BY <2>3, <3>1
  <2>. QED BY <2>4, <2>5, <2>6, <2>7
<1>3. ToProfile(doc, before) = [f \in ToSet(Fields) |-> ReadField(doc, f, before[f])]
  BY <1>1 DEF ToProfile
<1> DEFINE set == ToProfile(doc, before)
<1>4. /\ set = [f \in ToSet(Fields) |-> set[f]]
      /\ \A f \in ToSet(Fields) : set[f] \in Values[f]
  BY <1>2, <1>3
<1> HIDE DEF set
<1>5. set \in Settings
  BY <1>4, IntoSettings
<1>. QED BY <1>5 DEF set
--------------------------------------------------------------------------------
(* The list keeps its type. *)

LEMMA EntryIsProfile ==
  ASSUME NEW typed \in Typed, NEW link \in Paths \cup {NoLink}, NEW set \in Settings,
         Trim[typed] # Blank
  PROVE  Entry(typed, link, set) \in Profile /\ Trim[typed] \in Names
BY StoreAssumption DEF Entry, Profile

LEMMA NamesAreNames ==
  ASSUME NEW list \in Seq(Profile)
  PROVE  NamesOf(list) \subseteq Names /\ \A i \in DOMAIN list : list[i] \in Profile
<1>1. \A i \in DOMAIN list : list[i] \in Profile
  OBVIOUS
<1>2. \A p \in Profile : p.name \in Names
  BY DEF Profile
<1>. QED BY <1>1, <1>2 DEF NamesOf

LEMMA AddTyped ==
  ASSUME StoreTypeOK, NEW typed \in Typed, NEW link \in Paths \cup {NoLink}, NEW set \in Settings,
         AddProfile(typed, link, set)
  PROVE  StoreTypeOK'
<1>1. Entry(typed, link, set) \in Profile
  BY EntryIsProfile DEF AddProfile, CanAdd, Validate
<1>. QED BY <1>1 DEF StoreTypeOK, AddProfile, Added, SaveSteps

LEMMA UpdateTyped ==
  ASSUME StoreTypeOK, NEW typed \in Typed, NEW link \in Paths \cup {NoLink}, NEW set \in Settings,
         NEW original, UpdateProfile(original, typed, link, set)
  PROVE  StoreTypeOK'
<1>1. Entry(typed, link, set) \in Profile
  BY EntryIsProfile DEF UpdateProfile, CanUpdate, Validate
<1>2. original \in Names
  BY NamesAreNames DEF UpdateProfile, CanUpdate, Find, StoreTypeOK
<1>3. profiles' \in Seq(Profile)
  <2>1. profiles \in Seq(Profile)
    BY DEF StoreTypeOK
  <2>2. profiles' = [profiles EXCEPT ![IndexOf(profiles, original)] = Entry(typed, link, set)]
    BY DEF UpdateProfile, Updated
  <2>3. \A i \in DOMAIN profiles : profiles'[i] \in Profile
    BY <1>1, <2>1, <2>2
  <2>4. DOMAIN profiles' = 1..Len(profiles) /\ Len(profiles) \in Nat
    BY <2>1, <2>2
  <2>5. DOMAIN profiles = 1..Len(profiles) /\ profiles' = [i \in DOMAIN profiles |-> profiles'[i]]
    <3>1. DOMAIN profiles = 1..Len(profiles)
      BY <2>1
    <3> DEFINE k == IndexOf(profiles, original)
    <3> HIDE DEF k
    <3>2. profiles' = [i \in DOMAIN profiles |-> IF i = k THEN Entry(typed, link, set) ELSE profiles[i]]
      BY <2>2, Zenon DEF k
    <3>. QED BY <3>1, <3>2
  <2>. QED BY <2>1, <2>3, <2>4, <2>5
<1>. QED BY <1>2, <1>3 DEF StoreTypeOK, UpdateProfile, SaveSteps

LEMMA RemoveTyped ==
  ASSUME StoreTypeOK, NEW name \in Names, RemoveProfile(name)
  PROVE  StoreTypeOK'
<1>1. profiles \in Seq(Profile) /\ Len(profiles) - 1 \in Nat /\ DOMAIN profiles = 1..Len(profiles)
  <2>1. profiles \in Seq(Profile) /\ DOMAIN profiles # {}
    BY DEF StoreTypeOK, RemoveProfile, Find, NamesOf
  <2>. QED BY <2>1
<1>2. profiles' \in Seq(Profile)
  <2> DEFINE k == IndexOf(profiles, name)
             n == Len(profiles) - 1
             at(i) == IF i < k THEN profiles[i] ELSE profiles[i + 1]
  <2>1. profiles' = [i \in 1..n |-> at(i)]
    BY DEF RemoveProfile, Removed
  <2>2. \A i \in 1..n : at(i) \in Profile
    BY <1>1
  <2> HIDE DEF at
  <2>. QED BY <1>1, <2>1, <2>2
<1>. QED BY <1>2 DEF StoreTypeOK, RemoveProfile, SaveSteps

LEMMA StartTyped ==
  ASSUME StoreTypeOK, NEW readable, Start(readable)
  PROVE  StoreTypeOK'
<1>1. Reload(ini) \in Seq(Profile)
  <2>1. ini \in Seq(Profile) /\ Reread \in [Settings -> Settings]
    BY StoreAssumption DEF StoreTypeOK
  <2>2. \A p \in Profile : [p EXCEPT !.set = Reread[@]] \in Profile
    BY <2>1 DEF Profile
  <2> HIDE DEF Profile
  <2>. QED BY <2>1, <2>2 DEF Reload
<1>2. << >> \in Seq(Profile)
  OBVIOUS
<1>. QED BY <1>1, <1>2 DEF StoreTypeOK, Start, SaveSteps

LEMMA SaveTyped ==
  ASSUME StoreTypeOK, SaveStep \/ Die
  PROVE  StoreTypeOK'
<1>1. /\ << >> \in Seq(Profile)
      /\ profiles \in Seq(Profile) /\ ini \in Seq(Profile) /\ tmp \in Seq(Profile)
      /\ tmp \o profiles \in Seq(Profile)
  BY DEF StoreTypeOK
<1>2. profiles' \in Seq(Profile) /\ ini' \in Seq(Profile) /\ tmp' \in Seq(Profile)
  BY <1>1 DEF SaveStep, Die, OpenTmp, WriteTmp, ChmodTmp, RenameTmp, OpenFails, SaveFails
<1>3. tmpThere' \in BOOLEAN /\ blind' \in BOOLEAN
  BY DEF StoreTypeOK, SaveStep, Die, OpenTmp, WriteTmp, ChmodTmp, RenameTmp, OpenFails, SaveFails
<1>4. saving' \in SaveSteps /\ dropped' \subseteq Names
  BY DEF StoreTypeOK, SaveStep, Die, OpenTmp, WriteTmp, ChmodTmp, RenameTmp, OpenFails,
         SaveFails, SaveSteps
<1>. QED BY <1>2, <1>3, <1>4 DEF StoreTypeOK
--------------------------------------------------------------------------------
(* The window keeps its types. *)

EditForms ==
  [original : Names \cup {Blank}, name : Typed, link : Paths \cup {NoLink},
   loaded : Paths \cup {NoLink}, set : FormSettings, shown : BOOLEAN]

LEMMA PathChangedTyped ==
  ASSUME file \in [Paths -> Seq(Lines)], NEW f \in EditForms, NEW path \in Paths \cup {NoLink},
         NEW readable
  PROVE  PathChanged(f, path, readable) \in EditForms
<1> DEFINE filled == path # NoLink /\ path # f.loaded /\ file[path] # << >> /\ readable
           set == IF filled THEN InRows(ToProfile(file[path], FreshProfile)) ELSE f.set
           loaded == IF filled \/ path = f.loaded THEN path ELSE NoLink
<1>1. set \in FormSettings
  BY FreshIsSettings, ReadIsSettings, RowsHold DEF EditForms
<1>2. loaded \in Paths \cup {NoLink}
  OBVIOUS
<1>3. PathChanged(f, path, readable) = [f EXCEPT !.link = path, !.set = set, !.loaded = loaded]
  BY DEF PathChanged
<1> HIDE DEF set, loaded
<1>. QED BY <1>1, <1>2, <1>3 DEF EditForms

LEMMA PresentTyped ==
  ASSUME file \in [Paths -> Seq(Lines)], NEW original \in Names \cup {Blank}, NEW name \in Typed,
         NEW link \in Paths \cup {NoLink}, NEW set \in Settings, NEW readable
  PROVE  Present(original, name, link, set, readable) \in EditForms
<1>1. [original |-> original, name |-> name, link |-> NoLink, loaded |-> NoLink,
       set |-> InRows(set), shown |-> TRUE] \in EditForms
  BY RowsHold DEF EditForms
<1>. QED BY <1>1, PathChangedTyped DEF Present

LEMMA SuggestedTyped ==
  ASSUME NEW base \in Typed
  PROVE  SuggestedName(base) \in Typed
<1> DEFINE candidates == <<base>> \o Numbered[base]
           isFree(i) == ~Find(profiles, candidates[i])
           P == {i \in DOMAIN candidates : isFree(i)}
           k == CHOOSE i \in DOMAIN candidates : isFree(i) /\ \A j \in 1..(i - 1) : ~isFree(j)
<1>1. candidates \in Seq(Typed)
  BY DialogsAssumption
<1>2. SuggestedName(base) = IF \E i \in DOMAIN candidates : isFree(i) THEN candidates[k] ELSE base
  BY DEF SuggestedName
<1> HIDE DEF candidates
<1>3. ASSUME NEW i \in DOMAIN candidates, isFree(i) PROVE k \in DOMAIN candidates
  <2>1. P \subseteq Nat /\ P # {}
    BY <1>1, <1>3
  <2>2. PICK n \in P : \A j \in P : n <= j
    <3> HIDE DEF P
    <3>. QED BY <2>1, LeastNat
  <2>3. \A j \in 1..(n - 1) : ~isFree(j)
    BY <1>1, <2>2
  <2> HIDE DEF isFree
  <2>. QED BY <2>2, <2>3
<1> HIDE DEF isFree, k
<1>. QED BY <1>1, <1>2, <1>3

LEMMA RowNames ==
  ASSUME StoreTypeOK
  PROVE  /\ NamesOf(profiles) \subseteq Names
         /\ \A i \in DOMAIN profiles : /\ profiles[i].name \in Names
                                       /\ profiles[i].link \in Paths \cup {NoLink}
                                       /\ profiles[i].set \in Settings
<1>1. profiles \in Seq(Profile)
  BY DEF StoreTypeOK
<1>2. \A p \in Profile : /\ p.name \in Names /\ p.link \in Paths \cup {NoLink} /\ p.set \in Settings
  BY DEF Profile
<1>. QED BY <1>1, <1>2, NamesAreNames

LEMMA FoundInList ==
  ASSUME NEW list \in Seq(Profile), NEW name, Find(list, name)
  PROVE  IndexOf(list, name) \in DOMAIN list /\ list[IndexOf(list, name)].name = name
<1> DEFINE P == {j \in DOMAIN list : list[j].name = name}
<1>1. PICK n \in DOMAIN list : list[n].name = name
  BY DEF Find, NamesOf
<1>2. P \subseteq Nat /\ P # {}
  BY <1>1
<1>3. PICK k \in P : \A j \in P : k <= j
  <2> HIDE DEF P
  <2>. QED BY <1>2, LeastNat
<1>. QED BY <1>3 DEF IndexOf

(* Files and their writers, and the window's dialogs, are typed. *)
FilesTyped == /\ file \in [Paths -> Seq(Lines)]
              /\ writer \in [Paths -> Names \cup {Unset, Pending}]

DialogsTyped == /\ form \in EditForms
                /\ doomed \in [name : Names \cup {Blank}, alive : BOOLEAN, shown : BOOLEAN]
                /\ committing \in BOOLEAN
                /\ chooser \in Names \cup {Unset, "import"}

CountersTyped == foreign \in Nat /\ gestures \in Nat /\ faults \in Nat

LEMMA TypeOKIs == TypeOK <=> StoreTypeOK /\ FilesTyped /\ DialogsTyped /\ CountersTyped
BY DEF TypeOK, FilesTyped, DialogsTyped, CountersTyped, EditForms

LEMMA FileOrNot ==
  ASSUME [Next]_vars
  PROVE  \/ SaveToFile \/ SaveToStore \/ StoreRefuses \/ Exit
         \/ \E path \in Paths : \/ OnExportFileChosen(path)
                                \/ OnWindowDrop(path)
                                \/ \E doc \in Documents : ForeignWrite(path, doc)
         \/ UNCHANGED <<file, writer>>
<1>1. (OnAddClicked \/ CancelForm \/ SaveWorks \/ SaveEnds \/ OnDeleteCancelled
       \/ OnImportClicked \/ ChooserDismissed \/ UNCHANGED vars)
        => UNCHANGED <<file, writer>>
  BY DEF OnAddClicked, CancelForm, SaveWorks, SaveEnds, OnDeleteCancelled, OnImportClicked,
         Choose, ChooserDismissed, vars, uiVars
<1>2. ASSUME NEW i \in DOMAIN profiles,
             \/ \E readable \in BOOLEAN : OnEditClicked(i, readable)
             \/ OnDeleteClicked(i)
             \/ OnExportClicked(i)
      PROVE  UNCHANGED <<file, writer>>
  BY <1>2 DEF OnEditClicked, OnDeleteClicked, OnExportClicked, Choose
<1>3. (\E typed \in Typed : ChangeName(typed)) \/ (\E set \in Forms : ChangeFields(set))
      \/ (\E path \in Paths \cup {NoLink} : ChangePath(path))
      \/ (\E readable \in BOOLEAN : StartManager(readable))
      \/ (\E name \in Names : OnDeleteConfirmed(name))
      \/ (\E path \in Paths : OnImportFileChosen(path))
        => UNCHANGED <<file, writer>>
  BY DEF ChangeName, ChangeFields, ChangePath, EditForm, StartManager, OnDeleteConfirmed,
         OnImportFileChosen
<1>. QED BY <1>1, <1>2, <1>3 DEF Next

LEMMA FilesStayTyped ==
  ASSUME TypeOK, [Next]_vars
  PROVE  FilesTyped'
<1> USE DEF FilesTyped
<1>1. StoreTypeOK /\ FilesTyped /\ DialogsTyped
  BY TypeOKIs
<1>2. ASSUME form.shown, SaveToFile PROVE FilesTyped'
  <2>1. form.link \in Paths \cup {NoLink} /\ form.set \in Settings
    BY <1>1 DEF DialogsTyped, EditForms, FormSettings
  <2>2. form.link \in Paths => FromProfile(form.set, file[form.link]) \in Seq(Lines)
    BY <1>1, <2>1, FromProfileWrites
  <2>3. NoLink \notin Paths
    BY StoreAssumption
  <2>. QED BY <1>1, <1>2, <2>1, <2>2, <2>3 DEF SaveToFile, Replaced
<1>3. CASE SaveToStore
  <2>1. form.name \in Typed /\ Trim[form.name] # Blank
    BY <1>1, <1>3 DEF DialogsTyped, EditForms, SaveToStore, AddProfile, UpdateProfile, CanAdd,
                      CanUpdate, Validate
  <2>2. Trim[form.name] \in Names
    BY <2>1, StoreAssumption
  <2>. QED BY <1>1, <1>3, <2>2 DEF SaveToStore
<1>4. CASE StoreRefuses
  BY <1>1, <1>4 DEF StoreRefuses
<1>5. ASSUME NEW path \in Paths, OnExportFileChosen(path) PROVE FilesTyped'
  <2>1. CASE Find(profiles, chooser)
    <3> DEFINE i == IndexOf(profiles, chooser)
    <3>1. i \in DOMAIN profiles
      BY <1>1, <2>1, FoundInList DEF StoreTypeOK
    <3>2. profiles[i].set \in Settings
      BY <1>1, <3>1, RowNames
    <3>3. FromProfile(profiles[i].set, file[path]) \in Seq(Lines)
      BY <1>1, <3>2, FromProfileWrites
    <3>. QED BY <1>1, <1>5, <2>1, <3>3 DEF OnExportFileChosen, Replaced
  <2>2. CASE ~Find(profiles, chooser)
    BY <1>1, <1>5, <2>2 DEF OnExportFileChosen
  <2>. QED BY <2>1, <2>2
<1>6. ASSUME NEW path \in Paths, OnWindowDrop(path) PROVE FilesTyped'
  <2>1. SuggestedName(FileName[path]) \in Typed
    BY SuggestedTyped, DialogsAssumption
  <2>2. Trim[SuggestedName(FileName[path])] \in Names
    BY <1>6, <2>1, StoreAssumption DEF OnWindowDrop, AddProfile, CanAdd, Validate
  <2>. QED BY <1>1, <1>6, <2>2 DEF OnWindowDrop
<1>7. ASSUME NEW path \in Paths, NEW doc \in Documents, ForeignWrite(path, doc) PROVE FilesTyped'
  <2>1. doc \in Seq(Lines)
    BY DialogsAssumption
  <2>. QED BY <1>1, <1>7, <2>1 DEF ForeignWrite
<1>8. CASE Exit
  BY <1>1, <1>8 DEF Exit
<1>9. UNCHANGED <<file, writer>> => FilesTyped'
  BY <1>1
<1>10. SaveToFile => form.shown
  BY DEF SaveToFile
<1>. QED BY <1>2, <1>3, <1>4, <1>5, <1>6, <1>7, <1>8, <1>9, <1>10, FileOrNot

LEMMA DialogsStayTyped ==
  ASSUME TypeOK, [Next]_vars
  PROVE  DialogsTyped'
<1> USE DEF DialogsTyped
<1>1. StoreTypeOK /\ file \in [Paths -> Seq(Lines)] /\ DialogsTyped
  BY TypeOKIs DEF FilesTyped
<1>2. NoForm \in EditForms /\ NoRow \in [name : Names \cup {Blank}, alive : BOOLEAN, shown : BOOLEAN]
  BY FreshInRows, DialogsAssumption DEF NoForm, NoRow, EditForms
<1>3. CASE OnAddClicked
  <2>1. Present(Blank, Blank, NoLink, FreshProfile, TRUE) \in EditForms
    BY <1>1, FreshIsSettings, DialogsAssumption, PresentTyped
  <2>. QED BY <1>1, <1>3, <2>1 DEF OnAddClicked
<1>4. ASSUME NEW i \in DOMAIN profiles, NEW readable \in BOOLEAN, OnEditClicked(i, readable)
      PROVE  DialogsTyped'
  <2> DEFINE p == profiles[i]
  <2>1. p.name \in Names /\ p.link \in Paths \cup {NoLink} /\ p.set \in Settings
    BY <1>1, RowNames
  <2>2. Present(p.name, p.name, p.link, p.set, readable) \in EditForms
    <3>1. p.name \in Names \cup {Blank} /\ p.name \in Typed
      BY <2>1, StoreAssumption
    <3> HIDE DEF p
    <3>. QED BY <1>1, <2>1, <3>1, PresentTyped
  <2>. QED BY <1>1, <1>4, <2>2 DEF OnEditClicked
<1>5. ASSUME NEW changed \in EditForms, EditForm(changed) PROVE DialogsTyped'
  BY <1>1, <1>5 DEF EditForm
<1>6. ASSUME NEW typed \in Typed, ChangeName(typed) PROVE DialogsTyped'
  <2>1. [form EXCEPT !.name = typed] \in EditForms
    BY <1>1 DEF EditForms
  <2>. QED BY <1>5, <1>6, <2>1 DEF ChangeName
<1>7. ASSUME NEW set \in Forms, ChangeFields(set) PROVE DialogsTyped'
  <2>1. set \in FormSettings
    BY DialogsAssumption
  <2>2. [form EXCEPT !.set = set] \in EditForms
    BY <1>1, <2>1 DEF EditForms
  <2>. QED BY <1>5, <1>7, <2>2 DEF ChangeFields
<1>8. ASSUME NEW path \in Paths \cup {NoLink}, ChangePath(path) PROVE DialogsTyped'
  <2>1. PathChanged(form, path, TRUE) \in EditForms
    BY <1>1, PathChangedTyped
  <2>. QED BY <1>5, <1>8, <2>1 DEF ChangePath
<1>9. CASE CancelForm \/ SaveToFile \/ SaveToStore \/ StoreRefuses
  <2>1. form' = form \/ form' = NoForm
    BY <1>9 DEF CancelForm, SaveToFile, SaveToStore, StoreRefuses
  <2>2. committing' \in BOOLEAN /\ UNCHANGED <<doomed, chooser>>
    BY <1>1, <1>9 DEF CancelForm, SaveToFile, SaveToStore, StoreRefuses
  <2>. QED BY <1>1, <1>2, <2>1, <2>2
<1>10. CASE SaveEnds
  <2>1. doomed' = [doomed EXCEPT !.alive = FALSE] /\ UNCHANGED <<form, chooser, committing>>
    BY <1>10 DEF SaveEnds, RefreshList
  <2>. QED BY <1>1, <2>1
<1>11. ASSUME NEW i \in DOMAIN profiles, OnDeleteClicked(i) PROVE DialogsTyped'
  <2>1. profiles[i].name \in Names
    BY <1>1, RowNames
  <2>. QED BY <1>1, <1>11, <2>1 DEF OnDeleteClicked
<1>12. CASE OnDeleteCancelled \/ \E name \in Names : OnDeleteConfirmed(name)
  <2>1. doomed' = NoRow /\ UNCHANGED <<form, chooser, committing>>
    BY <1>12 DEF OnDeleteCancelled, OnDeleteConfirmed
  <2>. QED BY <1>1, <1>2, <2>1
<1>13. ASSUME NEW i \in DOMAIN profiles, OnExportClicked(i) PROVE DialogsTyped'
  <2>1. profiles[i].name \in Names
    BY <1>1, RowNames
  <2>. QED BY <1>1, <1>13, <2>1 DEF OnExportClicked, Choose
<1>14. CASE OnImportClicked \/ ChooserDismissed
  BY <1>1, <1>14 DEF OnImportClicked, Choose, ChooserDismissed
<1>15. ASSUME NEW path \in Paths, OnImportFileChosen(path) PROVE DialogsTyped'
  <2>1. SuggestedName(FileName[path]) \in Typed
    BY SuggestedTyped, DialogsAssumption
  <2>2. ToProfile(file[path], FreshProfile) \in Settings
    BY <1>1, FreshIsSettings, ReadIsSettings
  <2>3. Present(Blank, SuggestedName(FileName[path]), path, ToProfile(file[path], FreshProfile), TRUE)
          \in EditForms
    BY <1>1, <2>1, <2>2, PresentTyped
  <2>. QED BY <1>1, <1>15, <2>3 DEF OnImportFileChosen
<1>16. ASSUME NEW path \in Paths, OnExportFileChosen(path) PROVE DialogsTyped'
  BY <1>1, <1>16 DEF OnExportFileChosen
<1>17. ASSUME NEW path \in Paths, OnWindowDrop(path) \/ \E doc \in Documents : ForeignWrite(path, doc)
       PROVE  DialogsTyped'
  BY <1>1, <1>17 DEF OnWindowDrop, ForeignWrite
<1>18. CASE SaveWorks \/ (\E readable \in BOOLEAN : StartManager(readable)) \/ UNCHANGED vars
  BY <1>1, <1>18 DEF SaveWorks, StartManager, vars, uiVars
<1>19. CASE Exit
  BY <1>1, <1>2, <1>19 DEF Exit
<1>. QED BY <1>3, <1>4, <1>6, <1>7, <1>8, <1>9, <1>10, <1>11, <1>12, <1>13, <1>14, <1>15, <1>16,
            <1>17, <1>18, <1>19 DEF Next

LEMMA StoreStaysTyped ==
  ASSUME TypeOK, [Next]_vars
  PROVE  StoreTypeOK'
<1>1. StoreTypeOK /\ FilesTyped /\ DialogsTyped
  BY TypeOKIs
<1>2. ASSUME NEW readable \in BOOLEAN, StartManager(readable) PROVE StoreTypeOK'
  BY <1>1, <1>2, StartTyped DEF StartManager
<1>3. CASE SaveToStore
  <2>1. form.name \in Typed /\ form.link \in Paths \cup {NoLink} /\ form.set \in Settings
    BY <1>1 DEF DialogsTyped, EditForms, FormSettings
  <2>. QED BY <1>1, <1>3, <2>1, AddTyped, UpdateTyped DEF SaveToStore
<1>4. CASE SaveWorks \/ SaveEnds \/ Exit
  <2>1. SaveStep \/ Die
    BY <1>4 DEF SaveWorks, SaveEnds, SaveStep, Exit
  <2>. QED BY <1>1, <2>1, SaveTyped
<1>5. ASSUME NEW name \in Names, OnDeleteConfirmed(name) PROVE StoreTypeOK'
  BY <1>1, <1>5, RemoveTyped DEF OnDeleteConfirmed
<1>6. ASSUME NEW path \in Paths, OnWindowDrop(path) PROVE StoreTypeOK'
  <2>1. SuggestedName(FileName[path]) \in Typed
    BY SuggestedTyped, DialogsAssumption
  <2>2. ToProfile(file[path], FreshProfile) \in Settings
    BY <1>1, FreshIsSettings, ReadIsSettings DEF FilesTyped
  <2>. QED BY <1>1, <1>6, <2>1, <2>2, AddTyped DEF OnWindowDrop
<1>7. CASE UNCHANGED storeVars
  BY <1>1, <1>7 DEF storeVars, StoreTypeOK
<1>. QED BY <1>2, <1>3, <1>4, <1>5, <1>6, <1>7, StoreOrNot

LEMMA CountersStayTyped ==
  ASSUME TypeOK, [Next]_vars
  PROVE  CountersTyped'
<1>1. foreign \in Nat /\ gestures \in Nat /\ faults \in Nat
  BY TypeOKIs DEF CountersTyped
<1>2. ASSUME \/ UNCHANGED counters
             \/ Gesture \/ Fault
             \/ foreign' = foreign + 1 /\ UNCHANGED <<gestures, faults>>
             \/ /\ gestures' \in {gestures, gestures + 1} /\ faults' \in {faults, faults + 1}
                /\ UNCHANGED foreign
      PROVE  CountersTyped'
  BY <1>1, <1>2 DEF CountersTyped, counters, Gesture, Fault
<1>3. CASE OnAddClicked \/ CancelForm \/ SaveToFile \/ SaveToStore \/ StoreRefuses \/ SaveWorks
           \/ SaveEnds \/ OnDeleteCancelled \/ OnImportClicked \/ ChooserDismissed \/ Exit
           \/ UNCHANGED vars
  <2>1. UNCHANGED counters \/ Gesture \/ Fault
    BY <1>3 DEF OnAddClicked, CancelForm, SaveToFile, SaveToStore, StoreRefuses, SaveWorks,
       SaveEnds, OnDeleteCancelled, OnImportClicked, Choose, ChooserDismissed, Exit, vars,
       uiVars, counters
  <2>. QED BY <1>2, <2>1
<1>4. ASSUME NEW i \in DOMAIN profiles, OnDeleteClicked(i) \/ OnExportClicked(i)
      PROVE  CountersTyped'
  BY <1>2, <1>4 DEF OnDeleteClicked, OnExportClicked, Choose
<1>5. ASSUME NEW readable \in BOOLEAN,
             StartManager(readable) \/ \E i \in DOMAIN profiles : OnEditClicked(i, readable)
      PROVE  CountersTyped'
  BY <1>2, <1>5 DEF StartManager, OnEditClicked, FaultUnless
<1>6. ASSUME NEW changed, EditForm(changed) PROVE CountersTyped'
  BY <1>2, <1>6 DEF EditForm
<1>7. (\E typed \in Typed : ChangeName(typed)) \/ (\E set \in Forms : ChangeFields(set))
      \/ (\E path \in Paths \cup {NoLink} : ChangePath(path))
        => CountersTyped'
  BY <1>6 DEF ChangeName, ChangeFields, ChangePath
<1>8. ASSUME NEW name \in Names, OnDeleteConfirmed(name) PROVE CountersTyped'
  BY <1>2, <1>8 DEF OnDeleteConfirmed
<1>9. ASSUME NEW path \in Paths,
             \/ OnImportFileChosen(path) \/ OnExportFileChosen(path) \/ OnWindowDrop(path)
             \/ \E doc \in Documents : ForeignWrite(path, doc)
      PROVE  CountersTyped'
  <2>1. UNCHANGED counters \/ Gesture \/ (foreign' = foreign + 1 /\ UNCHANGED <<gestures, faults>>)
    BY <1>9 DEF OnImportFileChosen, OnExportFileChosen, OnWindowDrop, ForeignWrite
  <2>. QED BY <1>2, <2>1
<1>. QED BY <1>3, <1>4, <1>5, <1>7, <1>8, <1>9 DEF Next

LEMMA InitTyped == Init => TypeOK
<1> SUFFICES ASSUME Init PROVE StoreTypeOK /\ FilesTyped /\ DialogsTyped /\ CountersTyped
    BY TypeOKIs
<1>1. StoreTypeOK
  <2>1. profiles \in Seq(Profile) /\ ini \in Seq(Profile) /\ tmp \in Seq(Profile)
    BY DEF Init, StoreInit
  <2>. QED BY <2>1 DEF Init, StoreInit, StoreTypeOK, SaveSteps
<1>2. FilesTyped
  <2>1. Documents \subseteq Seq(Lines)
    BY DialogsAssumption
  <2>. QED BY <2>1 DEF Init, FilesTyped
<1>3. DialogsTyped
  BY FreshInRows, DialogsAssumption DEF Init, DialogsTyped, NoForm, NoRow, EditForms
<1>4. CountersTyped
  BY DEF Init, CountersTyped
<1>. QED BY <1>1, <1>2, <1>3, <1>4

(* The list, the files, the open dialogs and the counters of the window    *)
(* are always of their types: a profile read from any .rdp file is one the *)
(* form and the store could hold.                                          *)
THEOREM ProfilesTypeCorrect == Spec => []TypeOK
<1>1. TypeOK /\ [Next]_vars => TypeOK'
  <2> SUFFICES ASSUME TypeOK, [Next]_vars PROVE TypeOK'
      OBVIOUS
  <2>1. StoreTypeOK' /\ FilesTyped' /\ DialogsTyped' /\ CountersTyped'
    BY StoreStaysTyped, FilesStayTyped, DialogsStayTyped, CountersStayTyped
  <2>. QED BY <2>1 DEF TypeOK, FilesTyped, DialogsTyped, CountersTyped, EditForms
<1>. QED BY <1>1, InitTyped, PTL DEF Spec
--------------------------------------------------------------------------------
(* Lines the manager does not understand. *)

LEMMA OthersAreClass ==
  ASSUME NEW doc \in Seq(Lines)
  PROVE  OthersOf(doc) = In(doc, KeyClass(Other))
<1>1. LinesOf(doc, Other) = PlacesOf(doc, KeyClass(Other))
  <2>1. \A i \in DOMAIN doc : doc[i] \in Lines
    OBVIOUS
  <2>. QED BY <2>1 DEF LinesOf, PlacesOf, KeyClass
<1>. QED BY <1>1 DEF OthersOf, In

LEMMA FromProfileKeepsOthers ==
  ASSUME NEW set \in Settings, NEW doc \in Seq(Lines)
  PROVE  OthersOf(FromProfile(set, doc)) = OthersOf(doc)
BY FromProfileWrites, OthersAreClass

LEMMA StepKeepsOthers ==
  ASSUME TypeOK, [Next]_vars, foreign' = foreign
  PROVE  \A f \in Paths : OthersOf(file'[f]) = OthersOf(file[f])
<1>1. StoreTypeOK /\ FilesTyped /\ DialogsTyped
  BY TypeOKIs
<1>2. ASSUME NEW path \in Paths, NEW set \in Settings,
             file' = Replaced(path, FromProfile(set, file[path]))
      PROVE  \A f \in Paths : OthersOf(file'[f]) = OthersOf(file[f])
  <2>1. file[path] \in Seq(Lines)
    BY <1>1 DEF FilesTyped
  <2>2. OthersOf(FromProfile(set, file[path])) = OthersOf(file[path])
    BY <2>1, FromProfileKeepsOthers
  <2>. QED BY <1>1, <1>2, <2>2 DEF Replaced, FilesTyped
<1>3. CASE SaveToFile
  <2>1. form.set \in Settings /\ form.link \in Paths \cup {NoLink}
    BY <1>1 DEF DialogsTyped, EditForms, FormSettings
  <2>. QED BY <1>2, <1>3, <2>1 DEF SaveToFile
<1>4. ASSUME NEW path \in Paths, OnExportFileChosen(path)
      PROVE  \A f \in Paths : OthersOf(file'[f]) = OthersOf(file[f])
  <2>1. CASE Find(profiles, chooser)
    <3> DEFINE i == IndexOf(profiles, chooser)
    <3>1. i \in DOMAIN profiles
      BY <1>1, <2>1, FoundInList DEF StoreTypeOK
    <3>2. profiles[i].set \in Settings
      BY <1>1, <3>1, RowNames
    <3>. QED BY <1>2, <1>4, <2>1, <3>2 DEF OnExportFileChosen
  <2>2. CASE ~Find(profiles, chooser)
    BY <1>4, <2>2 DEF OnExportFileChosen
  <2>. QED BY <2>1, <2>2
<1>5. ASSUME NEW path \in Paths, NEW doc, ForeignWrite(path, doc)
      PROVE  FALSE
  <2>1. foreign' = foreign + 1 /\ foreign \in Nat
    BY <1>5, TypeOKIs DEF ForeignWrite, CountersTyped
  <2>. QED BY <2>1
<1>6. CASE SaveToStore \/ StoreRefuses \/ Exit \/ \E path \in Paths : OnWindowDrop(path)
  BY <1>6 DEF SaveToStore, StoreRefuses, Exit, OnWindowDrop
<1>. QED BY <1>3, <1>4, <1>5, <1>6, FileOrNot

(* "preserving every line it doesn't understand, verbatim and in order":   *)
(* no handler of the manager changes, drops, adds or moves such a line, in *)
(* any file, whatever fields are written into it and in whatever order.    *)
THEOREM ProfilesKeepOthers == Spec => OthersKept
<1>1. TypeOK /\ [Next]_vars
        => [foreign' = foreign => \A f \in Paths : OthersOf(file'[f]) = OthersOf(file[f])]_vars
  BY StepKeepsOthers
<1>. QED BY <1>1, ProfilesTypeCorrect, PTL DEF Spec, OthersKept
--------------------------------------------------------------------------------
(* What a saved file shows when the form is opened on it again. *)

LEMMA SavedIsRead ==
  ASSUME NEW doc \in Seq(Lines), NEW set \in Settings,
         \A f \in ToSet(Fields) : InFile(doc, f, set[f]),
         HostIn(set["address"]) = set["address"],
         NEW f \in ToSet(Fields)
  PROVE  LET shown == ToProfile(doc, FreshProfile)[f]
         IN  \/ shown = set[f]
             \/ set[f] = Empty /\ f = "quality" /\ shown = InferQuality(doc)
             \/ set[f] = Empty /\ f = "combo" /\ shown = Initially[f]
<1> DEFINE v == set[f]
           shown == ReadField(doc, f, Initially[f])
<1>1. ToProfile(doc, FreshProfile)[f] = shown
  BY DEF ToProfile, FreshProfile
<1>2. InFile(doc, f, v) /\ v # Unset
  <2>1. v \in Values[f]
    BY SettingsAreValues
  <2>. QED BY <2>1, FieldLine
<1>3. /\ Initially["username"] = Empty /\ Initially["domain"] = Empty
      /\ Initially["opref"] = Empty /\ Initially["quality"] = Empty
  BY DEF Initially, Removable, Sticky, Required
<1>4. CASE f = "quality"
  <2>1. shown = IF GetValue(doc, f) # Unset THEN GetValue(doc, f)
                ELSE IF InferQuality(doc) # Empty THEN InferQuality(doc) ELSE Initially[f]
    BY <1>4 DEF ReadField
  <2>2. f \notin Sticky
    BY <1>4 DEF Sticky
  <2>. QED BY <1>1, <1>2, <1>3, <1>4, <2>1, <2>2 DEF InFile, InferQuality
<1>5. CASE f = "address"
  <2>1. shown = HostIn(FirstSet(GetValue(doc, f), Initially[f]))
    BY <1>5 DEF ReadField
  <2>2. GetValue(doc, f) = v
    BY <1>2, <1>5 DEF InFile, Sticky, Removable
  <2>. QED BY <1>1, <1>2, <1>5, <2>1, <2>2 DEF FirstSet
<1>6. CASE f = "port"
  <2>1. shown = FirstSet(GetValue(doc, f), FirstSet(PortIn(GetValue(doc, "address")), Initially[f]))
    BY <1>6 DEF ReadField
  <2>2. PortIn(GetValue(doc, "address")) = Unset
    <3>1. InFile(doc, "address", set["address"])
      BY FieldsAssumption
    <3>2. GetValue(doc, "address") = set["address"]
      BY <3>1 DEF InFile, Sticky, Removable
    <3>3. set["address"] # "host:3390"
      BY DEF HostIn
    <3>. QED BY <3>2, <3>3 DEF PortIn
  <2>3. GetValue(doc, f) = v \/ (GetValue(doc, f) = Unset /\ v = Initially[f])
    BY <1>2, <1>6 DEF InFile, Removable
  <2>. QED BY <1>1, <1>2, <2>1, <2>2, <2>3 DEF FirstSet
<1>7. CASE f \notin {"quality", "address", "port"}
  <2>1. shown = FirstSet(GetValue(doc, f), Initially[f])
    BY <1>7 DEF ReadField
  <2>2. CASE GetValue(doc, f) = v
    BY <1>1, <1>2, <2>1, <2>2 DEF FirstSet
  <2>3. CASE GetValue(doc, f) = Unset /\ v = Initially[f]
    BY <1>1, <2>1, <2>3 DEF FirstSet
  <2>4. CASE GetValue(doc, f) = Unset /\ f \in Removable /\ v = Empty
    <3>1. f \in {"username", "domain", "combo", "opref"}
      BY <2>4 DEF Removable
    <3>2. f = "combo" \/ Initially[f] = Empty
      BY <1>3, <3>1
    <3>. QED BY <1>1, <2>1, <2>4, <3>2 DEF FirstSet
  <2>. QED BY <1>2, <1>7, <2>2, <2>3, <2>4 DEF InFile
<1>. QED BY <1>4, <1>5, <1>6, <1>7

LEMMA CommitsOnlyBySaving ==
  ASSUME TypeOK, [Next]_vars, committing', ~committing
  PROVE  SaveToFile
<1>1. committing \in BOOLEAN
  BY TypeOKIs DEF DialogsTyped
<1>2. (OnAddClicked \/ CancelForm \/ SaveWorks \/ SaveEnds \/ OnDeleteCancelled
       \/ OnImportClicked \/ ChooserDismissed \/ UNCHANGED vars)
        => committing' = committing
  BY DEF OnAddClicked, CancelForm, SaveWorks, SaveEnds, OnDeleteCancelled, OnImportClicked,
         Choose, ChooserDismissed, vars, uiVars
<1>3. SaveToStore \/ StoreRefuses \/ Exit => committing' = FALSE
  BY DEF SaveToStore, StoreRefuses, Exit
<1>4. ASSUME NEW i \in DOMAIN profiles,
             \/ \E readable \in BOOLEAN : OnEditClicked(i, readable)
             \/ OnDeleteClicked(i)
             \/ OnExportClicked(i)
      PROVE  committing' = committing
  BY <1>4 DEF OnEditClicked, OnDeleteClicked, OnExportClicked, Choose
<1>5. (\E typed \in Typed : ChangeName(typed)) \/ (\E set \in Forms : ChangeFields(set))
      \/ (\E path \in Paths \cup {NoLink} : ChangePath(path))
      \/ (\E readable \in BOOLEAN : StartManager(readable))
      \/ (\E name \in Names : OnDeleteConfirmed(name))
        => committing' = committing
  BY DEF ChangeName, ChangeFields, ChangePath, EditForm, StartManager, OnDeleteConfirmed
<1>6. ASSUME NEW path \in Paths,
             \/ OnImportFileChosen(path) \/ OnExportFileChosen(path) \/ OnWindowDrop(path)
             \/ \E doc \in Documents : ForeignWrite(path, doc)
      PROVE  committing' = committing
  BY <1>6 DEF OnImportFileChosen, OnExportFileChosen, OnWindowDrop, ForeignWrite
<1>. QED BY <1>1, <1>2, <1>3, <1>4, <1>5, <1>6 DEF Next

LEMMA StepShowsAsSaved ==
  ASSUME TypeOK, [Next]_vars, committing', ~committing, form.link # NoLink,
         HostIn(form.set["address"]) = form.set["address"]
  PROVE  LET saved == file'[form.link]
             shown == InRows(ToProfile(saved, FreshProfile))
         IN  \A f \in DOMAIN shown :
               \/ shown[f] = form.set[f]
               \/ form.set[f] = Empty /\ f = "quality" /\ shown[f] = InferQuality(saved)
               \/ form.set[f] = Empty /\ f = "combo" /\ shown[f] = Initially[f]
<1>1. SaveToFile
  BY CommitsOnlyBySaving
<1>2. /\ file \in [Paths -> Seq(Lines)]
      /\ form.set \in Settings /\ form.link \in Paths /\ InRows(form.set) = form.set
  BY TypeOKIs DEF FilesTyped, DialogsTyped, EditForms, FormSettings
<1> DEFINE doc == FromProfile(form.set, file[form.link])
<1>3. doc \in Seq(Lines) /\ \A f \in ToSet(Fields) : InFile(doc, f, form.set[f])
  BY <1>2, FromProfileWrites
<1>4. file'[form.link] = doc
  BY <1>1, <1>2 DEF SaveToFile, Replaced
<1> HIDE DEF doc
<1> DEFINE read == ToProfile(doc, FreshProfile)
           shown == InRows(read)
<1>5. DOMAIN read = ToSet(Fields) /\ DOMAIN shown = ToSet(Fields)
  BY DEF ToProfile, FreshProfile, InRows
<1>6. ASSUME NEW f \in ToSet(Fields)
      PROVE  \/ shown[f] = form.set[f]
             \/ form.set[f] = Empty /\ f = "quality" /\ shown[f] = InferQuality(doc)
             \/ form.set[f] = Empty /\ f = "combo" /\ shown[f] = Initially[f]
  <2>1. shown[f] = RowValue(f, read[f])
    BY <1>5 DEF InRows
  <2>2. \/ read[f] = form.set[f]
        \/ form.set[f] = Empty /\ f = "quality" /\ read[f] = InferQuality(doc)
        \/ form.set[f] = Empty /\ f = "combo" /\ read[f] = Initially[f]
    BY <1>2, <1>3, SavedIsRead
  <2>3. RowValue(f, form.set[f]) = form.set[f]
    <3>1. DOMAIN form.set = ToSet(Fields)
      BY <1>2, ValuesAssumption
    <3>2. InRows(form.set)[f] = RowValue(f, form.set[f])
      BY <3>1 DEF InRows
    <3>. QED BY <1>2, <3>2
  <2>4. f = "quality" => RowValue(f, InferQuality(doc)) = InferQuality(doc)
    BY DEF RowValue, InferQuality, SpinOrRef
  <2>5. f = "combo" => RowValue(f, Initially[f]) = Initially[f]
    BY DEF RowValue, SpinOrRef
  <2> HIDE DEF read, shown
  <2>. QED BY <2>1, <2>2, <2>3, <2>4, <2>5
<1>. QED BY <1>4, <1>5, <1>6

(* The rows of the form opened on a file just saved hold what was saved    *)
(* from them, whatever lines the file had before and whoever wrote them.   *)
THEOREM ProfilesShowAsSaved == Spec => ShownAsSaved
<1> DEFINE Shows ==
      LET saved == file'[form.link]
          shown == InRows(ToProfile(saved, FreshProfile))
      IN  \A f \in DOMAIN shown :
            \/ shown[f] = form.set[f]
            \/ form.set[f] = Empty /\ f = "quality" /\ shown[f] = InferQuality(saved)
            \/ form.set[f] = Empty /\ f = "combo" /\ shown[f] = Initially[f]
<1>1. ASSUME TypeOK, [Next]_vars
      PROVE  [committing' /\ ~committing /\ form.link # NoLink
                /\ HostIn(form.set["address"]) = form.set["address"] => Shows]_vars
  BY <1>1, StepShowsAsSaved
<1>2. TypeOK /\ [Next]_vars
        => [committing' /\ ~committing /\ form.link # NoLink
              /\ HostIn(form.set["address"]) = form.set["address"] => Shows]_vars
  BY <1>1
<1>. QED BY <1>2, ProfilesTypeCorrect, PTL DEF Spec, ShownAsSaved
--------------------------------------------------------------------------------
(* A profile and its linked file in step. *)

Matches(set, doc) ==
  \A f \in OwnFields : SessionValue(SessionArgs(set), doc, f) = AskedFor(set, f)

LEMMA OwnFieldsAre ==
  ASSUME NEW f \in OwnFields, NEW set \in Settings
  PROVE  /\ f \in ToSet(Fields) /\ f \in DOMAIN set
         /\ f = "quality" \/ (f \in {"shortcuts", "cert"} /\ set[f] \in {"0", "1"})
         /\ SessionArgs(set)[f] =
              IF f = "quality" THEN IF set[f] = Empty THEN Unset ELSE set[f]
              ELSE IF set[f] = "1" THEN "1" ELSE Unset
         /\ set[f] # Unset
<1>1. f \in ToSet(Fields) /\ f \in {"quality", "shortcuts", "cert"}
  BY DialogsAssumption
<1>2. DOMAIN set = ToSet(Fields)
  BY ValuesAssumption
<1>3. set[f] \in Values[f]
  BY <1>1, SettingsAreValues
<1>4. f \in {"shortcuts", "cert"} => set[f] \in {"0", "1"}
  BY <1>1, <1>3, ValuesAssumption
<1>5. set[f] # Unset
  BY <1>1, <1>3, FieldLine
<1>. QED BY <1>1, <1>2, <1>4, <1>5 DEF SessionArgs

(* What the session runs with depends on the flag and on what its scan     *)
(* finds.                                                                  *)
LEMMA RunsAsAsked ==
  ASSUME NEW set \in Settings, NEW doc, NEW f \in OwnFields,
         \/ ScanKey(doc, f) = Unset
              /\ (set[f] \in {Initially[f], Empty} \/ f = "quality")
         \/ ScanKey(doc, f) = set[f]
  PROVE  SessionValue(SessionArgs(set), doc, f) = AskedFor(set, f)
<1> DEFINE v == set[f]
           arg == SessionArgs(set)[f]
           scan == ScanKey(doc, f)
<1>1. /\ f = "quality" \/ (f \in {"shortcuts", "cert"} /\ v \in {"0", "1"})
      /\ arg = IF f = "quality" THEN IF v = Empty THEN Unset ELSE v
               ELSE IF v = "1" THEN "1" ELSE Unset
      /\ v # Unset
  BY OwnFieldsAre
<1>2. SessionValue(SessionArgs(set), doc, f) =
        IF Usable(f, arg) THEN arg ELSE IF Usable(f, scan) THEN scan ELSE SessionDefault(f)
  BY DEF SessionValue
<1>3. CASE f = "quality"
  <2>1. Usable(f, arg) <=> v \in Presets
    BY <1>1, <1>3, FieldsAssumption DEF Usable
  <2>2. ~Usable(f, arg) => ~Usable(f, scan)
    BY <1>1, <1>3, <2>1, FieldsAssumption DEF Usable
  <2>3. v \in Presets => arg = v /\ v # Empty
    BY <1>1, <1>3, FieldsAssumption
  <2>. QED BY <1>2, <1>3, <2>1, <2>2, <2>3 DEF AskedFor
<1>4. CASE f # "quality" /\ v = "1"
  <2>1. v # Empty
    BY <1>4, Zenon DEF Empty
  <2>2. arg = "1" /\ "1" # Unset
    BY <1>1, <1>4 DEF Unset
  <2>. QED BY <1>2, <1>4, <2>1, <2>2 DEF AskedFor, Usable
<1>5. CASE f # "quality" /\ v = "0"
  <2>1. v # Empty
    BY <1>5, Zenon DEF Empty
  <2>2. arg = Unset
    BY <1>1, <1>5
  <2>3. f \in {"shortcuts", "cert"} /\ Initially[f] = "0"
    BY <1>1, <1>5 DEF Initially, Required, Sticky, Removable
  <2>4. scan \in {Unset, "0"} /\ SessionDefault(f) = "0"
    BY <1>5, <2>3 DEF SessionDefault
  <2>. QED BY <1>2, <1>5, <2>1, <2>2, <2>4 DEF AskedFor, Usable
<1>. QED BY <1>1, <1>3, <1>4, <1>5

LEMMA SavedMatches ==
  ASSUME NEW set \in Settings, NEW doc \in Seq(Lines)
  PROVE  Matches(set, FromProfile(set, doc))
<1> DEFINE new == FromProfile(set, doc)
<1>1. ASSUME NEW f \in OwnFields
      PROVE  SessionValue(SessionArgs(set), new, f) = AskedFor(set, f)
  <2>1. f \in ToSet(Fields)
    BY DialogsAssumption
  <2>2. InFile(new, f, set[f])
    BY <2>1, FromProfileWrites
  <2> HIDE DEF new
  <2>3. \/ ScanKey(new, f) = Unset /\ (set[f] \in {Initially[f], Empty} \/ f = "quality")
        \/ ScanKey(new, f) = set[f]
    BY <2>2 DEF InFile
  <2>. QED BY <2>3, RunsAsAsked
<1> HIDE DEF new
<1>. QED BY <1>1 DEF Matches, new

LEMMA DroppedMatches ==
  ASSUME NEW doc \in Seq(Lines), ScansAgree(doc)
  PROVE  Matches(ToProfile(doc, FreshProfile), doc)
<1> DEFINE set == ToProfile(doc, FreshProfile)
<1>1. set \in Settings
  BY FreshIsSettings, ReadIsSettings
<1>2. ASSUME NEW f \in OwnFields
      PROVE  \/ ScanKey(doc, f) = Unset /\ (set[f] \in {Initially[f], Empty} \/ f = "quality")
             \/ ScanKey(doc, f) = set[f]
             \/ f # "quality" /\ set[f] = "1"
  <2>1. f \in ToSet(Fields) /\ f \in {"quality", "shortcuts", "cert"}
    BY DialogsAssumption
  <2>2. ScanKey(doc, f) \in {Unset, GetValue(doc, f)}
    BY DEF ScansAgree
  <2>3. set[f] = ReadField(doc, f, Initially[f])
    BY <2>1 DEF ToProfile, FreshProfile
  <2>4. CASE f = "quality"
    BY <2>2, <2>3, <2>4 DEF ReadField
  <2>5. CASE f \in {"shortcuts", "cert"}
    <3>1. set[f] = FirstSet(GetValue(doc, f), Initially[f])
      BY <2>3, <2>5 DEF ReadField
    <3>2. Initially[f] = "0"
      BY <2>5 DEF Initially, Required, Sticky, Removable
    <3>3. set[f] \in {"0", "1"}
      BY <1>1, <2>5, OwnFieldsAre
    <3> HIDE DEF set
    <3>. QED BY <2>2, <2>5, <3>1, <3>2, <3>3 DEF FirstSet
  <2>. QED BY <2>1, <2>4, <2>5
<1> HIDE DEF set
<1>3. ASSUME NEW f \in OwnFields, f # "quality", set[f] = "1"
      PROVE  SessionValue(SessionArgs(set), doc, f) = AskedFor(set, f)
  <2>1. SessionArgs(set)[f] = "1"
    BY <1>1, <1>3, OwnFieldsAre
  <2>2. set[f] # Empty
    BY <1>3, Zenon DEF Empty
  <2>. QED BY <1>3, <2>1, <2>2 DEF SessionValue, AskedFor, Usable, Unset
<1>. QED BY <1>1, <1>2, <1>3, RunsAsAsked DEF Matches, set

(* A save and a load change nothing the session is told of.                *)
LEMMA RereadMatches ==
  ASSUME NEW set \in Settings, NEW doc, Matches(set, doc)
  PROVE  Matches(Reread[set], doc)
<1>1. Reread[set] \in Settings
  BY StoreAssumption
<1>2. ASSUME NEW f \in OwnFields
      PROVE  SessionValue(SessionArgs(Reread[set]), doc, f) = AskedFor(Reread[set], f)
  <2>1. Reread[set][f] = set[f]
    BY DialogsAssumption
  <2>2. SessionArgs(Reread[set])[f] = SessionArgs(set)[f]
    BY <1>1, <2>1, OwnFieldsAre
  <2>3. SessionValue(SessionArgs(set), doc, f) = AskedFor(set, f)
    BY DEF Matches
  <2>. QED BY <2>1, <2>2, <2>3 DEF SessionValue, AskedFor
<1>. QED BY <1>2 DEF Matches

(* Every profile that was the last to set its linked file matches it.      *)
Linked(list) ==
  \A i \in DOMAIN list :
    list[i].link # NoLink /\ writer[list[i].link] = list[i].name =>
      Matches(list[i].set, file[list[i].link])

(* A file that has been set on the way to the store is the open form's,    *)
(* and matches it; without a running program the profiles are those of     *)
(* profiles.ini.                                                           *)
SavingInStep ==
  /\ committing /\ form.link # NoLink =>
       /\ writer[form.link] \in {Pending, Unset}
       /\ writer[form.link] = Pending => Matches(form.set, file[form.link])
  /\ \A f \in Paths : writer[f] = Pending => committing /\ form.link = f

LinkInv ==
  /\ Linked(profiles)
  /\ saving = "down" => Linked(ini)
  /\ SavingInStep

LEMMA LinkStep ==
  ASSUME TypeOK, [Next]_vars
  PROVE  \/ \E readable \in BOOLEAN : StartManager(readable)
         \/ SaveToFile \/ SaveToStore \/ StoreRefuses \/ SaveWorks \/ SaveEnds \/ Exit
         \/ \E name \in Names : OnDeleteConfirmed(name)
         \/ \E path \in Paths : \/ OnExportFileChosen(path)
                                \/ OnWindowDrop(path)
                                \/ \E doc \in Documents : ForeignWrite(path, doc)
         \/ /\ UNCHANGED <<storeVars, file, writer, committing>>
            /\ committing => form' = form
<1> DEFINE Quiet == /\ UNCHANGED <<storeVars, file, writer, committing>>
                    /\ committing => form' = form
<1>1. OnAddClicked \/ CancelForm \/ OnDeleteCancelled \/ OnImportClicked \/ ChooserDismissed
      \/ UNCHANGED vars
        => Quiet
  BY DEF OnAddClicked, CancelForm, OnDeleteCancelled, OnImportClicked, Choose, ChooserDismissed,
         vars, uiVars, Idle, Free
<1>2. ASSUME NEW i \in DOMAIN profiles,
             \/ \E readable \in BOOLEAN : OnEditClicked(i, readable)
             \/ OnDeleteClicked(i)
             \/ OnExportClicked(i)
      PROVE  Quiet
  BY <1>2 DEF OnEditClicked, OnDeleteClicked, OnExportClicked, Choose, Idle, Free
<1>3. (\E typed \in Typed : ChangeName(typed)) \/ (\E set \in Forms : ChangeFields(set))
      \/ (\E path \in Paths \cup {NoLink} : ChangePath(path))
      \/ (\E path \in Paths : OnImportFileChosen(path))
        => Quiet
  BY DEF ChangeName, ChangeFields, ChangePath, EditForm, OnImportFileChosen, Free
<1>. QED BY <1>1, <1>2, <1>3 DEF Next


LEMMA InListIsTyped ==
  ASSUME NEW list \in Seq(Profile), NEW i \in DOMAIN list
  PROVE  /\ list[i].name \in Names /\ list[i].link \in Paths \cup {NoLink}
         /\ list[i].set \in Settings
         /\ list[i].name # Pending /\ list[i].name # Unset
<1>1. list[i] \in Profile
  OBVIOUS
<1>. QED BY <1>1, DialogsAssumption DEF Profile

LEMMA LinkInit == Init => LinkInv
<1> SUFFICES ASSUME Init PROVE LinkInv
    OBVIOUS
<1>1. Linked(profiles) /\ Linked(ini)
  BY DEF Init, StoreInit, Linked
<1>2. SavingInStep
  BY DEF Init, SavingInStep, Unset, Pending
<1>. QED BY <1>1, <1>2 DEF LinkInv

LEMMA LinkNext ==
  ASSUME TypeOK, IInv, LinkInv, [Next]_vars
  PROVE  LinkInv'
<1>1. /\ file \in [Paths -> Seq(Lines)] /\ writer \in [Paths -> Names \cup {Unset, Pending}]
      /\ profiles \in Seq(Profile) /\ ini \in Seq(Profile)
      /\ form.name \in Typed /\ form.link \in Paths \cup {NoLink} /\ form.set \in Settings
      /\ NoLink \notin Paths
  BY TypeOKIs, StoreAssumption DEF FilesTyped, StoreTypeOK, DialogsTyped, EditForms, FormSettings
<1>3. UniqueIn(profiles) /\ IsList(profiles)
  BY DEF IInv, NamesUnique, Lists
<1>4. \A i \in DOMAIN profiles : profiles[i].link # NoLink /\ writer[profiles[i].link] = profiles[i].name =>
                                   Matches(profiles[i].set, file[profiles[i].link])
  BY DEF LinkInv, Linked
<1>5. saving = "down" =>
        \A i \in DOMAIN ini : ini[i].link # NoLink /\ writer[ini[i].link] = ini[i].name =>
                                Matches(ini[i].set, file[ini[i].link])
  BY DEF LinkInv, Linked
<1>6. SavingInStep
  BY DEF LinkInv
<1>7. \A i \in DOMAIN profiles :
        /\ profiles[i].name \in Names /\ profiles[i].link \in Paths \cup {NoLink}
        /\ profiles[i].name # Pending /\ profiles[i].name # Unset
  BY <1>1, InListIsTyped
<1>8. \A i \in DOMAIN ini :
        /\ ini[i].name \in Names /\ ini[i].link \in Paths \cup {NoLink}
        /\ ini[i].name # Pending /\ ini[i].name # Unset
  BY <1>1, InListIsTyped
<1>10. ASSUME NEW readable \in BOOLEAN, StartManager(readable) PROVE LinkInv'
  <2>1. /\ saving = "down" /\ saving' = "idle" /\ UNCHANGED <<file, writer, form, committing>>
        /\ profiles' = Reload(ini) \/ profiles' = << >>
    BY <1>10 DEF StartManager, Start
  <2>2. Linked(profiles)'
    <3>1. CASE profiles' = << >>
      BY <3>1 DEF Linked
    <3>2. CASE profiles' = Reload(ini)
      <4>1. DOMAIN profiles' = DOMAIN ini
        BY <3>2 DEF Reload
      <4>2. ASSUME NEW i \in DOMAIN ini
            PROVE  /\ profiles'[i].name = ini[i].name /\ profiles'[i].link = ini[i].link
                   /\ profiles'[i].set = Reread[ini[i].set] /\ ini[i].set \in Settings
        <5>1. ini[i] \in Profile
          BY <1>1
        <5>2. profiles'[i] = [ini[i] EXCEPT !.set = Reread[@]]
          BY <3>2 DEF Reload
        <5>. QED BY <5>1, <5>2 DEF Profile
      <4>3. \A i \in DOMAIN ini : ini[i].link # NoLink /\ writer[ini[i].link] = ini[i].name =>
                                    Matches(Reread[ini[i].set], file[ini[i].link])
        BY <1>5, <2>1, <4>2, RereadMatches
      <4>. QED BY <2>1, <4>1, <4>2, <4>3 DEF Linked
    <3>. QED BY <2>1, <3>1, <3>2
  <2>3. SavingInStep'
    BY <1>6, <2>1 DEF SavingInStep
  <2>. QED BY <2>1, <2>2, <2>3 DEF LinkInv
<1>11. CASE SaveToFile
  <2>1. /\ saving = "idle" /\ ~committing /\ committing' = TRUE
        /\ UNCHANGED <<profiles, ini, saving, form>>
    BY <1>11 DEF SaveToFile, Free, storeVars
  <2>2. \A f \in Paths : writer[f] # Pending
    BY <1>6, <2>1 DEF SavingInStep
  <2>3. CASE form.link = NoLink
    <3>1. UNCHANGED <<file, writer>>
      BY <1>11, <2>3 DEF SaveToFile
    <3>2. SavingInStep'
      BY <2>1, <2>2, <2>3, <3>1 DEF SavingInStep
    <3>. QED BY <1>4, <2>1, <3>1, <3>2 DEF LinkInv, Linked
  <2>4. CASE form.link # NoLink
    <3> DEFINE doc == FromProfile(form.set, file[form.link])
    <3>1. Matches(form.set, doc) /\ form.link \in Paths
      BY <1>1, <2>4, SavedMatches
    <3>2. /\ file' = [file EXCEPT ![form.link] = doc]
          /\ writer' = [writer EXCEPT ![form.link] = Pending]
      BY <1>11, <2>4 DEF SaveToFile, Replaced
    <3> HIDE DEF doc
    <3>3. Linked(profiles)'
      BY <1>1, <1>4, <1>7, <2>1, <3>1, <3>2 DEF Linked
    <3>4. SavingInStep'
      BY <1>1, <2>1, <2>2, <3>1, <3>2 DEF SavingInStep
    <3>. QED BY <2>1, <3>3, <3>4 DEF LinkInv
  <2>. QED BY <2>3, <2>4
<1>12. CASE SaveToStore
  <2> DEFINE name == Trim[form.name]
             p == Entry(form.name, form.link, form.set)
  <2>1. /\ committing /\ committing' = FALSE /\ file' = file
        /\ writer' = [f \in Paths |-> IF writer[f] = Pending THEN name ELSE writer[f]]
        /\ saving = "idle" /\ saving' = "open"
        /\ p = [name |-> name, link |-> form.link, set |-> form.set]
        /\ name # Blank
    BY <1>12 DEF SaveToStore, AddProfile, UpdateProfile, CanAdd, CanUpdate, Validate, Entry
  <2>2. name \in Names /\ name # Pending /\ name # Unset
    BY <1>1, <2>1, StoreAssumption, DialogsAssumption
  <2>3. \A i \in DOMAIN profiles' :
          \/ profiles'[i] = p
          \/ \E j \in DOMAIN profiles : profiles[j] = profiles'[i] /\ profiles[j].name # name
    <3>1. CASE form.original = Blank
      <4>1. profiles' = Append(profiles, p) /\ ~Find(profiles, name)
        BY <1>12, <3>1 DEF SaveToStore, AddProfile, CanAdd, Added
      <4>2. \A j \in DOMAIN profiles : profiles[j].name # name
        BY <4>1 DEF Find, NamesOf
      <4>3. \A i \in DOMAIN profiles' : profiles'[i] = p \/ (i \in DOMAIN profiles /\ profiles'[i] = profiles[i])
        <5> HIDE DEF p
        <5>. QED BY <1>1, <4>1
      <4>. QED BY <4>2, <4>3
    <3>2. CASE form.original # Blank
      <4> DEFINE k == IndexOf(profiles, form.original)
      <4>1. /\ profiles' = [profiles EXCEPT ![k] = p] /\ Find(profiles, form.original)
            /\ name # form.original => ~Find(profiles, name)
        BY <1>12, <3>2 DEF SaveToStore, UpdateProfile, CanUpdate, Updated
      <4>2. /\ k \in DOMAIN profiles
            /\ \A j \in DOMAIN profiles : profiles[j].name = form.original => j = k
        BY <1>3, <4>1, PlaceOfName
      <4> HIDE DEF k, p
      <4>3. \A j \in DOMAIN profiles : j # k => profiles[j].name # name
        BY <4>1, <4>2 DEF Find, NamesOf
      <4>4. /\ DOMAIN profiles' = DOMAIN profiles /\ profiles'[k] = p
            /\ \A j \in DOMAIN profiles : j # k => profiles'[j] = profiles[j]
        BY <1>1, <4>1, <4>2
      <4>. QED BY <4>3, <4>4
    <3>. QED BY <3>1, <3>2
  <2> HIDE DEF name, p
  <2>4. Linked(profiles)'
    <3> SUFFICES ASSUME NEW i \in DOMAIN profiles', profiles'[i].link # NoLink,
                        writer'[profiles'[i].link] = profiles'[i].name
                 PROVE  Matches(profiles'[i].set, file'[profiles'[i].link])
        BY DEF Linked
    <3>1. CASE profiles'[i] = p
      <4>1. form.link # NoLink /\ form.link \in Paths /\ writer'[form.link] = name
        BY <1>1, <2>1, <3>1
      <4>2. writer[form.link] = Pending
        BY <1>6, <2>1, <2>2, <4>1 DEF SavingInStep
      <4>. QED BY <1>6, <2>1, <3>1, <4>1, <4>2 DEF SavingInStep
    <3>2. ASSUME NEW j \in DOMAIN profiles, profiles[j] = profiles'[i], profiles[j].name # name
          PROVE  Matches(profiles'[i].set, file'[profiles'[i].link])
      <4>1. profiles[j].link \in Paths
        BY <1>7, <3>2
      <4>2. writer[profiles[j].link] = profiles[j].name
        BY <2>1, <3>2, <4>1
      <4>. QED BY <1>4, <2>1, <3>2, <4>2
    <3>. QED BY <2>3, <3>1, <3>2
  <2>5. SavingInStep'
    BY <2>1, <2>2 DEF SavingInStep
  <2>. QED BY <2>1, <2>4, <2>5 DEF LinkInv
<1>13. CASE StoreRefuses
  <2>1. /\ committing' = FALSE /\ UNCHANGED <<profiles, ini, saving, file>>
        /\ writer' = [f \in Paths |-> IF writer[f] = Pending THEN Unset ELSE writer[f]]
    BY <1>13 DEF StoreRefuses, storeVars
  <2>2. Linked(profiles)'
    BY <1>4, <1>7, <2>1 DEF Linked
  <2>3. (saving = "down" => Linked(ini))'
    BY <1>5, <1>8, <2>1 DEF Linked
  <2>4. SavingInStep'
    BY <2>1 DEF SavingInStep, Unset, Pending
  <2>. QED BY <2>1, <2>2, <2>3, <2>4 DEF LinkInv
<1>14. CASE SaveWorks \/ SaveEnds
  <2>1. /\ saving # "down" /\ saving' # "down"
        /\ UNCHANGED <<profiles, file, writer, form, committing>>
    BY <1>14 DEF SaveWorks, SaveEnds, OpenTmp, WriteTmp, ChmodTmp, RenameTmp, OpenFails,
                 SaveFails, uiVars
  <2>2. Linked(profiles)' /\ SavingInStep'
    BY <1>4, <1>6, <2>1 DEF Linked, SavingInStep
  <2>. QED BY <2>1, <2>2 DEF LinkInv
<1>15. CASE Exit
  <2>1. /\ profiles' = << >> /\ committing' = FALSE /\ UNCHANGED <<ini, file>>
        /\ writer' = [f \in Paths |-> IF ini = profiles /\ writer[f] # Pending THEN writer[f]
                                      ELSE Unset]
    BY <1>15 DEF Exit, Die
  <2>2. Linked(profiles)'
    BY <2>1 DEF Linked
  <2>3. Linked(ini)'
    <3>1. CASE ini = profiles
      BY <1>4, <1>8, <2>1, <3>1 DEF Linked
    <3>2. CASE ini # profiles
      BY <1>8, <2>1, <3>2 DEF Linked
    <3>. QED BY <3>1, <3>2
  <2>4. SavingInStep'
    BY <2>1 DEF SavingInStep, Unset, Pending
  <2>. QED BY <2>1, <2>2, <2>3, <2>4 DEF LinkInv
<1>16. ASSUME NEW name \in Names, OnDeleteConfirmed(name) PROVE LinkInv'
  <2>1. /\ saving = "idle" /\ saving' = "open" /\ UNCHANGED <<file, writer, form, committing>>
        /\ Find(profiles, name) /\ profiles' = Removed(profiles, name)
    BY <1>16 DEF OnDeleteConfirmed, RemoveProfile
  <2>2. \A i \in DOMAIN profiles' : \E j \in DOMAIN profiles : profiles[j] = profiles'[i]
    <3> DEFINE k == IndexOf(profiles, name)
    <3>1. /\ DOMAIN profiles = 1..Len(profiles) /\ Len(profiles) - 1 \in Nat
      <4>1. DOMAIN profiles # {}
        BY <2>1 DEF Find, NamesOf
      <4>. QED BY <1>1, <4>1
    <3>2. k \in 1..Len(profiles)
      BY <1>1, <2>1, <3>1, FoundInList
    <3>3. profiles' = [i \in 1..(Len(profiles) - 1) |-> IF i < k THEN profiles[i] ELSE profiles[i + 1]]
      BY <2>1 DEF Removed
    <3> HIDE DEF k
    <3>4. ASSUME NEW i \in 1..(Len(profiles) - 1)
          PROVE  \E j \in DOMAIN profiles : profiles[j] = profiles'[i]
      <4>1. i \in DOMAIN profiles /\ i + 1 \in DOMAIN profiles
        BY <3>1
      <4>2. profiles'[i] = profiles[i] \/ profiles'[i] = profiles[i + 1]
        BY <3>3
      <4>. QED BY <4>1, <4>2
    <3>. QED BY <3>3, <3>4
  <2>3. Linked(profiles)'
    BY <1>4, <2>1, <2>2 DEF Linked
  <2>4. SavingInStep'
    BY <1>6, <2>1 DEF SavingInStep
  <2>. QED BY <2>1, <2>3, <2>4 DEF LinkInv
<1>17. ASSUME NEW path \in Paths, OnExportFileChosen(path) PROVE LinkInv'
  <2>1. /\ saving = "idle" /\ ~committing /\ UNCHANGED <<profiles, ini, saving, form, committing>>
    BY <1>17 DEF OnExportFileChosen, Free, storeVars
  <2>2. CASE ~Find(profiles, chooser)
    <3>1. UNCHANGED <<file, writer>>
      BY <1>17, <2>2 DEF OnExportFileChosen
    <3>2. Linked(profiles)' /\ SavingInStep'
      BY <1>4, <1>6, <2>1, <3>1 DEF Linked, SavingInStep
    <3>. QED BY <2>1, <3>1, <3>2 DEF LinkInv
  <2>3. CASE Find(profiles, chooser)
    <3> DEFINE set == profiles[IndexOf(profiles, chooser)].set
               doc == FromProfile(set, file[path])
    <3>1. file' = [file EXCEPT ![path] = doc] /\ writer' = [writer EXCEPT ![path] = Unset]
      BY <1>17, <2>3 DEF OnExportFileChosen, Replaced
    <3> HIDE DEF doc, set
    <3>2. Linked(profiles)'
      BY <1>1, <1>4, <1>7, <2>1, <3>1 DEF Linked
    <3>3. SavingInStep'
      BY <1>1, <1>6, <2>1, <3>1 DEF SavingInStep, Unset, Pending
    <3>. QED BY <2>1, <3>2, <3>3 DEF LinkInv
  <2>. QED BY <2>2, <2>3
<1>18. ASSUME NEW path \in Paths, OnWindowDrop(path) PROVE LinkInv'
  <2> DEFINE typed == SuggestedName(FileName[path])
             set == ToProfile(file[path], FreshProfile)
             name == Trim[typed]
             p == Entry(typed, path, set)
             agree == ScansAgree(file[path])
  <2>1. /\ ~committing /\ saving = "idle" /\ saving' = "open" /\ UNCHANGED <<file, form, committing>>
        /\ writer' = [writer EXCEPT ![path] = IF agree THEN name ELSE Unset]
        /\ profiles' = Append(profiles, p) /\ ~Find(profiles, name) /\ name # Blank
    BY <1>18 DEF OnWindowDrop, AddProfile, CanAdd, Validate, Added
  <2>2. p = [name |-> name, link |-> path, set |-> set]
    BY DEF Entry
  <2>3. name \in Names /\ name # Pending /\ name # Unset
    <3>1. typed \in Typed
      BY SuggestedTyped, DialogsAssumption
    <3> HIDE DEF typed
    <3>. QED BY <2>1, <3>1, StoreAssumption, DialogsAssumption
  <2>4. agree => Matches(set, file[path])
    BY <1>1, DroppedMatches
  <2>5. \A j \in DOMAIN profiles : profiles[j].name # name
    BY <2>1 DEF Find, NamesOf
  <2> HIDE DEF name, set, p, agree
  <2>6. \A i \in DOMAIN profiles' : profiles'[i] = p \/ (i \in DOMAIN profiles /\ profiles'[i] = profiles[i])
    BY <1>1, <2>1
  <2>7. Linked(profiles)'
    <3> SUFFICES ASSUME NEW i \in DOMAIN profiles', profiles'[i].link # NoLink,
                        writer'[profiles'[i].link] = profiles'[i].name
                 PROVE  Matches(profiles'[i].set, file'[profiles'[i].link])
        BY DEF Linked
    <3>1. CASE profiles'[i] = p
      <4>1. profiles'[i].link = path /\ profiles'[i].name = name /\ profiles'[i].set = set
        BY <2>2, <3>1
      <4>2. writer'[path] = name
        BY <4>1
      <4>3. agree
        BY <1>1, <2>1, <2>3, <4>2
      <4>. QED BY <2>1, <2>4, <4>1, <4>3
    <3>2. CASE i \in DOMAIN profiles /\ profiles'[i] = profiles[i]
      <4>1. profiles[i].link \in Paths /\ profiles[i].name \notin {name, Unset}
        BY <1>7, <2>5, <3>2
      <4>2. writer[profiles[i].link] = profiles[i].name
        BY <1>1, <2>1, <3>2, <4>1
      <4>. QED BY <1>4, <2>1, <3>2, <4>2
    <3>. QED BY <2>6, <3>1, <3>2
  <2>8. SavingInStep'
    BY <1>1, <1>6, <2>1, <2>3 DEF SavingInStep, Unset, Pending
  <2>. QED BY <2>1, <2>7, <2>8 DEF LinkInv
<1>19. ASSUME NEW path \in Paths, NEW doc \in Documents, ForeignWrite(path, doc) PROVE LinkInv'
  <2>1. /\ file' = [file EXCEPT ![path] = doc] /\ writer' = [writer EXCEPT ![path] = Unset]
        /\ UNCHANGED <<profiles, ini, saving, form, committing>>
    BY <1>19 DEF ForeignWrite, storeVars
  <2>2. Linked(profiles)'
    BY <1>1, <1>4, <1>7, <2>1 DEF Linked
  <2>3. (saving = "down" => Linked(ini))'
    BY <1>1, <1>5, <1>8, <2>1 DEF Linked
  <2>4. SavingInStep'
    BY <1>1, <1>6, <2>1 DEF SavingInStep, Unset, Pending
  <2>. QED BY <2>1, <2>2, <2>3, <2>4 DEF LinkInv
<1>20. CASE /\ UNCHANGED <<storeVars, file, writer, committing>>
            /\ committing => form' = form
  <2>1. UNCHANGED <<profiles, ini, saving>>
    BY <1>20 DEF storeVars
  <2>2. Linked(profiles)' /\ (saving = "down" => Linked(ini))'
    BY <1>4, <1>5, <1>20, <2>1 DEF Linked
  <2>3. SavingInStep'
    BY <1>6, <1>20 DEF SavingInStep
  <2>. QED BY <1>20, <2>2, <2>3 DEF LinkInv
<1>. QED BY <1>10, <1>11, <1>12, <1>13, <1>14, <1>15, <1>16, <1>17, <1>18, <1>19, <1>20, LinkStep

(* A session started from a profile that was the last to set its linked    *)
(* file, by Save or by a drop that set it, runs with what the profile      *)
(* shows, after any sequence of edits, renames, deletions, exports, writes *)
(* of any documents by other programs, failed saves, process ends and      *)
(* restarts.                                                               *)
THEOREM ProfilesLinkedInStep == Spec => []LinkedInStep
<1>1. Init => LinkInv
  BY LinkInit
<1>2. TypeOK /\ IInv /\ LinkInv /\ [Next]_vars => LinkInv'
  BY LinkNext
<1>3. LinkInv => LinkedInStep
  BY DEF LinkInv, Linked, LinkedInStep, Matches
<1>. QED BY <1>1, <1>2, <1>3, ProfilesTypeCorrect, StoreInvariant, PTL DEF Spec
=============================================================================
