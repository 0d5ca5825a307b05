------------------------------ MODULE RdpDocument ------------------------------
(***************************************************************************)
(* .rdp files as CoffeeRdpDocument (src/manager/coffee_rdp_document.cpp)   *)
(* reads, changes and writes them, and as the session reads the keys of    *)
(* its own (src/session/coffee_rdp_file.cpp).  A document is the sequence  *)
(* of the file's lines; a line that is no "name:type:value", or whose key  *)
(* the manager does not know, has the key Other.  The ten standard         *)
(* performance keys, always written together, are the one key "perf" whose *)
(* value names the row of kQualityTable they match, or Mixed.              *)
(***************************************************************************)
EXTENDS Sequences, Integers, FiniteSets, SequencesExt, Selection

CONSTANTS
  Fields,       \* the fields of a profile the model carries, in the order of
                \* coffee_rdp_document_from_profile()
  Presets       \* names of quality presets

Empty == ""          \* the empty text
Unset == "unset"     \* std::nullopt, no line of that key
Other == "other"     \* the key of a line the manager does not model
Mixed == "mixed"     \* performance keys that match no preset

(* How a field is written. *)
Required  == {"address", "multimon", "mode", "idle"}       \* always
Sticky    == {"port", "aad", "shortcuts", "cert"}          \* when set, or already there
Removable == {"username", "domain", "combo", "opref"}      \* an empty value removes the key

(* The fields are those, and the address is one of them. *)
ASSUME FieldsAssumption ==
  /\ Fields \in Seq(Required \cup Sticky \cup Removable \cup {"quality"})
  /\ "address" \in ToSet(Fields)
  /\ Presets \cap {Empty, Unset} = {}

(* CoffeeProfile's initial values, what a field is when nothing says otherwise. *)
Initially ==
  [f \in Required \cup Sticky \cup Removable \cup {"quality"} |->
     CASE f = "port" -> "3389"
       [] f \in {"aad", "shortcuts", "cert", "multimon"} -> "0"
       [] f = "mode" -> "2"
       [] f = "idle" -> "30"
       [] f = "combo" -> "alt+tab"
       [] OTHER -> Empty]

(* Keys CoffeeRDP invented carry the type s, the only one the session's    *)
(* scan matches; of the standard ones the integers carry i.                *)
TypeOf(field) == IF field \in {"port", "aad", "multimon", "mode", "perf"} THEN "i" ELSE "s"

Line(key, type, value) == [key |-> key, type |-> type, value |-> value]
--------------------------------------------------------------------------------
(* CoffeeRdpDocument: lookups see the first line of a key. *)

LinesOf(doc, key) == {i \in DOMAIN doc : doc[i].key = key}

Has(doc, key) == LinesOf(doc, key) # {}

FindLine(doc, key) == CHOOSE i \in LinesOf(doc, key) : \A j \in LinesOf(doc, key) : i <= j

GetValue(doc, key) == IF Has(doc, key) THEN doc[FindLine(doc, key)].value ELSE Unset

SetLine(doc, key, type, value) ==
  IF Has(doc, key)
  THEN [doc EXCEPT ![FindLine(doc, key)] = Line(key, type, value)]
  ELSE Append(doc, Line(key, type, value))

RemoveLines(doc, key) == Select(doc, DOMAIN doc \ LinesOf(doc, key))
--------------------------------------------------------------------------------
(* coffee_rdp_document_from_profile() *)

WriteRequired(doc, field, value) == SetLine(doc, field, TypeOf(field), value)

\* Mutant: a switch turned off leaves the line it finds.
WriteStickyWhenSet(doc, field, value) ==
  IF value # Initially[field] THEN SetLine(doc, field, TypeOf(field), value) ELSE doc

WriteSticky(doc, field, value) ==
  IF value # Initially[field] \/ Has(doc, field)
  THEN SetLine(doc, field, TypeOf(field), value)
  ELSE doc

\* Mutant: an emptied value leaves its line.
WriteRemovableKept(doc, field, value) ==
  IF value = Empty THEN doc ELSE SetLine(doc, field, "s", value)

WriteRemovable(doc, field, value) ==
  IF value = Empty THEN RemoveLines(doc, field) ELSE SetLine(doc, field, "s", value)

(* No preset: the hint goes, the performance keys stay as they are. *)
WriteQuality(doc, value) ==
  CASE value = Empty -> RemoveLines(doc, "quality")
    [] value \in Presets -> SetLine(SetLine(doc, "quality", "s", value), "perf", "i", value)
    [] OTHER -> SetLine(doc, "quality", "s", value)

WriteField(doc, field, value) ==
  CASE field \in Required -> WriteRequired(doc, field, value)
    [] field \in Sticky -> WriteSticky(doc, field, value)
    [] field \in Removable -> WriteRemovable(doc, field, value)
    [] field = "quality" -> WriteQuality(doc, value)

(* The fields in their order, each written into what the ones before left. *)
FieldsWritten(set, doc) ==
  LET after[n \in 0..Len(Fields)] ==
        IF n = 0 THEN doc ELSE WriteField(after[n - 1], Fields[n], set[Fields[n]])
  IN  after[Len(Fields)]

\* Mutant: the document is written from the profile alone.
FromProfileAlone(set, doc) == FieldsWritten(set, << >>)

FromProfile(set, doc) == FieldsWritten(set, doc)
--------------------------------------------------------------------------------
(* coffee_rdp_document_to_profile() *)

(* An exact match of every performance key, or no preset at all. *)
InferQuality(doc) == IF GetValue(doc, "perf") \in Presets THEN GetValue(doc, "perf") ELSE Empty

(* splitHostPort(): a port may be part of the address. *)
HostIn(address) == IF address = "host:3390" THEN "host" ELSE address

PortIn(address) == IF address = "host:3390" THEN "3390" ELSE Unset

FirstSet(a, b) == IF a # Unset THEN a ELSE b

ReadField(doc, field, before) ==
  CASE field = "quality" ->
         LET hint == GetValue(doc, "quality")
         IN  IF hint # Unset THEN hint
             ELSE IF InferQuality(doc) # Empty THEN InferQuality(doc) ELSE before
    [] field = "address" -> HostIn(FirstSet(GetValue(doc, "address"), before))
    [] field = "port" ->
         FirstSet(GetValue(doc, "port"), FirstSet(PortIn(GetValue(doc, "address")), before))
    [] OTHER -> FirstSet(GetValue(doc, field), before)

ToProfile(doc, before) == [f \in DOMAIN before |-> ReadField(doc, f, before[f])]

(* A profile no file and no person has touched. *)
FreshProfile == [f \in ToSet(Fields) |-> Initially[f]]
--------------------------------------------------------------------------------
(* The session's side: it scans the file for the keys FreeRDP's parser has *)
(* no name for, and flags on its command line win over them.               *)

(* coffee_rdp_file_scan_key() *)
ScanLines(doc, key) == {i \in LinesOf(doc, key) : doc[i].type = "s"}

ScanKey(doc, key) ==
  IF ScanLines(doc, key) = {} THEN Unset
  ELSE doc[CHOOSE i \in ScanLines(doc, key) : \A j \in ScanLines(doc, key) : i <= j].value

(* CoffeeProfileStore::sessionArgs(): what of a profile is on the command  *)
(* line besides the file's path or, without a file, the address.           *)
SessionArgs(set) ==
  [f \in DOMAIN set \cap {"quality", "idle", "combo", "shortcuts", "cert"} |->
     CASE f \in {"quality", "combo"} -> IF set[f] = Empty THEN Unset ELSE set[f]
       [] f = "idle" -> set[f]
       [] OTHER -> IF set[f] = "1" THEN "1" ELSE Unset]

SessionDefault(field) == IF field = "quality" THEN "balanced" ELSE Initially[field]

Usable(field, value) == value # Unset /\ (field = "quality" => value \in Presets)

(* What a session started with these arguments on this document runs with: *)
(* a flag wins over the file, and an unknown preset counts as none.        *)
SessionValue(args, doc, field) ==
  CASE Usable(field, args[field]) -> args[field]
    [] ~Usable(field, args[field]) /\ Usable(field, ScanKey(doc, field)) -> ScanKey(doc, field)
    [] OTHER -> SessionDefault(field)

(* What the profile asks for: an empty field leaves the choice to the      *)
(* session's default.                                                      *)
AskedFor(set, field) ==
  IF set[field] = Empty \/ (field = "quality" /\ set[field] \notin Presets)
  THEN SessionDefault(field)
  ELSE set[field]
================================================================================
