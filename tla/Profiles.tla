------------------------------ MODULE Profiles ------------------------------
(***************************************************************************)
(* The profiles and profile sets of a configuration, and what is selected   *)
(* of them: the edits of the user interface (ConfigurationWorkspace), the   *)
(* import of a package, the switches the Host's scripts ask for, and the    *)
(* documents both send each other.  Of what a document says else only the   *)
(* content of a profile is kept, and the keys that profiles and scripts bind. *)
(* ConfigSync has the order in which         *)
(* documents and answers travel; here a document sent replaces the one      *)
(* under way, and its answer comes back in one step.                        *)
(***************************************************************************)
EXTENDS Naturals, SequencesExt

CONSTANTS Contents,             \* what a profile may say
          Hotkeys, KeysOf,      \* keys; those that the switches and scripts of a profile bind
          KeyLists,             \* what users let the scripts of a set, or the global ones, bind
          MaxProfiles, MaxSets, \* ConfigurationValidationOptions
          InitialDocuments,     \* documents the user interface may start with
          Packages,             \* documents of packages that may be imported
          Commands,             \* lists of commands a callback of a script may leave
          FirstId, MaxIds,      \* identifiers made by the user interface, bounded
          MaxEdits, MaxUpdates  \* bounds on what users and scripts do

None == 0                       \* selectedProfileId: null
NoDocument == [active |-> None]

VARIABLES
  document, selection, refused, \* the workspace: document, selection, the last edit was refused
  accepted,                     \* lastHostAcceptedDocument
  preview,                      \* ImportExportViewModel.Preview
  toHost, toUi,                 \* the documents under way
  host,                         \* current_snapshot_json_
  fresh, edits, updates         \* next identifier; what was done so far

workspaceVars == <<document, selection, refused>>
linkVars == <<accepted, toHost, toUi, host>>
profilesVars == <<workspaceVars, linkVars, preview, fresh, edits, updates>>

-----------------------------------------------------------------------------
(* Documents.                                                               *)
IdsOf(items) == {items[i].id : i \in DOMAIN items}
UniqueIds(items) == \A i, j \in DOMAIN items : items[i].id = items[j].id => i = j
WithId(items, id) == items[CHOOSE i \in DOMAIN items : items[i].id = id]
IndexOf(seq, x) == CHOOSE i \in DOMAIN seq : seq[i] = x
Change(items, id, Update(_)) ==
  [i \in DOMAIN items |-> IF items[i].id = id THEN Update(items[i]) ELSE items[i]]
(* What a filter leaves, where at most one element goes.                     *)
Without(seq, x) == IF x \in ToSet(seq) THEN RemoveAt(seq, IndexOf(seq, x)) ELSE seq
WithoutId(items, id) == IF id \in IdsOf(items) THEN Without(items, WithId(items, id)) ELSE items

(* Keys in use: those of the profile that is active, of the global scripts    *)
(* and of the scripts of the active set.                                     *)
KeysOfProfile(doc, id) == IF id \in IdsOf(doc.profiles) THEN KeysOf[WithId(doc.profiles, id).content] ELSE <<>>
ActiveKeys(doc) ==
  LET set == WithId(doc.sets, doc.active)
  IN KeysOfProfile(doc, set.selected) \o doc.keys \o set.keys
KeysAreDistinct(doc) == IsInjective(ActiveKeys(doc))

(* What ConfigurationValidator asks of profiles and sets.                   *)
FitsLimits(doc) == Len(doc.profiles) <= MaxProfiles /\ Len(doc.sets) <= MaxSets
WellFormed(doc) ==
  /\ UniqueIds(doc.profiles) /\ UniqueIds(doc.sets)
  /\ \A set \in ToSet(doc.sets) :
       /\ set.profiles # <<>> /\ IsInjective(set.profiles)
       /\ ToSet(set.profiles) \subseteq IdsOf(doc.profiles)
       /\ set.selected \in ToSet(set.profiles) \cup {None}
  /\ doc.active \in IdsOf(doc.sets)
Valid(doc) == FitsLimits(doc) /\ WellFormed(doc) /\ KeysAreDistinct(doc)

(* Documents that are there at the start and packages have been validated,    *)
(* packages against keys of their author; identifiers made later are new     *)
(* (Guid.NewGuid).                                                           *)
AnyProfile == [id : Nat \ {None}, content : Contents]
AnySet == [id : Nat \ {None}, profiles : Seq(Nat \ {None}), selected : Nat, keys : Seq(Hotkeys)]
Document == [profiles : Seq(AnyProfile), sets : Seq(AnySet), active : Nat, keys : Seq(Hotkeys)]
Below(doc, id) == \A taken \in IdsOf(doc.profiles) \cup IdsOf(doc.sets) : taken < id
Sound(doc, id) == doc \in Document /\ FitsLimits(doc) /\ WellFormed(doc) /\ Below(doc, id)
Command == [type : {"move_profile", "move_profile_set"}, next : BOOLEAN]
             \cup [type : {"switch_profile", "switch_profile_set"}, target : Nat]
ASSUME ProfilesAssumption ==
  /\ MaxProfiles \in Nat /\ MaxSets \in Nat /\ FirstId \in Nat \ {None} /\ Commands \subseteq Seq(Command)
  /\ KeysOf \in [Contents -> Seq(Hotkeys)] /\ KeyLists \subseteq Seq(Hotkeys)
  /\ \A doc \in InitialDocuments \cup Packages : Sound(doc, FirstId)
  /\ \A doc \in InitialDocuments : KeysAreDistinct(doc)

(* What the Host asks: an active set with a profile of the document selected, *)
(* and no key twice in the plan of its bindings.  Mutated form: the plan      *)
(* takes any keys.                                                           *)
HasActiveProfile(doc) ==
  /\ doc.active \in IdsOf(doc.sets)
  /\ WithId(doc.sets, doc.active).selected \in IdsOf(doc.profiles)
MutHostMayRun(doc) == HasActiveProfile(doc)
HostMayRun(doc) == HasActiveProfile(doc) /\ KeysAreDistinct(doc)

(* ResolveSelectedProfileId and EnsureSelection.                             *)
ProfileToShow(set) == IF set.selected # None THEN set.selected ELSE set.profiles[1]

(* Mutated form: only the set is looked after.                               *)
MutEnsured(doc, sel) == [sel EXCEPT !.set = IF @ \in IdsOf(doc.sets) THEN @ ELSE doc.sets[1].id]
Ensured(doc, sel) ==
  LET set == IF sel.set \in IdsOf(doc.sets) THEN sel.set ELSE doc.sets[1].id
  IN [set |-> set,
      profile |-> IF sel.profile \in IdsOf(doc.profiles) THEN sel.profile
                  ELSE ProfileToShow(WithId(doc.sets, set))]

ProfilesInit ==
  /\ document \in InitialDocuments
  /\ selection = [set |-> document.active, profile |-> ProfileToShow(WithId(document.sets, document.active))]
  /\ refused = FALSE
  /\ accepted = document /\ preview = NoDocument
  /\ toHost = NoDocument /\ host = document       \* the Host runs it already
  /\ toUi = NoDocument
  /\ fresh = FirstId /\ edits = 0 /\ updates = 0

-----------------------------------------------------------------------------
(* The edits of ConfigurationWorkspace.                                      *)

(* UpdateDocument, Publish: a refused candidate leaves the document alone,   *)
(* and the selection, unless the edit goes on to set it.                     *)
Update(candidate, namesFit) ==
  /\ refused' = ~(namesFit /\ Valid(candidate))
  /\ IF refused' THEN UNCHANGED <<document, toHost>>
     ELSE document' = candidate /\ toHost' = candidate
EnsureSelection == selection' = IF refused' THEN selection ELSE Ensured(document', selection)

Edit(ids) ==
  /\ edits < MaxEdits /\ edits' = edits + 1
  /\ fresh + ids <= MaxIds + 1 /\ fresh' = fresh + ids
  /\ UNCHANGED <<accepted, toUi, host, preview, updates>>

SelectedExists == selection.profile \in IdsOf(document.profiles)
SelectedSet == WithId(document.sets, selection.set)
Show(id) == selection' = [set |-> id, profile |-> ProfileToShow(WithId(document'.sets, id))]

SelectProfileSet(id) ==
  /\ Edit(0)
  /\ UNCHANGED <<document, toHost>> /\ refused' = FALSE
  /\ Show(id)

SelectProfile(id) ==
  /\ Edit(0)
  /\ IF id \in ToSet(SelectedSet.profiles)
     THEN Update([document EXCEPT !.sets = Change(@, selection.set, LAMBDA set : [set EXCEPT !.selected = id])], TRUE)
     ELSE UNCHANGED <<document, toHost>> /\ refused' = FALSE
  /\ selection' = [selection EXCEPT !.profile = id]

ActivateProfileSet ==
  /\ Edit(0)
  /\ Update([document EXCEPT !.active = selection.set], TRUE)
  /\ Show(selection.set)

(* UpdateSelectedProfile: any change of what a profile says.                 *)
UpdateSelectedProfile(content) ==
  /\ Edit(0)
  /\ Update([document EXCEPT !.profiles =
               Change(@, selection.profile, LAMBDA profile : [profile EXCEPT !.content = content])], TRUE)
  /\ EnsureSelection

(* DuplicateSelectedProfile adds two characters to the name, which may then  *)
(* be too long.  The new profile is selected even if it was refused; after   *)
(* that SelectedProfile throws, and so does this.                            *)
AddProfile(nameFits) ==
  /\ SelectedExists
  /\ Edit(1)
  /\ Update([document EXCEPT
               !.profiles = Append(@, [WithId(@, selection.profile) EXCEPT !.id = fresh]),
               !.sets = Change(@, selection.set,
                          LAMBDA set : [set EXCEPT !.profiles = Append(@, fresh), !.selected = fresh])],
            nameFits)
  /\ selection' = [selection EXCEPT !.profile = fresh]

(* A set that loses its last profile gets the replacement.  Mutated form: it *)
(* stays empty.                                                              *)
MutRefilled(ids, replacement) == ids
Refilled(ids, replacement) == IF ids = <<>> THEN <<replacement>> ELSE ids

Replacement == WithoutId(document.profiles, selection.profile)[1].id
ProfileDeleted ==
  LET removed == selection.profile
      Repaired(set) ==
        LET ids == Refilled(Without(set.profiles, removed), Replacement)
        IN [set EXCEPT !.profiles = ids, !.selected = IF @ = removed /\ ids # <<>> THEN ids[1] ELSE @]
  IN [document EXCEPT !.profiles = WithoutId(@, removed), !.sets = [i \in DOMAIN @ |-> Repaired(@[i])]]
DeleteSelectedProfile ==
  /\ Len(document.profiles) > 1
  /\ Edit(0)
  /\ Update(ProfileDeleted, TRUE)
  /\ selection' = [selection EXCEPT !.profile = Replacement]

(* SelectProfileSet throws if the set was refused.                           *)
AddProfileSet ==
  /\ Edit(1)
  /\ Update([document EXCEPT !.sets =
               Append(@, [id |-> fresh, profiles |-> <<selection.profile>>,
                         selected |-> selection.profile, keys |-> <<>>])], TRUE)
  /\ IF refused' THEN UNCHANGED selection ELSE Show(fresh)

OtherSets == WithoutId(document.sets, selection.set)
SetDeleted ==
  [document EXCEPT !.sets = OtherSets, !.active = IF @ = selection.set THEN OtherSets[1].id ELSE @]
DeleteSelectedProfileSet ==
  /\ Len(document.sets) > 1
  /\ Edit(0)
  /\ Update(SetDeleted, TRUE)
  /\ Show(OtherSets[1].id)

(* The profile chosen, or dragged, may have been deleted since.              *)
AssignProfile(set, profile) ==
  /\ Edit(0)
  /\ Update([document EXCEPT !.sets =
               Change(@, set, LAMBDA item : IF profile \in ToSet(item.profiles) THEN item
                                            ELSE [item EXCEPT !.profiles = Append(@, profile)])], TRUE)
  /\ EnsureSelection

ProfileUnassigned ==
  LET Repaired(set) ==
        LET ids == Without(set.profiles, selection.profile)
        IN [set EXCEPT !.profiles = ids, !.selected = IF @ = selection.profile THEN ids[1] ELSE @]
  IN [document EXCEPT !.sets = Change(@, selection.set, Repaired)]
RemoveProfileFromSelectedSet ==
  /\ Len(SelectedSet.profiles) > 1
  /\ Edit(0)
  /\ Update(ProfileUnassigned, TRUE)
  /\ EnsureSelection

(* The script manager: what the global scripts, or those of the selected set, *)
(* bind.  A script of a profile is part of its content.                       *)
ConfigureGlobalScripts(keys) ==
  /\ Edit(0)
  /\ Update([document EXCEPT !.keys = keys], TRUE)
  /\ EnsureSelection

ConfigureSetScripts(keys) ==
  /\ Edit(0)
  /\ Update([document EXCEPT !.sets = Change(@, selection.set, LAMBDA set : [set EXCEPT !.keys = keys])], TRUE)
  /\ EnsureSelection

-----------------------------------------------------------------------------
(* Packages.                                                                 *)

(* ConfigurationMerger.Merge of the profiles: one with an identifier that is  *)
(* taken is dropped if it says the same, else it gets a new identifier.       *)
MergeProfile(result, profile) ==
  IF profile.id \notin IdsOf(document.profiles)
  THEN [result EXCEPT !.profiles = Append(@, profile)]
  ELSE IF WithId(document.profiles, profile.id) = profile THEN result
  ELSE [result EXCEPT !.profiles = Append(@, [profile EXCEPT !.id = result.next]),
                      !.renamed[profile.id] = result.next, !.next = @ + 1]

(* RemapProfileSet.  Mutated form: the selected profile keeps its name.       *)
MutRemap(set, renamed) == [set EXCEPT !.profiles = [i \in DOMAIN @ |-> renamed[@[i]]]]
Remap(set, renamed) ==
  [set EXCEPT !.profiles = [i \in DOMAIN @ |-> renamed[@[i]]],
              !.selected = IF @ = None THEN None ELSE renamed[@]]

MergeSet(result, imported) ==
  LET set == Remap(imported, result.renamed)
  IN IF set.id \notin IdsOf(document.sets) THEN [result EXCEPT !.sets = Append(@, set)]
     ELSE IF WithId(document.sets, set.id) = set THEN result
     ELSE [result EXCEPT !.sets = Append(@, [set EXCEPT !.id = result.next]), !.next = @ + 1]

Merge(package) ==
  LET start == [profiles |-> document.profiles, sets |-> document.sets, next |-> fresh,
                renamed |-> [id \in IdsOf(package.profiles) |-> id]]
      profiles[n \in 0..Len(package.profiles)] ==
        IF n = 0 THEN start ELSE MergeProfile(profiles[n - 1], package.profiles[n])
      sets[n \in 0..Len(package.sets)] ==
        IF n = 0 THEN profiles[Len(package.profiles)] ELSE MergeSet(sets[n - 1], package.sets[n])
  IN sets[Len(package.sets)]
Merged(package) == [document EXCEPT !.profiles = Merge(package).profiles, !.sets = Merge(package).sets]

(* The package is validated within this document, whose global scripts stay,  *)
(* and what the merge makes of both once more.                               *)
Imported(package) ==
  [document EXCEPT !.profiles = package.profiles, !.sets = package.sets, !.active = package.sets[1].id]
PreviewImport(package) ==
  /\ edits < MaxEdits /\ edits' = edits + 1
  /\ fresh' = Merge(package).next /\ fresh' <= MaxIds + 1
  /\ preview' = IF Valid(Imported(package)) /\ Valid(Merged(package)) THEN Merged(package) ELSE NoDocument
  /\ UNCHANGED <<workspaceVars, linkVars, updates>>

(* ApplyImport makes the document of the preview the document.               *)
ConfirmImport ==
  /\ preview # NoDocument
  /\ Update(preview, TRUE)
  /\ EnsureSelection
  /\ preview' = IF refused' THEN preview ELSE NoDocument
  /\ UNCHANGED <<accepted, toUi, host, fresh, edits, updates>>

CancelImport ==
  /\ preview # NoDocument /\ preview' = NoDocument
  /\ UNCHANGED <<workspaceVars, linkVars, fresh, edits, updates>>

-----------------------------------------------------------------------------
(* The Host: script_command_configuration.cpp.                               *)

(* Counted from 0, without going below it.                                    *)
Wrapped(current, count, next) == IF next THEN (current + 1) % count ELSE (current + count - 1) % count
Neighbour(seq, x, next) == seq[Wrapped(IndexOf(seq, x) - 1, Len(seq), next) + 1]

MaySelect(doc, set, id) == id \in ToSet(set.profiles) /\ id \in IdsOf(doc.profiles)

Select(doc, id) == [doc EXCEPT !.sets = Change(@, doc.active, LAMBDA set : [set EXCEPT !.selected = id])]
MoveProfile(doc, next) ==
  LET set == WithId(doc.sets, doc.active) IN Select(doc, Neighbour(set.profiles, set.selected, next))
MoveProfileSet(doc, next) ==
  [doc EXCEPT !.active = Neighbour([i \in DOMAIN doc.sets |-> doc.sets[i].id], @, next)]

(* One command; NoDocument if it throws, and the rest is not run.             *)
Run(doc, command) ==
  LET set == WithId(doc.sets, doc.active)
  IN IF doc = NoDocument THEN NoDocument
     ELSE CASE command.type = "switch_profile" ->
                 IF MaySelect(doc, set, command.target) THEN Select(doc, command.target) ELSE NoDocument
            [] command.type = "move_profile" ->
                 IF set.selected \in ToSet(set.profiles) THEN MoveProfile(doc, command.next) ELSE NoDocument
            [] command.type = "switch_profile_set" ->
                 IF command.target \in IdsOf(doc.sets) THEN [doc EXCEPT !.active = command.target] ELSE NoDocument
            [] command.type = "move_profile_set" -> MoveProfileSet(doc, command.next)
Commanded(doc, commands) ==
  LET after[n \in 0..Len(commands)] == IF n = 0 THEN doc ELSE Run(after[n - 1], commands[n])
  IN after[Len(commands)]

(* apply_script_commands of the window thread: the document is prepared,     *)
(* which a script may fail, applied and published.                           *)
ApplyScriptCommands(commands) ==
  LET candidate == Commanded(host, commands)
  IN /\ host # NoDocument
     /\ updates < MaxUpdates /\ updates' = updates + 1
     /\ candidate # NoDocument /\ HostMayRun(candidate)
     /\ host' = candidate /\ toUi' = candidate
     /\ UNCHANGED <<workspaceVars, accepted, toHost, preview, fresh, edits>>

(* The Host answers a document.  It may refuse one it could run: a script    *)
(* fails, or it has a newer version.  A refused document that still is the   *)
(* workspace's is taken back.                                                *)
HostAnswers(accepts) ==
  /\ toHost # NoDocument
  /\ accepts => HostMayRun(toHost)
  /\ IF accepts
     THEN host' = toHost /\ accepted' = toHost /\ UNCHANGED <<document, selection>>
     ELSE /\ document' = IF document = toHost THEN accepted ELSE document
          /\ selection' = IF document = toHost THEN Ensured(accepted, selection) ELSE selection
          /\ UNCHANGED <<host, accepted>>
  /\ toHost' = NoDocument /\ refused' = FALSE
  /\ UNCHANGED <<toUi, preview, fresh, edits, updates>>

(* OnHostStateChanged: Deserialize validates what the Host sent.             *)
HostStateChanged ==
  /\ toUi # NoDocument /\ toUi' = NoDocument
  /\ IF Valid(toUi)
     THEN document' = toUi /\ accepted' = toUi /\ selection' = Ensured(toUi, selection)
     ELSE UNCHANGED <<document, accepted, selection>>
  /\ refused' = FALSE
  /\ UNCHANGED <<toHost, host, preview, fresh, edits, updates>>

-----------------------------------------------------------------------------
Repairs == DeleteSelectedProfile \/ DeleteSelectedProfileSet \/ RemoveProfileFromSelectedSet
UserEdits ==
  \/ \E id \in IdsOf(document.sets) : SelectProfileSet(id)
  \/ \E id \in IdsOf(document.profiles) : SelectProfile(id)
  \/ ActivateProfileSet
  \/ \E content \in Contents : UpdateSelectedProfile(content)
  \/ \E nameFits \in BOOLEAN : AddProfile(nameFits)
  \/ AddProfileSet
  \/ \E set \in IdsOf(document.sets) : \E id \in 1..fresh - 1 : AssignProfile(set, id)
  \/ \E keys \in KeyLists : ConfigureGlobalScripts(keys) \/ ConfigureSetScripts(keys)
  \/ Repairs
Imports == (\E package \in Packages : PreviewImport(package)) \/ ConfirmImport \/ CancelImport
HostSteps ==
  \/ \E commands \in Commands : ApplyScriptCommands(commands)
  \/ \E accepts \in BOOLEAN : HostAnswers(accepts)

ProfilesNext == UserEdits \/ Imports \/ HostSteps \/ HostStateChanged
ProfilesSpec == ProfilesInit /\ [][ProfilesNext]_profilesVars

-----------------------------------------------------------------------------
(* What the scripts of the Host make of a document is one the user interface *)
(* takes: no list of switches, also of identifiers a script has kept since   *)
(* an earlier document or to a profile whose keys are taken, leads to one it *)
(* refuses (OnHostStateChanged would then keep its own, silently).            *)
CommandsKeepDocument == toUi # NoDocument => Valid(toUi)

(* A package merged into any document that is reached changes nothing that   *)
(* was there, and each of its sets is there with the profiles it had in the  *)
(* package, whatever identifiers were taken.                                 *)
Shown(profiles, set) ==
  [keys |-> set.keys, content |-> [i \in DOMAIN set.profiles |-> WithId(profiles, set.profiles[i]).content],
   selected |-> IF set.selected = None THEN None ELSE IndexOf(set.profiles, set.selected)]
MergeKeepsBoth ==
  \A package \in Packages :
    LET merged == Merged(package)
    IN /\ WellFormed(merged) /\ KeysAreDistinct(merged)
       /\ IsPrefix(document.profiles, merged.profiles) /\ IsPrefix(document.sets, merged.sets)
       /\ \A set \in ToSet(package.sets) : \E copy \in ToSet(merged.sets) :
            Shown(merged.profiles, copy) = Shown(package.profiles, set)

(* Taking profiles and sets away is refused for one reason only: it makes     *)
(* another profile or set the active one, and a key of that is taken by a     *)
(* script (ValidateActiveInputConflicts).  What is left is well-formed in any *)
(* case, and taking away what is not active never fails.                     *)
ActiveChoice(doc) == <<doc.active, WithId(doc.sets, doc.active).selected>>
KeysTakenBy(left) == ActiveChoice(left) # ActiveChoice(document) /\ ~KeysAreDistinct(left)
RepairsRefusedForKeysOnly ==
  [][/\ DeleteSelectedProfile /\ refused' => KeysTakenBy(ProfileDeleted)
     /\ DeleteSelectedProfileSet /\ refused' => KeysTakenBy(SetDeleted)
     /\ RemoveProfileFromSelectedSet /\ refused' => KeysTakenBy(ProfileUnassigned)]_profilesVars

(* Every view shows the selected profile, and throws if there is none.  Only *)
(* the addition of a profile that is refused leaves the workspace with a     *)
(* selection its document does not have: no deletion, import, answer of the  *)
(* Host or switch of a script does.                                          *)
SelectionLostByRefusedAddition ==
  [][SelectedExists /\ ~SelectedExists' => refused' /\ document' = document]_profilesVars

(* The import adds to the document: no profile it has is lost or changed.    *)
ImportKeepsProfiles ==
  [][ConfirmImport => ToSet(document.profiles) \subseteq ToSet(document'.profiles)]_profilesVars
=============================================================================
