-------------------------- MODULE ConfigStoreProofs --------------------------
(***************************************************************************)
(* Proofs about ConfigStore for any number of documents and of failures.    *)
(* StoreInv is inductive: one save is in the gate, what it has written is   *)
(* its document, and unless something else damaged the file the last save   *)
(* is either in place or, between the two renames, the backup.              *)
(***************************************************************************)
EXTENDS ConfigStore, TLAPS

Contents == Documents \cup {None, Unreadable}
Files == [content : Contents, onDisk : BOOLEAN]
Phases == {"none", "waiting", "ready"} \cup InGate

StoreTypeOK ==
  /\ primary \in Files /\ backup \in Files /\ temporary \in Files
  /\ ui \in {"down", "up", "disposing", "ending"}
  /\ document \in Documents /\ published \in Documents
  /\ saves \in [Documents -> Phases]
  /\ saved \in Documents \cup {None} /\ damaged \in BOOLEAN
  /\ faults \in Nat

OneInGate == \A s, t \in Documents : saves[s] \in InGate /\ saves[t] \in InGate => s = t
(* The document of Dispose does not change any more.                        *)
DisposedStands == saves[AtExit] # "none" => ui = "disposing"
TemporaryHolds ==
  \A t \in Documents :
    /\ saves[t] = "written" => temporary.content = DocumentOf(t)
    /\ saves[t] \in {"flushed", "moved"} => temporary = File(DocumentOf(t), TRUE)
OnDisk == primary.onDisk /\ backup.onDisk
Intact ==
  ~damaged =>
    /\ saved = None => primary = NoFile /\ backup.content = None
    /\ saved # None => \/ primary = File(saved, TRUE)
                       \/ primary = NoFile /\ backup = File(saved, TRUE)

StoreInv == StoreTypeOK /\ OneInGate /\ DisposedStands /\ TemporaryHolds /\ OnDisk /\ Intact

-----------------------------------------------------------------------------
LEMMA InitStore == Init => StoreInv
<1> SUFFICES ASSUME Init PROVE StoreInv
  OBVIOUS
<1> USE DEF Init
<1>1. 0 \in Documents
  BY StoreAssumption DEF Documents
<1>2. NoFile \in Files
  BY DEF Files, Contents, File, NoFile
<1>3. StoreTypeOK
  BY <1>1, <1>2 DEF StoreTypeOK, Phases, Default
<1>4. OneInGate /\ DisposedStands /\ TemporaryHolds
  BY <1>1 DEF OneInGate, DisposedStands, TemporaryHolds, InGate, AtExit
<1>5. OnDisk /\ Intact
  BY DEF OnDisk, Intact, File, NoFile
<1> QED BY <1>3, <1>4, <1>5 DEF StoreInv

(* What a start finds: the last save, if nothing else changed the file.     *)
LEMMA LoadableIsSaved == StoreInv => CrashKeepsLastSave
<1> SUFFICES ASSUME StoreInv, ~damaged PROVE Loadable = saved
  BY DEF CrashKeepsLastSave
<1> USE DEF Loadable, Readable, File, NoFile, StoreInv, Intact, StoreTypeOK
<1>1. CASE saved = None
  BY <1>1, StoreAssumption DEF None, Documents
<1>2. CASE saved # None
  BY <1>2, StoreAssumption DEF None, Documents
<1> QED BY <1>1, <1>2

LEMMA LoadableTyped == StoreTypeOK => Loadable \in Documents \cup {None}
  BY DEF Loadable, Readable

(* The steps that change no file and keep every save out of the gate or in  *)
(* the step it was in.                                                      *)
LEMMA StartPreserves == StoreInv /\ Start => StoreInv'
<1> SUFFICES ASSUME StoreInv, Start PROVE StoreInv'
  OBVIOUS
<1> USE DEF Start, StoreInv, files, tasks
<1>1. document' \in Documents
  BY LoadableTyped, StoreAssumption DEF Default, Documents
<1>2. StoreTypeOK' /\ OneInGate' /\ OnDisk' /\ Intact'
  BY <1>1 DEF StoreTypeOK, OneInGate, OnDisk, Intact
<1>3. saves[AtExit] = "none"
  BY DEF DisposedStands
<1>4. DisposedStands' /\ TemporaryHolds'
  BY <1>3 DEF DisposedStands, TemporaryHolds, DocumentOf
<1> QED BY <1>2, <1>4

LEMMA PublishPreserves == StoreInv /\ Publish => StoreInv'
<1> SUFFICES ASSUME StoreInv, Publish PROVE StoreInv'
  OBVIOUS
<1> USE DEF Publish, StoreInv, files, Move
<1>1. published' \in Documents /\ published' # AtExit
  BY StoreAssumption DEF StoreTypeOK, Documents, AtExit
<1>2. saves[AtExit] = "none"
  BY DEF DisposedStands
<1>3. saves' \in [Documents -> Phases] /\ saves'[published'] = "waiting"
      /\ \A t \in Documents : t # published' => saves'[t] = saves[t]
  BY <1>1 DEF StoreTypeOK, Phases
<1>4. StoreTypeOK' /\ OnDisk' /\ Intact'
  BY <1>1, <1>3 DEF StoreTypeOK, OnDisk, Intact
<1>5. OneInGate'
  BY <1>3 DEF OneInGate, InGate
<1>6. DisposedStands'
  BY <1>1, <1>2, <1>3, StoreAssumption DEF DisposedStands, AtExit, Documents
<1>7. TemporaryHolds'
  BY <1>1, <1>2, <1>3 DEF TemporaryHolds, DocumentOf
<1> QED BY <1>4, <1>5, <1>6, <1>7

LEMMA DisposePreserves == StoreInv /\ Dispose => StoreInv'
<1> SUFFICES ASSUME StoreInv, Dispose PROVE StoreInv'
  OBVIOUS
<1> USE DEF Dispose, StoreInv, files, Move
<1>1. AtExit \in Documents
  BY StoreAssumption DEF AtExit, Documents
<1>2. saves' \in [Documents -> Phases] /\ saves'[AtExit] = "ready"
      /\ \A t \in Documents : t # AtExit => saves'[t] = saves[t]
  BY <1>1 DEF StoreTypeOK, Phases
<1>3. StoreTypeOK' /\ OnDisk' /\ Intact' /\ DisposedStands'
  BY <1>2 DEF StoreTypeOK, OnDisk, Intact, DisposedStands
<1>4. OneInGate'
  BY <1>2 DEF OneInGate, InGate
<1>5. TemporaryHolds'
  BY <1>2 DEF TemporaryHolds, DocumentOf
<1> QED BY <1>3, <1>4, <1>5

-----------------------------------------------------------------------------
(* The steps of a save.                                                     *)

LEMMA DelayPreserves == ASSUME NEW t \in Documents, StoreInv, DelayEnds(t) PROVE StoreInv'
<1> USE DEF DelayEnds, StoreInv, files, Move
<1>1. saves' \in [Documents -> Phases] /\ saves'[t] \in {"none", "ready"}
      /\ \A s \in Documents : s # t => saves'[s] = saves[s]
  BY DEF StoreTypeOK, Phases
<1>2. StoreTypeOK' /\ OnDisk' /\ Intact'
  BY <1>1 DEF StoreTypeOK, OnDisk, Intact
<1>3. OneInGate'
  BY <1>1 DEF OneInGate, InGate
<1>4. DisposedStands'
  BY <1>1 DEF DisposedStands
<1>5. TemporaryHolds'
  BY <1>1 DEF TemporaryHolds, DocumentOf
<1> QED BY <1>2, <1>3, <1>4, <1>5

LEMMA EnterPreserves == ASSUME NEW t \in Documents, StoreInv, EnterGate(t) PROVE StoreInv'
<1> USE DEF EnterGate, StoreInv, files, Move
<1>1. saves' \in [Documents -> Phases] /\ saves'[t] = "locked"
      /\ \A s \in Documents : s # t => saves'[s] = saves[s]
  BY DEF StoreTypeOK, Phases, InGate
<1>2. StoreTypeOK' /\ OnDisk' /\ Intact'
  BY <1>1 DEF StoreTypeOK, OnDisk, Intact
<1>3. OneInGate'
  BY <1>1 DEF OneInGate
<1>4. DisposedStands'
  BY <1>1 DEF DisposedStands
<1>5. TemporaryHolds'
  BY <1>1 DEF TemporaryHolds, DocumentOf
<1> QED BY <1>2, <1>3, <1>4, <1>5

(* What a step inside the gate does to where the saves are.                 *)
LEMMA GateStep ==
  ASSUME NEW t \in Documents, StoreInv, saves[t] \in InGate, NEW phase \in InGate, Move(t, phase)
  PROVE  /\ saves' \in [Documents -> Phases] /\ saves'[t] = phase
         /\ \A s \in Documents : s # t => saves'[s] = saves[s] /\ saves'[s] \notin InGate
         /\ OneInGate'
<1>1. saves' \in [Documents -> Phases] /\ saves'[t] = phase /\ \A s \in Documents : s # t => saves'[s] = saves[s]
  BY DEF Move, StoreInv, StoreTypeOK, Phases
<1>2. \A s \in Documents : s # t => saves[s] \notin InGate
  BY DEF StoreInv, OneInGate
<1> QED BY <1>1, <1>2 DEF OneInGate

LEMMA ExitIsDocument == AtExit \in Documents
  BY StoreAssumption DEF AtExit, Documents

LEMMA DocumentOfTyped == ASSUME StoreTypeOK, NEW t \in Documents PROVE DocumentOf(t) \in Documents
  BY DEF DocumentOf, StoreTypeOK

LEMMA WritePreserves == ASSUME NEW t \in Documents, StoreInv, WriteTemporary(t) PROVE StoreInv'
<1> USE DEF WriteTemporary
<1>1. /\ saves' \in [Documents -> Phases] /\ saves'[t] = "written"
      /\ \A s \in Documents : s # t => saves'[s] = saves[s] /\ saves'[s] \notin InGate
      /\ OneInGate'
  BY GateStep DEF InGate
<1> USE DEF StoreInv
<1>2. temporary' \in Files /\ temporary'.content = DocumentOf(t)
  BY DocumentOfTyped DEF File, Files, Contents
<1>3. StoreTypeOK' /\ OnDisk' /\ Intact'
  BY <1>1, <1>2 DEF StoreTypeOK, OnDisk, Intact
<1>4. DisposedStands'
  BY <1>1, ExitIsDocument DEF DisposedStands
<1>5. TemporaryHolds'
  <2>1. \A s \in Documents : saves'[s] \in {"written", "flushed", "moved"} => s = t
    BY <1>1 DEF InGate
  <2> QED BY <1>1, <1>2, <2>1 DEF TemporaryHolds, DocumentOf
<1> QED BY <1>1, <1>3, <1>4, <1>5

LEMMA FlushPreserves == ASSUME NEW t \in Documents, StoreInv, Flush(t) PROVE StoreInv'
<1> USE DEF Flush
<1>1. /\ saves' \in [Documents -> Phases] /\ saves'[t] = "flushed"
      /\ \A s \in Documents : s # t => saves'[s] = saves[s] /\ saves'[s] \notin InGate
      /\ OneInGate'
  BY GateStep DEF InGate
<1> USE DEF StoreInv
<1>2. temporary' \in Files /\ temporary' = File(DocumentOf(t), TRUE)
  BY DocumentOfTyped DEF File, Files, Contents, Flushed, TemporaryHolds, StoreTypeOK
<1>3. StoreTypeOK' /\ OnDisk' /\ Intact'
  BY <1>1, <1>2 DEF StoreTypeOK, OnDisk, Intact
<1>4. DisposedStands'
  BY <1>1, ExitIsDocument DEF DisposedStands
<1>5. TemporaryHolds'
  <2>1. \A s \in Documents : saves'[s] \in {"written", "flushed", "moved"} => s = t
    BY <1>1 DEF InGate
  <2> QED BY <1>1, <1>2, <2>1 DEF TemporaryHolds, DocumentOf
<1> QED BY <1>1, <1>3, <1>4, <1>5

LEMMA KeepPreserves == ASSUME NEW t \in Documents, StoreInv, KeepOld(t) PROVE StoreInv'
<1> USE DEF KeepOld
<1>1. /\ saves' \in [Documents -> Phases] /\ saves'[t] = "moved"
      /\ \A s \in Documents : s # t => saves'[s] = saves[s] /\ saves'[s] \notin InGate
      /\ OneInGate'
  BY GateStep DEF InGate
<1> USE DEF StoreInv
<1>2. NoFile \in Files /\ NoFile.onDisk
  BY DEF File, Files, Contents, NoFile
<1>3. StoreTypeOK' /\ OnDisk'
  BY <1>1, <1>2 DEF StoreTypeOK, OnDisk
<1>4. Intact'
  BY DEF Intact
<1>5. DisposedStands'
  BY <1>1, ExitIsDocument DEF DisposedStands
<1>6. TemporaryHolds'
  <2>1. \A s \in Documents : saves'[s] \in {"written", "flushed", "moved"} => s = t
    BY <1>1 DEF InGate
  <2>2. temporary = File(DocumentOf(t), TRUE) /\ temporary' = temporary /\ DocumentOf(t)' = DocumentOf(t)
    BY DEF TemporaryHolds, DocumentOf
  <2> QED BY <1>1, <2>1, <2>2 DEF TemporaryHolds
<1> QED BY <1>1, <1>3, <1>4, <1>5, <1>6

(* A save that leaves the gate.                                             *)
LEMMA LeaveStep ==
  ASSUME NEW t \in Documents, StoreInv, saves[t] \in InGate, Leave(t), document' = document
  PROVE  /\ saves' \in [Documents -> Phases] /\ ui' \in {"down", "up", "disposing", "ending"}
         /\ \A s \in Documents : saves'[s] \notin InGate
         /\ OneInGate' /\ DisposedStands'
<1> USE DEF StoreInv, Leave, Move
<1>1. saves' \in [Documents -> Phases] /\ saves'[t] = "none" /\ \A s \in Documents : s # t => saves'[s] = saves[s]
  BY DEF StoreTypeOK, Phases
<1>2. \A s \in Documents : saves'[s] \notin InGate
  BY <1>1 DEF OneInGate, InGate
<1>3. DisposedStands'
  BY <1>1 DEF DisposedStands
<1> QED BY <1>1, <1>2, <1>3 DEF OneInGate, StoreTypeOK

LEMMA InPlacePreserves ==
  ASSUME NEW t \in Documents, StoreInv, saves[t] \in {"flushed", "moved"}, InPlace(t)
  PROVE  StoreInv'
<1> USE DEF InPlace
<1>1. /\ saves' \in [Documents -> Phases] /\ ui' \in {"down", "up", "disposing", "ending"}
      /\ \A s \in Documents : saves'[s] \notin InGate
      /\ OneInGate' /\ DisposedStands'
  BY LeaveStep DEF InGate
<1> USE DEF StoreInv
<1>2. primary' = File(DocumentOf(t), TRUE) /\ saved' = DocumentOf(t) /\ DocumentOf(t) \in Documents
  BY DocumentOfTyped DEF TemporaryHolds
<1>3. DocumentOf(t) # None /\ primary'.onDisk /\ NoFile \in Files
  BY <1>2, StoreAssumption DEF Documents, None, File, NoFile, Files, Contents
<1>4. StoreTypeOK'
  BY <1>1, <1>2, <1>3 DEF StoreTypeOK
<1>5. OnDisk' /\ Intact'
  BY <1>2, <1>3 DEF OnDisk, Intact
<1>6. TemporaryHolds'
  BY <1>1 DEF TemporaryHolds, InGate
<1> QED BY <1>1, <1>4, <1>5, <1>6

LEMMA FailurePreserves == ASSUME NEW t \in Documents, StoreInv, SaveFails(t) PROVE StoreInv'
<1> USE DEF SaveFails, Fault
<1>1. /\ saves' \in [Documents -> Phases] /\ ui' \in {"down", "up", "disposing", "ending"}
      /\ \A s \in Documents : saves'[s] \notin InGate
      /\ OneInGate' /\ DisposedStands'
  BY LeaveStep DEF InGate
<1> USE DEF StoreInv
<1>2. StoreTypeOK'
  BY <1>1 DEF StoreTypeOK, NoFile, File, Files, Contents
<1>3. OnDisk' /\ Intact'
  BY DEF OnDisk, Intact
<1>4. TemporaryHolds'
  BY <1>1 DEF TemporaryHolds, InGate
<1> QED BY <1>1, <1>2, <1>3, <1>4

-----------------------------------------------------------------------------
(* The process and the power.                                               *)

LEMMA EndsStep ==
  ASSUME StoreInv, Ends
  PROVE  /\ ui' \in {"down", "up", "disposing", "ending"} /\ saves' \in [Documents -> Phases]
         /\ temporary' \in Files /\ OneInGate' /\ DisposedStands' /\ TemporaryHolds'
<1> USE DEF Ends
<1>1. \A t \in Documents : saves'[t] = "none"
  OBVIOUS
<1>2. AtExit \in Documents
  BY StoreAssumption DEF AtExit, Documents
<1>3. saves' \in [Documents -> Phases] /\ temporary' \in Files
  BY DEF Phases, NoFile, File, Files, Contents
<1> QED BY <1>1, <1>2, <1>3 DEF OneInGate, DisposedStands, TemporaryHolds, InGate

LEMMA ProcessEndPreserves == StoreInv /\ (ProcessEnds \/ Killed) => StoreInv'
<1> SUFFICES ASSUME StoreInv, ProcessEnds \/ Killed PROVE StoreInv'
  OBVIOUS
<1>1. /\ Ends /\ UNCHANGED <<primary, backup>>
      /\ faults' = faults \/ faults' = faults + 1
  BY DEF ProcessEnds, Killed, Fault
<1>2. StoreTypeOK'
  BY <1>1, EndsStep DEF StoreInv, StoreTypeOK, Ends
<1>3. OnDisk' /\ Intact'
  BY <1>1 DEF StoreInv, OnDisk, Intact, Ends
<1> QED BY <1>1, <1>2, <1>3, EndsStep DEF StoreInv

LEMMA PowerPreserves == StoreInv /\ PowerFails => StoreInv'
<1> SUFFICES ASSUME StoreInv, PowerFails PROVE StoreInv'
  OBVIOUS
<1>1. primary' = primary /\ backup' = backup /\ Ends /\ faults' = faults + 1
  BY DEF PowerFails, Lost, StoreInv, OnDisk, Fault
<1>2. StoreTypeOK'
  BY <1>1, EndsStep DEF StoreInv, StoreTypeOK, Ends
<1>3. OnDisk' /\ Intact'
  BY <1>1 DEF StoreInv, OnDisk, Intact, Ends
<1> QED BY <1>1, <1>2, <1>3, EndsStep DEF StoreInv

LEMMA DamagePreserves == StoreInv /\ Damage => StoreInv'
<1> SUFFICES ASSUME StoreInv, Damage PROVE StoreInv'
  OBVIOUS
<1> USE DEF StoreInv, Damage, Fault, tasks
<1>1. primary' \in Files /\ primary'.onDisk
  BY DEF File, Files, Contents
<1>2. OnDisk' /\ Intact'
  BY <1>1 DEF OnDisk, Intact
<1>3. StoreTypeOK'
  <2>1. damaged' \in BOOLEAN /\ faults' \in Nat
    BY DEF StoreTypeOK
  <2>2. UNCHANGED <<backup, temporary, saved, ui, document, published, saves>>
    OBVIOUS
  <2> QED BY <1>1, <2>1, <2>2 DEF StoreTypeOK
<1>4. OneInGate' /\ DisposedStands' /\ TemporaryHolds'
  BY DEF OneInGate, DisposedStands, TemporaryHolds, DocumentOf
<1> QED BY <1>2, <1>3, <1>4

LEMMA SavePreserves == ASSUME NEW t \in Documents, StoreInv, SaveStep(t) PROVE StoreInv'
<1>1. CASE DelayEnds(t) \/ EnterGate(t)
  BY <1>1, DelayPreserves, EnterPreserves
<1>2. CASE WriteTemporary(t) \/ Flush(t) \/ KeepOld(t)
  BY <1>2, WritePreserves, FlushPreserves, KeepPreserves
<1>3. CASE MoveFirst(t) \/ ReplaceOld(t)
  <2>1. saves[t] \in {"flushed", "moved"} /\ InPlace(t)
    BY <1>3 DEF MoveFirst, ReplaceOld
  <2> QED BY <2>1, InPlacePreserves
<1> QED BY <1>1, <1>2, <1>3 DEF SaveStep

LEMMA NextPreservesStore == StoreInv /\ [Next]_vars => StoreInv'
<1> SUFFICES ASSUME StoreInv, [Next]_vars PROVE StoreInv'
  OBVIOUS
<1>1. CASE UNCHANGED vars
  BY <1>1 DEF vars, files, tasks, StoreInv, StoreTypeOK, OneInGate, DisposedStands, TemporaryHolds, OnDisk, Intact,
     DocumentOf
<1>2. CASE Next
  BY <1>2, StartPreserves, PublishPreserves, DisposePreserves, ProcessEndPreserves, PowerPreserves,
     DamagePreserves, SavePreserves, FailurePreserves DEF Next
<1> QED BY <1>1, <1>2

THEOREM StoreInvariant == Spec => []StoreInv
  BY InitStore, NextPreservesStore, PTL DEF Spec

(* Whatever fails and however many saves overlap, the last completed save    *)
(* is the document a start loads: the temporary file, the flush and the     *)
(* order of the two renames of AtomicConfigurationStore.Save.               *)
THEOREM CrashKeepsSave == Spec => []CrashKeepsLastSave
  BY StoreInvariant, LoadableIsSaved, PTL

-----------------------------------------------------------------------------
(* A damaged file, when nothing else fails.                                 *)

Settled == \A t \in Documents : saves[t] # "moved"
OneFault == faults = 0 \/ (damaged /\ faults = 1 /\ Settled)
Unstarted == \A t \in Documents : t > published => saves[t] = "none"
DamageInv ==
  /\ damaged => faults >= 1
  /\ damaged /\ ui = "ending" => faults >= 2
  /\ OneFault => backup = NoFile \/ Readable(backup)
  /\ Unstarted

LEMMA DamageInvSuffices == StoreInv /\ DamageInv => DamageCostsOneSave
<1> SUFFICES ASSUME StoreInv, DamageInv, damaged, backup # NoFile, faults = 1,
                    \A t \in Documents : saves[t] \notin InGate
             PROVE  Loadable # None
  BY DEF DamageCostsOneSave
<1>1. Readable(backup)
  BY DEF DamageInv, OneFault, Settled, InGate
<1>2. Readable(primary) => primary.content # None
  BY StoreAssumption DEF Readable, Documents, None
<1>3. Readable(backup) => backup.content # None
  BY StoreAssumption DEF Readable, Documents, None
<1> QED BY <1>1, <1>2, <1>3 DEF Loadable

LEMMA InitDamage == Init => DamageInv
  BY DEF Init, DamageInv, OneFault, Settled, Unstarted

(* A step that fails nothing, keeps the backup and what the saves are doing *)
(* with it, and ends no user interface.                                     *)
LEMMA QuietDamage ==
  ASSUME DamageInv, UNCHANGED <<damaged, faults, backup>>, ui' # "ending" \/ ui' = ui,
         \A t \in Documents : saves[t] = "moved" => saves'[t] = "moved",
         Unstarted'
  PROVE  DamageInv'
<1>1. Settled' => Settled
  BY DEF Settled
<1> QED BY <1>1 DEF DamageInv, OneFault, Readable

(* A step of one save that began before.                                    *)
LEMMA MovedSaveStarted ==
  ASSUME StoreInv, DamageInv, NEW t \in Documents, saves[t] # "none", NEW phase, Move(t, phase), published' = published
  PROVE  /\ Unstarted'
         /\ saves'[t] = phase /\ \A s \in Documents : s # t => saves'[s] = saves[s]
  BY DEF Move, StoreInv, StoreTypeOK, DamageInv, Unstarted

LEMMA WorkspaceDamage ==
  ASSUME StoreInv, DamageInv, Start \/ Publish \/ Dispose
  PROVE  DamageInv'
<1>1. CASE Start
  BY <1>1, QuietDamage DEF Start, files, tasks, DamageInv, Unstarted
<1>2. CASE Publish
  <2>1. published' \in Documents /\ published' = published + 1 /\ published \in Nat
    BY <1>2, StoreAssumption DEF Publish, StoreInv, StoreTypeOK, Documents
  <2>2. saves[published'] = "none"
    BY <2>1 DEF DamageInv, Unstarted
  <2>3. \A t \in Documents : t # published' => saves'[t] = saves[t]
    BY <1>2 DEF Publish, Move, StoreInv, StoreTypeOK
  <2>4. Unstarted'
    BY <2>1, <2>3 DEF DamageInv, Unstarted, Documents
  <2> QED BY <1>2, <2>2, <2>3, <2>4, QuietDamage DEF Publish, files
<1>3. CASE Dispose
  <2>1. saves[AtExit] = "none" /\ AtExit \in Documents /\ ~(AtExit > published)
    BY <1>3, ExitIsDocument DEF Dispose, StoreInv, DisposedStands, StoreTypeOK, AtExit, Documents
  <2>2. \A t \in Documents : t # AtExit => saves'[t] = saves[t]
    BY <1>3 DEF Dispose, Move, StoreInv, StoreTypeOK
  <2>3. Unstarted'
    BY <1>3, <2>1, <2>2 DEF Dispose, DamageInv, Unstarted
  <2> QED BY <1>3, <2>1, <2>2, <2>3, QuietDamage DEF Dispose, files
<1> QED BY <1>1, <1>2, <1>3

LEMMA SaveDamage ==
  ASSUME StoreInv, DamageInv, NEW t \in Documents, SaveStep(t) \/ SaveFails(t)
  PROVE  DamageInv'
<1>1. CASE DelayEnds(t)
  BY <1>1, MovedSaveStarted, QuietDamage DEF DelayEnds, files
<1>2. CASE EnterGate(t) \/ WriteTemporary(t) \/ Flush(t)
  <2>1. PICK phase \in InGate : Move(t, phase)
    BY <1>2 DEF EnterGate, WriteTemporary, Flush, InGate
  <2>2. /\ saves[t] \notin {"none", "moved"}
        /\ UNCHANGED <<damaged, faults, backup, ui, published>>
    BY <1>2 DEF EnterGate, WriteTemporary, Flush, files
  <2> QED BY <2>1, <2>2, MovedSaveStarted, QuietDamage
<1>3. CASE KeepOld(t)
  <2>1. Unstarted' /\ saves'[t] = "moved"
    BY <1>3, MovedSaveStarted DEF KeepOld
  <2>2. ~Settled'
    BY <2>1 DEF Settled
  <2>3. faults = 0 => Readable(backup')
    <3>1. faults = 0 => ~damaged
      BY DEF DamageInv
    <3>2. ~damaged => primary = File(saved, TRUE) /\ saved # None
      BY <1>3 DEF KeepOld, StoreInv, Intact
    <3> QED BY <1>3, <3>1, <3>2 DEF KeepOld, StoreInv, StoreTypeOK, Readable, File
  <2> QED BY <1>3, <2>1, <2>2, <2>3 DEF KeepOld, DamageInv, OneFault, Readable
<1>4. CASE MoveFirst(t) \/ ReplaceOld(t)
  <2>1. /\ Unstarted' /\ ~damaged' /\ faults' = faults /\ backup' = backup
    BY <1>4, MovedSaveStarted DEF MoveFirst, ReplaceOld, InPlace, Leave
  <2> QED BY <2>1 DEF DamageInv, OneFault, Readable
<1>5. CASE SaveFails(t)
  <2>1. Unstarted'
    BY <1>5, MovedSaveStarted DEF SaveFails, InGate, Leave
  <2>2. faults' = faults + 1 /\ faults \in Nat /\ damaged' = damaged /\ backup' = backup
    BY <1>5 DEF SaveFails, Fault, StoreInv, StoreTypeOK
  <2> QED BY <2>1, <2>2 DEF DamageInv, OneFault
<1> QED BY <1>1, <1>2, <1>3, <1>4, <1>5 DEF SaveStep

LEMMA EndDamage ==
  ASSUME StoreInv, DamageInv, ProcessEnds \/ Killed \/ PowerFails \/ Damage
  PROVE  DamageInv'
<1> USE DEF StoreInv, StoreTypeOK
<1>1. CASE ProcessEnds
  <2>1. Unstarted' /\ ui' = "down" /\ UNCHANGED <<damaged, faults, backup>>
    BY <1>1 DEF ProcessEnds, Ends, Unstarted
  <2> QED BY <1>1, <2>1 DEF ProcessEnds, DamageInv, OneFault, Readable
<1>2. CASE Killed \/ PowerFails
  <2>1. Unstarted' /\ ui' = "down" /\ faults' = faults + 1 /\ damaged' = damaged
    BY <1>2 DEF Killed, PowerFails, Ends, Fault, Unstarted
  <2> QED BY <2>1 DEF DamageInv, OneFault
<1>3. CASE Damage
  <2>1. Unstarted'
    BY <1>3 DEF Damage, tasks, DamageInv, Unstarted
  <2>2. ui' = "down" /\ faults' = faults + 1 /\ backup' = backup
    BY <1>3 DEF Damage, Fault
  <2> QED BY <2>1, <2>2 DEF DamageInv, OneFault, Readable
<1> QED BY <1>1, <1>2, <1>3

LEMMA NextPreservesDamage == StoreInv /\ DamageInv /\ [Next]_vars => DamageInv'
<1> SUFFICES ASSUME StoreInv, DamageInv, [Next]_vars PROVE DamageInv'
  OBVIOUS
<1>1. CASE UNCHANGED vars
  BY <1>1 DEF vars, files, tasks, DamageInv, OneFault, Settled, Unstarted, Readable
<1>2. CASE Next
  BY <1>2, WorkspaceDamage, SaveDamage, EndDamage DEF Next
<1> QED BY <1>1, <1>2

(* A configuration file that something else made unreadable is replaced by  *)
(* its backup at the next start (AtomicConfigurationStore.Load).            *)
THEOREM DamageCostsSave == Spec => []DamageCostsOneSave
<1>1. Spec => []DamageInv
  BY InitDamage, NextPreservesDamage, StoreInvariant, PTL DEF Spec
<1> QED BY <1>1, StoreInvariant, DamageInvSuffices, PTL
=============================================================================
