----------------------------- MODULE ConfigStore -----------------------------
(***************************************************************************)
(* How the document of the user interface gets to the disk and back:         *)
(* ConfigurationWorkspace queues a save of each document it publishes and    *)
(* cancels the one before, AtomicConfigurationStore waits 300 ms, writes a   *)
(* temporary file and puts it in the place of the configuration, which       *)
(* becomes the backup.  The process, the power, a write or the file itself   *)
(* may fail at any point.                                                    *)
(***************************************************************************)
EXTENDS Integers

CONSTANTS MaxDocuments,         \* bound on the documents published
          MaxFaults             \* bound on failures of any kind
ASSUME StoreAssumption == MaxDocuments \in Nat /\ MaxFaults \in Nat

None == -2                      \* no such file, no document
Unreadable == -1                \* a file Deserialize refuses
Default == 0                    \* ConfigurationDefaults.Create
Documents == 0 .. MaxDocuments
File(content, onDisk) == [content |-> content, onDisk |-> onDisk]
NoFile == File(None, TRUE)
AtExit == 0                     \* the save of Dispose; any other has the number of its document

VARIABLES
  primary, backup,              \* FilePath and BackupFilePath; "onDisk" once flushed
  temporary,                    \* the temporary file of the save in the gate
  ui,                           \* "down", "up", "disposing", "ending"
  document, published,          \* the workspace's document; how many were published
  saves,                        \* where each save is
  cancelled,                    \* saves whose token is cancelled
  saved,                        \* the document of the last save that was completed
  damaged,                      \* the file was damaged since
  faults                        \* failures so far

files == <<primary, backup, temporary, saved, damaged>>
tasks == <<saves, cancelled>>
vars == <<files, ui, document, published, tasks, faults>>

Fault == faults < MaxFaults /\ faults' = faults + 1
Move(t, phase) == saves' = [saves EXCEPT ![t] = phase]
DocumentOf(t) == IF t = AtExit THEN document ELSE t
InGate == {"locked", "written", "flushed", "moved"}

Init ==
  /\ primary = NoFile /\ backup = NoFile /\ temporary = NoFile /\ saved = None /\ damaged = FALSE
  /\ ui = "down" /\ document = Default /\ published = 0
  /\ saves = [t \in Documents |-> "none"] /\ cancelled = {}
  /\ faults = 0

-----------------------------------------------------------------------------
(* Load.  Mutated form: the backup is left alone.                           *)
Readable(file) == file.content \in Documents
MutLoadable == IF Readable(primary) THEN primary.content ELSE None
Loadable ==
  CASE Readable(primary) -> primary.content
    [] ~Readable(primary) /\ Readable(backup) -> backup.content
    [] OTHER -> None

Start ==
  /\ ui = "down"
  /\ ui' = "up"
  /\ document' = IF Loadable = None THEN Default ELSE Loadable
  /\ UNCHANGED <<files, published, tasks, faults>>

(* Publish, and the adoption of a document of the Host: QueueSave cancels   *)
(* the save queued before, which may be past its test already.              *)
Pending == {t \in Documents \ {AtExit} : saves[t] # "none"}
Publish ==
  /\ ui = "up" /\ published < MaxDocuments
  /\ published' = published + 1 /\ document' = published'
  /\ cancelled' = Pending
  /\ Move(published', "waiting")
  /\ UNCHANGED <<files, ui, faults>>
(* Dispose, when the user interface ends.                                   *)
Dispose ==
  /\ ui = "up"
  /\ ui' = "disposing"
  /\ cancelled' = Pending
  /\ Move(AtExit, "ready")
  /\ UNCHANGED <<files, document, published, faults>>

-----------------------------------------------------------------------------
(* SaveDebouncedAsync.  Mutated form: the token is not looked at.           *)
MutStops(t) == FALSE
Stops(t) == t \in cancelled
DelayEnds(t) ==
  /\ saves[t] = "waiting"
  /\ Move(t, IF Stops(t) THEN "none" ELSE "ready")
  /\ cancelled' = IF Stops(t) THEN cancelled \ {t} ELSE cancelled
  /\ UNCHANGED <<files, ui, document, published, faults>>

(* Save.  The gate is a monitor: any save that waits for it may be next.    *)
EnterGate(t) ==
  /\ saves[t] = "ready" /\ \A s \in Documents : saves[s] \notin InGate
  /\ Move(t, "locked")
  /\ UNCHANGED <<files, ui, document, published, cancelled, faults>>
WriteTemporary(t) ==
  /\ saves[t] = "locked"
  /\ Move(t, "written") /\ temporary' = File(DocumentOf(t), FALSE)
  /\ UNCHANGED <<primary, backup, saved, damaged, ui, document, published, cancelled, faults>>
(* Mutated form: the file is not flushed.                                   *)
MutFlushed(file) == file
Flushed(file) == [file EXCEPT !.onDisk = TRUE]
Flush(t) ==
  /\ saves[t] = "written"
  /\ Move(t, "flushed") /\ temporary' = Flushed(temporary)
  /\ UNCHANGED <<primary, backup, saved, damaged, ui, document, published, cancelled, faults>>

(* Leaving the gate ends the save; Dispose returns after its own.           *)
Leave(t) ==
  /\ Move(t, "none") /\ cancelled' = cancelled \ {t}
  /\ ui' = IF t = AtExit THEN "ending" ELSE ui
InPlace(t) ==
  /\ primary' = temporary /\ temporary' = NoFile
  /\ saved' = DocumentOf(t) /\ damaged' = FALSE
  /\ Leave(t)
  /\ UNCHANGED <<backup, document, published, faults>>
(* File.Move, when there is no configuration yet.                           *)
MoveFirst(t) == saves[t] = "flushed" /\ primary = NoFile /\ InPlace(t)
(* File.Replace gives the old file the name of the backup, then the new one *)
(* the name of the old: two steps of the file system.                       *)
KeepOld(t) ==
  /\ saves[t] = "flushed" /\ primary # NoFile
  /\ Move(t, "moved") /\ backup' = primary /\ primary' = NoFile
  /\ UNCHANGED <<temporary, saved, damaged, ui, document, published, cancelled, faults>>
ReplaceOld(t) == saves[t] = "moved" /\ InPlace(t)
(* An exception while writing, or one of either step of the replacement,    *)
(* which the caller ignores; the temporary file is deleted.                 *)
SaveFails(t) ==
  /\ saves[t] \in InGate
  /\ Fault
  /\ Leave(t) /\ temporary' = NoFile
  /\ UNCHANGED <<primary, backup, saved, damaged, document, published>>

-----------------------------------------------------------------------------
(* The process ends, by itself after Dispose and what follows it.           *)
Ends ==
  /\ ui' = "down" /\ saves' = [t \in Documents |-> "none"] /\ cancelled' = {}
  /\ temporary' = NoFile        \* a file left behind is never looked at
  /\ UNCHANGED <<document, published, saved, damaged>>
ProcessEnds == ui = "ending" /\ Ends /\ UNCHANGED <<primary, backup, faults>>
Killed == ui # "down" /\ Fault /\ Ends /\ UNCHANGED <<primary, backup>>
(* The power fails: a file whose bytes were not flushed is lost.            *)
Lost(file) == IF file.onDisk THEN file ELSE File(Unreadable, TRUE)
PowerFails ==
  /\ ui # "down" /\ Fault
  /\ Ends /\ primary' = Lost(primary) /\ backup' = Lost(backup)
(* Something else makes the configuration unreadable.                       *)
Damage ==
  /\ ui = "down" /\ primary # NoFile /\ Fault
  /\ primary' = File(Unreadable, TRUE) /\ damaged' = TRUE
  /\ UNCHANGED <<backup, temporary, saved, ui, document, published, tasks>>

SaveStep(t) ==
  \/ DelayEnds(t) \/ EnterGate(t) \/ WriteTemporary(t) \/ Flush(t) \/ MoveFirst(t) \/ KeepOld(t) \/ ReplaceOld(t)
Next ==
  \/ Start \/ Publish \/ Dispose \/ ProcessEnds \/ Killed \/ PowerFails \/ Damage
  \/ \E t \in Documents : SaveStep(t) \/ SaveFails(t)

(* The threads of the pool run on; nobody must edit or close anything.      *)
Fairness == \A t \in Documents : WF_vars(SaveStep(t))
Spec == Init /\ [][Next]_vars /\ Fairness

-----------------------------------------------------------------------------
(* Properties.                                                              *)

(* Whatever fails, and at whatever step of a save, a start would load what  *)
(* the last completed save stored: the temporary file, the backup and the   *)
(* order of the two renames leave no moment in between.  (A file damaged    *)
(* by something else is the exception, until the next save.)                *)
CrashKeepsLastSave == ~damaged => Loadable = saved

(* A damaged configuration costs one save at most, not the configuration:   *)
(* while no save is running the backup stands in for it.                    *)
DamageCostsOneSave ==
  damaged /\ saved # None /\ backup # NoFile /\ (\A t \in Documents : saves[t] \notin InGate) /\ faults = 1
    => Loadable # None

(* The document of a user who stops editing is saved and stays so, provided *)
(* that no save of an older one was past its test by then and nothing fails.*)
Alone(d) == \A t \in Documents : t # d => saves[t] \in {"none", "waiting"}
LastEditStaysSaved ==
  \A d \in Documents \ {AtExit} :
    (document = d /\ saves[d] = "waiting" /\ Alone(d) /\ faults = MaxFaults)
      ~> [](saved = d \/ document # d \/ ui # "up")

=============================================================================
