-------------------------- MODULE AutostartProofs ---------------------------
(***************************************************************************)
(* Proofs about Autostart, for any number of requests and any users.       *)
(*                                                                         *)
(* That the saved settings are restored is not inductive: while an         *)
(* autostart runs they are not.  What every step keeps is that each of     *)
(* them is then either saved, with the value of the user, or still has it; *)
(* and that all of them are saved before the steps for a disk change any.  *)
(* Of the Unsaved settings only the type is known.                         *)
(***************************************************************************)
EXTENDS Autostart, TLAPS

USE UsersAssumption

(* A setting whose saved value was not lost can be given back. *)
Remembered ==
  \A s \in Saveable \ overwritten : IF Saved(s) THEN orig[s] = wanted[s] ELSE value[s] = wanted[s]

(* A load from disk is prepared with every setting saved. *)
AllSaved == mode = "HASDISK" => \A s \in Saveable : Saved(s)

(* At rest nothing is saved. *)
NothingSaved == mode \in AtRest => orig = Nothing

Typed ==
  /\ mode \in Modes
  /\ value \in [Settings -> 0 .. 2] /\ wanted \in [Settings -> 0 .. 1]
  /\ orig \in [Saveable -> -1 .. 2] /\ overwritten \subseteq Saveable

SettingsInv == Typed /\ Remembered /\ AllSaved /\ NothingSaved

LEMMA InitSettings == Init => SettingsInv
  <1> SUFFICES ASSUME Init PROVE SettingsInv OBVIOUS
  <1>1. wanted \in [Settings -> 0 .. 1]
    BY DEF Init
  <1>2. Typed
    BY <1>1 DEF Init, Typed, Modes, AtRest, Nothing, Settings, Saveable
  <1>3. Remembered
    BY DEF Init, Remembered, Saved, Nothing
  <1> QED
    BY <1>2, <1>3 DEF Init, SettingsInv, AllSaved, NothingSaved, AtRest

(* The five ways in which a step treats the settings. *)

LEMMA KeepsSettings ==
  ASSUME SettingsInv, UNCHANGED <<settings, wanted>>, mode' \in Modes,
         mode' = "HASDISK" => mode = "HASDISK", mode' \in AtRest => mode \in AtRest
  PROVE  SettingsInv'
  BY DEF SettingsInv, settings, Typed, Remembered, Saved, AllSaved, NothingSaved

LEMMA RestoresSettings ==
  ASSUME SettingsInv, restore_drive_emulation_state, UNCHANGED wanted, mode' \in AtRest
  PROVE  SettingsInv'
  <1>1. Typed'
    BY DEF SettingsInv, Typed, restore_drive_emulation_state, Restored, Saved, Nothing, Modes, Settings
  <1>2. Remembered'
    BY DEF SettingsInv, Typed, Remembered, restore_drive_emulation_state, Restored, Saved, Nothing, Settings
  <1> QED
    BY <1>1, <1>2 DEF SettingsInv, AllSaved, NothingSaved, restore_drive_emulation_state, AtRest

LEMMA GivesUp ==
  ASSUME SettingsInv, value' = disable_warp_if_was_requested, mode' = "ERROR",
         UNCHANGED <<orig, overwritten, wanted>>
  PROVE  SettingsInv'
  <1>1. Typed'
    BY DEF SettingsInv, Typed, disable_warp_if_was_requested, Modes, Settings, Saveable
  <1>2. Remembered'
    BY DEF SettingsInv, Typed, Remembered, disable_warp_if_was_requested, Saved, Settings, Saveable
  <1> QED
    BY <1>1, <1>2 DEF SettingsInv, AllSaved, NothingSaved, AtRest

LEMMA RefusesDisk ==
  ASSUME SettingsInv, RefuseDisk, UNCHANGED wanted
  PROVE  SettingsInv'
  <1>1. Typed'
    <2>1. value' \in [Settings -> 0 .. 2]
      BY DEF SettingsInv, Typed, RefuseDisk, disable_warp_if_was_requested, Settings, Saveable
    <2>2. orig' \in [Saveable -> -1 .. 2]
      BY DEF SettingsInv, Typed, RefuseDisk, Settings
    <2>3. overwritten' \subseteq Saveable
      BY DEF SettingsInv, Typed, RefuseDisk, DriveSettings, Saveable
    <2> QED
      BY <2>1, <2>2, <2>3 DEF SettingsInv, Typed, RefuseDisk, Modes
  <1>2. ASSUME NEW s \in Saveable \ overwritten'
        PROVE  IF Saved(s)' THEN orig'[s] = wanted'[s] ELSE value'[s] = wanted'[s]
    <2>1. CASE s \in DriveSettings
      BY <1>2, <2>1 DEF SettingsInv, Typed, Remembered, RefuseDisk, Saved, Settings
    <2>2. CASE s \notin DriveSettings
      BY <1>2, <2>2 DEF SettingsInv, Typed, Remembered, RefuseDisk, disable_warp_if_was_requested, Saved, Settings, Saveable
    <2> QED
      BY <2>1, <2>2
  <1> QED
    BY <1>1, <1>2 DEF RefuseDisk, SettingsInv, Remembered, AllSaved, NothingSaved, AtRest

LEMMA TypesLoad ==
  ASSUME SettingsInv, TypeLoad, mode = "HASDISK", UNCHANGED wanted
  PROVE  SettingsInv'
  <1>1. Typed'
    BY DEF SettingsInv, Typed, TypeLoad, setup_for_disk_ready, Modes, Settings, Saveable
  <1> QED
    BY <1>1 DEF SettingsInv, Typed, TypeLoad, Remembered, AllSaved, NothingSaved, AtRest, Saved

-----------------------------------------------------------------------------
(* Requests: the saved values that an accepted one starts from are those   *)
(* of the user, wherever it comes.                                         *)

(* What may become of the saved values o and the settings s. *)
SavedWell(o) ==
  /\ o \in [Saveable -> 0 .. 2]
  /\ \A t \in Saveable \ overwritten : o[t] = wanted[t]

LEMMA SavesWell ==
  ASSUME SettingsInv
  PROVE  SavedWell(init_drive_emulation_state)
  BY DEF SettingsInv, Typed, Remembered, SavedWell, init_drive_emulation_state, Saved, Settings

LEMMA SetupsAreTyped ==
  ASSUME NEW s \in [Settings -> 0 .. 2], NEW o
  PROVE  /\ TurnedOn(s, o) \in [Settings -> 0 .. 2]
         /\ setup_for_disk(s, o) \in [Settings -> 0 .. 2]
         /\ setup_for_prg_vfs(s, o) \in [Settings -> 0 .. 2]
         /\ autostart_prg_with_virtual_fs(s) \in [Settings -> 0 .. 2]
         /\ set_drive_type(s) \subseteq [Settings -> 0 .. 2]
         /\ \A device \in 0 .. 2 : set_tapeport_device(s, device) \in [Settings -> 0 .. 2]
  <1>1. TurnedOn(s, o) \in [Settings -> 0 .. 2]
    BY DEF TurnedOn, Settings, Saveable
  <1>2. setup_for_disk(s, o) \in [Settings -> 0 .. 2]
    BY DEF setup_for_disk, Settings, Saveable
  <1>3. setup_for_prg_vfs(s, o) \in [Settings -> 0 .. 2]
    BY DEF setup_for_prg_vfs, Settings, Saveable, Unsaved
  <1>4. autostart_prg_with_virtual_fs(s) \in [Settings -> 0 .. 2]
    BY DEF autostart_prg_with_virtual_fs, Settings, Saveable, Unsaved
  <1>5. set_drive_type(s) \subseteq [Settings -> 0 .. 2]
    BY DEF set_drive_type, Settings, Unsaved
  <1>6. \A device \in 0 .. 2 : set_tapeport_device(s, device) \in [Settings -> 0 .. 2]
    BY DEF set_tapeport_device, Settings, Unsaved
  <1> QED
    BY <1>1, <1>2, <1>3, <1>4, <1>5, <1>6

LEMMA Reboots ==
  ASSUME SettingsInv, NEW next \in Modes \ AtRest, NEW run, NEW o, SavedWell(o),
         NEW s \in [Settings -> 0 .. 2], reboot_for_autostart(next, run, s, o)
  PROVE  SettingsInv'
  <1> DEFINE warp == next # "HASSNAPSHOT" /\ AutostartWarp
  <1>1. UNCHANGED wanted /\ mode' = next
    BY DEF reboot_for_autostart, rigid
  <1>2. CASE warp
    <2>1. /\ value' = [s EXCEPT !["Warp"] = 1]
          /\ orig' = [o EXCEPT !["Warp"] = s["Warp"]]
          /\ overwritten' = overwritten \cup IF o["Warp"] \notin {-1, s["Warp"]} THEN {"Warp"} ELSE {}
      BY <1>2 DEF reboot_for_autostart
    <2>2. orig' \in [Saveable -> 0 .. 2]
      BY <2>1 DEF SavedWell, Settings, Saveable
    <2>3. \A t \in Saveable \ overwritten' : orig'[t] = wanted[t]
      BY <2>1 DEF SavedWell, Settings, Saveable
    <2>4. Typed'
      BY <1>1, <2>1, <2>2 DEF SettingsInv, Typed, Settings, Saveable
    <2> QED
      BY <1>1, <2>2, <2>3, <2>4 DEF SettingsInv, Remembered, AllSaved, NothingSaved, Saved
  <1>3. CASE ~warp
    <2>1. value' = s /\ orig' = o /\ overwritten' = overwritten
      BY <1>3 DEF reboot_for_autostart
    <2>2. Typed'
      BY <1>1, <2>1 DEF SettingsInv, Typed, SavedWell
    <2> QED
      BY <1>1, <2>1, <2>2 DEF SettingsInv, SavedWell, Remembered, AllSaved, NothingSaved, Saved
  <1> QED
    BY <1>2, <1>3

LEMMA Refuses ==
  ASSUME SettingsInv, NEW s \in [Settings -> 0 .. 2], NEW o, SavedWell(o), Refused(s, o)
  PROVE  SettingsInv'
  <1>1. UNCHANGED <<wanted, overwritten>> /\ mode' = "ERROR" /\ orig' = o /\ value' = s
    BY DEF Refused, rigid
  <1>2. Typed'
    BY <1>1 DEF SettingsInv, Typed, SavedWell, Modes
  <1> QED
    BY <1>1, <1>2 DEF SettingsInv, SavedWell, Remembered, AllSaved, NothingSaved, Saved, AtRest

LEMMA RequestModes == {"HASDISK", "HASTAPE", "INJECT", "HASSNAPSHOT", "ERROR"} \subseteq Modes \ AtRest
  BY DEF Modes, AtRest

LEMMA DiskKeeps ==
  ASSUME SettingsInv, NEW run, autostart_disk(run)
  PROVE  SettingsInv'
  <1> DEFINE o == init_drive_emulation_state
  <1>1. SavedWell(o) /\ value \in [Settings -> 0 .. 2]
    BY SavesWell DEF SettingsInv, Typed
  <1>2. PICK s \in set_drive_type(value) :
          \/ reboot_for_autostart("HASDISK", run, setup_for_disk(TurnedOn(s, o), o), o)
          \/ Refused(s, o)
    BY DEF autostart_disk
  <1>3. s \in [Settings -> 0 .. 2]
    BY <1>1, SetupsAreTyped
  <1>4. setup_for_disk(TurnedOn(s, o), o) \in [Settings -> 0 .. 2]
    <2>1. TurnedOn(s, o) \in [Settings -> 0 .. 2]
      BY <1>3, SetupsAreTyped
    <2> QED
      BY <2>1, SetupsAreTyped
  <1> QED
    BY <1>1, <1>2, <1>3, <1>4, RequestModes, Reboots, Refuses

LEMMA TapeKeeps ==
  ASSUME SettingsInv, NEW run, NEW s \in [Settings -> 0 .. 2], autostart_tape(run, s) \/ autostart_tapecart(s)
  PROVE  SettingsInv'
  <1> DEFINE o == init_drive_emulation_state
  <1>1. SavedWell(o)
    BY SavesWell
  <1>2. CASE autostart_tape(run, s)
    <2>1. PICK device1 \in {s["Device1"], 1} :
            reboot_for_autostart("HASTAPE", run, [s EXCEPT !["Device1"] = device1], o)
      BY <1>2 DEF autostart_tape
    <2>2. [s EXCEPT !["Device1"] = device1] \in [Settings -> 0 .. 2]
      BY DEF Settings, Unsaved
    <2> QED
      BY <1>1, <2>1, <2>2, RequestModes, Reboots
  <1>3. CASE autostart_tapecart(s)
    BY <1>1, <1>3, RequestModes, Reboots DEF autostart_tapecart
  <1> QED
    BY <1>2, <1>3

LEMMA PrgKeeps ==
  ASSUME SettingsInv, NEW run, NEW s \in [Settings -> 0 .. 2], autostart_prg(run, s)
  PROVE  SettingsInv'
  <1> DEFINE o == init_drive_emulation_state
  <1>1. SavedWell(o)
    BY SavesWell
  <1>2. autostart_prg_with_virtual_fs(setup_for_prg_vfs(s, o)) \in [Settings -> 0 .. 2]
    <2>1. setup_for_prg_vfs(s, o) \in [Settings -> 0 .. 2]
      BY SetupsAreTyped
    <2> QED
      BY <2>1, SetupsAreTyped
  <1>3. TurnedOn(setup_for_disk(s, o), o) \in [Settings -> 0 .. 2]
    <2>1. setup_for_disk(s, o) \in [Settings -> 0 .. 2]
      BY SetupsAreTyped
    <2> QED
      BY <2>1, SetupsAreTyped
  <1> QED
    BY <1>1, <1>2, <1>3, RequestModes, Reboots, Refuses DEF autostart_prg

LEMMA Requests ==
  ASSUME SettingsInv, autostart_autodetect
  PROVE  SettingsInv'
  <1>1. value \in [Settings -> 0 .. 2] /\ SavedWell(init_drive_emulation_state)
    BY SavesWell DEF SettingsInv, Typed
  <1>2. PICK run \in {"RUN", "LOAD"}, s \in set_drive_type(value) :
          \/ autostart_disk(run)
          \/ autostart_tape(run, set_tapeport_device(s, 1))
          \/ autostart_tapecart(set_tapeport_device(s, 2))
          \/ autostart_snapshot(s, init_drive_emulation_state)
          \/ autostart_prg(run, s)
    BY DEF autostart_autodetect
  <1>3. s \in [Settings -> 0 .. 2]
    BY <1>1, SetupsAreTyped
  <1>4. /\ set_tapeport_device(s, 1) \in [Settings -> 0 .. 2]
        /\ set_tapeport_device(s, 2) \in [Settings -> 0 .. 2]
    BY <1>3, SetupsAreTyped
  <1>5. CASE autostart_snapshot(s, init_drive_emulation_state)
    BY <1>1, <1>3, <1>5, RequestModes, Reboots DEF autostart_snapshot
  <1> QED
    BY <1>2, <1>3, <1>4, <1>5, DiskKeeps, TapeKeeps, PrgKeeps

LEMMA RequestsByKind ==
  ASSUME SettingsInv, autostart_by_kind
  PROVE  SettingsInv'
  <1>1. CASE \E run \in {"RUN", "LOAD"} : autostart_tape(run, value)
    BY <1>1, TapeKeeps DEF SettingsInv, Typed
  <1>2. CASE autostart_snapshot(value, orig) \/ Refused(value, orig)
    <2>1. UNCHANGED <<settings, wanted>> /\ mode' \in {"HASSNAPSHOT", "ERROR"}
      BY <1>2 DEF autostart_snapshot, reboot_for_autostart, Refused, settings, rigid, SettingsInv, Typed
    <2> QED
      BY <2>1, RequestModes, KeepsSettings
  <1> QED
    BY <1>1, <1>2 DEF autostart_by_kind

-----------------------------------------------------------------------------
(* The steps of the watcher and of the machine. *)

LEMMA RomAreaKeeps ==
  ASSUME SettingsInv, check_rom_area, UNCHANGED wanted
  PROVE  SettingsInv'
  <1>1. CASE autostart_done
    BY <1>1, RestoresSettings DEF autostart_done, AtRest
  <1>2. CASE UNCHANGED <<mode, settings>>
    BY <1>2, KeepsSettings DEF SettingsInv, Typed
  <1> QED
    BY <1>1, <1>2 DEF check_rom_area, Stay, settings

LEMMA StepKeeps ==
  ASSUME SettingsInv, UNCHANGED wanted,
         \/ GiveUp \/ Stay \/ Loaded \/ check_rom_area \/ autostart_done
         \/ \E next \in Modes \ (AtRest \cup {"HASDISK"}) : GoOn(next)
  PROVE  SettingsInv'
  <1>1. CASE GiveUp
    BY <1>1, GivesUp DEF GiveUp
  <1>2. CASE Stay
    BY <1>2, KeepsSettings DEF Stay, SettingsInv, Typed
  <1>3. CASE Loaded \/ autostart_done
    BY <1>3, RestoresSettings DEF Loaded, autostart_done, AtRest
  <1>4. CASE check_rom_area
    BY <1>4, RomAreaKeeps
  <1>5. CASE \E next \in Modes \ (AtRest \cup {"HASDISK"}) : GoOn(next)
    BY <1>5, KeepsSettings DEF GoOn
  <1> QED
    BY <1>1, <1>2, <1>3, <1>4, <1>5

LEMMA AdvanceKeeps ==
  ASSUME SettingsInv, Advance, UNCHANGED wanted
  PROVE  SettingsInv'
  <1>1. {"PRESSPLAYONTAPE", "LOADINGTAPE", "WAITLOADING", "WAITLOADREADY", "ERROR"}
          \subseteq Modes \ (AtRest \cup {"HASDISK"})
    BY DEF Modes, AtRest
  <1>2. CASE advance_hastape
    <2>1. CASE UNCHANGED settings /\ mode' = "PRESSPLAYONTAPE"
      BY <1>1, <2>1, KeepsSettings
    <2> QED
      BY <1>2, <2>1, StepKeeps DEF advance_hastape
  <1>3. CASE advance_pressplayontape
    BY <1>1, <1>3, StepKeeps DEF advance_pressplayontape
  <1>4. CASE advance_loadingtape
    BY <1>4, StepKeeps DEF advance_loadingtape
  <1>5. CASE advance_hassnapshot
    <2>1. CASE UNCHANGED settings /\ mode' = "ERROR"
      BY <1>1, <2>1, KeepsSettings
    <2> QED
      BY <1>5, <2>1, StepKeeps DEF advance_hassnapshot
  <1>6. CASE mode = "HASDISK" /\ advance_hasdisk
    BY <1>6, TypesLoad, RefusesDisk, RomAreaKeeps DEF advance_hasdisk
  <1>7. CASE advance_waitsearchingfor
    BY <1>1, <1>7, StepKeeps DEF advance_waitsearchingfor
  <1>8. CASE advance_waitloading
    BY <1>1, <1>8, StepKeeps DEF advance_waitloading
  <1>9. CASE advance_waitloadready
    BY <1>9, StepKeeps DEF advance_waitloadready
  <1>10. CASE advance_inject
    BY <1>1, <1>10, StepKeeps DEF advance_inject
  <1>11. CASE autostart_error
    BY <1>11, RestoresSettings DEF autostart_error, AtRest
  <1>12. CASE Stay
    BY <1>12, StepKeeps
  <1> QED
    BY <1>2, <1>3, <1>4, <1>5, <1>6, <1>7, <1>8, <1>9, <1>10, <1>11, <1>12 DEF Advance

LEMMA NextSettings == SettingsInv /\ [Next]_vars => SettingsInv'
  <1> SUFFICES ASSUME SettingsInv, [Next]_vars PROVE SettingsInv' OBVIOUS
  <1>1. CASE autostart_advance
    <2>1. UNCHANGED wanted
      BY <1>1 DEF autostart_advance, rigid
    <2>2. Stay \/ Advance
      BY <1>1 DEF autostart_advance, Delayed
    <2> QED
      BY <2>1, <2>2, AdvanceKeeps, StepKeeps
  <1>2. CASE KernalPrints \/ ReadKeys \/ Attention \/ ProgramEnds
    <2>1. UNCHANGED <<mode, settings, wanted>>
      BY <1>2 DEF KernalPrints, ReadKeys, Attention, ProgramEnds, KernalUnchanged, rigid
    <2> QED
      BY <2>1, KeepsSettings DEF SettingsInv, Typed
  <1>3. CASE Receive
    <2>1. UNCHANGED wanted /\ (autostart_done \/ UNCHANGED <<mode, settings>>)
      BY <1>3 DEF Receive, disk_eof_callback, KernalUnchanged, rigid
    <2> QED
      BY <2>1, KeepsSettings, StepKeeps DEF SettingsInv, Typed
  <1>4. CASE DelayEnds \/ UserResets \/ UserLoads
    <2>1. UNCHANGED <<mode, settings, wanted>>
      BY <1>4 DEF DelayEnds, UserResets, UserLoads, steps, rigid
    <2> QED
      BY <2>1, KeepsSettings DEF SettingsInv, Typed
  <1>5. CASE machine_reset
    <2>1. UNCHANGED wanted
      BY <1>5 DEF machine_reset, rigid
    <2>2. CASE restore_drive_emulation_state /\ mode' = "NONE"
      BY <2>1, <2>2, RestoresSettings DEF AtRest
    <2>3. CASE UNCHANGED settings /\ (mode' = mode \/ (mode = "DONE" /\ mode' = "NONE"))
      BY <2>1, <2>3, KeepsSettings DEF SettingsInv, Typed, Modes, AtRest
    <2>4. CASE ~ignore_reset /\ mode \notin {"NONE", "ERROR", "DONE"}
      BY <1>5, <2>2, <2>4 DEF machine_reset, autostart_reset
    <2>5. CASE ~(~ignore_reset /\ mode \notin {"NONE", "ERROR", "DONE"})
      <3>1. UNCHANGED <<settings, vfs, eof_callback>>
        BY <1>5, <2>5 DEF machine_reset, autostart_reset
      <3>2. mode' = mode \/ (mode = "DONE" /\ mode' = "NONE")
        BY <1>5, <2>5 DEF machine_reset, autostart_reset
      <3> QED
        BY <2>3, <3>1, <3>2
    <2> QED
      BY <2>4, <2>5
  <1>6. CASE autostart_autodetect \/ autostart_by_kind
    BY <1>6, Requests, RequestsByKind
  <1>7. CASE UNCHANGED vars
    <2>1. UNCHANGED <<mode, settings, wanted>>
      BY <1>7 DEF vars, steps, rigid
    <2> QED
      BY <2>1, KeepsSettings DEF SettingsInv, Typed
  <1> QED
    BY <1>1, <1>2, <1>3, <1>4, <1>5, <1>6, <1>7 DEF Next

THEOREM SettingsAreKept == Spec => []SettingsInv
  <1>1. Init => SettingsInv
    BY InitSettings
  <1>2. SettingsInv /\ [Next]_vars => SettingsInv'
    BY NextSettings
  <1> QED
    BY <1>1, <1>2, PTL DEF Spec

(* Whatever way an autostart ends (autostart.c:715-718), a setting that it *)
(* saved is again what the user made it unless its saved value was         *)
(* replaced, for any number of requests, resets and loads.  The drive      *)
(* type, the tape port device, the traps of the tape unit and the          *)
(* directory of the file system device are not among them.                 *)
THEOREM AutostartRestores == Spec => []RestoredUnlessOverwritten
  <1>1. SettingsInv => RestoredUnlessOverwritten
    BY DEF SettingsInv, Typed, Remembered, NothingSaved, RestoredUnlessOverwritten, Saved, Nothing
  <1> QED
    BY <1>1, SettingsAreKept, PTL

-----------------------------------------------------------------------------
(* The rest of the type invariant. *)

OtherTypes ==
  /\ run_mode \in {"RUN", "LOAD"}
  /\ screen \in Screens /\ keys \in Keys /\ requests \in 0 .. MaxRequests

LEMMA KeysTyped ==
  ASSUME keys \in Keys, Advance
  PROVE  keys' \in Keys
  <1>1. ASSUME GiveUp \/ Stay \/ Loaded \/ check_rom_area \/ \E next \in Modes : GoOn(next)
        PROVE  keys' \in Keys
    BY <1>1 DEF GiveUp, Stay, Loaded, autostart_finish, check_rom_area, GoOn, Keys
  <1>2. {"LOADINGTAPE", "WAITLOADING", "WAITLOADREADY"} \subseteq Modes
    BY DEF Modes
  <1>3. CASE advance_hastape \/ advance_pressplayontape \/ advance_loadingtape
    BY <1>1, <1>2, <1>3 DEF advance_hastape, advance_pressplayontape, advance_loadingtape, Keys
  <1>4. CASE advance_hassnapshot \/ advance_inject \/ autostart_error \/ Stay
    BY <1>1, <1>2, <1>4 DEF advance_hassnapshot, advance_inject, autostart_error
  <1>5. CASE advance_hasdisk
    BY <1>1, <1>5 DEF advance_hasdisk, TypeLoad, RefuseDisk, Keys
  <1>6. CASE advance_waitsearchingfor \/ advance_waitloading \/ advance_waitloadready
    BY <1>1, <1>2, <1>6 DEF advance_waitsearchingfor, advance_waitloading, advance_waitloadready
  <1> QED
    BY <1>3, <1>4, <1>5, <1>6 DEF Advance

LEMMA RequestsTyped ==
  ASSUME OtherTypes, autostart_autodetect \/ autostart_by_kind
  PROVE  OtherTypes'
  <1>1. requests' \in 0 .. MaxRequests
    BY DEF OtherTypes, autostart_autodetect, autostart_by_kind, Ask
  <1>2. UNCHANGED <<screen, keys>> /\ run_mode' \in {run_mode, "RUN", "LOAD"}
    BY DEF autostart_autodetect, autostart_by_kind, autostart_disk, autostart_tape, autostart_tapecart,
           autostart_prg, autostart_snapshot, reboot_for_autostart, Refused
  <1> QED
    BY <1>1, <1>2 DEF OtherTypes

LEMMA OthersTyped == OtherTypes /\ [Next]_vars => OtherTypes'
  <1> SUFFICES ASSUME OtherTypes, [Next]_vars PROVE OtherTypes' OBVIOUS
  <1>1. CASE autostart_advance
    <2>1. UNCHANGED <<run_mode, requests>>
      BY <1>1 DEF autostart_advance, Delayed, AdvanceFrame
    <2>2. screen' \in {screen, "program"}
      <3>1. CASE Delayed
        BY <3>1 DEF Delayed
      <3>2. CASE Advance /\ AdvanceFrame /\ mode # "HASSNAPSHOT"
        BY <3>2 DEF AdvanceFrame
      <3>3. CASE Advance /\ mode = "HASSNAPSHOT"
        BY <3>3 DEF Advance, advance_hassnapshot
      <3> QED
        BY <1>1, <3>1, <3>2, <3>3 DEF autostart_advance
    <2>3. keys' \in Keys
      BY <1>1, KeysTyped DEF autostart_advance, Delayed, Stay, OtherTypes
    <2> QED
      BY <2>1, <2>2, <2>3 DEF OtherTypes, Screens
  <1>2. CASE KernalPrints \/ ReadKeys \/ Attention \/ ProgramEnds
    <2>1. UNCHANGED <<run_mode, requests>> /\ keys' \in {keys, "none"}
      BY <1>2 DEF KernalPrints, ReadKeys, Attention, ProgramEnds, KernalUnchanged
    <2>2. screen' \in Screens
      BY <1>2 DEF KernalPrints, ReadKeys, Attention, ProgramEnds, Show, Screens
    <2> QED
      BY <2>1, <2>2 DEF OtherTypes, Keys
  <1>3. CASE Receive
    <2>1. UNCHANGED <<run_mode, requests>> /\ keys' \in {keys, "run"}
      BY <1>3 DEF Receive, disk_eof_callback, autostart_finish, KernalUnchanged
    <2>2. screen' \in Screens
      BY <1>3 DEF Receive, Show, Screens
    <2> QED
      BY <2>1, <2>2 DEF OtherTypes, Keys
  <1>4. CASE DelayEnds \/ UserResets \/ UserLoads
    <2>1. UNCHANGED <<run_mode, screen>> /\ keys' \in {keys, "load"}
      BY <1>4 DEF DelayEnds, UserResets, UserLoads, steps
    <2>2. requests' \in 0 .. MaxRequests
      BY <1>4 DEF DelayEnds, UserResets, UserLoads, Ask, OtherTypes
    <2> QED
      BY <2>1, <2>2 DEF OtherTypes, Keys
  <1>5. CASE machine_reset
    BY <1>5 DEF machine_reset, autostart_reset, OtherTypes, Keys, Screens
  <1>6. CASE autostart_autodetect \/ autostart_by_kind
    BY <1>6, RequestsTyped
  <1>7. CASE UNCHANGED vars
    BY <1>7 DEF vars, steps, machine, OtherTypes
  <1> QED
    BY <1>1, <1>2, <1>3, <1>4, <1>5, <1>6, <1>7 DEF Next

(* Type correctness, for any number of requests and any users. *)
THEOREM TypeCorrect == Spec => []TypeOK
  <1>1. Init => OtherTypes
    BY DEF Init, OtherTypes, Screens, Keys
  <1>2. OtherTypes /\ [Next]_vars => OtherTypes'
    BY OthersTyped
  <1>3. Spec => []OtherTypes
    BY <1>1, <1>2, PTL DEF Spec
  <1>4. SettingsInv /\ OtherTypes => TypeOK
    BY DEF SettingsInv, Typed, OtherTypes, TypeOK
  <1> QED
    BY <1>3, <1>4, SettingsAreKept, PTL

-----------------------------------------------------------------------------
(* Once a reset by the user has ended an autostart, the watcher stands by.  *)
(* The callbacks that are left play themselves out in the next load through *)
(* the traps: the first makes way for the second, and that one, which types *)
(* no RUN in mode NONE, leaves DONE with none of them set.                  *)
EndedInv ==
  ended =>
    /\ mode = "NONE" \/ (mode = "DONE" /\ ~attention_callback /\ ~eof_callback)
    /\ screen = "loading" /\ ViaTraps => ~attention_callback

(* What stands by changes nothing. *)
LEMMA StandsBy ==
  ASSUME ended, EndedInv, autostart_advance
  PROVE  UNCHANGED <<mode, settings, keys, screen, callbacks, ended>>
  <1>1. mode \in AtRest
    BY DEF EndedInv, AtRest
  <1>2. UNCHANGED <<eof_callback, ended>>
    BY DEF autostart_advance
  <1>3. CASE Delayed
    BY <1>2, <1>3 DEF Delayed, Stay, callbacks
  <1>4. CASE Advance /\ AdvanceFrame
    BY <1>1, <1>2, <1>4 DEF Advance, AdvanceFrame, Stay, AtRest, callbacks
  <1> QED
    BY <1>3, <1>4 DEF autostart_advance

LEMMA EndedStays ==
  ASSUME EndedInv, ended' => ended, mode' = mode, value' = value,
         screen' \in {screen, "boot"}, UNCHANGED callbacks
  PROVE  EndedInv'
  BY DEF EndedInv, ViaTraps, callbacks

LEMMA NextEnded == EndedInv /\ [Next]_vars => EndedInv'
  <1> SUFFICES ASSUME EndedInv, [Next]_vars PROVE EndedInv' OBVIOUS
  <1>1. CASE autostart_advance
    <2>1. CASE ended
      BY <1>1, <2>1, StandsBy, EndedStays DEF settings
    <2>2. CASE ~ended
      BY <1>1, <2>2 DEF autostart_advance, EndedInv
    <2> QED
      BY <2>1, <2>2
  <1>2. CASE KernalPrints \/ ReadKeys \/ ProgramEnds
    <2>1. UNCHANGED <<mode, value, callbacks, ended>> /\ screen' # "loading"
      BY <1>2 DEF KernalPrints, ReadKeys, ProgramEnds, KernalUnchanged, Show, settings
    <2> QED
      BY <2>1 DEF EndedInv, callbacks
  <1>3. CASE Attention
    <2>1. UNCHANGED <<mode, value, ended>>
      BY <1>3 DEF Attention, KernalUnchanged, settings
    <2>2. CASE ViaTraps /\ attention_callback
      <3>1. attention_callback' = FALSE /\ (mode = "DONE" => ~ended)
        BY <1>3, <2>2 DEF Attention, disk_attention_callback, EndedInv
      <3> QED
        BY <2>1, <3>1 DEF EndedInv
    <2>3. CASE ~(ViaTraps /\ attention_callback)
      <3>1. UNCHANGED callbacks
        BY <1>3, <2>3 DEF Attention
      <3> QED
        BY <2>1, <2>3, <3>1 DEF EndedInv, callbacks, ViaTraps
    <2> QED
      BY <2>2, <2>3
  <1>4. CASE Receive
    <2>1. UNCHANGED <<attention_callback, ended>> /\ screen = "loading" /\ screen' # "loading"
      BY <1>4 DEF Receive, KernalUnchanged, Show
    <2>2. CASE UNCHANGED <<mode, eof_callback>>
      BY <2>1, <2>2 DEF EndedInv
    <2>3. CASE ViaTraps /\ disk_eof_callback
      <3>1. mode' = "DONE" /\ eof_callback' = FALSE
        BY <2>3 DEF disk_eof_callback, autostart_done
      <3> QED
        BY <2>1, <2>3, <3>1 DEF EndedInv
    <2> QED
      BY <1>4, <2>2, <2>3 DEF Receive
  <1>5. CASE DelayEnds \/ UserResets \/ UserLoads
    <2>1. UNCHANGED <<mode, value, screen, callbacks, ended>>
      BY <1>5 DEF DelayEnds, UserResets, UserLoads, steps, settings
    <2> QED
      BY <2>1, EndedStays
  <1>6. CASE machine_reset
    <2>1. screen' = "boot" /\ attention_callback' = attention_callback
      BY <1>6 DEF machine_reset
    <2>2. CASE ~ignore_reset /\ mode \notin {"NONE", "ERROR"}
      BY <1>6, <2>1, <2>2 DEF machine_reset, autostart_reset, EndedInv
    <2>3. CASE ~(~ignore_reset /\ mode \notin {"NONE", "ERROR"})
      <3>1. UNCHANGED <<mode, eof_callback>>
        BY <1>6, <2>3 DEF machine_reset, autostart_reset
      <3>2. ended' => ended
        BY <1>6, <2>3 DEF machine_reset, autostart_reset
      <3> QED
        BY <2>1, <3>1, <3>2 DEF EndedInv
    <2> QED
      BY <2>2, <2>3
  <1>7. CASE autostart_autodetect \/ autostart_by_kind
    <2>1. ~ended'
      BY <1>7 DEF autostart_autodetect, autostart_by_kind, autostart_disk, autostart_tape, autostart_tapecart,
                  autostart_prg, autostart_snapshot, reboot_for_autostart, Refused
    <2> QED
      BY <2>1 DEF EndedInv
  <1>8. CASE UNCHANGED vars
    BY <1>8, EndedStays DEF vars, steps, settings, machine
  <1> QED
    BY <1>1, <1>2, <1>3, <1>4, <1>5, <1>6, <1>7, <1>8 DEF Next

(* A reset by the user ends an autostart for good: what it left in the      *)
(* serial traps types no RUN (disk_eof_callback(), autostart.c:913).        *)
THEOREM ResetEndsAutostart == Spec => NoRunAfterReset
  <1>1. Init => EndedInv
    BY DEF Init, EndedInv
  <1>2. EndedInv /\ [Next]_vars => [ended' => ~(keys # "run" /\ keys' = "run")]_vars
    <2> SUFFICES ASSUME EndedInv, Next, ended', keys # "run" PROVE keys' # "run"
      OBVIOUS
    <2>1. CASE autostart_advance
      <3>1. ended
        BY <2>1 DEF autostart_advance
      <3> QED
        BY <2>1, <3>1, StandsBy
    <2>2. CASE Receive
      <3>1. ended
        BY <2>2 DEF Receive, KernalUnchanged
      <3>2. CASE mode = "NONE"
        BY <2>2, <3>2 DEF Receive, disk_eof_callback
      <3>3. CASE ~eof_callback
        BY <2>2, <3>3 DEF Receive
      <3> QED
        BY <3>1, <3>2, <3>3 DEF EndedInv
    <2>3. CASE KernalPrints \/ ReadKeys \/ Attention \/ ProgramEnds \/ DelayEnds \/ UserResets \/ UserLoads
      BY <2>3 DEF KernalPrints, ReadKeys, Attention, ProgramEnds, DelayEnds, UserResets, UserLoads
    <2>4. CASE machine_reset
      BY <2>4 DEF machine_reset, autostart_reset
    <2>5. CASE autostart_autodetect \/ autostart_by_kind
      BY <2>5 DEF autostart_autodetect, autostart_by_kind, autostart_disk, autostart_tape, autostart_tapecart,
                  autostart_prg, autostart_snapshot, reboot_for_autostart, Refused
    <2> QED
      BY <2>1, <2>2, <2>3, <2>4, <2>5 DEF Next
  <1> QED
    BY <1>1, <1>2, NextEnded, PTL DEF Spec, NoRunAfterReset
=============================================================================
