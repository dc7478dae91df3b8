------------------------------ MODULE Autostart -----------------------------
(***************************************************************************)
(* Starting a program from an image (autostart.c, autostart-prg.c).        *)
(*                                                                         *)
(* An autostart resets the machine and then watches its screen: after      *)
(* every opcode autostart_advance() compares a line of it with the message *)
(* that the KERNAL should show next, types LOAD and RUN into the keyboard  *)
(* buffer, and gives up when it sees something else.  For the time of the  *)
(* load it changes settings of the user, most of which it saved before and *)
(* puts back at every exit; others stay changed.  A load that goes through *)
(* the serial traps is ended by two callbacks that the traps call, at the  *)
(* attention of the device and at the end of the file.                     *)
(*                                                                         *)
(* The machine is what the watcher sees of it: the message at the cursor.  *)
(* Everything here runs on the vice thread; requests of the user come      *)
(* between two opcodes.                                                    *)
(***************************************************************************)
EXTENDS Integers

CONSTANTS
  MaxRequests,   (* bound: what the user asks for in a behaviour     *)
  Users          (* bound: the users, each by the settings turned on *)

(* The settings that are saved: warp mode and, of unit 8, true drive       *)
(* emulation, device traps, the IEC device and the settings of the file    *)
(* system device (FS, of which 1 is what the virtual file system mode      *)
(* sets).                                                                  *)
Saveable == {"TDE", "Traps", "IEC", "Warp", "FS"}

(* Those that are changed as well and never saved: the device traps of the *)
(* tape unit (VirtualDevice1), the tape port device (0 for none, 1 for the *)
(* datasette, 2 for the tapecart), the drive type (1 for one that reads    *)
(* every image of the user) and the directory of the file system device    *)
(* (1 for that of the user's programs).                                    *)
Unsaved  == {"Device1", "TapePort", "DriveType", "FSDir"}
Settings == Saveable \cup Unsaved
Nothing  == [s \in Saveable |-> -1]

ASSUME UsersAssumption ==
  /\ MaxRequests \in Nat \ {0}
  /\ Users \subseteq SUBSET (Settings \ {"FS"})

VARIABLES
  mode,                (* autostartmode                                        *)
  run_mode,            (* whether RUN is to be typed after the load            *)
  value,               (* the settings that an autostart changes               *)
  orig,                (* their saved values, -1 for none                      *)
  vfs,                 (* autostart_type is AUTOSTART_PRG_VFS                   *)
  inject_prg,          (* a program waits to be injected                       *)
  wait_for_reset,
  ignore_reset,
  entered_rom,
  attention_callback,  (* disk_attention_callback() is set                     *)
  eof_callback,        (* disk_eof_callback() is set                           *)
  AutostartWarp,
  handle_tde,          (* handle_drive_true_emulation_overridden               *)
  screen,              (* what the machine shows at the cursor                 *)
  keys,                (* what waits in the keyboard buffer                    *)
  early,               (* maincpu_clk < autostart_initial_delay_cycles         *)
  reset_due,           (* a reset of the machine is triggered                  *)
  checked,             (* autostart_advance() can do nothing more with screen  *)
  requests,            (* what the user asked for so far                       *)
  wanted,              (* the settings as the user made them                   *)
  overwritten,         (* settings whose saved value was lost                  *)
  ended                (* a reset by the user ended the last autostart         *)

steps     == <<mode, run_mode, vfs, inject_prg, wait_for_reset, ignore_reset, entered_rom>>
settings  == <<value, orig, overwritten>>
callbacks == <<attention_callback, eof_callback>>
machine   == <<screen, keys, early, reset_due, checked>>
rigid     == <<AutostartWarp, handle_tde, wanted>>
vars      == <<steps, settings, callbacks, machine, rigid, requests, ended>>

AtRest  == {"NONE", "DONE"}
Modes   == AtRest \cup {"ERROR", "HASTAPE", "PRESSPLAYONTAPE", "LOADINGTAPE", "HASDISK",
             "HASSNAPSHOT", "WAITLOADREADY", "WAITLOADING", "WAITSEARCHINGFOR", "INJECT"}
Screens == {"boot", "ready", "open", "play", "tape", "searching", "loading", "error", "program"}
Keys    == {"none", "load", "tapeload", "run"}

Init ==
  /\ mode = "NONE"
  /\ run_mode = "RUN"
  /\ \E on \in Users : wanted = [s \in Settings |-> IF s \in on THEN 1 ELSE 0]
  /\ value = wanted
  /\ orig = Nothing
  /\ AutostartWarp \in BOOLEAN
  /\ handle_tde \in BOOLEAN
  /\ screen = "ready"
  /\ keys = "none"
  /\ checked = TRUE
  /\ requests = 0
  /\ overwritten = {}
  /\ vfs = FALSE /\ inject_prg = FALSE /\ entered_rom = FALSE
  /\ wait_for_reset = FALSE /\ ignore_reset = FALSE /\ reset_due = FALSE /\ early = FALSE
  /\ attention_callback = FALSE /\ eof_callback = FALSE
  /\ ended = FALSE

-----------------------------------------------------------------------------
(* What the watcher reads from the screen: a text that is complete, one    *)
(* that may still become it (blank, or an S or an L), or another one.      *)
(* A program may show anything.                                            *)

check2(text) ==
  IF keys # "none" THEN {"NOT_YET"}
  ELSE CASE screen = "program"                        -> {"NO", "NOT_YET"}
         [] screen = text                             -> {"YES"}
         [] screen \in {"error", "play"} /\ text # "ready" -> {"NO"}
         [] OTHER                                     -> {"NOT_YET"}

AddrInRam == screen = "program"

Saved(s) == s \in Saveable /\ orig[s] # -1

(* The settings, and what they become at the exits. *)
init_drive_emulation_state_Again == [s \in Saveable |-> value[s]]
init_drive_emulation_state == [s \in Saveable |-> IF Saved(s) THEN orig[s] ELSE value[s]]
Restored == [s \in Settings |-> IF Saved(s) THEN orig[s] ELSE value[s]]
disable_warp_if_was_requested ==
  IF AutostartWarp /\ orig["Warp"] = 0 THEN [value EXCEPT !["Warp"] = 0] ELSE value

restore_drive_emulation_state ==
  /\ value' = Restored
  /\ orig' = Nothing
  /\ vfs' = FALSE
  /\ UNCHANGED overwritten

autostart_done == restore_drive_emulation_state /\ mode' = "DONE"

autostart_finish == keys' = IF run_mode = "RUN" THEN "run" ELSE keys

(* A wrong message: warp mode off, the rest is restored by the next step. *)
GiveUp ==
  /\ value' = disable_warp_if_was_requested
  /\ mode' = "ERROR"
  /\ UNCHANGED <<orig, overwritten, vfs, keys, entered_rom>>

GoOn(next) == mode' = next /\ UNCHANGED <<settings, vfs, keys>>

Stay == UNCHANGED <<mode, settings, vfs, keys, entered_rom>>

(* The machine may have started a program by itself: once the ROM was      *)
(* entered, leaving it ends the autostart.                                 *)
check_rom_area ==
  IF ~entered_rom
    THEN /\ entered_rom' = ~AddrInRam
         /\ UNCHANGED <<mode, settings, vfs, keys>>
    ELSE IF AddrInRam THEN autostart_done /\ UNCHANGED <<entered_rom, keys>> ELSE Stay

Loaded == autostart_finish /\ autostart_done /\ UNCHANGED entered_rom

-----------------------------------------------------------------------------
(* The steps, each by the answer of its check. *)

advance_hastape ==
  \E answer \in check2("ready") :
    \/ answer = "YES" /\ keys' = "tapeload" /\ mode' = "PRESSPLAYONTAPE" /\ entered_rom' = FALSE
                      /\ UNCHANGED <<settings, vfs>>
    \/ answer = "NO" /\ GiveUp
    \/ answer = "NOT_YET" /\ Stay

advance_pressplayontape ==
  \E answer \in check2("play") :
    \/ answer = "YES" /\ GoOn("LOADINGTAPE") /\ UNCHANGED entered_rom
    \/ answer = "NO" /\ GiveUp
    \/ answer = "NOT_YET" /\ Stay

advance_loadingtape ==
  \E answer \in check2("ready") :
    \/ answer = "YES" /\ Loaded
    \/ answer = "NO" /\ GiveUp
    \/ answer = "NOT_YET" /\ check_rom_area

(* The settings of the drive for the load itself. *)
setup_for_disk_ready ==
  IF ~handle_tde THEN value
  ELSE IF orig["Traps"] # 0 \/ orig["IEC"] # 0 THEN [value EXCEPT !["TDE"] = 0]
  ELSE IF orig["TDE"] = 0 THEN [value EXCEPT !["TDE"] = 1]
  ELSE value

TypeLoad ==
  /\ value' = setup_for_disk_ready
  /\ keys' = "load"
  /\ mode' = "WAITSEARCHINGFOR"
  /\ attention_callback' = (attention_callback \/ (value'["TDE"] = 0 /\ ~vfs))
  /\ UNCHANGED <<orig, overwritten, vfs, entered_rom>>

(* The refusal takes the settings of the moment for those of the user. *)
DriveSettings == {"TDE", "Traps", "IEC"}
RefuseDisk ==
  /\ orig' = [s \in Saveable |-> IF s \in DriveSettings THEN value[s] ELSE orig[s]]
  /\ overwritten' = overwritten \cup {s \in DriveSettings : Saved(s) /\ orig[s] # value[s]}
  /\ value' = disable_warp_if_was_requested
  /\ mode' = "ERROR"
  /\ UNCHANGED <<vfs, keys, entered_rom, attention_callback>>

advance_hasdisk ==
  \E answer \in check2("ready") :
    \/ answer = "YES" /\ TypeLoad
    \/ answer = "NO" /\ RefuseDisk
    \/ answer = "NOT_YET" /\ check_rom_area /\ UNCHANGED attention_callback

(* The snapshot is read by a trap and replaces the machine. *)
advance_hassnapshot ==
  \E answer \in check2("ready") :
    \/ answer = "YES" /\ autostart_done /\ screen' = "program" /\ UNCHANGED <<keys, entered_rom>>
    \/ answer = "NO" /\ mode' = "ERROR"
                     /\ UNCHANGED <<settings, vfs, keys, entered_rom, screen>>
    \/ answer = "NOT_YET" /\ Stay /\ UNCHANGED screen

advance_waitsearchingfor ==
  \E answer \in check2("searching") :
    \/ answer = "YES" /\ GoOn("WAITLOADING") /\ UNCHANGED entered_rom
    \/ answer = "NO" /\ GiveUp
    \/ answer = "NOT_YET" /\ check_rom_area

advance_waitloading_NoError ==
  \E answer \in check2("loading") :
    \/ answer = "YES" /\ GoOn("WAITLOADREADY") /\ entered_rom' = FALSE
    \/ answer \in {"NO", "NOT_YET"} /\ check_rom_area

advance_waitloading ==
  \E answer \in check2("loading") :
    \/ answer = "YES" /\ GoOn("WAITLOADREADY") /\ entered_rom' = FALSE
    \/ answer = "NO" /\ GiveUp
    \/ answer = "NOT_YET" /\ check_rom_area

advance_waitloadready ==
  \E answer \in check2("ready") :
    \/ answer = "YES" /\ Loaded
    \/ answer = "NO" /\ GiveUp
    \/ answer = "NOT_YET" /\ check_rom_area

advance_inject ==
  IF inject_prg
    THEN GoOn("WAITLOADREADY") /\ inject_prg' = FALSE /\ UNCHANGED entered_rom
    ELSE GiveUp /\ UNCHANGED inject_prg

autostart_error ==
  restore_drive_emulation_state /\ mode' = "DONE" /\ UNCHANGED <<keys, entered_rom>>

(* No opcode is executed while a reset is due. *)
Running == ~reset_due

Advance ==
  CASE mode = "HASTAPE"          -> advance_hastape
    [] mode = "PRESSPLAYONTAPE"  -> advance_pressplayontape
    [] mode = "LOADINGTAPE"      -> advance_loadingtape
    [] mode = "HASSNAPSHOT"      -> advance_hassnapshot
    [] mode = "HASDISK"          -> advance_hasdisk
    [] mode = "WAITSEARCHINGFOR" -> advance_waitsearchingfor
    [] mode = "WAITLOADING"      -> advance_waitloading
    [] mode = "WAITLOADREADY"    -> advance_waitloadready
    [] mode = "INJECT"           -> advance_inject
    [] mode = "ERROR"            -> autostart_error
    [] OTHER                     -> Stay

(* What each step leaves alone. *)
AdvanceFrame ==
  /\ mode # "HASDISK" => UNCHANGED attention_callback
  /\ mode # "HASSNAPSHOT" => UNCHANGED screen
  /\ mode # "INJECT" => UNCHANGED inject_prg
  /\ checked' = (mode' = mode /\ entered_rom' = entered_rom)
  /\ UNCHANGED <<run_mode, wait_for_reset>>

(* Nothing is looked at before the reset and the initial delay after it. *)
Delayed_KeepsWaiting ==
  checked' = TRUE /\ Stay /\ UNCHANGED <<wait_for_reset, run_mode, inject_prg, attention_callback, screen>>

Delayed ==
  /\ wait_for_reset' = ~early
  /\ checked' = TRUE
  /\ Stay
  /\ UNCHANGED <<run_mode, inject_prg, attention_callback, screen>>

autostart_advance ==
  /\ Running
  /\ ~checked
  /\ IF early \/ wait_for_reset THEN Delayed ELSE Advance /\ AdvanceFrame
  /\ UNCHANGED <<ignore_reset, eof_callback, early, reset_due, rigid, requests, ended>>

-----------------------------------------------------------------------------
(* The callbacks of the serial traps. *)

ViaTraps == value["Traps"] = 1 /\ value["TDE"] = 0

(* The two callbacks, as what the traps leave of them. *)
disk_attention_callback == attention_callback' = FALSE /\ eof_callback' = TRUE

disk_eof_callback ==
  /\ IF mode # "NONE" THEN autostart_finish ELSE UNCHANGED keys
  /\ autostart_done
  /\ eof_callback' = FALSE

-----------------------------------------------------------------------------
(* The machine.  The watcher looks after every opcode: a message is        *)
(* replaced only when it can do nothing more with it.                      *)

KernalUnchanged ==
  UNCHANGED <<run_mode, inject_prg, wait_for_reset, ignore_reset, entered_rom, early, reset_due,
              rigid, requests, ended>>

Show(next) == Running /\ checked /\ checked' = FALSE /\ screen' = next

KernalPrints ==
  /\ \/ screen = "boot"  /\ \E next \in {"ready", "program"} : Show(next)
     \/ screen = "open"  /\ \E next \in {"searching", "error"} : Show(next)
     \/ screen = "play"  /\ Show("tape")
     \/ screen = "tape"  /\ \E next \in {"ready", "program", "error"} : Show(next)
     \/ screen = "error" /\ Show("ready")
  /\ KernalUnchanged
  /\ UNCHANGED <<mode, vfs, settings, callbacks, keys>>

ReadKeys ==
  /\ screen = "ready"
  /\ \/ keys = "load"     /\ Show("open")
     \/ keys = "tapeload" /\ \E next \in {"play", "error"} : Show(next)
     \/ keys = "run"      /\ Show("program")
  /\ keys' = "none"
  /\ KernalUnchanged
  /\ UNCHANGED <<mode, vfs, settings, callbacks>>

(* serial_trap_attention(): the device answers, or not. *)
Attention ==
  /\ screen = "searching"
  /\ \E next \in {"loading", "error"} : Show(next)
  /\ IF ViaTraps /\ attention_callback THEN disk_attention_callback ELSE UNCHANGED callbacks
  /\ KernalUnchanged
  /\ UNCHANGED <<mode, vfs, settings, keys>>

(* serial_trap_receive() with the last byte; the drive may fail before. *)
Receive ==
  /\ screen = "loading"
  /\ \/ /\ \E next \in {"ready", "program"} : Show(next)
        /\ IF ViaTraps /\ eof_callback THEN disk_eof_callback
           ELSE UNCHANGED <<mode, vfs, settings, keys, eof_callback>>
     \/ Show("error") /\ UNCHANGED <<mode, vfs, settings, keys, eof_callback>>
  /\ KernalUnchanged
  /\ UNCHANGED attention_callback

ProgramEnds ==
  /\ screen = "program"
  /\ Show("ready")
  /\ KernalUnchanged
  /\ UNCHANGED <<mode, vfs, settings, callbacks, keys>>

(* The initial delay is over, many opcodes after the reset. *)
DelayEnds ==
  /\ Running
  /\ checked
  /\ early
  /\ early' = FALSE
  /\ checked' = FALSE
  /\ UNCHANGED <<steps, settings, callbacks, screen, keys, reset_due, rigid, requests, ended>>

(* What waits in the keyboard buffer of the machine is lost in a reset,    *)
(* what waits in the queue before it is not.                               *)
autostart_reset_StaysDone ==
  LET turned_off == ~ignore_reset /\ mode \notin {"NONE", "ERROR"} IN
  /\ IF turned_off /\ mode # "DONE"
       THEN restore_drive_emulation_state /\ eof_callback' = FALSE
       ELSE UNCHANGED <<settings, vfs, eof_callback>>
  /\ mode' = IF turned_off THEN "DONE" ELSE mode
  /\ ended' = (turned_off \/ ended)
  /\ keys' \in {keys, "none"}

autostart_reset ==
  LET turned_off == ~ignore_reset /\ mode \notin {"NONE", "ERROR"} IN
  /\ IF turned_off /\ mode # "DONE"
       THEN restore_drive_emulation_state /\ eof_callback' = FALSE
       ELSE UNCHANGED <<settings, vfs, eof_callback>>
  /\ mode' = IF turned_off THEN "NONE" ELSE mode
  /\ ended' = (turned_off \/ ended)
  /\ keys' \in {keys, "none"}

machine_reset ==
  /\ reset_due
  /\ autostart_reset
  /\ ignore_reset' = FALSE
  /\ reset_due' = FALSE
  /\ screen' = "boot"
  /\ early' = TRUE
  /\ checked' = FALSE
  /\ UNCHANGED <<run_mode, inject_prg, wait_for_reset, entered_rom, attention_callback, rigid, requests>>

-----------------------------------------------------------------------------
(* The user. *)

Ask == requests < MaxRequests /\ requests' = requests + 1

UserResets ==
  /\ Ask
  /\ reset_due' = TRUE
  /\ UNCHANGED <<steps, settings, callbacks, screen, keys, early, checked, rigid, ended>>

(* Bound: the user types only when no autostart is in progress. *)
UserLoads ==
  /\ Ask
  /\ mode \in AtRest
  /\ screen = "ready"
  /\ keys = "none"
  /\ keys' = "load"
  /\ checked' = FALSE
  /\ UNCHANGED <<steps, settings, callbacks, screen, early, reset_due, rigid, ended>>

(* An accepted request: the settings are s, their saved values o. *)
reboot_for_autostart(next, run, s, o) ==
  LET warp == next # "HASSNAPSHOT" /\ AutostartWarp IN
  /\ mode' = next
  /\ run_mode' = run
  /\ ignore_reset' = TRUE
  /\ wait_for_reset' = TRUE
  /\ reset_due' = TRUE
  /\ value' = IF warp THEN [s EXCEPT !["Warp"] = 1] ELSE s
  /\ orig' = IF warp THEN [o EXCEPT !["Warp"] = s["Warp"]] ELSE o
  /\ overwritten' = overwritten
       \cup IF warp /\ o["Warp"] \notin {-1, s["Warp"]} THEN {"Warp"} ELSE {}
  /\ ended' = FALSE
  /\ UNCHANGED <<entered_rom, callbacks, screen, keys, early, rigid>>

(* No image of the kind, or none that can be used. *)
Refused(s, o) ==
  /\ mode' = "ERROR"
  /\ orig' = o
  /\ value' = s
  /\ ended' = FALSE
  /\ UNCHANGED <<run_mode, vfs, wait_for_reset, ignore_reset, entered_rom, overwritten,
                 callbacks, screen, keys, early, reset_due, rigid>>

(* True drive emulation as it was, so that the drive can be reset. *)
TurnedOn(s, o) == IF o["TDE"] # 0 THEN [s EXCEPT !["TDE"] = 1] ELSE s

setup_for_disk(s, o) ==
  CASE handle_tde                     -> s
    [] ~handle_tde /\ o["TDE"] # 0    -> IF o["Traps"] # 0 THEN [s EXCEPT !["Traps"] = 0] ELSE s
    [] OTHER                          -> IF o["Traps"] = 0 THEN [s EXCEPT !["Traps"] = 1] ELSE s

setup_for_prg_vfs(s, o) ==
  [s EXCEPT !["TDE"]   = IF handle_tde /\ o["TDE"] # 0 THEN 0 ELSE @,
            !["Traps"] = IF o["Traps"] = 0 THEN 1 ELSE @]

autostart_prg_with_virtual_fs(s) == [s EXCEPT !["FS"] = 1, !["FSDir"] = 1]

(* The drive becomes one that can read the image, if it is not.            *)
set_drive_type(s) == {[s EXCEPT !["DriveType"] = type] : type \in {s["DriveType"], 1}}

(* The image is attached a second time for the new drive, which may fail.  *)
autostart_disk(run) ==
  LET o == init_drive_emulation_state IN
  \E s \in set_drive_type(value) :
    \/ /\ reboot_for_autostart("HASDISK", run, setup_for_disk(TurnedOn(s, o), o), o)
       /\ vfs' = FALSE
       /\ UNCHANGED inject_prg
    \/ Refused(s, o) /\ UNCHANGED inject_prg

(* An image that is no TAP needs the traps of the tape unit. *)
autostart_tape(run, s) ==
  /\ \E device1 \in {s["Device1"], 1} :
       reboot_for_autostart("HASTAPE", run, [s EXCEPT !["Device1"] = device1], init_drive_emulation_state)
  /\ UNCHANGED <<vfs, inject_prg>>

autostart_tapecart(s) ==
  /\ reboot_for_autostart("HASTAPE", "RUN", s, init_drive_emulation_state)
  /\ UNCHANGED <<vfs, inject_prg>>

(* By itself it saves nothing; autostart_autodetect() has done so before. *)
autostart_snapshot(s, o) ==
  /\ reboot_for_autostart("HASSNAPSHOT", "RUN", s, o)
  /\ UNCHANGED <<vfs, inject_prg>>

(* One of the three ways that AutostartPrgMode chooses from. *)
autostart_prg(run, s) ==
  LET o == init_drive_emulation_state IN
  \/ /\ reboot_for_autostart("HASDISK", run, autostart_prg_with_virtual_fs(setup_for_prg_vfs(s, o)), o)
     /\ vfs' = TRUE
     /\ UNCHANGED inject_prg
  \/ /\ reboot_for_autostart("INJECT", run, s, o)
     /\ inject_prg' = TRUE
     /\ vfs' = FALSE
  \/ /\ reboot_for_autostart("HASDISK", run, TurnedOn(setup_for_disk(s, o), o), o)
     /\ vfs' = FALSE
     /\ UNCHANGED inject_prg
  \/ Refused(TurnedOn(setup_for_disk(s, o), o), o) /\ inject_prg' \in {FALSE, inject_prg}

set_tapeport_device(s, device) == [s EXCEPT !["TapePort"] = device]

(* The kinds are tried in turn.  One that fails leaves an error, which the *)
(* next one replaces, and maybe another drive type; the tape port device   *)
(* is given back when neither of its kinds is accepted.                    *)
autostart_autodetect ==
  /\ Ask
  /\ checked' = FALSE
  /\ \E run \in {"RUN", "LOAD"}, s \in set_drive_type(value) :
       \/ autostart_disk(run)
       \/ autostart_tape(run, set_tapeport_device(s, 1))
       \/ autostart_tapecart(set_tapeport_device(s, 2))
       \/ autostart_snapshot(s, init_drive_emulation_state)
       \/ autostart_prg(run, s)

(* A tape or a snapshot that the user asks for by its kind.  A disk or a   *)
(* program is then as above, and so is the refusal of a tape.              *)
autostart_by_kind ==
  /\ Ask
  /\ checked' = FALSE
  /\ \/ \E run \in {"RUN", "LOAD"} : autostart_tape(run, value)
     \/ autostart_snapshot(value, orig)
     \/ Refused(value, orig) /\ UNCHANGED inject_prg

Next ==
  \/ autostart_advance
  \/ KernalPrints
  \/ ReadKeys
  \/ Attention
  \/ Receive
  \/ ProgramEnds
  \/ DelayEnds
  \/ machine_reset
  \/ UserResets
  \/ UserLoads
  \/ autostart_autodetect
  \/ autostart_by_kind

Spec == Init /\ [][Next]_vars

(* The CPU runs, and the KERNAL brings a LOAD to an end. *)
FairSpec ==
  /\ Spec
  /\ WF_vars(autostart_advance)
  /\ WF_vars(DelayEnds)
  /\ WF_vars(machine_reset)
  /\ WF_vars(KernalPrints)
  /\ WF_vars(ReadKeys)
  /\ WF_vars(Attention)
  /\ WF_vars(Receive)

-----------------------------------------------------------------------------
(* The variables in their ranges. *)
TypeOK ==
  /\ mode \in Modes /\ run_mode \in {"RUN", "LOAD"}
  /\ value \in [Settings -> 0 .. 2] /\ wanted \in [Settings -> 0 .. 1]
  /\ orig \in [Saveable -> -1 .. 2] /\ overwritten \subseteq Saveable
  /\ screen \in Screens /\ keys \in Keys /\ requests \in 0 .. MaxRequests

(* Whatever way an autostart ends, each of the settings that it saved      *)
(* (autostart.c:128) is again what the user made it unless its saved value *)
(* was replaced on the way, and no saved value is left for the next        *)
(* autostart to mistake for the user's.  RefuseDisk replaces it, and so    *)
(* does an autostart that is requested while another one has warp mode on  *)
(* (autostart.c:628 and 1150).  Nothing is promised of the Unsaved         *)
(* settings, though the comment at autostart.c:715 speaks of all.          *)
RestoredUnlessOverwritten ==
  mode \in AtRest =>
    /\ orig = Nothing
    /\ \A s \in Saveable \ overwritten : value[s] = wanted[s]

(* A reset by the user ends an autostart for good: the callbacks that it   *)
(* left in the serial traps type no RUN at a later load.                   *)
NoRunAfterReset == [][ended' => ~(keys # "run" /\ keys' = "run")]_vars

(* Once LOAD is typed, the watcher does not wait for ever: a message, an   *)
(* error, a program that starts by itself, or a reset ends the load.       *)
LoadEnds == mode \in {"WAITSEARCHINGFOR", "WAITLOADING"}
              ~> mode \notin {"WAITSEARCHINGFOR", "WAITLOADING", "WAITLOADREADY"}

(* A failed autostart restores the settings in the end, also when it fails *)
(* while the reset of an earlier one is still due.                         *)
ErrorEnds == mode = "ERROR" ~> mode # "ERROR"
=============================================================================
