------------------------------ MODULE EventLog ------------------------------
(***************************************************************************)
(* The event history (event.c): what the user does to the machine is       *)
(* recorded with the clock at which it happened, and played back later on  *)
(* the machine as it was at the start.                                     *)
(*                                                                         *)
(* A recording begins with a snapshot (start.vsf) or a reset.  The list of *)
(* its events is saved together with the machine (end.vsf) when the user   *)
(* stops, or sets a milestone, to which he can return.  A saved history is *)
(* continued from its end, or from a place inside it that a playback has   *)
(* reached.  The handlers of the user interface only trigger traps, which  *)
(* run between two opcodes; a paused emulation runs none until it resumes. *)
(*                                                                         *)
(* The machine is deterministic: its state is what it started from and     *)
(* what has happened to it since, and at which clock.  "game" is that, and *)
(* snapshots save it.  Something that no history records takes the machine *)
(* out of the game.                                                        *)
(***************************************************************************)
EXTENDS Integers, SequencesExt

CONSTANTS
  MaxRequests,  \* bound: what the user asks for in a behaviour
  MaxEvents,    \* bound: the events of a history
  MaxClk,       \* bound: maincpu_clk, which a reset sets back
  Second,       \* machine_get_cycles_per_second()
  NoFile        \* in place of a snapshot that is not there

ASSUME BoundsAssumption ==
  /\ MaxRequests \in Nat
  /\ MaxEvents \in Nat
  /\ MaxClk \in Nat
  /\ Second \in Nat \ {0}

VARIABLES
  clk,                 \* maincpu_clk
  game,                \* where the machine started, and what happened to it
  reset_due,           \* a reset of the machine is triggered
  pressed,             \* a key, or the joystick, waits for its alarm
  traps,               \* the traps that wait
  batch,               \* some of them have run, and the others follow
  list,                \* event_list: EVENT_INITIAL (its mode and clk), and the others
  current,             \* event_list->current: 0 is EVENT_INITIAL
  alarm,               \* what event_alarm is set for
  record_active,
  playback_active,
  playback_reset_ack,
  start_file,          \* start.vsf
  end_file,            \* end.vsf
  requests             \* what the user asked for so far

modes == <<record_active, playback_active, playback_reset_ack>>
log   == <<list, current, alarm>>
files == <<start_file, end_file>>
vars  == <<clk, game, reset_due, pressed, traps, batch, log, modes, files, requests>>

(* Where a game can start: at a hard reset, or at one of two snapshots,    *)
(* since two files are the most that can be about different ones.          *)
HardReset == 0
Starts    == {HardReset, 1, 2}
Elsewhere == -1

Unknown       == [start |-> Elsewhere, past |-> <<>>]
NewGame(s)    == [start |-> s, past |-> <<>>]
Event(type)   == [type |-> type, clk |-> clk]
StartModes    == {"FILE_SAVE", "FILE_LOAD", "RESET", "PLAYBACK"}
NoHistory     == [mode |-> "none", clk |-> 0, events |-> <<>>]
History(mode) == [mode |-> mode, clk |-> clk, events |-> <<>>]

(* 6 in the code: what matters is that the clock is never 0 after a reset. *)
RESET_CYCLES == 1

Init ==
  /\ clk = RESET_CYCLES
  /\ game = Unknown
  /\ pressed = FALSE
  /\ traps = <<>> /\ batch = FALSE
  /\ list = NoHistory
  /\ current = 1
  /\ alarm = "unset"
  /\ record_active = FALSE /\ playback_active = FALSE
  /\ playback_reset_ack = FALSE /\ reset_due = FALSE
  /\ start_file = NoFile /\ end_file = NoFile
  /\ requests = 0

-----------------------------------------------------------------------------
(* Lists.  Behind the last event stands one that is cleared: EVENT_LIST_END*)
(* at clock 0.  A list that was read in part may not have EVENT_INITIAL.   *)

Base(l) == IF l.mode = "none" THEN 1 ELSE 0

TypeAt(l, k) ==
  CASE k = 0                     -> "INITIAL"
    [] k \in 1 .. Len(l.events) -> l.events[k].type
    [] OTHER                    -> "LIST_END"

ClkAt(l, k) == IF k \in 1 .. Len(l.events) THEN l.events[k].clk ELSE 0

(* The place of the first EVENT_LIST_END, where reading and playing stop. *)
EndOf(l) ==
  LET IsEnd(e) == e.type = "LIST_END"
      k        == SelectInSeq(l.events, IsEnd)
  IN IF k = 0 THEN Len(l.events) + 1 ELSE k

(* SelectSeq(s, IsEvent), as a function of how much of the list was seen.  *)
IsEvent(e) == e.type # "TIMESTAMP"
Selected(s) ==
  LET sel[k \in 0 .. Len(s)] ==
        IF k = 0 THEN <<>>
        ELSE IF IsEvent(s[k]) THEN Append(sel[k - 1], s[k]) ELSE sel[k - 1]
  IN sel[Len(s)]

(* What a file has of a list: timestamps are made anew when it is read. *)
Written(l) == [l EXCEPT !.events = Selected(@)]

(* The events of a list, up to its end. *)
Played(l) == Selected(SubSeq(l.events, 1, EndOf(l) - 1))
Ended(l)  == EndOf(l) <= Len(l.events)

(* Mutation: reading makes no timestamps. *)
Stamps_None(t, c) == <<>>

(* The timestamps from clock t that go before an event at clock c.  A list *)
(* that begins with a reset has its first one at 0, before any event.      *)
Stamps(t, c) ==
  [k \in 1 .. (IF t < c THEN (c - t + Second - 1) \div Second ELSE 0) |->
     [type |-> "TIMESTAMP", clk |-> t + (k - 1) * Second]]

(* An event is read: what has been read before it, and the next timestamp. *)
ReadEvent(before, e) ==
  LET stamps == Stamps(before.next, e.clk)
      next   == before.next + Len(stamps) * Second
  IN [events |-> before.events \o Append(stamps, e),
      next   |-> IF e.type = "RESETCPU" THEN next - e.clk ELSE next]

ReadEvents(events, first) ==
  LET read[k \in 0 .. Len(events)] ==
        IF k = 0 THEN [events |-> <<>>, next |-> first] ELSE ReadEvent(read[k - 1], events[k])
  IN read[Len(events)].events

(* What event_snapshot_read_module() makes of a list that was written. *)
Read(l) ==
  LET events == IF Ended(l) THEN SubSeq(l.events, 1, EndOf(l)) ELSE l.events
  IN [l EXCEPT !.events = ReadEvents(events, IF l.mode = "RESET" THEN 0 ELSE l.clk)]

(* The same when the file breaks off. *)
ReadInPart(l) ==
  LET read == Read(l).events
  IN {NoHistory} \cup {[l EXCEPT !.events = SubSeq(read, 1, k)] : k \in 0 .. Len(read)}

(* A new event takes the place of the current one. *)
event_record(type) ==
  IF record_active
    THEN /\ list' = [list EXCEPT !.events = Append(SubSeq(@, 1, current - 1), Event(type))]
         /\ current' = current + 1
    ELSE UNCHANGED <<list, current>>

(* What a history records of the machine, until its end is written. *)
Recorded == record_active /\ ~Ended(list)

Happens(type, known) ==
  game' = IF known /\ game.start # Elsewhere
            THEN [game EXCEPT !.past = Append(@, Event(type))]
            ELSE Unknown

next_alarm_set == alarm' = "event"

-----------------------------------------------------------------------------
(* The machine. *)

Due == alarm = "timestamp" \/ (alarm = "event" /\ ClkAt(list, current) <= clk)

Tick ==
  /\ ~reset_due
  /\ traps = <<>>
  /\ ~(alarm = "event" /\ Due)
  /\ clk < MaxClk
  /\ clk' = clk + 1
  /\ UNCHANGED <<game, reset_due, pressed, traps, batch, log, modes, files, requests>>

(* The user is heard only when nothing is played back, but what he did     *)
(* reaches the machine, and the history, at an alarm up to two frames      *)
(* later.  Bound: nothing comes between a reset that is triggered and the  *)
(* reset.                                                                  *)
keyboard_key_pressed ==
  /\ ~playback_active
  /\ ~batch /\ ~reset_due
  /\ ~pressed
  /\ pressed' = TRUE
  /\ UNCHANGED <<clk, game, reset_due, traps, batch, log, modes, files, requests>>

keyboard_alarm_handler ==
  /\ pressed
  /\ ~batch /\ ~reset_due
  /\ Len(game.past) < MaxEvents
  /\ record_active => Len(Written(list).events) < MaxEvents
  /\ pressed' = FALSE
  /\ event_record("INPUT")
  /\ Happens("INPUT", Recorded)
  /\ UNCHANGED <<clk, reset_due, traps, batch, alarm, modes, files, requests>>

(* The event that is due.  A timestamp is set at any time. *)
PlayEvent ==
  \/ /\ TypeAt(list, current) = "INPUT"
     /\ Happens("INPUT", playback_active)
     /\ current' = current + 1
     /\ next_alarm_set
     /\ UNCHANGED <<reset_due, playback_active>>
  \/ /\ TypeAt(list, current) = "RESETCPU"
     /\ Happens("RESETCPU", playback_active)
     /\ reset_due' = TRUE
     /\ alarm' = "unset"
     /\ UNCHANGED <<current, playback_active>>
  \/ /\ TypeAt(list, current) = "LIST_END"
     /\ playback_active' = FALSE
     /\ alarm' = "unset"
     /\ UNCHANGED <<game, current, reset_due>>
  \/ /\ TypeAt(list, current) \in {"INITIAL", "TIMESTAMP"}
     /\ current' = current + 1
     /\ next_alarm_set
     /\ UNCHANGED <<game, reset_due, playback_active>>

event_alarm_handler ==
  /\ ~batch /\ ~reset_due
  /\ Due
  /\ ~record_active
  /\ PlayEvent
  /\ UNCHANGED <<clk, pressed, traps, batch, list, record_active, playback_reset_ack, files, requests>>

(* Mutation: the alarm is left to the events that follow. *)
event_reset_ack_Silent ==
  /\ playback_reset_ack' = FALSE
  /\ current' = IF TypeAt(list, current) = "RESETCPU" THEN current + 1 ELSE current
  /\ alarm' = IF record_active THEN "timestamp" ELSE alarm

event_reset_ack ==
  LET after_reset == TypeAt(list, current) = "RESETCPU" IN
  /\ playback_reset_ack' = FALSE
  /\ current' = IF after_reset THEN current + 1 ELSE current
  /\ alarm' = IF record_active THEN "timestamp"
              ELSE IF playback_reset_ack \/ after_reset THEN "event"
              ELSE alarm

machine_reset ==
  /\ reset_due
  /\ traps = <<>>
  /\ reset_due' = FALSE
  /\ clk' = RESET_CYCLES
  /\ event_reset_ack
  /\ UNCHANGED <<game, pressed, traps, batch, list, record_active, playback_active, files, requests>>

-----------------------------------------------------------------------------
(* The files.  The machine after a snapshot that was read half way is      *)
(* reset; a file that could not be written may be gone.                    *)

WriteEnd == end_file' = [game |-> game, clk |-> clk, list |-> Written(list)]
EndNotWritten == end_file' \in {end_file, NoFile}

(* A reset that an earlier failure has left behind is not of the game. *)
ReadEnd ==
  /\ end_file # NoFile
  /\ game' = IF reset_due THEN Unknown ELSE end_file.game
  /\ clk' = end_file.clk
  /\ LET read == Read(end_file.list) IN
       /\ list' = [read EXCEPT !.events = SubSeq(@, 1, EndOf(read) - 1)]
       /\ current' = EndOf(read)
  /\ UNCHANGED reset_due

EndNotRead ==
  \/ UNCHANGED <<game, clk, list, current, reset_due>>
  \/ /\ end_file # NoFile
     /\ game' = Unknown
     /\ clk' = end_file.clk
     /\ \/ UNCHANGED <<list, current>>
        \/ list' \in ReadInPart(end_file.list) /\ current' = Base(list')
     /\ reset_due' = TRUE

-----------------------------------------------------------------------------
(* The traps. *)

StartRecording == record_active' = TRUE /\ alarm' = "timestamp"

NewList(mode) == list' = History(mode) /\ current' = 1

(* A snapshot starts a game of its own. *)
NewStart == CHOOSE s \in Starts \ {HardReset} : end_file = NoFile \/ s # end_file.game.start

record_start_trap_FileSave ==
  \/ /\ start_file' = [start |-> NewStart, clk |-> clk]
     /\ game' = NewGame(NewStart)
     /\ NewList("FILE_SAVE")
     /\ StartRecording
     /\ UNCHANGED <<clk, reset_due, end_file, playback_active, playback_reset_ack>>
  \/ /\ start_file' \in {start_file, NoFile}
     /\ UNCHANGED <<clk, game, reset_due, log, modes, end_file>>

record_start_trap_FileLoad ==
  /\ \/ EndNotRead /\ UNCHANGED <<alarm, record_active>>
     \/ ReadEnd /\ StartRecording
  /\ UNCHANGED <<files, playback_active, playback_reset_ack>>

record_start_trap_Reset ==
  /\ game' = NewGame(HardReset)
  /\ reset_due' = TRUE
  /\ NewList("RESET")
  /\ StartRecording
  /\ UNCHANGED <<clk, files, playback_active, playback_reset_ack>>

(* Mutation: the event that would come next is kept. *)
record_start_trap_Playback_OneMore ==
  /\ list' = [list EXCEPT !.events = SubSeq(@, 1, current)]
  /\ StartRecording
  /\ UNCHANGED <<clk, game, reset_due, current, files, playback_active, playback_reset_ack>>

(* The rest of the history is cut off at the event that would come next. *)
record_start_trap_Playback ==
  /\ list' = [list EXCEPT !.events = SubSeq(@, 1, current - 1)]
  /\ StartRecording
  /\ UNCHANGED <<clk, game, reset_due, current, files, playback_active, playback_reset_ack>>

event_record_start_trap(mode) ==
  CASE mode = "FILE_SAVE" -> record_start_trap_FileSave
    [] mode = "FILE_LOAD" -> record_start_trap_FileLoad
    [] mode = "RESET"     -> record_start_trap_Reset
    [] mode = "PLAYBACK"  -> record_start_trap_Playback

event_record_stop_trap ==
  /\ \/ EndNotWritten /\ UNCHANGED record_active
     \/ WriteEnd /\ record_active' = FALSE
  /\ UNCHANGED <<clk, game, reset_due, log, start_file, playback_active, playback_reset_ack>>

event_record_set_milestone_trap ==
  /\ EndNotWritten \/ WriteEnd
  /\ UNCHANGED <<clk, game, reset_due, log, start_file, modes>>

event_record_reset_milestone_trap ==
  /\ \/ EndNotRead /\ record_active' = FALSE /\ UNCHANGED alarm
     \/ ReadEnd /\ StartRecording
  /\ UNCHANGED <<files, playback_active, playback_reset_ack>>

(* The list is read first, then the snapshot that it starts from, which    *)
(* may be that of a later recording: it is not the start of this game.  A  *)
(* history of no game is played back in none.                              *)
StartPlayback ==
  /\ list' = Read(end_file.list)
  /\ current' = 1
  /\ playback_active' = TRUE
  /\ CASE list'.mode # "RESET" ->
            /\ start_file # NoFile
            /\ game' = IF start_file.start = end_file.game.start THEN NewGame(start_file.start) ELSE Unknown
            /\ clk' = start_file.clk
            /\ next_alarm_set
            /\ UNCHANGED <<reset_due, playback_reset_ack>>
       [] list'.mode = "RESET" ->
            /\ game' = IF end_file.game.start = HardReset THEN NewGame(HardReset) ELSE Unknown
            /\ reset_due' = TRUE
            /\ playback_reset_ack' = TRUE
            /\ UNCHANGED <<clk, alarm>>

PlaybackNotStarted ==
  /\ \/ UNCHANGED <<list, current, game, clk, reset_due>>
     \/ /\ end_file # NoFile
        /\ list' \in ReadInPart(end_file.list)
        /\ current' = Base(list')
        /\ UNCHANGED <<game, clk, reset_due>>
     \/ /\ end_file # NoFile /\ end_file.list.mode # "RESET"
        /\ list' = Read(end_file.list)
        /\ current' = Base(list')
        /\ start_file # NoFile
        /\ game' = Unknown
        /\ clk' = start_file.clk
        /\ reset_due' = TRUE
  /\ UNCHANGED <<alarm, playback_active, playback_reset_ack>>

event_playback_start_trap ==
  /\ \/ PlaybackNotStarted
     \/ end_file # NoFile /\ StartPlayback
  /\ UNCHANGED <<record_active, files>>

RunTrap ==
  /\ traps # <<>>
  /\ traps' = Tail(traps)
  /\ batch' = (Tail(traps) # <<>>)
  /\ LET trap == Head(traps) IN
       CASE trap = "stop"      -> event_record_stop_trap
         [] trap = "milestone" -> event_record_set_milestone_trap
         [] trap = "return"    -> event_record_reset_milestone_trap
         [] trap = "play"      -> event_playback_start_trap
         [] OTHER              -> event_record_start_trap(trap)
  /\ UNCHANGED <<pressed, requests>>

-----------------------------------------------------------------------------
(* The user.  Bounds: a recording or a playback is started only when none  *)
(* is about to start, and when the alarm of the one before is not set, as  *)
(* it is when the return to a milestone failed: a recording during a       *)
(* playback only overwrites it.  A reset and a trap do not wait together.  *)

Followups    == {"stop", "milestone", "return"}
NoStartWaits == \A i \in 1 .. Len(traps) : traps[i] \in Followups

Ask ==
  /\ requests < MaxRequests
  /\ requests' = requests + 1
  /\ ~batch /\ ~reset_due
  /\ UNCHANGED <<batch, pressed>>

Trigger(trap) == traps' = Append(traps, trap)

event_record_start(mode) ==
  /\ Ask
  /\ NoStartWaits
  /\ ~record_active
  /\ IF mode = "PLAYBACK"
       THEN playback_active /\ playback_active' = FALSE /\ alarm' = "unset"
       ELSE ~playback_active /\ alarm = "unset" /\ UNCHANGED <<playback_active, alarm>>
  /\ Trigger(mode)
  /\ UNCHANGED <<clk, game, reset_due, list, current, record_active, playback_reset_ack, files>>

event_record_stop ==
  /\ Ask
  /\ record_active
  /\ Len(Written(list).events) <= MaxEvents
  /\ event_record("LIST_END")
  /\ Trigger("stop")
  /\ alarm' = "unset"
  /\ UNCHANGED <<clk, game, reset_due, modes, files>>

event_playback_start ==
  /\ Ask
  /\ NoStartWaits
  /\ ~record_active
  /\ ~playback_active
  /\ alarm = "unset"
  /\ Trigger("play")
  /\ UNCHANGED <<clk, game, reset_due, log, modes, files>>

event_playback_stop ==
  /\ Ask
  /\ playback_active
  /\ playback_active' = FALSE
  /\ alarm' = "unset"
  /\ UNCHANGED <<clk, game, reset_due, traps, list, current, record_active, playback_reset_ack, files>>

event_record_set_milestone ==
  /\ Ask
  /\ record_active
  /\ Trigger("milestone")
  /\ UNCHANGED <<clk, game, reset_due, log, modes, files>>

event_record_reset_milestone ==
  /\ Ask
  /\ record_active
  /\ ~playback_active
  /\ Trigger("return")
  /\ UNCHANGED <<clk, game, reset_due, log, modes, files>>

machine_trigger_reset ==
  /\ Ask
  /\ traps = <<>>
  /\ ~playback_active
  /\ Len(game.past) < MaxEvents
  /\ record_active => Len(Written(list).events) < MaxEvents
  /\ event_record("RESETCPU")
  /\ Happens("RESETCPU", Recorded)
  /\ reset_due' = TRUE
  /\ UNCHANGED <<clk, traps, alarm, modes, files>>

Next ==
  \/ Tick
  \/ keyboard_key_pressed
  \/ keyboard_alarm_handler
  \/ event_alarm_handler
  \/ machine_reset
  \/ RunTrap
  \/ \E mode \in StartModes : event_record_start(mode)
  \/ event_record_stop
  \/ event_playback_start
  \/ event_playback_stop
  \/ event_record_set_milestone
  \/ event_record_reset_milestone
  \/ machine_trigger_reset

Spec == Init /\ [][Next]_vars

(* The CPU runs: clocks pass, alarms that are due are dispatched, and traps *)
(* and resets come before the next opcode.                                 *)
FairSpec ==
  /\ Spec
  /\ WF_vars(Tick)
  /\ WF_vars(event_alarm_handler)
  /\ WF_vars(machine_reset)
  /\ WF_traps(RunTrap)

-----------------------------------------------------------------------------
(* The modes, and what waits for the next opcode: the start of one of them *)
(* alone, or what belongs to a recording that goes on, or that one of the  *)
(* same batch has stopped.                                                 *)
TypeOK ==
  /\ record_active \in BOOLEAN /\ playback_active \in BOOLEAN
  /\ batch \in BOOLEAN
  /\ \/ traps = <<>>
     \/ \E trap \in StartModes \cup {"play"} : traps = <<trap>>
     \/ traps \in Seq(Followups)

(* "All actions will be recorded", and "Return to the last milestone ...   *)
(* will reset the game and the event history" (vice.texi): as long as the  *)
(* machine is in the game that a history is about, the history has what    *)
(* happened to it, in order and with the clock, also after a return, or    *)
(* after a history that was saved has been continued.                      *)
HistoryIsComplete ==
  record_active /\ game.start # Elsewhere =>
    /\ Played(list) = game.past
    /\ list.mode = "RESET" <=> game.start = HardReset

(* "recording an arbitrary session on the emulated machine and playing     *)
(* back this session later" (vice.texi): a playback does to the machine    *)
(* what was done to it when the history was recorded, in order and at the  *)
(* same clocks, and has done all of it when it reaches the end.            *)
Playing == playback_active /\ end_file # NoFile /\ game.start = end_file.game.start
Followed ==
  /\ Playing' => game'.past = SubSeq(end_file.game.past, 1, Len(game'.past))
  /\ Playing /\ event_alarm_handler /\ ~playback_active' => game.past = end_file.game.past
PlaybackReproduces == [][Followed]_vars

(* A playback comes to its end. *)
PlaybackEnds == playback_active ~> ~playback_active
=============================================================================
