------------------------------ MODULE Network -------------------------------
(***************************************************************************)
(* Netplay (network.c): two emulators that run in lockstep over a TCP      *)
(* connection.                                                             *)
(*                                                                         *)
(* In a trap the server sends its snapshot to a client that waits for it,  *)
(* and the two measure the delay.  From then on each peer records the      *)
(* events of a frame, sends them when the frame ends, and plays,           *)
(* FrameDelta - 1 frames later, its own events and those of the other one, *)
(* the server's first.  A trap records the registers, which both compare.  *)
(*                                                                         *)
(* A dialog, the monitor or a reset makes a peer send an empty message.    *)
(* The connection may break at any time, and a player may turn netplay off *)
(* and connect again.                                                      *)
(*                                                                         *)
(* This is the release build, in which asserts are compiled out.           *)
(***************************************************************************)
EXTENDS Naturals, Sequences

CONSTANTS
  FrameDelta,   (* frame_delta; network_test_delay() makes it 5 or more         *)
  Players,      (* the peers whose keyboard network_control lets count          *)
  Suspenders    (* the peers whose user opens dialogs and the like              *)

ASSUME FrameDeltaAssumption == FrameDelta \in Nat \ {0, 1}
ASSUME PlayersAssumption == Players \cup Suspenders \subseteq {"server", "client"}

Peers == {"server", "client"}
Other(p) == IF p = "server" THEN "client" ELSE "server"

VARIABLES
  network_connected,  (* by peer: network_mode is SERVER_CONNECTED or CLIENT   *)
  line,               (* by peer, what its socket sees of the connection       *)
  inbox,              (* by peer, what is sent to it and not received          *)
  pc,                 (* emulating, or where the peer waits for the network    *)
  sync_trap,          (* whether the trap that records the registers waits     *)
  frame_event_list, current_frame, frame_buffer_full,
  suspended,
  frame,              (* the frame that a peer emulates, modulo FrameModulus   *)
  skewed,             (* whether the two emulations have come to differ        *)
  lead                (* history: frames played by one peer only               *)

frames == <<frame_event_list, current_frame, frame_buffer_full, frame>>
vars   == <<network_connected, line, inbox, pc, sync_trap, frames, suspended, skewed, lead>>

Slots == 0 .. FrameDelta - 1
FrameModulus == 2 * FrameDelta   (* bound: frames further apart do not meet *)
EmptyList == [s \in Slots |-> <<>>]
Following(n, modulus) == IF n + 1 = modulus THEN 0 ELSE n + 1

Init ==
  /\ network_connected = [p \in Peers |-> FALSE]
  /\ line = [p \in Peers |-> "reset"]
  /\ inbox = [p \in Peers |-> <<>>]
  /\ pc = [p \in Peers |-> "run"]
  /\ sync_trap = [p \in Peers |-> FALSE]
  /\ frame_event_list = [p \in Peers |-> EmptyList]
  /\ current_frame = [p \in Peers |-> 0]
  /\ frame_buffer_full = [p \in Peers |-> FALSE]
  /\ suspended = [p \in Peers |-> FALSE]
  /\ frame = [p \in Peers |-> 0]
  /\ skewed = FALSE
  /\ lead = [p \in Peers |-> <<>>]

-----------------------------------------------------------------------------
(* The connection.  After the other end was closed a socket delivers what is *)
(* under way and then nothing ("eof"), or it fails ("reset").  A closed      *)
(* socket fails.                                                             *)

CanSend(p) == network_connected[p] /\ line[p] # "reset"
CannotSend(p) == ~network_connected[p] \/ line[p] # "open"
CannotReceive(p) == ~network_connected[p] \/ line[p] = "reset"

Sent(p, m) == IF line[p] = "open" THEN [inbox EXCEPT ![Other(p)] = Append(@, m)] ELSE inbox

Break ==
  /\ \E p \in Peers : line[p] = "open"
  /\ line' = [p \in Peers |-> "reset"]
  /\ UNCHANGED <<network_connected, inbox, pc, sync_trap, frames, suspended, skewed, lead>>

(* Nothing reads what is left of the lists and the socket: the model drops it. *)
network_disconnect(p) ==
  /\ network_connected' = [network_connected EXCEPT ![p] = FALSE]
  /\ frame_event_list' = [frame_event_list EXCEPT ![p] = EmptyList]
  /\ inbox' = [inbox EXCEPT ![p] = <<>>]
  /\ \E end \in IF line[Other(p)] = "open" THEN {"eof", "reset"} ELSE {line[Other(p)]} :
       line' = [line EXCEPT ![p] = "reset", ![Other(p)] = end]

(* Mutation: the dialog can be used while the peer waits for the network. *)
TurnOff_Anywhere(p) ==
  /\ network_connected[p]
  /\ network_disconnect(p)
  /\ UNCHANGED <<pc, sync_trap, current_frame, frame_buffer_full, frame, suspended, skewed, lead>>

(* The switch of the dialog, in a window between two frames. *)
TurnOff(p) ==
  /\ pc[p] = "run" /\ network_connected[p]
  /\ network_disconnect(p)
  /\ UNCHANGED <<pc, sync_trap, current_frame, frame_buffer_full, frame, suspended, skewed, lead>>

(* The server accepts a client, which waits for the snapshot in              *)
(* network_connect_client().  The settings go with the snapshot and the      *)
(* packets that measure the delay, up to the new frame_delta.                *)
Connect ==
  /\ \A p \in Peers : pc[p] = "run" /\ ~network_connected[p]
  /\ network_connected' = [p \in Peers |-> TRUE]
  /\ line' = [p \in Peers |-> "open"]
  /\ pc' = [p \in Peers |-> "test"]
  /\ skewed' = FALSE
  /\ lead' = [p \in Peers |-> <<>>]
  /\ UNCHANGED <<inbox, sync_trap, frames, suspended>>

(* Mutation: the new session inherits that the slots were in use. *)
network_init_frame_event_list_StaysFull(p) ==
  /\ pc' = [pc EXCEPT ![p] = "run"]
  /\ frame_event_list' = [frame_event_list EXCEPT ![p] = EmptyList]
  /\ current_frame' = [current_frame EXCEPT ![p] = 0]
  /\ UNCHANGED frame_buffer_full
  /\ frame' = [frame EXCEPT ![p] = 0]
  /\ sync_trap' = [sync_trap EXCEPT ![p] = TRUE]

network_init_frame_event_list(p) ==
  /\ pc' = [pc EXCEPT ![p] = "run"]
  /\ frame_event_list' = [frame_event_list EXCEPT ![p] = EmptyList]
  /\ current_frame' = [current_frame EXCEPT ![p] = 0]
  /\ frame_buffer_full' = [frame_buffer_full EXCEPT ![p] = FALSE]
  /\ frame' = [frame EXCEPT ![p] = 0]
  /\ sync_trap' = [sync_trap EXCEPT ![p] = TRUE]

(* The delay is measured: the server sends the number of frames. *)
ServerTested ==
  /\ pc["server"] = "test" /\ line["server"] = "open"
  /\ network_init_frame_event_list("server")
  /\ inbox' = Sent("server", [kind |-> "delta"])
  /\ UNCHANGED <<network_connected, line, suspended, skewed, lead>>

ClientTested ==
  /\ pc["client"] = "test" /\ inbox["client"] # <<>>
  /\ network_init_frame_event_list("client")
  /\ inbox' = [inbox EXCEPT !["client"] = Tail(@)]
  /\ UNCHANGED <<network_connected, line, suspended, skewed, lead>>

(* A default is used, and the peer remains connected. *)
TestFails(p) ==
  /\ pc[p] = "test" /\ CannotReceive(p)
  /\ network_init_frame_event_list(p)
  /\ UNCHANGED <<network_connected, line, inbox, suspended, skewed, lead>>

-----------------------------------------------------------------------------
(* One frame of a connected peer. *)

Record(p, event) ==
  frame_event_list' = [frame_event_list EXCEPT ![p][current_frame[p]] = Append(@, event)]

(* The registers are those of the frame, unless the emulations differ. *)
network_event_record_sync_test(p) ==
  /\ pc[p] = "run" /\ sync_trap[p]
  /\ sync_trap' = [sync_trap EXCEPT ![p] = FALSE]
  /\ IF network_connected[p]
       THEN \E differ \in IF p = "client" THEN {skewed, TRUE} ELSE {skewed} :
              /\ skewed' = differ
              /\ Record(p, [type |-> "SYNC_TEST", registers |-> <<frame[p], differ /\ p = "client">>])
       ELSE UNCHANGED <<frame_event_list, skewed>>
  /\ UNCHANGED <<network_connected, line, inbox, pc, current_frame, frame_buffer_full, frame, suspended, lead>>

KeyPressed == [type |-> "KEYBOARD_MATRIX"]

(* Bound: one key in a frame. *)
network_event_record(p) ==
  /\ pc[p] = "run" /\ network_connected[p] /\ p \in Players
  /\ \A n \in DOMAIN frame_event_list[p][current_frame[p]] :
       frame_event_list[p][current_frame[p]][n] # KeyPressed
  /\ Record(p, KeyPressed)
  /\ UNCHANGED <<network_connected, line, inbox, pc, sync_trap, current_frame, frame_buffer_full, frame,
                 suspended, skewed, lead>>

network_suspend(p) ==
  /\ pc[p] = "run" /\ network_connected[p] /\ ~suspended[p] /\ p \in Suspenders
  /\ suspended' = [suspended EXCEPT ![p] = TRUE]
  /\ inbox' = Sent(p, [kind |-> "suspend"])
  /\ UNCHANGED <<network_connected, line, pc, sync_trap, frames, skewed, lead>>

FrameToPlay(p) == Following(current_frame[p], FrameDelta)

network_prepare_next_frame(p) ==
  /\ current_frame' = [current_frame EXCEPT ![p] = Following(@, FrameDelta)]
  /\ frame' = [frame EXCEPT ![p] = Following(@, FrameModulus)]
  /\ sync_trap' = [sync_trap EXCEPT ![p] = TRUE]

Prepared(p) == [frame_event_list EXCEPT ![p][Following(current_frame[p], FrameDelta)] = <<>>]

(* network_hook() after the events were sent: nothing is received until each *)
(* slot is used.                                                             *)
Fills(p) == frame_buffer_full[p] \/ current_frame[p] = FrameDelta - 1

Sends(p) ==
  /\ suspended' = [suspended EXCEPT ![p] = FALSE]
  /\ frame_buffer_full' = [frame_buffer_full EXCEPT ![p] = Fills(p)]
  /\ IF Fills(p)
       THEN /\ pc' = [pc EXCEPT ![p] = "receive"]
            /\ UNCHANGED <<current_frame, frame, sync_trap>>
       ELSE /\ network_prepare_next_frame(p)
            /\ UNCHANGED pc

(* Vsync ends a frame; the trap ran after the frame's first opcode. *)
HookDue(p) == pc[p] = "run" /\ ~sync_trap[p] /\ network_connected[p]

(* Mutation: a suspended peer sends nothing. *)
network_hook_QuietWhenSuspended(p) ==
  /\ HookDue(p) /\ CanSend(p)
  /\ inbox' = IF suspended[p] THEN inbox
                ELSE Sent(p, [kind |-> "frame", list |-> frame_event_list[p][current_frame[p]]])
  /\ Sends(p)
  /\ frame_event_list' = IF Fills(p) THEN frame_event_list ELSE Prepared(p)
  /\ UNCHANGED <<network_connected, line, skewed, lead>>

network_hook(p) ==
  /\ HookDue(p) /\ CanSend(p)
  /\ inbox' = Sent(p, [kind |-> "frame", list |-> frame_event_list[p][current_frame[p]]])
  /\ Sends(p)
  /\ frame_event_list' = IF Fills(p) THEN frame_event_list ELSE Prepared(p)
  /\ UNCHANGED <<network_connected, line, skewed, lead>>

network_hook_fails(p) ==
  /\ HookDue(p) /\ CannotSend(p)
  /\ network_disconnect(p)
  /\ Sends(p)
  /\ UNCHANGED <<skewed, lead>>

ReceiveSuspend(p) ==
  /\ pc[p] = "receive" /\ inbox[p] # <<>> /\ Head(inbox[p]).kind = "suspend"
  /\ inbox' = [inbox EXCEPT ![p] = Tail(@)]
  /\ suspended' = [suspended EXCEPT ![p] = TRUE]
  /\ UNCHANGED <<network_connected, line, pc, sync_trap, frames, skewed, lead>>

(* Mutation: a peer plays its own list first. *)
Lists_OwnFirst(p) == <<frame_event_list[p][FrameToPlay(p)], Head(inbox[p]).list>>

(* The lists of the frame to play: the server's and the client's. *)
Lists(p) ==
  LET mine   == frame_event_list[p][FrameToPlay(p)]
      theirs == Head(inbox[p]).list
  IN  IF p = "server" THEN <<mine, theirs>> ELSE <<theirs, mine>>

InSync(lists) ==
  (\A n \in 1 .. 2 : lists[n] # <<>> /\ lists[n][1].type = "SYNC_TEST") => lists[1][1] = lists[2][1]

Plays(p, lists) ==
  LET q == Other(p)
  IN  lead' = IF lead[q] # <<>> /\ Head(lead[q]) = lists
                THEN [lead EXCEPT ![q] = Tail(@)]
                ELSE [lead EXCEPT ![p] = Append(@, lists)]

FrameReceived(p) ==
  /\ pc[p] = "receive" /\ inbox[p] # <<>> /\ Head(inbox[p]).kind = "frame"
  /\ Plays(p, Lists(p))
  /\ network_prepare_next_frame(p)
  /\ pc' = [pc EXCEPT ![p] = "run"]
  /\ UNCHANGED <<frame_buffer_full, suspended, skewed>>

ReceiveFrame(p) ==
  /\ FrameReceived(p) /\ InSync(Lists(p))
  /\ inbox' = [inbox EXCEPT ![p] = Tail(@)]
  /\ frame_event_list' = Prepared(p)
  /\ UNCHANGED <<network_connected, line>>

(* The lists are played all the same. *)
OutOfSync(p) == FrameReceived(p) /\ ~InSync(Lists(p)) /\ network_disconnect(p)

ReceiveFails(p) ==
  /\ pc[p] = "receive" /\ CannotReceive(p)
  /\ network_disconnect(p)
  /\ pc' = [pc EXCEPT ![p] = "run"]
  /\ UNCHANGED <<sync_trap, current_frame, frame_buffer_full, frame, suspended, skewed, lead>>

(* The length was received and the events are not: the frame is begun again. *)
ReceiveHalf(p) ==
  /\ pc[p] = "receive" /\ network_connected[p] /\ line[p] = "reset"
  /\ pc' = [pc EXCEPT ![p] = "run"]
  /\ UNCHANGED <<network_connected, line, inbox, sync_trap, frames, suspended, skewed, lead>>

(* At the end of the stream network_recv_buffer() gets 0 and asks again. *)
ReceiveNothing(p) ==
  /\ pc[p] # "run" /\ line[p] = "eof" /\ inbox[p] = <<>>
  /\ UNCHANGED vars

Next ==
  \/ Break \/ Connect \/ ServerTested \/ ClientTested
  \/ \E p \in Peers :
       \/ TurnOff(p) \/ TestFails(p) \/ network_event_record_sync_test(p)
       \/ network_event_record(p) \/ network_suspend(p)
       \/ network_hook(p) \/ network_hook_fails(p)
       \/ ReceiveSuspend(p) \/ ReceiveFrame(p) \/ OutOfSync(p)
       \/ ReceiveFails(p) \/ ReceiveHalf(p) \/ ReceiveNothing(p)

Spec == Init /\ [][Next]_vars

(***************************************************************************)
(* Emulation goes on: opcodes are executed, vsync comes, and dialogs are   *)
(* closed in the end.  TCP delivers what it has taken, or fails.  Players  *)
(* need not do anything.                                                   *)
(***************************************************************************)
FairSpec ==
  /\ Spec
  /\ WF_vars(ServerTested) /\ WF_vars(ClientTested)
  /\ \A p \in Peers :
       /\ WF_vars(TestFails(p))
       /\ WF_vars(network_event_record_sync_test(p))
       /\ WF_vars(network_hook(p) \/ network_hook_fails(p))
       /\ WF_vars(ReceiveSuspend(p) \/ ReceiveFrame(p) \/ OutOfSync(p) \/ ReceiveFails(p) \/ ReceiveHalf(p))

-----------------------------------------------------------------------------
(* Every variable stays in its range, and only a connected peer waits for    *)
(* the delay or keeps events.                                                *)
TypeOK ==
  /\ network_connected \in [Peers -> BOOLEAN]
  /\ line \in [Peers -> {"open", "eof", "reset"}]
  /\ pc \in [Peers -> {"run", "test", "receive"}]
  /\ sync_trap \in [Peers -> BOOLEAN]
  /\ current_frame \in [Peers -> Slots]
  /\ frame_buffer_full \in [Peers -> BOOLEAN]
  /\ suspended \in [Peers -> BOOLEAN]
  /\ frame \in [Peers -> 0 .. FrameModulus - 1]
  /\ skewed \in BOOLEAN
  /\ \A p \in Peers : pc[p] = "test" => network_connected[p]
  /\ \A p \in Peers : ~network_connected[p] => frame_event_list[p] = EmptyList

(* Netplay is lockstep: both peers play the events of the same frames in the *)
(* same order, through suspensions and over any number of sessions           *)
(* (network_hook_connected_receive()).                                       *)
Promise == INSTANCE Lockstep

ImplementsLockstep == Promise!Spec

(* "Network out of sync" is reported only when the emulations do differ: the *)
(* registers that the peers compare are those of one frame.                  *)
OutOfSyncIsReal == [][(\E p \in Peers : OutOfSync(p)) => skewed]_vars

(* Two peers that stay connected never wait for each other for ever: frame   *)
(* after frame is received (network_hook()).                                 *)
FramesGoOn ==
  <>[](\A p \in Peers : network_connected[p]) => []<><<\E p \in Peers : ReceiveFrame(p)>>_vars

(* "Remote host disconnected." (network.c:904): a peer whose other end has   *)
(* closed the connection gets to know.                                       *)
PeerLossIsNoticed ==
  \A p \in Peers : (network_connected[p] /\ line[p] = "eof") ~> ~network_connected[p]
=============================================================================
