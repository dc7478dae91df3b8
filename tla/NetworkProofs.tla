---------------------------- MODULE NetworkProofs ----------------------------
(***************************************************************************)
(* What netplay keeps for any FrameDelta and any users.                    *)
(*                                                                         *)
(* A frame that a peer has not played is known by its offset from the      *)
(* oldest such frame, whichever slot it is in, and a frame under way by    *)
(* its rank among the frames of its inbox.  Side says what one peer holds  *)
(* that may still play: what the other one has played before it, and       *)
(* registers of the right frames.  Even says of two such peers that what   *)
(* waits at one of them is what the other one has sent and not played, and *)
(* that they count the frames alike.  Lockstep needs both: each list that  *)
(* is played must be the one that the other peer plays or has played, and  *)
(* after the connection fails one peer may still play what it had got.     *)
(***************************************************************************)
EXTENDS Network, FiniteSetTheorems, TLAPS

(* Every step may use that there are slots to go round. *)
USE FrameDeltaAssumption

-----------------------------------------------------------------------------
(* What is under way.  A frame is known by its rank among the frames of its  *)
(* inbox: suspensions may come between them.                                 *)

Event == {KeyPressed} \cup
         {[type |-> "SYNC_TEST", registers |-> <<n, d>>] : n \in 0 .. FrameModulus - 1, d \in BOOLEAN}
EventList == Seq(Event)
Message == [kind : {"delta", "suspend"}] \cup [kind : {"frame"}, list : EventList]

IsFrame(m) == m.kind = "frame"
FramesUpTo(s, i) == {j \in 1 .. i : IsFrame(s[j])}
Rank(s, i) == Cardinality(FramesUpTo(s, i))
Frames(s) == Rank(s, Len(s))
Mail(s) == {<<Rank(s, i), s[i].list>> : i \in {j \in DOMAIN s : IsFrame(s[j])}}

LEMMA RankIsNat ==
  ASSUME NEW s, NEW i \in Nat
  PROVE  IsFiniteSet(FramesUpTo(s, i)) /\ Rank(s, i) \in Nat
<1>1. IsFiniteSet(1 .. i)
  BY FS_Interval
<1>2. FramesUpTo(s, i) \in SUBSET (1 .. i)
  BY DEF FramesUpTo
<1>3. IsFiniteSet(FramesUpTo(s, i))
  BY <1>1, <1>2, FS_Subset
<1> QED
  BY <1>3, FS_CardinalityType DEF Rank

LEMMA RankStep ==
  ASSUME NEW s, NEW i \in Nat
  PROVE  Rank(s, i + 1) = IF IsFrame(s[i + 1]) THEN Rank(s, i) + 1 ELSE Rank(s, i)
<1>1. FramesUpTo(s, i + 1) = IF IsFrame(s[i + 1]) THEN FramesUpTo(s, i) \cup {i + 1} ELSE FramesUpTo(s, i)
  <2>1. \A j : j \in 1 .. i + 1 <=> j \in 1 .. i \/ j = i + 1
    OBVIOUS
  <2> QED
    BY <2>1 DEF FramesUpTo
<1>2. i + 1 \notin FramesUpTo(s, i)
  BY DEF FramesUpTo
<1>3. IsFiniteSet(FramesUpTo(s, i))
  BY RankIsNat
<1>4. Cardinality(FramesUpTo(s, i) \cup {i + 1}) = Cardinality(FramesUpTo(s, i)) + 1
  BY <1>2, <1>3, FS_AddElement
<1> QED
  BY <1>1, <1>4 DEF Rank

LEMMA RankOfNone == \A s : Rank(s, 0) = 0
<1>1. \A s : FramesUpTo(s, 0) = {}
  BY DEF FramesUpTo
<1> QED
  BY <1>1, FS_EmptySet DEF Rank

LEMMA RankGrows ==
  ASSUME NEW s, NEW i \in Nat, NEW k \in Nat, i <= k
  PROVE  Rank(s, i) <= Rank(s, k)
<1>1. FramesUpTo(s, i) \in SUBSET FramesUpTo(s, k)
  BY DEF FramesUpTo
<1> QED
  BY <1>1, RankIsNat, FS_Subset DEF Rank

(* Equal beginnings have equal ranks. *)
LEMMA RankOfPrefix ==
  ASSUME NEW s, NEW t, NEW i \in Nat, \A j \in 1 .. i : s[j] = t[j]
  PROVE  Rank(s, i) = Rank(t, i)
<1>1. FramesUpTo(s, i) = FramesUpTo(t, i)
  BY DEF FramesUpTo
<1> QED
  BY <1>1 DEF Rank

(* The ranks after the first message is gone. *)
LEMMA RankOfTail ==
  ASSUME NEW s, NEW t, NEW i \in Nat, \A j \in 1 .. i : t[j] = s[j + 1]
  PROVE  Rank(s, i + 1) = IF IsFrame(s[1]) THEN Rank(t, i) + 1 ELSE Rank(t, i)
<1> DEFINE A == FramesUpTo(t, i)
           B == {j + 1 : j \in A}
<1>1. IsFiniteSet(A) /\ A \in SUBSET (1 .. i)
  BY RankIsNat DEF FramesUpTo
<1>2. IsFiniteSet(B) /\ Cardinality(B) = Cardinality(A)
  <2> DEFINE shift == [j \in A |-> j + 1]
  <2>1. shift \in Bijection(A, B)
    <3>1. \A j \in A : j \in Int
      BY <1>1
    <3>2. shift \in [A -> B]
      OBVIOUS
    <3>3. \A j, k \in A : shift[j] = shift[k] => j = k
      BY <3>1
    <3>4. \A x \in B : \E j \in A : shift[j] = x
      OBVIOUS
    <3> HIDE DEF shift, A, B
    <3> QED
      BY <3>2, <3>3, <3>4 DEF Bijection, Injection, Surjection, IsInjective
  <2>2. ExistsBijection(A, B)
    BY <2>1 DEF ExistsBijection
  <2> QED
    BY <1>1, <2>2, FS_Bijection
<1>3. 1 \notin B
  BY <1>1
<1>4. FramesUpTo(s, i + 1) = IF IsFrame(s[1]) THEN B \cup {1} ELSE B
  <2>1. ASSUME NEW j \in 1 .. i + 1, j # 1
        PROVE  IsFrame(s[j]) <=> j \in B
    <3>1. j - 1 \in 1 .. i /\ (j - 1) + 1 = j
      BY <2>1
    <3>2. IsFrame(s[j]) <=> j - 1 \in A
      BY <3>1 DEF FramesUpTo
    <3>3. j - 1 \in A <=> j \in B
      BY <1>1, <3>1
    <3> QED
      BY <3>2, <3>3
  <2>2. B \in SUBSET (1 .. i + 1) /\ 1 \in 1 .. i + 1
    BY <1>1
  <2> HIDE DEF A, B
  <2> QED
    BY <1>3, <2>1, <2>2 DEF FramesUpTo
<1>5. Cardinality(B \cup {1}) = Cardinality(B) + 1
  BY <1>2, <1>3, FS_AddElement
<1> QED
  BY <1>2, <1>4, <1>5 DEF Rank

(* What a frame in an inbox is, and where. *)
LEMMA MailRange ==
  ASSUME NEW s \in Seq(Message), NEW m \in Mail(s)
  PROVE  m[1] \in 1 .. Frames(s) /\ m[2] \in EventList /\ m = <<m[1], m[2]>>
<1>1. PICK i \in DOMAIN s : IsFrame(s[i]) /\ m = <<Rank(s, i), s[i].list>>
  BY DEF Mail
<1>2. i \in 1 .. Len(s) /\ Len(s) \in Nat /\ s[i] \in Message
  OBVIOUS
<1>3. s[i].list \in EventList
  BY <1>1, <1>2 DEF Message, IsFrame
<1>4. Rank(s, i) <= Frames(s)
  BY <1>2, RankGrows DEF Frames
<1>5. Rank(s, i) = Rank(s, i - 1) + 1 /\ Rank(s, i - 1) \in Nat
  <2>1. i - 1 \in Nat /\ (i - 1) + 1 = i
    BY <1>2
  <2> QED
    BY <1>1, <2>1, RankStep, RankIsNat
<1>6. Frames(s) \in Nat
  BY <1>2, RankIsNat DEF Frames
<1> QED
  BY <1>1, <1>3, <1>4, <1>5, <1>6

LEMMA NoMail == Frames(<<>>) = 0 /\ Mail(<<>>) = {}
BY RankOfNone DEF Frames, Mail

LEMMA MailAppended ==
  ASSUME NEW s \in Seq(Message), NEW e \in Message
  PROVE  /\ Append(s, e) \in Seq(Message) /\ Append(s, e) # <<>>
         /\ Head(Append(s, e)) = IF s = <<>> THEN e ELSE Head(s)
         /\ Frames(s) \in Nat
         /\ ~IsFrame(e) => Frames(Append(s, e)) = Frames(s) /\ Mail(Append(s, e)) = Mail(s)
         /\ IsFrame(e)  => /\ Frames(Append(s, e)) = Frames(s) + 1
                           /\ Mail(Append(s, e)) = Mail(s) \cup {<<Frames(s) + 1, e.list>>}
<1> DEFINE t == Append(s, e)
           n == Len(s)
<1>1. /\ t \in Seq(Message) /\ n \in Nat /\ Len(t) = n + 1 /\ t # <<>>
      /\ DOMAIN s = 1 .. n /\ DOMAIN t = 1 .. n + 1
      /\ \A j \in 1 .. n : t[j] = s[j]
      /\ t[n + 1] = e
  OBVIOUS
<1>2. Head(t) = IF s = <<>> THEN e ELSE Head(s)
  OBVIOUS
<1> HIDE DEF t, n
<1>3. \A i \in 0 .. n : Rank(t, i) = Rank(s, i)
  <2>1. ASSUME NEW i \in 0 .. n PROVE Rank(t, i) = Rank(s, i)
    <3>1. i \in Nat /\ \A j \in 1 .. i : t[j] = s[j]
      BY <1>1
    <3> QED
      BY <3>1, RankOfPrefix
  <2> QED BY <2>1
<1>4. Frames(s) = Rank(s, n) /\ Frames(t) = Rank(t, n + 1) /\ Frames(s) \in Nat
  BY <1>1, RankIsNat DEF Frames, n
<1>5. Frames(t) = IF IsFrame(e) THEN Frames(s) + 1 ELSE Frames(s)
  BY <1>1, <1>3, <1>4, RankStep
<1>6. \A i : i \in DOMAIN t <=> i \in DOMAIN s \/ i = n + 1
  BY <1>1
<1>7. \A i \in DOMAIN s : t[i] = s[i] /\ Rank(t, i) = Rank(s, i)
  BY <1>1, <1>3
<1>8. Mail(t) = IF IsFrame(e) THEN Mail(s) \cup {<<Frames(t), e.list>>} ELSE Mail(s)
  <2>1. \A m : m \in Mail(t) <=> \E i \in DOMAIN t : IsFrame(t[i]) /\ m = <<Rank(t, i), t[i].list>>
    BY DEF Mail
  <2>2. \A m : m \in Mail(s) <=> \E i \in DOMAIN s : IsFrame(s[i]) /\ m = <<Rank(s, i), s[i].list>>
    BY DEF Mail
  <2>3. t[n + 1] = e /\ Rank(t, n + 1) = Frames(t)
    BY <1>1, <1>4
  <2>4. \A m : m \in Mail(t) <=> m \in Mail(s) \/ (IsFrame(e) /\ m = <<Frames(t), e.list>>)
    BY <1>6, <1>7, <2>1, <2>2, <2>3
  <2> QED
    BY <2>4
<1> QED
  BY <1>1, <1>2, <1>4, <1>5, <1>8 DEF t

LEMMA MailReceived ==
  ASSUME NEW s \in Seq(Message), s # <<>>
  PROVE  /\ Tail(s) \in Seq(Message) /\ Head(s) \in Message
         /\ Frames(Tail(s)) \in Nat
         /\ ~IsFrame(Head(s)) => Frames(Tail(s)) = Frames(s) /\ Mail(Tail(s)) \in SUBSET Mail(s)
         /\ IsFrame(Head(s))  => /\ Frames(s) = Frames(Tail(s)) + 1
                                 /\ <<1, Head(s).list>> \in Mail(s)
                                 /\ Head(s).list \in EventList
                                 /\ \A m \in Mail(Tail(s)) : <<m[1] + 1, m[2]>> \in Mail(s)
<1> DEFINE t == Tail(s)
           n == Len(s)
<1>1. /\ t \in Seq(Message) /\ n \in Nat \ {0} /\ Len(t) = n - 1
      /\ DOMAIN s = 1 .. n /\ DOMAIN t = 1 .. n - 1
      /\ \A j \in 1 .. n - 1 : t[j] = s[j + 1]
      /\ Head(s) = s[1] /\ s[1] \in Message
  OBVIOUS
<1> HIDE DEF t, n
<1>2. ASSUME NEW i \in 0 .. n - 1
      PROVE  /\ Rank(t, i) \in Nat
             /\ Rank(s, i + 1) = IF IsFrame(s[1]) THEN Rank(t, i) + 1 ELSE Rank(t, i)
  <2>1. i \in Nat /\ \A j \in 1 .. i : t[j] = s[j + 1]
    BY <1>1
  <2> QED
    BY <2>1, RankOfTail, RankIsNat
<1>3. /\ Frames(s) = Rank(s, (n - 1) + 1) /\ Frames(t) = Rank(t, n - 1)
      /\ n - 1 \in 0 .. n - 1
  <2>1. (n - 1) + 1 = n
    BY <1>1
  <2> QED
    BY <1>1, <2>1 DEF Frames, n
<1>4. Frames(t) \in Nat /\ Frames(s) = IF IsFrame(s[1]) THEN Frames(t) + 1 ELSE Frames(t)
  BY <1>2, <1>3
<1>5. ASSUME NEW m \in Mail(t)
      PROVE  <<IF IsFrame(s[1]) THEN m[1] + 1 ELSE m[1], m[2]>> \in Mail(s)
  <2>1. PICK i \in DOMAIN t : IsFrame(t[i]) /\ m = <<Rank(t, i), t[i].list>>
    BY DEF Mail
  <2>2. i \in 0 .. n - 1 /\ i + 1 \in DOMAIN s /\ s[i + 1] = t[i]
    BY <1>1
  <2>3. <<Rank(s, i + 1), s[i + 1].list>> \in Mail(s)
    BY <2>1, <2>2 DEF Mail
  <2>4. m[1] = Rank(t, i) /\ m[2] = s[i + 1].list
    BY <2>1, <2>2
  <2>5. Rank(s, i + 1) = IF IsFrame(s[1]) THEN m[1] + 1 ELSE m[1]
    BY <1>2, <2>2, <2>4
  <2> QED
    BY <2>3, <2>4, <2>5
<1>6. ~IsFrame(s[1]) => Mail(t) \in SUBSET Mail(s)
  <2>1. ASSUME ~IsFrame(s[1]), NEW m \in Mail(t) PROVE m \in Mail(s)
    <3>1. m = <<m[1], m[2]>>
      BY <1>1, MailRange
    <3> QED
      BY <1>5, <2>1, <3>1
  <2> QED BY <2>1
<1>7. IsFrame(s[1]) => <<1, s[1].list>> \in Mail(s) /\ s[1].list \in EventList
  <2>1. Rank(s, 0 + 1) = IF IsFrame(s[0 + 1]) THEN Rank(s, 0) + 1 ELSE Rank(s, 0)
    BY RankStep
  <2>2. IsFrame(s[1]) => Rank(s, 1) = 1
    BY <2>1, RankOfNone
  <2>3. 1 \in DOMAIN s
    BY <1>1
  <2> QED
    BY <1>1, <2>2, <2>3 DEF Mail, Message, IsFrame
<1> QED
  BY <1>1, <1>4, <1>5, <1>6, <1>7 DEF t

-----------------------------------------------------------------------------
(* The slots of a peer.  The frames that it has not played are known by      *)
(* their offset from the oldest of them, Base(p) is the number of that one.  *)
(* Depth(p) of them were sent; the one at Offset(p) is being recorded, or    *)
(* was sent last.                                                            *)

Offset(p) == IF frame_buffer_full[p] THEN FrameDelta - 1 ELSE current_frame[p]

Depth(p) ==
  IF pc[p] = "test" THEN 0 ELSE IF pc[p] = "receive" THEN Offset(p) + 1 ELSE Offset(p)

Plus(n, k) == IF n + k < FrameModulus THEN n + k ELSE n + k - FrameModulus

Base(p) == IF pc[p] # "test" /\ frame_buffer_full[p] THEN Plus(frame[p], FrameDelta + 1) ELSE 0

Slot(p, o) ==
  IF ~frame_buffer_full[p] THEN o
  ELSE IF current_frame[p] + 1 + o < FrameDelta THEN current_frame[p] + 1 + o
  ELSE current_frame[p] + 1 + o - FrameDelta

Own(p, o) == frame_event_list[p][Slot(p, o)]

Numbered(p) == ~frame_buffer_full[p] => frame[p] = current_frame[p]

Contents ==
  /\ frame_event_list \in [Peers -> [Slots -> EventList]]
  /\ inbox \in [Peers -> Seq(Message)]
  /\ lead \in [Peers -> Seq(EventList \X EventList)]

LEMMA SlotRange ==
  ASSUME TypeOK, Contents, NEW p \in Peers
  PROVE  /\ Offset(p) \in 0 .. FrameDelta - 1 /\ current_frame[p] \in Slots
         /\ Slot(p, Offset(p)) = current_frame[p]
         /\ \A o \in 0 .. Offset(p) : Slot(p, o) \in Slots /\ Own(p, o) \in EventList
         /\ \A o \in 0 .. Offset(p) - 1 : Slot(p, o) # current_frame[p]
         /\ frame_event_list[p] \in [Slots -> EventList]
         /\ Base(p) \in 0 .. FrameModulus - 1
         /\ Numbered(p) /\ pc[p] # "test" => frame[p] = Plus(Base(p), Offset(p))
<1>1. /\ current_frame[p] \in 0 .. FrameDelta - 1 /\ frame_buffer_full[p] \in BOOLEAN
      /\ frame[p] \in 0 .. 2 * FrameDelta - 1
      /\ frame_event_list[p] \in [Slots -> EventList]
  BY DEF TypeOK, Contents, Slots, FrameModulus
<1>2. /\ Offset(p) \in 0 .. FrameDelta - 1
      /\ Slot(p, Offset(p)) = current_frame[p]
      /\ \A o \in 0 .. Offset(p) : Slot(p, o) \in 0 .. FrameDelta - 1
      /\ \A o \in 0 .. Offset(p) - 1 : Slot(p, o) # current_frame[p]
  BY <1>1 DEF Offset, Slot
<1>3. \A o \in 0 .. Offset(p) : Own(p, o) \in EventList
  BY <1>1, <1>2 DEF Own, Slots
<1>4. Base(p) \in 0 .. FrameModulus - 1
  BY <1>1 DEF Base, Plus, FrameModulus
<1>5. Numbered(p) /\ pc[p] # "test" => frame[p] = Plus(Base(p), Offset(p))
  BY <1>1 DEF Numbered, Base, Plus, Offset, FrameModulus
<1> QED
  BY <1>1, <1>2, <1>3, <1>4, <1>5 DEF Slots

LEMMA SlotWritten ==
  ASSUME Contents, NEW p \in Peers, NEW x \in Slots, NEW l \in EventList,
         frame_event_list' = [frame_event_list EXCEPT ![p][x] = l]
  PROVE  /\ frame_event_list' \in [Peers -> [Slots -> EventList]]
         /\ frame_event_list'[p][x] = l
         /\ \A y \in Slots : y # x => frame_event_list'[p][y] = frame_event_list[p][y]
         /\ \A q \in Peers : q # p => frame_event_list'[q] = frame_event_list[q]
<1>1. frame_event_list[p] \in [Slots -> EventList]
  BY DEF Contents
<1>2. /\ frame_event_list'[p] = [frame_event_list[p] EXCEPT ![x] = l]
      /\ \A q \in Peers : q # p => frame_event_list'[q] = frame_event_list[q]
      /\ frame_event_list' \in [Peers -> [Slots -> EventList]]
  BY <1>1 DEF Contents
<1> QED
  BY <1>1, <1>2

LEMMA OwnKept ==
  ASSUME NEW p \in Peers,
         UNCHANGED <<pc[p], frame_event_list[p], current_frame[p], frame_buffer_full[p], frame[p]>>
  PROVE  /\ Offset(p)' = Offset(p) /\ Depth(p)' = Depth(p) /\ Base(p)' = Base(p)
         /\ \A o : Own(p, o)' = Own(p, o)
         /\ Numbered(p)' <=> Numbered(p)
BY DEF Offset, Depth, Base, Own, Slot, Numbered, Plus

LEMMA OwnRecorded ==
  ASSUME TypeOK, Contents, NEW p \in Peers, NEW e \in Event, Record(p, e),
         UNCHANGED <<pc, current_frame, frame_buffer_full, frame>>
  PROVE  /\ Offset(p)' = Offset(p) /\ Depth(p)' = Depth(p) /\ Base(p)' = Base(p)
         /\ \A o \in 0 .. Offset(p) - 1 : Own(p, o)' = Own(p, o)
         /\ \A o : o = Offset(p) => Own(p, o)' = Append(Own(p, o), e)
         /\ frame_event_list' \in [Peers -> [Slots -> EventList]]
         /\ \A q \in Peers : q # p => frame_event_list'[q] = frame_event_list[q]
<1> DEFINE c == current_frame[p]
<1>1. /\ Offset(p) \in 0 .. FrameDelta - 1 /\ c \in Slots
      /\ Slot(p, Offset(p)) = c
      /\ \A o \in 0 .. Offset(p) : Slot(p, o) \in Slots
      /\ \A o \in 0 .. Offset(p) - 1 : Slot(p, o) # c
      /\ frame_event_list[p] \in [Slots -> EventList]
  BY SlotRange
<1>2. /\ Offset(p)' = Offset(p) /\ Depth(p)' = Depth(p) /\ Base(p)' = Base(p)
      /\ \A o : Slot(p, o)' = Slot(p, o)
  BY DEF Offset, Depth, Base, Slot, Plus
<1>3. Append(frame_event_list[p][c], e) \in EventList
  BY <1>1 DEF EventList
<1>4. /\ \A q \in Peers : q # p => frame_event_list'[q] = frame_event_list[q]
      /\ frame_event_list' \in [Peers -> [Slots -> EventList]]
      /\ frame_event_list'[p][c] = Append(frame_event_list[p][c], e)
      /\ \A x \in Slots : x # c => frame_event_list'[p][x] = frame_event_list[p][x]
  <2>1. frame_event_list' = [frame_event_list EXCEPT ![p][c] = Append(frame_event_list[p][c], e)]
    BY DEF Record
  <2> QED
    BY <1>1, <1>3, <2>1, SlotWritten
<1> HIDE DEF c
<1>6. /\ \A o : Own(p, o)' = frame_event_list'[p][Slot(p, o)]
      /\ \A o : Own(p, o) = frame_event_list[p][Slot(p, o)]
  BY <1>2 DEF Own
<1>7. \A o \in 0 .. Offset(p) - 1 : o \in 0 .. Offset(p)
  BY <1>1
<1>8. \A o \in 0 .. Offset(p) - 1 : Own(p, o)' = Own(p, o)
  BY <1>1, <1>4, <1>6, <1>7
<1>9. \A o : o = Offset(p) => Own(p, o)' = Append(Own(p, o), e)
  BY <1>1, <1>4, <1>6
<1> QED
  BY <1>2, <1>4, <1>8, <1>9

(* A frame is sent: there is a slot for the next one, or they are all used.  *)
LEMMA OwnSent ==
  ASSUME TypeOK, Contents, NEW p \in Peers, Numbered(p), pc[p] = "run", Sends(p),
         frame_event_list' = IF Fills(p) THEN frame_event_list ELSE Prepared(p)
  PROVE  /\ Depth(p) = Offset(p) /\ Depth(p)' = Depth(p) + 1 /\ Base(p)' = Base(p)
         /\ Numbered(p)' /\ pc'[p] \in {"run", "receive"}
         /\ pc'[p] = "receive" => frame_buffer_full'[p]
         /\ frame_buffer_full[p] => frame_buffer_full'[p]
         /\ \A o \in 0 .. Offset(p) : Own(p, o)' = Own(p, o)
         /\ Offset(p)' \in {Offset(p), Offset(p) + 1}
         /\ \A o : Offset(p)' = Offset(p) + 1 /\ o = Offset(p) + 1 => Own(p, o)' = <<>>
         /\ frame_event_list' \in [Peers -> [Slots -> EventList]]
         /\ \A q \in Peers : q # p =>
              UNCHANGED <<pc[q], frame_event_list[q], current_frame[q], frame_buffer_full[q], frame[q]>>
<1> DEFINE c == current_frame[p]
<1>1. /\ Offset(p) \in 0 .. FrameDelta - 1 /\ c \in 0 .. FrameDelta - 1
      /\ frame_event_list[p] \in [Slots -> EventList]
      /\ frame[p] \in 0 .. 2 * FrameDelta - 1
      /\ frame_buffer_full[p] \in BOOLEAN
  BY SlotRange DEF Slots, TypeOK, FrameModulus
<1>2. /\ frame_buffer_full'[p] = Fills(p)
      /\ \A q \in Peers : q # p => frame_buffer_full'[q] = frame_buffer_full[q]
  BY DEF Sends, TypeOK
<1>3. Depth(p) = Offset(p)
  BY DEF Depth
<1>4. CASE Fills(p)
  <2>1. /\ pc'[p] = "receive" /\ UNCHANGED <<current_frame, frame, frame_event_list>>
        /\ \A q \in Peers : q # p => pc'[q] = pc[q]
    BY <1>4 DEF Sends, TypeOK
  <2>2. Offset(p) = FrameDelta - 1 /\ Offset(p)' = FrameDelta - 1
    BY <1>1, <1>2, <1>4 DEF Fills, Offset
  <2>3. Base(p)' = Base(p)
    BY <1>1, <1>2, <1>4, <2>1 DEF Fills, Base, Numbered, Plus, FrameModulus
  <2>4. \A o \in 0 .. Offset(p) : Slot(p, o)' = Slot(p, o)
    BY <1>1, <1>2, <1>4, <2>1 DEF Fills, Slot, Offset
  <2>5. \A o \in 0 .. Offset(p) : Own(p, o)' = Own(p, o)
    <3>1. SUFFICES ASSUME NEW o \in 0 .. Offset(p) PROVE Own(p, o)' = Own(p, o)
      OBVIOUS
    <3> QED
      BY <2>1, <2>4 DEF Own
  <2>6. Depth(p)' = Offset(p)' + 1
    BY <2>1 DEF Depth
  <2>7. Numbered(p)' /\ frame_buffer_full'[p]
    BY <1>2, <1>4 DEF Numbered
  <2> QED
    BY <1>1, <1>2, <1>3, <2>1, <2>2, <2>3, <2>5, <2>6, <2>7 DEF Contents
<1>5. CASE ~Fills(p)
  <2>1. ~frame_buffer_full[p] /\ c # FrameDelta - 1 /\ ~frame_buffer_full'[p]
    BY <1>1, <1>2, <1>5 DEF Fills
  <2>2. /\ current_frame'[p] = c + 1 /\ frame[p] = c /\ frame'[p] = c + 1 /\ UNCHANGED pc
        /\ \A q \in Peers : q # p => current_frame'[q] = current_frame[q] /\ frame'[q] = frame[q]
    <3>1. Following(c, FrameDelta) = c + 1
      BY <1>1, <2>1 DEF Following
    <3>2. frame[p] = c /\ Following(frame[p], FrameModulus) = c + 1
      BY <1>1, <2>1 DEF Following, FrameModulus, Numbered
    <3> QED
      BY <1>5, <3>1, <3>2 DEF Sends, network_prepare_next_frame, TypeOK
  <2>3. /\ Offset(p) = c /\ Offset(p)' = c + 1 /\ Base(p)' = 0 /\ Base(p) = 0 /\ Numbered(p)'
        /\ \A o : Slot(p, o) = o /\ Slot(p, o)' = o
    BY <2>1, <2>2 DEF Offset, Base, Numbered, Slot
  <2>4. Depth(p)' = c + 1
    BY <2>2, <2>3 DEF Depth
  <2>5. c + 1 \in Slots /\ frame_event_list' = [frame_event_list EXCEPT ![p][c + 1] = <<>>]
    <3>1. c + 1 \in Slots /\ Following(c, FrameDelta) = c + 1
      BY <1>1, <2>1 DEF Following, Slots
    <3> QED
      BY <1>5, <3>1 DEF Prepared
  <2>6. <<>> \in EventList
    BY DEF EventList
  <2>7. /\ frame_event_list' \in [Peers -> [Slots -> EventList]]
        /\ frame_event_list'[p][c + 1] = <<>>
        /\ \A y \in Slots : y # c + 1 => frame_event_list'[p][y] = frame_event_list[p][y]
        /\ \A q \in Peers : q # p => frame_event_list'[q] = frame_event_list[q]
    BY <2>5, <2>6, SlotWritten
  <2>8. \A o \in 0 .. c : frame_event_list'[p][o] = frame_event_list[p][o]
    <3>1. \A o \in 0 .. c : o \in Slots /\ o # c + 1
      BY <1>1 DEF Slots
    <3> QED
      BY <2>7, <3>1
  <2>9. \A o : Own(p, o)' = frame_event_list'[p][o] /\ Own(p, o) = frame_event_list[p][o]
    BY <2>3 DEF Own
  <2>10. /\ \A o \in 0 .. Offset(p) : Own(p, o)' = Own(p, o)
         /\ \A o : o = Offset(p) + 1 => Own(p, o)' = <<>>
    BY <2>3, <2>7, <2>8, <2>9
  <2> QED
    BY <1>1, <1>2, <1>3, <2>1, <2>2, <2>3, <2>4, <2>7, <2>10
<1> QED
  BY <1>4, <1>5

(* The oldest frame is played, and its slot is that of the next one. *)
LEMMA OwnPlayed ==
  ASSUME TypeOK, Contents, NEW p \in Peers, pc[p] = "receive", frame_buffer_full[p],
         network_prepare_next_frame(p), frame_event_list' = Prepared(p),
         pc' = [pc EXCEPT ![p] = "run"], UNCHANGED frame_buffer_full
  PROVE  /\ Offset(p) = FrameDelta - 1 /\ Offset(p)' = FrameDelta - 1
         /\ Depth(p) = FrameDelta /\ Depth(p)' = FrameDelta - 1
         /\ Base(p)' = Plus(Base(p), 1)
         /\ Numbered(p)'
         /\ \A o \in 0 .. FrameDelta - 2 : Own(p, o)' = Own(p, o + 1)
         /\ Own(p, FrameDelta - 1)' = <<>>
         /\ Own(p, 0) = frame_event_list[p][FrameToPlay(p)]
         /\ frame_event_list' \in [Peers -> [Slots -> EventList]]
         /\ \A q \in Peers : q # p =>
              UNCHANGED <<pc[q], frame_event_list[q], current_frame[q], frame_buffer_full[q], frame[q]>>
<1> DEFINE c == current_frame[p]
           n == Following(c, FrameDelta)
<1>1. /\ c \in 0 .. FrameDelta - 1 /\ frame_event_list[p] \in [Slots -> EventList]
      /\ frame[p] \in 0 .. 2 * FrameDelta - 1
  BY SlotRange DEF Slots, TypeOK, FrameModulus
<1>2. n \in 0 .. FrameDelta - 1 /\ n = IF c + 1 < FrameDelta THEN c + 1 ELSE 0
  BY <1>1 DEF Following
<1>3. /\ current_frame'[p] = n /\ pc'[p] = "run" /\ frame_buffer_full'[p]
      /\ frame'[p] = Following(frame[p], FrameModulus)
      /\ frame_event_list' = [frame_event_list EXCEPT ![p][n] = <<>>]
      /\ \A q \in Peers : q # p =>
           UNCHANGED <<pc[q], current_frame[q], frame_buffer_full[q], frame[q]>>
  BY DEF network_prepare_next_frame, Prepared, TypeOK
<1>4. frame'[p] = IF frame[p] + 1 < 2 * FrameDelta THEN frame[p] + 1 ELSE 0
  BY <1>1, <1>3 DEF Following, FrameModulus
<1>5. <<>> \in EventList
  BY DEF EventList
<1>6. /\ frame_event_list' \in [Peers -> [Slots -> EventList]]
      /\ frame_event_list'[p][n] = <<>>
      /\ \A y \in Slots : y # n => frame_event_list'[p][y] = frame_event_list[p][y]
      /\ \A q \in Peers : q # p => frame_event_list'[q] = frame_event_list[q]
  <2>1. n \in Slots
    BY <1>2 DEF Slots
  <2> QED
    BY <1>3, <1>5, <2>1, SlotWritten
<1> HIDE DEF n
<1>7. /\ Offset(p) = FrameDelta - 1 /\ Offset(p)' = FrameDelta - 1
      /\ Depth(p) = FrameDelta /\ Depth(p)' = FrameDelta - 1
      /\ Numbered(p)'
  BY <1>3 DEF Offset, Depth, Numbered
<1>8. Base(p)' = Plus(Base(p), 1)
  <2>1. Base(p) = Plus(frame[p], FrameDelta + 1)
    BY DEF Base
  <2>2. Base(p)' = Plus(frame'[p], FrameDelta + 1)
    BY <1>3 DEF Base, Plus
  <2> QED
    BY <1>1, <1>4, <2>1, <2>2 DEF Plus, FrameModulus
<1>9. /\ \A o \in 0 .. FrameDelta - 2 : Slot(p, o)' = Slot(p, o + 1)
      /\ \A o \in 0 .. FrameDelta - 2 : Slot(p, o + 1) \in Slots /\ Slot(p, o + 1) # n
      /\ Slot(p, FrameDelta - 1)' = n /\ Slot(p, 0) = n
  <2>1. /\ \A o : Slot(p, o) = IF c + 1 + o < FrameDelta THEN c + 1 + o ELSE c + 1 + o - FrameDelta
        /\ \A o : Slot(p, o)' = IF n + 1 + o < FrameDelta THEN n + 1 + o ELSE n + 1 + o - FrameDelta
    BY <1>3 DEF Slot
  <2>2. Slot(p, FrameDelta - 1)' = n
    <3>1. Slot(p, FrameDelta - 1)' = IF n + 1 + (FrameDelta - 1) < FrameDelta
                                       THEN n + 1 + (FrameDelta - 1)
                                       ELSE n + 1 + (FrameDelta - 1) - FrameDelta
      BY <1>3 DEF Slot
    <3> QED
      BY <1>2, <3>1
  <2>3. ASSUME NEW o \in 0 .. FrameDelta - 2
        PROVE  Slot(p, o)' = Slot(p, o + 1) /\ Slot(p, o + 1) \in Slots /\ Slot(p, o + 1) # n
    <3>1. Slot(p, o + 1) = IF c + 1 + (o + 1) < FrameDelta THEN c + 1 + (o + 1)
                           ELSE c + 1 + (o + 1) - FrameDelta
      BY <2>1
    <3>2. Slot(p, o)' = IF n + 1 + o < FrameDelta THEN n + 1 + o ELSE n + 1 + o - FrameDelta
      BY <2>1
    <3> DEFINE x == Slot(p, o + 1)
               y == Slot(p, o)'
    <3> HIDE DEF x, y
    <3>3. x \in 0 .. FrameDelta - 1 /\ x # n /\ y = x
      BY <1>1, <1>2, <3>1, <3>2 DEF x, y
    <3> QED
      BY <3>3 DEF Slots, x, y
  <2>4. Slot(p, 0) = n
    <3>1. Slot(p, 0) = IF c + 1 + 0 < FrameDelta THEN c + 1 + 0 ELSE c + 1 + 0 - FrameDelta
      BY <2>1
    <3> QED
      BY <1>1, <1>2, <3>1
  <2> QED
    BY <2>2, <2>3, <2>4
<1>10. \A o \in 0 .. FrameDelta - 2 : Own(p, o)' = Own(p, o + 1)
  <2>1. SUFFICES ASSUME NEW o \in 0 .. FrameDelta - 2 PROVE Own(p, o)' = Own(p, o + 1)
    OBVIOUS
  <2>2. Own(p, o)' = frame_event_list'[p][Slot(p, o + 1)]
    BY <1>9 DEF Own
  <2>3. frame_event_list'[p][Slot(p, o + 1)] = frame_event_list[p][Slot(p, o + 1)]
    BY <1>1, <1>6, <1>9
  <2> QED
    BY <2>2, <2>3 DEF Own
<1>11. Own(p, FrameDelta - 1)' = <<>>
  <2>1. Own(p, FrameDelta - 1)' = frame_event_list'[p][Slot(p, FrameDelta - 1)']
    BY DEF Own
  <2> QED
    BY <1>6, <1>9, <2>1
<1>12. Own(p, 0) = frame_event_list[p][FrameToPlay(p)]
  BY <1>9 DEF Own, FrameToPlay, n
<1> QED
  BY <1>3, <1>6, <1>7, <1>8, <1>10, <1>11, <1>12

-----------------------------------------------------------------------------
(* The invariant.  A peer is live if it may still play a frame of the        *)
(* session: once the connection has failed, it plays at most the one that it *)
(* waits for.                                                                *)

Live(p) == network_connected[p] /\ (line[p] # "reset" \/ pc[p] = "receive")

(* What a socket sees, and that the client drops nothing but the delay.      *)
Connection ==
  /\ line["server"] = "open" <=> line["client"] = "open"
  /\ \A p \in Peers : ~network_connected[p] => line[p] = "reset" /\ inbox[p] = <<>>
  /\ \A p \in Peers : line[p] = "eof" => ~network_connected[Other(p)]
  /\ pc["client"] = "test" =>
       IF inbox["client"] = <<>> THEN line["server"] = "open" => pc["server"] = "test"
       ELSE Head(inbox["client"]).kind = "delta"

Pair(p, mine, theirs) == IF p = "server" THEN <<mine, theirs>> ELSE <<theirs, mine>>

Dated(events, n) ==
  \A k \in DOMAIN events :
    events[k].type = "SYNC_TEST" => events[k] = [type |-> "SYNC_TEST", registers |-> <<n, FALSE>>]

(* Every list of a peer, and every list that waits for it, has the registers *)
(* of its own frame.                                                         *)
Right(p) ==
  /\ \A m \in Mail(inbox[p]) : Dated(m[2], Plus(Base(p), m[1] - 1))
  /\ pc[p] # "test" => \A o \in 0 .. Offset(p) : Dated(Own(p, o), Plus(Base(p), o))

(* A peer has kept what the other one has played already, and will play it   *)
(* in the same way.                                                          *)
Repeats(p) ==
  \A m \in Mail(inbox[p]) : m[1] <= Len(lead[Other(p)]) =>
    lead[Other(p)][m[1]] = Pair(p, Own(p, m[1] - 1), m[2])

Side(p) ==
  /\ pc[p] # "test" => Numbered(p)
  /\ pc[p] = "receive" => frame_buffer_full[p]
  /\ pc[p] = "test" \/ ~frame_buffer_full[p] => lead[p] = <<>>
  /\ Len(lead[Other(p)]) <= Depth(p)
  /\ Frames(inbox[p]) + Len(lead[p]) <= FrameDelta + Len(lead[Other(p)])
  /\ Repeats(p)
  /\ ~skewed => Right(p)

(* Of two live peers, one has what the other one sent and has not played.    *)
Echoes(p) ==
  \A m \in Mail(inbox[p]) : m[1] > Len(lead[Other(p)]) =>
    m[2] = Own(Other(p), m[1] - 1 + Len(lead[p]) - Len(lead[Other(p)]))

Even(p) ==
  /\ Frames(inbox[p]) + Len(lead[p]) = Depth(Other(p)) + Len(lead[Other(p)])
  /\ Echoes(p)
  /\ Plus(Base(p), Len(lead[Other(p)])) = Plus(Base(Other(p)), Len(lead[p]))

Leads == \E p \in Peers : lead[p] = <<>>

Session ==
  /\ Leads
  /\ \A p \in Peers : Live(p) => Side(p)
  /\ (\A p \in Peers : Live(p)) => \A p \in Peers : Even(p)

Wired == TypeOK /\ Contents /\ Connection

IInv == Wired /\ Session

LEMMA TwoPeers ==
  ASSUME NEW p \in Peers
  PROVE  /\ Other(p) \in Peers /\ Other(p) # p /\ Other(Other(p)) = p
         /\ \A x \in Peers : x = p \/ x = Other(p)
         /\ \A a, b : Pair(Other(p), a, b) = Pair(p, b, a)
BY DEF Peers, Other, Pair

LEMMA SessionOfTwo ==
  ASSUME NEW p \in Peers
  PROVE  Session <=> /\ lead[p] = <<>> \/ lead[Other(p)] = <<>>
                     /\ Live(p) => Side(p)
                     /\ Live(Other(p)) => Side(Other(p))
                     /\ Live(p) /\ Live(Other(p)) => Even(p) /\ Even(Other(p))
BY TwoPeers DEF Session, Leads

LEMMA SessionOfTwoNext ==
  ASSUME NEW p \in Peers
  PROVE  Session' <=> /\ lead'[p] = <<>> \/ lead'[Other(p)] = <<>>
                      /\ Live(p)' => Side(p)'
                      /\ Live(Other(p))' => Side(Other(p))'
                      /\ Live(p)' /\ Live(Other(p))' => Even(p)' /\ Even(Other(p))'
BY TwoPeers DEF Session, Leads

LEMMA LeadRange ==
  ASSUME Contents, NEW p \in Peers
  PROVE  /\ lead[p] \in Seq(EventList \X EventList) /\ Len(lead[p]) \in Nat
         /\ Len(lead[p]) = 0 <=> lead[p] = <<>>
         /\ inbox[p] \in Seq(Message) /\ Frames(inbox[p]) \in Nat
<1>1. lead[p] \in Seq(EventList \X EventList) /\ inbox[p] \in Seq(Message)
  BY DEF Contents
<1>2. Len(inbox[p]) \in Nat
  BY <1>1
<1> QED
  BY <1>1, <1>2, RankIsNat DEF Frames

(* What a peer has is about its own lists, its mail and the two leads.       *)
LEMMA SideKept ==
  ASSUME NEW p \in Peers, Side(p), UNCHANGED <<lead[p], lead[Other(p)]>>,
         UNCHANGED <<pc[p], frame_event_list[p], current_frame[p], frame_buffer_full[p], frame[p]>>,
         Frames(inbox[p])' = Frames(inbox[p]), Mail(inbox[p])' \in SUBSET Mail(inbox[p]),
         skewed => skewed'
  PROVE  Side(p)'
<1>1. /\ Offset(p)' = Offset(p) /\ Depth(p)' = Depth(p) /\ Base(p)' = Base(p)
      /\ \A o : Own(p, o)' = Own(p, o)
      /\ Numbered(p)' <=> Numbered(p)
  BY OwnKept
<1>2. Other(p)' = Other(p) /\ \A a, b : Pair(p, a, b)' = Pair(p, a, b)
  BY DEF Other, Pair
<1>3. Repeats(p)'
  <2>1. SUFFICES ASSUME NEW m \in Mail(inbox[p])', m[1] <= Len(lead[Other(p)])
                 PROVE  lead[Other(p)][m[1]] = Pair(p, Own(p, m[1] - 1)', m[2])
    BY DEF Repeats
  <2> QED
    BY <1>1, <2>1 DEF Side, Repeats
<1>4. ~skewed' => Right(p)'
  <2>1. SUFFICES ASSUME ~skewed, Right(p) PROVE Right(p)'
    BY DEF Side
  <2>2. \A o : Plus(Base(p), o)' = Plus(Base(p), o)
    BY <1>1 DEF Plus
  <2>3. \A m \in Mail(inbox[p])' : Dated(m[2], Plus(Base(p), m[1] - 1))'
    <3>1. \A m \in Mail(inbox[p])' : Dated(m[2], Plus(Base(p), m[1] - 1))
      BY <2>1 DEF Right
    <3> QED
      BY <2>2, <3>1 DEF Dated
  <2>4. pc'[p] # "test" => \A o \in 0 .. Offset(p)' : Dated(Own(p, o), Plus(Base(p), o))'
    <3>1. SUFFICES ASSUME pc[p] # "test", NEW o \in 0 .. Offset(p)
                   PROVE  Dated(Own(p, o), Plus(Base(p), o))'
      BY <1>1
    <3>2. Dated(Own(p, o), Plus(Base(p), o))
      BY <2>1, <3>1 DEF Right
    <3>3. Own(p, o)' = Own(p, o) /\ Plus(Base(p), o)' = Plus(Base(p), o)
      BY <1>1, <2>2
    <3> QED
      BY <3>2, <3>3 DEF Dated
  <2> QED
    BY <2>3, <2>4 DEF Right
<1> QED
  BY <1>1, <1>3, <1>4 DEF Side

LEMMA EvenKept ==
  ASSUME NEW p \in Peers, NEW q \in Peers, q = Other(p), Even(p), UNCHANGED <<lead[p], lead[q]>>,
         Frames(inbox[p])' = Frames(inbox[p]), Mail(inbox[p])' \in SUBSET Mail(inbox[p]),
         Base(p)' = Base(p), Base(q)' = Base(q), Depth(q)' = Depth(q),
         \A m \in Mail(inbox[p])' : m[1] > Len(lead[q]) =>
           \A o : o = m[1] - 1 + Len(lead[p]) - Len(lead[q]) => Own(q, o)' = Own(q, o)
  PROVE  Even(p)'
<1>1. Echoes(p)'
  <2>1. SUFFICES ASSUME NEW m \in Mail(inbox[p])', m[1] > Len(lead[q])
                 PROVE  m[2] = Own(q, m[1] - 1 + Len(lead[p]) - Len(lead[q]))'
    BY DEF Echoes, Other
  <2> DEFINE o == m[1] - 1 + Len(lead[p]) - Len(lead[q])
  <2>2. m[2] = Own(q, o)
    BY <2>1 DEF Even, Echoes
  <2>3. o' = o
    OBVIOUS
  <2>4. Own(q, o)' = Own(q, o)
    <3>1. \A x : x = o => Own(q, x)' = Own(q, x)
      BY <2>1
    <3>2. \A x : x = o => Own(q, x)' = Own(q, o)'
      BY <2>3 DEF Own, Slot
    <3> QED
      BY <3>1, <3>2
  <2> QED
    BY <2>2, <2>4
<1>2. Plus(Base(p), Len(lead[q]))' = Plus(Base(q), Len(lead[p]))'
  BY DEF Even, Plus
<1> QED
  BY <1>1, <1>2 DEF Even, Other

-----------------------------------------------------------------------------
(* What holds of the variables by themselves, and of the sockets.            *)

LEMMA FollowingRange ==
  ASSUME NEW m \in Nat \ {0}, NEW n \in 0 .. m - 1
  PROVE  Following(n, m) \in 0 .. m - 1
BY DEF Following

LEMMA EmptyIsList == EmptyList \in [Slots -> EventList]
BY DEF EmptyList, EventList

LEMMA SentTo ==
  ASSUME Contents, NEW p \in Peers, NEW m \in Message
  PROVE  /\ Sent(p, m) \in [Peers -> Seq(Message)]
         /\ Sent(p, m)[p] = inbox[p]
         /\ Sent(p, m)[Other(p)] = IF line[p] = "open" THEN Append(inbox[Other(p)], m)
                                                       ELSE inbox[Other(p)]
<1>1. inbox \in [Peers -> Seq(Message)] /\ Append(inbox[Other(p)], m) \in Seq(Message)
  BY TwoPeers, MailAppended DEF Contents
<1> QED
  BY <1>1, TwoPeers DEF Sent

LEMMA ReceivedBy ==
  ASSUME Contents, NEW p \in Peers, inbox[p] # <<>>, inbox' = [inbox EXCEPT ![p] = Tail(@)]
  PROVE  /\ inbox' \in [Peers -> Seq(Message)]
         /\ inbox'[p] = Tail(inbox[p]) /\ inbox'[Other(p)] = inbox[Other(p)]
<1>1. inbox \in [Peers -> Seq(Message)] /\ Tail(inbox[p]) \in Seq(Message)
  BY MailReceived DEF Contents
<1> QED
  BY <1>1, TwoPeers

LEMMA Disconnected ==
  ASSUME Wired, NEW p \in Peers, network_disconnect(p)
  PROVE  /\ network_connected' = [network_connected EXCEPT ![p] = FALSE]
         /\ line' \in [Peers -> {"open", "eof", "reset"}]
         /\ line'[p] = "reset" /\ line'[Other(p)] \in {"eof", "reset"}
         /\ line[Other(p)] # "open" => line'[Other(p)] = line[Other(p)]
         /\ frame_event_list' \in [Peers -> [Slots -> EventList]]
         /\ frame_event_list'[p] = EmptyList
         /\ frame_event_list'[Other(p)] = frame_event_list[Other(p)]
         /\ inbox' \in [Peers -> Seq(Message)]
         /\ inbox'[p] = <<>> /\ inbox'[Other(p)] = inbox[Other(p)]
<1>1. /\ line \in [Peers -> {"open", "eof", "reset"}]
      /\ frame_event_list \in [Peers -> [Slots -> EventList]]
      /\ inbox \in [Peers -> Seq(Message)] /\ <<>> \in Seq(Message)
  BY DEF Wired, TypeOK, Contents
<1>2. PICK end \in IF line[Other(p)] = "open" THEN {"eof", "reset"} ELSE {line[Other(p)]} :
        line' = [line EXCEPT ![p] = "reset", ![Other(p)] = end]
  BY DEF network_disconnect
<1>3. /\ line' \in [Peers -> {"open", "eof", "reset"}]
      /\ line'[p] = "reset" /\ line'[Other(p)] = end
      /\ end \in {"eof", "reset"}
      /\ line[Other(p)] # "open" => end = line[Other(p)]
  BY <1>1, <1>2, TwoPeers
<1>4. /\ frame_event_list' \in [Peers -> [Slots -> EventList]]
      /\ frame_event_list'[p] = EmptyList
      /\ frame_event_list'[Other(p)] = frame_event_list[Other(p)]
  BY <1>1, EmptyIsList, TwoPeers DEF network_disconnect
<1>5. /\ inbox' \in [Peers -> Seq(Message)]
      /\ inbox'[p] = <<>> /\ inbox'[Other(p)] = inbox[Other(p)]
  BY <1>1, TwoPeers DEF network_disconnect
<1> QED
  BY <1>3, <1>4, <1>5 DEF network_disconnect

(* The sockets after one peer has closed its own. *)
LEMMA DisconnectedWires ==
  ASSUME Wired, NEW p \in Peers, network_disconnect(p), pc[p] # "test", pc'[p] # "test",
         pc'[Other(p)] = pc[Other(p)]
  PROVE  Connection'
<1> DEFINE q == Other(p)
<1>1. /\ network_connected \in [Peers -> BOOLEAN]
      /\ q \in Peers /\ q # p /\ Other(q) = p /\ Other(p) = q /\ \A x \in Peers : x = p \/ x = q
      /\ "server" \in Peers /\ "client" \in Peers
      /\ (p = "server" /\ q = "client") \/ (p = "client" /\ q = "server")
  BY TwoPeers DEF Wired, TypeOK, Peers
<1> HIDE DEF q
<1>2. /\ ~network_connected'[p] /\ network_connected'[q] = network_connected[q]
      /\ line'[p] = "reset" /\ line'[q] \in {"eof", "reset"}
      /\ line[q] # "open" => line'[q] = line[q]
      /\ inbox'[p] = <<>> /\ inbox'[q] = inbox[q]
  BY <1>1, Disconnected
<1>3. line'["server"] = "open" <=> line'["client"] = "open"
  BY <1>1, <1>2
<1>4. ASSUME NEW x \in Peers, ~network_connected'[x]
      PROVE  line'[x] = "reset" /\ inbox'[x] = <<>>
  BY <1>1, <1>2, <1>4 DEF Wired, Connection
<1>5. ASSUME NEW x \in Peers, line'[x] = "eof"
      PROVE  ~network_connected'[Other(x)]
  BY <1>1, <1>2, <1>5
<1>6. ASSUME pc'["client"] = "test"
      PROVE  IF inbox'["client"] = <<>> THEN line'["server"] = "open" => pc'["server"] = "test"
             ELSE Head(inbox'["client"]).kind = "delta"
  <2>1. p = "server" /\ q = "client" /\ pc["client"] = "test"
    BY <1>1, <1>6
  <2> QED
    BY <1>2, <1>6, <2>1 DEF Wired, Connection
<1> QED
  BY <1>3, <1>4, <1>5, <1>6 DEF Connection, Other

(* The sockets after a step that closes none. *)
LEMMA ConnectedWires ==
  ASSUME Wired, NEW p \in Peers, UNCHANGED <<network_connected, line>>,
         network_connected[p],
         pc'[Other(p)] = pc[Other(p)], pc'[p] # "test", p = "server" => pc[p] # "test",
         inbox'[p] \in {inbox[p], Tail(inbox[p])},
         inbox'[Other(p)] = inbox[Other(p)] \/
           (line[p] = "open" /\ \E m \in Message : inbox'[Other(p)] = Append(inbox[Other(p)], m))
  PROVE  Connection'
<1> DEFINE q == Other(p)
<1>1. /\ network_connected \in [Peers -> BOOLEAN]
      /\ q \in Peers /\ q # p /\ Other(q) = p /\ Other(p) = q /\ \A x \in Peers : x = p \/ x = q
      /\ (p = "server" /\ q = "client") \/ (p = "client" /\ q = "server")
      /\ inbox[q] \in Seq(Message)
  BY TwoPeers DEF Wired, TypeOK, Peers, Contents
<1> HIDE DEF q
<1>2. line[p] = "open" => network_connected[q]
  BY <1>1 DEF Wired, Connection
<1>3. ASSUME NEW x \in Peers, ~network_connected[x]
      PROVE  line[x] = "reset" /\ inbox'[x] = <<>>
  <2>1. x = q
    BY <1>1, <1>3
  <2>2. line[q] = "reset" /\ inbox[q] = <<>>
    BY <1>1, <1>3, <2>1 DEF Wired, Connection
  <2>3. inbox'[q] = inbox[q]
    BY <1>1, <1>2, <1>3, <2>1
  <2> QED
    BY <2>1, <2>2, <2>3
<1>4. ASSUME pc'["client"] = "test"
      PROVE  IF inbox'["client"] = <<>> THEN line["server"] = "open" => pc'["server"] = "test"
             ELSE Head(inbox'["client"]).kind = "delta"
  <2>1. p = "server" /\ q = "client" /\ pc[q] = "test" /\ pc[p] # "test"
    BY <1>1, <1>4
  <2>2. CASE inbox[q] = <<>>
    <3>1. line[p] # "open"
      BY <2>1, <2>2 DEF Wired, Connection
    <3> QED
      BY <1>1, <2>1, <2>2, <3>1
  <2>3. CASE inbox[q] # <<>>
    <3>1. Head(inbox[q]).kind = "delta"
      BY <2>1, <2>3 DEF Wired, Connection
    <3>2. \A m \in Message : Append(inbox[q], m) # <<>> /\ Head(Append(inbox[q], m)) = Head(inbox[q])
      BY <1>1, <2>3, MailAppended
    <3> QED
      BY <1>1, <2>1, <2>3, <3>1, <3>2
  <2> QED
    BY <2>2, <2>3
<1> QED
  BY <1>3, <1>4 DEF Wired, Connection, Other

-----------------------------------------------------------------------------
(* Steps after which a peer plays nothing more in this session.              *)

LEMMA InvInit == Init => IInv
<1> SUFFICES ASSUME Init PROVE IInv
  OBVIOUS
<1>1. TypeOK
  <2>1. 0 \in Slots /\ 0 \in 0 .. FrameModulus - 1
    BY DEF Slots, FrameModulus
  <2> QED
    BY <2>1 DEF Init, TypeOK
<1>2. Contents
  <2>1. \A S : <<>> \in Seq(S)
    OBVIOUS
  <2> QED
    BY <2>1, EmptyIsList DEF Init, Contents
<1>3. Connection
  BY DEF Init, Connection, Peers
<1>4. Session
  <2>1. \A p \in Peers : ~Live(p) /\ lead[p] = <<>>
    BY DEF Init, Live
  <2>2. "server" \in Peers
    BY DEF Peers
  <2> QED
    BY <2>1, <2>2 DEF Session, Leads
<1> QED
  BY <1>1, <1>2, <1>3, <1>4 DEF IInv, Wired

LEMMA LostPeer ==
  ASSUME IInv, NEW p \in Peers, NEW q \in Peers, q = Other(p),
         ~Live(p)', Live(q)' => Live(q), UNCHANGED lead, skewed => skewed',
         UNCHANGED <<pc[q], frame_event_list[q], current_frame[q], frame_buffer_full[q],
                     frame[q], inbox[q]>>
  PROVE  Session'
<1>1. /\ lead[p] = <<>> \/ lead[q] = <<>>
      /\ Live(q) => Side(q)
  BY SessionOfTwo DEF IInv
<1>2. Frames(inbox[q])' = Frames(inbox[q]) /\ Mail(inbox[q])' = Mail(inbox[q])
  OBVIOUS
<1>3. Live(q)' => Side(q)'
  BY <1>1, <1>2, SideKept
<1> QED
  BY <1>1, <1>3, SessionOfTwoNext

LEMMA TurnOffKeeps ==
  ASSUME IInv, NEW p \in Peers, TurnOff(p)
  PROVE  IInv'
<1> DEFINE q == Other(p)
<1>1. /\ pc[p] = "run" /\ network_disconnect(p)
      /\ UNCHANGED <<pc, sync_trap, current_frame, frame_buffer_full, frame, suspended, skewed, lead>>
  BY DEF TurnOff
<1>2. q \in Peers /\ q # p /\ \A x \in Peers : x = p \/ x = q
  BY TwoPeers
<1>3. /\ TypeOK /\ Contents /\ Wired
      /\ network_connected' = [network_connected EXCEPT ![p] = FALSE]
      /\ line' \in [Peers -> {"open", "eof", "reset"}]
      /\ line'[p] = "reset" /\ line'[q] \in {"eof", "reset"}
      /\ line[q] # "open" => line'[q] = line[q]
      /\ frame_event_list' \in [Peers -> [Slots -> EventList]]
      /\ frame_event_list'[p] = EmptyList /\ frame_event_list'[q] = frame_event_list[q]
      /\ inbox' \in [Peers -> Seq(Message)] /\ inbox'[q] = inbox[q]
  BY <1>1, Disconnected DEF IInv, Wired
<1> HIDE DEF q
<1>4. TypeOK'
  BY <1>1, <1>2, <1>3 DEF TypeOK
<1>5. Contents'
  BY <1>1, <1>3 DEF Contents
<1>6. Connection'
  BY <1>1, <1>3, DisconnectedWires
<1>7. ~network_connected'[p] /\ network_connected'[q] = network_connected[q]
  BY <1>2, <1>3 DEF TypeOK
<1>8. Session'
  <2>1. ~Live(p)' /\ (Live(q)' => Live(q))
    BY <1>1, <1>2, <1>3, <1>7 DEF Live, TypeOK
  <2> QED
    BY <1>1, <1>2, <1>3, <2>1, LostPeer DEF q
<1> QED
  BY <1>4, <1>5, <1>6, <1>8 DEF IInv, Wired

LEMMA ReceiveFailsKeeps ==
  ASSUME IInv, NEW p \in Peers, ReceiveFails(p)
  PROVE  IInv'
<1> DEFINE q == Other(p)
<1>1. /\ pc[p] = "receive" /\ network_disconnect(p) /\ pc' = [pc EXCEPT ![p] = "run"]
      /\ UNCHANGED <<sync_trap, current_frame, frame_buffer_full, frame, suspended, skewed, lead>>
  BY DEF ReceiveFails
<1>2. q \in Peers /\ q # p /\ \A x \in Peers : x = p \/ x = q
  BY TwoPeers
<1>3. /\ TypeOK /\ Contents /\ Wired
      /\ network_connected' = [network_connected EXCEPT ![p] = FALSE]
      /\ line' \in [Peers -> {"open", "eof", "reset"}]
      /\ line'[p] = "reset" /\ line'[q] \in {"eof", "reset"}
      /\ line[q] # "open" => line'[q] = line[q]
      /\ frame_event_list' \in [Peers -> [Slots -> EventList]]
      /\ frame_event_list'[p] = EmptyList /\ frame_event_list'[q] = frame_event_list[q]
      /\ inbox' \in [Peers -> Seq(Message)] /\ inbox'[q] = inbox[q]
  BY <1>1, Disconnected DEF IInv, Wired
<1> HIDE DEF q
<1>4. TypeOK'
  BY <1>1, <1>2, <1>3 DEF TypeOK
<1>5. Contents'
  BY <1>1, <1>3 DEF Contents
<1>6. /\ ~network_connected'[p] /\ network_connected'[q] = network_connected[q]
      /\ pc'[p] = "run" /\ pc'[q] = pc[q]
  BY <1>1, <1>2, <1>3 DEF TypeOK
<1>7. Connection'
  BY <1>1, <1>3, <1>6, DisconnectedWires DEF q
<1>8. Session'
  <2>1. ~Live(p)' /\ (Live(q)' => Live(q))
    BY <1>2, <1>3, <1>6 DEF Live, TypeOK
  <2> QED
    BY <1>1, <1>2, <1>3, <1>6, <2>1, LostPeer DEF q
<1> QED
  BY <1>4, <1>5, <1>7, <1>8 DEF IInv, Wired

LEMMA SendsType ==
  ASSUME TypeOK, NEW p \in Peers, pc[p] = "run", Sends(p)
  PROVE  /\ pc' \in [Peers -> {"run", "test", "receive"}]
         /\ sync_trap' \in [Peers -> BOOLEAN] /\ current_frame' \in [Peers -> Slots]
         /\ frame_buffer_full' \in [Peers -> BOOLEAN] /\ suspended' \in [Peers -> BOOLEAN]
         /\ frame' \in [Peers -> 0 .. FrameModulus - 1]
         /\ pc'[p] \in {"run", "receive"}
         /\ \A q \in Peers : q # p =>
              UNCHANGED <<pc[q], current_frame[q], frame_buffer_full[q], frame[q]>>
<1>1. Following(current_frame[p], FrameDelta) \in Slots
  BY FollowingRange DEF TypeOK, Slots
<1>2. Following(frame[p], FrameModulus) \in 0 .. FrameModulus - 1
  <2>1. FrameModulus \in Nat \ {0}
    BY DEF FrameModulus
  <2> QED
    BY <2>1, FollowingRange DEF TypeOK
<1>3. Fills(p) \in BOOLEAN
  BY DEF Fills, TypeOK
<1>4. /\ frame_buffer_full' \in [Peers -> BOOLEAN] /\ suspended' \in [Peers -> BOOLEAN]
      /\ \A q \in Peers : q # p => frame_buffer_full'[q] = frame_buffer_full[q]
  BY <1>3 DEF Sends, TypeOK
<1>5. CASE Fills(p)
  BY <1>4, <1>5 DEF Sends, TypeOK
<1>6. CASE ~Fills(p)
  <2>1. pc' = pc /\ network_prepare_next_frame(p)
    BY <1>6 DEF Sends
  <2>2. /\ sync_trap' \in [Peers -> BOOLEAN] /\ current_frame' \in [Peers -> Slots]
        /\ frame' \in [Peers -> 0 .. FrameModulus - 1]
        /\ \A q \in Peers : q # p => UNCHANGED <<current_frame[q], frame[q]>>
    BY <1>1, <1>2, <2>1 DEF network_prepare_next_frame, TypeOK
  <2> QED
    BY <1>4, <2>1, <2>2 DEF TypeOK
<1> QED
  BY <1>5, <1>6

LEMMA HookFailsKeeps ==
  ASSUME IInv, NEW p \in Peers, network_hook_fails(p)
  PROVE  IInv'
<1> DEFINE q == Other(p)
<1>1. /\ pc[p] = "run" /\ network_disconnect(p) /\ Sends(p) /\ UNCHANGED <<skewed, lead>>
  BY DEF network_hook_fails, HookDue
<1>2. q \in Peers /\ q # p /\ \A x \in Peers : x = p \/ x = q
  BY TwoPeers
<1>3. /\ TypeOK /\ Contents /\ Wired
      /\ network_connected' = [network_connected EXCEPT ![p] = FALSE]
      /\ line' \in [Peers -> {"open", "eof", "reset"}]
      /\ line'[p] = "reset" /\ line'[q] \in {"eof", "reset"}
      /\ line[q] # "open" => line'[q] = line[q]
      /\ frame_event_list' \in [Peers -> [Slots -> EventList]]
      /\ frame_event_list'[p] = EmptyList /\ frame_event_list'[q] = frame_event_list[q]
      /\ inbox' \in [Peers -> Seq(Message)] /\ inbox'[q] = inbox[q]
  BY <1>1, Disconnected DEF IInv, Wired
<1>4. /\ pc' \in [Peers -> {"run", "test", "receive"}]
      /\ sync_trap' \in [Peers -> BOOLEAN] /\ current_frame' \in [Peers -> Slots]
      /\ frame_buffer_full' \in [Peers -> BOOLEAN] /\ suspended' \in [Peers -> BOOLEAN]
      /\ frame' \in [Peers -> 0 .. FrameModulus - 1]
      /\ pc'[p] \in {"run", "receive"}
      /\ UNCHANGED <<pc[q], current_frame[q], frame_buffer_full[q], frame[q]>>
  BY <1>1, <1>2, <1>3, SendsType
<1> HIDE DEF q
<1>5. /\ ~network_connected'[p] /\ network_connected'[q] = network_connected[q]
      /\ network_connected' \in [Peers -> BOOLEAN]
  BY <1>2, <1>3 DEF TypeOK
<1>6. TypeOK'
  BY <1>1, <1>2, <1>3, <1>4, <1>5 DEF TypeOK
<1>7. Contents'
  BY <1>1, <1>3 DEF Contents
<1>8. Connection'
  <2>1. pc[p] # "test" /\ pc'[p] # "test"
    BY <1>1, <1>4
  <2> QED
    BY <1>1, <1>3, <1>4, <2>1, DisconnectedWires DEF q
<1>9. Session'
  <2>1. ~Live(p)' /\ (Live(q)' => Live(q))
    BY <1>2, <1>3, <1>4, <1>5 DEF Live, TypeOK
  <2> QED
    BY <1>1, <1>2, <1>3, <1>4, <2>1, LostPeer DEF q
<1> QED
  BY <1>6, <1>7, <1>8, <1>9 DEF IInv, Wired

(* A peer that has got half a frame has a connection that failed. *)
LEMMA ReceiveHalfKeeps ==
  ASSUME IInv, NEW p \in Peers, ReceiveHalf(p)
  PROVE  IInv'
<1> DEFINE q == Other(p)
<1>1. /\ pc[p] = "receive" /\ network_connected[p] /\ line[p] = "reset" /\ pc' = [pc EXCEPT ![p] = "run"]
      /\ UNCHANGED <<network_connected, line, inbox, sync_trap, frames, suspended, skewed, lead>>
      /\ UNCHANGED <<frame_event_list, current_frame, frame_buffer_full, frame>>
  BY DEF ReceiveHalf, frames
<1>2. q \in Peers /\ q # p /\ \A x \in Peers : x = p \/ x = q
  BY TwoPeers
<1>3. TypeOK /\ Contents /\ Wired
  BY DEF IInv, Wired
<1> HIDE DEF q
<1>4. pc' \in [Peers -> {"run", "test", "receive"}] /\ pc'[p] = "run" /\ pc'[q] = pc[q]
  BY <1>1, <1>2, <1>3 DEF TypeOK
<1>5. TypeOK' /\ Contents'
  BY <1>1, <1>2, <1>3, <1>4 DEF TypeOK, Contents
<1>6. Connection'
  BY <1>1, <1>3, <1>4, ConnectedWires DEF q
<1>7. Session'
  <2>1. ~Live(p)' /\ (Live(q)' => Live(q))
    BY <1>1, <1>4 DEF Live
  <2> QED
    BY <1>1, <1>2, <1>4, <2>1, LostPeer DEF q
<1> QED
  BY <1>5, <1>6, <1>7 DEF IInv, Wired

(* A session is begun anew at one of the peers. *)
LEMMA ListInitialised ==
  ASSUME TypeOK, Contents, NEW p \in Peers, network_init_frame_event_list(p)
  PROVE  /\ pc' \in [Peers -> {"run", "test", "receive"}] /\ pc'[p] = "run"
         /\ sync_trap' \in [Peers -> BOOLEAN] /\ current_frame' \in [Peers -> Slots]
         /\ frame_buffer_full' \in [Peers -> BOOLEAN]
         /\ frame' \in [Peers -> 0 .. FrameModulus - 1]
         /\ frame_event_list' \in [Peers -> [Slots -> EventList]]
         /\ frame_event_list'[p] = EmptyList /\ ~frame_buffer_full'[p]
         /\ current_frame'[p] = 0 /\ frame'[p] = 0
         /\ \A q \in Peers : q # p =>
              UNCHANGED <<pc[q], frame_event_list[q], current_frame[q], frame_buffer_full[q], frame[q]>>
<1>1. 0 \in Slots /\ 0 \in 0 .. FrameModulus - 1
  BY DEF Slots, FrameModulus
<1> QED
  BY <1>1, EmptyIsList DEF network_init_frame_event_list, TypeOK, Contents

LEMMA TestFailsKeeps ==
  ASSUME IInv, NEW p \in Peers, TestFails(p)
  PROVE  IInv'
<1> DEFINE q == Other(p)
<1>1. /\ pc[p] = "test" /\ CannotReceive(p) /\ network_init_frame_event_list(p)
      /\ UNCHANGED <<network_connected, line, inbox, suspended, skewed, lead>>
  BY DEF TestFails
<1>2. q \in Peers /\ q # p /\ \A x \in Peers : x = p \/ x = q
  BY TwoPeers
<1>3. TypeOK /\ Contents /\ Wired
  BY DEF IInv, Wired
<1>4. /\ pc' \in [Peers -> {"run", "test", "receive"}] /\ pc'[p] = "run"
      /\ sync_trap' \in [Peers -> BOOLEAN] /\ current_frame' \in [Peers -> Slots]
      /\ frame_buffer_full' \in [Peers -> BOOLEAN]
      /\ frame' \in [Peers -> 0 .. FrameModulus - 1]
      /\ frame_event_list' \in [Peers -> [Slots -> EventList]]
      /\ frame_event_list'[p] = EmptyList
      /\ UNCHANGED <<pc[q], frame_event_list[q], current_frame[q], frame_buffer_full[q], frame[q]>>
  BY <1>1, <1>2, <1>3, ListInitialised
<1>5. network_connected[p] /\ line[p] = "reset"
  BY <1>1, <1>3 DEF CannotReceive, TypeOK
<1> HIDE DEF q
<1>6. TypeOK'
  BY <1>1, <1>2, <1>3, <1>4, <1>5 DEF TypeOK
<1>7. Contents'
  BY <1>1, <1>3, <1>4 DEF Contents
<1>8. Connection'
  <2>1. /\ line["server"] = "open" <=> line["client"] = "open"
        /\ line[p] = "reset" /\ line'["server"] # "open"
        /\ \A x \in Peers : pc'[x] = "test" => pc[x] = "test"
    BY <1>1, <1>2, <1>3, <1>4, <1>5 DEF Wired, Connection, Peers
  <2> QED
    BY <1>1, <1>3, <2>1 DEF Wired, Connection, Peers, Other
<1>9. Session'
  <2>1. ~Live(p)' /\ (Live(q)' => Live(q))
    BY <1>1, <1>4, <1>5 DEF Live
  <2> QED
    BY <1>1, <1>2, <1>4, <2>1, LostPeer DEF q
<1> QED
  BY <1>6, <1>7, <1>8, <1>9 DEF IInv, Wired

LEMMA BreakKeeps ==
  ASSUME IInv, Break
  PROVE  IInv'
<1>1. /\ line' = [x \in Peers |-> "reset"]
      /\ UNCHANGED <<network_connected, inbox, pc, sync_trap, frames, suspended, skewed, lead>>
      /\ UNCHANGED <<frame_event_list, current_frame, frame_buffer_full, frame>>
  BY DEF Break, frames
<1>2. TypeOK /\ Contents /\ Connection /\ Session
  BY DEF IInv, Wired
<1>3. TypeOK' /\ Contents' /\ Connection'
  BY <1>1, <1>2 DEF TypeOK, Contents, Connection, Peers, Other
<1>4. ASSUME NEW p \in Peers
      PROVE  /\ Live(p)' => Live(p)
             /\ Side(p) => Side(p)'
             /\ Even(p) => Even(p)'
             /\ Leads'
  <2>1. Live(p)' => Live(p)
    BY <1>1 DEF Live
  <2>2. /\ Frames(inbox[p])' = Frames(inbox[p]) /\ Mail(inbox[p])' = Mail(inbox[p])
        /\ Other(p) \in Peers
    BY <1>1, TwoPeers
  <2>3. Side(p) => Side(p)'
    BY <1>1, <2>2, SideKept
  <2>4. /\ Base(p)' = Base(p) /\ Base(Other(p))' = Base(Other(p)) /\ Depth(Other(p))' = Depth(Other(p))
        /\ \A o : Own(Other(p), o)' = Own(Other(p), o)
    BY <1>1, <2>2, OwnKept
  <2>5. Even(p) => Even(p)'
    BY <1>1, <2>2, <2>4, EvenKept
  <2> QED
    BY <1>1, <1>2, <2>1, <2>3, <2>5 DEF Session, Leads
<1> QED
  BY <1>2, <1>3, <1>4 DEF Session, IInv, Wired, Peers

LEMMA ConnectKeeps ==
  ASSUME IInv, Connect
  PROVE  IInv'
<1>1. /\ \A p \in Peers : pc[p] = "run" /\ ~network_connected[p]
      /\ network_connected' = [p \in Peers |-> TRUE]
      /\ line' = [p \in Peers |-> "open"]
      /\ pc' = [p \in Peers |-> "test"]
      /\ skewed' = FALSE /\ lead' = [p \in Peers |-> <<>>]
      /\ UNCHANGED <<inbox, sync_trap, suspended>>
      /\ UNCHANGED <<frame_event_list, current_frame, frame_buffer_full, frame>>
  BY DEF Connect, frames
<1>2. TypeOK /\ Contents /\ Connection
  BY DEF IInv, Wired
<1>3. \A p \in Peers : inbox'[p] = <<>>
  BY <1>1, <1>2 DEF Connection
<1>4. TypeOK' /\ Contents'
  <2>1. \A S : <<>> \in Seq(S)
    OBVIOUS
  <2>2. lead' \in [Peers -> Seq(EventList \X EventList)]
    BY <1>1, <2>1
  <2>3. TypeOK'
    BY <1>1, <1>2 DEF TypeOK
  <2> QED
    BY <1>1, <1>2, <2>2, <2>3 DEF Contents
<1>5. Connection'
  BY <1>1, <1>3 DEF Connection, Peers
<1>6. ASSUME NEW p \in Peers
      PROVE  Side(p)' /\ Even(p)' /\ lead'[p] = <<>>
  <2>1. Other(p) \in Peers
    BY TwoPeers
  <2>2. /\ \A x \in Peers : lead'[x] = <<>> /\ Len(lead'[x]) = 0 /\ pc'[x] = "test"
        /\ \A x \in Peers : Frames(inbox'[x]) = 0 /\ Mail(inbox'[x]) = {}
    BY <1>1, <1>3, NoMail
  <2>3. Depth(p)' = 0 /\ Base(p)' = 0 /\ Depth(Other(p))' = 0 /\ Base(Other(p))' = 0
    BY <2>1, <2>2 DEF Depth, Base, Other
  <2>4. Side(p)'
    <3>1. Mail(inbox[p])' = {} /\ Frames(inbox[p])' = 0
      BY <2>2
    <3>2. Right(p)' /\ Repeats(p)'
      BY <2>2, <3>1 DEF Right, Repeats
    <3>3. /\ pc'[p] = "test" /\ lead'[p] = <<>> /\ Len(lead[p])' = 0 /\ Len(lead[Other(p)])' = 0
      BY <2>1, <2>2 DEF Other
    <3> QED
      BY <2>3, <3>1, <3>2, <3>3 DEF Side
  <2>5. Even(p)'
    BY <2>1, <2>2, <2>3 DEF Even, Echoes, Other, Plus
  <2> QED
    BY <2>2, <2>4, <2>5
<1>7. Session'
  BY <1>6 DEF Session, Leads, Peers
<1> QED
  BY <1>4, <1>5, <1>7 DEF IInv, Wired
-----------------------------------------------------------------------------
(* Steps of a peer that emulates: it records an event of its own frame.      *)

LEMMA DatedAppend ==
  ASSUME NEW s \in EventList, NEW e \in Event, NEW n, Dated(s, n),
         e.type = "SYNC_TEST" => e = [type |-> "SYNC_TEST", registers |-> <<n, FALSE>>]
  PROVE  Dated(Append(s, e), n)
<1> DEFINE t == Append(s, e)
<1>1. /\ \A k \in DOMAIN t : k \in DOMAIN s \/ k = Len(s) + 1
      /\ \A k \in DOMAIN s : t[k] = s[k]
      /\ t[Len(s) + 1] = e
  BY DEF EventList
<1> HIDE DEF t
<1>2. Dated(t, n)
  BY <1>1 DEF Dated
<1> QED
  BY <1>2 DEF t

(* The offset at the other peer of a frame that waits. *)
LEMMA EchoRange ==
  ASSUME NEW k \in Nat, NEW n \in Nat, NEW mine \in Nat, NEW theirs \in Nat, NEW sent \in Nat,
         k \in 1 .. n, k > theirs, n + mine = sent + theirs
  PROVE  k - 1 + mine - theirs \in 0 .. sent - 1
OBVIOUS

LEMMA RecordKeeps ==
  ASSUME IInv, NEW p \in Peers, NEW e \in Event, Record(p, e), pc[p] = "run", network_connected[p],
         UNCHANGED <<network_connected, line, inbox, pc, current_frame, frame_buffer_full, frame,
                     suspended, lead>>,
         sync_trap' \in [Peers -> BOOLEAN], skewed' \in BOOLEAN, skewed => skewed',
         ~skewed' /\ e.type = "SYNC_TEST" =>
           e = [type |-> "SYNC_TEST", registers |-> <<frame[p], FALSE>>]
  PROVE  IInv'
<1> DEFINE q == Other(p)
<1>1. /\ q \in Peers /\ q # p /\ Other(q) = p /\ Other(p) = q /\ \A x \in Peers : x = p \/ x = q
      /\ TypeOK /\ Contents /\ Wired
  BY TwoPeers DEF IInv, Wired
<1> HIDE DEF q
<1>2. /\ Offset(p)' = Offset(p) /\ Depth(p)' = Depth(p) /\ Base(p)' = Base(p)
      /\ \A o \in 0 .. Offset(p) - 1 : Own(p, o)' = Own(p, o)
      /\ \A o : o = Offset(p) => Own(p, o)' = Append(Own(p, o), e)
      /\ frame_event_list' \in [Peers -> [Slots -> EventList]]
      /\ frame_event_list'[q] = frame_event_list[q]
  BY <1>1, OwnRecorded
<1>3. /\ Offset(p) \in Nat /\ Depth(p) = Offset(p) /\ Own(p, Offset(p)) \in EventList
      /\ Numbered(p) => frame[p] = Plus(Base(p), Offset(p))
  BY <1>1, SlotRange DEF Depth
<1>4. TypeOK'
  BY <1>1, <1>2 DEF TypeOK
<1>5. Contents'
  BY <1>1, <1>2 DEF Contents
<1>6. Connection'
  BY <1>1, ConnectedWires
<1>7. /\ lead[p] = <<>> \/ lead[q] = <<>>
      /\ Live(p) => Side(p)
      /\ Live(q) => Side(q)
      /\ Live(p) /\ Live(q) => Even(p) /\ Even(q)
  BY <1>1, SessionOfTwo DEF IInv
<1>8. (Live(p)' <=> Live(p)) /\ (Live(q)' <=> Live(q))
  BY DEF Live
<1>9. /\ Len(lead[p]) \in Nat /\ Len(lead[q]) \in Nat
      /\ inbox[p] \in Seq(Message) /\ inbox[q] \in Seq(Message)
      /\ Frames(inbox[q]) \in Nat
  BY <1>1, LeadRange
<1>10. /\ Frames(inbox[p])' = Frames(inbox[p]) /\ Mail(inbox[p])' = Mail(inbox[p])
       /\ Frames(inbox[q])' = Frames(inbox[q]) /\ Mail(inbox[q])' = Mail(inbox[q])
       /\ Other(p)' = Other(p)
  BY DEF Other
<1>11. ASSUME Side(p) PROVE Side(p)'
  <2>1. Repeats(p)'
    <3>1. SUFFICES ASSUME NEW m \in Mail(inbox[p]), m[1] <= Len(lead[q])
                   PROVE  lead[q][m[1]] = Pair(p, Own(p, m[1] - 1)', m[2])
      BY <1>1, <1>10 DEF Repeats, Pair
    <3>2. m[1] - 1 \in 0 .. Offset(p) - 1
      BY <1>1, <1>3, <1>9, <1>11, <3>1, MailRange DEF Side
    <3>3. Own(p, m[1] - 1)' = Own(p, m[1] - 1)
      BY <1>2, <3>2
    <3> QED
      BY <1>1, <1>11, <3>1, <3>3 DEF Side, Repeats
  <2>2. ASSUME ~skewed' PROVE Right(p)'
    <3>1. Right(p) /\ pc[p] # "test" /\ Numbered(p)
      BY <1>11, <2>2 DEF Side
    <3>2. \A n : Plus(Base(p), n)' = Plus(Base(p), n)
      BY <1>2 DEF Plus
    <3>3. \A m \in Mail(inbox[p])' : Dated(m[2], Plus(Base(p), m[1] - 1))'
      <4>1. SUFFICES ASSUME NEW m \in Mail(inbox[p]) PROVE Dated(m[2], Plus(Base(p), m[1] - 1))'
        BY <1>10
      <4>2. Dated(m[2], Plus(Base(p), m[1] - 1))
        BY <3>1 DEF Right
      <4>3. Plus(Base(p), m[1] - 1)' = Plus(Base(p), m[1] - 1)
        BY <3>2
      <4> QED
        BY <4>2, <4>3 DEF Dated
    <3>4. ASSUME NEW o \in 0 .. Offset(p) PROVE Dated(Own(p, o), Plus(Base(p), o))'
      <4>1. Dated(Own(p, o), Plus(Base(p), o))
        BY <3>1 DEF Right
      <4>2. CASE o = Offset(p)
        <5>1. Own(p, o)' = Append(Own(p, o), e) /\ Own(p, o) \in EventList
          BY <1>2, <1>3, <4>2
        <5>2. frame[p] = Plus(Base(p), o)
          BY <1>3, <3>1, <4>2
        <5>3. Dated(Append(Own(p, o), e), Plus(Base(p), o))
          BY <2>2, <4>1, <5>1, <5>2, DatedAppend
        <5> QED
          BY <3>2, <5>1, <5>3 DEF Dated
      <4>3. CASE o # Offset(p)
        <5>1. o \in 0 .. Offset(p) - 1
          BY <1>3, <4>3
        <5>2. Own(p, o)' = Own(p, o)
          BY <1>2, <5>1
        <5> QED
          BY <3>2, <4>1, <5>2 DEF Dated
      <4> QED
        BY <4>2, <4>3
    <3>5. \A o \in 0 .. Offset(p)' : Dated(Own(p, o), Plus(Base(p), o))'
      BY <1>2, <3>4
    <3> QED
      BY <3>3, <3>5 DEF Right
  <2>3. Numbered(p)' <=> Numbered(p)
    BY DEF Numbered
  <2> QED
    BY <1>2, <1>10, <1>11, <2>1, <2>2, <2>3 DEF Side
<1>12. Side(q) => Side(q)'
  BY <1>1, <1>2, <1>10, SideKept
<1>13. /\ Base(q)' = Base(q) /\ Depth(q)' = Depth(q) /\ \A o : Own(q, o)' = Own(q, o)
  BY <1>1, <1>2, OwnKept
<1>14. Even(p) => Even(p)'
  BY <1>1, <1>2, <1>10, <1>13, EvenKept
<1>15. Even(q) => Even(q)'
  <2>1. SUFFICES ASSUME Even(q) PROVE Even(q)'
    OBVIOUS
  <2>2. ASSUME NEW m \in Mail(inbox[q]), m[1] > Len(lead[p]),
               NEW o, o = m[1] - 1 + Len(lead[q]) - Len(lead[p])
        PROVE  Own(p, o)' = Own(p, o)
    <3>1. o \in 0 .. Offset(p) - 1
      <4>1. m[1] \in 1 .. Frames(inbox[q])
        BY <1>9, MailRange
      <4>2. Frames(inbox[q]) + Len(lead[q]) = Offset(p) + Len(lead[p])
        BY <1>1, <1>3, <2>1 DEF Even
      <4>3. /\ m[1] \in Nat /\ Frames(inbox[q]) \in Nat /\ Offset(p) \in Nat
            /\ Len(lead[p]) \in Nat /\ Len(lead[q]) \in Nat
        BY <1>3, <1>9, <4>1
      <4>4. m[1] - 1 + Len(lead[q]) - Len(lead[p]) \in 0 .. Offset(p) - 1
        BY <2>2, <4>1, <4>2, <4>3, EchoRange
      <4> QED
        BY <2>2, <4>4
    <3> QED
      BY <1>2, <3>1
  <2> QED
    BY <1>1, <1>2, <1>10, <1>13, <2>1, <2>2, EvenKept
<1>16. Session'
  BY <1>1, <1>7, <1>8, <1>11, <1>12, <1>14, <1>15, SessionOfTwoNext
<1> QED
  BY <1>4, <1>5, <1>6, <1>16 DEF IInv, Wired

LEMMA SyncTestKeeps ==
  ASSUME IInv, NEW p \in Peers, network_event_record_sync_test(p)
  PROVE  IInv'
<1>1. /\ pc[p] = "run" /\ sync_trap' = [sync_trap EXCEPT ![p] = FALSE]
      /\ UNCHANGED <<network_connected, line, inbox, pc, current_frame, frame_buffer_full, frame,
                     suspended, lead>>
  BY DEF network_event_record_sync_test
<1>2. TypeOK /\ Contents /\ Connection /\ Session
  BY DEF IInv, Wired
<1>3. sync_trap' \in [Peers -> BOOLEAN]
  BY <1>1, <1>2 DEF TypeOK
<1>4. CASE network_connected[p]
  <2>1. PICK differ \in IF p = "client" THEN {skewed, TRUE} ELSE {skewed} :
          /\ skewed' = differ
          /\ Record(p, [type |-> "SYNC_TEST", registers |-> <<frame[p], differ /\ p = "client">>])
    BY <1>4 DEF network_event_record_sync_test
  <2> DEFINE e == [type |-> "SYNC_TEST", registers |-> <<frame[p], differ /\ p = "client">>]
  <2>2. differ \in BOOLEAN /\ (skewed => differ)
    BY <1>2, <2>1 DEF TypeOK
  <2>3. frame[p] \in 0 .. FrameModulus - 1 /\ (differ /\ p = "client") \in BOOLEAN
    BY <1>2, <2>2 DEF TypeOK
  <2>4. e \in Event
    <3>1. \A n \in 0 .. FrameModulus - 1, d \in BOOLEAN :
            [type |-> "SYNC_TEST", registers |-> <<n, d>>] \in Event
      BY DEF Event
    <3> QED
      BY Zenon, <2>3, <3>1
  <2>5. ~differ => e = [type |-> "SYNC_TEST", registers |-> <<frame[p], FALSE>>]
    OBVIOUS
  <2> HIDE DEF e
  <2>6. Record(p, e)
    BY <2>1 DEF e
  <2> QED
    BY <1>1, <1>3, <1>4, <2>1, <2>2, <2>4, <2>5, <2>6, RecordKeeps
<1>5. CASE ~network_connected[p]
  <2>1. UNCHANGED <<frame_event_list, skewed>>
    BY <1>5 DEF network_event_record_sync_test
  <2>2. TypeOK' /\ Contents' /\ Connection'
    BY <1>1, <1>2, <1>3, <2>1 DEF TypeOK, Contents, Connection
  <2>3. ~Live(p)' /\ (Live(Other(p))' => Live(Other(p)))
    BY <1>1, <1>5 DEF Live
  <2>4. Session'
    BY <1>1, <2>1, <2>3, TwoPeers, LostPeer
  <2> QED
    BY <2>2, <2>4 DEF IInv, Wired
<1> QED
  BY <1>4, <1>5

LEMMA EventKeeps ==
  ASSUME IInv, NEW p \in Peers, network_event_record(p)
  PROVE  IInv'
<1>1. KeyPressed \in Event /\ KeyPressed.type # "SYNC_TEST"
  BY DEF Event, KeyPressed
<1>2. sync_trap \in [Peers -> BOOLEAN] /\ skewed \in BOOLEAN
  BY DEF IInv, Wired, TypeOK
<1> QED
  BY <1>1, <1>2, RecordKeeps DEF network_event_record

-----------------------------------------------------------------------------
(* Messages that are no frames.                                              *)

LEMMA SessionKept ==
  ASSUME IInv,
         UNCHANGED <<network_connected, line, pc, frame_event_list, current_frame, frame_buffer_full,
                     frame, skewed, lead>>,
         \A x \in Peers : /\ Frames(inbox[x])' = Frames(inbox[x])
                          /\ Mail(inbox[x])' \in SUBSET Mail(inbox[x])
  PROVE  Session'
<1>1. Session
  BY DEF IInv
<1>2. ASSUME NEW p \in Peers
      PROVE  /\ Live(p)' <=> Live(p)
             /\ Side(p) => Side(p)'
             /\ Even(p) => Even(p)'
  <2>1. Live(p)' <=> Live(p)
    BY DEF Live
  <2>2. Side(p) => Side(p)'
    BY SideKept
  <2>3. /\ Other(p) \in Peers
        /\ Base(p)' = Base(p) /\ Base(Other(p))' = Base(Other(p)) /\ Depth(Other(p))' = Depth(Other(p))
        /\ \A o : Own(Other(p), o)' = Own(Other(p), o)
    BY TwoPeers, OwnKept
  <2>4. Even(p) => Even(p)'
    BY <2>3, EvenKept
  <2> QED
    BY <2>1, <2>2, <2>4
<1>3. Leads'
  BY <1>1 DEF Session, Leads
<1> QED
  BY <1>1, <1>2, <1>3 DEF Session

LEMMA SuspendKeeps ==
  ASSUME IInv, NEW p \in Peers, network_suspend(p)
  PROVE  IInv'
<1> DEFINE q == Other(p)
           m == [kind |-> "suspend"]
<1>1. /\ pc[p] = "run" /\ network_connected[p] /\ suspended' = [suspended EXCEPT ![p] = TRUE]
      /\ inbox' = Sent(p, m)
      /\ UNCHANGED <<network_connected, line, pc, sync_trap, skewed, lead>>
      /\ UNCHANGED <<frame_event_list, current_frame, frame_buffer_full, frame>>
  BY DEF network_suspend, frames
<1>2. /\ q \in Peers /\ q = Other(p) /\ \A x \in Peers : x = p \/ x = q
      /\ TypeOK /\ Contents /\ Wired
  BY TwoPeers DEF IInv, Wired
<1>3. m \in Message /\ ~IsFrame(m)
  BY DEF Message, IsFrame
<1> HIDE DEF q, m
<1>4. /\ inbox' \in [Peers -> Seq(Message)] /\ inbox'[p] = inbox[p]
      /\ inbox'[q] = IF line[p] = "open" THEN Append(inbox[q], m) ELSE inbox[q]
  BY <1>1, <1>2, <1>3, SentTo
<1>5. TypeOK' /\ Contents'
  BY <1>1, <1>2, <1>4 DEF TypeOK, Contents
<1>6. Connection'
  BY <1>1, <1>2, <1>3, <1>4, ConnectedWires
<1>7. \A x \in Peers : /\ Frames(inbox[x])' = Frames(inbox[x])
                       /\ Mail(inbox[x])' \in SUBSET Mail(inbox[x])
  <2>1. /\ Frames(Append(inbox[q], m)) = Frames(inbox[q])
        /\ Mail(Append(inbox[q], m)) = Mail(inbox[q])
    BY <1>2, <1>3, MailAppended DEF Contents
  <2>2. Frames(inbox'[q]) = Frames(inbox[q]) /\ Mail(inbox'[q]) = Mail(inbox[q])
    BY <1>4, <2>1
  <2>3. Frames(inbox'[p]) = Frames(inbox[p]) /\ Mail(inbox'[p]) = Mail(inbox[p])
    BY <1>4
  <2> QED
    BY <1>2, <2>2, <2>3
<1>8. Session'
  BY <1>1, <1>7, SessionKept
<1> QED
  BY <1>5, <1>6, <1>8 DEF IInv, Wired

LEMMA ReceiveSuspendKeeps ==
  ASSUME IInv, NEW p \in Peers, ReceiveSuspend(p)
  PROVE  IInv'
<1> DEFINE q == Other(p)
<1>1. /\ pc[p] = "receive" /\ inbox[p] # <<>> /\ Head(inbox[p]).kind = "suspend"
      /\ inbox' = [inbox EXCEPT ![p] = Tail(@)] /\ suspended' = [suspended EXCEPT ![p] = TRUE]
      /\ UNCHANGED <<network_connected, line, pc, sync_trap, skewed, lead>>
      /\ UNCHANGED <<frame_event_list, current_frame, frame_buffer_full, frame>>
  BY DEF ReceiveSuspend, frames
<1>2. /\ q \in Peers /\ q = Other(p) /\ \A x \in Peers : x = p \/ x = q
      /\ TypeOK /\ Contents /\ Wired
  BY TwoPeers DEF IInv, Wired
<1> HIDE DEF q
<1>3. network_connected[p] /\ ~IsFrame(Head(inbox[p]))
  BY <1>1, <1>2 DEF Wired, Connection, IsFrame
<1>4. /\ inbox' \in [Peers -> Seq(Message)] /\ inbox'[p] = Tail(inbox[p]) /\ inbox'[q] = inbox[q]
  BY <1>1, <1>2, ReceivedBy
<1>5. TypeOK' /\ Contents'
  BY <1>1, <1>2, <1>4 DEF TypeOK, Contents
<1>6. Connection'
  BY <1>1, <1>2, <1>3, <1>4, ConnectedWires
<1>7. \A x \in Peers : /\ Frames(inbox[x])' = Frames(inbox[x])
                       /\ Mail(inbox[x])' \in SUBSET Mail(inbox[x])
  <2>1. /\ Frames(Tail(inbox[p])) = Frames(inbox[p])
        /\ Mail(Tail(inbox[p])) \in SUBSET Mail(inbox[p])
    BY <1>1, <1>2, <1>3, MailReceived DEF Contents
  <2>2. Frames(inbox'[p]) = Frames(inbox[p]) /\ Mail(inbox'[p]) \in SUBSET Mail(inbox[p])
    BY <1>4, <2>1
  <2>3. Frames(inbox'[q]) = Frames(inbox[q]) /\ Mail(inbox'[q]) = Mail(inbox[q])
    BY <1>4
  <2> QED
    BY <1>2, <2>2, <2>3
<1>8. Session'
  BY <1>1, <1>7, SessionKept
<1> QED
  BY <1>5, <1>6, <1>8 DEF IInv, Wired

-----------------------------------------------------------------------------
(* A frame is sent.                                                          *)

LEMMA PlusShift ==
  ASSUME NEW a \in 0 .. FrameModulus - 1, NEW b \in 0 .. FrameModulus - 1,
         NEW x \in Nat, NEW y \in Nat, NEW i \in Nat, NEW j \in Nat,
         Plus(a, x) = Plus(b, y), i + y = j + x, x <= i,
         i <= FrameModulus, j <= FrameModulus
  PROVE  Plus(a, i) = Plus(b, j)
BY DEF Plus, FrameModulus

(* What the frame that was sent adds to the bounds of the two leads. *)
LEMMA SentBounds ==
  ASSUME NEW n \in Nat, NEW mine \in Nat, NEW theirs \in Nat, NEW depth \in Nat, NEW limit \in Nat,
         n + mine = depth + theirs, mine <= depth, depth < limit, theirs <= limit,
         mine = 0 \/ theirs = 0
  PROVE  /\ n + 1 + mine <= limit + theirs
         /\ theirs < n + 1
         /\ n - theirs \in Nat /\ theirs + (n - theirs) = n /\ mine + (n - theirs) = depth
         /\ n <= 2 * limit
OBVIOUS

(* The sender has numbered the frame as the receiver will. *)
LEMMA HookSender ==
  ASSUME IInv, NEW p \in Peers, Side(p), pc[p] = "run", Sends(p),
         frame_event_list' = IF Fills(p) THEN frame_event_list ELSE Prepared(p),
         UNCHANGED <<inbox[p], skewed, lead>>
  PROVE  Side(p)'
<1> DEFINE q == Other(p)
<1>1. TypeOK /\ Contents /\ q \in Peers
  BY TwoPeers DEF IInv, Wired
<1>2. Numbered(p)
  BY DEF Side
<1>3. /\ Depth(p) = Offset(p) /\ Depth(p)' = Depth(p) + 1 /\ Base(p)' = Base(p)
      /\ Numbered(p)' /\ pc'[p] \in {"run", "receive"}
      /\ pc'[p] = "receive" => frame_buffer_full'[p]
      /\ frame_buffer_full[p] => frame_buffer_full'[p]
      /\ \A o \in 0 .. Offset(p) : Own(p, o)' = Own(p, o)
      /\ Offset(p)' \in {Offset(p), Offset(p) + 1}
      /\ \A o : Offset(p)' = Offset(p) + 1 /\ o = Offset(p) + 1 => Own(p, o)' = <<>>
  BY <1>1, <1>2, OwnSent
<1>4. /\ Offset(p) \in Nat /\ Len(lead[q]) \in Nat /\ inbox[p] \in Seq(Message)
      /\ Frames(inbox[p]) \in Nat
  BY <1>1, SlotRange, LeadRange
<1>5. Mail(inbox[p])' = Mail(inbox[p]) /\ Frames(inbox[p])' = Frames(inbox[p]) /\ q' = q
  BY DEF Other
<1>6. Repeats(p)'
  <2>1. SUFFICES ASSUME NEW m \in Mail(inbox[p]), m[1] <= Len(lead[q])
                 PROVE  lead[q][m[1]] = Pair(p, Own(p, m[1] - 1)', m[2])
    BY <1>5 DEF Repeats, Pair
  <2>2. m[1] \in 1 .. Frames(inbox[p]) /\ Len(lead[q]) <= Offset(p)
    BY <1>3, <1>4, MailRange DEF Side
  <2>3. m[1] - 1 \in 0 .. Offset(p)
    BY <1>4, <2>1, <2>2
  <2>4. Own(p, m[1] - 1)' = Own(p, m[1] - 1)
    BY <1>3, <2>3
  <2> QED
    BY <2>1, <2>4 DEF Side, Repeats
<1>7. ASSUME ~skewed' PROVE Right(p)'
  <2>1. Right(p) /\ \A k : Plus(Base(p), k)' = Plus(Base(p), k)
    BY <1>3, <1>7 DEF Side, Plus
  <2>2. ASSUME NEW m \in Mail(inbox[p]) PROVE Dated(m[2], Plus(Base(p), m[1] - 1))'
    <3>1. Dated(m[2], Plus(Base(p), m[1] - 1))
      BY <2>1 DEF Right
    <3>2. Plus(Base(p), m[1] - 1)' = Plus(Base(p), m[1] - 1)
      BY <2>1
    <3> QED
      BY <3>1, <3>2 DEF Dated
  <2>3. ASSUME NEW o \in 0 .. Offset(p)' PROVE Dated(Own(p, o), Plus(Base(p), o))'
    <3>1. o \in 0 .. Offset(p) \/ (Offset(p)' = Offset(p) + 1 /\ o = Offset(p) + 1)
      BY <1>3, <1>4
    <3>2. CASE o \in 0 .. Offset(p)
      <4>1. Dated(Own(p, o), Plus(Base(p), o))
        BY <2>1, <3>2 DEF Right
      <4>2. Own(p, o)' = Own(p, o) /\ Plus(Base(p), o)' = Plus(Base(p), o)
        BY <1>3, <2>1, <3>2
      <4> QED
        BY <4>1, <4>2 DEF Dated
    <3>3. CASE Offset(p)' = Offset(p) + 1 /\ o = Offset(p) + 1
      <4>1. Own(p, o)' = <<>>
        BY <1>3, <3>3
      <4> QED
        BY <4>1 DEF Dated
    <3> QED
      BY <3>1, <3>2, <3>3
  <2> QED
    BY <1>5, <2>2, <2>3 DEF Right
<1>8. /\ pc'[p] # "test" => Numbered(p)'
      /\ pc'[p] = "receive" => frame_buffer_full'[p]
      /\ pc'[p] = "test" \/ ~frame_buffer_full'[p] => lead'[p] = <<>>
  BY <1>3 DEF Side
<1>9. Len(lead[q]) <= Depth(p)'
  BY <1>3, <1>4 DEF Side
<1> QED
  BY <1>5, <1>6, <1>7, <1>8, <1>9 DEF Side

(* The receiver has one more frame, which is the next one that it lacks. *)
LEMMA HookReceiver ==
  ASSUME IInv, NEW p \in Peers, NEW q \in Peers, q = Other(p), Live(p), Live(q),
         pc[p] = "run", Sends(p),
         frame_event_list' = IF Fills(p) THEN frame_event_list ELSE Prepared(p),
         inbox[p]' = inbox[p],
         Frames(inbox[q])' = Frames(inbox[q]) + 1,
         Mail(inbox[q])' = Mail(inbox[q]) \cup {<<Frames(inbox[q]) + 1, Own(p, Offset(p))>>},
         UNCHANGED <<skewed, lead>>
  PROVE  Side(q)' /\ Even(q)' /\ Even(p)'
<1> DEFINE l == Own(p, Offset(p))
           n == Frames(inbox[q])
           x == Len(lead[p])
           y == Len(lead[q])
<1>1. /\ TypeOK /\ Contents /\ Other(q) = p /\ p # q
      /\ Side(p) /\ Side(q) /\ Even(p) /\ Even(q)
      /\ lead[p] = <<>> \/ lead[q] = <<>>
  BY TwoPeers, SessionOfTwo DEF IInv, Wired
<1>2. Numbered(p) /\ pc[p] # "test"
  BY <1>1 DEF Side
<1>3. /\ Depth(p) = Offset(p) /\ Depth(p)' = Depth(p) + 1 /\ Base(p)' = Base(p)
      /\ \A o \in 0 .. Offset(p) : Own(p, o)' = Own(p, o)
      /\ UNCHANGED <<pc[q], frame_event_list[q], current_frame[q], frame_buffer_full[q], frame[q]>>
  BY <1>1, <1>2, OwnSent
<1>4. /\ Base(q)' = Base(q) /\ Depth(q)' = Depth(q) /\ Offset(q)' = Offset(q)
      /\ \A o : Own(q, o)' = Own(q, o)
      /\ Numbered(q)' <=> Numbered(q)
  BY <1>3, OwnKept
<1>5. /\ Offset(p) \in Nat /\ Offset(p) < FrameDelta /\ Offset(q) \in 0 .. FrameDelta - 1
      /\ Base(p) \in 0 .. FrameModulus - 1 /\ Base(q) \in 0 .. FrameModulus - 1
      /\ x \in Nat /\ y \in Nat /\ n \in Nat
      /\ x = 0 \/ y = 0
  BY <1>1, SlotRange, LeadRange
<1>51. l \in EventList /\ inbox[q] \in Seq(Message)
  BY <1>1, SlotRange, LeadRange
<1>6. Frames(inbox[q])' = n + 1 /\ Mail(inbox[q])' = Mail(inbox[q]) \cup {<<n + 1, l>>}
  OBVIOUS
<1> HIDE DEF l, n, x, y
<1>7. /\ n + y = Offset(p) + x
      /\ y <= Offset(p) /\ x <= Depth(q)
  BY <1>1, <1>3 DEF Even, Side, n, x, y
<1>8. Depth(q) <= FrameDelta
  BY <1>5 DEF Depth
<1>9. /\ n + 1 + y <= FrameDelta + x
      /\ x < n + 1
      /\ n - x \in Nat
      /\ x + (n - x) = n /\ y + (n - x) = Offset(p)
      /\ n <= FrameModulus
  <2>1. Depth(q) \in Nat
    BY <1>5 DEF Depth
  <2>2. FrameDelta \in Nat /\ x <= FrameDelta
    BY <1>5, <1>7, <1>8, <2>1
  <2> QED
    BY <1>5, <1>7, <2>2, SentBounds DEF FrameModulus
<1>10. /\ Other(q)' = p /\ Other(p)' = q
       /\ \A k : Plus(Base(q), k)' = Plus(Base(q), k) /\ Plus(Base(p), k)' = Plus(Base(p), k)
       /\ Plus(Base(q), x) = Plus(Base(p), y)
       /\ Len(lead[p])' = x /\ Len(lead[q])' = y
  BY <1>1, <1>3, <1>4 DEF Plus, Other, Even, x, y
<1>11. Side(q)'
  <2>1. Repeats(q)'
    <3>1. SUFFICES ASSUME NEW m \in Mail(inbox[q]) \cup {<<n + 1, l>>}, m[1] <= x
                   PROVE  lead[p][m[1]] = Pair(q, Own(q, m[1] - 1), m[2])
      BY <1>4, <1>6, <1>10 DEF Repeats, Pair, n
    <3>2. m # <<n + 1, l>>
      BY <1>5, <1>9, <3>1
    <3> QED
      BY <1>1, <3>1, <3>2 DEF Side, Repeats, x
  <2>2. ASSUME ~skewed' PROVE Right(q)'
    <3>1. Right(q) /\ Right(p)
      BY <1>1, <2>2 DEF Side
    <3>2. ASSUME NEW m \in Mail(inbox[q]) \cup {<<n + 1, l>>}
          PROVE  Dated(m[2], Plus(Base(q), m[1] - 1))'
      <4>1. Dated(m[2], Plus(Base(q), m[1] - 1))
        <5>1. CASE m \in Mail(inbox[q])
          BY <3>1, <5>1 DEF Right
        <5>2. CASE m = <<n + 1, l>>
          <6>1. Plus(Base(q), n) = Plus(Base(p), Offset(p))
            <7>1. Plus(Base(q), x) = Plus(Base(p), y)
              BY <1>10
            <7>2. n + y = Offset(p) + x /\ x <= n /\ n <= FrameModulus /\ Offset(p) <= FrameModulus
              BY <1>5, <1>7, <1>9 DEF FrameModulus
            <7> QED
              BY <1>5, <7>1, <7>2, PlusShift
          <6>2. Dated(l, Plus(Base(p), Offset(p)))
            BY <1>2, <1>5, <3>1 DEF Right, l
          <6>3. m[2] = l /\ m[1] - 1 = n
            BY <1>5, <5>2
          <6> QED
            BY <6>1, <6>2, <6>3
        <5> QED
          BY <5>1, <5>2
      <4>2. Plus(Base(q), m[1] - 1)' = Plus(Base(q), m[1] - 1)
        BY <1>10
      <4> QED
        BY <4>1, <4>2 DEF Dated
    <3>3. ASSUME pc[q] # "test", NEW o \in 0 .. Offset(q) PROVE Dated(Own(q, o), Plus(Base(q), o))'
      <4>1. Dated(Own(q, o), Plus(Base(q), o))
        BY <3>1, <3>3 DEF Right
      <4>2. Own(q, o)' = Own(q, o) /\ Plus(Base(q), o)' = Plus(Base(q), o)
        BY <1>4, <1>10
      <4> QED
        BY <4>1, <4>2 DEF Dated
    <3>4. pc[q]' = pc[q] /\ Offset(q)' = Offset(q)
      BY <1>3, <1>4
    <3> QED
      BY <1>6, <3>2, <3>3, <3>4 DEF Right, n
  <2>3. /\ pc'[q] # "test" => Numbered(q)'
        /\ pc'[q] = "receive" => frame_buffer_full'[q]
        /\ pc'[q] = "test" \/ ~frame_buffer_full'[q] => lead'[q] = <<>>
        /\ Len(lead[p])' <= Depth(q)'
    BY <1>1, <1>3, <1>4 DEF Side
  <2> QED
    BY <1>6, <1>9, <1>10, <2>1, <2>2, <2>3 DEF Side, n
<1>12. Even(q)'
  <2>1. Echoes(q)'
    <3>1. SUFFICES ASSUME NEW m \in Mail(inbox[q]) \cup {<<n + 1, l>>}, m[1] > x
                   PROVE  m[2] = Own(p, m[1] - 1 + Len(lead[q]) - Len(lead[p]))'
      BY <1>6, <1>10 DEF Echoes, n
    <3> DEFINE o == m[1] - 1 + y - x
    <3>2. o \in 0 .. Offset(p) /\ m[2] = Own(p, o)
      <4>1. CASE m \in Mail(inbox[q])
        <5>1. m[1] \in 1 .. n
          BY <1>51, <4>1, MailRange DEF n
        <5>2. m[1] \in Nat /\ Offset(p) \in Nat
          BY <1>5, <5>1
        <5>3. o \in 0 .. Offset(p) - 1
          BY <1>5, <1>7, <3>1, <5>1, <5>2, EchoRange
        <5>4. m[2] = Own(p, o)
          BY <1>1, <3>1, <4>1 DEF Even, Echoes, x, y
        <5> QED
          BY <1>5, <5>3, <5>4
      <4>2. CASE m = <<n + 1, l>>
        <5>1. m[1] = n + 1 /\ m[2] = l
          BY <4>2
        <5>2. o = Offset(p)
          BY <1>5, <1>7, <5>1
        <5> QED
          BY <1>5, <5>1, <5>2 DEF l
      <4> QED
        BY <4>1, <4>2
    <3>3. \A k : k = o => Own(p, k)' = Own(p, k)
      BY <1>3, <3>2
    <3>4. \A k : k = o => Own(p, k)' = Own(p, m[1] - 1 + Len(lead[q]) - Len(lead[p]))'
      BY <1>10 DEF Own, Slot
    <3> QED
      BY <3>2, <3>3, <3>4
  <2> QED
    BY <1>3, <1>5, <1>6, <1>7, <1>10, <2>1 DEF Even, n
<1>13. Even(p)'
  <2>1. Frames(inbox[p])' = Frames(inbox[p]) /\ Mail(inbox[p])' = Mail(inbox[p])
    OBVIOUS
  <2> QED
    BY <1>1, <1>3, <1>4, <2>1, EvenKept
<1> QED
  BY <1>11, <1>12, <1>13

LEMMA HookKeeps ==
  ASSUME IInv, NEW p \in Peers, network_hook(p)
  PROVE  IInv'
<1> DEFINE q == Other(p)
           m == [kind |-> "frame", list |-> frame_event_list[p][current_frame[p]]]
<1>1. /\ pc[p] = "run" /\ network_connected[p] /\ line[p] # "reset" /\ Sends(p)
      /\ inbox' = Sent(p, m)
      /\ frame_event_list' = IF Fills(p) THEN frame_event_list ELSE Prepared(p)
      /\ UNCHANGED <<network_connected, line, skewed, lead>>
  BY DEF network_hook, HookDue, CanSend
<1>2. /\ q \in Peers /\ q # p /\ q = Other(p) /\ Other(q) = p /\ \A x \in Peers : x = p \/ x = q
      /\ TypeOK /\ Contents /\ Wired
  BY TwoPeers DEF IInv, Wired
<1>3. /\ lead[p] = <<>> \/ lead[q] = <<>>
      /\ Live(p) => Side(p)
      /\ Live(q) => Side(q)
  BY <1>2, SessionOfTwo DEF IInv
<1>4. Live(p) /\ Side(p) /\ Numbered(p)
  BY <1>1, <1>3 DEF Live, Side
<1>5. Own(p, Offset(p)) \in EventList /\ frame_event_list[p][current_frame[p]] = Own(p, Offset(p))
  BY <1>2, SlotRange DEF Own
<1>6. m \in Message /\ IsFrame(m) /\ m.list = Own(p, Offset(p))
  BY <1>5 DEF Message, IsFrame
<1> HIDE DEF q, m
<1>7. /\ frame_event_list' \in [Peers -> [Slots -> EventList]]
      /\ UNCHANGED <<pc[q], frame_event_list[q], current_frame[q], frame_buffer_full[q], frame[q]>>
  BY <1>1, <1>2, <1>4, OwnSent
<1>8. /\ inbox' \in [Peers -> Seq(Message)] /\ inbox'[p] = inbox[p]
      /\ inbox'[q] = IF line[p] = "open" THEN Append(inbox[q], m) ELSE inbox[q]
  BY <1>1, <1>2, <1>6, SentTo
<1>9. /\ pc' \in [Peers -> {"run", "test", "receive"}]
      /\ sync_trap' \in [Peers -> BOOLEAN] /\ current_frame' \in [Peers -> Slots]
      /\ frame_buffer_full' \in [Peers -> BOOLEAN] /\ suspended' \in [Peers -> BOOLEAN]
      /\ frame' \in [Peers -> 0 .. FrameModulus - 1]
      /\ pc'[p] \in {"run", "receive"}
  BY <1>1, <1>2, SendsType
<1>10. TypeOK'
  <2>1. \A x \in Peers : ~network_connected[x] => frame_event_list'[x] = EmptyList
    BY <1>1, <1>2, <1>7 DEF TypeOK
  <2>2. \A x \in Peers : pc'[x] = "test" => network_connected[x]
    BY <1>1, <1>2, <1>7 DEF TypeOK
  <2> QED
    BY <1>1, <1>2, <1>9, <2>1, <2>2 DEF TypeOK
<1>11. Contents'
  BY <1>1, <1>2, <1>7, <1>8 DEF Contents
<1>12. Connection'
  BY <1>1, <1>2, <1>6, <1>7, <1>8, <1>9, ConnectedWires
<1>13. Side(p)'
  BY <1>1, <1>4, <1>8, HookSender
<1>14. CASE Live(q)
  <2>1. line[p] = "open"
    BY <1>1, <1>2, <1>14 DEF Live, Wired, Connection, TypeOK
  <2>2. /\ Frames(Append(inbox[q], m)) = Frames(inbox[q]) + 1
        /\ Mail(Append(inbox[q], m)) = Mail(inbox[q]) \cup {<<Frames(inbox[q]) + 1, m.list>>}
    BY <1>2, <1>6, MailAppended DEF Contents
  <2>3. Frames(inbox[q])' = Frames(inbox'[q]) /\ Mail(inbox[q])' = Mail(inbox'[q])
    OBVIOUS
  <2>4. Side(q)' /\ Even(q)' /\ Even(p)'
    BY <1>1, <1>2, <1>4, <1>6, <1>8, <1>14, <2>1, <2>2, <2>3, HookReceiver
  <2> QED
    BY <1>1, <1>2, <1>3, <1>10, <1>11, <1>12, <1>13, <2>4, SessionOfTwoNext DEF IInv, Wired
<1>15. CASE ~Live(q)
  <2>1. ~Live(q)'
    BY <1>1, <1>7, <1>15 DEF Live
  <2> QED
    BY <1>1, <1>2, <1>3, <1>10, <1>11, <1>12, <1>13, <2>1, SessionOfTwoNext DEF IInv, Wired
<1> QED
  BY <1>14, <1>15

-----------------------------------------------------------------------------
(* A frame is played: by the peer that is ahead, or by the one behind, which *)
(* plays what the other one has played.                                      *)

PlaysNew(p) ==
  /\ lead[Other(p)] = <<>> /\ lead'[Other(p)] = <<>>
  /\ Len(lead[Other(p)]) = 0 /\ Len(lead'[Other(p)]) = 0
  /\ Len(lead[p]) \in Nat /\ Len(lead'[p]) = Len(lead[p]) + 1
  /\ \A i \in 1 .. Len(lead[p]) : lead'[p][i] = lead[p][i]
  /\ \A i : i = Len(lead[p]) + 1 => lead'[p][i] = Lists(p)

PlaysOld(p) ==
  /\ lead[p] = <<>> /\ lead'[p] = <<>>
  /\ Len(lead[p]) = 0 /\ Len(lead'[p]) = 0
  /\ Len(lead'[Other(p)]) \in Nat /\ Len(lead[Other(p)]) = Len(lead'[Other(p)]) + 1
  /\ \A i \in 1 .. Len(lead'[Other(p)]) : lead'[Other(p)][i] = lead[Other(p)][i + 1]
  /\ lead[Other(p)] # <<>>

LEMMA PlayFrame ==
  ASSUME IInv, NEW p \in Peers, FrameReceived(p)
  PROVE  /\ network_connected[p] /\ Live(p) /\ Side(p) /\ pc[p] = "receive" /\ frame_buffer_full[p]
         /\ inbox[p] # <<>> /\ IsFrame(Head(inbox[p]))
         /\ Head(inbox[p]).list \in EventList /\ <<1, Head(inbox[p]).list>> \in Mail(inbox[p])
         /\ Frames(inbox[p]) \in Nat \ {0}
         /\ Own(p, 0) = frame_event_list[p][FrameToPlay(p)] /\ Own(p, 0) \in EventList
         /\ Lists(p) = Pair(p, Own(p, 0), Head(inbox[p]).list)
         /\ Lists(p) \in EventList \X EventList
<1> DEFINE l == Head(inbox[p]).list
<1>1. /\ pc[p] = "receive" /\ inbox[p] # <<>> /\ IsFrame(Head(inbox[p]))
      /\ TypeOK /\ Contents /\ Connection /\ inbox[p] \in Seq(Message)
  BY DEF FrameReceived, IsFrame, IInv, Wired, Contents
<1>2. network_connected[p] /\ Live(p)
  BY <1>1 DEF Connection, Live
<1>3. Side(p) /\ frame_buffer_full[p]
  BY <1>1, <1>2 DEF IInv, Session, Side
<1>4. /\ l \in EventList /\ <<1, l>> \in Mail(inbox[p])
      /\ Frames(inbox[p]) = Frames(Tail(inbox[p])) + 1 /\ Frames(Tail(inbox[p])) \in Nat
  BY <1>1, MailReceived
<1>5. Frames(inbox[p]) \in Nat \ {0}
  BY <1>4
<1>6. /\ current_frame[p] \in 0 .. FrameDelta - 1 /\ Offset(p) \in 0 .. FrameDelta - 1
      /\ \A o \in 0 .. Offset(p) : Own(p, o) \in EventList
  BY <1>1, SlotRange DEF Slots
<1>7. Slot(p, 0) = FrameToPlay(p)
  <2>1. Slot(p, 0) = IF current_frame[p] + 1 + 0 < FrameDelta THEN current_frame[p] + 1 + 0
                     ELSE current_frame[p] + 1 + 0 - FrameDelta
    BY <1>3 DEF Slot
  <2> QED
    BY <1>6, <2>1 DEF FrameToPlay, Following
<1>8. Own(p, 0) = frame_event_list[p][FrameToPlay(p)] /\ Own(p, 0) \in EventList
  BY <1>6, <1>7 DEF Own
<1>9. Lists(p) = Pair(p, Own(p, 0), l)
  BY <1>8 DEF Lists, Pair
<1>10. Lists(p) \in EventList \X EventList
  BY <1>4, <1>8, <1>9 DEF Pair
<1> QED
  BY <1>1, <1>2, <1>3, <1>4, <1>5, <1>8, <1>9, <1>10

LEMMA AppendedTo ==
  ASSUME NEW T, NEW s \in Seq(T), NEW e \in T
  PROVE  /\ Append(s, e) \in Seq(T) /\ Len(s) \in Nat /\ Len(Append(s, e)) = Len(s) + 1
         /\ \A i \in 1 .. Len(s) : Append(s, e)[i] = s[i]
         /\ Append(s, e)[Len(s) + 1] = e
OBVIOUS

LEMMA PlayLeads ==
  ASSUME IInv, NEW p \in Peers, FrameReceived(p)
  PROVE  /\ PlaysNew(p) \/ PlaysOld(p)
         /\ PlaysNew(p) => lead' = [lead EXCEPT ![p] = Append(@, Lists(p))]
         /\ PlaysOld(p) => lead' = [lead EXCEPT ![Other(p)] = Tail(@)]
         /\ lead' \in [Peers -> Seq(EventList \X EventList)]
<1> DEFINE q == Other(p)
           T == EventList \X EventList
           l == Head(inbox[p]).list
<1>1. /\ q \in Peers /\ q # p /\ q = Other(p)
      /\ Contents /\ (lead[p] = <<>> \/ lead[q] = <<>>)
      /\ Plays(p, Lists(p))
  BY TwoPeers, SessionOfTwo DEF IInv, Wired, FrameReceived
<1>2. /\ lead \in [Peers -> Seq(T)] /\ lead[p] \in Seq(T) /\ lead[q] \in Seq(T)
  BY <1>1 DEF Contents
<1>3. Lists(p) \in T
  BY PlayFrame
<1>4. CASE lead[q] = <<>>
  <2>1. lead' = [lead EXCEPT ![p] = Append(lead[p], Lists(p))]
    BY <1>1, <1>4 DEF Plays
  <2> DEFINE s == lead[p]
  <2>2. /\ Append(s, Lists(p)) \in Seq(T) /\ Len(s) \in Nat
        /\ Len(Append(s, Lists(p))) = Len(s) + 1
        /\ \A i \in 1 .. Len(s) : Append(s, Lists(p))[i] = s[i]
        /\ Append(s, Lists(p))[Len(s) + 1] = Lists(p)
    BY <1>2, <1>3, AppendedTo
  <2> HIDE DEF T, q
  <2>3. /\ lead'[p] = Append(lead[p], Lists(p)) /\ lead'[q] = <<>>
        /\ lead' \in [Peers -> Seq(T)]
    BY <1>1, <1>2, <1>4, <2>1, <2>2
  <2>4. Len(lead[q]) = 0 /\ Len(lead'[q]) = 0
    BY <1>4, <2>3
  <2>5. PlaysNew(p) /\ ~PlaysOld(p)
    BY <1>1, <1>4, <2>2, <2>3, <2>4 DEF PlaysNew, PlaysOld
  <2> QED
    BY <2>1, <2>3, <2>5 DEF T
<1>5. CASE lead[q] # <<>>
  <2>1. lead[p] = <<>> /\ Len(lead[p]) = 0
    BY <1>1, <1>5
  <2>2. Head(lead[q]) = Lists(p)
    <3>1. Len(lead[q]) \in Nat \ {0} /\ Head(lead[q]) = lead[q][1]
      BY <1>2, <1>5
    <3>2. <<1, l>> \in Mail(inbox[p]) /\ Repeats(p) /\ Lists(p) = Pair(p, Own(p, 0), l)
      BY PlayFrame DEF Side
    <3>3. <<1, l>>[1] = 1 /\ <<1, l>>[2] = l /\ 1 - 1 = 0 /\ 1 <= Len(lead[q])
      BY <3>1
    <3>4. lead[q][1] = Pair(p, Own(p, 0), l)
      BY <1>1, <3>2, <3>3 DEF Repeats
    <3> QED
      BY <3>1, <3>2, <3>4
  <2>3. lead' = [lead EXCEPT ![q] = Tail(lead[q])]
    BY <1>1, <1>5, <2>2 DEF Plays
  <2> DEFINE s == lead[q]
  <2>4. /\ Tail(s) \in Seq(T) /\ Len(Tail(s)) \in Nat /\ Len(s) = Len(Tail(s)) + 1
        /\ \A i \in 1 .. Len(Tail(s)) : Tail(s)[i] = s[i + 1]
    BY <1>2, <1>5
  <2> HIDE DEF T, q
  <2>5. /\ lead'[q] = Tail(lead[q]) /\ lead'[p] = <<>>
        /\ lead' \in [Peers -> Seq(T)]
    BY <1>1, <1>2, <2>1, <2>3, <2>4
  <2>6. Len(lead'[p]) = 0
    BY <2>5
  <2>7. PlaysOld(p) /\ ~PlaysNew(p)
    BY <1>1, <1>5, <2>1, <2>4, <2>5, <2>6 DEF PlaysOld, PlaysNew
  <2> QED
    BY <1>1, <2>3, <2>5, <2>7 DEF T
<1> QED
  BY <1>4, <1>5

LEMMA PlusOne ==
  ASSUME NEW b \in 0 .. FrameModulus - 1, NEW k \in 1 .. FrameModulus
  PROVE  /\ Plus(Plus(b, 1), k - 1) = Plus(b, k)
         /\ Plus(b, 1) \in 0 .. FrameModulus - 1
         /\ Plus(b, 0) = b
BY DEF Plus, FrameModulus

(* The bounds of a peer and of the other one, before and after. *)
LEMMA PlayBounds ==
  ASSUME IInv, NEW p \in Peers, FrameReceived(p)
  PROVE  LET q == Other(p)
         IN  /\ Frames(inbox[p]) <= FrameModulus
             /\ Frames(inbox[p]) - 1 + Len(lead'[p]) <= FrameDelta + Len(lead'[q])
             /\ Len(lead'[q]) <= FrameDelta - 1
             /\ Len(lead'[p]) \in Nat /\ Len(lead'[q]) \in Nat
<1> DEFINE q == Other(p)
           x == Len(lead[p])
           y == Len(lead[q])
           a == Len(lead'[p])
           b == Len(lead'[q])
           n == Frames(inbox[p])
<1>1. /\ Side(p) /\ frame_buffer_full[p] /\ pc[p] = "receive" /\ n \in Nat \ {0}
      /\ TypeOK /\ Contents /\ q \in Peers
  BY PlayFrame, TwoPeers DEF IInv, Wired
<1>2. x \in Nat /\ y \in Nat
  BY <1>1, LeadRange
<1>3. y <= FrameDelta /\ n + x <= FrameDelta + y
  <2>1. Depth(p) = FrameDelta
    BY <1>1 DEF Depth, Offset
  <2> QED
    BY <1>1, <2>1 DEF Side
<1>4. (y = 0 /\ b = 0 /\ a = x + 1) \/ (x = 0 /\ a = 0 /\ b \in Nat /\ y = b + 1)
  BY PlayLeads DEF PlaysNew, PlaysOld
<1> HIDE DEF q, x, y, a, b, n
<1>5. /\ n <= 2 * FrameDelta /\ n - 1 + a <= FrameDelta + b /\ b <= FrameDelta - 1
      /\ a \in Nat /\ b \in Nat
  BY <1>1, <1>2, <1>3, <1>4
<1> QED
  BY <1>5 DEF q, a, b, n, FrameModulus

LEMMA PlayerSide ==
  ASSUME IInv, NEW p \in Peers, ReceiveFrame(p)
  PROVE  Side(p)'
<1> DEFINE q == Other(p)
           b == Len(lead'[q])
           n == Frames(inbox[p])
<1>1. /\ FrameReceived(p) /\ pc[p] = "receive" /\ pc' = [pc EXCEPT ![p] = "run"]
      /\ network_prepare_next_frame(p) /\ frame_event_list' = Prepared(p)
      /\ inbox' = [inbox EXCEPT ![p] = Tail(@)]
      /\ UNCHANGED <<frame_buffer_full, skewed>>
  BY DEF ReceiveFrame, FrameReceived
<1>2. /\ TypeOK /\ Contents /\ q \in Peers /\ Side(p) /\ frame_buffer_full[p]
      /\ inbox[p] # <<>> /\ IsFrame(Head(inbox[p])) /\ inbox[p] \in Seq(Message)
  BY <1>1, PlayFrame, TwoPeers DEF IInv, Wired, Contents
<1>3. /\ Offset(p)' = FrameDelta - 1 /\ Depth(p) = FrameDelta /\ Depth(p)' = FrameDelta - 1
      /\ Offset(p) = FrameDelta - 1
      /\ Base(p)' = Plus(Base(p), 1) /\ Numbered(p)'
      /\ \A o \in 0 .. FrameDelta - 2 : Own(p, o)' = Own(p, o + 1)
      /\ Own(p, FrameDelta - 1)' = <<>>
  BY <1>1, <1>2, OwnPlayed
<1>4. /\ inbox'[p] = Tail(inbox[p]) /\ Frames(inbox'[p]) \in Nat /\ n = Frames(inbox'[p]) + 1
      /\ \A m \in Mail(inbox'[p]) : <<m[1] + 1, m[2]>> \in Mail(inbox[p])
      /\ inbox'[p] \in Seq(Message)
  BY <1>1, <1>2, ReceivedBy, MailReceived
<1>5. /\ n <= FrameModulus /\ n - 1 + Len(lead'[p]) <= FrameDelta + b
      /\ b <= FrameDelta - 1 /\ b \in Nat /\ n \in Nat
  BY <1>1, PlayBounds, PlayFrame
<1>6. \A m \in Mail(inbox'[p]) : m[1] \in Nat \ {0} /\ m[1] + 1 <= n
  <2>1. SUFFICES ASSUME NEW m \in Mail(inbox'[p]) PROVE m[1] \in Nat \ {0} /\ m[1] + 1 <= n
    OBVIOUS
  <2>2. m[1] \in 1 .. Frames(inbox'[p])
    BY <1>4, MailRange
  <2> HIDE DEF n
  <2> QED
    BY <1>4, <2>2
<1>7. Mail(inbox[p])' = Mail(inbox'[p]) /\ Frames(inbox[p])' = Frames(inbox'[p]) /\ Other(p)' = q
  BY DEF Other
<1>8. Base(p) \in 0 .. FrameModulus - 1
  BY <1>2, SlotRange
<1> HIDE DEF n, q, b
<1>9. Repeats(p)'
  <2>1. SUFFICES ASSUME NEW m \in Mail(inbox'[p]), m[1] <= b
                 PROVE  lead'[q][m[1]] = Pair(p, Own(p, m[1] - 1)', m[2])
    BY <1>7 DEF Repeats, Pair, b
  <2> DEFINE k == m[1]
  <2>2. k \in Nat \ {0} /\ k <= b
    BY <1>6, <2>1
  <2>3. PlaysOld(p)
    <3>1. PlaysNew(p) => b = 0
      BY DEF PlaysNew, b, q
    <3> QED
      BY <1>1, <2>2, <3>1, PlayLeads
  <2>4. k \in 1 .. b /\ k + 1 <= Len(lead[q])
    <3>1. Len(lead[q]) = b + 1
      BY <2>3 DEF PlaysOld, q, b
    <3> QED
      BY <1>5, <2>2, <3>1
  <2>5. lead'[q][k] = lead[q][k + 1]
    BY <2>3, <2>4 DEF PlaysOld, q, b
  <2>6. lead[q][k + 1] = Pair(p, Own(p, k + 1 - 1), m[2])
    <3>1. <<k + 1, m[2]>> \in Mail(inbox[p]) /\ Repeats(p)
      BY <1>2, <1>4 DEF Side
    <3>2. <<k + 1, m[2]>>[1] = k + 1 /\ <<k + 1, m[2]>>[2] = m[2]
      OBVIOUS
    <3> HIDE DEF k
    <3> QED
      BY <2>4, <3>1, <3>2 DEF Repeats, q
  <2>7. Own(p, k - 1)' = Own(p, k)
    <3>1. k - 1 \in 0 .. FrameDelta - 2 /\ (k - 1) + 1 = k
      BY <1>5, <2>2
    <3> QED
      BY <1>3, <3>1
  <2>8. k + 1 - 1 = k
    BY <2>2
  <2> QED
    BY <2>5, <2>6, <2>7, <2>8
<1>10. ASSUME ~skewed' PROVE Right(p)'
  <2>1. Right(p) /\ pc[p] # "test" /\ Offset(p) = FrameDelta - 1
    BY <1>1, <1>2, <1>3, <1>10 DEF Side
  <2>2. ASSUME NEW m \in Mail(inbox'[p]) PROVE Dated(m[2], Plus(Base(p), m[1] - 1))'
    <3> DEFINE k == m[1]
    <3>1. k + 1 \in 1 .. FrameModulus /\ k \in 1 .. FrameModulus /\ k + 1 - 1 = k
      BY <1>5, <1>6 DEF FrameModulus
    <3>2. Dated(m[2], Plus(Base(p), k + 1 - 1))
      <4>1. <<k + 1, m[2]>> \in Mail(inbox[p])
        BY <1>4
      <4>2. <<k + 1, m[2]>>[1] = k + 1 /\ <<k + 1, m[2]>>[2] = m[2]
        OBVIOUS
      <4> HIDE DEF k
      <4> QED
        BY <2>1, <3>1, <4>1, <4>2 DEF Right
    <3>3. Plus(Base(p), k - 1)' = Plus(Plus(Base(p), 1), k - 1)
      BY <1>3 DEF Plus
    <3>4. Plus(Plus(Base(p), 1), k - 1) = Plus(Base(p), k)
      BY <1>8, <3>1, PlusOne
    <3> QED
      BY <3>1, <3>2, <3>3, <3>4 DEF Dated
  <2>3. ASSUME NEW o \in 0 .. FrameDelta - 1 PROVE Dated(Own(p, o), Plus(Base(p), o))'
    <3>1. CASE o = FrameDelta - 1
      <4>1. Own(p, o)' = <<>>
        BY <1>3, <3>1
      <4> QED
        BY <4>1 DEF Dated
    <3>2. CASE o # FrameDelta - 1
      <4>1. /\ o \in 0 .. FrameDelta - 2 /\ o + 1 \in 0 .. FrameDelta - 1
            /\ o + 1 \in 1 .. FrameModulus /\ o + 1 - 1 = o
        BY <3>2 DEF FrameModulus
      <4>2. Own(p, o)' = Own(p, o + 1)
        BY <1>3, <4>1
      <4>3. Dated(Own(p, o + 1), Plus(Base(p), o + 1))
        BY <2>1, <4>1 DEF Right
      <4>4. Plus(Base(p), o)' = Plus(Plus(Base(p), 1), o)
        BY <1>3 DEF Plus
      <4>5. Plus(Plus(Base(p), 1), o + 1 - 1) = Plus(Base(p), o + 1)
        BY <1>8, <4>1, PlusOne
      <4>6. Plus(Base(p), o)' = Plus(Base(p), o + 1)
        BY <4>1, <4>4, <4>5
      <4> QED
        BY <4>2, <4>3, <4>6 DEF Dated
    <3> QED
      BY <3>1, <3>2
  <2> QED
    BY <1>3, <1>7, <2>2, <2>3 DEF Right
<1>11. /\ pc'[p] = "run" /\ frame_buffer_full'[p]
       /\ Frames(inbox'[p]) + Len(lead'[p]) <= FrameDelta + b
  <2>1. pc'[p] = "run" /\ frame_buffer_full'[p]
    BY <1>1, <1>2 DEF TypeOK
  <2>2. n - 1 = Frames(inbox'[p])
    BY <1>4
  <2> QED
    BY <1>5, <2>1, <2>2
<1>12. Len(lead[q])' = b /\ b <= Depth(p)'
  BY <1>3, <1>5, <1>7 DEF b, q
<1> QED
  BY <1>3, <1>7, <1>9, <1>10, <1>11, <1>12 DEF Side, b, q

(* The other one has kept what was played before it. *)
LEMMA PeerSide ==
  ASSUME IInv, NEW p \in Peers, NEW q \in Peers, q = Other(p), FrameReceived(p), Live(q),
         UNCHANGED <<frame_event_list[q], inbox[q]>>
  PROVE  Side(q)'
<1> DEFINE l == Head(inbox[p]).list
           x == Len(lead[p])
           y == Len(lead[q])
           a == Len(lead'[p])
           b == Len(lead'[q])
           n == Frames(inbox[q])
<1>1. /\ TypeOK /\ Contents /\ Other(q) = p /\ p # q
      /\ Live(p) /\ Side(p) /\ pc[p] = "receive" /\ frame_buffer_full[p]
      /\ <<1, l>> \in Mail(inbox[p]) /\ Frames(inbox[p]) \in Nat \ {0}
      /\ Lists(p) = Pair(p, Own(p, 0), l)
  BY PlayFrame, TwoPeers DEF IInv, Wired
<1>2. Side(q) /\ Even(p) /\ Even(q)
  BY <1>1, SessionOfTwo DEF IInv
<1>3. /\ pc' = [pc EXCEPT ![p] = "run"] /\ network_prepare_next_frame(p)
      /\ UNCHANGED <<frame_buffer_full, skewed>>
  BY DEF FrameReceived
<1>4. UNCHANGED <<pc[q], frame_event_list[q], current_frame[q], frame_buffer_full[q], frame[q]>>
  BY <1>1, <1>3 DEF network_prepare_next_frame, TypeOK
<1>5. /\ Base(q)' = Base(q) /\ Depth(q)' = Depth(q) /\ Offset(q)' = Offset(q)
      /\ \A o : Own(q, o)' = Own(q, o)
      /\ Numbered(q)' <=> Numbered(q)
  BY <1>4, OwnKept
<1>6. x \in Nat /\ y \in Nat /\ n \in Nat /\ Depth(p) = FrameDelta
  BY <1>1, LeadRange DEF Depth, Offset
<1>7. PlaysNew(p) \/ PlaysOld(p)
  BY PlayLeads
<1>8. inbox[q] \in Seq(Message)
  BY <1>1, LeadRange
<1>9. /\ Len(lead[p])' = a /\ Len(lead[q])' = b /\ Other(q)' = p
      /\ Frames(inbox[q])' = n /\ Mail(inbox[q])' = Mail(inbox[q])
  BY <1>1 DEF Other
<1>10. /\ x <= Depth(q) /\ n + y <= FrameDelta + x
       /\ Frames(inbox[p]) + x = Depth(q) + y
  BY <1>1, <1>2 DEF Side, Even
<1>11. Depth(q) \in Nat
  BY <1>1, SlotRange DEF Depth
<1>12. (y = 0 /\ b = 0 /\ a = x + 1) \/ (x = 0 /\ a = 0 /\ b \in Nat /\ y = b + 1)
  BY <1>7 DEF PlaysNew, PlaysOld
<1> HIDE DEF l, x, y, a, b, n
<1>13. /\ a <= Depth(q) /\ n + b <= FrameDelta + a
  BY <1>1, <1>6, <1>10, <1>11, <1>12
<1>14. /\ pc'[q] # "test" => Numbered(q)'
       /\ pc'[q] = "receive" => frame_buffer_full'[q]
       /\ pc'[q] = "test" \/ ~frame_buffer_full'[q] => lead'[q] = <<>>
  <2>1. lead[q] = <<>> => lead'[q] = <<>>
    BY <1>7 DEF PlaysNew, PlaysOld
  <2> QED
    BY <1>2, <1>4, <1>5, <2>1 DEF Side
<1>15. Repeats(q)'
  <2>1. SUFFICES ASSUME NEW m \in Mail(inbox[q]), m[1] <= a
                 PROVE  lead'[p][m[1]] = Pair(q, Own(q, m[1] - 1), m[2])
    BY <1>5, <1>9 DEF Repeats, Pair
  <2>2. m[1] \in Nat \ {0}
    BY <1>6, <1>8, MailRange DEF n
  <2>3. PlaysNew(p) /\ y = 0 /\ a = x + 1
    BY <1>7, <1>12, <2>1, <2>2 DEF PlaysOld, a
  <2>4. CASE m[1] <= x
    <3>1. m[1] \in 1 .. x
      BY <1>6, <2>2, <2>4
    <3>2. lead'[p][m[1]] = lead[p][m[1]]
      BY <2>3, <3>1 DEF PlaysNew, x
    <3> QED
      BY <1>1, <1>2, <2>4, <3>2 DEF Side, Repeats, x
  <2>5. CASE m[1] = x + 1
    <3>1. lead'[p][m[1]] = Lists(p)
      BY <2>3, <2>5 DEF PlaysNew, x
    <3>2. m[2] = Own(p, 0)
      <4>1. m[1] > x /\ m[1] - 1 + y - x = 0
        BY <1>6, <2>3, <2>5
      <4>2. m[2] = Own(p, m[1] - 1 + y - x)
        BY <1>1, <1>2, <4>1 DEF Even, Echoes, x, y
      <4> QED
        BY <4>1, <4>2
    <3>3. l = Own(q, x)
      <4>1. 1 > y /\ 1 - 1 + x - y = x
        BY <1>6, <2>3
      <4>2. <<1, l>>[1] = 1 /\ <<1, l>>[2] = l
        OBVIOUS
      <4>3. l = Own(q, 1 - 1 + x - y)
        BY <1>1, <1>2, <4>1, <4>2 DEF Even, Echoes, x, y
      <4> QED
        BY <4>1, <4>3
    <3>4. m[1] - 1 = x
      BY <1>6, <2>5
    <3>5. Pair(q, l, Own(p, 0)) = Pair(p, Own(p, 0), l)
      BY <1>1, TwoPeers
    <3> QED
      BY <1>1, <3>1, <3>2, <3>3, <3>4, <3>5
  <2>6. m[1] <= x \/ m[1] = x + 1
    BY <1>6, <2>1, <2>2, <2>3
  <2> QED
    BY <2>4, <2>5, <2>6
<1>16. ~skewed' => Right(q)'
  <2>1. SUFFICES ASSUME ~skewed, Right(q) PROVE Right(q)'
    BY <1>2, <1>3 DEF Side
  <2>2. \A k : Plus(Base(q), k)' = Plus(Base(q), k)
    BY <1>5 DEF Plus
  <2>3. ASSUME NEW m \in Mail(inbox[q]) PROVE Dated(m[2], Plus(Base(q), m[1] - 1))'
    <3>1. Dated(m[2], Plus(Base(q), m[1] - 1))
      BY <2>1 DEF Right
    <3>2. Plus(Base(q), m[1] - 1)' = Plus(Base(q), m[1] - 1)
      BY <2>2
    <3> QED
      BY <3>1, <3>2 DEF Dated
  <2>4. ASSUME pc[q] # "test", NEW o \in 0 .. Offset(q) PROVE Dated(Own(q, o), Plus(Base(q), o))'
    <3>1. Dated(Own(q, o), Plus(Base(q), o))
      BY <2>1, <2>4 DEF Right
    <3>2. Own(q, o)' = Own(q, o) /\ Plus(Base(q), o)' = Plus(Base(q), o)
      BY <1>5, <2>2
    <3> QED
      BY <3>1, <3>2 DEF Dated
  <2>5. pc[q]' = pc[q] /\ Offset(q)' = Offset(q)
    BY <1>4, <1>5
  <2> QED
    BY <1>9, <2>3, <2>4, <2>5 DEF Right
<1> QED
  BY <1>5, <1>9, <1>13, <1>14, <1>15, <1>16 DEF Side

(* Both have one frame less between them. *)
LEMMA PlayEven ==
  ASSUME IInv, NEW p \in Peers, NEW q \in Peers, q = Other(p), ReceiveFrame(p), Live(q)
  PROVE  Even(p)' /\ Even(q)'
<1> DEFINE x == Len(lead[p])
           y == Len(lead[q])
           a == Len(lead'[p])
           b == Len(lead'[q])
           n == Frames(inbox[p])
           k == Frames(inbox[q])
<1>1. /\ FrameReceived(p) /\ pc[p] = "receive" /\ pc' = [pc EXCEPT ![p] = "run"]
      /\ network_prepare_next_frame(p) /\ frame_event_list' = Prepared(p)
      /\ inbox' = [inbox EXCEPT ![p] = Tail(@)]
      /\ UNCHANGED <<frame_buffer_full, skewed>>
  BY DEF ReceiveFrame, FrameReceived
<1>2. /\ TypeOK /\ Contents /\ Other(q) = p /\ p # q
      /\ Live(p) /\ Side(p) /\ frame_buffer_full[p]
      /\ inbox[p] # <<>> /\ IsFrame(Head(inbox[p])) /\ inbox[p] \in Seq(Message)
      /\ inbox[q] \in Seq(Message)
  BY <1>1, PlayFrame, TwoPeers DEF IInv, Wired, Contents
<1>3. Side(q) /\ Even(p) /\ Even(q)
  BY <1>2, SessionOfTwo DEF IInv
<1>4. /\ Depth(p) = FrameDelta /\ Depth(p)' = FrameDelta - 1
      /\ Base(p)' = Plus(Base(p), 1)
      /\ \A o \in 0 .. FrameDelta - 2 : Own(p, o)' = Own(p, o + 1)
      /\ UNCHANGED <<pc[q], frame_event_list[q], current_frame[q], frame_buffer_full[q], frame[q]>>
  BY <1>1, <1>2, OwnPlayed
<1>5. /\ Base(q)' = Base(q) /\ Depth(q)' = Depth(q) /\ \A o : Own(q, o)' = Own(q, o)
  BY <1>4, OwnKept
<1>6. /\ inbox'[p] = Tail(inbox[p]) /\ inbox'[q] = inbox[q]
      /\ Frames(inbox'[p]) \in Nat /\ n = Frames(inbox'[p]) + 1
      /\ \A m \in Mail(inbox'[p]) : <<m[1] + 1, m[2]>> \in Mail(inbox[p])
      /\ inbox'[p] \in Seq(Message)
  BY <1>1, <1>2, ReceivedBy, MailReceived
<1>7. /\ Len(lead[p])' = a /\ Len(lead[q])' = b /\ Other(q)' = p /\ Other(p)' = q
      /\ Mail(inbox[p])' = Mail(inbox'[p]) /\ Frames(inbox[p])' = Frames(inbox'[p])
      /\ Mail(inbox[q])' = Mail(inbox[q]) /\ Frames(inbox[q])' = k
  BY <1>2, <1>6 DEF Other
<1>8. x \in Nat /\ y \in Nat /\ n \in Nat /\ k \in Nat /\ Depth(q) \in Nat
  BY <1>2, LeadRange, SlotRange DEF Depth
<1>9. (y = 0 /\ b = 0 /\ a = x + 1) \/ (x = 0 /\ a = 0 /\ b \in Nat /\ y = b + 1)
  BY <1>1, PlayLeads DEF PlaysNew, PlaysOld
<1>10. /\ Base(p) \in 0 .. FrameModulus - 1 /\ Base(q) \in 0 .. FrameModulus - 1
  BY <1>2, SlotRange
<1>11. /\ n + x = Depth(q) + y /\ k + y = FrameDelta + x
       /\ Plus(Base(p), y) = Plus(Base(q), x)
       /\ x <= Depth(q) /\ y <= FrameDelta
  BY <1>2, <1>3, <1>4 DEF Even, Side
<1>12. Depth(q) <= FrameDelta
  BY <1>2, SlotRange DEF Depth
<1>13. /\ \A m \in Mail(inbox'[p]) : m[1] \in Nat \ {0}
       /\ \A m \in Mail(inbox[q]) : m[1] \in 1 .. k
  <2>1. \A m \in Mail(inbox'[p]) : m[1] \in 1 .. Frames(inbox'[p])
    BY <1>6, MailRange
  <2>2. \A m \in Mail(inbox[q]) : m[1] \in 1 .. Frames(inbox[q])
    BY <1>2, MailRange
  <2> QED
    BY <1>6, <2>1, <2>2
<1> HIDE DEF x, y, a, b, n, k
<1>14. a \in Nat /\ b \in Nat /\ a + y = b + x + 1
  BY <1>8, <1>9
<1>15. /\ Frames(inbox'[p]) + a = Depth(q) + b
       /\ k + b = FrameDelta - 1 + a
  <2> DEFINE rest == Frames(inbox'[p])
             depth == Depth(q)
  <2>1. rest \in Nat /\ n = rest + 1 /\ n + x = depth + y /\ k + y = FrameDelta + x
    BY <1>6, <1>11
  <2>2. depth \in Nat /\ FrameDelta \in Nat \ {0}
    BY <1>8
  <2> HIDE DEF rest, depth
  <2>3. rest + a = depth + b /\ k + b = FrameDelta - 1 + a
    BY <1>8, <1>14, <2>1, <2>2
  <2> QED
    BY <2>3 DEF rest, depth
<1>16. Plus(Plus(Base(p), 1), b) = Plus(Base(q), a)
  <2>1. CASE y = 0 /\ b = 0 /\ a = x + 1
    <3>1. Plus(Base(p), 1) = Plus(Base(q), a)
      <4>1. Plus(Base(p), 0) = Plus(Base(q), x)
        BY <1>11, <2>1
      <4>2. 1 + x = a + 0 /\ 0 <= 1 /\ 1 <= FrameModulus /\ a <= FrameModulus
        BY <1>8, <1>11, <1>12, <2>1 DEF FrameModulus
      <4> QED
        BY <1>8, <1>10, <1>14, <4>1, <4>2, PlusShift
    <3>2. 1 \in 1 .. FrameModulus /\ 1 - 1 = 0
      BY DEF FrameModulus
    <3>3. Plus(Plus(Base(p), 1), 1 - 1) = Plus(Base(p), 1)
      BY <1>10, <3>2, PlusOne
    <3> QED
      BY <2>1, <3>1, <3>2, <3>3
  <2>2. CASE x = 0 /\ a = 0 /\ b \in Nat /\ y = b + 1
    <3>1. y \in 1 .. FrameModulus /\ y - 1 = b
      BY <1>11, <2>2 DEF FrameModulus
    <3>2. Plus(Plus(Base(p), 1), y - 1) = Plus(Base(p), y)
      BY <1>10, <3>1, PlusOne
    <3> QED
      BY <1>11, <2>2, <3>1, <3>2
  <2> QED
    BY <1>9, <2>1, <2>2
<1>18. Echoes(p)'
  <2>1. SUFFICES ASSUME NEW m \in Mail(inbox'[p]), m[1] > b
                 PROVE  m[2] = Own(q, m[1] - 1 + Len(lead[p]) - Len(lead[q]))'
    BY <1>7 DEF Echoes
  <2> DEFINE o == m[1] - 1 + a - b
             i == m[1] + 1
  <2>2. m[1] \in Nat \ {0} /\ <<i, m[2]>> \in Mail(inbox[p])
    BY <1>6, <1>13
  <2>3. i > y /\ i - 1 + x - y = o
    BY <1>8, <1>9, <1>14, <2>1, <2>2
  <2>4. <<i, m[2]>>[1] = i /\ <<i, m[2]>>[2] = m[2]
    OBVIOUS
  <2>5. m[2] = Own(q, i - 1 + x - y)
    <3> HIDE DEF i
    <3> QED
      BY <1>3, <2>2, <2>3, <2>4 DEF Even, Echoes, x, y
  <2>6. \A z : z = o => Own(q, z)' = Own(q, m[1] - 1 + Len(lead[p]) - Len(lead[q]))'
    BY <1>7 DEF Own, Slot
  <2>7. \A z : z = o => Own(q, z)' = Own(q, z)
    BY <1>5
  <2> QED
    BY <2>3, <2>5, <2>6, <2>7
<1>19. Echoes(q)'
  <2>1. SUFFICES ASSUME NEW m \in Mail(inbox[q]), m[1] > a
                 PROVE  m[2] = Own(p, m[1] - 1 + Len(lead[q]) - Len(lead[p]))'
    BY <1>7 DEF Echoes
  <2> DEFINE o == m[1] - 1 + b - a
             i == m[1] - 1 + y - x
  <2>2. m[1] \in 1 .. k
    BY <1>13
  <2>3. m[1] > x /\ i = o + 1 /\ o \in 0 .. FrameDelta - 2
    BY <1>8, <1>9, <1>14, <1>15, <2>1, <2>2
  <2>4. m[2] = Own(p, i)
    BY <1>2, <1>3, <2>3 DEF Even, Echoes, x, y
  <2>5. Own(p, o + 1) = Own(p, i)
    BY <2>3
  <2>6. \A z : z = o => Own(p, z)' = Own(p, m[1] - 1 + Len(lead[q]) - Len(lead[p]))'
    BY <1>7 DEF Own, Slot
  <2>7. \A z : z = o => Own(p, z)' = Own(p, z + 1)
    BY <1>4, <2>3
  <2> QED
    BY <2>4, <2>5, <2>6, <2>7
<1>20. /\ Plus(Base(p), Len(lead[q]))' = Plus(Plus(Base(p), 1), b)
       /\ Plus(Base(q), Len(lead[p]))' = Plus(Base(q), a)
  BY <1>4, <1>5, <1>7 DEF Plus
<1>21. Even(p)'
  BY <1>5, <1>7, <1>15, <1>16, <1>18, <1>20 DEF Even
<1>22. Even(q)'
  BY <1>4, <1>7, <1>15, <1>16, <1>19, <1>20 DEF Even
<1> QED
  BY <1>21, <1>22

LEMMA PlayType ==
  ASSUME TypeOK, NEW p \in Peers, FrameReceived(p)
  PROVE  /\ pc' \in [Peers -> {"run", "test", "receive"}] /\ pc'[p] = "run"
         /\ pc'[Other(p)] = pc[Other(p)]
         /\ sync_trap' \in [Peers -> BOOLEAN] /\ current_frame' \in [Peers -> Slots]
         /\ frame' \in [Peers -> 0 .. FrameModulus - 1]
         /\ UNCHANGED <<frame_buffer_full, suspended, skewed>>
<1>1. Following(current_frame[p], FrameDelta) \in Slots
  BY FollowingRange DEF TypeOK, Slots
<1>2. Following(frame[p], FrameModulus) \in 0 .. FrameModulus - 1
  <2>1. FrameModulus \in Nat \ {0}
    BY DEF FrameModulus
  <2> QED
    BY <2>1, FollowingRange DEF TypeOK
<1> QED
  BY <1>1, <1>2, TwoPeers DEF FrameReceived, network_prepare_next_frame, TypeOK

LEMMA ReceiveFrameKeeps ==
  ASSUME IInv, NEW p \in Peers, ReceiveFrame(p)
  PROVE  IInv'
<1> DEFINE q == Other(p)
<1>1. /\ FrameReceived(p) /\ pc' = [pc EXCEPT ![p] = "run"]
      /\ network_prepare_next_frame(p) /\ frame_event_list' = Prepared(p)
      /\ inbox' = [inbox EXCEPT ![p] = Tail(@)]
      /\ UNCHANGED <<network_connected, line, frame_buffer_full>>
  BY DEF ReceiveFrame, FrameReceived
<1>2. /\ q \in Peers /\ q # p /\ q = Other(p) /\ \A x \in Peers : x = p \/ x = q
      /\ TypeOK /\ Contents /\ Wired
  BY TwoPeers DEF IInv, Wired
<1>3. /\ network_connected[p] /\ frame_buffer_full[p] /\ pc[p] = "receive" /\ inbox[p] # <<>>
  BY <1>1, PlayFrame
<1> HIDE DEF q
<1>4. /\ frame_event_list' \in [Peers -> [Slots -> EventList]]
      /\ UNCHANGED <<pc[q], frame_event_list[q], current_frame[q], frame_buffer_full[q], frame[q]>>
  BY <1>1, <1>2, <1>3, OwnPlayed
<1>5. /\ inbox' \in [Peers -> Seq(Message)] /\ inbox'[p] = Tail(inbox[p]) /\ inbox'[q] = inbox[q]
  BY <1>1, <1>2, <1>3, ReceivedBy
<1>6. /\ pc' \in [Peers -> {"run", "test", "receive"}] /\ pc'[p] = "run"
      /\ sync_trap' \in [Peers -> BOOLEAN] /\ current_frame' \in [Peers -> Slots]
      /\ frame' \in [Peers -> 0 .. FrameModulus - 1]
      /\ UNCHANGED <<frame_buffer_full, suspended, skewed>>
  BY <1>1, <1>2, PlayType
<1>7. /\ PlaysNew(p) \/ PlaysOld(p)
      /\ lead' \in [Peers -> Seq(EventList \X EventList)]
  BY <1>1, PlayLeads
<1>8. TypeOK'
  <2>1. \A x \in Peers : ~network_connected[x] => frame_event_list'[x] = EmptyList
    BY <1>2, <1>3, <1>4 DEF TypeOK
  <2>2. \A x \in Peers : pc'[x] = "test" => network_connected[x]
    BY <1>2, <1>4, <1>6 DEF TypeOK
  <2> QED
    BY <1>1, <1>2, <1>6, <2>1, <2>2 DEF TypeOK
<1>9. Contents'
  BY <1>4, <1>5, <1>7 DEF Contents
<1>10. Connection'
  BY <1>1, <1>2, <1>3, <1>4, <1>5, <1>6, ConnectedWires
<1>11. Session'
  <2>1. lead'[p] = <<>> \/ lead'[q] = <<>>
    BY <1>2, <1>7 DEF PlaysNew, PlaysOld
  <2>2. Side(p)'
    BY PlayerSide
  <2>3. Live(q)' => Live(q)
    BY <1>1, <1>4 DEF Live
  <2>4. Live(q) => Side(q)'
    BY <1>1, <1>2, <1>4, <1>5, PeerSide
  <2>5. Live(q) => Even(p)' /\ Even(q)'
    BY <1>2, PlayEven
  <2> QED
    BY <1>2, <2>1, <2>2, <2>3, <2>4, <2>5, SessionOfTwoNext
<1> QED
  BY <1>8, <1>9, <1>10, <1>11 DEF IInv, Wired

LEMMA OutOfSyncKeeps ==
  ASSUME IInv, NEW p \in Peers, OutOfSync(p)
  PROVE  IInv'
<1> DEFINE q == Other(p)
<1>1. FrameReceived(p) /\ network_disconnect(p)
  BY DEF OutOfSync
<1>2. /\ q \in Peers /\ q # p /\ q = Other(p) /\ \A x \in Peers : x = p \/ x = q
      /\ TypeOK /\ Contents /\ Wired
  BY TwoPeers DEF IInv, Wired
<1>3. /\ network_connected' = [network_connected EXCEPT ![p] = FALSE]
      /\ line' \in [Peers -> {"open", "eof", "reset"}]
      /\ line'[q] \in {"eof", "reset"}
      /\ line[q] # "open" => line'[q] = line[q]
      /\ frame_event_list' \in [Peers -> [Slots -> EventList]]
      /\ frame_event_list'[p] = EmptyList /\ frame_event_list'[q] = frame_event_list[q]
      /\ inbox' \in [Peers -> Seq(Message)] /\ inbox'[q] = inbox[q]
  BY <1>1, <1>2, Disconnected
<1>4. /\ pc' \in [Peers -> {"run", "test", "receive"}] /\ pc'[p] = "run" /\ pc'[q] = pc[q]
      /\ sync_trap' \in [Peers -> BOOLEAN] /\ current_frame' \in [Peers -> Slots]
      /\ frame' \in [Peers -> 0 .. FrameModulus - 1]
      /\ UNCHANGED <<frame_buffer_full, suspended, skewed>>
  BY <1>1, <1>2, PlayType
<1>5. /\ PlaysNew(p) \/ PlaysOld(p)
      /\ lead' \in [Peers -> Seq(EventList \X EventList)]
      /\ pc[p] = "receive"
  BY <1>1, PlayLeads, PlayFrame
<1> HIDE DEF q
<1>6. /\ ~network_connected'[p] /\ network_connected'[q] = network_connected[q]
      /\ network_connected' \in [Peers -> BOOLEAN]
  BY <1>2, <1>3 DEF TypeOK
<1>7. TypeOK'
  BY <1>2, <1>3, <1>4, <1>6 DEF TypeOK
<1>8. Contents'
  BY <1>3, <1>5 DEF Contents
<1>9. Connection'
  BY <1>1, <1>2, <1>4, <1>5, DisconnectedWires
<1>10. Session'
  <2>1. lead'[p] = <<>> \/ lead'[q] = <<>>
    BY <1>2, <1>5 DEF PlaysNew, PlaysOld
  <2>2. ~Live(p)' /\ (Live(q)' => Live(q))
    BY <1>2, <1>3, <1>4, <1>6 DEF Live, TypeOK
  <2>3. Live(q) => Side(q)'
    BY <1>1, <1>2, <1>3, PeerSide
  <2> QED
    BY <1>2, <2>1, <2>2, <2>3, SessionOfTwoNext
<1> QED
  BY <1>7, <1>8, <1>9, <1>10 DEF IInv, Wired

-----------------------------------------------------------------------------
(* The delay is measured, and the first frame begins.                        *)

LEMMA SessionBegins ==
  ASSUME IInv, NEW p \in Peers, pc[p] = "test", network_init_frame_event_list(p),
         UNCHANGED <<network_connected, line, skewed, lead>>,
         \A x \in Peers : /\ Frames(inbox[x])' = Frames(inbox[x])
                          /\ Mail(inbox[x])' \in SUBSET Mail(inbox[x])
  PROVE  Session'
<1> DEFINE q == Other(p)
<1>1. /\ q \in Peers /\ q # p /\ q = Other(p) /\ Other(q) = p /\ Other(p) = q
      /\ TypeOK /\ Contents
      /\ inbox[p] \in Seq(Message) /\ inbox[q] \in Seq(Message)
      /\ Len(lead[q]) \in Nat /\ Frames(inbox[q]) \in Nat
      /\ Len(lead[p]) = 0 <=> lead[p] = <<>>
      /\ Len(lead[q]) = 0 <=> lead[q] = <<>>
  BY TwoPeers, LeadRange DEF IInv, Wired
<1> HIDE DEF q
<1>2. /\ lead[p] = <<>> \/ lead[q] = <<>>
      /\ Live(p) => Side(p)
      /\ Live(q) => Side(q)
      /\ Live(p) /\ Live(q) => Even(p) /\ Even(q)
  BY <1>1, SessionOfTwo DEF IInv
<1>3. /\ pc'[p] = "run" /\ frame_event_list'[p] = EmptyList /\ ~frame_buffer_full'[p]
      /\ current_frame'[p] = 0 /\ frame'[p] = 0
      /\ UNCHANGED <<pc[q], frame_event_list[q], current_frame[q], frame_buffer_full[q], frame[q]>>
  BY <1>1, ListInitialised
<1>4. /\ Depth(p) = 0 /\ Base(p) = 0 /\ Offset(p)' = 0 /\ Depth(p)' = 0 /\ Base(p)' = 0
      /\ Numbered(p)' /\ Own(p, 0)' = <<>>
  <2>1. Depth(p) = 0 /\ Base(p) = 0
    BY DEF Depth, Base
  <2>2. Offset(p)' = 0
    BY <1>3 DEF Offset
  <2>3. Depth(p)' = 0 /\ Base(p)' = 0 /\ Numbered(p)'
    BY <1>3, <2>2 DEF Depth, Base, Numbered
  <2>4. 0 \in Slots /\ Slot(p, 0)' = 0
    BY <1>3 DEF Slots, Slot
  <2>5. Own(p, 0)' = EmptyList[0]
    BY <1>3, <2>4 DEF Own
  <2> QED
    BY <2>1, <2>2, <2>3, <2>4, <2>5 DEF EmptyList
<1>5. (Live(p)' => Live(p)) /\ (Live(q)' => Live(q))
  BY <1>3 DEF Live
<1>6. /\ Frames(inbox[p])' = Frames(inbox[p]) /\ Frames(inbox[q])' = Frames(inbox[q])
      /\ Mail(inbox[p])' \in SUBSET Mail(inbox[p]) /\ Mail(inbox[q])' \in SUBSET Mail(inbox[q])
      /\ Other(p)' = q /\ Other(q)' = p
  BY <1>1 DEF Other
<1>7. ASSUME Side(p) PROVE lead[p] = <<>> /\ Len(lead[q]) = 0 /\ Side(p)'
  <2>1. lead[p] = <<>> /\ Len(lead[q]) = 0
    BY <1>1, <1>4, <1>7 DEF Side
  <2>2. Repeats(p)'
    <3>1. \A m \in Mail(inbox[p]) : m[1] \in 1 .. Frames(inbox[p])
      BY <1>1, MailRange
    <3>2. \A m \in Mail(inbox[p]) : ~(m[1] <= 0)
      BY <3>1
    <3>3. Len(lead[q])' = 0
      BY <2>1
    <3> QED
      BY <1>6, <3>2, <3>3 DEF Repeats
  <2>3. ASSUME ~skewed' PROVE Right(p)'
    <3>1. \A m \in Mail(inbox[p])' : Dated(m[2], Plus(Base(p), m[1] - 1))
      BY <1>6, <1>7, <2>3 DEF Side, Right
    <3>2. \A m \in Mail(inbox[p])' : Dated(m[2], Plus(Base(p), m[1] - 1))'
      <4>1. SUFFICES ASSUME NEW m \in Mail(inbox[p])' PROVE Dated(m[2], Plus(Base(p), m[1] - 1))'
        OBVIOUS
      <4>2. Plus(Base(p), m[1] - 1)' = Plus(Base(p), m[1] - 1)
        BY <1>4 DEF Plus
      <4> QED
        BY <3>1, <4>2 DEF Dated
    <3>3. ASSUME NEW o \in 0 .. 0 PROVE Dated(Own(p, o), Plus(Base(p), o))'
      <4>1. Own(p, o)' = <<>>
        BY <1>4
      <4> QED
        BY <4>1 DEF Dated
    <3> QED
      BY <1>4, <3>2, <3>3 DEF Right
  <2> QED
    BY <1>1, <1>3, <1>4, <1>6, <1>7, <2>1, <2>2, <2>3 DEF Side
<1>8. Side(q) => Side(q)'
  BY <1>1, <1>3, <1>6, SideKept
<1>9. /\ Base(q)' = Base(q) /\ Depth(q)' = Depth(q) /\ \A o : Own(q, o)' = Own(q, o)
  BY <1>1, <1>3, OwnKept
<1>10. Even(p) => Even(p)'
  BY <1>1, <1>4, <1>6, <1>9, EvenKept
<1>11. Side(p) /\ Even(q) => Even(q)'
  <2>1. SUFFICES ASSUME Side(p), Even(q) PROVE Even(q)'
    OBVIOUS
  <2>2. Len(lead[p]) = 0 /\ Len(lead[q]) = 0
    BY <1>1, <1>7, <2>1
  <2>3. Frames(inbox[q]) = 0
    BY <1>1, <1>4, <2>1, <2>2 DEF Even
  <2>4. Mail(inbox[q]) = {}
    <3>1. \A m \in Mail(inbox[q]) : m[1] \in 1 .. Frames(inbox[q])
      BY <1>1, MailRange
    <3> QED
      BY <2>3, <3>1
  <2> QED
    BY <1>1, <1>4, <1>6, <1>9, <2>1, <2>4, EvenKept
<1>12. lead'[p] = <<>> \/ lead'[q] = <<>>
  BY <1>2
<1> QED
  BY <1>1, <1>2, <1>5, <1>7, <1>8, <1>10, <1>11, <1>12, SessionOfTwoNext

LEMMA ServerTestedKeeps ==
  ASSUME IInv, ServerTested
  PROVE  IInv'
<1> DEFINE p == "server"
           q == "client"
           m == [kind |-> "delta"]
<1>1. /\ pc[p] = "test" /\ line[p] = "open" /\ network_init_frame_event_list(p)
      /\ inbox' = Sent(p, m)
      /\ UNCHANGED <<network_connected, line, suspended, skewed, lead>>
  BY DEF ServerTested
<1>2. /\ p \in Peers /\ q \in Peers /\ q # p /\ q = Other(p) /\ p = Other(q)
      /\ \A x \in Peers : x = p \/ x = q
      /\ TypeOK /\ Contents /\ Connection
  BY DEF IInv, Wired, Peers, Other
<1>3. m \in Message /\ ~IsFrame(m) /\ m.kind = "delta"
  BY DEF Message, IsFrame
<1>4. /\ line[q] = "open" /\ network_connected[p] /\ network_connected[q]
  BY <1>1, <1>2 DEF Connection, TypeOK
<1> HIDE DEF p, q, m
<1>5. /\ inbox' \in [Peers -> Seq(Message)] /\ inbox'[p] = inbox[p]
      /\ inbox'[q] = Append(inbox[q], m)
  BY <1>1, <1>2, <1>3, SentTo
<1>6. /\ inbox[q] \in Seq(Message) /\ Append(inbox[q], m) # <<>>
      /\ Head(Append(inbox[q], m)) = IF inbox[q] = <<>> THEN m ELSE Head(inbox[q])
      /\ Frames(Append(inbox[q], m)) = Frames(inbox[q])
      /\ Mail(Append(inbox[q], m)) = Mail(inbox[q])
  BY <1>2, <1>3, MailAppended DEF Contents
<1>7. /\ pc' \in [Peers -> {"run", "test", "receive"}] /\ pc'[p] = "run"
      /\ sync_trap' \in [Peers -> BOOLEAN] /\ current_frame' \in [Peers -> Slots]
      /\ frame_buffer_full' \in [Peers -> BOOLEAN]
      /\ frame' \in [Peers -> 0 .. FrameModulus - 1]
      /\ frame_event_list' \in [Peers -> [Slots -> EventList]]
      /\ UNCHANGED <<pc[q], frame_event_list[q], current_frame[q], frame_buffer_full[q], frame[q]>>
  BY <1>1, <1>2, ListInitialised
<1>8. TypeOK'
  BY <1>1, <1>2, <1>4, <1>7 DEF TypeOK
<1>9. Contents'
  BY <1>1, <1>2, <1>5, <1>7 DEF Contents
<1>10. Connection'
  <2>1. ASSUME pc'["client"] = "test" PROVE inbox'["client"] # <<>> /\ Head(inbox'["client"]).kind = "delta"
    BY <1>2, <1>3, <1>5, <1>6, <1>7, <2>1 DEF Connection, q
  <2>2. \A x \in Peers : network_connected'[x] /\ line'[x] = "open"
    BY <1>1, <1>2, <1>4
  <2> QED
    BY <1>2, <2>1, <2>2 DEF Connection, Peers
<1>11. Session'
  <2>1. \A x \in Peers : /\ Frames(inbox'[x]) = Frames(inbox[x])
                         /\ Mail(inbox'[x]) \in SUBSET Mail(inbox[x])
    BY <1>2, <1>5, <1>6
  <2>2. \A x \in Peers : /\ Frames(inbox[x])' = Frames(inbox[x])
                         /\ Mail(inbox[x])' \in SUBSET Mail(inbox[x])
    BY <2>1
  <2> QED
    BY <1>1, <1>2, <2>2, SessionBegins
<1> QED
  BY <1>8, <1>9, <1>10, <1>11 DEF IInv, Wired

LEMMA ClientTestedKeeps ==
  ASSUME IInv, ClientTested
  PROVE  IInv'
<1> DEFINE p == "client"
           q == "server"
<1>1. /\ pc[p] = "test" /\ inbox[p] # <<>> /\ network_init_frame_event_list(p)
      /\ inbox' = [inbox EXCEPT ![p] = Tail(@)]
      /\ UNCHANGED <<network_connected, line, suspended, skewed, lead>>
  BY DEF ClientTested
<1>2. /\ p \in Peers /\ q \in Peers /\ q # p /\ q = Other(p) /\ p = Other(q)
      /\ p # "server" /\ \A x \in Peers : x = p \/ x = q
      /\ TypeOK /\ Contents /\ Connection /\ Wired
  BY DEF IInv, Wired, Peers, Other
<1>3. ~IsFrame(Head(inbox[p])) /\ network_connected[p]
  BY <1>1, <1>2 DEF Connection, IsFrame, TypeOK
<1> HIDE DEF p, q
<1>4. /\ inbox' \in [Peers -> Seq(Message)] /\ inbox'[p] = Tail(inbox[p]) /\ inbox'[q] = inbox[q]
  BY <1>1, <1>2, ReceivedBy
<1>5. /\ Frames(Tail(inbox[p])) = Frames(inbox[p])
      /\ Mail(Tail(inbox[p])) \in SUBSET Mail(inbox[p])
  BY <1>1, <1>2, <1>3, MailReceived DEF Contents
<1>6. /\ pc' \in [Peers -> {"run", "test", "receive"}] /\ pc'[p] = "run"
      /\ sync_trap' \in [Peers -> BOOLEAN] /\ current_frame' \in [Peers -> Slots]
      /\ frame_buffer_full' \in [Peers -> BOOLEAN]
      /\ frame' \in [Peers -> 0 .. FrameModulus - 1]
      /\ frame_event_list' \in [Peers -> [Slots -> EventList]]
      /\ UNCHANGED <<pc[q], frame_event_list[q], current_frame[q], frame_buffer_full[q], frame[q]>>
  BY <1>1, <1>2, ListInitialised
<1>7. TypeOK'
  BY <1>1, <1>2, <1>3, <1>6 DEF TypeOK
<1>8. Contents'
  BY <1>1, <1>2, <1>4, <1>6 DEF Contents
<1>9. Connection'
  BY <1>1, <1>2, <1>3, <1>4, <1>6, ConnectedWires
<1>10. Session'
  <2>1. \A x \in Peers : /\ Frames(inbox'[x]) = Frames(inbox[x])
                         /\ Mail(inbox'[x]) \in SUBSET Mail(inbox[x])
    BY <1>2, <1>4, <1>5
  <2>2. \A x \in Peers : /\ Frames(inbox[x])' = Frames(inbox[x])
                         /\ Mail(inbox[x])' \in SUBSET Mail(inbox[x])
    BY <2>1
  <2> QED
    BY <1>1, <1>2, <2>2, SessionBegins
<1> QED
  BY <1>7, <1>8, <1>9, <1>10 DEF IInv, Wired

-----------------------------------------------------------------------------
(* The invariant of every behaviour, and what it says of netplay.            *)

LEMMA NothingKeeps ==
  ASSUME IInv, UNCHANGED vars
  PROVE  IInv'
<1>1. /\ UNCHANGED <<network_connected, line, inbox, pc, sync_trap, suspended, skewed, lead>>
      /\ UNCHANGED <<frame_event_list, current_frame, frame_buffer_full, frame>>
  BY DEF vars, frames
<1>2. TypeOK /\ Contents /\ Connection
  BY DEF IInv, Wired
<1>3. TypeOK' /\ Contents' /\ Connection'
  BY <1>1, <1>2 DEF TypeOK, Contents, Connection
<1>4. \A x \in Peers : /\ Frames(inbox[x])' = Frames(inbox[x])
                       /\ Mail(inbox[x])' \in SUBSET Mail(inbox[x])
  BY <1>1
<1>5. Session'
  BY <1>1, <1>4, SessionKept
<1> QED
  BY <1>3, <1>5 DEF IInv, Wired

LEMMA InvStep == IInv /\ [Next]_vars => IInv'
<1> SUFFICES ASSUME IInv, [Next]_vars PROVE IInv'
  OBVIOUS
<1>1. CASE Break
  BY <1>1, BreakKeeps
<1>2. CASE Connect
  BY <1>2, ConnectKeeps
<1>3. CASE ServerTested
  BY <1>3, ServerTestedKeeps
<1>4. CASE ClientTested
  BY <1>4, ClientTestedKeeps
<1>5. ASSUME NEW p \in Peers,
             \/ TurnOff(p) \/ TestFails(p) \/ network_event_record_sync_test(p)
             \/ network_event_record(p) \/ network_suspend(p)
             \/ network_hook(p) \/ network_hook_fails(p)
             \/ ReceiveSuspend(p) \/ ReceiveFrame(p) \/ OutOfSync(p)
             \/ ReceiveFails(p) \/ ReceiveHalf(p) \/ ReceiveNothing(p)
      PROVE  IInv'
  <2>1. CASE TurnOff(p)
    BY <2>1, TurnOffKeeps
  <2>2. CASE TestFails(p)
    BY <2>2, TestFailsKeeps
  <2>3. CASE network_event_record_sync_test(p)
    BY <2>3, SyncTestKeeps
  <2>4. CASE network_event_record(p)
    BY <2>4, EventKeeps
  <2>5. CASE network_suspend(p)
    BY <2>5, SuspendKeeps
  <2>6. CASE network_hook(p)
    BY <2>6, HookKeeps
  <2>7. CASE network_hook_fails(p)
    BY <2>7, HookFailsKeeps
  <2>8. CASE ReceiveSuspend(p)
    BY <2>8, ReceiveSuspendKeeps
  <2>9. CASE ReceiveFrame(p)
    BY <2>9, ReceiveFrameKeeps
  <2>10. CASE OutOfSync(p)
    BY <2>10, OutOfSyncKeeps
  <2>11. CASE ReceiveFails(p)
    BY <2>11, ReceiveFailsKeeps
  <2>12. CASE ReceiveHalf(p)
    BY <2>12, ReceiveHalfKeeps
  <2>13. CASE ReceiveNothing(p)
    BY <2>13, NothingKeeps DEF ReceiveNothing
  <2> QED
    BY <1>5, <2>1, <2>2, <2>3, <2>4, <2>5, <2>6, <2>7, <2>8, <2>9, <2>10, <2>11, <2>12, <2>13
<1>6. CASE UNCHANGED vars
  BY <1>6, NothingKeeps
<1> QED
  BY <1>1, <1>2, <1>3, <1>4, <1>5, <1>6 DEF Next

(* Every reachable state of netplay, for any FrameDelta and any users, has   *)
(* the two peers apart by what is in the sockets (network.c).                *)
THEOREM Invariant == Spec => []IInv
  BY InvInit, InvStep, PTL DEF Spec

(* Every variable stays in its range, and only a connected peer waits for    *)
(* the delay or keeps events (network_test_delay(), network_free_frame_list()). *)
THEOREM TypeCorrect == Spec => []TypeOK
<1>1. IInv => TypeOK
  BY DEF IInv, Wired
<1> QED
  BY <1>1, Invariant, PTL

(* The registers that are compared are those of one frame: unless the        *)
(* emulations differ they are equal, and nothing is out of sync.             *)
LEMMA InSyncUnlessSkewed ==
  ASSUME IInv, NEW p \in Peers, OutOfSync(p)
  PROVE  skewed
<1> DEFINE l == Head(inbox[p]).list
           mine == Own(p, 0)
           b == Base(p)
<1>1. FrameReceived(p) /\ ~InSync(Lists(p))
  BY DEF OutOfSync
<1>2. SUFFICES ASSUME ~skewed PROVE FALSE
  OBVIOUS
<1>3. /\ Side(p) /\ pc[p] = "receive" /\ <<1, l>> \in Mail(inbox[p])
      /\ l \in EventList /\ mine \in EventList
      /\ Lists(p) = Pair(p, mine, l)
      /\ TypeOK /\ Contents
  BY <1>1, PlayFrame DEF IInv, Wired
<1>4. Right(p) /\ 0 \in 0 .. Offset(p)
  BY <1>2, <1>3, SlotRange DEF Side
<1>5. Dated(mine, Plus(b, 0))
  BY <1>3, <1>4 DEF Right
<1>6. Dated(l, Plus(b, 0))
  <2>1. <<1, l>>[1] = 1 /\ <<1, l>>[2] = l /\ 1 - 1 = 0
    OBVIOUS
  <2>2. Dated(l, Plus(b, 1 - 1))
    <3> HIDE DEF l
    <3> QED
      BY <1>3, <1>4, <2>1 DEF Right
  <2> QED
    BY <2>1, <2>2
<1> HIDE DEF l, mine, b
<1>7. \A events \in EventList : events # <<>> => 1 \in DOMAIN events
  BY DEF EventList
<1>8. ASSUME mine # <<>>, l # <<>>, mine[1].type = "SYNC_TEST", l[1].type = "SYNC_TEST"
      PROVE  mine[1] = l[1]
  BY <1>3, <1>5, <1>6, <1>7, <1>8 DEF Dated
<1>9. \A s, t : <<s, t>>[1] = s /\ <<s, t>>[2] = t
  OBVIOUS
<1>10. InSync(Lists(p))
  <2>1. CASE Lists(p) = <<mine, l>>
    BY <1>8, <1>9, <2>1 DEF InSync
  <2>2. CASE Lists(p) = <<l, mine>>
    BY <1>8, <1>9, <2>2 DEF InSync
  <2> QED
    BY <1>3, <2>1, <2>2 DEF Pair
<1> QED
  BY <1>1, <1>10

(* "Network out of sync" is reported only when the emulations do differ      *)
(* (network_hook_connected_receive()).                                       *)
THEOREM SyncIsTested == Spec => OutOfSyncIsReal
<1>1. IInv /\ [Next]_vars => [(\E p \in Peers : OutOfSync(p)) => skewed]_vars
  BY InSyncUnlessSkewed
<1> QED
  BY <1>1, Invariant, PTL DEF Spec, OutOfSyncIsReal

(* A frame that is played is a step of the promise. *)
LEMMA PlayMaps ==
  ASSUME IInv, NEW p \in Peers, FrameReceived(p)
  PROVE  Promise!Ahead(p) \/ Promise!Behind(p)
<1> DEFINE q == Other(p)
<1>1. /\ q \in Peers \ {p} /\ \A x \in Peers \ {p} : x = q
      /\ PlaysNew(p) \/ PlaysOld(p)
      /\ PlaysNew(p) => lead' = [lead EXCEPT ![p] = Append(@, Lists(p))]
      /\ PlaysOld(p) => lead' = [lead EXCEPT ![q] = Tail(@)]
  BY PlayLeads, TwoPeers
<1>2. CASE PlaysNew(p)
  <2> DEFINE x == Len(lead[p])
             a == Len(lead'[p])
             b == Len(lead'[q])
             n == Frames(inbox[p])
  <2>1. x \in Nat /\ a = x + 1 /\ b = 0 /\ lead'[p][a] = Lists(p) /\ lead[q] = <<>>
    BY <1>2 DEF PlaysNew
  <2>2. n - 1 + a <= FrameDelta + b /\ n \in Nat \ {0}
    BY PlayBounds, PlayFrame
  <2>3. lead'[p] # <<>>
    BY <2>1
  <2> HIDE DEF x, a, b, n, q
  <2>4. x < FrameDelta
    BY <2>1, <2>2
  <2>5. lead' = [lead EXCEPT ![p] = Append(@, lead'[p][Len(lead'[p])])]
    BY <1>1, <1>2, <2>1 DEF a
  <2> QED
    BY <1>1, <2>1, <2>3, <2>4, <2>5 DEF Promise!Ahead, x
<1>3. CASE PlaysOld(p)
  <2>1. lead[q] # <<>> /\ lead' = [lead EXCEPT ![q] = Tail(@)]
    BY <1>1, <1>3 DEF PlaysOld
  <2> QED
    BY <1>1, <2>1 DEF Promise!Behind
<1> QED
  BY <1>1, <1>2, <1>3

LEMMA StepMaps == IInv /\ [Next]_vars => [Promise!Next]_lead
<1> SUFFICES ASSUME IInv, [Next]_vars PROVE [Promise!Next]_lead
  OBVIOUS
<1>1. CASE Connect
  BY <1>1 DEF Connect, Promise!Next, Promise!Connect, Promise!Level
<1>2. ASSUME NEW p \in Peers, ReceiveFrame(p) \/ OutOfSync(p)
      PROVE  Promise!Next
  <2>1. FrameReceived(p)
    BY <1>2 DEF ReceiveFrame, OutOfSync
  <2> QED
    BY <2>1, PlayMaps DEF Promise!Next
<1>3. ASSUME NEW p \in Peers,
             \/ TurnOff(p) \/ TestFails(p) \/ network_event_record_sync_test(p)
             \/ network_event_record(p) \/ network_suspend(p)
             \/ network_hook(p) \/ network_hook_fails(p)
             \/ ReceiveSuspend(p) \/ ReceiveFails(p) \/ ReceiveHalf(p)
      PROVE  UNCHANGED lead
  BY <1>3 DEF TurnOff, TestFails, network_event_record_sync_test, network_event_record,
              network_suspend, network_hook, network_hook_fails, ReceiveSuspend, ReceiveFails,
              ReceiveHalf
<1>4. Break \/ ServerTested \/ ClientTested => UNCHANGED lead
  BY DEF Break, ServerTested, ClientTested
<1>5. UNCHANGED vars \/ (\E p \in Peers : ReceiveNothing(p)) => UNCHANGED lead
  BY DEF vars, ReceiveNothing
<1> QED
  BY <1>1, <1>2, <1>3, <1>4, <1>5 DEF Next

LEMMA InitMaps == Init => Promise!Init
  BY DEF Init, Promise!Init, Promise!Level

(* Netplay implements Lockstep: the two peers play the events of the same    *)
(* frames in the same order, whatever is suspended, lost or turned off       *)
(* (network_hook_connected_receive()).                                       *)
THEOREM LockstepIsImplemented == Spec => ImplementsLockstep
  BY Invariant, InitMaps, StepMaps, PTL DEF Spec, ImplementsLockstep, Promise!Spec

=============================================================================
