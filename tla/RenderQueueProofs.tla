-------------------------- MODULE RenderQueueProofs ---------------------------
(***************************************************************************)
(* The stack and the ring of render_queue.c keep what Backbuffers promises, *)
(* for any number of buffers and of jobs.                                   *)
(*                                                                         *)
(* The ring is reasoned about only as the sequence Frames.  Conserved says  *)
(* that no buffer is in two places and none is lost; its count is what      *)
(* keeps the stack and the ring within their arrays, and it holds only with *)
(* Places, which says which thread can hold a buffer where.                 *)
(*                                                                         *)
(* JobsInv counts the jobs: a render job that is taken leaves with a frame, *)
(* and the job that opens the thread is never behind one that renders.      *)
(***************************************************************************)
EXTENDS RenderQueue, SequenceTheorems, FiniteSetTheorems, TLAPS

USE BuffersAssumption, MaxJobsAssumption

Held(b) == IF b = NoBuffer THEN 0 ELSE 1

Places ==
  /\ vpc = "draw" <=> drawn # NoBuffer
  /\ uploaded # NoBuffer => rpc = "upload"
  /\ canvas_lock = "render" <=> rpc = "upload"
  /\ freed <=> upc = "done"
  /\ freed => /\ vpc = "gone" /\ uploaded = NoBuffer
              /\ backbuffer_stack = <<>> /\ render_queue_length = 0

Stacked == {backbuffer_stack[i] : i \in DOMAIN backbuffer_stack}
Queued  == {Frames[i] : i \in DOMAIN Frames}

Conserved ==
  /\ Frames \in Seq(Buffers)
  /\ \A i, j \in DOMAIN backbuffer_stack :
       backbuffer_stack[i] = backbuffer_stack[j] => i = j
  /\ \A i, j \in DOMAIN Frames : Frames[i] = Frames[j] => i = j
  /\ \A b \in Buffers : ~(b \in Stacked /\ b \in Queued)
  /\ drawn \notin Stacked /\ drawn \notin Queued
  /\ uploaded \notin Stacked /\ uploaded \notin Queued
  /\ drawn = uploaded => drawn = NoBuffer
  /\ ~freed =>
       /\ Len(backbuffer_stack) + render_queue_length + Held(drawn) + Held(uploaded)
            = MAX_BACKBUFFERS
       /\ \A b \in Buffers : b \in Stacked \/ b \in Queued \/ b = drawn \/ b = uploaded

IInv == TypeOK /\ Places /\ Conserved

-----------------------------------------------------------------------------
(* The ring as a sequence. *)

LEMMA ModSmall ==
  ASSUME NEW n \in Nat \ {0}, NEW x \in 0 .. 2 * n - 1
  PROVE  x % n = IF x < n THEN x ELSE x - n
<1>1. CASE x < n BY <1>1, SMT
<1>2. CASE x >= n
  <2>1. x = n * 1 + (x - n) BY SMT
  <2> QED BY <1>2, <2>1, SMT
<1> QED BY <1>1, <1>2

LEMMA ModStep ==
  ASSUME NEW n \in Nat \ {0}, NEW a \in 0 .. n - 1, NEW i \in 1 .. n - 1
  PROVE  (((a + 1) % n) + (i - 1)) % n = (a + i) % n
<1>1. \A x \in 0 .. 2 * n - 1 : x % n = IF x < n THEN x ELSE x - n
  BY ModSmall
<1> DEFINE b == (a + 1) % n
<1>2. b = IF a + 1 < n THEN a + 1 ELSE a + 1 - n
  BY <1>1
<1>3. (a + i) % n = IF a + i < n THEN a + i ELSE a + i - n
  BY <1>1
<1>4. b \in 0 .. n - 1
  BY <1>2
<1> HIDE DEF b
<1>5. (b + (i - 1)) % n = IF b + (i - 1) < n THEN b + (i - 1) ELSE b + (i - 1) - n
  BY <1>1, <1>4
<1>6. (b + (i - 1)) % n = (a + i) % n
  BY <1>2, <1>3, <1>4, <1>5
<1> QED
  BY <1>6 DEF b

LEMMA SlotValue ==
  ASSUME TypeOK, NEW i \in 0 .. MAX_BACKBUFFERS
  PROVE  /\ Slot(i) = IF render_queue_next + i < MAX_BACKBUFFERS
                        THEN render_queue_next + i
                        ELSE render_queue_next + i - MAX_BACKBUFFERS
         /\ Slot(i) \in RingSlots
<1>1. render_queue_next + i \in 0 .. 2 * MAX_BACKBUFFERS - 1
  BY DEF TypeOK, RingSlots
<1>2. Slot(i) = IF render_queue_next + i < MAX_BACKBUFFERS
                  THEN render_queue_next + i
                  ELSE render_queue_next + i - MAX_BACKBUFFERS
  <2>1. \A x \in 0 .. 2 * MAX_BACKBUFFERS - 1 :
          x % MAX_BACKBUFFERS = IF x < MAX_BACKBUFFERS THEN x ELSE x - MAX_BACKBUFFERS
    BY ModSmall
  <2>2. render_queue_next \in RingSlots
    BY DEF TypeOK
  <2> QED
    BY <1>1, <2>1, <2>2 DEF Slot, RingSlots
<1> QED
  BY <1>1, <1>2 DEF RingSlots, TypeOK

LEMMA EnqueueAppends ==
  ASSUME TypeOK, Frames \in Seq(Buffers), render_queue_length < MAX_BACKBUFFERS,
         NEW b \in Buffers, EnqueueForDisplay(b)
  PROVE  /\ Frames' = Append(Frames, b)
         /\ render_queue' \in [RingSlots -> Buffers \cup {NoBuffer}]
         /\ render_queue_length' \in 0 .. MAX_BACKBUFFERS
<1> DEFINE L == render_queue_length
<1>1. L \in 0 .. MAX_BACKBUFFERS - 1 /\ render_queue_next \in RingSlots
  BY DEF TypeOK
<1>2. /\ render_queue' = [render_queue EXCEPT ![Slot(L)] = b]
      /\ render_queue_length' = L + 1
      /\ \A i : Slot(i)' = Slot(i)
  BY DEF EnqueueForDisplay, Slot
<1>3. Slot(L) \in RingSlots
  BY <1>1, SlotValue
<1>4. \A i \in 1 .. L : Slot(i - 1) \in RingSlots /\ Slot(i - 1) # Slot(L)
  <2>1. \A i \in 1 .. L : i - 1 \in 0 .. MAX_BACKBUFFERS /\ i - 1 < L
    BY <1>1
  <2>2. \A i \in 1 .. L : Slot(i - 1) \in RingSlots
    BY <2>1, SlotValue
  <2>3. ASSUME NEW k \in 0 .. L - 1 PROVE Slot(k) # Slot(L)
    <3>1. Slot(k) = IF render_queue_next + k < MAX_BACKBUFFERS
                      THEN render_queue_next + k
                      ELSE render_queue_next + k - MAX_BACKBUFFERS
      BY <1>1, SlotValue
    <3>2. Slot(L) = IF render_queue_next + L < MAX_BACKBUFFERS
                      THEN render_queue_next + L
                      ELSE render_queue_next + L - MAX_BACKBUFFERS
      BY <1>1, SlotValue
    <3> QED BY <1>1, <3>1, <3>2 DEF RingSlots
  <2> QED BY <1>1, <2>1, <2>2, <2>3
<1>5. render_queue'[Slot(L)] = b /\ \A i \in 1 .. L : render_queue'[Slot(i - 1)] = render_queue[Slot(i - 1)]
  BY <1>2, <1>3, <1>4 DEF TypeOK
<1>6. Frames' = [i \in 1 .. L + 1 |-> render_queue'[Slot(i - 1)]]
  BY <1>2 DEF Frames
<1>7. Frames = [i \in 1 .. L |-> render_queue[Slot(i - 1)]] /\ Len(Frames) = L
  BY <1>1 DEF Frames
<1>8. Append(Frames, b) = [i \in 1 .. L + 1 |-> IF i = L + 1 THEN b ELSE Frames[i]]
  BY <1>1, <1>7
<1>9. \A i \in 1 .. L + 1 : render_queue'[Slot(i - 1)] = IF i = L + 1 THEN b ELSE Frames[i]
  <2>1. SUFFICES ASSUME NEW i \in 1 .. L + 1
                 PROVE  render_queue'[Slot(i - 1)] = IF i = L + 1 THEN b ELSE Frames[i]
    OBVIOUS
  <2>2. CASE i = L + 1
    <3>1. i - 1 = L BY <1>1, <2>2
    <3> QED BY <1>5, <2>2, <3>1
  <2>3. CASE i # L + 1
    BY <1>1, <1>5, <1>7, <2>3
  <2> QED BY <2>2, <2>3
<1>10. Frames' = Append(Frames, b)
  BY <1>6, <1>8, <1>9
<1>11. render_queue' \in [RingSlots -> Buffers \cup {NoBuffer}]
  BY <1>2, <1>3 DEF TypeOK
<1> QED
  BY <1>1, <1>2, <1>10, <1>11

LEMMA DequeueTakesHead ==
  ASSUME TypeOK, Frames \in Seq(Buffers), DequeueForDisplay
  PROVE  /\ Frames # <<>> /\ Frames' = Tail(Frames)
         /\ Head(Frames) = render_queue[render_queue_next]
         /\ render_queue_next' \in RingSlots
         /\ render_queue_length' \in 0 .. MAX_BACKBUFFERS
<1> DEFINE L == render_queue_length
<1>1. L \in 1 .. MAX_BACKBUFFERS /\ render_queue_next \in RingSlots
  BY DEF TypeOK, DequeueForDisplay
<1>2. /\ render_queue' = render_queue /\ render_queue_length' = L - 1
      /\ render_queue_next' = Slot(1)
  BY DEF DequeueForDisplay
<1>3. Slot(1) \in RingSlots /\ Slot(0) = render_queue_next
  BY <1>1, SlotValue DEF RingSlots
<1>4. \A i \in 1 .. L - 1 : Slot(i - 1)' = Slot(i)
  <2>1. SUFFICES ASSUME NEW i \in 1 .. L - 1 PROVE Slot(i - 1)' = Slot(i)
    OBVIOUS
  <2>2. Slot(i - 1)' = (((render_queue_next + 1) % MAX_BACKBUFFERS) + (i - 1)) % MAX_BACKBUFFERS
    BY <1>2 DEF Slot
  <2>3. i \in 1 .. MAX_BACKBUFFERS - 1
    BY <1>1
  <2> QED
    BY <1>1, <2>2, <2>3, ModStep DEF Slot, RingSlots
<1>5. Frames = [i \in 1 .. L |-> render_queue[Slot(i - 1)]] /\ Len(Frames) = L
  BY <1>1 DEF Frames
<1>6. Frames' = [i \in 1 .. L - 1 |-> render_queue[Slot(i)]]
  BY <1>1, <1>2, <1>4 DEF Frames
<1>7. \A i \in 1 .. L - 1 : Frames[i + 1] = render_queue[Slot(i)]
  <2>1. \A i \in 1 .. L - 1 : (i + 1) - 1 = i /\ i + 1 \in 1 .. L
    BY <1>1
  <2> QED BY <1>5, <2>1
<1>8. Frames # <<>> /\ Tail(Frames) = [i \in 1 .. L - 1 |-> Frames[i + 1]] /\ Head(Frames) = Frames[1]
  BY <1>1, <1>5
<1>9. Frames' = Tail(Frames)
  BY <1>6, <1>7, <1>8
<1>10. Frames[1] = render_queue[render_queue_next]
  BY <1>1, <1>3, <1>5
<1> QED
  BY <1>1, <1>2, <1>3, <1>8, <1>9, <1>10 DEF TypeOK
-----------------------------------------------------------------------------
(* The invariant. *)

LEMMA FramesKept ==
  ASSUME UNCHANGED ring
  PROVE  Frames' = Frames
BY DEF ring, Frames, Slot

LEMMA FramesLen ==
  ASSUME TypeOK
  PROVE  Len(Frames) = render_queue_length /\ DOMAIN Frames = 1 .. render_queue_length
BY DEF TypeOK, Frames

LEMMA InvInit == Init => IInv
<1> SUFFICES ASSUME Init PROVE IInv
  OBVIOUS
<1>1. TypeOK
  BY DEF Init, TypeOK, Buffers, NoBuffer, RingSlots, Jobs, VicePlaces, RenderPlaces, UiPlaces
<1>2. Places
  BY DEF Init, Places
<1>3. Frames = <<>>
  BY DEF Init, Frames
<1>4. Conserved
  BY <1>1, <1>3 DEF Init, Conserved, Stacked, Queued, Held, Buffers, NoBuffer
<1> QED
  BY <1>1, <1>2, <1>4 DEF IInv

(* Facts about a buffer that is taken off the stack. *)
LEMMA PopRemoves ==
  ASSUME TypeOK, backbuffer_stack # <<>>, NEW b, b = Top,
         \A i, j \in DOMAIN backbuffer_stack :
           backbuffer_stack[i] = backbuffer_stack[j] => i = j,
         backbuffer_stack' = SubSeq(backbuffer_stack, 1, Len(backbuffer_stack) - 1)
  PROVE  /\ b \in Buffers
         /\ backbuffer_stack' \in Seq(Buffers)
         /\ Len(backbuffer_stack) = Len(backbuffer_stack') + 1
         /\ \A x : x \in Stacked <=> x \in Stacked' \/ x = b
         /\ b \notin Stacked'
         /\ \A i, j \in DOMAIN backbuffer_stack' :
              backbuffer_stack'[i] = backbuffer_stack'[j] => i = j
<1> DEFINE n == Len(backbuffer_stack)
<1>1. /\ backbuffer_stack \in Seq(Buffers) /\ n \in Nat \ {0}
      /\ DOMAIN backbuffer_stack = 1 .. n
      /\ b = backbuffer_stack[n] /\ b \in Buffers
  BY DEF TypeOK, Top
<1>2. /\ backbuffer_stack' \in Seq(Buffers) /\ Len(backbuffer_stack') = n - 1
      /\ DOMAIN backbuffer_stack' = 1 .. n - 1
      /\ \A i \in 1 .. n - 1 : backbuffer_stack'[i] = backbuffer_stack[i]
  BY <1>1
<1> HIDE DEF n
<1>3. \A i \in 1 .. n - 1 : backbuffer_stack'[i] # b
  BY <1>1, <1>2
<1>4. \A i \in 1 .. n : i \in 1 .. n - 1 \/ i = n
  BY <1>1
<1>5. \A x : x \in Stacked <=> x \in Stacked' \/ x = b
  <2>1. Stacked = {backbuffer_stack[i] : i \in 1 .. n}
    BY <1>1 DEF Stacked
  <2>2. Stacked' = {backbuffer_stack[i] : i \in 1 .. n - 1}
    BY <1>2 DEF Stacked
  <2> QED BY <1>1, <1>4, <2>1, <2>2
<1>6. b \notin Stacked'
  BY <1>2, <1>3 DEF Stacked
<1>7. \A i, j \in DOMAIN backbuffer_stack' :
        backbuffer_stack'[i] = backbuffer_stack'[j] => i = j
  BY <1>1, <1>2
<1> QED
  BY <1>1, <1>2, <1>5, <1>6, <1>7 DEF n

(* Facts about a buffer that is put on the stack, or at the end of the ring. *)
LEMMA ReturnAdds ==
  ASSUME TypeOK, NEW b \in Buffers, ReturnToPool(b)
  PROVE  /\ backbuffer_stack' \in Seq(Buffers)
         /\ Len(backbuffer_stack') = Len(backbuffer_stack) + 1
         /\ \A x : x \in Stacked' <=> x \in Stacked \/ x = b
         /\ b \notin Stacked /\ (\A i, j \in DOMAIN backbuffer_stack :
               backbuffer_stack[i] = backbuffer_stack[j] => i = j)
              => (\A i, j \in DOMAIN backbuffer_stack' :
                    backbuffer_stack'[i] = backbuffer_stack'[j] => i = j)
<1> DEFINE n == Len(backbuffer_stack)
<1>1. /\ backbuffer_stack' \in Seq(Buffers) /\ Len(backbuffer_stack') = n + 1 /\ n \in Nat
      /\ \A i \in 1 .. n : backbuffer_stack'[i] = backbuffer_stack[i]
      /\ backbuffer_stack'[n + 1] = b
      /\ DOMAIN backbuffer_stack = 1 .. n /\ DOMAIN backbuffer_stack' = 1 .. n + 1
  BY DEF ReturnToPool, TypeOK
<1> HIDE DEF n
<1>2. \A x : x \in Stacked' <=> x \in Stacked \/ x = b
  BY <1>1 DEF Stacked
<1>3. b \notin Stacked => \A i \in 1 .. n : backbuffer_stack'[i] # backbuffer_stack'[n + 1]
  BY <1>1 DEF Stacked
<1>4. \A i \in 1 .. n + 1 : i \in 1 .. n \/ i = n + 1
  BY <1>1
<1> QED
  BY <1>1, <1>2, <1>3, <1>4 DEF n

LEMMA AppendFacts ==
  ASSUME NEW S, NEW s \in Seq(S), NEW e \in S
  PROVE  /\ Append(s, e) \in Seq(S) /\ Len(s) \in Nat
         /\ DOMAIN s = 1 .. Len(s) /\ DOMAIN Append(s, e) = 1 .. Len(s) + 1
         /\ \A i \in 1 .. Len(s) : Append(s, e)[i] = s[i]
         /\ Append(s, e)[Len(s) + 1] = e
  OBVIOUS

LEMMA TailFacts ==
  ASSUME NEW S, NEW s \in Seq(S), s # <<>>
  PROVE  /\ Tail(s) \in Seq(S) /\ Len(s) \in Nat \ {0} /\ Head(s) \in S /\ s[1] = Head(s)
         /\ DOMAIN s = 1 .. Len(s) /\ DOMAIN Tail(s) = 1 .. Len(s) - 1
         /\ \A i \in 1 .. Len(s) - 1 : Tail(s)[i] = s[i + 1]
  OBVIOUS

LEMMA EnqueueAdds ==
  ASSUME TypeOK, Frames \in Seq(Buffers), render_queue_length < MAX_BACKBUFFERS,
         NEW b \in Buffers, EnqueueForDisplay(b)
  PROVE  /\ Frames' \in Seq(Buffers)
         /\ \A x : x \in Queued' <=> x \in Queued \/ x = b
         /\ b \notin Queued /\ (\A i, j \in DOMAIN Frames : Frames[i] = Frames[j] => i = j)
              => (\A i, j \in DOMAIN Frames' : Frames'[i] = Frames'[j] => i = j)
<1> DEFINE n == Len(Frames)
<1>1. /\ Frames' \in Seq(Buffers) /\ n \in Nat
      /\ \A i \in 1 .. n : Frames'[i] = Frames[i]
      /\ Frames'[n + 1] = b
      /\ DOMAIN Frames = 1 .. n /\ DOMAIN Frames' = 1 .. n + 1
  <2>1. Frames' = Append(Frames, b)
    BY EnqueueAppends
  <2> QED BY <2>1, AppendFacts
<1> HIDE DEF n
<1>2. \A x : x \in Queued' <=> x \in Queued \/ x = b
  BY <1>1 DEF Queued
<1>3. b \notin Queued => \A i \in 1 .. n : Frames'[i] # Frames'[n + 1]
  BY <1>1 DEF Queued
<1>4. \A i \in 1 .. n + 1 : i \in 1 .. n \/ i = n + 1
  BY <1>1
<1> QED
  BY <1>1, <1>2, <1>3, <1>4

LEMMA DequeueRemoves ==
  ASSUME TypeOK, Frames \in Seq(Buffers), DequeueForDisplay,
         \A i, j \in DOMAIN Frames : Frames[i] = Frames[j] => i = j,
         NEW h, h = render_queue[render_queue_next]
  PROVE  /\ Frames' \in Seq(Buffers)
         /\ h \in Buffers
         /\ \A x : x \in Queued <=> x \in Queued' \/ x = h
         /\ h \notin Queued'
         /\ \A i, j \in DOMAIN Frames' : Frames'[i] = Frames'[j] => i = j
<1> DEFINE n == Len(Frames)
<1>1. /\ Frames' \in Seq(Buffers) /\ n \in Nat \ {0} /\ h \in Buffers
      /\ \A i \in 1 .. n - 1 : Frames'[i] = Frames[i + 1]
      /\ Frames[1] = h
      /\ DOMAIN Frames = 1 .. n /\ DOMAIN Frames' = 1 .. n - 1
  <2>1. Frames' = Tail(Frames) /\ Frames # <<>> /\ Head(Frames) = h
    BY DequeueTakesHead
  <2> QED BY <2>1, TailFacts
<1> HIDE DEF n
<1>2. \A i \in 2 .. n : i - 1 \in 1 .. n - 1 /\ Frames'[i - 1] = Frames[i]
  <2>1. SUFFICES ASSUME NEW i \in 2 .. n
                 PROVE  i - 1 \in 1 .. n - 1 /\ Frames'[i - 1] = Frames[i]
    OBVIOUS
  <2>2. PICK k \in 1 .. n - 1 : k = i - 1 /\ i = k + 1
    BY <1>1
  <2>3. Frames'[k] = Frames[k + 1]
    BY <1>1
  <2> QED BY <2>2, <2>3
<1>3. \A x : x \in Queued <=> x \in Queued' \/ x = h
  <2>1. ASSUME NEW x, x \in Queued' PROVE x \in Queued
    <3>1. PICK i \in 1 .. n - 1 : Frames'[i] = x
      BY <1>1, <2>1 DEF Queued
    <3>2. i + 1 \in 1 .. n /\ Frames[i + 1] = x
      BY <1>1, <3>1
    <3> QED BY <1>1, <3>2 DEF Queued
  <2>2. ASSUME NEW x, x \in Queued, x # h PROVE x \in Queued'
    <3>1. PICK i \in 1 .. n : Frames[i] = x
      BY <1>1, <2>2 DEF Queued
    <3>2. i \in 2 .. n
      BY <1>1, <2>2, <3>1
    <3> QED BY <1>1, <1>2, <3>1, <3>2 DEF Queued
  <2>3. h \in Queued
    BY <1>1 DEF Queued
  <2> QED BY <2>1, <2>2, <2>3
<1>4. h \notin Queued'
  <2>1. SUFFICES ASSUME NEW i \in 1 .. n - 1, Frames'[i] = h PROVE FALSE
    BY <1>1 DEF Queued
  <2>2. PICK k \in 1 .. n : k = i + 1 /\ k # 1
    BY <1>1
  <2>3. Frames[k] = Frames[1] /\ 1 \in 1 .. n
    BY <1>1, <2>1, <2>2
  <2> QED BY <1>1, <2>2, <2>3
<1>5. ASSUME NEW i \in 1 .. n - 1, NEW j \in 1 .. n - 1, Frames'[i] = Frames'[j] PROVE i = j
  <2>1. i + 1 \in 1 .. n /\ j + 1 \in 1 .. n /\ Frames[i + 1] = Frames[j + 1]
    BY <1>1, <1>5
  <2>2. i + 1 = j + 1
    BY <1>1, <2>1, Zenon
  <2> QED BY <1>1, <2>2
<1> QED
  BY <1>1, <1>3, <1>4, <1>5

-----------------------------------------------------------------------------
(* Each action moves at most one buffer. *)

LEMMA RefreshBeginKeeps ==
  ASSUME IInv, RefreshBegin
  PROVE  IInv'
<1>1. /\ backbuffer_stack # <<>> /\ drawn' = Top /\ UNCHANGED <<ring, uploaded, freed>>
      /\ backbuffer_stack' = SubSeq(backbuffer_stack, 1, Len(backbuffer_stack) - 1)
      /\ UNCHANGED <<locks, render_skip, jobs, rpc, upc>> /\ vpc = "run" /\ vpc' = "draw"
  BY DEF RefreshBegin
<1>2. TypeOK /\ Places /\ Conserved
  BY DEF IInv
<1> DEFINE b == Top
<1>3. /\ b \in Buffers
      /\ backbuffer_stack' \in Seq(Buffers)
      /\ Len(backbuffer_stack) = Len(backbuffer_stack') + 1
      /\ \A x : x \in Stacked <=> x \in Stacked' \/ x = drawn'
      /\ drawn' \notin Stacked'
      /\ \A i, j \in DOMAIN backbuffer_stack' :
           backbuffer_stack'[i] = backbuffer_stack'[j] => i = j
  BY <1>1, <1>2, PopRemoves DEF Conserved
<1>4. drawn = NoBuffer /\ ~freed /\ drawn' # NoBuffer
  BY <1>1, <1>2, <1>3 DEF Places, Buffers, NoBuffer
<1>5. TypeOK'
  BY <1>1, <1>2, <1>3 DEF TypeOK, ring, locks, jobs, VicePlaces
<1>6. Places'
  BY <1>1, <1>2, <1>4 DEF Places, ring, locks
<1>7. Frames' = Frames
  BY <1>1, FramesKept
<1>8. Queued' = Queued
  BY <1>7 DEF Queued
<1>9. Len(backbuffer_stack') + render_queue_length' + Held(drawn)' + Held(uploaded)'
        = MAX_BACKBUFFERS
  <2>1. Len(backbuffer_stack) + render_queue_length + Held(drawn) + Held(uploaded)
          = MAX_BACKBUFFERS
    BY <1>2, <1>4 DEF Conserved
  <2>2. Held(drawn)' = 1 /\ Held(drawn) = 0 /\ Held(uploaded)' = Held(uploaded)
    BY <1>1, <1>4 DEF Held
  <2>3. Held(uploaded) \in Nat /\ render_queue_length \in Nat /\ Len(backbuffer_stack') \in Nat
    BY <1>2, <1>3 DEF Held, TypeOK
  <2> QED BY <1>1, <1>3, <2>1, <2>2, <2>3 DEF ring
<1>10. Conserved'
  BY <1>1, <1>2, <1>3, <1>4, <1>7, <1>8, <1>9 DEF Conserved, NoBuffer, Buffers
<1> QED
  BY <1>5, <1>6, <1>10 DEF IInv

LEMMA RefreshEndKeeps ==
  ASSUME IInv, RefreshEnd
  PROVE  IInv'
<1>1. /\ vpc = "draw" /\ vpc' = "run" /\ drawn' = NoBuffer
      /\ UNCHANGED <<uploaded, freed, locks, render_skip, rpc, upc>>
  BY DEF RefreshEnd
<1>2. TypeOK /\ Places /\ Conserved
  BY DEF IInv
<1>3. drawn \in Buffers /\ drawn # NoBuffer /\ ~freed
  BY <1>1, <1>2 DEF Places, TypeOK
<1>4. Len(backbuffer_stack) + render_queue_length + 1 + Held(uploaded) = MAX_BACKBUFFERS
  BY <1>2, <1>3 DEF Conserved, Held
<1>5. Held(uploaded) \in {0, 1} /\ Held(uploaded)' = Held(uploaded) /\ Held(drawn)' = 0
      /\ render_queue_length \in Nat /\ Len(backbuffer_stack) \in Nat
  BY <1>1, <1>2 DEF Held, TypeOK
<1>6. Places'
  BY <1>1, <1>2, <1>3 DEF Places, locks
<1>7. CASE thread # "none" /\ EnqueueForDisplay(drawn) /\ PushJob("render")
           /\ UNCHANGED backbuffer_stack
  <2>1. render_queue_length < MAX_BACKBUFFERS
    BY <1>4, <1>5
  <2>2. /\ Frames' \in Seq(Buffers)
        /\ \A x : x \in Queued' <=> x \in Queued \/ x = drawn
        /\ \A i, j \in DOMAIN Frames' : Frames'[i] = Frames'[j] => i = j
    BY <1>2, <1>3, <1>7, <2>1, EnqueueAdds DEF Conserved
  <2>3. /\ render_queue' \in [RingSlots -> Buffers \cup {NoBuffer}]
        /\ render_queue_length' = render_queue_length + 1
        /\ render_queue_length' \in 0 .. MAX_BACKBUFFERS
        /\ UNCHANGED render_queue_next
    BY <1>2, <1>3, <1>7, <2>1, EnqueueAppends DEF Conserved, EnqueueForDisplay
  <2>4. executor' \in Seq(Jobs) /\ UNCHANGED thread
    BY <1>2, <1>7 DEF PushJob, TypeOK, Jobs
  <2>5. TypeOK'
    BY <1>1, <1>2, <1>7, <2>3, <2>4 DEF TypeOK, locks, VicePlaces
  <2>6. Stacked' = Stacked
    BY <1>7 DEF Stacked
  <2>7. Len(backbuffer_stack') + render_queue_length' + Held(drawn)' + Held(uploaded)'
          = MAX_BACKBUFFERS
    BY <1>4, <1>5, <1>7, <2>3
  <2>8. drawn' \notin Stacked' /\ drawn' \notin Queued' /\ drawn \notin Stacked
    BY <1>1, <1>2, <2>2, <2>5, <2>6 DEF Conserved, Stacked, Queued, TypeOK, NoBuffer, Buffers
  <2>9. Conserved'
    BY <1>1, <1>2, <1>3, <1>7, <2>2, <2>6, <2>7, <2>8 DEF Conserved, NoBuffer, Buffers
  <2> QED
    BY <1>6, <2>5, <2>9 DEF IInv
<1>8. CASE thread = "none" /\ ReturnToPool(drawn) /\ UNCHANGED <<ring, jobs>>
  <2>1. /\ backbuffer_stack' \in Seq(Buffers)
        /\ Len(backbuffer_stack') = Len(backbuffer_stack) + 1
        /\ \A x : x \in Stacked' <=> x \in Stacked \/ x = drawn
        /\ \A i, j \in DOMAIN backbuffer_stack' :
             backbuffer_stack'[i] = backbuffer_stack'[j] => i = j
    BY <1>2, <1>3, <1>8, ReturnAdds DEF Conserved
  <2>2. TypeOK'
    BY <1>1, <1>2, <1>4, <1>5, <1>8, <2>1 DEF TypeOK, ring, locks, jobs, VicePlaces
  <2>3. Frames' = Frames /\ Queued' = Queued
    BY <1>8, FramesKept DEF Queued
  <2>4. Len(backbuffer_stack') + render_queue_length' + Held(drawn)' + Held(uploaded)'
          = MAX_BACKBUFFERS
    BY <1>4, <1>5, <1>8, <2>1 DEF ring
  <2>5. drawn' \notin Stacked' /\ drawn' \notin Queued' /\ drawn \notin Queued
    BY <1>1, <1>2, <2>1, <2>3 DEF Conserved, Stacked, Queued, NoBuffer, Buffers
  <2>6. Conserved'
    BY <1>1, <1>2, <1>3, <1>8, <2>1, <2>3, <2>4, <2>5 DEF Conserved, NoBuffer, Buffers
  <2> QED
    BY <1>6, <2>2, <2>6 DEF IInv
<1> QED
  BY <1>7, <1>8 DEF RefreshEnd

LEMMA RenderSkippedKeeps ==
  ASSUME IInv, RenderSkipped
  PROVE  IInv'
<1>1. /\ rpc = "render" /\ rpc' = "idle" /\ canvas_lock = "none"
      /\ UNCHANGED <<drawn, uploaded, freed, locks, render_skip, jobs, vpc, upc>>
  BY DEF RenderSkipped
<1>2. TypeOK /\ Places /\ Conserved
  BY DEF IInv
<1>3. Held(drawn)' = Held(drawn) /\ Held(uploaded)' = Held(uploaded)
      /\ Held(drawn) \in {0, 1} /\ Held(uploaded) \in {0, 1}
      /\ render_queue_length \in Nat /\ Len(backbuffer_stack) \in Nat
  BY <1>1, <1>2 DEF Held, TypeOK
<1>4. CASE DequeueForDisplay /\ ReturnToPool(render_queue[render_queue_next])
  <2> DEFINE h == render_queue[render_queue_next]
  <2>1. ~freed /\ render_queue_length' = render_queue_length - 1 /\ UNCHANGED render_queue
    BY <1>2, <1>4 DEF Places, DequeueForDisplay, TypeOK
  <2>2. /\ Frames' \in Seq(Buffers) /\ h \in Buffers
        /\ \A x : x \in Queued <=> x \in Queued' \/ x = h
        /\ h \notin Queued'
        /\ \A i, j \in DOMAIN Frames' : Frames'[i] = Frames'[j] => i = j
    BY <1>2, <1>4, DequeueRemoves DEF Conserved
  <2>3. h \notin Stacked /\ h # drawn /\ h # uploaded
    BY <1>2, <2>2 DEF Conserved
  <2>4. /\ backbuffer_stack' \in Seq(Buffers)
        /\ Len(backbuffer_stack') = Len(backbuffer_stack) + 1
        /\ \A x : x \in Stacked' <=> x \in Stacked \/ x = h
        /\ \A i, j \in DOMAIN backbuffer_stack' :
             backbuffer_stack'[i] = backbuffer_stack'[j] => i = j
    BY <1>2, <1>4, <2>2, <2>3, ReturnAdds DEF Conserved
  <2>5. Len(backbuffer_stack) + render_queue_length + Held(drawn) + Held(uploaded)
          = MAX_BACKBUFFERS
    BY <1>2, <2>1 DEF Conserved
  <2>6. render_queue_length > 0 /\ render_queue_next' \in RingSlots
    BY <1>2, <1>4, DequeueTakesHead DEF Conserved, DequeueForDisplay
  <2>7. TypeOK'
    BY <1>1, <1>2, <1>3, <2>1, <2>4, <2>5, <2>6 DEF TypeOK, locks, jobs, RenderPlaces
  <2>8. Places'
    BY <1>1, <1>2, <2>1 DEF Places, locks
  <2>9. Len(backbuffer_stack') + render_queue_length' + Held(drawn)' + Held(uploaded)'
          = MAX_BACKBUFFERS
    BY <1>3, <2>1, <2>4, <2>5
  <2> HIDE DEF h
  <2>10. Conserved'
    BY <1>1, <1>2, <2>2, <2>3, <2>4, <2>9 DEF Conserved, NoBuffer, Buffers
  <2> QED
    BY <2>7, <2>8, <2>10 DEF IInv
<1>5. CASE UNCHANGED <<backbuffer_stack, ring>>
  <2>1. TypeOK' /\ Places'
    BY <1>1, <1>2, <1>5 DEF TypeOK, Places, ring, locks, jobs, RenderPlaces
  <2>2. Frames' = Frames /\ Queued' = Queued /\ Stacked' = Stacked
    BY <1>5, FramesKept DEF Queued, Stacked
  <2>3. Conserved'
    BY <1>1, <1>2, <1>3, <1>5, <2>2 DEF Conserved, ring
  <2> QED
    BY <2>1, <2>3 DEF IInv
<1> QED
  BY <1>4, <1>5 DEF RenderSkipped

LEMMA RenderBeginKeeps ==
  ASSUME IInv, RenderBegin
  PROVE  IInv'
<1>1. /\ rpc = "render" /\ rpc' = "upload" /\ canvas_lock = "none" /\ canvas_lock' = "render"
      /\ UNCHANGED <<backbuffer_stack, drawn, freed, render_lock, render_skip, jobs, vpc, upc>>
  BY DEF RenderBegin
<1>2. TypeOK /\ Places /\ Conserved
  BY DEF IInv
<1>3. uploaded = NoBuffer /\ Stacked' = Stacked
  BY <1>1, <1>2 DEF Places, Stacked
<1>4. CASE DequeueForDisplay /\ uploaded' = render_queue[render_queue_next]
  <2> DEFINE h == render_queue[render_queue_next]
  <2>1. ~freed /\ render_queue_length' = render_queue_length - 1 /\ UNCHANGED render_queue
    BY <1>2, <1>4 DEF Places, DequeueForDisplay, TypeOK
  <2>2. /\ Frames' \in Seq(Buffers) /\ h \in Buffers
        /\ \A x : x \in Queued <=> x \in Queued' \/ x = h
        /\ h \notin Queued'
        /\ \A i, j \in DOMAIN Frames' : Frames'[i] = Frames'[j] => i = j
    BY <1>2, <1>4, DequeueRemoves DEF Conserved
  <2>3. h \notin Stacked /\ h # drawn /\ h # NoBuffer /\ uploaded' = h
    BY <1>2, <1>4, <2>2 DEF Conserved, Buffers, NoBuffer
  <2>4. render_queue_length > 0 /\ render_queue_next' \in RingSlots
        /\ render_queue_length' \in 0 .. MAX_BACKBUFFERS
    BY <1>2, <1>4, DequeueTakesHead DEF Conserved, DequeueForDisplay
  <2>5. TypeOK'
    BY <1>1, <1>2, <2>1, <2>2, <2>3, <2>4 DEF TypeOK, jobs, RenderPlaces
  <2>6. Places'
    BY <1>1, <1>2, <2>1 DEF Places
  <2>7. Len(backbuffer_stack) + render_queue_length + Held(drawn) = MAX_BACKBUFFERS
    <3>1. Len(backbuffer_stack) + render_queue_length + Held(drawn) + 0 = MAX_BACKBUFFERS
      BY <1>2, <1>3, <2>1 DEF Conserved, Held
    <3> QED BY <1>2, <3>1 DEF Held, TypeOK
  <2>8. Len(backbuffer_stack') + render_queue_length' + Held(drawn)' + Held(uploaded)'
          = MAX_BACKBUFFERS
    <3>1. Held(drawn)' = Held(drawn) /\ Held(drawn) \in {0, 1} /\ Held(uploaded)' = 1
      BY <1>1, <2>3 DEF Held
    <3> QED BY <1>1, <1>2, <2>1, <2>7, <3>1 DEF TypeOK
  <2> HIDE DEF h
  <2>9. Conserved'
    BY <1>1, <1>2, <1>3, <2>2, <2>3, <2>8 DEF Conserved, NoBuffer, Buffers
  <2> QED
    BY <2>5, <2>6, <2>9 DEF IInv
<1>5. CASE UNCHANGED <<ring, uploaded>>
  <2>1. TypeOK' /\ Places'
    BY <1>1, <1>2, <1>5 DEF TypeOK, Places, ring, jobs, RenderPlaces
  <2>2. Frames' = Frames /\ Queued' = Queued
    BY <1>5, FramesKept DEF Queued
  <2>3. Held(drawn)' = Held(drawn) /\ Held(uploaded)' = Held(uploaded)
    BY <1>1, <1>5 DEF Held
  <2>4. Conserved'
    BY <1>1, <1>2, <1>3, <1>5, <2>2, <2>3 DEF Conserved, ring
  <2> QED
    BY <2>1, <2>4 DEF IInv
<1> QED
  BY <1>4, <1>5 DEF RenderBegin

LEMMA RenderUploadKeeps ==
  ASSUME IInv, RenderUpload
  PROVE  IInv'
<1>1. /\ rpc = "upload" /\ rpc' = "present" /\ canvas_lock' = "none" /\ render_lock' = "render"
      /\ UNCHANGED <<ring, drawn, freed, render_skip, jobs, vpc, upc>>
  BY DEF RenderUpload
<1>2. TypeOK /\ Places /\ Conserved
  BY DEF IInv
<1>3. Frames' = Frames /\ Queued' = Queued
  BY <1>1, FramesKept DEF Queued
<1>4. CASE uploaded # NoBuffer
  <2>1. ReturnToPool(uploaded) /\ uploaded' = NoBuffer /\ ~freed /\ uploaded \in Buffers
    BY <1>2, <1>4 DEF RenderUpload, Places, TypeOK
  <2>2. /\ backbuffer_stack' \in Seq(Buffers)
        /\ Len(backbuffer_stack') = Len(backbuffer_stack) + 1
        /\ \A x : x \in Stacked' <=> x \in Stacked \/ x = uploaded
        /\ \A i, j \in DOMAIN backbuffer_stack' :
             backbuffer_stack'[i] = backbuffer_stack'[j] => i = j
    BY <1>2, <2>1, ReturnAdds DEF Conserved
  <2>3. Len(backbuffer_stack) + render_queue_length + Held(drawn) + 1 = MAX_BACKBUFFERS
    BY <1>2, <1>4, <2>1 DEF Conserved, Held
  <2>4. Held(drawn)' = Held(drawn) /\ Held(drawn) \in {0, 1} /\ Held(uploaded)' = 0
        /\ render_queue_length \in Nat /\ Len(backbuffer_stack) \in Nat
    BY <1>1, <1>2, <2>1 DEF Held, TypeOK
  <2>5. Len(backbuffer_stack') + render_queue_length' + Held(drawn)' + Held(uploaded)'
          = MAX_BACKBUFFERS
    BY <1>1, <2>2, <2>3, <2>4 DEF ring
  <2>6. TypeOK'
    BY <1>1, <1>2, <2>1, <2>2, <2>3, <2>4 DEF TypeOK, ring, jobs, RenderPlaces
  <2>7. Places'
    BY <1>1, <1>2, <2>1 DEF Places
  <2>8. uploaded' \notin Stacked' /\ uploaded' \notin Queued'
    BY <1>2, <1>3, <2>1, <2>2 DEF Conserved, Stacked, Queued, NoBuffer, Buffers
  <2>9. Conserved'
    BY <1>1, <1>2, <1>3, <2>1, <2>2, <2>5, <2>8 DEF Conserved, NoBuffer, Buffers
  <2> QED
    BY <2>6, <2>7, <2>9 DEF IInv
<1>5. CASE uploaded = NoBuffer
  <2>1. UNCHANGED <<backbuffer_stack, uploaded>>
    BY <1>5 DEF RenderUpload
  <2>2. TypeOK' /\ Places'
    BY <1>1, <1>2, <1>5, <2>1 DEF TypeOK, Places, ring, jobs, RenderPlaces
  <2>3. Stacked' = Stacked /\ Held(drawn)' = Held(drawn) /\ Held(uploaded)' = Held(uploaded)
    BY <1>1, <2>1 DEF Stacked, Held
  <2>4. Conserved'
    BY <1>1, <1>2, <1>3, <2>1, <2>3 DEF Conserved, ring
  <2> QED
    BY <2>2, <2>4 DEF IInv
<1> QED
  BY <1>4, <1>5

LEMMA DestroyContextKeeps ==
  ASSUME IInv, DestroyContext
  PROVE  IInv'
<1>1. /\ upc = "stop" /\ upc' = "done" /\ vpc = "gone" /\ canvas_lock = "none"
      /\ freed' = TRUE /\ backbuffer_stack' = <<>> /\ render_queue_length' = 0
      /\ UNCHANGED <<render_queue, render_queue_next, drawn, uploaded, locks,
                     render_skip, jobs, vpc, rpc>>
  BY DEF DestroyContext
<1>2. TypeOK /\ Places /\ Conserved
  BY DEF IInv
<1>3. drawn = NoBuffer /\ uploaded = NoBuffer
  BY <1>1, <1>2 DEF Places
<1>4. TypeOK' /\ Places'
  BY <1>1, <1>2, <1>3 DEF TypeOK, Places, locks, jobs, UiPlaces, VicePlaces
<1>5. Frames' = <<>>
  BY <1>1 DEF Frames
<1>6. Stacked' = {} /\ Queued' = {}
  BY <1>1, <1>5 DEF Stacked, Queued
<1>7. Conserved'
  BY <1>1, <1>3, <1>5, <1>6 DEF Conserved
<1> QED
  BY <1>4, <1>7 DEF IInv

(* The other actions touch no buffer. *)
Quiet ==
  \/ ViceEnds \/ TakeJob \/ JobOnce \/ RenderEnd \/ Realize \/ FrameClock \/ Update
  \/ InitiateShutdown \/ FreeExecutor \/ Join \/ UiExit \/ Ended \/ UNCHANGED vars

LEMMA QuietKeeps ==
  ASSUME IInv, Quiet
  PROVE  IInv' /\ UNCHANGED buffers
<1>1. TypeOK /\ Places /\ Conserved
  BY DEF IInv
<1>2. UNCHANGED buffers
  BY DEF Quiet, ViceEnds, TakeJob, JobOnce, RenderEnd, Realize, FrameClock, Update, UpdateBegin,
         UpdateView, UpdateViewed, UpdateEnd, InitiateShutdown, FreeExecutor, Join, UiExit,
         Ended, vars
<1>3. /\ backbuffer_stack' = backbuffer_stack /\ render_queue' = render_queue
      /\ render_queue_next' = render_queue_next /\ render_queue_length' = render_queue_length
      /\ drawn' = drawn /\ uploaded' = uploaded /\ freed' = freed
  BY <1>2 DEF buffers, ring
<1>4. executor' \in Seq(Jobs) /\ thread' \in {"none", "up", "ending"}
  <2>1. executor \in Seq(Jobs) /\ thread \in {"none", "up", "ending"}
    BY <1>1 DEF TypeOK
  <2>2. CASE TakeJob
    BY <2>1, <2>2 DEF TakeJob
  <2>3. CASE Realize
    <3>1. <<"init">> \in Seq(Jobs)
      BY DEF Jobs
    <3> QED BY <2>3, <3>1 DEF Realize
  <2>8. CASE FreeExecutor
    <3>1. <<>> \in Seq(Jobs)
      OBVIOUS
    <3> QED BY <2>1, <2>8, <3>1 DEF FreeExecutor
  <2>6. CASE FrameClock
    <3>1. Append(executor, "render") \in Seq(Jobs)
      BY <2>1 DEF Jobs
    <3> QED BY <2>1, <2>6, <3>1 DEF FrameClock, PushJob
  <2>7. CASE InitiateShutdown
    <3>1. Append(executor, "shutdown") \in Seq(Jobs)
      BY <2>1 DEF Jobs
    <3> QED BY <2>1, <2>7, <3>1 DEF InitiateShutdown, jobs
  <2>4. CASE UNCHANGED jobs
    BY <2>1, <2>4 DEF jobs
  <2>5. TakeJob \/ Realize \/ FrameClock \/ InitiateShutdown \/ FreeExecutor \/ UNCHANGED jobs
    BY DEF Quiet, ViceEnds, JobOnce, RenderEnd, Update, UpdateBegin, UpdateView, UpdateViewed,
           UpdateEnd, Join, UiExit, Ended, vars
  <2> QED BY <2>2, <2>3, <2>4, <2>5, <2>6, <2>7, <2>8
<1>5. /\ vpc' \in VicePlaces /\ rpc' \in RenderPlaces /\ upc' \in UiPlaces
      /\ canvas_lock' = canvas_lock /\ render_lock' \in {"none", "render", "ui"}
      /\ vpc' = vpc \/ (vpc = "run" /\ vpc' = "gone")
      /\ rpc' = rpc \/ (rpc # "upload" /\ rpc' # "upload")
      /\ upc' = upc \/ (upc # "done" /\ upc' # "done")
  <2> USE DEF VicePlaces, RenderPlaces, UiPlaces, locks
  <2>1. /\ vpc \in VicePlaces /\ rpc \in RenderPlaces /\ upc \in UiPlaces
        /\ render_lock \in {"none", "render", "ui"}
    BY <1>1 DEF TypeOK
  <2>2. CASE ViceEnds BY <2>1, <2>2 DEF ViceEnds
  <2>3. CASE TakeJob \/ JobOnce \/ RenderEnd BY <2>1, <2>3 DEF TakeJob, JobOnce, RenderEnd
  <2>4. CASE Realize \/ FrameClock BY <2>1, <2>4 DEF Realize, FrameClock
  <2>5. CASE Update
    BY <2>1, <2>5 DEF Update, UpdateBegin, UpdateView, UpdateViewed, UpdateEnd
  <2>6. CASE InitiateShutdown BY <2>1, <2>6 DEF InitiateShutdown
  <2>7. CASE FreeExecutor \/ Join \/ UiExit BY <2>1, <2>7 DEF FreeExecutor, Join, UiExit
  <2>8. CASE Ended \/ UNCHANGED vars BY <2>1, <2>8 DEF Ended, vars
  <2> QED
    BY <2>2, <2>3, <2>4, <2>5, <2>6, <2>7, <2>8 DEF Quiet
<1>11. render_skip' = render_skip \/ render_skip' = TRUE \/ render_skip' = FALSE
  BY DEF Quiet, ViceEnds, TakeJob, JobOnce, RenderEnd, Realize, FrameClock, Update, UpdateBegin,
         UpdateView, UpdateViewed, UpdateEnd, InitiateShutdown, FreeExecutor, Join, UiExit,
         Ended, vars
<1>12. render_skip' \in BOOLEAN
  BY <1>1, <1>11, Zenon DEF TypeOK
<1>6. TypeOK'
  BY <1>1, <1>3, <1>4, <1>5, <1>12 DEF TypeOK
<1>7. Places'
  BY <1>1, <1>3, <1>5 DEF Places
<1>8. Frames' = Frames /\ Queued' = Queued /\ Stacked' = Stacked
  BY <1>3, FramesKept DEF ring, Queued, Stacked
<1>9. Held(drawn)' = Held(drawn) /\ Held(uploaded)' = Held(uploaded)
  BY <1>3 DEF Held
<1>10. Conserved'
  BY <1>1, <1>3, <1>8, <1>9 DEF Conserved
<1> QED
  BY <1>2, <1>6, <1>7, <1>10 DEF IInv

LEMMA NextCases ==
  ASSUME [Next]_vars
  PROVE  \/ RefreshBegin \/ RefreshEnd \/ RenderSkipped \/ RenderBegin \/ RenderUpload
         \/ DestroyContext \/ Quiet
BY DEF Next, Vice, Render, Exit, Quiet

LEMMA InvStep ==
  ASSUME IInv, [Next]_vars
  PROVE  IInv'
BY NextCases, RefreshBeginKeeps, RefreshEndKeeps, RenderSkippedKeeps, RenderBeginKeeps,
   RenderUploadKeeps, DestroyContextKeeps, QuietKeeps

THEOREM Invariant == Spec => []IInv
<1>1. Init => IInv
  BY InvInit
<1>2. IInv /\ [Next]_vars => IInv'
  BY InvStep
<1> QED
  BY <1>1, <1>2, PTL DEF Spec

(* Every variable stays in its range, whatever the three threads do, and the *)
(* two assertions of render_queue.c never fail.                              *)
THEOREM TypeCorrect == Spec => []TypeOK
<1>1. IInv => TypeOK
  BY DEF IInv
<1> QED
  BY <1>1, Invariant, PTL

-----------------------------------------------------------------------------
(* The jobs.  While the render thread is up, all that waits are render jobs, *)
(* but for the job that opens the thread, which is the first.                *)

Opening == executor # <<>> /\ executor[1] = "init"

Waiting  == Len(executor) - (IF Opening THEN 1 ELSE 0)
Rendered == IF rpc = "render" THEN 1 ELSE 0

BeforeExit == {"idle", "update", "updating", "updated"}

JobsInv ==
  /\ thread = "none" => executor = <<>> /\ rpc = "idle" /\ render_queue_length = 0
  /\ thread = "up" => /\ \A i \in DOMAIN executor : i # 1 => executor[i] = "render"
                      /\ executor # <<>> => executor[1] \in {"init", "render"}
                      /\ render_queue_length <= Waiting + Rendered
                      /\ upc \in BeforeExit
  /\ upc \in BeforeExit => thread # "ending"
  /\ upc \in {"join", "joining"} => thread = "ending"
  /\ NoJobAfterJoin

LEMMA JobsCounted ==
  ASSUME TypeOK, JobsInv, thread = "up"
  PROVE  RenderJobs = Waiting + Rendered
<1> DEFINE n == Len(executor)
           R == {i \in DOMAIN executor : executor[i] = "render"}
<1>1. n \in Nat /\ DOMAIN executor = 1 .. n /\ (executor # <<>> <=> n # 0)
  BY DEF TypeOK
<1>2. \A i \in 1 .. n : executor[i] = "render" <=> ~(i = 1 /\ Opening)
  BY <1>1 DEF JobsInv, Opening
<1>3. RenderJobs = Cardinality(R) + Rendered /\ Waiting = IF Opening THEN n - 1 ELSE n
  <2>1. n - 0 = n
    BY <1>1
  <2> QED
    BY <2>1 DEF RenderJobs, Waiting, Rendered
<1>4. Opening => n # 0
  BY <1>1 DEF Opening
<1>5. R = IF Opening THEN 2 .. n ELSE 1 .. n
  BY <1>1, <1>2, <1>4
<1> HIDE DEF n, R
<1>6. Cardinality(2 .. n) = IF 2 > n THEN 0 ELSE n - 2 + 1
  BY <1>1, FS_Interval
<1>7. Cardinality(1 .. n) = IF 1 > n THEN 0 ELSE n - 1 + 1
  BY <1>1, FS_Interval
<1>8. Cardinality(R) = IF Opening THEN n - 1 ELSE n
  BY <1>1, <1>4, <1>5, <1>6, <1>7
<1> QED
  BY <1>3, <1>8

(* A job that is pushed is the last one. *)
LEMMA PushKeeps ==
  ASSUME TypeOK, JobsInv, thread = "up", executor' = Append(executor, "render"),
         UNCHANGED <<thread, rpc>>
  PROVE  /\ \A i \in DOMAIN executor' : i # 1 => executor'[i] = "render"
         /\ executor' # <<>> /\ executor'[1] \in {"init", "render"}
         /\ Waiting' = Waiting + 1 /\ Waiting \in Int /\ Rendered' = Rendered /\ Rendered \in 0 .. 1
<1> DEFINE n == Len(executor)
<1>1. /\ n \in Nat /\ DOMAIN executor = 1 .. n /\ (executor # <<>> <=> n # 0)
      /\ DOMAIN executor' = 1 .. n + 1 /\ Len(executor') = n + 1 /\ executor' # <<>>
      /\ \A i \in 1 .. n : executor'[i] = executor[i]
      /\ executor'[n + 1] = "render"
  BY DEF TypeOK, Jobs
<1> HIDE DEF n
<1>2. \A i \in 1 .. n + 1 : i \in 1 .. n \/ i = n + 1
  BY <1>1
<1>3. \A i \in DOMAIN executor' : i # 1 => executor'[i] = "render"
  BY <1>1, <1>2 DEF JobsInv
<1>4. executor'[1] = IF n = 0 THEN "render" ELSE executor[1]
  BY <1>1
<1>5. executor'[1] \in {"init", "render"}
  BY <1>1, <1>4 DEF JobsInv
<1>6. Opening' <=> Opening
  BY <1>1, <1>4 DEF Opening
<1>7. Waiting' = Waiting + 1 /\ Waiting \in Int
  BY <1>1, <1>6 DEF Waiting, n
<1>8. Rendered' = Rendered /\ Rendered \in 0 .. 1
  BY DEF Rendered
<1> QED
  BY <1>1, <1>3, <1>5, <1>7, <1>8

(* The first job is taken: the frame it is for, if any, has it still.        *)
LEMMA TakeKeeps ==
  ASSUME TypeOK, JobsInv, TakeJob, thread = "up"
  PROVE  /\ \A i \in DOMAIN executor' : executor'[i] = "render"
         /\ Waiting' + Rendered' = Waiting + Rendered
<1> DEFINE n == Len(executor)
<1>1. /\ n \in Nat \ {0} /\ DOMAIN executor = 1 .. n /\ Head(executor) = executor[1]
      /\ executor' = Tail(executor) /\ Len(executor') = n - 1 /\ DOMAIN executor' = 1 .. n - 1
      /\ executor' # <<>> => n # 1
      /\ \A i \in 1 .. n - 1 : executor'[i] = executor[i + 1]
      /\ executor # <<>> /\ rpc = "idle"
      /\ rpc' = IF Head(executor) = "render" THEN "render" ELSE "once"
  BY DEF TypeOK, TakeJob
<1> HIDE DEF n
<1>2. \A i \in 1 .. n - 1 : i + 1 \in 1 .. n /\ i + 1 # 1
  BY <1>1
<1>3. \A i \in DOMAIN executor' : executor'[i] = "render"
  BY <1>1, <1>2 DEF JobsInv
<1>4. ~Opening'
  <2>1. executor' # <<>> => 1 \in DOMAIN executor'
    BY <1>1
  <2> QED
    BY <1>3, <2>1 DEF Opening
<1>5. Waiting' = n - 1
  BY <1>1, <1>4 DEF Waiting
<1>6. Rendered = 0 /\ Rendered' = IF executor[1] = "render" THEN 1 ELSE 0
  BY <1>1 DEF Rendered
<1>7. Waiting = IF executor[1] = "render" THEN n ELSE n - 1
  <2>1. Opening <=> executor[1] # "render"
    BY <1>1 DEF Opening, JobsInv
  <2>2. Waiting = n - (IF Opening THEN 1 ELSE 0)
    BY DEF Waiting, n
  <2> QED
    BY <1>1, <2>1, <2>2
<1> QED
  BY <1>1, <1>3, <1>5, <1>6, <1>7

LEMMA JobsInit == Init => JobsInv
BY DEF Init, JobsInv, NoJobAfterJoin, BeforeExit

(* What the jobs look like to the steps that push none and take none.        *)
LEMMA JobsSame ==
  ASSUME UNCHANGED <<executor, rpc>>
  PROVE  Waiting' = Waiting /\ Rendered' = Rendered
BY DEF Waiting, Opening, Rendered

LEMMA JobsStep ==
  ASSUME TypeOK, JobsInv, [Next]_vars
  PROVE  JobsInv'
<1>0. render_queue_length \in Nat /\ executor \in Seq(Jobs) /\ Waiting \in Int /\ Rendered \in 0 .. 1
  BY DEF TypeOK, Waiting, Rendered
<1>1. CASE RefreshEnd
  <2>1. UNCHANGED <<thread, rpc, upc>>
    BY <1>1 DEF RefreshEnd, PushJob, jobs
  <2>2. CASE thread = "none" \/ thread = "ending"
    <3>1. executor' = executor /\ (thread = "none" => render_queue_length' = render_queue_length)
      BY <1>1, <2>2 DEF RefreshEnd, PushJob, jobs, ring
    <3> QED
      BY <2>1, <2>2, <3>1 DEF JobsInv, NoJobAfterJoin
  <2>3. CASE thread = "up"
    <3>1. /\ executor' = Append(executor, "render")
          /\ render_queue_length' = render_queue_length + 1
      BY <1>1, <2>3 DEF RefreshEnd, PushJob, EnqueueForDisplay
    <3>2. /\ \A i \in DOMAIN executor' : i # 1 => executor'[i] = "render"
          /\ executor'[1] \in {"init", "render"}
          /\ Waiting' = Waiting + 1 /\ Rendered' = Rendered
      BY <2>1, <2>3, <3>1, PushKeeps
    <3>3. render_queue_length' <= Waiting' + Rendered'
      BY <1>0, <2>3, <3>1, <3>2 DEF JobsInv
    <3> QED
      BY <2>1, <2>3, <3>2, <3>3 DEF JobsInv, NoJobAfterJoin, BeforeExit
  <2> QED
    BY <2>2, <2>3 DEF TypeOK
<1>2. CASE FrameClock
  <2>1. UNCHANGED <<thread, rpc, upc, render_queue_length>> /\ thread # "none"
    BY <1>2 DEF FrameClock, PushJob, buffers, ring
  <2>2. CASE thread = "ending"
    <3>1. executor' = executor
      BY <1>2, <2>2 DEF FrameClock, PushJob
    <3> QED
      BY <2>1, <2>2, <3>1 DEF JobsInv, NoJobAfterJoin
  <2>3. CASE thread = "up"
    <3>1. executor' = Append(executor, "render")
      BY <1>2, <2>3 DEF FrameClock, PushJob
    <3>2. /\ \A i \in DOMAIN executor' : i # 1 => executor'[i] = "render"
          /\ executor'[1] \in {"init", "render"}
          /\ Waiting' = Waiting + 1 /\ Rendered' = Rendered
      BY <2>1, <2>3, <3>1, PushKeeps
    <3>3. render_queue_length' <= Waiting' + Rendered'
      BY <1>0, <2>1, <2>3, <3>2 DEF JobsInv
    <3> QED
      BY <2>1, <2>3, <3>2, <3>3 DEF JobsInv, NoJobAfterJoin, BeforeExit
  <2> QED
    BY <2>1, <2>2, <2>3 DEF TypeOK
<1>3. CASE TakeJob
  <2>1. UNCHANGED <<thread, upc, render_queue_length>> /\ executor # <<>>
    BY <1>3 DEF TakeJob, buffers, ring
  <2>2. thread # "none" /\ upc \notin {"joining", "exit", "stop", "done"}
    BY <2>1 DEF JobsInv, NoJobAfterJoin
  <2>3. CASE thread = "ending"
    BY <2>1, <2>2, <2>3 DEF JobsInv, NoJobAfterJoin
  <2>4. CASE thread = "up"
    <3>1. /\ \A i \in DOMAIN executor' : executor'[i] = "render"
          /\ Waiting' + Rendered' = Waiting + Rendered
      BY <1>3, <2>4, TakeKeeps
    <3>2. executor' # <<>> => 1 \in DOMAIN executor'
      <4>1. executor' \in Seq(Jobs)
        BY <1>0, <1>3, <2>1 DEF TakeJob
      <4> QED BY <4>1
    <3> QED
      BY <2>1, <2>2, <2>4, <3>1, <3>2 DEF JobsInv, NoJobAfterJoin
  <2> QED
    BY <2>2, <2>3, <2>4 DEF TypeOK
<1>4. CASE RenderSkipped \/ RenderBegin
  <2>1. /\ UNCHANGED <<executor, thread, upc>> /\ rpc = "render" /\ rpc' \in {"idle", "upload"}
        /\ \/ render_queue_length' = render_queue_length - 1
           \/ render_queue_length' = 0
    BY <1>4 DEF RenderSkipped, RenderBegin, DequeueForDisplay, ring, jobs
  <2>2. Waiting' = Waiting /\ Rendered = 1 /\ Rendered' = 0
    BY <2>1 DEF Waiting, Opening, Rendered
  <2>3. Waiting >= 0
    <3>1. Len(executor) \in Nat /\ (executor # <<>> => Len(executor) # 0)
      BY <1>0
    <3> QED BY <3>1 DEF Waiting, Opening
  <2>4. thread = "up" => render_queue_length' <= Waiting' + Rendered'
    BY <1>0, <2>1, <2>2, <2>3 DEF JobsInv
  <2>5. thread # "none"
    BY <2>1 DEF JobsInv
  <2> QED
    BY <2>1, <2>4, <2>5 DEF JobsInv, NoJobAfterJoin
<1>5. CASE RenderUpload \/ RenderEnd \/ JobOnce
  <2>1. /\ UNCHANGED <<executor, thread, upc, render_queue_length>>
        /\ rpc \notin {"idle", "render"} /\ rpc' # "render"
    BY <1>5 DEF RenderUpload, RenderEnd, JobOnce, ReturnToPool, buffers, ring, jobs
  <2>2. Waiting' = Waiting /\ Rendered' = Rendered
    BY <2>1 DEF Waiting, Opening, Rendered
  <2>3. thread # "none"
    BY <2>1 DEF JobsInv
  <2> QED
    BY <2>1, <2>2, <2>3 DEF JobsInv, NoJobAfterJoin
<1>6. CASE Realize
  <2>1. /\ upc = "idle" /\ upc' = upc /\ thread' = "up" /\ executor' = <<"init">>
        /\ rpc' = "idle" /\ render_queue_length' = 0
    BY <1>6 DEF Realize, JobsInv, buffers, ring
  <2>2. DOMAIN executor' = {1} /\ executor'[1] = "init" /\ Len(executor') = 1
    BY <2>1
  <2>3. Waiting' = 0 /\ Rendered' = 0
    BY <2>1, <2>2 DEF Waiting, Opening, Rendered
  <2> QED
    BY <2>1, <2>2, <2>3 DEF JobsInv, NoJobAfterJoin, BeforeExit
<1>7. CASE InitiateShutdown
  <2>1. upc = "idle" /\ render_queue_length' = render_queue_length /\ rpc' = rpc
    BY <1>7 DEF InitiateShutdown, buffers, ring
  <2>2. CASE thread = "none"
    <3>1. upc' = "exit" /\ UNCHANGED <<executor, thread>>
      BY <1>7, <2>2 DEF InitiateShutdown, jobs
    <3> QED
      BY <2>1, <2>2, <3>1 DEF JobsInv, NoJobAfterJoin, BeforeExit
  <2>3. CASE thread # "none"
    <3>1. upc' = "join" /\ thread' = "ending"
      BY <1>7, <2>3 DEF InitiateShutdown
    <3> QED
      BY <3>1 DEF JobsInv, NoJobAfterJoin, BeforeExit
  <2> QED
    BY <2>2, <2>3
<1>8. CASE FreeExecutor
  <2>1. upc = "join" /\ upc' = "joining" /\ executor' = <<>> /\ thread' = thread
    BY <1>8 DEF FreeExecutor
  <2> QED
    BY <2>1 DEF JobsInv, NoJobAfterJoin, BeforeExit
<1>9. CASE Join \/ UiExit \/ DestroyContext
  <2>1. /\ UNCHANGED <<executor, thread, rpc>> /\ upc \in {"joining", "exit", "stop"}
        /\ upc' \in {"exit", "stop", "done"}
        /\ render_queue_length' = render_queue_length \/ render_queue_length' = 0
    BY <1>9 DEF Join, UiExit, DestroyContext, buffers, ring, jobs
  <2>2. thread # "up"
    BY <2>1 DEF JobsInv, BeforeExit
  <2> QED
    BY <2>1, <2>2 DEF JobsInv, NoJobAfterJoin, BeforeExit
<1>10. CASE Update
  <2>1. /\ UNCHANGED <<executor, thread, rpc, render_queue_length>>
        /\ upc \in BeforeExit /\ upc' \in BeforeExit
    BY <1>10 DEF Update, UpdateBegin, UpdateView, UpdateViewed, UpdateEnd, BeforeExit, buffers, ring, jobs
  <2>2. Waiting' = Waiting /\ Rendered' = Rendered
    BY <2>1, JobsSame
  <2> QED
    BY <2>1, <2>2 DEF JobsInv, NoJobAfterJoin, BeforeExit
<1>11. CASE RefreshBegin \/ ViceEnds \/ Ended \/ UNCHANGED vars
  <2>1. UNCHANGED <<executor, thread, rpc, upc, render_queue_length>>
    BY <1>11 DEF RefreshBegin, ViceEnds, Ended, vars, buffers, ring, jobs
  <2>2. Waiting' = Waiting /\ Rendered' = Rendered
    BY <2>1, JobsSame
  <2> QED
    BY <2>1, <2>2 DEF JobsInv, NoJobAfterJoin
<1> QED
  BY <1>1, <1>2, <1>3, <1>4, <1>5, <1>6, <1>7, <1>8, <1>9, <1>10, <1>11
  DEF Next, Vice, Render, Exit

LEMMA JobsAreCounted == Spec => []JobsInv
<1>1. TypeOK /\ JobsInv /\ [Next]_vars => JobsInv'
  BY JobsStep
<1> QED
  BY <1>1, JobsInit, TypeCorrect, PTL DEF Spec

(* A frame in the ring has a render job of its own on the way, until the     *)
(* shutdown: the handlers that push no job while the ring is not empty leave *)
(* no frame behind.                                                          *)
THEOREM EveryFrameHasJob == Spec => []FrameHasJob
<1>1. TypeOK /\ JobsInv => FrameHasJob
  BY JobsCounted DEF FrameHasJob, JobsInv
<1> QED
  BY <1>1, JobsAreCounted, TypeCorrect, PTL

(* No job reaches an executor that has been freed, by whomever it is pushed. *)
THEOREM FreedExecutorIsEmpty == Spec => []NoJobAfterJoin
<1>1. JobsInv => NoJobAfterJoin
  BY DEF JobsInv
<1> QED
  BY <1>1, JobsAreCounted, PTL

-----------------------------------------------------------------------------
(* The refinement. *)

Owner == [b \in Buffers |-> OwnerOf(b)]

LEMMA OwnerIs ==
  ASSUME NEW b \in Buffers
  PROVE  OwnerOf(b) = IF freed THEN "freed"
                      ELSE IF b = drawn THEN "vice"
                      ELSE IF b = uploaded THEN "render"
                      ELSE IF b \in Queued THEN "queue"
                      ELSE IF b \in Stacked THEN "pool" ELSE "lost"
<1>1. (\E i \in DOMAIN Frames : Frames[i] = b) <=> b \in Queued
  BY DEF Queued
<1>2. (\E i \in DOMAIN backbuffer_stack : backbuffer_stack[i] = b) <=> b \in Stacked
  BY DEF Stacked
<1> QED
  BY <1>1, <1>2 DEF OwnerOf

LEMMA OwnerIsNext ==
  ASSUME NEW b \in Buffers
  PROVE  OwnerOf(b)' = IF freed' THEN "freed"
                       ELSE IF b = drawn' THEN "vice"
                       ELSE IF b = uploaded' THEN "render"
                       ELSE IF b \in Queued' THEN "queue"
                       ELSE IF b \in Stacked' THEN "pool" ELSE "lost"
<1>1. (\E i \in DOMAIN Frames' : Frames'[i] = b) <=> b \in Queued'
  BY DEF Queued
<1>2. (\E i \in DOMAIN backbuffer_stack' : backbuffer_stack'[i] = b) <=> b \in Stacked'
  BY DEF Stacked
<1> QED
  BY <1>1, <1>2 DEF OwnerOf

(* A buffer moves, and the others stay. *)
LEMMA OneMoves ==
  ASSUME NEW b \in Buffers, NEW to,
         OwnerOf(b) # to,
         \A x \in Buffers : OwnerOf(x)' = IF x = b THEN to ELSE OwnerOf(x)
  PROVE  Owner' = [Owner EXCEPT ![b] = to]
BY DEF Owner

LEMMA RefreshBeginDraws ==
  ASSUME IInv, RefreshBegin
  PROVE  \E b \in Buffers : Promise!Draw(b)
<1>1. IInv'
  BY RefreshBeginKeeps
<1>2. /\ backbuffer_stack # <<>> /\ drawn' = Top /\ UNCHANGED <<ring, uploaded, freed>>
      /\ backbuffer_stack' = SubSeq(backbuffer_stack, 1, Len(backbuffer_stack) - 1)
      /\ vpc = "run" /\ vpc' = "draw"
  BY DEF RefreshBegin
<1>3. drawn = NoBuffer /\ ~freed
  BY <1>1, <1>2 DEF IInv, Places
<1>4. PICK b \in Buffers : b = drawn' /\ b = Top
  BY <1>1, <1>2, PopRemoves DEF IInv, Conserved
<1>5. \A x : x \in Stacked <=> x \in Stacked' \/ x = b
  BY <1>2, <1>4, PopRemoves DEF IInv, Conserved
<1>6. Frames' = Frames /\ Queued' = Queued
  BY <1>2, FramesKept DEF Queued
<1>7. b \in Stacked /\ b \notin Queued /\ b # drawn /\ b # uploaded
  BY <1>3, <1>4, <1>5 DEF IInv, Conserved, Buffers, NoBuffer
<1>8. \A x \in Buffers : OwnerOf(x)' = IF x = b THEN "vice" ELSE OwnerOf(x)
  BY <1>2, <1>3, <1>4, <1>5, <1>6, OwnerIs, OwnerIsNext DEF Buffers, NoBuffer
<1>9. OwnerOf(b) = "pool"
  BY <1>3, <1>7, OwnerIs
<1>10. \A x \in Buffers : OwnerOf(x) # "vice"
  BY <1>3, OwnerIs DEF Buffers, NoBuffer
<1>11. Owner' = [Owner EXCEPT ![b] = "vice"]
  BY <1>8, <1>9, OneMoves
<1> QED
  BY <1>6, <1>9, <1>10, <1>11 DEF Promise!Draw, Promise!Moves, Owner

LEMMA RefreshEndFinishes ==
  ASSUME IInv, RefreshEnd
  PROVE  \E b \in Buffers : Promise!Finish(b) \/ Promise!GiveUp(b)
<1>1. /\ vpc = "draw" /\ drawn' = NoBuffer /\ uploaded' = uploaded /\ freed' = freed
  BY DEF RefreshEnd
<1>2. TypeOK /\ Places /\ Conserved
  BY DEF IInv
<1>3. PICK b \in Buffers : b = drawn
  BY <1>1, <1>2 DEF Places, TypeOK
<1>4. ~freed /\ b # uploaded /\ b \notin Queued /\ b \notin Stacked /\ b # NoBuffer
  BY <1>1, <1>2, <1>3 DEF Places, Conserved, Buffers, NoBuffer
<1>5. OwnerOf(b) = "vice" /\ Owner[b] = "vice"
  BY <1>3, <1>4, OwnerIs DEF Owner
<1>6. CASE EnqueueForDisplay(drawn) /\ UNCHANGED backbuffer_stack
  <2>1. Len(backbuffer_stack) + render_queue_length + 1 + Held(uploaded) = MAX_BACKBUFFERS
    BY <1>2, <1>3, <1>4 DEF Conserved, Held
  <2>2. render_queue_length < MAX_BACKBUFFERS
    BY <1>2, <2>1 DEF Held, TypeOK
  <2>3. /\ Frames' = Append(Frames, b)
        /\ \A x : x \in Queued' <=> x \in Queued \/ x = b
    BY <1>2, <1>3, <1>6, <2>2, EnqueueAdds, EnqueueAppends DEF Conserved
  <2>4. Stacked' = Stacked
    BY <1>6 DEF Stacked
  <2>5. \A x \in Buffers : OwnerOf(x)' = IF x = b THEN "queue" ELSE OwnerOf(x)
    BY <1>1, <1>3, <1>4, <2>3, <2>4, OwnerIs, OwnerIsNext DEF Buffers, NoBuffer
  <2>6. Owner' = [Owner EXCEPT ![b] = "queue"]
    BY <1>5, <2>5, OneMoves
  <2> QED
    BY <1>5, <2>3, <2>6 DEF Promise!Finish, Promise!Moves, Owner
<1>7. CASE ReturnToPool(drawn) /\ UNCHANGED ring
  <2>1. \A x : x \in Stacked' <=> x \in Stacked \/ x = b
    BY <1>2, <1>3, <1>7, ReturnAdds
  <2>2. Frames' = Frames /\ Queued' = Queued
    BY <1>7, FramesKept DEF Queued
  <2>3. \A x \in Buffers : OwnerOf(x)' = IF x = b THEN "pool" ELSE OwnerOf(x)
    BY <1>1, <1>3, <1>4, <2>1, <2>2, OwnerIs, OwnerIsNext DEF Buffers, NoBuffer
  <2>4. Owner' = [Owner EXCEPT ![b] = "pool"]
    BY <1>5, <2>3, OneMoves
  <2> QED
    BY <1>5, <2>2, <2>4 DEF Promise!GiveUp, Promise!Moves, Owner
<1> QED
  BY <1>6, <1>7 DEF RefreshEnd

LEMMA DequeueShows ==
  ASSUME IInv, RenderSkipped \/ RenderBegin
  PROVE  (\E b \in Buffers : Promise!Show(b) \/ Promise!Skip(b)) \/ UNCHANGED <<Owner, Frames>>
<1>1. TypeOK /\ Places /\ Conserved
  BY DEF IInv
<1>2. /\ rpc = "render" /\ uploaded = NoBuffer
      /\ drawn' = drawn /\ freed' = freed
  BY <1>1 DEF RenderSkipped, RenderBegin, Places
<1>3. CASE DequeueForDisplay
  <2>1. PICK b : b = render_queue[render_queue_next]
    OBVIOUS
  <2>2. /\ b \in Buffers /\ Frames # <<>> /\ b = Head(Frames) /\ Frames' = Tail(Frames)
        /\ \A x : x \in Queued <=> x \in Queued' \/ x = b
        /\ b \notin Queued'
    BY <1>1, <1>3, <2>1, DequeueRemoves, DequeueTakesHead DEF Conserved
  <2>3. ~freed /\ b # drawn /\ b # uploaded /\ b \notin Stacked /\ b \in Queued /\ b # NoBuffer
    BY <1>1, <1>2, <1>3, <2>2 DEF Places, Conserved, DequeueForDisplay, Buffers, NoBuffer, TypeOK
  <2>4. OwnerOf(b) = "queue" /\ Owner[b] = "queue"
    BY <2>2, <2>3, OwnerIs DEF Owner
  <2>5. CASE RenderSkipped
    <3>1. ReturnToPool(b) /\ uploaded' = uploaded
      BY <1>3, <2>1, <2>5 DEF RenderSkipped, DequeueForDisplay
    <3>2. \A x : x \in Stacked' <=> x \in Stacked \/ x = b
      BY <1>1, <2>2, <3>1, ReturnAdds
    <3>3. \A x \in Buffers : OwnerOf(x)' = IF x = b THEN "pool" ELSE OwnerOf(x)
      BY <1>2, <2>2, <2>3, <3>1, <3>2, OwnerIs, OwnerIsNext DEF Buffers, NoBuffer
    <3>4. Owner' = [Owner EXCEPT ![b] = "pool"]
      BY <2>2, <2>4, <3>3, OneMoves
    <3> QED
      BY <2>2, <2>4, <3>4 DEF Promise!Skip, Promise!Moves, Owner
  <2>6. CASE RenderBegin
    <3>1. uploaded' = b /\ Stacked' = Stacked
      BY <1>3, <2>1, <2>6 DEF RenderBegin, DequeueForDisplay, Stacked
    <3>2. \A x \in Buffers : OwnerOf(x)' = IF x = b THEN "render" ELSE OwnerOf(x)
      BY <1>2, <2>2, <2>3, <3>1, OwnerIs, OwnerIsNext DEF Buffers, NoBuffer
    <3>3. Owner' = [Owner EXCEPT ![b] = "render"]
      BY <2>2, <2>4, <3>2, OneMoves
    <3> QED
      BY <2>2, <2>4, <3>3 DEF Promise!Show, Promise!Moves, Owner
  <2> QED
    BY <2>5, <2>6
<1>4. CASE UNCHANGED <<backbuffer_stack, ring, uploaded>>
  <2>1. Frames' = Frames /\ Queued' = Queued /\ Stacked' = Stacked
    BY <1>4, FramesKept DEF Queued, Stacked
  <2>2. \A x \in Buffers : OwnerOf(x)' = OwnerOf(x)
    BY <1>2, <1>4, <2>1, OwnerIs, OwnerIsNext
  <2> QED
    BY <2>1, <2>2 DEF Owner
<1> QED
  BY <1>3, <1>4 DEF RenderSkipped, RenderBegin

LEMMA UploadShown ==
  ASSUME IInv, RenderUpload
  PROVE  (\E b \in Buffers : Promise!Shown(b)) \/ UNCHANGED <<Owner, Frames>>
<1>1. TypeOK /\ Places /\ Conserved
  BY DEF IInv
<1>2. UNCHANGED ring /\ drawn' = drawn /\ freed' = freed
  BY DEF RenderUpload
<1>3. Frames' = Frames /\ Queued' = Queued
  BY <1>2, FramesKept DEF Queued
<1>4. CASE uploaded # NoBuffer
  <2>1. PICK b \in Buffers : b = uploaded
    BY <1>1, <1>4 DEF TypeOK
  <2>2. ReturnToPool(b) /\ uploaded' = NoBuffer
    BY <1>4, <2>1 DEF RenderUpload
  <2>3. ~freed /\ b # drawn /\ b \notin Queued /\ b # NoBuffer
    BY <1>1, <1>4, <2>1 DEF Places, Conserved
  <2>4. \A x : x \in Stacked' <=> x \in Stacked \/ x = b
    BY <1>1, <2>2, ReturnAdds
  <2>5. OwnerOf(b) = "render" /\ Owner[b] = "render"
    BY <2>1, <2>3, OwnerIs DEF Owner
  <2>6. \A x \in Buffers : OwnerOf(x)' = IF x = b THEN "pool" ELSE OwnerOf(x)
    BY <1>2, <1>3, <2>1, <2>2, <2>3, <2>4, OwnerIs, OwnerIsNext DEF Buffers, NoBuffer
  <2>7. Owner' = [Owner EXCEPT ![b] = "pool"]
    BY <2>5, <2>6, OneMoves
  <2> QED
    BY <1>3, <2>5, <2>7 DEF Promise!Shown, Promise!Moves, Owner
<1>5. CASE uploaded = NoBuffer
  <2>1. uploaded' = uploaded /\ Stacked' = Stacked
    BY <1>5 DEF RenderUpload, Stacked
  <2>2. \A x \in Buffers : OwnerOf(x)' = OwnerOf(x)
    BY <1>2, <1>3, <2>1, OwnerIs, OwnerIsNext
  <2> QED
    BY <1>3, <2>2 DEF Owner
<1> QED
  BY <1>4, <1>5

LEMMA DestroyFrees ==
  ASSUME IInv, DestroyContext
  PROVE  Promise!FreeAll
<1>1. /\ upc = "stop" /\ vpc = "gone" /\ canvas_lock = "none" /\ freed' = TRUE
      /\ render_queue_length' = 0
  BY DEF DestroyContext
<1>2. drawn = NoBuffer /\ uploaded = NoBuffer /\ ~freed
  BY <1>1 DEF IInv, Places
<1>3. \A b \in Buffers : OwnerOf(b) \in {"pool", "queue"}
  <2>1. \A b \in Buffers : b # NoBuffer /\ (b \in Queued \/ b \in Stacked)
    BY <1>2 DEF IInv, Conserved, Buffers, NoBuffer
  <2> QED BY <1>2, <2>1, OwnerIs
<1>4. \A b \in Buffers : OwnerOf(b)' = "freed"
  BY <1>1, OwnerIsNext
<1>5. Frames' = <<>>
  BY <1>1 DEF Frames
<1> QED
  BY <1>3, <1>4, <1>5 DEF Promise!FreeAll, Owner

LEMMA QuietStutters ==
  ASSUME UNCHANGED buffers
  PROVE  UNCHANGED <<Owner, Frames>>
<1>1. UNCHANGED ring /\ UNCHANGED <<backbuffer_stack, drawn, uploaded, freed>>
  BY DEF buffers
<1>2. Frames' = Frames /\ Queued' = Queued /\ Stacked' = Stacked
  BY <1>1, FramesKept DEF Queued, Stacked
<1>3. \A x \in Buffers : OwnerOf(x)' = OwnerOf(x)
  BY <1>1, <1>2, OwnerIs, OwnerIsNext
<1> QED
  BY <1>2, <1>3 DEF Owner

LEMMA StepSimulation ==
  ASSUME IInv, [Next]_vars
  PROVE  [Promise!Next]_<<Owner, Frames>>
<1>1. CASE RefreshBegin BY <1>1, RefreshBeginDraws DEF Promise!Next
<1>2. CASE RefreshEnd BY <1>2, RefreshEndFinishes DEF Promise!Next
<1>3. CASE RenderSkipped \/ RenderBegin BY <1>3, DequeueShows DEF Promise!Next
<1>4. CASE RenderUpload BY <1>4, UploadShown DEF Promise!Next
<1>5. CASE DestroyContext BY <1>5, DestroyFrees DEF Promise!Next
<1>6. CASE Quiet BY <1>6, QuietKeeps, QuietStutters
<1> QED
  BY NextCases, <1>1, <1>2, <1>3, <1>4, <1>5, <1>6

LEMMA InitSimulation == Init => Promise!Init
<1> SUFFICES ASSUME Init PROVE Promise!Init
  OBVIOUS
<1>1. Frames = <<>> /\ drawn = NoBuffer /\ uploaded = NoBuffer /\ ~freed
  BY DEF Init, Frames
<1>2. \A b \in Buffers : b \in Stacked /\ b \notin Queued
  BY <1>1 DEF Init, Stacked, Queued, Buffers
<1>3. \A b \in Buffers : OwnerOf(b) = "pool"
  BY <1>1, <1>2, OwnerIs DEF Buffers, NoBuffer
<1> QED
  BY <1>1, <1>3 DEF Promise!Init

(* Each back buffer has one owner at a time, frames come out in the order    *)
(* they went in, and all buffers are freed when nobody uses them any more.   *)
THEOREM KeepsBackbuffers == Spec => ImplementsBackbuffers
<1>1. IInv /\ [Next]_vars => [Promise!Next]_<<Owner, Frames>>
  BY StepSimulation
<1> QED
  BY <1>1, InitSimulation, Invariant, PTL DEF Spec, ImplementsBackbuffers, Promise!Spec, Owner
=============================================================================
