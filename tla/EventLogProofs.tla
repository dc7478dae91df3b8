--------------------------- MODULE EventLogProofs ---------------------------
(***************************************************************************)
(* What a history is good for, for any bounds: it is complete, and what is *)
(* played back is what was recorded.                                       *)
(*                                                                         *)
(* The list that is played is not the one that was recorded: a file is     *)
(* between them, which leaves timestamps out and makes them anew.  So the  *)
(* first half is about lists only.  What is selected of a list, where it   *)
(* ends, what is read of one that was written: each is a recursive         *)
(* function, shown by induction over the numbers, which is stated here of  *)
(* sets (NatInduct).  ReadList is what it comes to.                        *)
(*                                                                         *)
(* The second half is the invariant.  ModesInv relates the modes to the    *)
(* traps that wait.  HistoryInv relates four things that a game leaves     *)
(* behind: the list, the file of its end, the snapshot it started from,    *)
(* and what happened to the machine, the order of the clocks included.     *)
(* That order is why a playback is never late for an event: its alarm is   *)
(* dispatched at the clock that the event had.                             *)
(***************************************************************************)
EXTENDS EventLog, WellFoundedInduction, SequenceTheorems, TLAPS

(* Induction over the numbers, and over lists, as facts about sets. *)
LEMMA LeastNumber ==
  ASSUME NEW T, T \subseteq Nat, T # {}
  PROVE  \E x \in T : \A y \in T : x <= y
  <1>1. \E x \in T : \A y \in T : ~ (<<y, x>> \in OpToRel(<, Nat))
    BY Zenon, NatLessThanWellFounded, WFMin
  <1>2. ASSUME NEW x \in Nat, NEW y \in Nat, ~(y < x) PROVE x <= y
    BY <1>2
  <1>3. ASSUME NEW x \in Nat, NEW y \in Nat, <<y, x>> \notin OpToRel(<, Nat) PROVE ~(y < x)
    BY Zenon, <1>3 DEF OpToRel
  <1> QED
    BY Zenon, <1>1, <1>2, <1>3

(* A set that 0 and every successor is in has all the numbers. *)
LEMMA NatInduct ==
  ASSUME NEW T, 0 \in T, \A n \in Nat : n \in T => n + 1 \in T
  PROVE  Nat \subseteq T
  <1> SUFFICES ASSUME Nat \ T # {} PROVE FALSE
    OBVIOUS
  <1>1. PICK x \in Nat \ T : \A y \in Nat \ T : x <= y
    BY LeastNumber
  <1>2. x - 1 \in Nat /\ ~(x <= x - 1) /\ (x - 1) + 1 = x
    BY <1>1
  <1> QED
    BY <1>1, <1>2

(* A set that the empty list is in, and each list one longer, has all lists. *)
LEMMA SeqInduct ==
  ASSUME NEW S, NEW T, <<>> \in T,
         \A s \in Seq(S), e \in S : s \in T => Append(s, e) \in T
  PROVE  Seq(S) \subseteq T
  <1> DEFINE Upto == {n \in Nat : \A s \in Seq(S) : Len(s) = n => s \in T}
  <1>1. 0 \in Upto
    OBVIOUS
  <1>2. ASSUME NEW n \in Nat, n \in Upto PROVE n + 1 \in Upto
    <2> SUFFICES ASSUME NEW s \in Seq(S), Len(s) = n + 1 PROVE s \in T
      OBVIOUS
    <2> DEFINE front == SubSeq(s, 1, n)
    <2>1. front \in Seq(S) /\ Len(front) = n /\ s[n + 1] \in S
      OBVIOUS
    <2>2. s = Append(front, s[n + 1])
      OBVIOUS
    <2>3. front \in T
      BY <1>2, <2>1
    <2> HIDE DEF front
    <2> QED
      BY <2>1, <2>2, <2>3
  <1> HIDE DEF Upto
  <1>3. Nat \subseteq Upto
    BY <1>1, <1>2, NatInduct
  <1> QED
    BY <1>3 DEF Upto

(* A function by recursion: from a, each step goes on from the one before. *)
Recursive(f, n, A, a, step) ==
  f \in [0 .. n -> A] /\ f[0] = a /\ \A k \in 1 .. n : f[k] = step[k][f[k - 1]]

(* There is such a function, of any length. *)
LEMMA Recursion ==
  ASSUME NEW n, n \in Nat, NEW A, NEW a, a \in A, NEW step, step \in [1 .. n -> [A -> A]]
  PROVE  \E f : Recursive(f, n, A, a, step)
  <1> DEFINE Rec(f, m) == f \in [0 .. m -> A] /\ f[0] = a /\ \A k \in 1 .. m : f[k] = step[k][f[k - 1]]
             Upto == {m \in Nat : m <= n => \E f : Rec(f, m)}
  <1>1. 0 \in Upto
    <2>1. Rec([k \in 0 .. 0 |-> a], 0)
      OBVIOUS
    <2> HIDE DEF Rec
    <2> QED
      BY <2>1
  <1>2. ASSUME NEW m \in Nat, m \in Upto PROVE m + 1 \in Upto
    <2> SUFFICES ASSUME m + 1 <= n PROVE \E f : Rec(f, m + 1)
      OBVIOUS
    <2>1. PICK f : Rec(f, m)
      BY <1>2
    <2>2. m \in 0 .. m /\ m + 1 \in 1 .. n /\ (m + 1) - 1 = m
      OBVIOUS
    <2>3. f[m] \in A /\ step[m + 1] \in [A -> A]
      BY <2>1, <2>2
    <2> DEFINE g == [k \in 0 .. m + 1 |-> IF k <= m THEN f[k] ELSE step[m + 1][f[m]]]
    <2>4. g \in [0 .. m + 1 -> A]
      BY <2>1, <2>3
    <2>5. g[m + 1] = step[m + 1][f[m]] /\ \A k \in 0 .. m : g[k] = f[k]
      OBVIOUS
    <2> HIDE DEF g
    <2>6. \A k \in 1 .. m + 1 : g[k] = step[k][g[k - 1]]
      <3> TAKE k \in 1 .. m + 1
      <3>1. CASE k <= m
        <4>1. k \in 0 .. m /\ k \in 1 .. m /\ k - 1 \in 0 .. m
          BY <3>1
        <4> QED
          BY <2>1, <2>5, <4>1
      <3>2. CASE ~(k <= m)
        <4>1. k = m + 1
          BY <3>2
        <4> QED
          BY <2>2, <2>5, <4>1
      <3> QED
        BY <3>1, <3>2
    <2>7. g[0] = a
      BY <2>1, <2>5
    <2> QED
      BY <2>4, <2>6, <2>7
  <1> HIDE DEF Upto
  <1>3. n \in Upto
    BY <1>1, <1>2, NatInduct
  <1> QED
    BY <1>3 DEF Upto, Recursive

-----------------------------------------------------------------------------
(* What is selected of a list. *)

(* Selected(s) is the last value of a function: these are its steps. *)
SelectNext(s, f, k) ==
  IF k = 0 THEN <<>> ELSE IF IsEvent(s[k]) THEN Append(f[k - 1], s[k]) ELSE f[k - 1]
Selecting(s, f) == f = [k \in 0 .. Len(s) |-> SelectNext(s, f, k)]

(* The function that Selected(s) defines exists. *)
LEMMA SelectingExists ==
  ASSUME NEW S, NEW s \in Seq(S)
  PROVE  \E f : Selecting(s, f) /\ Selected(s) = f[Len(s)]
  <1> DEFINE n == Len(s)
             step == [k \in 1 .. n |-> [x \in Seq(S) |-> IF IsEvent(s[k]) THEN Append(x, s[k]) ELSE x]]
  <1>0. n \in Nat /\ \A k \in 1 .. n : s[k] \in S
    OBVIOUS
  <1> HIDE DEF n
  <1>1. step \in [1 .. n -> [Seq(S) -> Seq(S)]]
    BY <1>0
  <1>2. \A k \in 1 .. n, x \in Seq(S) : step[k][x] = IF IsEvent(s[k]) THEN Append(x, s[k]) ELSE x
    OBVIOUS
  <1> HIDE DEF step
  <1>3. PICK g \in [0 .. n -> Seq(S)] : g[0] = <<>> /\ \A k \in 1 .. n : g[k] = step[k][g[k - 1]]
    <2>1. <<>> \in Seq(S)
      OBVIOUS
    <2>2. \E g : Recursive(g, n, Seq(S), <<>>, step)
      BY <1>0, <1>1, <2>1, Recursion
    <2> QED
      BY <2>2 DEF Recursive
  <1>4. \A k \in 0 .. n : g[k] = SelectNext(s, g, k)
    <2> TAKE k \in 0 .. n
    <2>1. CASE k = 0
      BY <1>3, <2>1 DEF SelectNext
    <2>2. CASE k # 0
      <3>1. k \in 1 .. n /\ k - 1 \in 0 .. n
        BY <1>0, <2>2
      <3>2. g[k - 1] \in Seq(S)
        BY <3>1
      <3> QED
        BY <1>2, <1>3, <2>2, <3>1, <3>2 DEF SelectNext
    <2> QED
      BY <2>1, <2>2
  <1>5. g = [k \in 0 .. n |-> SelectNext(s, g, k)]
    BY <1>4
  <1>6. Selecting(s, g)
    BY <1>5 DEF Selecting, n
  <1>7. Selected(s) = (CHOOSE f : Selecting(s, f))[Len(s)]
    BY Zenon DEF Selected, Selecting, SelectNext
  <1> QED
    BY <1>6, <1>7, Zenon

(* It is a list of the same kind. *)
LEMMA SelectedSteps ==
  ASSUME NEW S, NEW s \in Seq(S), NEW f, Selecting(s, f)
  PROVE  /\ f[0] = <<>>
         /\ \A k \in 1 .. Len(s) : f[k] = IF IsEvent(s[k]) THEN Append(f[k - 1], s[k]) ELSE f[k - 1]
  <1> DEFINE n == Len(s)
  <1>0. n \in Nat
    OBVIOUS
  <1>1. \A k \in 0 .. n : f[k] = SelectNext(s, f, k)
    BY DEF Selecting
  <1> HIDE DEF n
  <1>2. f[0] = <<>>
    BY <1>0, <1>1 DEF SelectNext
  <1>3. \A k \in 1 .. n : k # 0 /\ f[k] = SelectNext(s, f, k)
    BY <1>0, <1>1
  <1>4. \A k \in 1 .. n : f[k] = IF IsEvent(s[k]) THEN Append(f[k - 1], s[k]) ELSE f[k - 1]
    BY <1>3, Zenon DEF SelectNext
  <1> QED
    BY <1>2, <1>4 DEF n

(* Nothing of an empty list. *)
LEMMA SelectedEmpty == Selected(<<>>) = <<>>
  <1>1. <<>> \in Seq({}) /\ Len(<<>>) = 0
    OBVIOUS
  <1>2. PICK f : Selecting(<<>>, f) /\ Selected(<<>>) = f[Len(<<>>)]
    BY <1>1, SelectingExists, Zenon
  <1>3. f[0] = <<>>
    BY <1>1, <1>2, SelectedSteps, Zenon
  <1> QED
    BY <1>1, <1>2, <1>3, Zenon

(* One event more of a list that is one event longer. *)
LEMMA SelectedAppend ==
  ASSUME NEW S, NEW s \in Seq(S), NEW e \in S
  PROVE  Selected(Append(s, e)) = IF IsEvent(e) THEN Append(Selected(s), e) ELSE Selected(s)
  <1> DEFINE t == Append(s, e)
             n == Len(s)
             m == Len(t)
  <1>0. n \in Nat /\ t \in Seq(S) /\ m = n + 1 /\ t[n + 1] = e /\ \A k \in 1 .. n : t[k] = s[k]
    OBVIOUS
  <1> HIDE DEF t
  <1>1. PICK f : Selecting(s, f) /\ Selected(s) = f[Len(s)]
    BY SelectingExists
  <1>2. PICK g : Selecting(t, g) /\ Selected(t) = g[Len(t)]
    BY <1>0, SelectingExists
  <1>3. f[0] = <<>> /\ \A k \in 1 .. n : f[k] = IF IsEvent(s[k]) THEN Append(f[k - 1], s[k]) ELSE f[k - 1]
    BY <1>1, SelectedSteps
  <1>4. g[0] = <<>> /\ \A k \in 1 .. m : g[k] = IF IsEvent(t[k]) THEN Append(g[k - 1], t[k]) ELSE g[k - 1]
    BY <1>0, <1>2, SelectedSteps
  <1>5. Selected(s) = f[n] /\ Selected(t) = g[m]
    BY <1>1, <1>2
  <1> HIDE DEF n, m
  <1> DEFINE Same == {k \in Nat : k <= n => g[k] = f[k]}
  <1>6. 0 \in Same
    BY <1>3, <1>4
  <1>7. ASSUME NEW k \in Nat, k \in Same PROVE k + 1 \in Same
    <2> SUFFICES ASSUME k + 1 <= n PROVE g[k + 1] = f[k + 1]
      OBVIOUS
    <2> DEFINE j == k + 1
    <2>1. j \in 1 .. n /\ j \in 1 .. m /\ j - 1 = k /\ g[k] = f[k]
      BY <1>0, <1>7
    <2> HIDE DEF j
    <2>2. f[j] = IF IsEvent(s[j]) THEN Append(f[k], s[j]) ELSE f[k]
      BY <1>3, <2>1
    <2>3. g[j] = IF IsEvent(t[j]) THEN Append(g[k], t[j]) ELSE g[k]
      BY <1>4, <2>1
    <2>4. t[j] = s[j]
      BY <1>0, <2>1
    <2>5. g[j] = f[j]
      BY <2>1, <2>2, <2>3, <2>4
    <2> QED
      BY <2>5 DEF j
  <1> HIDE DEF Same
  <1>8. n \in Same
    BY <1>0, <1>6, <1>7, NatInduct
  <1>9. g[n] = f[n]
    BY <1>0, <1>8 DEF Same
  <1>10. m \in 1 .. m /\ m - 1 = n /\ t[m] = e
    BY <1>0
  <1>11. g[m] = IF IsEvent(t[m]) THEN Append(g[n], t[m]) ELSE g[n]
    BY <1>4, <1>10
  <1>12. Selected(t) = IF IsEvent(e) THEN Append(Selected(s), e) ELSE Selected(s)
    BY <1>5, <1>9, <1>10, <1>11
  <1> QED
    BY <1>12 DEF t

(* What is selected is of the list, and is not longer. *)
LEMMA SelectedType ==
  ASSUME NEW S, NEW s \in Seq(S)
  PROVE  Selected(s) \in Seq({e \in S : IsEvent(e)})
  <1> DEFINE E == {e \in S : IsEvent(e)}
             T == {t \in Seq(S) : Selected(t) \in Seq(E)}
  <1>1. <<>> \in T
    <2>1. <<>> \in Seq(S) /\ <<>> \in Seq(E)
      OBVIOUS
    <2> HIDE DEF E
    <2> QED
      BY <2>1, SelectedEmpty
  <1>2. ASSUME NEW t \in Seq(S), NEW e \in S, t \in T PROVE Append(t, e) \in T
    <2>1. Selected(t) \in Seq(E) /\ (IsEvent(e) => e \in E) /\ Append(t, e) \in Seq(S)
      BY <1>2
    <2>2. Selected(Append(t, e)) = IF IsEvent(e) THEN Append(Selected(t), e) ELSE Selected(t)
      BY SelectedAppend
    <2> HIDE DEF E
    <2>3. Selected(Append(t, e)) \in Seq(E)
      BY <2>1, <2>2
    <2> QED
      BY <2>1, <2>3
  <1> HIDE DEF T
  <1>3. Seq(S) \subseteq T
    BY <1>1, <1>2, SeqInduct
  <1> QED
    BY <1>3 DEF T

(* All of a list that has no timestamps, and nothing of its timestamps. *)
LEMMA EventsSelected ==
  ASSUME NEW S, \A e \in S : IsEvent(e), NEW s \in Seq(S)
  PROVE  Selected(s) = s
  <1> DEFINE T == {t \in Seq(S) : Selected(t) = t}
  <1>1. <<>> \in T
    BY SelectedEmpty
  <1>2. ASSUME NEW t \in Seq(S), NEW e \in S, t \in T PROVE Append(t, e) \in T
    <2>1. Selected(Append(t, e)) = Append(Selected(t), e)
      BY SelectedAppend
    <2> QED
      BY <1>2, <2>1
  <1> HIDE DEF T
  <1>3. Seq(S) \subseteq T
    BY <1>1, <1>2, SeqInduct
  <1> QED
    BY <1>3 DEF T

(* Nothing of timestamps behind a list. *)
LEMMA StampsNotSelected ==
  ASSUME NEW S, NEW s \in Seq(S), NEW R, R \subseteq S, \A e \in R : ~IsEvent(e), NEW r \in Seq(R)
  PROVE  Selected(s \o r) = Selected(s)
  <1> DEFINE T == {t \in Seq(R) : Selected(s \o t) = Selected(s)}
  <1>1. <<>> \in T
    <2>1. s \o <<>> = s
      OBVIOUS
    <2> QED
      BY <2>1
  <1>2. ASSUME NEW t \in Seq(R), NEW e \in R, t \in T PROVE Append(t, e) \in T
    <2>1. t \in Seq(S) /\ e \in S /\ Append(t, e) \in Seq(R)
      OBVIOUS
    <2>2. s \o t \in Seq(S) /\ s \o Append(t, e) = Append(s \o t, e)
      BY <2>1
    <2>3. Selected(Append(s \o t, e)) = Selected(s \o t)
      BY <2>1, <2>2, SelectedAppend
    <2> QED
      BY <1>2, <2>1, <2>2, <2>3
  <1> HIDE DEF T
  <1>3. Seq(R) \subseteq T
    BY <1>1, <1>2, SeqInduct
  <1> QED
    BY <1>3 DEF T

-----------------------------------------------------------------------------
(* The end of a list, which depends on its events only. *)

(* The least that EndOf() and Played() look at. *)
Of(s) == [events |-> s]

LEMMA OnlyEvents ==
  ASSUME NEW l
  PROVE  EndOf(l) = EndOf(Of(l.events)) /\ Played(l) = Played(Of(l.events)) /\ (Ended(l) <=> Ended(Of(l.events)))
  BY DEF EndOf, Played, Ended, Of

(* Place k is that of the first end, or behind the last event. *)
EndsAt(s, k) ==
  /\ k \in 1 .. Len(s) + 1
  /\ \A i \in 1 .. Len(s) : i < k => s[i].type # "LIST_END"
  /\ k <= Len(s) => s[k].type = "LIST_END"

(* EndOf() finds this place, *)
LEMMA EndIsFirst ==
  ASSUME NEW S, NEW s \in Seq(S)
  PROVE  EndsAt(s, EndOf(Of(s)))
  <1> DEFINE n == Len(s)
             ends == {i \in 1 .. n : s[i].type = "LIST_END"}
             end == Min(ends)
  <1>1. EndOf(Of(s)) = IF ends # {} /\ end # 0 THEN end ELSE n + 1
    BY DEF EndOf, Of, SelectInSeq
  <1>2. n \in Nat /\ ends \subseteq Nat
    OBVIOUS
  <1>3. ends # {} => end \in ends /\ \A j \in ends : end <= j
    <2> SUFFICES ASSUME ends # {} PROVE end \in ends /\ \A j \in ends : end <= j
      OBVIOUS
    <2>1. \E i \in ends : \A j \in ends : i <= j
      BY <1>2, LeastNumber
    <2> QED
      BY <2>1 DEF Min
  <1> HIDE DEF end
  <1>4. CASE ends = {}
    BY <1>1, <1>2, <1>4 DEF EndsAt
  <1>5. CASE ends # {}
    <2>1. end \in 1 .. n /\ s[end].type = "LIST_END"
      BY <1>3, <1>5
    <2>2. \A j \in 1 .. n : j < end => s[j].type # "LIST_END"
      BY <1>2, <1>3, <1>5, <2>1
    <2>3. EndOf(Of(s)) = end
      BY <1>1, <1>2, <1>5, <2>1
    <2> QED
      BY <1>2, <2>1, <2>2, <2>3 DEF EndsAt
  <1> QED
    BY <1>4, <1>5

(* and there is no other. *)
LEMMA EndIs ==
  ASSUME NEW S, NEW s \in Seq(S), NEW k, EndsAt(s, k)
  PROVE  EndOf(Of(s)) = k
  <1> DEFINE n == Len(s)
             end == EndOf(Of(s))
  <1>1. n \in Nat /\ EndsAt(s, end)
    BY EndIsFirst
  <1> HIDE DEF end
  <1>2. ~(end < k) /\ ~(k < end)
    BY <1>1 DEF EndsAt
  <1>3. end \in Int /\ k \in Int
    BY <1>1 DEF EndsAt
  <1> QED
    BY <1>2, <1>3 DEF end

(* An event that is recorded, and the end, which is written once. *)
LEMMA PlayedAppend ==
  ASSUME NEW S, NEW s \in Seq(S), NEW e \in S
  PROVE  /\ Ended(Of(s)) => Ended(Of(Append(s, e))) /\ Played(Of(Append(s, e))) = Played(Of(s))
         /\ ~Ended(Of(s)) =>
              /\ Ended(Of(Append(s, e))) <=> e.type = "LIST_END"
              /\ Played(Of(Append(s, e))) =
                   IF e.type # "LIST_END" /\ IsEvent(e) THEN Append(Played(Of(s)), e) ELSE Played(Of(s))
  <1> DEFINE t == Append(s, e)
             n == Len(s)
             end == EndOf(Of(s))
             tend == EndOf(Of(t))
  <1>1. n \in Nat /\ t \in Seq(S) /\ Len(t) = n + 1 /\ t[n + 1] = e /\ \A i \in 1 .. n : t[i] = s[i]
    OBVIOUS
  <1>2. EndsAt(s, end)
    BY EndIsFirst
  <1>3. /\ Ended(Of(s)) <=> end <= n
        /\ Ended(Of(t)) <=> tend <= Len(t)
        /\ Played(Of(s)) = Selected(SubSeq(s, 1, end - 1))
        /\ Played(Of(t)) = Selected(SubSeq(t, 1, tend - 1))
    BY DEF Ended, Played, Of
  <1>4. SubSeq(s, 1, n) = s /\ SubSeq(t, 1, n) = s /\ SubSeq(t, 1, n + 1) = t
    OBVIOUS
  <1>5. ASSUME end <= n PROVE SubSeq(t, 1, end - 1) = SubSeq(s, 1, end - 1)
    BY <1>2, <1>5 DEF EndsAt
  <1>6. \A k : EndsAt(t, k) => tend = k
    BY <1>1, EndIs
  <1>7. Selected(t) = IF IsEvent(e) THEN Append(Selected(s), e) ELSE Selected(s)
    BY SelectedAppend
  <1> HIDE DEF t, end, tend
  <1>8. CASE end <= n
    <2>1. EndsAt(t, end)
      BY <1>1, <1>2, <1>8 DEF EndsAt
    <2>2. tend = end /\ end <= Len(t)
      BY <1>1, <1>2, <1>6, <1>8, <2>1 DEF EndsAt
    <2>3. Ended(Of(s)) /\ Ended(Of(t)) /\ Played(Of(t)) = Played(Of(s))
      BY <1>3, <1>5, <1>8, <2>2
    <2> QED
      BY <2>3 DEF t
  <1>9. CASE ~(end <= n) /\ e.type = "LIST_END"
    <2>1. EndsAt(t, n + 1) /\ end = n + 1
      BY <1>1, <1>2, <1>9 DEF EndsAt
    <2>2. (n + 1) - 1 = n /\ n + 1 <= Len(t) /\ tend = n + 1
      BY <1>1, <1>6, <2>1
    <2>3. ~Ended(Of(s)) /\ Ended(Of(t)) /\ Played(Of(t)) = Played(Of(s))
      BY <1>3, <1>4, <1>9, <2>1, <2>2
    <2> QED
      BY <1>9, <2>3 DEF t
  <1>10. CASE ~(end <= n) /\ e.type # "LIST_END"
    <2>1. EndsAt(t, n + 2) /\ end = n + 1
      BY <1>1, <1>2, <1>10 DEF EndsAt
    <2>2. (n + 1) - 1 = n /\ (n + 2) - 1 = n + 1 /\ ~(n + 2 <= Len(t)) /\ tend = n + 2
      BY <1>1, <1>6, <2>1
    <2>3. ~Ended(Of(s)) /\ ~Ended(Of(t)) /\ Played(Of(t)) = Selected(t) /\ Played(Of(s)) = Selected(s)
      BY <1>3, <1>4, <1>10, <2>1, <2>2
    <2> QED
      BY <1>7, <1>10, <2>3 DEF t
  <1> QED
    BY <1>8, <1>9, <1>10

(* Timestamps that are not written are not missed. *)
LEMMA PlayedSelected ==
  ASSUME NEW S, NEW s \in Seq(S)
  PROVE  Played(Of(Selected(s))) = Played(Of(s))
  <1> DEFINE T == {t \in Seq(S) : /\ Played(Of(Selected(t))) = Played(Of(t))
                                  /\ Ended(Of(Selected(t))) <=> Ended(Of(t))}
  <1>1. <<>> \in T
    BY SelectedEmpty
  <1>2. ASSUME NEW t \in Seq(S), NEW e \in S, t \in T PROVE Append(t, e) \in T
    <2> DEFINE p == Selected(t)
    <2>1. p \in Seq(S)
      <3>1. p \in Seq({x \in S : IsEvent(x)})
        BY SelectedType
      <3> QED
        BY <3>1
    <2>2. Selected(Append(t, e)) = IF IsEvent(e) THEN Append(p, e) ELSE p
      BY SelectedAppend
    <2>3. Played(Of(p)) = Played(Of(t)) /\ (Ended(Of(p)) <=> Ended(Of(t)))
      BY <1>2
    <2> HIDE DEF p
    <2>4. Append(t, e) \in Seq(S)
      OBVIOUS
    <2>5. /\ Ended(Of(p)) => Ended(Of(Append(p, e))) /\ Played(Of(Append(p, e))) = Played(Of(p))
          /\ ~Ended(Of(p)) =>
                /\ Ended(Of(Append(p, e))) <=> e.type = "LIST_END"
                /\ Played(Of(Append(p, e))) =
                     IF e.type # "LIST_END" /\ IsEvent(e) THEN Append(Played(Of(p)), e) ELSE Played(Of(p))
      BY <2>1, PlayedAppend
    <2>6. /\ Ended(Of(t)) => Ended(Of(Append(t, e))) /\ Played(Of(Append(t, e))) = Played(Of(t))
          /\ ~Ended(Of(t)) =>
                /\ Ended(Of(Append(t, e))) <=> e.type = "LIST_END"
                /\ Played(Of(Append(t, e))) =
                     IF e.type # "LIST_END" /\ IsEvent(e) THEN Append(Played(Of(t)), e) ELSE Played(Of(t))
      BY PlayedAppend
    <2> DEFINE q == Selected(Append(t, e))
    <2>7. /\ Played(Of(q)) = Played(Of(Append(t, e)))
          /\ Ended(Of(q)) <=> Ended(Of(Append(t, e)))
      <3>1. CASE IsEvent(e)
        BY <2>2, <2>3, <2>5, <2>6, <3>1
      <3>2. CASE ~IsEvent(e)
        <4>1. e.type # "LIST_END"
          BY <3>2 DEF IsEvent
        <4> QED
          BY <2>2, <2>3, <2>6, <3>2, <4>1
      <3> QED
        BY <3>1, <3>2
    <2> QED
      BY <2>4, <2>7
  <1> HIDE DEF T
  <1>3. Seq(S) \subseteq T
    BY <1>1, <1>2, SeqInduct
  <1> QED
    BY <1>3 DEF T

-----------------------------------------------------------------------------
(* What a list holds: what a history can record, and timestamps. *)

Recordable == [type : {"INPUT", "RESETCPU", "LIST_END"}, clk : Nat \ {0}]
Stamp      == [type : {"TIMESTAMP"}, clk : Int]
Entry      == Recordable \cup Stamp

(* Timestamps are no events. *)
LEMMA EntryKinds ==
  /\ Recordable \subseteq Entry /\ Stamp \subseteq Entry
  /\ \A e \in Recordable : IsEvent(e) /\ e.clk \in Nat /\ e.clk > 0
                          /\ e.type \in {"INPUT", "RESETCPU", "LIST_END"}
  /\ \A e \in Stamp : ~IsEvent(e) /\ e.type = "TIMESTAMP" /\ e.clk \in Int
  /\ {e \in Entry : IsEvent(e)} = Recordable
  <1>1. Recordable \subseteq Entry /\ Stamp \subseteq Entry /\ Entry = Recordable \cup Stamp
    BY DEF Entry
  <1>2. \A e \in Recordable : e.clk \in Nat /\ e.clk > 0 /\ e.type \in {"INPUT", "RESETCPU", "LIST_END"}
    BY DEF Recordable
  <1>3. \A e \in Stamp : e.type = "TIMESTAMP" /\ e.clk \in Int
    BY DEF Stamp
  <1>4. \A e \in Recordable : IsEvent(e)
    BY <1>2 DEF IsEvent
  <1>5. \A e \in Stamp : ~IsEvent(e)
    BY <1>3 DEF IsEvent
  <1>6. {e \in Entry : IsEvent(e)} = Recordable
    BY <1>1, <1>4, <1>5
  <1> QED
    BY <1>1, <1>2, <1>3, <1>4, <1>5, <1>6

(* The timestamps before an event come before it. *)
LEMMA Divided ==
  ASSUME NEW n \in Nat, NEW d \in Nat \ {0}
  PROVE  /\ n \div d \in Nat
         /\ (n \div d) * d <= n
  OBVIOUS

(* They are as many as bring the clock to that of the event. *)
LEMMA StampsType ==
  ASSUME NEW t \in Int, NEW c \in Int
  PROVE  /\ Stamps(t, c) \in Seq(Stamp)
         /\ \A k \in 1 .. Len(Stamps(t, c)) : Stamps(t, c)[k].clk < c
         /\ t < c => Len(Stamps(t, c)) # 0
  <1> DEFINE n == IF t < c THEN (c - t + Second - 1) \div Second ELSE 0
             s == [k \in 1 .. n |-> [type |-> "TIMESTAMP", clk |-> t + (k - 1) * Second]]
  <1>1. Stamps(t, c) = s
    BY DEF Stamps
  <1>2. n \in Nat /\ (t < c => n # 0 /\ n * Second <= c - t + Second - 1)
    <2>1. CASE t < c
      <3> DEFINE m == c - t + Second - 1
      <3>1. m \in Nat /\ m >= Second
        BY <2>1, BoundsAssumption
      <3>2. m \div Second \in Nat /\ (m \div Second) * Second <= m /\ m \div Second # 0
        BY <3>1, Divided, BoundsAssumption
      <3> QED
        BY <2>1, <3>2
    <2> QED
      BY <2>1
  <1> HIDE DEF n
  <1>3. \A k \in 1 .. n : t + (k - 1) * Second \in Int /\ t + (k - 1) * Second < c
    <2> TAKE k \in 1 .. n
    <2>1. t < c
      BY <1>2 DEF n
    <2>2. k * Second <= n * Second /\ (k - 1) * Second = k * Second - Second
      BY <1>2, BoundsAssumption
    <2> QED
      BY <1>2, <2>1, <2>2, BoundsAssumption
  <1>4. s \in Seq(Stamp) /\ Len(s) = n
    BY <1>2, <1>3 DEF Stamp
  <1> QED
    BY <1>1, <1>2, <1>3, <1>4

-----------------------------------------------------------------------------
(* What is read of a list that was written. *)

(* ReadEvents() is the last value of a function: these are its steps. *)
ReadState == [events : Seq(Entry), next : Int]
ReadFirst(first) == [events |-> <<>>, next |-> first]
ReadNext(events, first, f, k) ==
  IF k = 0 THEN [events |-> <<>>, next |-> first] ELSE ReadEvent(f[k - 1], events[k])
Reading(events, first, f) == f = [k \in 0 .. Len(events) |-> ReadNext(events, first, f, k)]

(* One step: the timestamps are early, and there is one when time has passed. *)
LEMMA ReadEventType ==
  ASSUME NEW before \in ReadState, NEW e \in Recordable
  PROVE  /\ ReadEvent(before, e) \in ReadState
         /\ ReadEvent(before, e).events = before.events \o Append(Stamps(before.next, e.clk), e)
  <1> DEFINE st == Stamps(before.next, e.clk)
             next == before.next + Len(st) * Second
  <1>1. before.next \in Int /\ before.events \in Seq(Entry) /\ e.clk \in Int /\ e \in Entry
    BY EntryKinds DEF ReadState
  <1>2. st \in Seq(Stamp)
    BY <1>1, StampsType
  <1>3. st \in Seq(Entry) /\ Len(st) \in Nat
    BY <1>2, EntryKinds
  <1>4. ReadEvent(before, e) = [events |-> before.events \o Append(st, e),
                                next   |-> IF e.type = "RESETCPU" THEN next - e.clk ELSE next]
    BY DEF ReadEvent
  <1> HIDE DEF st
  <1>5. next \in Int
    BY <1>1, <1>3, BoundsAssumption
  <1> HIDE DEF next
  <1>6. before.events \o Append(st, e) \in Seq(Entry)
    BY <1>1, <1>3
  <1> DEFINE read == before.events \o Append(st, e)
             after == IF e.type = "RESETCPU" THEN next - e.clk ELSE next
  <1>7. after \in Int /\ read \in Seq(Entry)
    BY <1>1, <1>5, <1>6
  <1>8. ReadEvent(before, e) = [events |-> read, next |-> after]
    BY <1>4
  <1>9. read = before.events \o Append(Stamps(before.next, e.clk), e)
    BY DEF st
  <1> HIDE DEF read, after
  <1>10. [events |-> read, next |-> after] \in ReadState /\ [events |-> read, next |-> after].events = read
    BY <1>7 DEF ReadState
  <1> QED
    BY <1>8, <1>9, <1>10, Zenon

(* The function that ReadEvents() defines exists. *)
LEMMA ReadingExists ==
  ASSUME NEW events \in Seq(Recordable), NEW first \in Int
  PROVE  \E f : /\ ReadEvents(events, first) = f[Len(events)].events
                /\ f[0] = ReadFirst(first)
                /\ \A k \in 1 .. Len(events) : f[k] = ReadEvent(f[k - 1], events[k])
  <1> DEFINE n == Len(events)
             step == [k \in 1 .. n |-> [x \in ReadState |-> ReadEvent(x, events[k])]]
  <1>0. n \in Nat /\ \A k \in 1 .. n : events[k] \in Recordable
    OBVIOUS
  <1> HIDE DEF n
  <1>1. step \in [1 .. n -> [ReadState -> ReadState]]
    <2>1. \A k \in 1 .. n, x \in ReadState : ReadEvent(x, events[k]) \in ReadState
      BY <1>0, ReadEventType
    <2> QED
      BY <2>1
  <1>2. \A k \in 1 .. n, x \in ReadState : step[k][x] = ReadEvent(x, events[k])
    OBVIOUS
  <1> HIDE DEF step
  <1>3. PICK g \in [0 .. n -> ReadState] : g[0] = ReadFirst(first) /\ \A k \in 1 .. n : g[k] = step[k][g[k - 1]]
    <2>1. ReadFirst(first) \in ReadState
      BY DEF ReadFirst, ReadState
    <2>2. \E g : Recursive(g, n, ReadState, ReadFirst(first), step)
      BY <1>0, <1>1, <2>1, Recursion
    <2> QED
      BY <2>2 DEF Recursive
  <1>4. \A k \in 0 .. n : g[k] = ReadNext(events, first, g, k)
    <2> TAKE k \in 0 .. n
    <2>1. CASE k = 0
      BY <1>3, <2>1 DEF ReadNext, ReadFirst
    <2>2. CASE k # 0
      <3>1. k \in 1 .. n /\ k - 1 \in 0 .. n
        BY <1>0, <2>2
      <3>2. g[k - 1] \in ReadState
        BY <3>1
      <3> QED
        BY <1>2, <1>3, <2>2, <3>1, <3>2 DEF ReadNext
    <2> QED
      BY <2>1, <2>2
  <1>5. g = [k \in 0 .. n |-> ReadNext(events, first, g, k)]
    BY <1>4
  <1>6. Reading(events, first, g)
    BY <1>5 DEF Reading, n
  <1>7. ReadEvents(events, first) = (CHOOSE f : Reading(events, first, f))[Len(events)].events
    BY Zenon DEF ReadEvents, Reading, ReadNext
  <1>8. PICK f : Reading(events, first, f) /\ ReadEvents(events, first) = f[Len(events)].events
    BY <1>6, <1>7, Zenon
  <1>9. \A k \in 0 .. n : f[k] = ReadNext(events, first, f, k)
    BY <1>8 DEF Reading, n
  <1>10. f[0] = ReadFirst(first)
    BY <1>0, <1>9 DEF ReadNext, ReadFirst
  <1>11. \A k \in 1 .. n : k # 0 /\ f[k] = ReadNext(events, first, f, k)
    BY <1>0, <1>9
  <1>12. \A k \in 1 .. n : f[k] = ReadEvent(f[k - 1], events[k])
    BY <1>11, Zenon DEF ReadNext
  <1> QED
    BY <1>8, <1>10, <1>12 DEF n

(* What has been read: all that was written, with timestamps of an earlier  *)
(* clock between.                                                          *)
ReadSoFar(r, events, k) ==
  /\ r \in Seq(Entry)
  /\ Selected(r) = SubSeq(events, 1, k)
  /\ \A j \in 1 .. Len(r) :
       LET m == Len(Selected(SubSeq(r, 1, j - 1))) IN
         /\ m < k
         /\ IsEvent(r[j]) => r[j] = events[m + 1]
         /\ ~IsEvent(r[j]) => r[j].clk < events[m + 1].clk
  /\ \A j \in 1 .. Len(r) : r[j].type = "LIST_END" => j = Len(r)
  /\ k # 0 => r # <<>> /\ r[Len(r)] = events[k]

(* The beginning of a list. *)
LEMMA SubSeqIs ==
  ASSUME NEW S, NEW s \in Seq(S), NEW k \in Nat, k <= Len(s)
  PROVE  /\ SubSeq(s, 1, k) \in Seq(S) /\ Len(SubSeq(s, 1, k)) = k
         /\ \A i \in 1 .. k : SubSeq(s, 1, k)[i] = s[i]
  OBVIOUS

(* It is known by its length and its places. *)
LEMMA SubSeqSame ==
  ASSUME NEW S, NEW s \in Seq(S), NEW t \in Seq(S), NEW k \in Nat, k <= Len(s), Len(t) = k,
         \A i \in 1 .. k : s[i] = t[i]
  PROVE  SubSeq(s, 1, k) = t
  <1>1. SubSeq(s, 1, k) \in Seq(S) /\ Len(SubSeq(s, 1, k)) = Len(t)
        /\ \A i \in 1 .. Len(SubSeq(s, 1, k)) : SubSeq(s, 1, k)[i] = t[i]
    BY SubSeqIs
  <1> QED
    BY <1>1, SeqEqual, Zenon

(* What is where when t and e follow r: the parts of u, and its beginnings. *)
JoinedParts(r, t, e, u, a, b) ==
  /\ \A j \in 1 .. a : u[j] = r[j] /\ SubSeq(u, 1, j - 1) = SubSeq(r, 1, j - 1)
  /\ \A i \in 1 .. b : u[a + i] = t[i] /\ SubSeq(u, 1, a + i - 1) = r \o SubSeq(t, 1, i - 1)
  /\ u[a + b + 1] = e
  /\ SubSeq(u, 1, a + b) = r \o t
  /\ u = Append(r \o t, e)

(* So it is when they are joined. *)
LEMMA Joined ==
  ASSUME NEW S, NEW r \in Seq(S), NEW t \in Seq(S), NEW e \in S
  PROVE  JoinedParts(r, t, e, r \o Append(t, e), Len(r), Len(t))
  <1> DEFINE u == r \o Append(t, e)
             a == Len(r)
             b == Len(t)
             q == r \o t
             v == Append(q, e)
  <1>1. a \in Nat /\ b \in Nat /\ u \in Seq(S) /\ Len(u) = a + b + 1
    OBVIOUS
  <1>2. u[a + b + 1] = e
    OBVIOUS
  <1>3. \A i \in 1 .. a + b : u[i] = q[i]
    OBVIOUS
  <1>4. \A j \in 1 .. a : u[j] = r[j]
    OBVIOUS
  <1>5. \A i \in 1 .. b : u[a + i] = t[i]
    OBVIOUS
  <1>6. q \in Seq(S) /\ Len(q) = a + b
    OBVIOUS
  <1>7. SubSeq(u, 1, a + b) = q
    <2> HIDE DEF u, a, b, q
    <2>1. a + b \in Nat /\ a + b <= Len(u)
      BY <1>1
    <2> QED
      BY <1>1, <1>3, <1>6, <2>1, SubSeqSame
  <1>8. u = v
    <2>1. v \in Seq(S) /\ Len(v) = Len(q) + 1 /\ v[Len(q) + 1] = e /\ \A i \in 1 .. Len(q) : v[i] = q[i]
      BY <1>6, AppendProperties
    <2> HIDE DEF u, v, a, b, q
    <2>2. ASSUME NEW i \in 1 .. Len(u) PROVE u[i] = v[i]
      <3>1. CASE i \in 1 .. a + b
        BY <1>3, <1>6, <2>1, <3>1
      <3>2. CASE i = a + b + 1
        BY <1>2, <1>6, <2>1, <3>2
      <3> QED
        BY <1>1, <3>1, <3>2
    <2>3. Len(u) = Len(v)
      BY <1>1, <1>6, <2>1
    <2> QED
      BY <1>1, <2>1, <2>2, <2>3, SeqEqual, Zenon
  <1>9. ASSUME NEW j \in 1 .. a PROVE SubSeq(u, 1, j - 1) = SubSeq(r, 1, j - 1)
    <2>1. j - 1 \in Nat /\ j - 1 <= Len(u) /\ j - 1 <= Len(r) /\ \A i \in 1 .. j - 1 : i \in 1 .. a
      BY <1>1
    <2>2. SubSeq(r, 1, j - 1) \in Seq(S) /\ Len(SubSeq(r, 1, j - 1)) = j - 1
          /\ \A i \in 1 .. j - 1 : SubSeq(r, 1, j - 1)[i] = r[i]
      BY <2>1, SubSeqIs
    <2> HIDE DEF u, a
    <2>3. \A i \in 1 .. j - 1 : u[i] = SubSeq(r, 1, j - 1)[i]
      BY <1>4, <2>1, <2>2
    <2> QED
      BY <1>1, <2>1, <2>2, <2>3, SubSeqSame
  <1>10. ASSUME NEW i \in 1 .. b PROVE SubSeq(u, 1, a + i - 1) = r \o SubSeq(t, 1, i - 1)
    <2> DEFINE w == r \o SubSeq(t, 1, i - 1)
               k == a + i - 1
    <2>1. k \in Nat /\ k <= Len(u) /\ \A j \in 1 .. k : j \in 1 .. a + b
      BY <1>1
    <2>2. w \in Seq(S) /\ Len(w) = k
      OBVIOUS
    <2>3. \A j \in 1 .. k : w[j] = q[j]
      OBVIOUS
    <2> HIDE DEF u, w, k, q, a, b
    <2>4. \A j \in 1 .. k : u[j] = w[j]
      BY <1>3, <2>1, <2>3
    <2>5. SubSeq(u, 1, k) = w
      BY <1>1, <2>1, <2>2, <2>4, SubSeqSame
    <2> QED
      BY <2>5 DEF w, k
  <1> QED
    BY <1>2, <1>4, <1>5, <1>7, <1>8, <1>9, <1>10 DEF JoinedParts

(* A beginning that is one longer. *)
LEMMA SubSeqNext ==
  ASSUME NEW S, NEW s \in Seq(S), NEW k \in Nat, k + 1 <= Len(s)
  PROVE  SubSeq(s, 1, k + 1) = Append(SubSeq(s, 1, k), s[k + 1])
  <1> DEFINE f == SubSeq(s, 1, k)
             t == Append(f, s[k + 1])
  <1>1. f \in Seq(S) /\ Len(f) = k /\ (\A i \in 1 .. k : f[i] = s[i]) /\ s[k + 1] \in S
    BY SubSeqIs
  <1> HIDE DEF f
  <1>2. t \in Seq(S) /\ Len(t) = k + 1 /\ (\A i \in 1 .. k : t[i] = f[i]) /\ t[k + 1] = s[k + 1]
    BY <1>1, AppendProperties
  <1> HIDE DEF t
  <1>3. \A i \in 1 .. k + 1 : s[i] = t[i]
    BY <1>1, <1>2
  <1>4. SubSeq(s, 1, k + 1) = t
    BY <1>2, <1>3, SubSeqSame
  <1> QED
    BY <1>4 DEF f, t

(* Reading one event more. *)
LEMMA ReadSoFarNext ==
  ASSUME NEW events \in Seq(Recordable), NEW k \in Nat, k + 1 <= Len(events),
         NEW r, ReadSoFar(r, events, k), \A i \in 1 .. k : events[i].type # "LIST_END",
         NEW st \in Seq(Stamp), \A i \in 1 .. Len(st) : st[i].clk < events[k + 1].clk
  PROVE  ReadSoFar(r \o Append(st, events[k + 1]), events, k + 1)
  <1> DEFINE e == events[k + 1]
             u == r \o Append(st, e)
             a == Len(r)
             b == Len(st)
  <1>1. e \in Recordable /\ SubSeq(events, 1, k) \in Seq(Recordable) /\ Len(SubSeq(events, 1, k)) = k
        /\ SubSeq(events, 1, k + 1) = Append(SubSeq(events, 1, k), e)
    <2>1. e \in Recordable
      OBVIOUS
    <2>2. SubSeq(events, 1, k) \in Seq(Recordable) /\ Len(SubSeq(events, 1, k)) = k
      OBVIOUS
    <2>3. SubSeq(events, 1, k + 1) = Append(SubSeq(events, 1, k), e)
      BY SubSeqNext
    <2> QED
      BY <2>1, <2>2, <2>3
  <1>2. r \in Seq(Entry) /\ st \in Seq(Entry) /\ e \in Entry
    BY <1>1, EntryKinds DEF ReadSoFar
  <1>3. u \in Seq(Entry) /\ a \in Nat /\ b \in Nat /\ Len(u) = a + b + 1
    BY <1>2
  <1>4. JoinedParts(r, st, e, u, a, b)
    BY <1>2, Joined, Zenon
  <1>5. \A i \in 1 .. b : SubSeq(st, 1, i - 1) \in Seq(Stamp)
    OBVIOUS
  <1>6. \A s \in Seq(Stamp) : Selected(r \o s) = Selected(r)
    BY <1>2, EntryKinds, StampsNotSelected
  <1>7. Len(Selected(r)) = k
    BY <1>1 DEF ReadSoFar
  <1>8. Selected(u) = SubSeq(events, 1, k + 1)
    <2>1. Selected(Append(r \o st, e)) = Append(Selected(r \o st), e)
      <3>1. r \o st \in Seq(Entry)
        BY <1>2
      <3> QED
        BY <1>1, <1>2, <3>1, EntryKinds, SelectedAppend
    <2> QED
      BY <1>1, <1>4, <1>6, <2>1 DEF ReadSoFar, JoinedParts
  <1> HIDE DEF a, b, u
  <1>9. ASSUME NEW j \in 1 .. Len(u)
        PROVE  LET m == Len(Selected(SubSeq(u, 1, j - 1))) IN
                 /\ m < k + 1
                 /\ IsEvent(u[j]) => u[j] = events[m + 1]
                 /\ ~IsEvent(u[j]) => u[j].clk < events[m + 1].clk
    <2> DEFINE m == Len(Selected(SubSeq(u, 1, j - 1)))
    <2>1. CASE j <= a
      <3>0. j \in 1 .. a
        BY <1>3, <2>1
      <3>1. j \in 1 .. a /\ u[j] = r[j] /\ m = Len(Selected(SubSeq(r, 1, j - 1)))
        BY <1>4, <3>0 DEF JoinedParts
      <3>2. LET o == Len(Selected(SubSeq(r, 1, j - 1))) IN
              /\ o < k
              /\ IsEvent(r[j]) => r[j] = events[o + 1]
              /\ ~IsEvent(r[j]) => r[j].clk < events[o + 1].clk
        BY <3>1 DEF ReadSoFar, a
      <3>3. m \in Nat
        <4>1. SubSeq(r, 1, j - 1) \in Seq(Entry)
          BY <1>2, <3>1 DEF a
        <4>2. Selected(SubSeq(r, 1, j - 1)) \in Seq({x \in Entry : IsEvent(x)})
          BY <4>1, SelectedType
        <4> QED
          BY <3>1, <4>2
      <3> HIDE DEF m
      <3> QED
        BY <3>1, <3>2, <3>3 DEF m
    <2>2. CASE j > a /\ j <= a + b
      <3> DEFINE i == j - a
      <3>1. i \in 1 .. b /\ j = a + i
        BY <1>3, <2>2
      <3> HIDE DEF i
      <3>0. i \in 1 .. Len(st)
        BY <3>1 DEF b
      <3>2. u[j] = st[i] /\ SubSeq(u, 1, j - 1) = r \o SubSeq(st, 1, i - 1) /\ SubSeq(st, 1, i - 1) \in Seq(Stamp)
        <4>1. /\ u[a + i] = st[i] /\ SubSeq(u, 1, a + i - 1) = r \o SubSeq(st, 1, i - 1)
              /\ SubSeq(st, 1, i - 1) \in Seq(Stamp)
          BY <1>4, <1>5, <3>1, Zenon DEF JoinedParts
        <4>2. a + i - 1 = j - 1 /\ a + i = j
          BY <1>3, <3>1
        <4> QED
          BY <4>1, <4>2, Zenon
      <3>3. m = k
        <4>1. Selected(r \o SubSeq(st, 1, i - 1)) = Selected(r)
          BY <1>6, <3>2, Zenon
        <4> QED
          BY <1>7, <3>2, <4>1, Zenon
      <3>4. st[i] \in Stamp /\ st[i].clk < e.clk
        BY <3>0
      <3>5. ~IsEvent(u[j])
        BY <3>2, <3>4, EntryKinds
      <3> HIDE DEF m
      <3> QED
        BY <3>2, <3>3, <3>4, <3>5 DEF m
    <2>3. CASE j = a + b + 1
      <3>1. u[j] = e /\ IsEvent(e)
        BY <1>1, <1>4, <2>3, EntryKinds DEF JoinedParts
      <3>2. j - 1 = a + b
        BY <1>3, <2>3
      <3>3. m = k
        BY <1>4, <1>6, <1>7, <3>2 DEF JoinedParts
      <3> HIDE DEF m
      <3> QED
        BY <3>1, <3>3 DEF m
    <2>4. j <= a \/ (j > a /\ j <= a + b) \/ j = a + b + 1
      BY <1>3
    <2> QED
      BY <2>1, <2>2, <2>3, <2>4
  <1>10. ASSUME NEW j \in 1 .. Len(u), u[j].type = "LIST_END" PROVE j = Len(u)
    <2>1. CASE j <= a
      <3>0. j \in 1 .. a
        BY <1>3, <2>1
      <3>9. u[j] = r[j]
        BY <1>4, <3>0 DEF JoinedParts
      <3>1. j \in 1 .. a /\ r[j].type = "LIST_END"
        BY <1>10, <3>0, <3>9
      <3>2. j = a
        BY <3>1 DEF ReadSoFar, a
      <3>3. k # 0
        <4> DEFINE o == Len(Selected(SubSeq(r, 1, j - 1)))
        <4>1. SubSeq(r, 1, j - 1) \in Seq(Entry)
          BY <1>2, <3>1 DEF a
        <4>2. Selected(SubSeq(r, 1, j - 1)) \in Seq({x \in Entry : IsEvent(x)})
          BY <4>1, SelectedType
        <4>3. o \in Nat /\ o < k
          BY <3>1, <4>2 DEF ReadSoFar, a
        <4> HIDE DEF o
        <4> QED
          BY <4>3
      <3>4. events[k].type = "LIST_END" /\ k \in 1 .. k
        BY <3>1, <3>2, <3>3 DEF ReadSoFar, a
      <3> QED
        BY <3>4
    <2>2. CASE j > a /\ j <= a + b
      <3> DEFINE i == j - a
      <3>1. i \in 1 .. b /\ j = a + i
        BY <1>3, <2>2
      <3> HIDE DEF i
      <3>3. u[j] = st[i]
        BY <1>4, <3>1 DEF JoinedParts
      <3>2. u[j] = st[i] /\ st[i] \in Stamp
        BY <3>1, <3>3 DEF b
      <3> QED
        BY <1>10, <3>2, EntryKinds
    <2> QED
      BY <1>3, <2>1, <2>2
  <1>11. u # <<>> /\ u[Len(u)] = e
    BY <1>3, <1>4 DEF JoinedParts
  <1>12. ReadSoFar(u, events, k + 1)
    BY <1>3, <1>8, <1>9, <1>10, <1>11 DEF ReadSoFar
  <1> QED
    BY <1>12 DEF u

(* Reading all of them. *)
LEMMA ReadAll ==
  ASSUME NEW events \in Seq(Recordable), NEW first \in Int,
         \A i \in 1 .. Len(events) : events[i].type = "LIST_END" => i = Len(events)
  PROVE  /\ ReadSoFar(ReadEvents(events, first), events, Len(events))
         /\ first = 0 /\ Len(events) # 0 =>
              ReadEvents(events, first) # <<>> /\ ReadEvents(events, first)[1].type = "TIMESTAMP"
  <1> DEFINE n == Len(events)
  <1>0. n \in Nat /\ \A k \in 1 .. n : events[k] \in Recordable
    OBVIOUS
  <1>1. PICK f : /\ ReadEvents(events, first) = f[n].events
                 /\ f[0] = ReadFirst(first)
                 /\ \A k \in 1 .. n : f[k] = ReadEvent(f[k - 1], events[k])
    BY ReadingExists
  <1> DEFINE Good(k) == /\ f[k] \in ReadState
                        /\ ReadSoFar(f[k].events, events, k)
                        /\ k # 0 /\ first = 0 => f[k].events # <<>> /\ f[k].events[1].type = "TIMESTAMP"
             T == {k \in Nat : k <= n => Good(k)}
  <1>2. 0 \in T
    <2>1. f[0] \in ReadState /\ f[0].events = <<>>
      BY <1>1 DEF ReadState, ReadFirst
    <2>2. SubSeq(events, 1, 0) = <<>> /\ <<>> \in Seq(Entry) /\ Len(<<>>) = 0
      OBVIOUS
    <2>3. ReadSoFar(<<>>, events, 0)
      <3>1. \A j \in 1 .. 0 : FALSE
        OBVIOUS
      <3> QED
        BY <2>2, <3>1, SelectedEmpty, Zenon DEF ReadSoFar
    <2> QED
      BY <2>1, <2>3
  <1> HIDE DEF n
  <1>3. ASSUME NEW k \in Nat, k \in T PROVE k + 1 \in T
    <2> SUFFICES ASSUME k + 1 <= n PROVE Good(k + 1)
      OBVIOUS
    <2> DEFINE e == events[k + 1]
               r == f[k].events
               st == Stamps(f[k].next, e.clk)
    <2>1. Good(k)
      BY <1>0, <1>3
    <2>2. k + 1 \in 1 .. n /\ (k + 1) - 1 = k
      BY <1>0
    <2>3. e \in Recordable /\ f[k + 1] = ReadEvent(f[k], e)
      BY <1>0, <1>1, <2>2
    <2>4. f[k + 1] \in ReadState /\ f[k + 1].events = r \o Append(st, e)
      BY <2>1, <2>3, ReadEventType
    <2>5. f[k].next \in Int /\ e.clk \in Int /\ e.clk > 0
      BY <2>1, <2>3, EntryKinds DEF ReadState
    <2>6. st \in Seq(Stamp) /\ (\A i \in 1 .. Len(st) : st[i].clk < e.clk) /\ (f[k].next < e.clk => Len(st) # 0)
      BY <2>5, StampsType
    <2>7. \A i \in 1 .. k : events[i].type # "LIST_END"
      BY <1>0, <2>2 DEF n
    <2>8. ReadSoFar(r \o Append(st, e), events, k + 1)
      BY <1>0, <2>1, <2>2, <2>6, <2>7, ReadSoFarNext DEF n
    <2>9. ASSUME first = 0
          PROVE  f[k + 1].events # <<>> /\ f[k + 1].events[1].type = "TIMESTAMP"
      <3>1. r \in Seq(Entry) /\ e \in Entry
        BY <2>1, <2>3, EntryKinds DEF ReadState
      <3>2. CASE k # 0
        <4>1. r # <<>> /\ r[1].type = "TIMESTAMP"
          BY <2>1, <2>9, <3>2
        <4>2. st \in Seq(Entry)
          BY <2>6, EntryKinds
        <4> HIDE DEF r, st, e
        <4>3. r \o Append(st, e) # <<>> /\ (r \o Append(st, e))[1] = r[1]
          BY <3>1, <4>1, <4>2
        <4> QED
          BY <2>4, <4>1, <4>3
      <3>3. CASE k = 0
        <4>1. r = <<>> /\ f[k].next = 0
          BY <1>1, <2>9, <3>3 DEF ReadFirst
        <4>2. Len(st) # 0
          BY <2>5, <2>6, <4>1
        <4>3. st \in Seq(Entry) /\ st[1] \in Stamp
          BY <2>6, <4>2, EntryKinds
        <4> HIDE DEF r, st, e
        <4>4. r \o Append(st, e) # <<>> /\ (r \o Append(st, e))[1] = st[1]
          BY <3>1, <4>1, <4>2, <4>3
        <4> QED
          BY <2>4, <4>3, <4>4, EntryKinds
      <3> QED
        BY <3>2, <3>3
    <2> QED
      BY <2>4, <2>8, <2>9
  <1> HIDE DEF T
  <1>4. n \in T
    BY <1>0, <1>2, <1>3, NatInduct
  <1>5. Good(n)
    BY <1>0, <1>4 DEF T
  <1> QED
    BY <1>1, <1>5 DEF n

(* A history that is in a file, and one that the machine has. *)
Modes       == {"none", "FILE_SAVE", "RESET"}
WrittenList == [mode : Modes, clk : Nat, events : Seq(Recordable)]
EventList   == [mode : Modes, clk : Nat, events : Seq(Entry)]

(* A list whose events are replaced keeps the rest. *)
LEMMA ListParts ==
  ASSUME NEW S, NEW l \in [mode : Modes, clk : Nat, events : Seq(S)]
  PROVE  /\ l.mode \in Modes /\ l.clk \in Nat /\ l.events \in Seq(S)
         /\ \A R, s : s \in Seq(R) =>
              /\ [l EXCEPT !.events = s] \in [mode : Modes, clk : Nat, events : Seq(R)]
              /\ [l EXCEPT !.events = s].events = s
              /\ [l EXCEPT !.events = s].mode = l.mode
              /\ [l EXCEPT !.events = s].clk = l.clk
  <1>1. l = [mode |-> l.mode, clk |-> l.clk, events |-> l.events]
        /\ l.mode \in Modes /\ l.clk \in Nat /\ l.events \in Seq(S)
    OBVIOUS
  <1>2. ASSUME NEW s PROVE [l EXCEPT !.events = s] = [mode |-> l.mode, clk |-> l.clk, events |-> s]
    BY <1>1
  <1>3. ASSUME NEW R, NEW s \in Seq(R)
        PROVE  /\ [l EXCEPT !.events = s] \in [mode : Modes, clk : Nat, events : Seq(R)]
               /\ [l EXCEPT !.events = s].events = s
               /\ [l EXCEPT !.events = s].mode = l.mode
               /\ [l EXCEPT !.events = s].clk = l.clk
    BY <1>1, <1>2
  <1> QED
    BY <1>1, <1>3

(* The next event comes when it came before, and a timestamp before that. *)
Reads(r, p) ==
  \A j \in 1 .. EndOf(r) - 1 :
    LET m == Len(Selected(SubSeq(r.events, 1, j - 1))) IN
      /\ j <= Len(r.events)
      /\ IsEvent(r.events[j]) => m < Len(p) /\ r.events[j] = p[m + 1]
      /\ ~IsEvent(r.events[j]) /\ m < Len(p) => r.events[j].clk < p[m + 1].clk

(* A list that was written and is read again is played like the one written. *)
LEMMA ReadList ==
  ASSUME NEW l \in WrittenList
  PROVE  /\ Read(l) \in EventList /\ Read(l).mode = l.mode
         /\ Played(Read(l)) = Played(l)
         /\ Reads(Read(l), Played(l))
         /\ l.mode = "RESET" => TypeAt(Read(l), 1) # "RESETCPU"
  <1> DEFINE s == l.events
             first == IF l.mode = "RESET" THEN 0 ELSE l.clk
             events == IF Ended(l) THEN SubSeq(s, 1, EndOf(l)) ELSE s
             r == ReadEvents(events, first)
             n == Len(events)
             a == Len(r)
             p == Played(l)
  <1>1. l.mode \in Modes /\ l.clk \in Nat /\ s \in Seq(Recordable) /\ first \in Int
    BY ListParts DEF WrittenList
  <1>2. EndsAt(s, EndOf(l))
    BY <1>1, OnlyEvents, EndIsFirst
  <1>3. /\ events \in Seq(Recordable) /\ n \in Nat
        /\ \A i \in 1 .. n : events[i].type = "LIST_END" => i = n
        /\ Ended(l) => n # 0 /\ events[n].type = "LIST_END" /\ p = SubSeq(events, 1, n - 1)
        /\ ~Ended(l) => (\A i \in 1 .. n : events[i].type # "LIST_END") /\ p = events
    <2>1. \A t \in Seq(Recordable) : Selected(t) = t
      BY EntryKinds, EventsSelected
    <2>2. CASE Ended(l)
      <3>1. EndOf(l) \in 1 .. Len(s)
        BY <1>1, <1>2, <2>2 DEF Ended, EndsAt
      <3>2. SubSeq(s, 1, EndOf(l) - 1) \in Seq(Recordable) /\ SubSeq(s, 1, EndOf(l) - 1) = SubSeq(events, 1, n - 1)
        BY <1>1, <2>2, <3>1
      <3>3. p = SubSeq(events, 1, n - 1)
        BY <2>1, <3>2 DEF Played
      <3>4. events \in Seq(Recordable) /\ n = EndOf(l) /\ \A i \in 1 .. n : events[i] = s[i]
        <4>1. events = SubSeq(s, 1, EndOf(l))
          BY <2>2
        <4> HIDE DEF events
        <4> QED
          BY <1>1, <3>1, <4>1
      <3> HIDE DEF events, n, p
      <3>5. n \in 1 .. Len(s) /\ Len(s) \in Nat
        BY <1>1, <3>1, <3>4
      <3>6. s[n].type = "LIST_END" /\ \A i \in 1 .. Len(s) : i < n => s[i].type # "LIST_END"
        BY <1>2, <3>4, <3>5 DEF EndsAt
      <3>7. n # 0 /\ events[n].type = "LIST_END" /\ \A i \in 1 .. n : events[i].type = "LIST_END" => i = n
        BY <3>4, <3>5, <3>6
      <3> QED
        BY <2>2, <3>3, <3>4, <3>5, <3>7
    <2>3. CASE ~Ended(l)
      <3>1. EndOf(l) = Len(s) + 1 /\ Len(s) \in Nat
        BY <1>1, <1>2, <2>3 DEF Ended, EndsAt
      <3>2. SubSeq(s, 1, EndOf(l) - 1) = s
        BY <1>1, <3>1
      <3>3. p = events
        BY <1>1, <2>1, <2>3, <3>2 DEF Played
      <3>4. events = s /\ n = Len(s)
        BY <2>3
      <3> HIDE DEF events, n, p
      <3> QED
        BY <1>1, <1>2, <2>3, <3>1, <3>3, <3>4 DEF EndsAt
    <2> QED
      BY <2>2, <2>3
  <1>4. Read(l) = [l EXCEPT !.events = r]
    BY DEF Read
  <1> HIDE DEF events, n, p
  <1>5. /\ ReadSoFar(r, events, n)
        /\ first = 0 /\ n # 0 => r # <<>> /\ r[1].type = "TIMESTAMP"
    BY <1>1, <1>3, ReadAll DEF n
  <1>6. r \in Seq(Entry)
    BY <1>5 DEF ReadSoFar
  <1> HIDE DEF r
  <1>7. /\ Read(l) \in EventList /\ Read(l).mode = l.mode /\ Read(l).events = r
    BY <1>4, <1>6, ListParts DEF WrittenList, EventList
  <1> DEFINE end == EndOf(Read(l))
  <1>8. a \in Nat /\ end \in 1 .. a + 1 /\ EndsAt(r, end) /\ \A k : EndsAt(r, k) => end = k
    <2>1. EndOf(Read(l)) = EndOf(Of(r))
      BY <1>7, OnlyEvents
    <2> QED
      BY <1>6, <2>1, EndIsFirst, EndIs DEF EndsAt
  <1>9. Ended(l) => EndsAt(r, a) /\ end = a /\ n # 0 /\ r # <<>> /\ a # 0 /\ r[a] = events[n]
    <2> SUFFICES ASSUME Ended(l) PROVE EndsAt(r, a) /\ end = a /\ n # 0 /\ r # <<>> /\ a # 0 /\ r[a] = events[n]
      OBVIOUS
    <2>1. n # 0 /\ r # <<>> /\ r[a] = events[n] /\ events[n].type = "LIST_END"
      BY <1>3, <1>5 DEF ReadSoFar
    <2>2. a # 0
      BY <1>6, <2>1
    <2>3. \A j \in 1 .. a : r[j].type = "LIST_END" => j = a
      BY <1>5 DEF ReadSoFar
    <2>4. EndsAt(r, a)
      <3>1. \A i \in 1 .. a : i < a => r[i].type # "LIST_END"
        BY <1>8, <2>3
      <3> QED
        BY <1>8, <2>1, <2>2, <3>1 DEF EndsAt
    <2> QED
      BY <1>8, <2>1, <2>2, <2>4
  <1>10. ~Ended(l) => EndsAt(r, a + 1) /\ end = a + 1
    <2> SUFFICES ASSUME ~Ended(l) PROVE EndsAt(r, a + 1) /\ end = a + 1
      OBVIOUS
    <2>1. \A j \in 1 .. a : r[j].type # "LIST_END"
      <3> SUFFICES ASSUME NEW j \in 1 .. a, r[j].type = "LIST_END" PROVE FALSE
        OBVIOUS
      <3>1. j = a
        BY <1>5 DEF ReadSoFar
      <3>2. CASE n # 0
        <4>1. r[a] = events[n] /\ n \in 1 .. n
          BY <1>3, <1>5, <3>2 DEF ReadSoFar
        <4> QED
          BY <1>3, <3>1, <4>1
      <3>3. CASE n = 0
        <4> DEFINE m == Len(Selected(SubSeq(r, 1, j - 1)))
        <4>1. m < 0
          BY <1>5, <3>3 DEF ReadSoFar
        <4>2. SubSeq(r, 1, j - 1) \in Seq(Entry)
          BY <1>6
        <4>3. Selected(SubSeq(r, 1, j - 1)) \in Seq({x \in Entry : IsEvent(x)})
          BY <4>2, SelectedType
        <4>4. m \in Nat
          BY <4>3
        <4> HIDE DEF m
        <4> QED
          BY <4>1, <4>4
      <3> QED
        BY <3>2, <3>3
    <2>2. EndsAt(r, a + 1)
      BY <1>8, <2>1 DEF EndsAt
    <2> QED
      BY <1>8, <2>2
  <1>11. /\ \A i \in 1 .. Len(p) : p[i] = events[i]
         /\ Len(p) = IF Ended(l) THEN n - 1 ELSE n
    <2>1. CASE Ended(l)
      BY <1>3, <2>1 DEF n
    <2>2. CASE ~Ended(l)
      BY <1>3, <2>2 DEF n
    <2> QED
      BY <2>1, <2>2
  <1>12. Played(Read(l)) = p
    <2>1. Played(Read(l)) = Selected(SubSeq(r, 1, end - 1))
      BY <1>7 DEF Played
    <2>2. Selected(r) = events
      <3>1. Selected(r) = SubSeq(events, 1, n)
        BY <1>5 DEF ReadSoFar
      <3> QED
        BY <1>3, <3>1 DEF n
    <2>3. CASE Ended(l)
      <3> DEFINE front == SubSeq(r, 1, a - 1)
      <3>1. end = a /\ a # 0 /\ r[a] = events[n] /\ n # 0
        BY <1>9, <2>3
      <3>2. front \in Seq(Entry) /\ r[a] \in Entry /\ r = Append(front, r[a])
        BY <1>6, <1>8, <3>1
      <3>3. IsEvent(r[a])
        BY <1>3, <2>3, <3>1 DEF IsEvent
      <3> HIDE DEF front
      <3>4. Append(Selected(front), r[a]) = events
        BY <2>2, <3>2, <3>3, SelectedAppend
      <3>5. Selected(front) \in Seq({x \in Entry : IsEvent(x)})
        BY <3>2, SelectedType
      <3>6. SubSeq(events, 1, n - 1) = Selected(front)
        <4> DEFINE q == Selected(front)
        <4>1. Len(Append(q, r[a])) = Len(q) + 1 /\ SubSeq(Append(q, r[a]), 1, Len(q)) = q
          BY <3>5
        <4>2. n - 1 = Len(q)
          BY <3>4, <3>5, <4>1 DEF n
        <4> HIDE DEF q
        <4> QED
          BY <3>4, <4>1, <4>2 DEF q
      <3>7. p = SubSeq(events, 1, n - 1)
        BY <1>3, <2>3
      <3> QED
        BY <2>1, <3>1, <3>6, <3>7 DEF front
    <2>4. CASE ~Ended(l)
      <3>1. SubSeq(r, 1, end - 1) = r
        <4>1. end - 1 = a
          BY <1>8, <1>10, <2>4
        <4> QED
          BY <1>6, <4>1
      <3>2. p = events
        BY <1>3, <2>4
      <3> QED
        BY <2>1, <2>2, <3>1, <3>2
    <2> QED
      BY <2>3, <2>4
  <1>13. Reads(Read(l), p)
    <2> SUFFICES ASSUME NEW j \in 1 .. end - 1
                 PROVE  LET m == Len(Selected(SubSeq(r, 1, j - 1))) IN
                          /\ j <= a
                          /\ IsEvent(r[j]) => m < Len(p) /\ r[j] = p[m + 1]
                          /\ ~IsEvent(r[j]) /\ m < Len(p) => r[j].clk < p[m + 1].clk
      BY <1>7 DEF Reads
    <2> DEFINE m == Len(Selected(SubSeq(r, 1, j - 1)))
               o == Len(p)
    <2>1. j \in 1 .. a /\ j < end
      BY <1>8
    <2>2. m \in Nat
      <3>1. SubSeq(r, 1, j - 1) \in Seq(Entry)
        BY <1>6, <2>1
      <3>2. Selected(SubSeq(r, 1, j - 1)) \in Seq({x \in Entry : IsEvent(x)})
        BY <3>1, SelectedType
      <3> QED
        BY <3>2
    <2>3. /\ m < n
          /\ IsEvent(r[j]) => r[j] = events[m + 1]
          /\ ~IsEvent(r[j]) => r[j].clk < events[m + 1].clk
      BY <1>5, <2>1 DEF ReadSoFar
    <2> HIDE DEF m
    <2>4. o = (IF Ended(l) THEN n - 1 ELSE n) /\ \A i \in 1 .. o : p[i] = events[i]
      BY <1>11
    <2> HIDE DEF o
    <2>5. m < o => m + 1 \in 1 .. o /\ p[m + 1] = events[m + 1]
      <3>1. o \in Int
        BY <1>3, <2>4
      <3>2. m < o => m + 1 \in 1 .. o
        BY <2>2, <3>1
      <3> QED
        BY <2>4, <3>2
    <2>6. IsEvent(r[j]) => m < o
      <3> SUFFICES ASSUME IsEvent(r[j]), ~(m < o) PROVE FALSE
        OBVIOUS
      <3>1. Ended(l) /\ m + 1 = n
        BY <1>3, <2>2, <2>3, <2>4
      <3>2. r[j].type = "LIST_END"
        BY <1>3, <2>3, <3>1
      <3>3. j = a
        BY <1>5, <2>1, <3>2 DEF ReadSoFar
      <3> QED
        BY <1>8, <1>9, <2>1, <3>1, <3>3
    <2> QED
      BY <2>1, <2>3, <2>5, <2>6 DEF m, o
  <1>14. l.mode = "RESET" => TypeAt(Read(l), 1) # "RESETCPU"
    <2> SUFFICES ASSUME l.mode = "RESET" PROVE TypeAt(Read(l), 1) # "RESETCPU"
      OBVIOUS
    <2>1. CASE a = 0
      <3>1. 1 \notin 1 .. a
        BY <2>1
      <3> QED
        BY <1>7, <3>1 DEF TypeAt
    <2>2. CASE a # 0
      <3>1. 1 \in 1 .. a
        BY <1>8, <2>2
      <3>2. n # 0
        <4> DEFINE m == Len(Selected(SubSeq(r, 1, 1 - 1)))
        <4>1. m < n
          BY <1>5, <3>1 DEF ReadSoFar
        <4>2. m = 0
          <5>1. SubSeq(r, 1, 1 - 1) = <<>>
            BY <1>6
          <5>2. Len(<<>>) = 0
            OBVIOUS
          <5> QED
            BY <5>1, <5>2, SelectedEmpty, Zenon
        <4> HIDE DEF m
        <4> QED
          BY <4>1, <4>2
      <3>3. r[1].type = "TIMESTAMP"
        BY <1>5, <3>2
      <3>4. TypeAt(Read(l), 1) = r[1].type
        BY <1>7, <3>1 DEF TypeAt
      <3> QED
        BY <3>3, <3>4
    <2> QED
      BY <2>1, <2>2
  <1> QED
    BY <1>7, <1>12, <1>13, <1>14 DEF p

-----------------------------------------------------------------------------
(* Games, and the files that are left of them. *)

(* What can happen to a game, and the types of a game and of the two files. *)
Happening == [type : {"INPUT", "RESETCPU"}, clk : Nat \ {0}]
Known(g)  == g.start # Elsewhere
IsGame(g) ==
  /\ g \in [start : Starts \cup {Elsewhere}, past : Seq(Happening)]
  /\ ~Known(g) => g.past = <<>>
IsStart(file) == file # NoFile => file \in [start : Starts \ {HardReset}, clk : Nat \ {0}]
IsEnd(file) ==
  file # NoFile =>
    /\ IsGame(file.game)
    /\ file.clk \in Nat \ {0}
    /\ file.list \in WrittenList

(* What happened to a game came in the order of the clocks: the clock goes *)
(* on from the start, or from a reset.                                     *)
StartClk(s, file) == IF file # NoFile /\ file.start = s THEN file.clk ELSE RESET_CYCLES
ClkAfter(e) == IF e.type = "RESETCPU" THEN RESET_CYCLES ELSE e.clk
InOrder(g, file, c) ==
  LET n == Len(g.past) IN
    /\ n = 0 => StartClk(g.start, file) <= c
    /\ n # 0 => StartClk(g.start, file) <= g.past[1].clk /\ ClkAfter(g.past[n]) <= c
    /\ \A k \in 1 .. n - 1 : ClkAfter(g.past[k]) <= g.past[k + 1].clk
(* A list has all of a game, and says how it started. *)
Complete(l, g) == Played(l) = g.past /\ (l.mode = "RESET" <=> g.start = HardReset)

(* So has the list of a file, if the game is known. *)
Saved(file, start) ==
  Known(file.game) => Complete(file.list, file.game) /\ InOrder(file.game, start, file.clk)

(* A playback that has come to an event has played what was before it, and *)
(* does not come too late for what follows.                                *)
Follows(g, file, start, l, done, now) ==
  LET n == Len(g.past) IN
    /\ file # NoFile /\ g.start = file.game.start
    /\ l = Read(file.list)
    /\ done \in 0 .. EndOf(l) - 1
    /\ n <= Len(file.game.past) /\ g.past = SubSeq(file.game.past, 1, n)
    /\ g.past = Selected(SubSeq(l.events, 1, done))
    /\ InOrder(g, start, now)
    /\ n < Len(file.game.past) => now <= file.game.past[n + 1].clk

-----------------------------------------------------------------------------
(* The clocks of what happened, as numbers. *)
LEMMA GameParts ==
  ASSUME NEW g, IsGame(g)
  PROVE  /\ Len(g.past) \in Nat
         /\ \A k \in 1 .. Len(g.past) : /\ g.past[k] \in Happening
                                        /\ g.past[k].clk \in Nat /\ g.past[k].clk >= 1
                                        /\ ClkAfter(g.past[k]) \in Nat /\ ClkAfter(g.past[k]) >= 1
  <1>1. g.past \in Seq(Happening)
    BY DEF IsGame
  <1>2. \A e \in Happening : e.clk \in Nat /\ e.clk >= 1 /\ ClkAfter(e) \in Nat /\ ClkAfter(e) >= 1
    BY DEF Happening, ClkAfter, RESET_CYCLES
  <1>3. Len(g.past) \in Nat /\ \A k \in 1 .. Len(g.past) : g.past[k] \in Happening
    BY <1>1
  <1> QED
    BY <1>2, <1>3

(* The clock at which a game starts. *)
LEMMA StartClkType ==
  ASSUME NEW file, IsStart(file), NEW s
  PROVE  StartClk(s, file) \in Nat /\ StartClk(s, file) >= 1
  BY DEF IsStart, StartClk, RESET_CYCLES

(* Time goes on. *)
LEMMA OrderLater ==
  ASSUME NEW g, IsGame(g), NEW file, IsStart(file), NEW c \in Nat, NEW d \in Nat, c <= d, InOrder(g, file, c)
  PROVE  InOrder(g, file, d)
  <1> DEFINE n == Len(g.past)
  <1>1. n \in Nat /\ (n # 0 => n \in 1 .. n)
    BY GameParts
  <1>2. n # 0 => ClkAfter(g.past[n]) \in Nat
    BY <1>1, GameParts
  <1>3. StartClk(g.start, file) \in Nat
    BY StartClkType
  <1> QED
    BY <1>2, <1>3 DEF InOrder

(* Something happens. *)
Happened(g, e) == [g EXCEPT !.past = Append(@, e)]

(* The game is the same, and longer by what happened. *)
LEMMA HappenedParts ==
  ASSUME NEW g, IsGame(g), Known(g), NEW e \in Happening
  PROVE  /\ IsGame(Happened(g, e)) /\ Known(Happened(g, e))
         /\ Happened(g, e).start = g.start
         /\ Happened(g, e).past = Append(g.past, e)
  <1> DEFINE h == [start |-> g.start, past |-> Append(g.past, e)]
  <1>1. Happened(g, e) = h
    <2>1. g = [start |-> g.start, past |-> g.past]
      BY DEF IsGame
    <2> QED
      BY <2>1 DEF Happened
  <1>2. Append(g.past, e) \in Seq(Happening)
    BY DEF IsGame
  <1>3. IsGame(h) /\ Known(h)
    BY <1>2 DEF IsGame, Known
  <1> QED
    BY <1>1, <1>3

(* It happened last. *)
LEMMA OrderHappens ==
  ASSUME NEW g, IsGame(g), Known(g), NEW file, IsStart(file), NEW e \in Happening, InOrder(g, file, e.clk)
  PROVE  InOrder(Happened(g, e), file, ClkAfter(e))
  <1> DEFINE n == Len(g.past)
             h == Happened(g, e)
  <1>1. n \in Nat
    BY GameParts
  <1>2. h.start = g.start /\ h.past = Append(g.past, e)
    BY HappenedParts
  <1>3. Len(h.past) = n + 1 /\ h.past[n + 1] = e /\ \A k \in 1 .. n : h.past[k] = g.past[k]
    BY <1>2, AppendProperties DEF IsGame
  <1> HIDE DEF h
  <1>4. ClkAfter(e) <= ClkAfter(e)
    BY DEF ClkAfter, RESET_CYCLES, Happening
  <1>5. \A k \in 1 .. n - 1 : ClkAfter(g.past[k]) <= g.past[k + 1].clk
    BY DEF InOrder
  <1>6. n = 0 => StartClk(g.start, file) <= e.clk
    BY DEF InOrder
  <1>7. n # 0 => StartClk(g.start, file) <= g.past[1].clk /\ ClkAfter(g.past[n]) <= e.clk
    BY DEF InOrder
  <1> HIDE DEF n
  <1>8. StartClk(h.start, file) <= h.past[1].clk
    <2>1. CASE n = 0
      BY <1>2, <1>3, <1>6, <2>1
    <2>2. CASE n # 0
      <3>1. 1 \in 1 .. n
        BY <1>1, <2>2
      <3> QED
        BY <1>2, <1>3, <1>7, <2>2, <3>1
    <2> QED
      BY <2>1, <2>2
  <1>9. ASSUME NEW k \in 1 .. (n + 1) - 1 PROVE ClkAfter(h.past[k]) <= h.past[k + 1].clk
    <2>1. CASE k = n
      <3>1. k \in 1 .. n /\ n # 0
        BY <1>1, <2>1
      <3> QED
        BY <1>3, <1>7, <2>1, <3>1
    <2>2. CASE k # n
      <3>1. k \in 1 .. n - 1 /\ k \in 1 .. n /\ k + 1 \in 1 .. n
        BY <1>1, <2>2
      <3> QED
        BY <1>3, <1>5, <3>1
    <2> QED
      BY <2>1, <2>2
  <1>10. n + 1 # 0
    BY <1>1
  <1>11. InOrder(h, file, ClkAfter(e))
    BY <1>3, <1>4, <1>8, <1>9, <1>10 DEF InOrder
  <1> QED
    BY <1>11 DEF h

(* A game begins. *)
LEMMA NewGameParts ==
  ASSUME NEW s \in Starts
  PROVE  IsGame(NewGame(s)) /\ Known(NewGame(s)) /\ NewGame(s).start = s /\ NewGame(s).past = <<>>
  <1>1. NewGame(s) = [start |-> s, past |-> <<>>]
    BY DEF NewGame
  <1>2. s # Elsewhere
    BY DEF Starts, Elsewhere, HardReset
  <1>3. <<>> \in Seq(Happening)
    OBVIOUS
  <1> QED
    BY <1>1, <1>2, <1>3 DEF IsGame, Known

(* The game that is none. *)
LEMMA UnknownParts == IsGame(Unknown) /\ ~Known(Unknown)
  <1>1. Unknown = [start |-> Elsewhere, past |-> <<>>]
    BY DEF Unknown
  <1>2. <<>> \in Seq(Happening)
    OBVIOUS
  <1> QED
    BY <1>1, <1>2 DEF IsGame, Known

(* Nothing has happened: everything is in order from the start on. *)
LEMMA OrderNew ==
  ASSUME NEW s \in Starts, NEW file, NEW c, StartClk(s, file) <= c
  PROVE  InOrder(NewGame(s), file, c)
  <1>1. NewGame(s).start = s /\ NewGame(s).past = <<>>
    BY NewGameParts
  <1>2. Len(<<>>) = 0 /\ \A k \in 1 .. 0 - 1 : FALSE
    OBVIOUS
  <1> QED
    BY <1>1, <1>2 DEF InOrder

(* The snapshot it began with is gone, or is that of another game. *)
LEMMA OrderOtherFile ==
  ASSUME NEW g, IsGame(g), NEW file, IsStart(file), NEW other, other = NoFile \/ other.start # g.start,
         NEW c \in Nat, c >= 1, InOrder(g, file, c)
  PROVE  InOrder(g, other, c)
  <1> DEFINE n == Len(g.past)
  <1>1. StartClk(g.start, other) = 1
    BY DEF StartClk, RESET_CYCLES
  <1>2. n # 0 => g.past[1].clk \in Nat /\ g.past[1].clk >= 1
    <2>1. n # 0 => 1 \in 1 .. n
      BY GameParts
    <2> QED
      BY <2>1, GameParts
  <1>3. n = 0 => StartClk(g.start, other) <= c
    BY <1>1
  <1>4. n # 0 => StartClk(g.start, other) <= g.past[1].clk
    BY <1>1, <1>2
  <1> QED
    BY <1>3, <1>4 DEF InOrder

-----------------------------------------------------------------------------
(* What stands at a place of a list. *)

(* The end is the only place before which all are events or timestamps. *)
LEMMA ListEnd ==
  ASSUME NEW l \in EventList
  PROVE  /\ l.events \in Seq(Entry) /\ Len(l.events) \in Nat
         /\ EndsAt(l.events, EndOf(l)) /\ EndOf(l) \in 1 .. Len(l.events) + 1
         /\ \A k \in 1 .. Len(l.events) : TypeAt(l, k) = l.events[k].type /\ ClkAt(l, k) = l.events[k].clk
         /\ \A k \in 1 .. EndOf(l) : TypeAt(l, k) = "LIST_END" <=> k = EndOf(l)
         /\ \A k \in 1 .. EndOf(l) - 1 : k \in 1 .. Len(l.events)
  <1> DEFINE s == l.events
             n == Len(s)
             end == EndOf(l)
  <1>1. s \in Seq(Entry) /\ n \in Nat
    BY ListParts DEF EventList
  <1>2. EndsAt(s, end)
    BY <1>1, OnlyEvents, EndIsFirst
  <1>3. \A k \in 1 .. n : TypeAt(l, k) = s[k].type /\ ClkAt(l, k) = s[k].clk
    BY <1>1 DEF TypeAt, ClkAt
  <1>4. end \in 1 .. n + 1
    BY <1>2 DEF EndsAt
  <1> HIDE DEF end
  <1>5. \A k \in 1 .. end - 1 : k \in 1 .. n
    BY <1>1, <1>4
  <1>6. ASSUME NEW k \in 1 .. end PROVE TypeAt(l, k) = "LIST_END" <=> k = end
    <2>1. CASE k \in 1 .. n
      BY <1>2, <1>3, <1>4, <2>1 DEF EndsAt
    <2>2. CASE k \notin 1 .. n
      <3>1. k = end /\ k # 0
        BY <1>1, <1>4, <2>2
      <3>2. TypeAt(l, k) = "LIST_END"
        BY <2>2, <3>1 DEF TypeAt
      <3> QED
        BY <3>1, <3>2
    <2> QED
      BY <2>1, <2>2
  <1> QED
    BY <1>1, <1>2, <1>3, <1>4, <1>5, <1>6 DEF end

(* What comes next in a list l whose first done places played n events of p. *)
NextPlayed(l, p, done, n) ==
  /\ TypeAt(l, done + 1) = "LIST_END" => n = Len(p)
  /\ TypeAt(l, done + 1) # "LIST_END" =>
       /\ done + 1 \in 0 .. EndOf(l) - 1
       /\ TypeAt(l, done + 1) = "TIMESTAMP" =>
            /\ Selected(SubSeq(l.events, 1, done + 1)) = SubSeq(p, 1, n)
            /\ n < Len(p) => ClkAt(l, done + 1) < p[n + 1].clk
       /\ TypeAt(l, done + 1) # "TIMESTAMP" =>
            /\ n < Len(p) /\ TypeAt(l, done + 1) = p[n + 1].type
            /\ ClkAt(l, done + 1) = p[n + 1].clk
            /\ Selected(SubSeq(l.events, 1, done + 1)) = SubSeq(p, 1, n + 1)

(* That is what a list has that was read of a file. *)
LEMMA PlayedNext ==
  ASSUME NEW l \in EventList, NEW p \in Seq(Happening), Played(l) = p, Reads(l, p),
         NEW done \in 0 .. EndOf(l) - 1, NEW n \in Nat, n <= Len(p),
         SubSeq(p, 1, n) = Selected(SubSeq(l.events, 1, done))
  PROVE  NextPlayed(l, p, done, n)
  <1> DEFINE s == l.events
             end == EndOf(l)
             j == done + 1
             e == s[j]
             m == Len(p)
  <1>1. /\ s \in Seq(Entry) /\ Len(s) \in Nat /\ end \in 1 .. Len(s) + 1
        /\ \A k \in 1 .. Len(s) : TypeAt(l, k) = s[k].type /\ ClkAt(l, k) = s[k].clk
        /\ \A k \in 1 .. end : TypeAt(l, k) = "LIST_END" <=> k = end
        /\ \A k \in 1 .. end - 1 : k \in 1 .. Len(s)
    BY ListEnd
  <1>2. m \in Nat /\ Len(SubSeq(p, 1, n)) = n /\ SubSeq(p, 1, m) = p
    <2>1. m \in Nat
      OBVIOUS
    <2> QED
      BY <2>1, SubSeqIs, SubSeqFull
  <1>3. Played(l) = Selected(SubSeq(s, 1, end - 1))
    BY DEF Played
  <1> HIDE DEF end, m
  <1>4. j \in 1 .. end /\ j - 1 = done /\ done \in Nat /\ end \in Nat
    BY <1>1 DEF end
  <1>5. CASE TypeAt(l, j) = "LIST_END"
    <2>1. done = end - 1
      BY <1>1, <1>4, <1>5
    <2>2. SubSeq(p, 1, n) = p
      BY <1>3, <2>1
    <2> QED
      BY <1>2, <1>5, <2>2 DEF m, NextPlayed
  <1>6. CASE TypeAt(l, j) # "LIST_END"
    <2>1. j \in 1 .. end - 1 /\ j \in 0 .. end - 1
      BY <1>1, <1>4, <1>6
    <2>2. j \in 1 .. Len(s) /\ e \in Entry
      BY <1>1, <2>1
    <2>3. TypeAt(l, j) = e.type /\ ClkAt(l, j) = e.clk
      BY <1>1, <2>2
    <2>4. /\ IsEvent(e) => n < m /\ e = p[n + 1]
          /\ ~IsEvent(e) /\ n < m => e.clk < p[n + 1].clk
      <3>1. Len(Selected(SubSeq(s, 1, j - 1))) = n
        BY <1>2, <1>4
      <3>2. LET o == Len(Selected(SubSeq(s, 1, j - 1))) IN
              /\ IsEvent(e) => o < m /\ e = p[o + 1]
              /\ ~IsEvent(e) /\ o < m => e.clk < p[o + 1].clk
        BY <2>1 DEF Reads, end, m
      <3> QED
        BY <3>1, <3>2
    <2>5. SubSeq(s, 1, j) = Append(SubSeq(s, 1, done), e) /\ SubSeq(s, 1, done) \in Seq(Entry)
      <3>1. done \in Nat /\ done <= Len(s) /\ done + 1 <= Len(s)
        BY <1>1, <1>4, <2>2
      <3> QED
        BY <1>1, <3>1, SubSeqIs, SubSeqNext
    <2>6. Selected(SubSeq(s, 1, j)) = IF IsEvent(e) THEN Append(SubSeq(p, 1, n), e) ELSE SubSeq(p, 1, n)
      <3> DEFINE f == SubSeq(s, 1, done)
      <3>1. f \in Seq(Entry) /\ e \in Entry /\ Selected(f) = SubSeq(p, 1, n) /\ SubSeq(s, 1, j) = Append(f, e)
        BY <2>2, <2>5
      <3> HIDE DEF f, j, e
      <3>2. Selected(Append(f, e)) = IF IsEvent(e) THEN Append(Selected(f), e) ELSE Selected(f)
        BY <3>1, SelectedAppend
      <3> QED
        BY <3>1, <3>2, Zenon
    <2>7. IsEvent(e) => Selected(SubSeq(s, 1, j)) = SubSeq(p, 1, n + 1)
      <3> SUFFICES ASSUME IsEvent(e) PROVE Selected(SubSeq(s, 1, j)) = SubSeq(p, 1, n + 1)
        OBVIOUS
      <3>1. n + 1 <= Len(p) /\ e = p[n + 1]
        BY <1>2, <2>4 DEF m
      <3>2. SubSeq(p, 1, n + 1) = Append(SubSeq(p, 1, n), p[n + 1])
        BY <3>1, SubSeqNext
      <3> QED
        BY <2>6, <3>1, <3>2
    <2>8. IsEvent(e) <=> TypeAt(l, j) # "TIMESTAMP"
      BY <2>3 DEF IsEvent
    <2> HIDE DEF j, e, s
    <2>9. TypeAt(l, j) = "TIMESTAMP" =>
             /\ Selected(SubSeq(s, 1, j)) = SubSeq(p, 1, n)
             /\ n < m => ClkAt(l, j) < p[n + 1].clk
      BY <2>3, <2>4, <2>6, <2>8
    <2>10. TypeAt(l, j) # "TIMESTAMP" =>
             /\ n < m /\ TypeAt(l, j) = p[n + 1].type
             /\ ClkAt(l, j) = p[n + 1].clk
             /\ Selected(SubSeq(s, 1, j)) = SubSeq(p, 1, n + 1)
      BY <2>3, <2>4, <2>7, <2>8
    <2> QED
      BY <1>6, <2>1, <2>9, <2>10 DEF j, s, m, end, NextPlayed
  <1> QED
    BY <1>5, <1>6

-----------------------------------------------------------------------------
(* A playback. *)

(* The lists of a playback are those of its file. *)
LEMMA FollowsParts ==
  ASSUME NEW g, IsGame(g), Known(g), NEW file, IsEnd(file), NEW start, Saved(file, start),
         NEW l, NEW done, NEW now, Follows(g, file, start, l, done, now)
  PROVE  /\ file # NoFile /\ IsGame(file.game) /\ Known(file.game) /\ file.game.past \in Seq(Happening)
         /\ Complete(file.list, file.game) /\ InOrder(file.game, start, file.clk)
         /\ l \in EventList /\ Played(l) = file.game.past /\ Reads(l, file.game.past)
         /\ l.mode = file.list.mode
         /\ Len(g.past) \in Nat /\ Len(g.past) <= Len(file.game.past)
         /\ SubSeq(file.game.past, 1, Len(g.past)) = Selected(SubSeq(l.events, 1, done))
         /\ done \in 0 .. EndOf(l) - 1
  <1>1. file # NoFile /\ g.start = file.game.start /\ l = Read(file.list)
    BY DEF Follows
  <1>2. IsGame(file.game) /\ file.list \in WrittenList /\ Known(file.game)
    BY <1>1 DEF IsEnd, Known
  <1>3. Complete(file.list, file.game) /\ InOrder(file.game, start, file.clk)
    BY <1>2 DEF Saved
  <1>4. l \in EventList /\ Played(l) = file.game.past /\ Reads(l, file.game.past) /\ l.mode = file.list.mode
    BY <1>1, <1>2, <1>3, ReadList DEF Complete
  <1>5. file.game.past \in Seq(Happening)
    BY <1>2 DEF IsGame
  <1>6. /\ Len(g.past) \in Nat /\ Len(g.past) <= Len(file.game.past)
        /\ SubSeq(file.game.past, 1, Len(g.past)) = Selected(SubSeq(l.events, 1, done))
        /\ done \in 0 .. EndOf(l) - 1
    BY GameParts DEF Follows
  <1> QED
    BY <1>1, <1>2, <1>3, <1>4, <1>5, <1>6

(* What comes next in a playback. *)
LEMMA FollowsNext ==
  ASSUME NEW g, IsGame(g), Known(g), NEW file, IsEnd(file), NEW start, Saved(file, start),
         NEW l, NEW done, NEW now, Follows(g, file, start, l, done, now)
  PROVE  NextPlayed(l, file.game.past, done, Len(g.past))
  <1> DEFINE n == Len(g.past)
             p == file.game.past
  <1>1. /\ l \in EventList /\ p \in Seq(Happening) /\ Played(l) = p /\ Reads(l, p)
        /\ done \in 0 .. EndOf(l) - 1 /\ n \in Nat /\ n <= Len(p)
        /\ SubSeq(p, 1, n) = Selected(SubSeq(l.events, 1, done))
    BY FollowsParts
  <1> HIDE DEF n, p
  <1>2. NextPlayed(l, p, done, n)
    BY <1>1, PlayedNext
  <1> QED
    BY <1>2 DEF n, p

(* It is at the end when everything was played. *)
LEMMA FollowsEnd ==
  ASSUME NEW g, IsGame(g), Known(g), NEW file, IsEnd(file), NEW start, Saved(file, start),
         NEW l, NEW done, NEW now, Follows(g, file, start, l, done, now),
         TypeAt(l, done + 1) = "LIST_END"
  PROVE  g.past = file.game.past
  <1> DEFINE n == Len(g.past)
             p == file.game.past
  <1>1. n = Len(p) /\ p \in Seq(Happening)
    BY FollowsParts, FollowsNext DEF NextPlayed
  <1>2. SubSeq(p, 1, n) = p
    BY <1>1, SubSeqFull
  <1>3. g.past = SubSeq(p, 1, n)
    BY DEF Follows
  <1> QED
    BY <1>2, <1>3

(* Nothing is due: time may go on. *)
LEMMA FollowsTick ==
  ASSUME NEW g, IsGame(g), Known(g), NEW file, IsEnd(file), NEW start, IsStart(start), Saved(file, start),
         NEW l, NEW done, NEW now \in Nat, Follows(g, file, start, l, done, now),
         ClkAt(l, done + 1) > now
  PROVE  Follows(g, file, start, l, done, now + 1)
  <1> DEFINE n == Len(g.past)
             p == file.game.past
             j == done + 1
  <1>1. /\ TypeAt(l, j) = "LIST_END" => n = Len(p)
        /\ TypeAt(l, j) # "LIST_END" =>
                /\ TypeAt(l, j) = "TIMESTAMP" /\ n < Len(p) => ClkAt(l, j) < p[n + 1].clk
                /\ TypeAt(l, j) # "TIMESTAMP" => ClkAt(l, j) = p[n + 1].clk
    BY FollowsNext DEF NextPlayed
  <1>2. n \in Nat /\ Len(p) \in Nat /\ n <= Len(p) /\ p \in Seq(Happening)
    BY FollowsParts
  <1>3. n < Len(p) => p[n + 1].clk \in Nat
    <2>1. n < Len(p) => n + 1 \in 1 .. Len(p)
      BY <1>2
    <2> QED
      BY <2>1, FollowsParts, GameParts
  <1>4. ClkAt(l, j) \in Int
    <2>1. l \in EventList /\ done \in Nat
      BY FollowsParts
    <2>2. j \in 1 .. Len(l.events) => l.events[j].clk \in Int
      <3>1. l.events \in Seq(Entry)
        BY <2>1, ListEnd
      <3>2. \A e \in Entry : e.clk \in Int
        BY EntryKinds DEF Entry
      <3> QED
        BY <3>1, <3>2
    <2> QED
      BY <2>2 DEF ClkAt
  <1>5. InOrder(g, start, now + 1)
    BY OrderLater DEF Follows
  <1> HIDE DEF j
  <1>6. n < Len(p) => now + 1 <= p[n + 1].clk
    BY <1>1, <1>2, <1>3, <1>4 DEF j
  <1> QED
    BY <1>5, <1>6 DEF Follows

(* A timestamp is passed. *)
LEMMA FollowsStamp ==
  ASSUME NEW g, IsGame(g), Known(g), NEW file, IsEnd(file), NEW start, IsStart(start), Saved(file, start),
         NEW l, NEW done, NEW now \in Nat, Follows(g, file, start, l, done, now),
         TypeAt(l, done + 1) = "TIMESTAMP"
  PROVE  Follows(g, file, start, l, done + 1, now)
  <1> DEFINE n == Len(g.past)
             p == file.game.past
             j == done + 1
  <1>1. j \in 0 .. EndOf(l) - 1 /\ Selected(SubSeq(l.events, 1, j)) = SubSeq(p, 1, n)
    <2>1. TypeAt(l, j) # "LIST_END"
      OBVIOUS
    <2> QED
      BY <2>1, FollowsNext DEF NextPlayed
  <1> HIDE DEF j
  <1>2. Follows(g, file, start, l, j, now)
    BY <1>1 DEF Follows
  <1> QED
    BY <1>2 DEF j

(* An event that is due happens again, and at the same clock. *)
LEMMA FollowsEvent ==
  ASSUME NEW g, IsGame(g), Known(g), NEW file, IsEnd(file), NEW start, IsStart(start), Saved(file, start),
         NEW l, NEW done, NEW now \in Nat \ {0}, Follows(g, file, start, l, done, now),
         TypeAt(l, done + 1) \in {"INPUT", "RESETCPU"}, ClkAt(l, done + 1) <= now,
         NEW e, e = [type |-> TypeAt(l, done + 1), clk |-> now]
  PROVE  /\ e \in Happening
         /\ Follows(Happened(g, e), file, start, l, done + 1, ClkAfter(e))
  <1> DEFINE n == Len(g.past)
             p == file.game.past
             j == done + 1
             h == Happened(g, e)
  <1>1. /\ j \in 0 .. EndOf(l) - 1
        /\ n < Len(p) /\ TypeAt(l, j) = p[n + 1].type
        /\ ClkAt(l, j) = p[n + 1].clk
        /\ Selected(SubSeq(l.events, 1, j)) = SubSeq(p, 1, n + 1)
    <2>1. TypeAt(l, j) # "LIST_END" /\ TypeAt(l, j) # "TIMESTAMP"
      OBVIOUS
    <2> QED
      BY <2>1, FollowsNext DEF NextPlayed
  <1>2. n \in Nat /\ Len(p) \in Nat /\ p \in Seq(Happening) /\ IsGame(file.game) /\ n + 1 \in 1 .. Len(p)
    BY <1>1, FollowsParts
  <1>3. e \in Happening
    BY DEF Happening
  <1>4. p[n + 1] = e
    <2>1. now <= p[n + 1].clk
      BY <1>1 DEF Follows
    <2>2. p[n + 1] \in Happening /\ p[n + 1].clk \in Nat
      BY <1>2, GameParts
    <2>3. p[n + 1].clk = now
      BY <1>1, <2>1, <2>2
    <2> QED
      BY <1>1, <2>2, <2>3 DEF Happening
  <1>5. /\ h.start = g.start /\ h.past = Append(g.past, e)
    BY <1>3, HappenedParts
  <1>6. g.past = SubSeq(p, 1, n) /\ n + 1 <= Len(p)
    BY <1>1, <1>2 DEF Follows
  <1>7. h.past = SubSeq(p, 1, n + 1) /\ Len(h.past) = n + 1
    <2>1. SubSeq(p, 1, n + 1) = Append(SubSeq(p, 1, n), p[n + 1])
      BY <1>2, <1>6, SubSeqNext
    <2>2. h.past = SubSeq(p, 1, n + 1)
      BY <1>4, <1>5, <1>6, <2>1
    <2> QED
      BY <1>2, <1>6, <2>2, SubSeqIs
  <1>8. InOrder(h, start, ClkAfter(e))
    <2>1. InOrder(g, start, e.clk)
      BY DEF Follows
    <2> QED
      BY <1>3, <2>1, OrderHappens
  <1>9. n + 1 < Len(p) => ClkAfter(e) <= p[(n + 1) + 1].clk
    <2> SUFFICES ASSUME n + 1 < Len(p) PROVE ClkAfter(e) <= p[(n + 1) + 1].clk
      OBVIOUS
    <2>1. n + 1 \in 1 .. Len(p) - 1
      BY <1>2
    <2>2. InOrder(file.game, start, file.clk)
      BY FollowsParts
    <2>3. ClkAfter(p[n + 1]) <= p[(n + 1) + 1].clk
      BY <2>1, <2>2 DEF InOrder
    <2> QED
      BY <1>4, <2>3
  <1> HIDE DEF j, h
  <1>10. file # NoFile /\ g.start = file.game.start /\ l = Read(file.list)
    BY DEF Follows
  <1>11. Follows(h, file, start, l, j, ClkAfter(e))
    BY <1>1, <1>5, <1>6, <1>7, <1>8, <1>9, <1>10 DEF Follows
  <1> QED
    BY <1>3, <1>11 DEF j, h

(* The history is cut off where it was played to. *)
LEMMA FollowsCut ==
  ASSUME NEW g, IsGame(g), Known(g), NEW file, IsEnd(file), NEW start, IsStart(start), Saved(file, start),
         NEW l, NEW done, NEW now, Follows(g, file, start, l, done, now)
  PROVE  Complete([l EXCEPT !.events = SubSeq(@, 1, done)], g)
  <1> DEFINE s == l.events
             t == SubSeq(s, 1, done)
             cut == [l EXCEPT !.events = t]
  <1>1. /\ l \in EventList /\ l.mode = file.list.mode /\ done \in 0 .. EndOf(l) - 1
        /\ Complete(file.list, file.game)
    BY FollowsParts
  <1>2. s \in Seq(Entry) /\ EndsAt(s, EndOf(l)) /\ Len(s) \in Nat /\ EndOf(l) \in 1 .. Len(s) + 1
    BY <1>1, ListEnd
  <1>3. done \in Nat /\ done <= Len(s)
    BY <1>1, <1>2
  <1>4. t \in Seq(Entry) /\ Len(t) = done /\ \A i \in 1 .. done : t[i] = s[i]
    BY <1>2, <1>3, SubSeqIs
  <1>5. cut.events = t /\ cut.mode = l.mode
    BY <1>1, <1>4, ListParts DEF EventList
  <1>6. EndsAt(t, done + 1)
    <2>1. \A i \in 1 .. Len(s) : i < EndOf(l) => s[i].type # "LIST_END"
      BY <1>2 DEF EndsAt
    <2>2. \A i \in 1 .. done : i \in 1 .. Len(s) /\ i < EndOf(l)
      BY <1>1, <1>2, <1>3
    <2>3. \A i \in 1 .. done : t[i].type # "LIST_END"
      BY <1>4, <2>1, <2>2
    <2> QED
      BY <1>3, <1>4, <2>3 DEF EndsAt
  <1> HIDE DEF t, cut
  <1>7. Played(cut) = Selected(t)
    <2>1. EndOf(Of(t)) = done + 1 /\ (done + 1) - 1 = done
      BY <1>3, <1>4, <1>6, EndIs
    <2>2. Played(cut) = Selected(SubSeq(t, 1, EndOf(Of(t)) - 1))
      BY <1>5, OnlyEvents DEF Played, Of
    <2>3. SubSeq(t, 1, done) = t
      BY <1>4, SubSeqFull
    <2> QED
      BY <2>1, <2>2, <2>3
  <1>8. g.past = Selected(t) /\ g.start = file.game.start
    BY DEF Follows, t
  <1>9. Complete(cut, g)
    BY <1>1, <1>5, <1>7, <1>8 DEF Complete
  <1> QED
    BY <1>9 DEF cut, t

(* It begins where the history began. *)
LEMMA FollowsStart ==
  ASSUME NEW file, file # NoFile, IsEnd(file), NEW start, IsStart(start), Saved(file, start),
         NEW s \in Starts, file.game.start = s, NEW now, now = StartClk(s, start)
  PROVE  Follows(NewGame(s), file, start, Read(file.list), 0, now)
  <1> DEFINE p == file.game.past
             l == Read(file.list)
  <1>1. /\ IsGame(NewGame(s)) /\ Known(NewGame(s)) /\ NewGame(s).start = s /\ NewGame(s).past = <<>>
    BY NewGameParts
  <1>2. Known(file.game) /\ IsGame(file.game) /\ file.list \in WrittenList
    BY <1>1 DEF Known, IsEnd
  <1>3. InOrder(file.game, start, file.clk) /\ p \in Seq(Happening)
    BY <1>2 DEF Saved, IsGame
  <1>4. Len(p) \in Nat /\ Len(<<>>) = 0 /\ SubSeq(p, 1, 0) = <<>> /\ 0 + 1 = 1
    BY <1>3, SubSeqEmpty
  <1>5. EndOf(l) \in Nat /\ EndOf(l) >= 1 /\ l.events \in Seq(Entry)
    BY <1>2, ReadList, ListEnd
  <1>6. 0 \in 0 .. EndOf(l) - 1 /\ SubSeq(l.events, 1, 0) = <<>>
    BY <1>5, SubSeqEmpty
  <1>7. now \in Nat
    BY StartClkType
  <1>8. InOrder(NewGame(s), start, now)
    BY <1>7, OrderNew
  <1>9. 0 < Len(p) => now <= p[1].clk
    BY <1>3, <1>4 DEF InOrder
  <1> HIDE DEF l, p
  <1>10. 0 <= Len(p)
    BY <1>4
  <1>11. Follows(NewGame(s), file, start, l, 0, now)
    BY <1>1, <1>4, <1>6, <1>8, <1>9, <1>10, SelectedEmpty DEF Follows, l, p
  <1> QED
    BY <1>11 DEF l

-----------------------------------------------------------------------------
(* The invariant. *)

(* Traps that wait: the start of a mode, or what belongs to a recording. *)
StartWaits    == \E trap \in StartModes \cup {"play"} : traps = <<trap>>
FollowupWaits == traps # <<>> /\ traps \in Seq(Followups)

(* The two modes exclude each other only because a start is asked for when *)
(* no other one waits (NoStartWaits).                                      *)
ModesApart == ~(record_active /\ playback_active)

(* A start waits alone, and only while nothing is recorded or played back. *)
(* What follows a start waits while the recording goes on: a trap that     *)
(* ends it is of the same batch, in which the user asks for nothing.       *)
ModesInv ==
  /\ TypeOK
  /\ ModesApart
  /\ StartWaits => ~batch /\ ~record_active /\ ~playback_active
  /\ FollowupWaits => ~playback_active /\ (batch \/ record_active)

(* The rest of the state, which TypeOK leaves out. *)
TypeInv ==
  /\ clk \in Nat \ {0}
  /\ IsGame(game)
  /\ reset_due \in BOOLEAN
  /\ list \in EventList
  /\ current \in 0 .. Len(list.events) + 1
  /\ IsStart(start_file)
  /\ IsEnd(end_file)

(* The file of the end has the whole game, in order with the snapshot that *)
(* is now in the other file, if that is the one it started from.           *)
FileInv == end_file # NoFile => Saved(end_file, start_file)

(* A recording has the whole game so far.  A trap that waits may still     *)
(* write it when the recording is over.  A reset that is due sets the      *)
(* clock back before anything else happens.                                *)
Now == IF reset_due THEN RESET_CYCLES ELSE clk
RecordInv ==
  /\ record_active => current = Len(list.events) + 1
  /\ (record_active \/ FollowupWaits) /\ Known(game) =>
        Complete(list, game) /\ InOrder(game, start_file, Now)

(* Nothing else is under way when a start waits, and no reset of the game  *)
(* is due when what belongs to its recording waits.                        *)
WaitInv ==
  /\ StartWaits => alarm = "unset" /\ ~reset_due
  /\ FollowupWaits /\ reset_due => ~Known(game)

(* A playback, and a recording that is to overwrite one, has played the    *)
(* list up to the current event, or that event too when it is the reset    *)
(* that is due; something is under way that goes on with it.               *)
Plays      == playback_active \/ traps = <<"PLAYBACK">>
AfterReset == reset_due /\ TypeAt(list, current) = "RESETCPU"
Passed     == IF AfterReset THEN current ELSE current - 1
PlayInv ==
  /\ Plays => current # 0
  /\ Plays /\ Known(game) => Follows(game, end_file, start_file, list, Passed, Now)
  /\ playback_active /\ Known(game) =>
       IF reset_due THEN AfterReset \/ playback_reset_ack ELSE alarm = "event"

(* All of it. *)
HistoryInv == TypeInv /\ FileInv /\ RecordInv /\ WaitInv /\ PlayInv

-----------------------------------------------------------------------------
(* The modes. *)

(* The first traps are none. *)
LEMMA ModesStart == Init => ModesInv
  BY DEF Init, ModesInv, TypeOK, ModesApart, StartWaits, FollowupWaits

(* What does not concern the traps, and starts nothing, keeps them apart. *)
LEMMA ModesKept ==
  ASSUME ModesInv, UNCHANGED <<record_active, traps, batch>>,
         playback_active' \in {playback_active, FALSE}
  PROVE  ModesInv'
  <1>1. StartWaits' <=> StartWaits
    BY DEF StartWaits
  <1>2. FollowupWaits' <=> FollowupWaits
    BY DEF FollowupWaits
  <1>3. ModesApart' /\ playback_active' \in BOOLEAN
    <2>1. playback_active \in BOOLEAN /\ ModesApart
      BY DEF ModesInv, TypeOK
    <2>2. CASE playback_active' = playback_active
      BY Zenon, <2>1, <2>2 DEF ModesApart
    <2>3. CASE playback_active' = FALSE
      BY Zenon, <2>3 DEF ModesApart
    <2> QED
      BY <2>2, <2>3
  <1>4. record_active' \in BOOLEAN /\ batch' \in BOOLEAN
    BY Zenon DEF ModesInv, TypeOK
  <1>5. traps' = <<>> \/ StartWaits' \/ traps' \in Seq(Followups)
    BY <1>1 DEF ModesInv, TypeOK, StartWaits
  <1>6. TypeOK'
    BY <1>3, <1>4, <1>5 DEF TypeOK, StartWaits
  <1> QED
    BY <1>1, <1>2, <1>3, <1>6 DEF ModesInv

(* So do the modes when nothing waits. *)
LEMMA NoneWaits ==
  ASSUME traps' = <<>>, batch' = FALSE,
         record_active' \in BOOLEAN, playback_active' \in BOOLEAN, ModesApart'
  PROVE  ModesInv'
  <1>1. ~StartWaits' /\ ~FollowupWaits'
    BY DEF StartWaits, FollowupWaits
  <1> QED
    BY <1>1 DEF ModesInv, TypeOK

(* What a trap may do to the modes: a start activates its own, what        *)
(* follows one may end the recording or go on with it.                     *)
LEMMA StartEffect ==
  ASSUME NEW mode \in StartModes, event_record_start_trap(mode)
  PROVE  record_active' \in {record_active, TRUE} /\ playback_active' = playback_active
  <1>1. CASE mode = "FILE_SAVE"
    BY <1>1 DEF event_record_start_trap, record_start_trap_FileSave, StartRecording, modes
  <1>2. CASE mode = "FILE_LOAD"
    BY <1>2 DEF event_record_start_trap, record_start_trap_FileLoad, StartRecording
  <1>3. CASE mode = "RESET"
    BY <1>3 DEF event_record_start_trap, record_start_trap_Reset, StartRecording
  <1>4. CASE mode = "PLAYBACK"
    BY <1>4 DEF event_record_start_trap, record_start_trap_Playback, StartRecording
  <1> QED
    BY <1>1, <1>2, <1>3, <1>4 DEF StartModes

(* The start of a playback activates that only. *)
LEMMA PlayEffect ==
  event_playback_start_trap =>
    record_active' = record_active /\ playback_active' \in {playback_active, TRUE}
  BY DEF event_playback_start_trap, StartPlayback, PlaybackNotStarted

(* What follows a start leaves a playback as it is. *)
LEMMA FollowEffect ==
  ASSUME \/ event_record_stop_trap
         \/ event_record_set_milestone_trap
         \/ event_record_reset_milestone_trap
  PROVE  record_active' \in {record_active, TRUE, FALSE} /\ playback_active' = playback_active
  BY DEF event_record_stop_trap, event_record_set_milestone_trap,
         event_record_reset_milestone_trap, StartRecording, modes

(* A trap leaves a waiting list from which it is gone. *)
LEMMA TrapKeepsModes == ModesInv /\ RunTrap => ModesInv'
  <1> SUFFICES ASSUME ModesInv, RunTrap PROVE ModesInv'
    OBVIOUS
  <1>1. traps # <<>> /\ traps' = Tail(traps) /\ batch' = (Tail(traps) # <<>>)
    BY DEF RunTrap
  <1>2. CASE StartWaits
    <2>1. PICK trap \in StartModes \cup {"play"} : traps = <<trap>>
      BY <1>2 DEF StartWaits
    <2>2. traps' = <<>> /\ batch' = FALSE /\ Head(traps) = trap
      <3>1. Head(<<trap>>) = trap /\ Tail(<<trap>>) = <<>>
        OBVIOUS
      <3> QED
        BY <1>1, <2>1, <3>1
    <2>3. ~record_active /\ ~playback_active
      BY <1>2 DEF ModesInv
    <2>4. CASE trap = "play"
      <3>1. event_playback_start_trap
        BY <2>2, <2>4 DEF RunTrap
      <3>2. record_active' = record_active /\ playback_active' \in BOOLEAN
        BY <3>1, PlayEffect DEF ModesInv, TypeOK
      <3>3. record_active' \in BOOLEAN /\ ModesApart'
        BY <2>3, <3>2 DEF ModesInv, TypeOK, ModesApart
      <3> QED
        BY <2>2, <3>2, <3>3, NoneWaits
    <2>5. CASE trap \in StartModes
      <3>1. event_record_start_trap(trap)
        BY <2>2, <2>5 DEF RunTrap, StartModes
      <3>2. record_active' \in {record_active, TRUE} /\ playback_active' = playback_active
        BY <2>5, <3>1, StartEffect
      <3>3. record_active' \in BOOLEAN /\ playback_active' \in BOOLEAN /\ ModesApart'
        BY <2>3, <3>2 DEF ModesInv, TypeOK, ModesApart
      <3> QED
        BY <2>2, <3>3, NoneWaits
    <2> QED
      BY <2>1, <2>4, <2>5
  <1>3. CASE FollowupWaits
    <2>1. traps \in Seq(Followups) /\ Head(traps) \in Followups /\ Tail(traps) \in Seq(Followups)
      BY <1>1, <1>3 DEF FollowupWaits
    <2>2. ~playback_active
      BY <1>3 DEF ModesInv
    <2>3. \/ event_record_stop_trap
          \/ event_record_set_milestone_trap
          \/ event_record_reset_milestone_trap
      BY <2>1 DEF RunTrap, Followups
    <2>4. record_active' \in BOOLEAN /\ playback_active' = FALSE
      BY <2>2, <2>3, FollowEffect DEF ModesInv, TypeOK
    <2>5. ~StartWaits'
      <3>1. ASSUME NEW trap \in StartModes \cup {"play"}, traps' = <<trap>> PROVE FALSE
        <4>1. traps'[1] \in Followups
          BY <1>1, <2>1, <3>1
        <4> QED
          BY <3>1, <4>1 DEF Followups, StartModes
      <3> QED
        BY <3>1 DEF StartWaits
    <2> QED
      BY <1>1, <2>1, <2>4, <2>5 DEF ModesInv, TypeOK, ModesApart, FollowupWaits
  <1> QED
    BY <1>1, <1>2, <1>3 DEF ModesInv, TypeOK, StartWaits, FollowupWaits

(* A start is asked for when nothing else waits. *)
LEMMA AskedStartKeepsModes ==
  ASSUME ModesInv, Ask, NoStartWaits, ~record_active,
         NEW trap \in StartModes \cup {"play"}, Trigger(trap),
         record_active' = record_active, playback_active' = FALSE
  PROVE  ModesInv'
  <1>1. traps = <<>>
    <2>1. ~FollowupWaits
      BY DEF ModesInv, Ask
    <2>2. ~StartWaits
      <3>1. ASSUME NEW start \in StartModes \cup {"play"}, traps = <<start>> PROVE FALSE
        BY <3>1 DEF NoStartWaits, Followups, StartModes
      <3> QED
        BY <3>1 DEF StartWaits
    <2> QED
      BY <2>1, <2>2 DEF ModesInv, TypeOK, StartWaits, FollowupWaits
  <1>2. traps' = <<trap>> /\ batch' = FALSE
    BY <1>1 DEF Trigger, Ask, ModesInv, TypeOK
  <1>3. ~FollowupWaits'
    BY <1>2 DEF FollowupWaits, Followups, StartModes
  <1> QED
    BY <1>2, <1>3 DEF ModesInv, TypeOK, ModesApart, StartWaits

(* What belongs to a recording is asked for while it goes on. *)
LEMMA AskedFollowupKeepsModes ==
  ASSUME ModesInv, Ask, record_active,
         NEW trap \in Followups, Trigger(trap),
         record_active' = record_active, playback_active' = playback_active
  PROVE  ModesInv'
  <1>1. traps \in Seq(Followups)
    <2>1. <<>> \in Seq(Followups)
      OBVIOUS
    <2> QED
      BY <2>1 DEF ModesInv, TypeOK, StartWaits
  <1>2. traps' \in Seq(Followups) /\ traps' # <<>> /\ traps'[Len(traps')] = trap /\ batch' = batch
    BY <1>1 DEF Trigger, Ask
  <1>3. ~StartWaits'
    <2>1. ASSUME NEW start \in StartModes \cup {"play"}, traps' = <<start>> PROVE FALSE
      BY <1>2, <2>1 DEF Followups, StartModes
    <2> QED
      BY <2>1 DEF StartWaits
  <1> QED
    BY <1>2, <1>3 DEF ModesInv, TypeOK, ModesApart, FollowupWaits

(* Every step keeps the modes apart. *)
LEMMA NextKeepsModes == ModesInv /\ [Next]_vars => ModesInv'
  <1> SUFFICES ASSUME ModesInv, [Next]_vars PROVE ModesInv'
    OBVIOUS
  <1>1. CASE \/ UNCHANGED vars
             \/ Tick \/ keyboard_key_pressed \/ keyboard_alarm_handler
             \/ machine_reset \/ machine_trigger_reset
    <2>1. UNCHANGED <<record_active, playback_active, traps, batch>>
      BY <1>1 DEF Tick, keyboard_key_pressed, keyboard_alarm_handler, machine_reset,
                  machine_trigger_reset, Ask, modes, vars
    <2> QED
      BY <2>1, ModesKept
  <1>2. CASE event_alarm_handler
    <2>1. UNCHANGED <<record_active, traps, batch>> /\ playback_active' \in {playback_active, FALSE}
      BY <1>2 DEF event_alarm_handler, PlayEvent
    <2> QED
      BY <2>1, ModesKept
  <1>3. CASE RunTrap
    BY <1>3, TrapKeepsModes
  <1>4. ASSUME NEW mode \in StartModes, event_record_start(mode) PROVE ModesInv'
    <2>1. /\ Ask /\ NoStartWaits /\ ~record_active /\ Trigger(mode)
          /\ record_active' = record_active /\ playback_active' = FALSE
      BY <1>4 DEF event_record_start, ModesInv, TypeOK
    <2> QED
      BY <2>1, AskedStartKeepsModes
  <1>5. CASE event_playback_start
    <2>1. /\ Ask /\ NoStartWaits /\ ~record_active /\ Trigger("play")
          /\ record_active' = record_active /\ playback_active' = FALSE
      BY <1>5 DEF event_playback_start, modes, ModesInv, TypeOK
    <2> QED
      BY <2>1, AskedStartKeepsModes
  <1>6. CASE event_playback_stop
    <2>1. UNCHANGED <<record_active, traps, batch>> /\ playback_active' = FALSE
      BY <1>6 DEF event_playback_stop, Ask
    <2> QED
      BY <2>1, ModesKept
  <1>7. CASE event_record_stop \/ event_record_set_milestone \/ event_record_reset_milestone
    <2>1. PICK trap \in Followups :
            /\ Ask /\ record_active /\ Trigger(trap)
            /\ record_active' = record_active /\ playback_active' = playback_active
      BY <1>7 DEF event_record_stop, event_record_set_milestone, event_record_reset_milestone,
                  modes, Followups
    <2> QED
      BY <2>1, AskedFollowupKeepsModes
  <1> QED
    BY <1>1, <1>2, <1>3, <1>4, <1>5, <1>6, <1>7 DEF Next

-----------------------------------------------------------------------------
(* What depends on what. *)

(* No traps: nothing waits, now or next. *)
LEMMA NoneWaiting ==
  traps = <<>> => ~StartWaits /\ ~FollowupWaits /\ traps # <<"PLAYBACK">>
  BY DEF StartWaits, FollowupWaits

LEMMA NoneWaitingNext ==
  traps' = <<>> => ~StartWaits' /\ ~FollowupWaits' /\ traps' # <<"PLAYBACK">>
  BY DEF StartWaits, FollowupWaits

(* To overwrite a history is a start, *)
LEMMA OverwriteWaits == traps = <<"PLAYBACK">> => StartWaits
  BY DEF StartWaits, StartModes

(* and a start follows nothing. *)
LEMMA WaitsApart == ~(StartWaits /\ FollowupWaits)
  <1> SUFFICES ASSUME StartWaits, FollowupWaits PROVE FALSE
    OBVIOUS
  <1>1. PICK trap \in StartModes \cup {"play"} : traps = <<trap>>
    BY DEF StartWaits
  <1>2. traps[1] \in Followups
    BY <1>1 DEF FollowupWaits
  <1> QED
    BY <1>1, <1>2 DEF Followups, StartModes

(* The clock is a number, and a reset sets it to the least. *)
LEMMA NowParts ==
  ASSUME TypeInv
  PROVE  /\ clk \in Nat /\ clk >= 1 /\ Now \in Nat /\ Now >= 1
         /\ ~reset_due => Now = clk
         /\ reset_due => Now = 1
  BY DEF TypeInv, Now, RESET_CYCLES

(* What plays records nothing, and no trap of a recording waits. *)
LEMMA PlayingModes ==
  ASSUME ModesInv
  PROVE  /\ playback_active => traps = <<>> /\ ~record_active
         /\ Plays => ~record_active /\ ~FollowupWaits
         /\ traps # <<>> => StartWaits \/ FollowupWaits
         /\ FollowupWaits => batch \/ record_active
         /\ record_active => ~StartWaits /\ ~Plays /\ ~playback_active
         /\ StartWaits => ~batch /\ ~record_active /\ ~playback_active
  <1>1. traps # <<>> => StartWaits \/ FollowupWaits
    BY DEF ModesInv, TypeOK, StartWaits, FollowupWaits
  <1>2. playback_active => traps = <<>> /\ ~record_active
    BY <1>1 DEF ModesInv, ModesApart
  <1>3. record_active => ~StartWaits
    BY DEF ModesInv
  <1> QED
    BY <1>1, <1>2, <1>3, OverwriteWaits, WaitsApart, NoneWaiting DEF ModesInv, Plays, ModesApart

(* What is left alone stays as it is. *)
LEMMA FileKept == FileInv /\ UNCHANGED files => FileInv'
  BY DEF FileInv, files

(* Nothing plays, or nothing is known of the game; nothing records. *)
LEMMA PlayNone == ~Plays' => PlayInv'
  BY DEF PlayInv, Plays

LEMMA PlayUnknown == ~Known(game') /\ current' # 0 => PlayInv'
  BY DEF PlayInv

LEMMA RecordNone == ~record_active' /\ ~FollowupWaits' => RecordInv'
  BY DEF RecordInv

LEMMA RecordUnknown ==
  ~Known(game') /\ (record_active' => current' = Len(list'.events) + 1) => RecordInv'
  BY DEF RecordInv

(* A step that leaves the game, the lists and the modes alone. *)
LEMMA HistoryKept ==
  ASSUME HistoryInv,
         UNCHANGED <<clk, game, reset_due, traps, list, current, alarm, record_active,
                     playback_active, playback_reset_ack, start_file, end_file>>
  PROVE  HistoryInv'
  <1>1. TypeInv' /\ FileInv' /\ UNCHANGED <<Now, StartWaits, FollowupWaits, Plays, AfterReset>>
    BY DEF HistoryInv, TypeInv, FileInv, Now, StartWaits, FollowupWaits, Plays, AfterReset
  <1>2. Passed' = Passed
    BY <1>1 DEF Passed
  <1>3. RecordInv' /\ WaitInv'
    BY <1>1 DEF HistoryInv, RecordInv, WaitInv
  <1>4. PlayInv'
    BY <1>1, <1>2 DEF HistoryInv, PlayInv
  <1> QED
    BY <1>1, <1>3, <1>4 DEF HistoryInv

(* The parts of the state that a playback depends on. *)
LEMMA PlayingParts ==
  ASSUME ModesInv, HistoryInv, Plays, Known(game)
  PROVE  /\ Follows(game, end_file, start_file, list, Passed, Now)
         /\ IsGame(game) /\ IsEnd(end_file) /\ IsStart(start_file) /\ Saved(end_file, start_file)
         /\ end_file # NoFile /\ game.start = end_file.game.start
         /\ current \in Nat /\ Passed \in Nat
         /\ ~AfterReset => Passed + 1 = current
  <1>1. Follows(game, end_file, start_file, list, Passed, Now) /\ current # 0
    BY DEF HistoryInv, PlayInv
  <1>2. end_file # NoFile /\ game.start = end_file.game.start
    BY <1>1 DEF Follows
  <1>3. Saved(end_file, start_file)
    BY <1>2 DEF HistoryInv, FileInv
  <1>4. current \in Nat /\ IsGame(game) /\ IsEnd(end_file) /\ IsStart(start_file)
    <2>1. Len(list.events) \in Nat
      BY ListEnd DEF HistoryInv, TypeInv
    <2> QED
      BY <2>1 DEF HistoryInv, TypeInv
  <1> QED
    BY <1>1, <1>2, <1>3, <1>4 DEF Passed

-----------------------------------------------------------------------------
(* The machine. *)

(* Time does not pass an event that is due: its alarm is dispatched first. *)
LEMMA TickKeeps == ModesInv /\ HistoryInv /\ Tick => HistoryInv'
  <1> SUFFICES ASSUME ModesInv, HistoryInv, Tick PROVE HistoryInv'
    OBVIOUS
  <1>1. /\ ~reset_due /\ traps = <<>> /\ ~(alarm = "event" /\ Due) /\ clk' = clk + 1
        /\ UNCHANGED <<game, reset_due, traps, list, current, alarm, record_active,
                       playback_active, playback_reset_ack, start_file, end_file>>
    BY DEF Tick, log, modes, files
  <1>2. clk \in Nat /\ clk >= 1 /\ Now = clk /\ Now' = clk + 1
    BY <1>1, NowParts DEF HistoryInv, Now
  <1>3. TypeInv'
    BY <1>1, <1>2 DEF HistoryInv, TypeInv
  <1>4. FileInv'
    BY <1>1, FileKept DEF HistoryInv, files
  <1>5. WaitInv'
    BY <1>1, NoneWaitingNext DEF WaitInv
  <1>6. RecordInv'
    <2>1. ~FollowupWaits'
      BY <1>1, NoneWaitingNext
    <2>2. RecordInv /\ IsGame(game) /\ IsStart(start_file)
      BY DEF HistoryInv, TypeInv
    <2>3. record_active /\ Known(game) => Complete(list, game) /\ InOrder(game, start_file, clk)
      BY <1>2, <2>2 DEF RecordInv
    <2>4. record_active /\ Known(game) => InOrder(game, start_file, clk + 1)
      BY <1>2, <2>2, <2>3, OrderLater
    <2> QED
      BY <1>1, <1>2, <2>1, <2>2, <2>3, <2>4 DEF RecordInv
  <1>7. PlayInv'
    <2>1. /\ Plays' <=> playback_active
          /\ ~AfterReset' /\ Passed' = current - 1 /\ ~AfterReset
      <3>1. ~AfterReset' /\ ~AfterReset
        BY <1>1 DEF AfterReset
      <3>2. Plays' <=> playback_active
        BY <1>1, NoneWaitingNext DEF Plays
      <3> QED
        BY <1>1, <3>1, <3>2 DEF Passed
    <2>2. playback_active => current # 0
      BY DEF HistoryInv, PlayInv, Plays
    <2>3. ASSUME playback_active, Known(game)
          PROVE  alarm = "event" /\ Follows(game, end_file, start_file, list, current - 1, clk + 1)
      <3>1. Plays /\ alarm = "event"
        BY <1>1, <2>3 DEF HistoryInv, PlayInv, Plays
      <3>2. /\ Follows(game, end_file, start_file, list, Passed, clk)
            /\ IsGame(game) /\ IsEnd(end_file) /\ IsStart(start_file) /\ Saved(end_file, start_file)
            /\ Passed + 1 = current /\ current - 1 = Passed
        BY <1>2, <2>1, <2>3, <3>1, PlayingParts
      <3>3. ClkAt(list, Passed + 1) > clk
        <4>1. ~(ClkAt(list, current) <= clk)
          BY <1>1, <3>1 DEF Due
        <4>2. ClkAt(list, current) \in Int
          <5>1. list.events \in Seq(Entry)
            BY ListEnd DEF HistoryInv, TypeInv
          <5>2. \A e \in Entry : e.clk \in Int
            BY EntryKinds DEF Entry
          <5> QED
            BY <5>1, <5>2 DEF ClkAt
        <4> QED
          BY <1>2, <3>2, <4>1, <4>2
      <3>4. Follows(game, end_file, start_file, list, Passed, clk + 1)
        BY <1>2, <2>3, <3>2, <3>3, FollowsTick
      <3> QED
        BY <3>1, <3>2, <3>4
    <2> QED
      BY <1>1, <1>2, <2>1, <2>2, <2>3 DEF PlayInv
  <1> QED
    BY <1>3, <1>4, <1>5, <1>6, <1>7 DEF HistoryInv

(* What the user does is in the history, until its end is written. *)
LEMMA EventRecorded ==
  ASSUME list \in EventList, clk \in Nat \ {0}, current = Len(list.events) + 1,
         record_active, NEW type \in {"INPUT", "RESETCPU", "LIST_END"}, event_record(type)
  PROVE  /\ list' \in EventList /\ current' = Len(list'.events) + 1 /\ list'.mode = list.mode
         /\ Played(list') = IF type = "LIST_END" \/ Ended(list) THEN Played(list)
                            ELSE Append(Played(list), Event(type))
  <1> DEFINE s == list.events
             e == Event(type)
             t == Append(s, e)
  <1>1. s \in Seq(Entry) /\ Len(s) \in Nat
    BY ListEnd
  <1>2. e \in Recordable /\ e.type = type
    BY DEF Event, Recordable
  <1>3. e \in Entry /\ IsEvent(e)
    BY <1>2, EntryKinds
  <1>4. SubSeq(s, 1, current - 1) = s
    <2>1. current - 1 = Len(s)
      BY <1>1
    <2> QED
      BY <1>1, <2>1, SubSeqFull
  <1>5. list' = [list EXCEPT !.events = t] /\ current' = current + 1
    BY <1>4 DEF event_record
  <1>6. t \in Seq(Entry) /\ Len(t) = Len(s) + 1
    BY <1>1, <1>3, AppendProperties
  <1> HIDE DEF t, e
  <1>7. list' \in EventList /\ list'.events = t /\ list'.mode = list.mode
    BY <1>5, <1>6, ListParts DEF EventList
  <1>8. /\ Ended(Of(s)) => Played(Of(t)) = Played(Of(s))
        /\ ~Ended(Of(s)) => Played(Of(t)) = IF e.type # "LIST_END" /\ IsEvent(e) THEN Append(Played(Of(s)), e) ELSE Played(Of(s))
    BY <1>1, <1>3, PlayedAppend DEF t
  <1>9. /\ Played(list) = Played(Of(s)) /\ (Ended(list) <=> Ended(Of(s)))
        /\ Played(list') = Played(Of(t))
    BY <1>7, OnlyEvents
  <1>10. Played(list') = IF type = "LIST_END" \/ Ended(list) THEN Played(list) ELSE Append(Played(list), e)
    BY <1>2, <1>3, <1>8, <1>9
  <1> QED
    BY <1>1, <1>5, <1>6, <1>7, <1>10 DEF e

(* What happens to the machine is recorded, or ends what is known of the game. *)
LEMMA Occurs ==
  ASSUME ModesInv, HistoryInv, ~reset_due, NEW type \in {"INPUT", "RESETCPU"},
         event_record(type), Happens(type, Recorded)
  PROVE  /\ list' \in EventList /\ current' \in 0 .. Len(list'.events) + 1 /\ IsGame(game')
         /\ record_active => current' = Len(list'.events) + 1
         /\ record_active /\ Known(game') => Complete(list', game') /\ InOrder(game', start_file, ClkAfter(Event(type)))
         /\ ~record_active => ~Known(game') /\ current' = current
  <1>1. /\ list \in EventList /\ clk \in Nat \ {0} /\ IsGame(game) /\ IsStart(start_file)
        /\ current \in 0 .. Len(list.events) + 1 /\ Now = clk
        /\ record_active => current = Len(list.events) + 1
        /\ record_active /\ Known(game) => Complete(list, game) /\ InOrder(game, start_file, clk)
    BY NowParts DEF HistoryInv, TypeInv, RecordInv
  <1>2. CASE record_active
    <2>1. /\ list' \in EventList /\ current' = Len(list'.events) + 1 /\ list'.mode = list.mode
          /\ Played(list') = IF Ended(list) THEN Played(list) ELSE Append(Played(list), Event(type))
      BY <1>1, <1>2, EventRecorded
    <2>2. Len(list'.events) \in Nat
      BY <2>1, ListEnd
    <2>3. CASE ~Ended(list) /\ Known(game)
      <3>1. game' = Happened(game, Event(type))
        BY <1>2, <2>3 DEF Happens, Recorded, Known, Happened
      <3>2. Event(type) \in Happening /\ Event(type).clk = clk
        BY <1>1 DEF Event, Happening
      <3>3. IsGame(game') /\ Known(game') /\ game'.start = game.start /\ game'.past = Append(game.past, Event(type))
        BY <1>1, <2>3, <3>1, <3>2, HappenedParts
      <3>4. InOrder(game', start_file, ClkAfter(Event(type)))
        BY <1>1, <1>2, <2>3, <3>1, <3>2, OrderHappens
      <3>5. Complete(list', game')
        BY <1>1, <1>2, <2>1, <2>3, <3>3 DEF Complete
      <3> QED
        BY <1>2, <2>1, <2>2, <3>3, <3>4, <3>5
    <2>4. CASE ~(~Ended(list) /\ Known(game))
      <3>1. game' = Unknown
        BY <2>4 DEF Happens, Recorded, Known
      <3> QED
        BY <1>2, <2>1, <2>2, <3>1, UnknownParts
    <2> QED
      BY <2>3, <2>4
  <1>3. CASE ~record_active
    <2>1. game' = Unknown /\ list' = list /\ current' = current
      BY <1>3 DEF Happens, Recorded, event_record
    <2> QED
      BY <1>1, <1>3, <2>1, UnknownParts
  <1> QED
    BY <1>2, <1>3

(* A key happens to the machine at once. *)
LEMMA KeyboardKeeps == ModesInv /\ HistoryInv /\ keyboard_alarm_handler => HistoryInv'
  <1> SUFFICES ASSUME ModesInv, HistoryInv, keyboard_alarm_handler PROVE HistoryInv'
    OBVIOUS
  <1>1. /\ ~batch /\ ~reset_due /\ event_record("INPUT") /\ Happens("INPUT", Recorded)
        /\ UNCHANGED <<clk, reset_due, traps, alarm, record_active, playback_active,
                       playback_reset_ack, start_file, end_file>>
    BY DEF keyboard_alarm_handler, modes, files
  <1>2. /\ list' \in EventList /\ current' \in 0 .. Len(list'.events) + 1 /\ IsGame(game')
        /\ record_active => current' = Len(list'.events) + 1
        /\ record_active /\ Known(game') => Complete(list', game') /\ InOrder(game', start_file, clk)
        /\ ~record_active => ~Known(game') /\ current' = current
    <2>1. ClkAfter(Event("INPUT")) = clk
      BY DEF ClkAfter, Event
    <2> QED
      BY <1>1, <2>1, Occurs
  <1>3. UNCHANGED <<StartWaits, FollowupWaits, Plays>> /\ Now' = clk
    BY <1>1 DEF StartWaits, FollowupWaits, Plays, Now
  <1>4. TypeInv'
    BY <1>1, <1>2 DEF HistoryInv, TypeInv
  <1>5. FileInv'
    BY <1>1, FileKept DEF HistoryInv, files
  <1>6. WaitInv'
    BY <1>1, <1>3 DEF HistoryInv, WaitInv
  <1>7. FollowupWaits => record_active
    BY <1>1, PlayingModes
  <1>8. RecordInv'
    BY <1>1, <1>2, <1>3, <1>7 DEF RecordInv
  <1>9. PlayInv'
    <2>1. CASE record_active
      <3>1. ~Plays'
        BY <1>3, <2>1, PlayingModes
      <3> QED
        BY <3>1, PlayNone
    <2>2. CASE ~record_active
      <3>1. ~Known(game') /\ current' = current
        BY <1>2, <2>2
      <3>2. Plays => current # 0
        BY DEF HistoryInv, PlayInv
      <3>3. CASE Plays
        BY <3>1, <3>2, <3>3, PlayUnknown
      <3>4. CASE ~Plays
        BY <1>3, <3>4, PlayNone
      <3> QED
        BY <3>3, <3>4
    <2> QED
      BY <2>1, <2>2
  <1> QED
    BY <1>4, <1>5, <1>6, <1>8, <1>9 DEF HistoryInv

(* A reset that the user asks for waits for the end of the opcode. *)
LEMMA TriggerResetKeeps == ModesInv /\ HistoryInv /\ machine_trigger_reset => HistoryInv'
  <1> SUFFICES ASSUME ModesInv, HistoryInv, machine_trigger_reset PROVE HistoryInv'
    OBVIOUS
  <1>1. /\ ~reset_due /\ traps = <<>> /\ ~playback_active /\ reset_due' = TRUE
        /\ event_record("RESETCPU") /\ Happens("RESETCPU", Recorded)
        /\ UNCHANGED <<clk, traps, alarm, record_active, playback_active,
                       playback_reset_ack, start_file, end_file>>
    BY DEF machine_trigger_reset, Ask, modes, files
  <1>2. /\ list' \in EventList /\ current' \in 0 .. Len(list'.events) + 1 /\ IsGame(game')
        /\ record_active => current' = Len(list'.events) + 1
        /\ record_active /\ Known(game') => Complete(list', game') /\ InOrder(game', start_file, RESET_CYCLES)
    <2>1. ClkAfter(Event("RESETCPU")) = RESET_CYCLES
      BY DEF ClkAfter, Event
    <2> QED
      BY <1>1, <2>1, Occurs
  <1>3. ~StartWaits' /\ ~FollowupWaits' /\ ~Plays' /\ Now' = RESET_CYCLES
    BY <1>1, NoneWaitingNext DEF Plays, Now
  <1>4. TypeInv'
    BY <1>1, <1>2 DEF HistoryInv, TypeInv
  <1>5. FileInv'
    BY <1>1, FileKept DEF HistoryInv, files
  <1>6. WaitInv'
    BY <1>3 DEF WaitInv
  <1>7. RecordInv'
    BY <1>1, <1>2, <1>3 DEF RecordInv
  <1>8. PlayInv'
    BY <1>3, PlayNone
  <1> QED
    BY <1>4, <1>5, <1>6, <1>7, <1>8 DEF HistoryInv

(* An event of a list is not behind it, and EVENT_INITIAL comes first. *)
LEMMA EventAt ==
  ASSUME NEW l \in EventList, NEW k \in 0 .. Len(l.events) + 1
  PROVE  /\ TypeAt(l, k) # "LIST_END" => k + 1 \in 0 .. Len(l.events) + 1
         /\ TypeAt(l, k) = "INITIAL" <=> k = 0
  <1> DEFINE s == l.events
             n == Len(s)
  <1>1. s \in Seq(Entry) /\ n \in Nat /\ \A i \in 1 .. n : TypeAt(l, i) = s[i].type
    BY ListEnd
  <1>2. \A e \in Entry : e.type # "INITIAL"
    BY EntryKinds DEF Entry
  <1>3. CASE k = 0
    BY <1>1, <1>3 DEF TypeAt
  <1>4. CASE k \in 1 .. n
    BY <1>1, <1>2, <1>4
  <1>5. CASE k = n + 1
    <2>1. k # 0 /\ k \notin 1 .. n
      BY <1>1, <1>5
    <2>2. TypeAt(l, k) = "LIST_END"
      BY <2>1 DEF TypeAt
    <2> QED
      BY <2>1, <2>2
  <1> QED
    BY <1>1, <1>3, <1>4, <1>5

(* The reset that was due. *)
LEMMA ResetKeeps == ModesInv /\ HistoryInv /\ machine_reset => HistoryInv'
  <1> SUFFICES ASSUME ModesInv, HistoryInv, machine_reset PROVE HistoryInv'
    OBVIOUS
  <1> DEFINE after == TypeAt(list, current) = "RESETCPU"
  <1>1. /\ reset_due /\ traps = <<>> /\ ~reset_due' /\ reset_due' = FALSE /\ clk' = RESET_CYCLES
        /\ current' = IF after THEN current + 1 ELSE current
        /\ alarm' = IF record_active THEN "timestamp"
                    ELSE IF playback_reset_ack \/ after THEN "event" ELSE alarm
        /\ UNCHANGED <<game, traps, list, record_active, playback_active, start_file, end_file>>
    BY DEF machine_reset, event_reset_ack, files
  <1>2. ~StartWaits' /\ ~FollowupWaits' /\ traps' # <<"PLAYBACK">>
    BY <1>1, NoneWaitingNext
  <1>3. Now = RESET_CYCLES /\ Now' = RESET_CYCLES
    BY <1>1 DEF Now
  <1>4. list \in EventList /\ current \in 0 .. Len(list.events) + 1
    BY DEF HistoryInv, TypeInv
  <1>5. after => current + 1 \in 0 .. Len(list.events) + 1
    BY <1>4, EventAt
  <1>6. TypeInv'
    <2>1. RESET_CYCLES \in Nat \ {0}
      BY DEF RESET_CYCLES
    <2> QED
      BY <1>1, <1>4, <1>5, <2>1 DEF HistoryInv, TypeInv
  <1>7. FileInv'
    BY <1>1, FileKept DEF HistoryInv, files
  <1>8. WaitInv'
    BY <1>2 DEF WaitInv
  <1>9. RecordInv'
    <2>1. record_active => ~after
      <3>1. record_active => current = Len(list.events) + 1
        BY DEF HistoryInv, RecordInv
      <3>2. Len(list.events) \in Nat
        BY <1>4, ListEnd
      <3>3. record_active => ~(current + 1 \in 0 .. Len(list.events) + 1)
        BY <3>1, <3>2
      <3> QED
        BY <1>5, <3>3
    <2> QED
      BY <1>1, <1>2, <1>3, <2>1 DEF HistoryInv, RecordInv
  <1>10. PlayInv'
    <2>1. CASE ~playback_active
      <3>1. ~Plays'
        BY <1>1, <1>2, <2>1 DEF Plays
      <3> QED
        BY <3>1, PlayNone
    <2>2. CASE playback_active /\ ~Known(game)
      <3>1. current # 0
        BY <2>2 DEF HistoryInv, PlayInv, Plays
      <3>2. current' # 0
        BY <1>1, <1>4, <3>1
      <3> QED
        BY <1>1, <2>2, <3>2, PlayUnknown
    <2>3. CASE playback_active /\ Known(game)
      <3>1. Plays /\ ~record_active
        BY <2>3, PlayingModes DEF Plays
      <3>2. Follows(game, end_file, start_file, list, Passed, Now) /\ current # 0
        BY <2>3, <3>1 DEF HistoryInv, PlayInv
      <3>3. AfterReset \/ playback_reset_ack
        BY <1>1, <2>3 DEF HistoryInv, PlayInv
      <3>4. ~AfterReset' /\ (AfterReset <=> after)
        BY <1>1 DEF AfterReset
      <3>5. alarm' = "event"
        BY <1>1, <3>1, <3>3, <3>4
      <3>6. Passed' = Passed /\ current' # 0
        <4>1. current \in Nat /\ (current + 1) - 1 = current /\ current + 1 # 0
          BY <1>4
        <4>2. CASE after
          <5>1. current' = current + 1
            BY <1>1, <4>2
          <5> QED
            BY <3>4, <4>1, <4>2, <5>1 DEF Passed
        <4>3. CASE ~after
          <5>1. current' = current
            BY <1>1, <4>3
          <5> QED
            BY <3>2, <3>4, <4>3, <5>1 DEF Passed
        <4> QED
          BY <4>2, <4>3
      <3>7. Follows(game', end_file', start_file', list', Passed', Now')
        BY <1>1, <1>3, <3>2, <3>6
      <3> QED
        BY <1>1, <3>5, <3>6, <3>7 DEF PlayInv
    <2> QED
      BY <2>1, <2>2, <2>3
  <1> QED
    BY <1>6, <1>7, <1>8, <1>9, <1>10 DEF HistoryInv

(* The alarm is dispatched when nothing waits for the next opcode. *)
LEMMA AlarmAlone ==
  ModesInv /\ HistoryInv /\ event_alarm_handler => traps = <<>> /\ ~reset_due
  <1> SUFFICES ASSUME ModesInv, HistoryInv, event_alarm_handler PROVE traps = <<>> /\ ~reset_due
    OBVIOUS
  <1>1. ~batch /\ ~reset_due /\ Due /\ ~record_active
    BY DEF event_alarm_handler
  <1>2. ~FollowupWaits
    BY <1>1, PlayingModes
  <1>3. ~StartWaits
    BY <1>1 DEF HistoryInv, WaitInv, Due
  <1> QED
    BY <1>1, <1>2, <1>3, PlayingModes

(* A playback of a game that is known is not late for its event. *)
LEMMA PlayedEvent ==
  ASSUME ModesInv, HistoryInv, event_alarm_handler, playback_active, Known(game)
  PROVE  /\ Follows(game, end_file, start_file, list, Passed, clk)
         /\ IsGame(game) /\ IsEnd(end_file) /\ IsStart(start_file) /\ Saved(end_file, start_file)
         /\ end_file # NoFile /\ game.start = end_file.game.start
         /\ Passed \in Nat /\ Passed + 1 = current /\ current \in Nat /\ current # 0
         /\ ClkAt(list, current) <= clk
  <1>1. ~reset_due /\ Due /\ Plays
    BY AlarmAlone DEF event_alarm_handler, Plays
  <1>2. alarm = "event"
    BY <1>1 DEF HistoryInv, PlayInv
  <1>3. ClkAt(list, current) <= clk /\ ~AfterReset
    BY <1>1, <1>2 DEF Due, AfterReset
  <1>4. Now = clk
    BY <1>1 DEF Now
  <1>5. current # 0
    BY <1>1 DEF HistoryInv, PlayInv
  <1> QED
    BY <1>1, <1>3, <1>4, <1>5, PlayingParts

(* Whatever is played, the playback goes on behind it, *)
LEMMA AlarmKeepsPlay ==
  ASSUME ModesInv, HistoryInv, event_alarm_handler, playback_active, playback_active', TypeInv'
  PROVE  PlayInv'
  <1>1. /\ traps = <<>> /\ ~reset_due /\ PlayEvent
        /\ UNCHANGED <<clk, traps, list, record_active, playback_reset_ack, start_file, end_file>>
    BY AlarmAlone DEF event_alarm_handler, files
  <1>2. clk \in Nat \ {0} /\ clk \in Nat /\ list \in EventList /\ current \in 0 .. Len(list.events) + 1
    BY DEF HistoryInv, TypeInv
  <1>3. current # 0 /\ current \in Nat /\ current + 1 # 0 /\ (current + 1) - 1 = current
    <2>1. current # 0
      BY DEF HistoryInv, PlayInv, Plays
    <2>2. current \in Nat
      BY <1>2
    <2> QED
      BY <2>1, <2>2
  <1>4. CASE ~Known(game')
    <2>1. current' # 0
      BY <1>1, <1>3 DEF PlayEvent
    <2> QED
      BY <1>4, <2>1, PlayUnknown
  <1>5. CASE Known(game')
    <2>1. ASSUME NEW type, Happens(type, playback_active)
          PROVE  Known(game) /\ game' = Happened(game, Event(type))
      BY <1>5, <2>1 DEF Happens, Known, Unknown, Happened
    <2>2. CASE TypeAt(list, current) = "INPUT"
      <3> DEFINE e == Event("INPUT")
      <3>0. Happens("INPUT", playback_active) /\ current' = current + 1 /\ alarm' = "event" /\ reset_due' = reset_due
        BY <1>1, <2>2 DEF PlayEvent, next_alarm_set
      <3>1. Happens("INPUT", playback_active) /\ current' = current + 1 /\ alarm' = "event" /\ ~reset_due'
        BY <1>1, <3>0
      <3>2. Known(game) /\ game' = Happened(game, e)
        BY <2>1, <3>1
      <3>3. e = [type |-> TypeAt(list, current), clk |-> clk] /\ ClkAfter(e) = clk
        BY <2>2 DEF Event, ClkAfter
      <3> HIDE DEF e
      <3>4. Follows(Happened(game, e), end_file, start_file, list, Passed + 1, clk) /\ Passed + 1 = current
        BY <1>2, <2>2, <3>2, <3>3, PlayedEvent, FollowsEvent
      <3>5. Passed' = current /\ Now' = clk /\ current' # 0 /\ ~AfterReset'
        BY <1>1, <1>3, <3>1 DEF Passed, Now, AfterReset
      <3> QED
        BY <1>1, <3>1, <3>2, <3>4, <3>5 DEF PlayInv
    <2>3. CASE TypeAt(list, current) = "RESETCPU"
      <3> DEFINE e == Event("RESETCPU")
      <3>1. Happens("RESETCPU", playback_active) /\ current' = current /\ reset_due'
        BY <1>1, <2>3 DEF PlayEvent
      <3>2. Known(game) /\ game' = Happened(game, e)
        BY <2>1, <3>1
      <3>3. e = [type |-> TypeAt(list, current), clk |-> clk] /\ ClkAfter(e) = RESET_CYCLES
        BY <2>3 DEF Event, ClkAfter
      <3> HIDE DEF e
      <3>4. Follows(Happened(game, e), end_file, start_file, list, Passed + 1, RESET_CYCLES) /\ Passed + 1 = current
        BY <1>2, <2>3, <3>2, <3>3, PlayedEvent, FollowsEvent
      <3>5. Passed' = current /\ Now' = RESET_CYCLES /\ current' # 0 /\ AfterReset'
        BY <1>1, <1>3, <2>3, <3>1 DEF Passed, Now, AfterReset
      <3> QED
        BY <1>1, <3>1, <3>2, <3>4, <3>5 DEF PlayInv
    <2>4. CASE TypeAt(list, current) \in {"INITIAL", "TIMESTAMP"}
      <3>0. UNCHANGED game /\ current' = current + 1 /\ alarm' = "event" /\ reset_due' = reset_due
        BY <1>1, <2>4 DEF PlayEvent, next_alarm_set
      <3>1. UNCHANGED game /\ current' = current + 1 /\ alarm' = "event" /\ ~reset_due'
        BY <1>1, <3>0
      <3>2. TypeAt(list, current) = "TIMESTAMP"
        BY <1>2, <1>3, <2>4, EventAt
      <3>3. Known(game)
        BY <1>5, <3>1 DEF Known
      <3>4. Follows(game, end_file, start_file, list, Passed + 1, clk) /\ Passed + 1 = current
        BY <1>2, <3>2, <3>3, PlayedEvent, FollowsStamp
      <3>5. Passed' = current /\ Now' = clk /\ current' # 0 /\ ~AfterReset'
        BY <1>1, <1>3, <3>1 DEF Passed, Now, AfterReset
      <3> QED
        BY <1>1, <3>1, <3>4, <3>5 DEF PlayInv
    <2> QED
      BY <1>1, <2>2, <2>3, <2>4 DEF PlayEvent
  <1> QED
    BY <1>4, <1>5

(* and nothing else is under way. *)
LEMMA AlarmKeeps == ModesInv /\ HistoryInv /\ event_alarm_handler => HistoryInv'
  <1> SUFFICES ASSUME ModesInv, HistoryInv, event_alarm_handler PROVE HistoryInv'
    OBVIOUS
  <1>1. /\ traps = <<>> /\ ~reset_due /\ ~record_active /\ PlayEvent
        /\ UNCHANGED <<clk, traps, list, record_active, playback_reset_ack, start_file, end_file>>
    BY AlarmAlone DEF event_alarm_handler, files
  <1>2. /\ clk \in Nat \ {0} /\ list \in EventList /\ current \in 0 .. Len(list.events) + 1 /\ IsGame(game)
        /\ reset_due \in BOOLEAN
    BY DEF HistoryInv, TypeInv
  <1>3. ~StartWaits' /\ ~FollowupWaits' /\ traps' # <<"PLAYBACK">>
    BY <1>1, NoneWaitingNext
  <1>4. IsGame(game')
    <2>1. ASSUME NEW type \in {"INPUT", "RESETCPU"}, Happens(type, playback_active) PROVE IsGame(game')
      <3>1. Event(type) \in Happening
        BY <1>2 DEF Event, Happening
      <3>2. CASE playback_active /\ Known(game)
        <4>1. game' = Happened(game, Event(type))
          BY <2>1, <3>2 DEF Happens, Known, Happened
        <4> QED
          BY <1>2, <3>1, <3>2, <4>1, HappenedParts
      <3>3. CASE ~(playback_active /\ Known(game))
        <4>1. game' = Unknown
          BY <2>1, <3>3 DEF Happens, Known
        <4> QED
          BY <4>1, UnknownParts
      <3> QED
        BY <3>2, <3>3
    <2> QED
      BY <1>1, <1>2, <2>1 DEF PlayEvent
  <1>5. current' \in 0 .. Len(list.events) + 1 /\ reset_due' \in BOOLEAN
    <2>1. TypeAt(list, current) # "LIST_END" => current + 1 \in 0 .. Len(list.events) + 1
      BY <1>2, EventAt
    <2> QED
      BY <1>1, <1>2, <2>1 DEF PlayEvent
  <1>6. TypeInv'
    BY <1>1, <1>2, <1>4, <1>5 DEF HistoryInv, TypeInv
  <1>7. FileInv'
    BY <1>1, FileKept DEF HistoryInv, files
  <1>8. WaitInv' /\ RecordInv'
    BY <1>1, <1>3, RecordNone DEF WaitInv
  <1>9. PlayInv'
    <2>1. CASE playback_active'
      <3>1. playback_active
        BY <1>1, <2>1 DEF PlayEvent
      <3> QED
        BY <1>6, <2>1, <3>1, AlarmKeepsPlay
    <2>2. CASE ~playback_active'
      <3>1. ~Plays'
        BY <1>3, <2>2 DEF Plays
      <3> QED
        BY <3>1, PlayNone
    <2> QED
      BY <2>1, <2>2
  <1> QED
    BY <1>6, <1>7, <1>8, <1>9 DEF HistoryInv

(* A list that is cut off. *)
LEMMA CutList ==
  ASSUME NEW l \in EventList, NEW k \in 0 .. Len(l.events),
         NEW cut, cut = [l EXCEPT !.events = SubSeq(@, 1, k)]
  PROVE  /\ cut \in EventList /\ Len(cut.events) = k /\ cut.mode = l.mode
         /\ k < EndOf(l) => Played(cut) = Selected(SubSeq(l.events, 1, k))
  <1> DEFINE s == l.events
             t == SubSeq(s, 1, k)
  <1>1. s \in Seq(Entry) /\ EndsAt(s, EndOf(l)) /\ Len(s) \in Nat /\ EndOf(l) \in 1 .. Len(s) + 1
    BY ListEnd
  <1>2. k \in Nat /\ k <= Len(s)
    BY <1>1
  <1>3. t \in Seq(Entry) /\ Len(t) = k /\ \A i \in 1 .. k : t[i] = s[i]
    BY <1>1, <1>2, SubSeqIs
  <1>4. cut \in EventList /\ cut.events = t /\ cut.mode = l.mode
    BY <1>3, ListParts DEF EventList
  <1>5. ASSUME k < EndOf(l) PROVE Played(cut) = Selected(t)
    <2>1. \A i \in 1 .. Len(s) : i < EndOf(l) => s[i].type # "LIST_END"
      BY <1>1 DEF EndsAt
    <2>2. \A i \in 1 .. k : i \in 1 .. Len(s) /\ i < EndOf(l)
      BY <1>1, <1>2, <1>5
    <2>3. \A i \in 1 .. k : t[i].type # "LIST_END"
      BY <1>3, <2>1, <2>2
    <2>4. EndsAt(t, k + 1)
      BY <1>2, <1>3, <2>3 DEF EndsAt
    <2> HIDE DEF t
    <2>5. EndOf(Of(t)) = k + 1 /\ (k + 1) - 1 = k
      BY <1>2, <1>3, <2>4, EndIs
    <2>6. Played(cut) = Selected(SubSeq(t, 1, EndOf(Of(t)) - 1))
      BY <1>4, OnlyEvents DEF Played, Of
    <2>7. SubSeq(t, 1, k) = t
      BY <1>3, SubSeqFull
    <2> QED
      BY <2>5, <2>6, <2>7
  <1> QED
    BY <1>3, <1>4, <1>5

(* A history that begins. *)
LEMMA NewHistory ==
  ASSUME clk \in Nat, NEW mode \in {"FILE_SAVE", "RESET"}
  PROVE  /\ History(mode) \in EventList /\ Len(History(mode).events) = 0
         /\ Played(History(mode)) = <<>> /\ History(mode).mode = mode
  <1> DEFINE h == History(mode)
  <1>1. <<>> \in Seq(Entry) /\ Len(<<>>) = 0
    OBVIOUS
  <1>2. h = [mode |-> mode, clk |-> clk, events |-> <<>>]
    BY DEF History
  <1>3. h \in EventList /\ h.events = <<>> /\ h.mode = mode
    BY <1>1, <1>2 DEF EventList, Modes
  <1> HIDE DEF h
  <1>4. EndOf(h) - 1 = 0
    <2>1. EndOf(h) \in 1 .. Len(h.events) + 1
      BY <1>3, ListEnd
    <2> QED
      BY <1>1, <1>3, <2>1
  <1>5. SubSeq(<<>>, 1, 0) = <<>>
    BY <1>1, SubSeqEmpty
  <1>6. Played(h) = <<>>
    BY <1>3, <1>4, <1>5, SelectedEmpty DEF Played
  <1> QED
    BY <1>1, <1>3, <1>6 DEF h

(* What is left of a list that was read in part. *)
LEMMA PartRead ==
  ASSUME NEW l \in WrittenList, NEW r \in ReadInPart(l)
  PROVE  r \in EventList /\ Base(r) \in 0 .. Len(r.events) + 1
  <1>1. r \in EventList
    <2> DEFINE read == Read(l).events
    <2>1. read \in Seq(Entry) /\ Len(read) \in Nat
      BY ReadList, ListEnd
    <2>2. CASE r = NoHistory
      <3>1. <<>> \in Seq(Entry)
        OBVIOUS
      <3> QED
        BY <2>2, <3>1 DEF NoHistory, EventList, Modes
    <2>3. ASSUME NEW k \in 0 .. Len(read), r = [l EXCEPT !.events = SubSeq(read, 1, k)]
          PROVE  r \in EventList
      <3>1. SubSeq(read, 1, k) \in Seq(Entry)
        <4>1. k \in Nat /\ k <= Len(read)
          BY <2>1
        <4> QED
          BY <2>1, <4>1, SubSeqIs
      <3> QED
        BY <2>3, <3>1, ListParts DEF WrittenList, EventList
    <2> QED
      BY <2>2, <2>3 DEF ReadInPart
  <1>2. Len(r.events) \in Nat /\ Base(r) \in {0, 1}
    BY <1>1, ListEnd DEF Base
  <1> QED
    BY <1>1, <1>2

(* The traps that read and write the end of a recording, and fail to. *)
LEMMA EndUnread ==
  ASSUME TypeInv, EndNotRead
  PROVE  /\ clk' \in Nat \ {0} /\ IsGame(game') /\ reset_due' \in BOOLEAN
         /\ list' \in EventList /\ current' \in 0 .. Len(list'.events) + 1
         /\ UNCHANGED <<game, clk, list, current, reset_due>> \/ ~Known(game')
  <1>1. CASE UNCHANGED <<game, clk, list, current, reset_due>>
    BY <1>1 DEF TypeInv
  <1>2. CASE ~UNCHANGED <<game, clk, list, current, reset_due>>
    <2>1. /\ end_file # NoFile /\ game' = Unknown /\ clk' = end_file.clk /\ reset_due' = TRUE
          /\ \/ UNCHANGED <<list, current>>
             \/ list' \in ReadInPart(end_file.list) /\ current' = Base(list')
      BY <1>2 DEF EndNotRead
    <2>2. end_file.clk \in Nat \ {0} /\ end_file.list \in WrittenList
      BY <2>1 DEF TypeInv, IsEnd
    <2>3. list' \in EventList /\ current' \in 0 .. Len(list'.events) + 1
      BY <2>1, <2>2, PartRead DEF TypeInv
    <2> QED
      BY <2>1, <2>2, <2>3, UnknownParts
  <1> QED
    BY <1>1, <1>2

LEMMA EndRead ==
  ASSUME TypeInv, FileInv, ReadEnd
  PROVE  /\ clk' \in Nat \ {0} /\ IsGame(game') /\ reset_due' = reset_due
         /\ list' \in EventList /\ current' = Len(list'.events) + 1
         /\ Known(game') => Complete(list', game') /\ InOrder(game', start_file, clk') /\ ~reset_due
  <1> DEFINE read == Read(end_file.list)
  <1>1. /\ end_file # NoFile /\ reset_due' = reset_due /\ clk' = end_file.clk
        /\ game' = IF reset_due THEN Unknown ELSE end_file.game
        /\ list' = [read EXCEPT !.events = SubSeq(@, 1, EndOf(read) - 1)]
        /\ current' = EndOf(read)
    BY DEF ReadEnd
  <1>2. IsGame(end_file.game) /\ end_file.clk \in Nat \ {0} /\ end_file.list \in WrittenList /\ Saved(end_file, start_file)
    BY <1>1 DEF TypeInv, IsEnd, FileInv
  <1>3. read \in EventList /\ read.mode = end_file.list.mode /\ Played(read) = Played(end_file.list)
    BY <1>2, ReadList
  <1>4. EndOf(read) \in 1 .. Len(read.events) + 1 /\ Len(read.events) \in Nat
    BY <1>3, ListEnd
  <1> HIDE DEF read
  <1>5. EndOf(read) - 1 \in 0 .. Len(read.events) /\ EndOf(read) - 1 < EndOf(read) /\ (EndOf(read) - 1) + 1 = EndOf(read)
    BY <1>4
  <1>6. /\ list' \in EventList /\ Len(list'.events) = EndOf(read) - 1 /\ list'.mode = read.mode
        /\ Played(list') = Selected(SubSeq(read.events, 1, EndOf(read) - 1))
    <2> DEFINE k == EndOf(read) - 1
               cut == [read EXCEPT !.events = SubSeq(@, 1, k)]
    <2>1. k \in 0 .. Len(read.events) /\ k < EndOf(read) /\ list' = cut
      BY <1>1, <1>5
    <2> HIDE DEF k
    <2>2. /\ cut \in EventList /\ Len(cut.events) = k /\ cut.mode = read.mode
          /\ Played(cut) = Selected(SubSeq(read.events, 1, k))
      BY <1>3, <2>1, CutList
    <2> QED
      BY <2>1, <2>2 DEF k
  <1>7. Played(list') = Played(end_file.list) /\ list'.mode = end_file.list.mode
    BY <1>3, <1>6 DEF Played
  <1>8. IsGame(game')
    BY <1>1, <1>2, UnknownParts
  <1>9. Known(game') => game' = end_file.game /\ ~reset_due
    BY <1>1, UnknownParts
  <1>10. Known(game') => Complete(list', game') /\ InOrder(game', start_file, clk')
    BY <1>1, <1>2, <1>7, <1>9 DEF Saved, Complete
  <1> QED
    BY <1>1, <1>2, <1>5, <1>6, <1>8, <1>9, <1>10

LEMMA EndWritten ==
  ASSUME ModesInv, HistoryInv, FollowupWaits, WriteEnd
  PROVE  IsEnd(end_file') /\ Saved(end_file', start_file)
  <1> DEFINE w == Written(list)
  <1>1. /\ list \in EventList /\ IsGame(game) /\ clk \in Nat \ {0}
    BY DEF HistoryInv, TypeInv
  <1>2. list.events \in Seq(Entry)
    BY <1>1, ListEnd
  <1>3. Selected(list.events) \in Seq(Recordable)
    BY <1>2, SelectedType, EntryKinds
  <1>4. w \in WrittenList /\ w.mode = list.mode /\ w.events = Selected(list.events)
    <2>1. w = [list EXCEPT !.events = Selected(list.events)]
      BY DEF Written
    <2> QED
      BY <1>1, <1>3, <2>1, ListParts DEF EventList, WrittenList
  <1>5. Played(w) = Played(list)
    BY <1>2, <1>4, PlayedSelected, OnlyEvents
  <1>6. Known(game) => Complete(w, game) /\ InOrder(game, start_file, clk)
    <2> SUFFICES ASSUME Known(game) PROVE Complete(w, game) /\ InOrder(game, start_file, clk)
      OBVIOUS
    <2>1. Complete(list, game) /\ InOrder(game, start_file, Now)
      BY DEF HistoryInv, RecordInv
    <2>2. ~reset_due
      BY DEF HistoryInv, WaitInv
    <2> QED
      BY <1>4, <1>5, <2>1, <2>2 DEF Complete, Now
  <1> HIDE DEF w
  <1>7. end_file'.game = game /\ end_file'.clk = clk /\ end_file'.list = w
    BY DEF WriteEnd, w
  <1> QED
    BY <1>1, <1>4, <1>6, <1>7 DEF IsEnd, Saved

LEMMA EndUnwritten ==
  ASSUME HistoryInv, EndNotWritten
  PROVE  IsEnd(end_file') /\ (end_file' # NoFile => Saved(end_file', start_file))
  BY DEF EndNotWritten, HistoryInv, TypeInv, FileInv, IsEnd

(* A start that has run: nothing waits any more. *)
StartRuns ==
  /\ ModesInv /\ HistoryInv /\ StartWaits
  /\ traps' = <<>>
  /\ ~record_active /\ ~playback_active /\ ~reset_due

(* So nothing holds a playback or a recording that starts to anything. *)
LEMMA StartRunsParts ==
  ASSUME StartRuns
  PROVE  /\ ~StartWaits' /\ ~FollowupWaits' /\ traps' # <<"PLAYBACK">> /\ WaitInv'
         /\ TypeInv /\ FileInv /\ Now = clk /\ clk \in Nat \ {0} /\ clk \in Nat
         /\ list \in EventList /\ IsStart(start_file) /\ IsEnd(end_file) /\ IsGame(game)
         /\ current \in 0 .. Len(list.events) + 1
         /\ ~playback_active' => ~Plays'
  <1>1. ~StartWaits' /\ ~FollowupWaits' /\ traps' # <<"PLAYBACK">>
    BY NoneWaitingNext DEF StartRuns
  <1>2. TypeInv /\ FileInv /\ ~reset_due
    BY DEF StartRuns, HistoryInv
  <1> QED
    BY <1>1, <1>2 DEF WaitInv, TypeInv, Now, Plays

(* A start that makes a new snapshot makes a new game. *)
LEMMA NewStartParts ==
  NewStart \in Starts \ {HardReset} /\ (end_file = NoFile \/ NewStart # end_file.game.start)
  <1>1. \E s \in Starts \ {HardReset} : end_file = NoFile \/ s # end_file.game.start
    <2>1. 1 \in Starts \ {HardReset} /\ 2 \in Starts \ {HardReset} /\ 1 # 2
      BY DEF Starts, HardReset
    <2> QED
      BY <2>1
  <1> QED
    BY <1>1, Zenon DEF NewStart

(* event_record_start_trap(), mode by mode. *)
LEMMA FileSaveKeeps == StartRuns /\ record_start_trap_FileSave => HistoryInv'
  <1> SUFFICES ASSUME StartRuns, record_start_trap_FileSave PROVE HistoryInv'
    OBVIOUS
  <1>1. /\ ~StartWaits' /\ ~FollowupWaits' /\ WaitInv'
        /\ TypeInv /\ FileInv /\ clk \in Nat \ {0} /\ clk \in Nat
        /\ list \in EventList /\ IsStart(start_file) /\ IsEnd(end_file) /\ IsGame(game)
        /\ current \in 0 .. Len(list.events) + 1 /\ ~record_active /\ ~playback_active /\ ~reset_due
    BY StartRunsParts DEF StartRuns
  <1>2. CASE /\ start_file' = [start |-> NewStart, clk |-> clk]
             /\ game' = NewGame(NewStart)
             /\ NewList("FILE_SAVE")
             /\ StartRecording
             /\ UNCHANGED <<clk, reset_due, end_file, playback_active, playback_reset_ack>>
    <2> DEFINE s == NewStart
    <2>1. s \in Starts \ {HardReset} /\ (end_file = NoFile \/ s # end_file.game.start)
      BY NewStartParts
    <2> HIDE DEF s
    <2>2. IsGame(game') /\ game'.start = s /\ game'.past = <<>>
      BY <1>2, <2>1, NewGameParts DEF s
    <2>3. list' = History("FILE_SAVE") /\ current' = 1 /\ list' \in EventList /\ Len(list'.events) = 0
          /\ Played(list') = <<>> /\ list'.mode = "FILE_SAVE"
      BY <1>1, <1>2, NewHistory DEF NewList
    <2>4. IsStart(start_file') /\ start_file'.start = s /\ start_file'.clk = clk
      BY <1>1, <1>2, <2>1 DEF IsStart, s
    <2>5. TypeInv'
      BY <1>1, <1>2, <2>2, <2>3, <2>4 DEF TypeInv
    <2>6. FileInv'
      <3> SUFFICES ASSUME end_file # NoFile, Known(end_file.game), Saved(end_file, start_file)
                   PROVE  Complete(end_file.list, end_file.game) /\ InOrder(end_file.game, start_file', end_file.clk)
        BY <1>1, <1>2 DEF FileInv, Saved
      <3>1. IsGame(end_file.game) /\ end_file.clk \in Nat /\ end_file.clk >= 1
        BY <1>1 DEF IsEnd
      <3>2. Complete(end_file.list, end_file.game) /\ InOrder(end_file.game, start_file, end_file.clk)
        BY DEF Saved
      <3>3. start_file'.start # end_file.game.start
        BY <2>1, <2>4
      <3> QED
        BY <1>1, <3>1, <3>2, <3>3, OrderOtherFile
    <2>7. RecordInv'
      <3>1. Complete(list', game')
        BY <2>1, <2>2, <2>3 DEF Complete
      <3>2. Now' = clk
        BY <1>1, <1>2 DEF Now
      <3>3. StartClk(s, start_file') <= clk
        BY <1>1, <2>4 DEF StartClk, RESET_CYCLES
      <3>4. InOrder(game', start_file', clk)
        BY <1>2, <2>1, <3>3, OrderNew DEF s
      <3> QED
        BY <2>3, <3>1, <3>2, <3>4 DEF RecordInv
    <2>8. PlayInv'
      BY <1>1, <1>2, StartRunsParts, PlayNone
    <2> QED
      BY <1>1, <2>5, <2>6, <2>7, <2>8 DEF HistoryInv
  <1>3. CASE /\ start_file' \in {start_file, NoFile}
             /\ UNCHANGED <<clk, game, reset_due, log, modes, end_file>>
    <2>1. IsStart(start_file')
      BY <1>1, <1>3 DEF IsStart
    <2>2. TypeInv'
      BY <1>1, <1>3, <2>1 DEF TypeInv, log
    <2>3. FileInv'
      <3> SUFFICES ASSUME end_file # NoFile, Known(end_file.game), Saved(end_file, start_file)
                   PROVE  Complete(end_file.list, end_file.game) /\ InOrder(end_file.game, start_file', end_file.clk)
        BY <1>1, <1>3 DEF FileInv, Saved
      <3>1. IsGame(end_file.game) /\ end_file.clk \in Nat /\ end_file.clk >= 1
        BY <1>1 DEF IsEnd
      <3>2. Complete(end_file.list, end_file.game) /\ InOrder(end_file.game, start_file, end_file.clk)
        BY DEF Saved
      <3>3. CASE start_file' = start_file
        BY <3>2, <3>3
      <3>4. CASE start_file' = NoFile
        BY <1>1, <3>1, <3>2, <3>4, OrderOtherFile
      <3> QED
        BY <1>3, <3>3, <3>4
    <2>4. RecordInv' /\ PlayInv'
      BY <1>1, <1>3, RecordNone, StartRunsParts, PlayNone DEF modes
    <2> QED
      BY <1>1, <2>2, <2>3, <2>4 DEF HistoryInv
  <1> QED
    BY <1>2, <1>3 DEF record_start_trap_FileSave

LEMMA FileLoadKeeps == StartRuns /\ record_start_trap_FileLoad => HistoryInv'
  <1> SUFFICES ASSUME StartRuns, record_start_trap_FileLoad PROVE HistoryInv'
    OBVIOUS
  <1>1. /\ ~FollowupWaits' /\ WaitInv' /\ TypeInv /\ FileInv /\ ~record_active /\ ~playback_active /\ ~reset_due
    BY StartRunsParts DEF StartRuns
  <1>2. UNCHANGED <<start_file, end_file, playback_active, playback_reset_ack>>
    BY DEF record_start_trap_FileLoad, files
  <1>3. FileInv' /\ PlayInv'
    BY <1>1, <1>2, FileKept, StartRunsParts, PlayNone DEF files
  <1>4. CASE EndNotRead /\ UNCHANGED <<alarm, record_active>>
    <2>1. TypeInv'
      BY <1>1, <1>2, <1>4, EndUnread DEF TypeInv
    <2>2. RecordInv'
      BY <1>1, <1>4, RecordNone
    <2> QED
      BY <1>1, <1>3, <2>1, <2>2 DEF HistoryInv
  <1>5. CASE ReadEnd /\ StartRecording
    <2>1. /\ clk' \in Nat \ {0} /\ IsGame(game') /\ reset_due' = reset_due
          /\ list' \in EventList /\ current' = Len(list'.events) + 1
          /\ Known(game') => Complete(list', game') /\ InOrder(game', start_file, clk')
      BY <1>1, <1>5, EndRead
    <2>2. Len(list'.events) \in Nat
      BY <2>1, ListEnd
    <2>3. TypeInv'
      BY <1>1, <1>2, <2>1, <2>2 DEF TypeInv
    <2>4. Now' = clk'
      BY <1>1, <2>1 DEF Now
    <2>5. RecordInv'
      BY <1>2, <2>1, <2>4 DEF RecordInv
    <2> QED
      BY <1>1, <1>3, <2>3, <2>5 DEF HistoryInv
  <1> QED
    BY <1>4, <1>5 DEF record_start_trap_FileLoad

LEMMA StartResetKeeps == StartRuns /\ record_start_trap_Reset => HistoryInv'
  <1> SUFFICES ASSUME StartRuns, record_start_trap_Reset PROVE HistoryInv'
    OBVIOUS
  <1>1. /\ ~FollowupWaits' /\ WaitInv' /\ TypeInv /\ FileInv /\ ~playback_active
        /\ clk \in Nat \ {0} /\ clk \in Nat /\ IsStart(start_file)
    BY StartRunsParts DEF StartRuns
  <1>2. /\ game' = NewGame(HardReset) /\ reset_due' = TRUE /\ NewList("RESET") /\ StartRecording
        /\ UNCHANGED <<clk, start_file, end_file, playback_active, playback_reset_ack>>
    BY DEF record_start_trap_Reset, files
  <1>3. FileInv' /\ PlayInv'
    BY <1>1, <1>2, FileKept, StartRunsParts, PlayNone DEF files
  <1>4. HardReset \in Starts
    BY DEF Starts
  <1>5. IsGame(game') /\ game'.start = HardReset /\ game'.past = <<>>
    BY <1>2, <1>4, NewGameParts
  <1>6. list' = History("RESET") /\ current' = 1 /\ list' \in EventList /\ Len(list'.events) = 0
        /\ Played(list') = <<>> /\ list'.mode = "RESET"
    BY <1>1, <1>2, NewHistory DEF NewList
  <1>7. TypeInv'
    BY <1>1, <1>2, <1>5, <1>6 DEF TypeInv
  <1>8. Now' = RESET_CYCLES
    BY <1>2 DEF Now
  <1>9. StartClk(HardReset, start_file) <= RESET_CYCLES
    BY <1>1 DEF StartClk, IsStart, RESET_CYCLES
  <1>10. InOrder(game', start_file, RESET_CYCLES)
    BY <1>2, <1>4, <1>9, OrderNew
  <1>11. RecordInv'
    BY <1>2, <1>5, <1>6, <1>8, <1>10 DEF RecordInv, Complete
  <1> QED
    BY <1>1, <1>3, <1>7, <1>11 DEF HistoryInv

LEMMA OverwriteKeeps == StartRuns /\ traps = <<"PLAYBACK">> /\ record_start_trap_Playback => HistoryInv'
  <1> SUFFICES ASSUME StartRuns, traps = <<"PLAYBACK">>, record_start_trap_Playback PROVE HistoryInv'
    OBVIOUS
  <1>1. /\ ~FollowupWaits' /\ WaitInv' /\ TypeInv /\ FileInv /\ ~playback_active /\ ~reset_due
        /\ list \in EventList /\ IsStart(start_file) /\ current \in 0 .. Len(list.events) + 1 /\ Now = clk
    BY StartRunsParts DEF StartRuns
  <1>2. /\ list' = [list EXCEPT !.events = SubSeq(@, 1, current - 1)] /\ StartRecording
        /\ UNCHANGED <<clk, game, reset_due, current, start_file, end_file, playback_active, playback_reset_ack>>
    BY DEF record_start_trap_Playback, files
  <1>3. FileInv' /\ PlayInv'
    BY <1>1, <1>2, FileKept, StartRunsParts, PlayNone DEF files
  <1>4. Plays /\ current # 0
    BY DEF StartRuns, HistoryInv, PlayInv, Plays
  <1> DEFINE k == current - 1
  <1>5. k \in 0 .. Len(list.events) /\ current = k + 1
    <2>1. Len(list.events) \in Nat
      BY <1>1, ListEnd
    <2> QED
      BY <1>1, <1>4, <2>1
  <1>6. Passed = k
    BY <1>1 DEF Passed, AfterReset
  <1>7. list' = [list EXCEPT !.events = SubSeq(@, 1, k)]
    BY <1>2
  <1> HIDE DEF k
  <1>8. list' \in EventList /\ Len(list'.events) = k
    <2> DEFINE cut == [list EXCEPT !.events = SubSeq(@, 1, k)]
    <2>1. cut \in EventList /\ Len(cut.events) = k
      BY <1>1, <1>5, CutList
    <2> QED
      BY <1>7, <2>1
  <1>9. current' = Len(list'.events) + 1 /\ current' \in 0 .. Len(list'.events) + 1
    BY <1>2, <1>5, <1>8
  <1>10. TypeInv'
    BY <1>1, <1>2, <1>8, <1>9 DEF TypeInv
  <1>11. Known(game) => Complete(list', game) /\ InOrder(game, start_file, Now)
    <2> SUFFICES ASSUME Known(game) PROVE Complete(list', game) /\ InOrder(game, start_file, Now)
      OBVIOUS
    <2>1. /\ Follows(game, end_file, start_file, list, k, Now)
          /\ IsGame(game) /\ IsEnd(end_file) /\ IsStart(start_file) /\ Saved(end_file, start_file)
      BY <1>4, <1>6, PlayingParts DEF StartRuns
    <2>2. InOrder(game, start_file, Now)
      BY <2>1 DEF Follows
    <2>3. Complete([list EXCEPT !.events = SubSeq(@, 1, k)], game)
      BY <2>1, FollowsCut
    <2> QED
      BY <1>7, <2>2, <2>3
  <1>12. Now' = Now
    BY <1>2 DEF Now
  <1>13. RecordInv'
    BY <1>2, <1>9, <1>11, <1>12 DEF RecordInv
  <1> QED
    BY <1>1, <1>3, <1>10, <1>13 DEF HistoryInv

(* event_playback_start_trap(), when it fails and when it does not. *)
LEMMA PlayNotStartedKeeps == StartRuns /\ PlaybackNotStarted /\ UNCHANGED <<record_active, files>> => HistoryInv'
  <1> SUFFICES ASSUME StartRuns, PlaybackNotStarted, UNCHANGED <<record_active, files>> PROVE HistoryInv'
    OBVIOUS
  <1>1. /\ ~FollowupWaits' /\ WaitInv' /\ TypeInv /\ FileInv /\ ~playback_active /\ ~record_active
        /\ clk \in Nat \ {0} /\ IsStart(start_file) /\ IsEnd(end_file) /\ IsGame(game) /\ reset_due \in BOOLEAN
        /\ list \in EventList /\ current \in 0 .. Len(list.events) + 1
    BY StartRunsParts DEF StartRuns, TypeInv
  <1>2. UNCHANGED <<alarm, playback_active, playback_reset_ack, start_file, end_file>>
    BY DEF PlaybackNotStarted, files
  <1>3. FileInv' /\ PlayInv' /\ RecordInv'
    BY <1>1, <1>2, FileKept, StartRunsParts, PlayNone, RecordNone DEF files
  <1>4. clk' \in Nat \ {0} /\ IsGame(game') /\ reset_due' \in BOOLEAN
    BY <1>1, UnknownParts DEF PlaybackNotStarted, IsStart
  <1>5. list' \in EventList /\ current' \in 0 .. Len(list'.events) + 1
    <2>1. CASE UNCHANGED <<list, current>>
      BY <1>1, <2>1
    <2>2. CASE end_file # NoFile /\ list' \in ReadInPart(end_file.list) /\ current' = Base(list')
      BY <1>1, <2>2, PartRead DEF IsEnd
    <2>3. CASE end_file # NoFile /\ list' = Read(end_file.list) /\ current' = Base(list')
      <3>1. list' \in EventList
        BY <1>1, <2>3, ReadList DEF IsEnd
      <3>2. Len(list'.events) \in Nat
        BY <3>1, ListEnd
      <3> QED
        BY <2>3, <3>1, <3>2 DEF Base
    <2> QED
      BY <2>1, <2>2, <2>3 DEF PlaybackNotStarted
  <1>6. TypeInv'
    BY <1>1, <1>2, <1>4, <1>5 DEF TypeInv
  <1> QED
    BY <1>1, <1>3, <1>6 DEF HistoryInv

LEMMA PlayStartedKeeps ==
  StartRuns /\ end_file # NoFile /\ StartPlayback /\ UNCHANGED <<record_active, files>> => HistoryInv'
  <1> SUFFICES ASSUME StartRuns, end_file # NoFile, StartPlayback, UNCHANGED <<record_active, files>> PROVE HistoryInv'
    OBVIOUS
  <1>1. /\ ~FollowupWaits' /\ WaitInv' /\ TypeInv /\ FileInv /\ ~record_active /\ ~reset_due
        /\ clk \in Nat \ {0} /\ IsStart(start_file) /\ IsEnd(end_file)
    BY StartRunsParts DEF StartRuns
  <1>2. /\ UNCHANGED <<record_active, start_file, end_file>>
        /\ list' = Read(end_file.list) /\ current' = 1 /\ playback_active' = TRUE
    BY DEF StartPlayback, files
  <1>3. FileInv' /\ RecordInv'
    BY <1>1, <1>2, FileKept, RecordNone DEF files
  <1>4. end_file.list \in WrittenList /\ IsGame(end_file.game) /\ Saved(end_file, start_file)
    BY <1>1 DEF IsEnd, FileInv
  <1>5. /\ list' \in EventList /\ list'.mode = end_file.list.mode
        /\ end_file.list.mode = "RESET" => TypeAt(list', 1) # "RESETCPU"
        /\ Len(list'.events) \in Nat
    BY <1>2, <1>4, ReadList, ListEnd
  <1>6. current' \in 0 .. Len(list'.events) + 1 /\ current' # 0
    BY <1>2, <1>5
  <1>7. CASE list'.mode # "RESET"
    <2>1. /\ start_file # NoFile
          /\ game' = IF start_file.start = end_file.game.start THEN NewGame(start_file.start) ELSE Unknown
          /\ clk' = start_file.clk /\ alarm' = "event" /\ reset_due' = reset_due
      BY <1>7 DEF StartPlayback, next_alarm_set
    <2>2. start_file.clk \in Nat \ {0} /\ start_file.start \in Starts
      BY <1>1, <2>1 DEF IsStart
    <2>3. IsGame(game')
      BY <2>1, <2>2, NewGameParts, UnknownParts
    <2>4. TypeInv'
      BY <1>1, <1>2, <1>5, <1>6, <2>1, <2>2, <2>3 DEF TypeInv
    <2>5. CASE ~Known(game')
      BY <1>1, <1>3, <1>6, <2>4, <2>5, PlayUnknown DEF HistoryInv
    <2>6. CASE Known(game')
      <3>1. game' = NewGame(start_file.start) /\ end_file.game.start = start_file.start
        BY <2>1, <2>6, UnknownParts
      <3>2. clk' = StartClk(start_file.start, start_file)
        BY <2>1 DEF StartClk
      <3>3. Follows(game', end_file, start_file, list', 0, clk')
        BY <1>1, <1>2, <1>4, <2>2, <3>1, <3>2, FollowsStart
      <3>4. ~reset_due' /\ ~AfterReset' /\ Passed' = 0 /\ Now' = clk'
        <4>1. ~reset_due' /\ ~AfterReset'
          BY <1>1, <2>1 DEF AfterReset
        <4> QED
          BY <1>2, <4>1 DEF Passed, Now
      <3>5. PlayInv'
        BY <1>2, <1>6, <2>1, <3>3, <3>4 DEF PlayInv
      <3> QED
        BY <1>1, <1>3, <2>4, <3>5 DEF HistoryInv
    <2> QED
      BY <2>5, <2>6
  <1>8. CASE list'.mode = "RESET"
    <2>1. /\ game' = IF end_file.game.start = HardReset THEN NewGame(HardReset) ELSE Unknown
          /\ reset_due' = TRUE /\ playback_reset_ack' = TRUE /\ UNCHANGED <<clk, alarm>>
      BY <1>8 DEF StartPlayback
    <2>2. HardReset \in Starts
      BY DEF Starts
    <2>3. IsGame(game')
      BY <2>1, <2>2, NewGameParts, UnknownParts
    <2>4. TypeInv'
      BY <1>1, <1>2, <1>5, <1>6, <2>1, <2>3 DEF TypeInv
    <2>5. CASE ~Known(game')
      BY <1>1, <1>3, <1>6, <2>4, <2>5, PlayUnknown DEF HistoryInv
    <2>6. CASE Known(game')
      <3>1. game' = NewGame(HardReset) /\ end_file.game.start = HardReset
        BY <2>1, <2>6, UnknownParts
      <3>2. RESET_CYCLES = StartClk(HardReset, start_file)
        BY <1>1 DEF StartClk, IsStart
      <3>3. Follows(game', end_file, start_file, list', 0, RESET_CYCLES)
        BY <1>1, <1>2, <1>4, <2>2, <3>1, <3>2, FollowsStart
      <3>4. ~AfterReset' /\ Passed' = 0 /\ Now' = RESET_CYCLES
        <4>1. ~AfterReset'
          BY <1>2, <1>5, <1>8 DEF AfterReset
        <4> QED
          BY <1>2, <2>1, <4>1 DEF Passed, Now
      <3>5. PlayInv'
        BY <1>2, <1>6, <2>1, <3>3, <3>4 DEF PlayInv
      <3> QED
        BY <1>1, <1>3, <2>4, <3>5 DEF HistoryInv
    <2> QED
      BY <2>5, <2>6
  <1> QED
    BY <1>7, <1>8

(* A trap of a recording that has run: others may follow it. *)
FollowupRuns ==
  /\ ModesInv /\ HistoryInv /\ FollowupWaits
  /\ traps' \in Seq(Followups)
  /\ ~playback_active

(* So nothing is played, and what else waits is of the same kind. *)
LEMMA FollowupRunsParts ==
  ASSUME FollowupRuns
  PROVE  /\ ~StartWaits' /\ traps' # <<"PLAYBACK">>
         /\ TypeInv /\ FileInv
         /\ ~playback_active' => ~Plays' /\ PlayInv'
  <1>1. ~StartWaits'
    <2> SUFFICES ASSUME StartWaits' PROVE FALSE
      OBVIOUS
    <2>1. PICK trap \in StartModes \cup {"play"} : traps' = <<trap>>
      BY DEF StartWaits
    <2>2. traps'[1] \in Followups
      BY <2>1 DEF FollowupRuns
    <2> QED
      BY <2>1, <2>2 DEF Followups, StartModes
  <1>2. traps' # <<"PLAYBACK">>
    BY <1>1 DEF StartWaits, StartModes
  <1>3. ~playback_active' => ~Plays'
    BY <1>2 DEF Plays
  <1> QED
    BY <1>1, <1>2, <1>3, PlayNone DEF FollowupRuns, HistoryInv

(* The traps that end a recording or set a milestone, *)
LEMMA EndTrapKeeps ==
  FollowupRuns /\ (event_record_stop_trap \/ event_record_set_milestone_trap) => HistoryInv'
  <1> SUFFICES ASSUME FollowupRuns, event_record_stop_trap \/ event_record_set_milestone_trap
               PROVE  HistoryInv'
    OBVIOUS
  <1>1. /\ UNCHANGED <<clk, game, reset_due, list, current, alarm, start_file, playback_active, playback_reset_ack>>
        /\ record_active' \in {record_active, FALSE}
        /\ EndNotWritten \/ WriteEnd
    BY DEF event_record_stop_trap, event_record_set_milestone_trap, log, modes
  <1>2. ModesInv /\ HistoryInv /\ FollowupWaits /\ ~playback_active /\ TypeInv /\ FileInv /\ ~StartWaits'
    BY FollowupRunsParts DEF FollowupRuns
  <1>3. IsEnd(end_file') /\ (end_file' # NoFile => Saved(end_file', start_file))
    BY <1>1, <1>2, EndWritten, EndUnwritten
  <1>4. TypeInv' /\ FileInv'
    BY <1>1, <1>2, <1>3 DEF TypeInv, FileInv
  <1>5. Now' = Now
    BY <1>1 DEF Now
  <1>6. RecordInv'
    <2>1. Known(game) => Complete(list, game) /\ InOrder(game, start_file, Now)
      BY <1>2 DEF HistoryInv, RecordInv
    <2>2. record_active' => current = Len(list.events) + 1
      BY <1>1, <1>2 DEF HistoryInv, RecordInv
    <2> QED
      BY <1>1, <1>5, <2>1, <2>2 DEF RecordInv
  <1>7. WaitInv'
    BY <1>1, <1>2 DEF HistoryInv, WaitInv
  <1>8. PlayInv'
    BY <1>1, <1>2, FollowupRunsParts
  <1> QED
    BY <1>4, <1>6, <1>7, <1>8 DEF HistoryInv

(* the one that returns to a milestone, *)
LEMMA ReturnKeeps == FollowupRuns /\ event_record_reset_milestone_trap => HistoryInv'
  <1> SUFFICES ASSUME FollowupRuns, event_record_reset_milestone_trap PROVE HistoryInv'
    OBVIOUS
  <1>1. UNCHANGED <<start_file, end_file, playback_active, playback_reset_ack>>
    BY DEF event_record_reset_milestone_trap, files
  <1>2. ModesInv /\ HistoryInv /\ FollowupWaits /\ ~playback_active /\ TypeInv /\ FileInv /\ ~StartWaits'
    BY FollowupRunsParts DEF FollowupRuns
  <1>3. FileInv' /\ PlayInv'
    BY <1>1, <1>2, FileKept, FollowupRunsParts DEF files
  <1>4. CASE EndNotRead /\ record_active' = FALSE /\ UNCHANGED alarm
    <2>1. /\ clk' \in Nat \ {0} /\ IsGame(game') /\ reset_due' \in BOOLEAN
          /\ list' \in EventList /\ current' \in 0 .. Len(list'.events) + 1
          /\ UNCHANGED <<game, clk, list, current, reset_due>> \/ ~Known(game')
      BY <1>2, <1>4, EndUnread
    <2>2. TypeInv'
      BY <1>1, <1>2, <2>1 DEF TypeInv
    <2>3. CASE UNCHANGED <<game, clk, list, current, reset_due>>
      <3>1. Now' = Now
        BY <2>3 DEF Now
      <3>2. Known(game) => Complete(list, game) /\ InOrder(game, start_file, Now)
        BY <1>2 DEF HistoryInv, RecordInv
      <3>3. RecordInv'
        BY <1>1, <1>4, <2>3, <3>1, <3>2 DEF RecordInv
      <3>4. WaitInv'
        BY <1>2, <2>3 DEF HistoryInv, WaitInv
      <3> QED
        BY <1>3, <2>2, <3>3, <3>4 DEF HistoryInv
    <2>4. CASE ~Known(game')
      <3>1. RecordInv' /\ WaitInv'
        BY <1>2, <1>4, <2>4, RecordUnknown DEF WaitInv
      <3> QED
        BY <1>3, <2>2, <3>1 DEF HistoryInv
    <2> QED
      BY <2>1, <2>3, <2>4
  <1>5. CASE ReadEnd /\ StartRecording
    <2>1. /\ clk' \in Nat \ {0} /\ IsGame(game') /\ reset_due' = reset_due
          /\ list' \in EventList /\ current' = Len(list'.events) + 1
          /\ Known(game') => Complete(list', game') /\ InOrder(game', start_file, clk') /\ ~reset_due
      BY <1>2, <1>5, EndRead
    <2>2. Len(list'.events) \in Nat
      BY <2>1, ListEnd
    <2>3. TypeInv'
      BY <1>1, <1>2, <2>1, <2>2 DEF TypeInv
    <2>4. Known(game') => Now' = clk'
      BY <2>1 DEF Now
    <2>5. RecordInv'
      BY <1>1, <2>1, <2>4 DEF RecordInv
    <2>6. WaitInv'
      BY <1>2, <2>1 DEF WaitInv
    <2> QED
      BY <1>3, <2>3, <2>5, <2>6 DEF HistoryInv
  <1> QED
    BY <1>4, <1>5 DEF event_record_reset_milestone_trap

(* and all of them. *)
LEMMA TrapKeeps == ModesInv /\ HistoryInv /\ RunTrap => HistoryInv'
  <1> SUFFICES ASSUME ModesInv, HistoryInv, RunTrap PROVE HistoryInv'
    OBVIOUS
  <1>1. traps # <<>> /\ traps' = Tail(traps)
    BY DEF RunTrap
  <1>2. CASE StartWaits
    <2>1. PICK trap \in StartModes \cup {"play"} : traps = <<trap>>
      BY <1>2 DEF StartWaits
    <2>2. traps' = <<>> /\ Head(traps) = trap
      <3>1. Head(<<trap>>) = trap /\ Tail(<<trap>>) = <<>>
        OBVIOUS
      <3> QED
        BY <1>1, <2>1, <3>1
    <2>3. StartRuns
      <3>1. ~record_active /\ ~playback_active
        BY <1>2, PlayingModes
      <3>2. ~reset_due
        BY <1>2 DEF HistoryInv, WaitInv
      <3> QED
        BY <1>2, <2>2, <3>1, <3>2 DEF StartRuns
    <2>4. CASE trap = "play"
      <3>1. event_playback_start_trap
        BY <2>2, <2>4 DEF RunTrap
      <3> QED
        BY <2>3, <3>1, PlayNotStartedKeeps, PlayStartedKeeps DEF event_playback_start_trap
    <2>5. CASE trap \in StartModes
      <3>1. event_record_start_trap(trap)
        BY <2>2, <2>5 DEF RunTrap, StartModes
      <3>2. CASE trap = "FILE_SAVE"
        BY <2>3, <3>1, <3>2, FileSaveKeeps DEF event_record_start_trap
      <3>3. CASE trap = "FILE_LOAD"
        BY <2>3, <3>1, <3>3, FileLoadKeeps DEF event_record_start_trap
      <3>4. CASE trap = "RESET"
        BY <2>3, <3>1, <3>4, StartResetKeeps DEF event_record_start_trap
      <3>5. CASE trap = "PLAYBACK"
        BY <2>1, <2>3, <3>1, <3>5, OverwriteKeeps DEF event_record_start_trap
      <3> QED
        BY <2>5, <3>2, <3>3, <3>4, <3>5 DEF StartModes
    <2> QED
      BY <2>1, <2>4, <2>5
  <1>3. CASE FollowupWaits
    <2>1. traps \in Seq(Followups) /\ Head(traps) \in Followups /\ Tail(traps) \in Seq(Followups)
      BY <1>1, <1>3 DEF FollowupWaits
    <2>2. FollowupRuns
      <3>1. ~playback_active
        BY <1>3 DEF ModesInv
      <3> QED
        BY <1>1, <1>3, <2>1, <3>1 DEF FollowupRuns
    <2>3. \/ event_record_stop_trap
          \/ event_record_set_milestone_trap
          \/ event_record_reset_milestone_trap
      BY <2>1 DEF RunTrap, Followups
    <2> QED
      BY <2>2, <2>3, EndTrapKeeps, ReturnKeeps
  <1> QED
    BY <1>1, <1>2, <1>3, PlayingModes

-----------------------------------------------------------------------------
(* The user. *)

LEMMA AskedAlone ==
  ASSUME ModesInv, Ask, NoStartWaits, ~record_active
  PROVE  traps = <<>>
  <1>1. ~FollowupWaits
    BY DEF ModesInv, Ask
  <1>2. ~StartWaits
    <2>1. ASSUME NEW start \in StartModes \cup {"play"}, traps = <<start>> PROVE FALSE
      BY <2>1 DEF NoStartWaits, Followups, StartModes
    <2> QED
      BY <2>1 DEF StartWaits
  <1> QED
    BY <1>1, <1>2, PlayingModes

(* A start waits, and a playback that it overwrites has stopped. *)
LEMMA AskStartKeeps ==
  ASSUME ModesInv, HistoryInv, Ask, NoStartWaits, ~record_active,
         NEW trap \in StartModes \cup {"play"}, Trigger(trap),
         trap = "PLAYBACK" => playback_active,
         playback_active' = FALSE, alarm' = "unset",
         UNCHANGED <<clk, game, reset_due, list, current, record_active, playback_reset_ack, start_file, end_file>>
  PROVE  HistoryInv'
  <1>1. traps = <<>> /\ traps' = <<trap>> /\ ~reset_due
    <2>1. traps = <<>>
      BY AskedAlone
    <2> QED
      BY <2>1 DEF Trigger, Ask
  <1>2. ~FollowupWaits'
    BY <1>1 DEF FollowupWaits, Followups, StartModes
  <1>3. TypeInv' /\ FileInv'
    BY DEF HistoryInv, TypeInv, FileInv
  <1>4. RecordInv'
    BY <1>2, RecordNone
  <1>5. WaitInv'
    BY <1>1, <1>2 DEF WaitInv
  <1>6. PlayInv'
    <2>1. CASE trap = "PLAYBACK"
      <3>1. Plays
        BY <2>1 DEF Plays
      <3>2. Now' = Now /\ AfterReset' = AfterReset
        BY DEF Now, AfterReset
      <3>3. Passed' = Passed
        BY <3>2 DEF Passed
      <3>4. current # 0 /\ (Known(game) => Follows(game, end_file, start_file, list, Passed, Now))
        BY <3>1 DEF HistoryInv, PlayInv
      <3> QED
        BY <3>2, <3>3, <3>4 DEF PlayInv
    <2>2. CASE trap # "PLAYBACK"
      <3>1. traps'[1] = trap
        BY <1>1
      <3>2. ~Plays'
        BY <2>2, <3>1 DEF Plays
      <3> QED
        BY <3>2, PlayNone
    <2> QED
      BY <2>1, <2>2
  <1> QED
    BY <1>3, <1>4, <1>5, <1>6 DEF HistoryInv

(* A request for what belongs to a recording waits while it goes on. *)
LEMMA AskFollowupKeeps ==
  ASSUME ModesInv, HistoryInv, Ask, record_active,
         NEW trap \in Followups, Trigger(trap),
         TypeInv', current' = Len(list'.events) + 1,
         Known(game) => Complete(list', game),
         UNCHANGED <<clk, game, reset_due, record_active, playback_active, playback_reset_ack, start_file, end_file>>
  PROVE  HistoryInv'
  <1>1. ~reset_due /\ ~playback_active
    BY PlayingModes DEF Ask
  <1>2. ~StartWaits' /\ traps' # <<"PLAYBACK">>
    <2>1. traps \in Seq(Followups)
      <3>1. <<>> \in Seq(Followups)
        OBVIOUS
      <3> QED
        BY <3>1, PlayingModes DEF FollowupWaits
    <2>2. traps' \in Seq(Followups) /\ traps' # <<>> /\ traps'[Len(traps')] = trap
      BY <2>1 DEF Trigger
    <2>3. ASSUME NEW start \in StartModes \cup {"play"}, traps' = <<start>> PROVE FALSE
      BY <2>2, <2>3 DEF Followups, StartModes
    <2> QED
      BY <2>3 DEF StartWaits, StartModes
  <1>3. FileInv'
    BY DEF HistoryInv, FileInv
  <1>4. Now' = Now
    BY DEF Now
  <1>5. Known(game) => InOrder(game, start_file, Now)
    BY DEF HistoryInv, RecordInv
  <1>6. RecordInv'
    BY <1>4, <1>5 DEF RecordInv
  <1>7. WaitInv'
    BY <1>1, <1>2 DEF WaitInv
  <1>8. PlayInv'
    <2>1. ~Plays'
      BY <1>1, <1>2 DEF Plays
    <2> QED
      BY <2>1, PlayNone
  <1> QED
    BY <1>3, <1>6, <1>7, <1>8 DEF HistoryInv

(* What the user stops, and the milestones that he sets or returns to. *)
LEMMA StopKeeps == ModesInv /\ HistoryInv /\ event_record_stop => HistoryInv'
  <1> SUFFICES ASSUME ModesInv, HistoryInv, event_record_stop PROVE HistoryInv'
    OBVIOUS
  <1>1. /\ Ask /\ record_active /\ event_record("LIST_END") /\ Trigger("stop")
        /\ UNCHANGED <<clk, game, reset_due, record_active, playback_active, playback_reset_ack, start_file, end_file>>
    BY DEF event_record_stop, modes, files
  <1>2. /\ list \in EventList /\ clk \in Nat \ {0} /\ current = Len(list.events) + 1
        /\ Known(game) => Complete(list, game)
    BY <1>1 DEF HistoryInv, TypeInv, RecordInv
  <1>3. /\ list' \in EventList /\ current' = Len(list'.events) + 1 /\ list'.mode = list.mode
        /\ Played(list') = Played(list)
    BY <1>1, <1>2, EventRecorded
  <1>4. Len(list'.events) \in Nat
    BY <1>3, ListEnd
  <1>5. TypeInv'
    BY <1>1, <1>3, <1>4 DEF HistoryInv, TypeInv
  <1>6. Known(game) => Complete(list', game)
    BY <1>2, <1>3 DEF Complete
  <1>7. "stop" \in Followups
    BY DEF Followups
  <1> QED
    BY <1>1, <1>3, <1>5, <1>6, <1>7, AskFollowupKeeps

LEMMA MilestoneKeeps ==
  ModesInv /\ HistoryInv /\ (event_record_set_milestone \/ event_record_reset_milestone) => HistoryInv'
  <1> SUFFICES ASSUME ModesInv, HistoryInv, event_record_set_milestone \/ event_record_reset_milestone
               PROVE  HistoryInv'
    OBVIOUS
  <1>1. PICK trap \in Followups :
          /\ Ask /\ record_active /\ Trigger(trap)
          /\ UNCHANGED <<clk, game, reset_due, list, current, alarm, record_active, playback_active,
                         playback_reset_ack, start_file, end_file>>
    BY DEF event_record_set_milestone, event_record_reset_milestone, Followups, log, modes, files
  <1>2. TypeInv'
    BY <1>1 DEF HistoryInv, TypeInv
  <1>3. current = Len(list.events) + 1 /\ (Known(game) => Complete(list, game))
    BY <1>1 DEF HistoryInv, RecordInv
  <1>4. current' = Len(list'.events) + 1 /\ (Known(game) => Complete(list', game))
    BY <1>1, <1>3
  <1> QED
    BY <1>1, <1>2, <1>4, AskFollowupKeeps

LEMMA PlaybackStopKeeps == ModesInv /\ HistoryInv /\ event_playback_stop => HistoryInv'
  <1> SUFFICES ASSUME ModesInv, HistoryInv, event_playback_stop PROVE HistoryInv'
    OBVIOUS
  <1>1. /\ Ask /\ playback_active /\ playback_active' = FALSE /\ alarm' = "unset"
        /\ UNCHANGED <<clk, game, reset_due, traps, list, current, record_active, playback_reset_ack, start_file, end_file>>
    BY DEF event_playback_stop, files
  <1>2. traps = <<>> /\ ~record_active
    BY <1>1, PlayingModes
  <1>3. ~StartWaits' /\ ~FollowupWaits' /\ ~Plays'
    BY <1>1, <1>2, NoneWaitingNext DEF Plays
  <1>4. TypeInv' /\ FileInv'
    BY <1>1 DEF HistoryInv, TypeInv, FileInv
  <1>5. RecordInv' /\ PlayInv' /\ WaitInv'
    BY <1>1, <1>2, <1>3, RecordNone, PlayNone DEF WaitInv
  <1> QED
    BY <1>4, <1>5 DEF HistoryInv

(* Every step keeps the history, *)
LEMMA NextKeeps == ModesInv /\ HistoryInv /\ [Next]_vars => HistoryInv'
  <1> SUFFICES ASSUME ModesInv, HistoryInv, [Next]_vars PROVE HistoryInv'
    OBVIOUS
  <1>1. CASE UNCHANGED vars \/ keyboard_key_pressed
    <2>1. UNCHANGED <<clk, game, reset_due, traps, list, current, alarm, record_active,
                      playback_active, playback_reset_ack, start_file, end_file>>
      BY <1>1 DEF vars, keyboard_key_pressed, log, modes, files
    <2> QED
      BY <2>1, HistoryKept
  <1>2. CASE Tick \/ keyboard_alarm_handler \/ event_alarm_handler \/ machine_reset \/ machine_trigger_reset
    BY <1>2, TickKeeps, KeyboardKeeps, AlarmKeeps, ResetKeeps, TriggerResetKeeps
  <1>3. CASE RunTrap
    BY <1>3, TrapKeeps
  <1>4. ASSUME NEW mode \in StartModes, event_record_start(mode) PROVE HistoryInv'
    <2>1. /\ Ask /\ NoStartWaits /\ ~record_active /\ Trigger(mode)
          /\ mode = "PLAYBACK" => playback_active
          /\ UNCHANGED <<clk, game, reset_due, list, current, record_active, playback_reset_ack, start_file, end_file>>
      BY <1>4 DEF event_record_start, files
    <2>2. playback_active' = FALSE /\ alarm' = "unset"
      BY <1>4 DEF event_record_start, ModesInv, TypeOK
    <2> QED
      BY <2>1, <2>2, AskStartKeeps
  <1>5. CASE event_playback_start
    <2>1. /\ Ask /\ NoStartWaits /\ ~record_active /\ Trigger("play")
          /\ UNCHANGED <<clk, game, reset_due, list, current, record_active, playback_reset_ack, start_file, end_file>>
      BY <1>5 DEF event_playback_start, log, modes, files
    <2>2. playback_active' = FALSE /\ alarm' = "unset"
      BY <1>5 DEF event_playback_start, log, modes, ModesInv, TypeOK
    <2> QED
      BY <2>1, <2>2, AskStartKeeps
  <1>6. CASE event_record_stop \/ event_playback_stop \/ event_record_set_milestone \/ event_record_reset_milestone
    BY <1>6, StopKeeps, PlaybackStopKeeps, MilestoneKeeps
  <1> QED
    BY <1>1, <1>2, <1>3, <1>4, <1>5, <1>6 DEF Next

(* and there is none at first. *)
LEMMA HistoryStart == Init => HistoryInv
  <1> SUFFICES ASSUME Init PROVE HistoryInv
    OBVIOUS
  <1>1. traps = <<>> /\ playback_active = FALSE /\ record_active = FALSE
    BY DEF Init
  <1>2. ~playback_active /\ ~record_active
    BY <1>1
  <1>3. ~StartWaits /\ ~FollowupWaits /\ ~Plays
    BY <1>1, <1>2, NoneWaiting DEF Plays
  <1>4. list \in EventList /\ Len(list.events) = 0
    <2>1. <<>> \in Seq(Entry) /\ Len(<<>>) = 0
      OBVIOUS
    <2> QED
      BY <2>1 DEF Init, NoHistory, EventList, Modes
  <1>5. start_file = NoFile /\ end_file = NoFile
    BY DEF Init
  <1>6. TypeInv
    <2>1. IsStart(start_file)
      BY <1>5 DEF IsStart
    <2>2. IsEnd(end_file)
      BY <1>5 DEF IsEnd
    <2>3. IsGame(game)
      BY Zenon, UnknownParts DEF Init
    <2>4. clk \in Nat \ {0}
      BY DEF Init, RESET_CYCLES
    <2>6. reset_due \in BOOLEAN
      BY Zenon DEF Init
    <2>5. current \in 0 .. Len(list.events) + 1
      BY <1>4 DEF Init
    <2> QED
      BY <1>4, <2>1, <2>2, <2>3, <2>4, <2>5, <2>6 DEF TypeInv
  <1>7. FileInv
    BY <1>5 DEF FileInv
  <1>8. RecordInv
    BY <1>2, <1>3 DEF RecordInv
  <1>9. WaitInv
    BY <1>3 DEF WaitInv
  <1>10. PlayInv
    BY <1>2, <1>3 DEF PlayInv
  <1> QED
    BY <1>6, <1>7, <1>8, <1>9, <1>10 DEF HistoryInv

-----------------------------------------------------------------------------

(* The modes, and the traps that wait, are what TypeOK says. *)
THEOREM TypeCorrect == Spec => []TypeOK
  <1>1. ModesInv => TypeOK
    BY DEF ModesInv
  <1> QED
    BY <1>1, ModesStart, NextKeepsModes, PTL DEF Spec

(* A history that is recorded has everything that happened to the machine, *)
(* through saves, milestones, returns and histories that are continued     *)
(* (event_record_in_list(), event_record_reset_milestone_trap()).          *)
THEOREM RecordingIsComplete == Spec => []HistoryIsComplete
  <1>1. ModesInv /\ HistoryInv => HistoryIsComplete
    BY DEF HistoryInv, RecordInv, HistoryIsComplete, Complete, Known
  <1>2. Init => ModesInv /\ HistoryInv
    BY ModesStart, HistoryStart
  <1>3. ModesInv /\ HistoryInv /\ [Next]_vars => (ModesInv /\ HistoryInv)'
    BY NextKeepsModes, NextKeeps
  <1> QED
    BY <1>1, <1>2, <1>3, PTL DEF Spec

(* While a history is played back its file stays as it is. *)
LEMMA PlayingKeepsEnd ==
  ModesInv /\ Next /\ playback_active' => end_file' = end_file
  <1> SUFFICES ASSUME ModesInv, Next, playback_active' PROVE end_file' = end_file
    OBVIOUS
  <1>1. CASE RunTrap
    <2>1. CASE FollowupWaits
      <3>1. Head(traps) \in Followups /\ ~playback_active
        BY <2>1 DEF FollowupWaits, ModesInv
      <3>2. playback_active' = playback_active
        BY <1>1, <3>1, FollowEffect DEF RunTrap, Followups
      <3> QED
        BY <3>1, <3>2
    <2>2. CASE StartWaits
      <3>1. PICK trap \in StartModes \cup {"play"} : traps = <<trap>>
        BY <2>2 DEF StartWaits
      <3>2. Head(traps) = trap
        BY <3>1
      <3>3. event_playback_start_trap \/ \E mode \in StartModes : event_record_start_trap(mode)
        BY <1>1, <3>2 DEF RunTrap, StartModes
      <3> QED
        BY <3>3 DEF event_playback_start_trap, event_record_start_trap, record_start_trap_FileSave,
             record_start_trap_FileLoad, record_start_trap_Reset, record_start_trap_Playback, files, StartModes
    <2>3. traps # <<>>
      BY <1>1 DEF RunTrap
    <2> QED
      BY <2>1, <2>2, <2>3, PlayingModes
  <1>2. CASE \/ Tick \/ keyboard_key_pressed \/ keyboard_alarm_handler \/ event_alarm_handler \/ machine_reset
             \/ \E mode \in StartModes : event_record_start(mode)
             \/ event_record_stop \/ event_playback_start \/ event_playback_stop
             \/ event_record_set_milestone \/ event_record_reset_milestone \/ machine_trigger_reset
    BY <1>2 DEF Tick, keyboard_key_pressed, keyboard_alarm_handler, event_alarm_handler, machine_reset,
       event_record_start, event_record_stop, event_playback_start, event_playback_stop,
       event_record_set_milestone, event_record_reset_milestone, machine_trigger_reset, files
  <1> QED
    BY <1>1, <1>2 DEF Next

(* A step of a playback does what the file has, and none ends it early. *)
LEMMA NextFollows == ModesInv /\ HistoryInv /\ (ModesInv /\ HistoryInv)' /\ Next => Followed
  <1> SUFFICES ASSUME ModesInv, HistoryInv, ModesInv', HistoryInv', Next PROVE Followed
    OBVIOUS
  <1>1. ASSUME Playing' PROVE game'.past = SubSeq(end_file.game.past, 1, Len(game'.past))
    <2>1. playback_active' /\ end_file' = end_file
      BY <1>1, PlayingKeepsEnd DEF Playing
    <2>2. CASE Known(game')
      <3>1. Plays' /\ PlayInv'
        BY <2>1 DEF Plays, HistoryInv
      <3>2. Follows(game', end_file', start_file', list', Passed', Now')
        BY <2>2, <3>1 DEF PlayInv
      <3> QED
        BY <2>1, <3>2 DEF Follows
    <2>3. CASE ~Known(game')
      <3>1. game'.past = <<>>
        BY <2>3 DEF HistoryInv, TypeInv, IsGame
      <3>2. Len(<<>>) = 0
        OBVIOUS
      <3>3. SubSeq(end_file.game.past, 1, 0) = <<>>
        BY SubSeqEmpty
      <3> QED
        BY <3>1, <3>2, <3>3
    <2> QED
      BY <2>2, <2>3
  <1>2. ASSUME Playing, event_alarm_handler, ~playback_active' PROVE game.past = end_file.game.past
    <2>1. playback_active /\ end_file # NoFile /\ game.start = end_file.game.start
      BY <1>2 DEF Playing
    <2>2. CASE Known(game)
      <3>1. TypeAt(list, current) = "LIST_END"
        BY <1>2, <2>1 DEF event_alarm_handler, PlayEvent
      <3>2. /\ Follows(game, end_file, start_file, list, Passed, clk) /\ Passed + 1 = current
            /\ IsGame(game) /\ IsEnd(end_file) /\ IsStart(start_file) /\ Saved(end_file, start_file)
        BY <1>2, <2>1, <2>2, PlayedEvent
      <3> QED
        BY <2>2, <3>1, <3>2, FollowsEnd
    <2>3. CASE ~Known(game)
      <3>1. IsGame(game) /\ IsGame(end_file.game)
        BY <2>1 DEF HistoryInv, TypeInv, IsEnd
      <3>2. ~Known(end_file.game)
        BY <2>1, <2>3 DEF Known
      <3> QED
        BY <2>3, <3>1, <3>2 DEF IsGame
    <2> QED
      BY <2>2, <2>3
  <1> QED
    BY <1>1, <1>2 DEF Followed

(* A playback does what was done when its history was recorded, in order   *)
(* and at the same clocks, and all of it (event_alarm_handler()), whatever *)
(* timestamps were made when the file was read.                            *)
THEOREM PlaybackFollows == Spec => PlaybackReproduces
  <1>1. Init => ModesInv /\ HistoryInv
    BY ModesStart, HistoryStart
  <1>2. ModesInv /\ HistoryInv /\ [Next]_vars => (ModesInv /\ HistoryInv)'
    BY NextKeepsModes, NextKeeps
  <1>3. ModesInv /\ HistoryInv /\ (ModesInv /\ HistoryInv)' /\ [Next]_vars => [Followed]_vars
    BY NextFollows
  <1> QED
    BY <1>1, <1>2, <1>3, PTL DEF Spec, PlaybackReproduces

=============================================================================
