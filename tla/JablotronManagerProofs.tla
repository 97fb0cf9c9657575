------------------------ MODULE JablotronManagerProofs ------------------------
(***************************************************************************)
(* The lines of the dongle are returned in order, whenever it is unplugged *)
(* and its slots are read.  The outlets are what they were last set to,    *)
(* for any slots with at most two outlets and any interleaving of the two  *)
(* threads that set them, with slots missed, misread and read again.       *)
(***************************************************************************)
EXTENDS JablotronManager, SequenceTheorems, TLAPS

----------------------------------------------------------------------------
(* The lines. *)

Line == [n : Nat, device : Devices]

\* The types of the lines that are under way.
LineTypes ==
    /\ serial \in Seq(Line) /\ buffer \in Seq(Line)
    /\ replies \in Seq(Devices) /\ handled \in Seq(Nat)
    /\ emitted \in Nat /\ swallowed \subseteq 1..emitted

LInv == LineTypes /\ LinesStayInOrder

\* What the lines of a sequence are numbered.
LEMMA NumbersType ==
    ASSUME NEW l \in Seq(Line)
    PROVE  /\ Numbers(l) \in Seq(Nat)
           /\ Len(Numbers(l)) = Len(l)
           /\ \A i \in 1..Len(l) : Numbers(l)[i] = l[i].n
<1>1. DOMAIN l = 1..Len(l) /\ Len(l) \in Nat
  OBVIOUS
<1>2. \A i \in 1..Len(l) : l[i].n \in Nat
  <2>1. ASSUME NEW i \in 1..Len(l) PROVE l[i] \in Line
    BY ElementOfSeq
  <2> QED
    BY <2>1 DEF Line
<1>3. Numbers(l) = [i \in 1..Len(l) |-> l[i].n]
  BY <1>1 DEF Numbers
<1>4. Numbers(l) \in [1..Len(l) -> Nat]
  BY <1>2, <1>3
<1>5. Numbers(l) \in Seq(Nat)
  BY <1>1, <1>4, SeqDef
<1>6. DOMAIN Numbers(l) = 1..Len(l)
  BY <1>3
<1> QED
  BY <1>1, <1>3, <1>5, <1>6

LEMMA NumbersEmpty == Numbers(<<>>) = <<>>
BY DEF Numbers

LEMMA NumbersConcat ==
    ASSUME NEW k \in Seq(Line), NEW l \in Seq(Line)
    PROVE  Numbers(k \o l) = Numbers(k) \o Numbers(l)
<1>1. /\ k \o l \in Seq(Line) /\ Len(k \o l) = Len(k) + Len(l)
      /\ \A i \in 1..(Len(k) + Len(l)) :
            (k \o l)[i] = IF i <= Len(k) THEN k[i] ELSE l[i - Len(k)]
  BY ConcatProperties
<1>2. /\ Numbers(k) \in Seq(Nat) /\ Numbers(l) \in Seq(Nat)
      /\ Len(Numbers(k)) = Len(k) /\ Len(Numbers(l)) = Len(l)
      /\ \A i \in 1..Len(k) : Numbers(k)[i] = k[i].n
      /\ \A i \in 1..Len(l) : Numbers(l)[i] = l[i].n
  BY NumbersType
<1>3. /\ Numbers(k \o l) \in Seq(Nat)
      /\ Len(Numbers(k \o l)) = Len(k) + Len(l)
      /\ \A i \in 1..(Len(k) + Len(l)) : Numbers(k \o l)[i] = (k \o l)[i].n
  BY <1>1, NumbersType
<1>4. /\ Numbers(k) \o Numbers(l) \in Seq(Nat)
      /\ Len(Numbers(k) \o Numbers(l)) = Len(k) + Len(l)
      /\ \A i \in 1..(Len(k) + Len(l)) :
            (Numbers(k) \o Numbers(l))[i]
                = IF i <= Len(k) THEN Numbers(k)[i] ELSE Numbers(l)[i - Len(k)]
  BY <1>2, ConcatProperties
<1>5. Len(k) \in Nat /\ Len(l) \in Nat
  OBVIOUS
<1>6. ASSUME NEW i \in 1..(Len(k) + Len(l))
      PROVE  Numbers(k \o l)[i] = (Numbers(k) \o Numbers(l))[i]
  <2>1. CASE i <= Len(k)
    <3>1. i \in 1..Len(k)
      BY <1>5, <2>1
    <3>2. (k \o l)[i] = k[i] /\ (Numbers(k) \o Numbers(l))[i] = Numbers(k)[i]
      BY <1>1, <1>4, <2>1
    <3>3. Numbers(k \o l)[i] = (k \o l)[i].n /\ Numbers(k)[i] = k[i].n
      BY <1>2, <1>3, <3>1
    <3> QED
      BY <3>2, <3>3
  <2>2. CASE ~(i <= Len(k))
    <3>1. i - Len(k) \in 1..Len(l)
      BY <1>5, <2>2
    <3> QED
      BY <1>1, <1>2, <1>3, <1>4, <2>2, <3>1
  <2> QED
    BY <2>1, <2>2
<1> QED
  BY <1>3, <1>4, <1>6, SeqEqual

LEMMA LinesType ==
    ASSUME LineTypes
    PROVE  /\ Numbers(buffer) \in Seq(Nat) /\ Numbers(serial) \in Seq(Nat)
           /\ handled \o Numbers(buffer) \in Seq(Nat)
           /\ Lines \in Seq(Nat)
BY NumbersType, ConcatProperties DEF LineTypes, Lines

\* A step that moves lines from one place to the next.
LEMMA SameLinesStep ==
    ASSUME LInv, LineTypes', Lines' = Lines, UNCHANGED <<emitted, swallowed>>
    PROVE  LInv'
BY DEF LInv, LinesStayInOrder

LEMMA UnchangedLinesStep ==
    ASSUME LInv, UNCHANGED <<serial, buffer, handled, emitted, swallowed>>,
           replies' \in Seq(Devices)
    PROVE  LInv'
<1>1. Lines' = Lines
  BY DEF Lines, Numbers
<1>2. LineTypes'
  BY DEF LInv, LineTypes
<1> QED
  BY <1>1, <1>2, SameLinesStep

\* A new line has a higher number than those before.
LEMMA EmitStep ==
    ASSUME LInv, NEW d \in Devices, Emit(d) PROVE LInv'
<1> DEFINE new == [n |-> emitted + 1, device |-> d]
<1>1. /\ serial' = Append(serial, new) /\ emitted' = emitted + 1
      /\ UNCHANGED <<replies, buffer, handled, swallowed>>
  BY DEF Emit
<1>2. new \in Line /\ new.n = emitted + 1
  BY DEF Line, LInv, LineTypes
<1>3. LineTypes'
  BY <1>1, <1>2 DEF LInv, LineTypes
<1> HIDE DEF new
<1>4. Lines' = Append(Lines, emitted + 1)
  <2>1. serial' = serial \o <<new>> /\ <<new>> \in Seq(Line)
    BY <1>1, <1>2 DEF LInv, LineTypes
  <2>2. Numbers(<<new>>) = <<emitted + 1>>
    BY <1>2 DEF Numbers
  <2>3. Numbers(serial') = Numbers(serial) \o <<emitted + 1>>
    BY <2>1, <2>2, NumbersConcat DEF LInv, LineTypes
  <2>4. Lines' = (handled \o Numbers(buffer)) \o (Numbers(serial) \o <<emitted + 1>>)
    BY <1>1, <2>3 DEF Lines
  <2>5. <<emitted + 1>> \in Seq(Nat)
    BY DEF LInv, LineTypes
  <2>6. Lines' = Lines \o <<emitted + 1>>
    BY <2>4, <2>5, LinesType, ConcatAssociative DEF LInv, Lines
  <2> QED
    BY <2>6, LinesType DEF LInv
<1>5. /\ Lines \in Seq(Nat) /\ emitted \in Nat /\ swallowed \subseteq 1..emitted
      /\ {Lines[i] : i \in DOMAIN Lines} = (1..emitted) \ swallowed
      /\ \A i, j \in DOMAIN Lines : i < j => Lines[i] < Lines[j]
  BY LinesType DEF LInv, LineTypes, LinesStayInOrder
<1>6. /\ DOMAIN Lines = 1..Len(Lines) /\ Len(Lines) \in Nat
      /\ DOMAIN Lines' = 1..(Len(Lines) + 1)
      /\ \A i \in 1..Len(Lines) : Lines'[i] = Lines[i] /\ Lines[i] \in 1..emitted
      /\ Lines'[Len(Lines) + 1] = emitted + 1
  BY <1>4, <1>5
<1>7. {Lines'[i] : i \in DOMAIN Lines'} = {Lines[i] : i \in DOMAIN Lines} \cup {emitted + 1}
  BY <1>6
<1>8. (1..(emitted + 1)) \ swallowed = ((1..emitted) \ swallowed) \cup {emitted + 1}
  BY <1>5
<1>9. \A i, j \in DOMAIN Lines' : i < j => Lines'[i] < Lines'[j]
  <2> SUFFICES ASSUME NEW i \in 1..(Len(Lines) + 1), NEW j \in 1..(Len(Lines) + 1), i < j
               PROVE  Lines'[i] < Lines'[j]
    BY <1>6
  <2>1. i \in 1..Len(Lines) /\ Lines'[i] = Lines[i] /\ Lines[i] \in 1..emitted
    BY <1>6
  <2>2. CASE j = Len(Lines) + 1
    BY <1>5, <1>6, <2>1, <2>2
  <2>3. CASE j \in 1..Len(Lines)
    BY <1>5, <1>6, <2>1, <2>3
  <2> QED
    BY <1>6, <2>2, <2>3
<1> QED
  BY <1>1, <1>3, <1>5, <1>7, <1>8, <1>9 DEF LInv, LinesStayInOrder

\* What is read of a sequence, and what is left.
LEMMA SplitProperties ==
    ASSUME NEW S, NEW s \in Seq(S), NEW n \in 0..Len(s)
    PROVE  /\ SubSeq(s, 1, n) \in Seq(S) /\ After(s, n) \in Seq(S)
           /\ Len(SubSeq(s, 1, n)) = n /\ Len(After(s, n)) = Len(s) - n
           /\ \A i \in 1..(Len(s) - n) : After(s, n)[i] = s[n + i]
           /\ s = SubSeq(s, 1, n) \o After(s, n)
<1>1. /\ n \in Int /\ n >= 0 /\ n <= Len(s) /\ Len(s) \in Nat
      /\ \A i \in 1..Len(s) : s[i] \in S
  BY ElementOfSeq
<1>2. /\ SubSeq(s, 1, n) \in Seq(S) /\ Len(SubSeq(s, 1, n)) = n
      /\ \A i \in 1..n : SubSeq(s, 1, n)[i] = s[i]
  <2>1. \A i \in 1..n : s[i] \in S
    BY <1>1
  <2>2. /\ SubSeq(s, 1, n) \in Seq(S)
        /\ Len(SubSeq(s, 1, n)) = IF 1 <= n THEN n - 1 + 1 ELSE 0
        /\ \A i \in 1..(n - 1 + 1) : SubSeq(s, 1, n)[i] = s[1 + i - 1]
    BY <1>1, <2>1, SubSeqProperties
  <2> QED
    BY <1>1, <2>2
<1>3. /\ After(s, n) \in Seq(S) /\ Len(After(s, n)) = Len(s) - n
      /\ \A i \in 1..(Len(s) - n) : After(s, n)[i] = s[n + i]
  <2>1. \A i \in (n + 1)..Len(s) : s[i] \in S
    BY <1>1
  <2>2. /\ SubSeq(s, n + 1, Len(s)) \in Seq(S)
        /\ Len(SubSeq(s, n + 1, Len(s)))
              = IF n + 1 <= Len(s) THEN Len(s) - (n + 1) + 1 ELSE 0
        /\ \A i \in 1..(Len(s) - (n + 1) + 1) :
              SubSeq(s, n + 1, Len(s))[i] = s[n + 1 + i - 1]
    BY <1>1, <2>1, SubSeqProperties
  <2> QED
    BY <1>1, <2>2 DEF After
<1> DEFINE front == SubSeq(s, 1, n)
           rest == After(s, n)
<1>4. /\ front \in Seq(S) /\ rest \in Seq(S)
      /\ Len(front) = n /\ Len(rest) = Len(s) - n
      /\ \A i \in 1..n : front[i] = s[i]
      /\ \A i \in 1..(Len(s) - n) : rest[i] = s[n + i]
  BY <1>2, <1>3
<1> HIDE DEF front, rest
<1>5. /\ front \o rest \in Seq(S) /\ Len(front \o rest) = Len(front) + Len(rest)
      /\ \A i \in 1..(Len(front) + Len(rest)) :
            (front \o rest)[i] = IF i <= Len(front) THEN front[i] ELSE rest[i - Len(front)]
  BY <1>4, ConcatProperties
<1>6. Len(front \o rest) = Len(s)
  BY <1>1, <1>4, <1>5
<1>7. ASSUME NEW i \in 1..Len(s) PROVE s[i] = (front \o rest)[i]
  <2>1. CASE i <= n
    BY <1>1, <1>4, <1>5, <2>1
  <2>2. CASE ~(i <= n)
    <3>1. i - n \in 1..(Len(s) - n) /\ n + (i - n) = i
      BY <1>1, <2>2
    <3>2. rest[i - n] = s[i]
      BY <1>4, <3>1
    <3> QED
      BY <1>1, <1>4, <1>5, <2>2, <3>2
  <2> QED
    BY <2>1, <2>2
<1>8. s = front \o rest
  BY <1>5, <1>6, <1>7, SeqEqual
<1> QED
  BY <1>2, <1>3, <1>8 DEF front, rest

\* The first lines on the serial line are lost.
LEMMA SwallowStep ==
    ASSUME LInv, NEW g \in 0..Len(serial), serial' = After(serial, g),
           swallowed' = swallowed \cup {serial[i].n : i \in 1..g},
           replies' \in Seq(Devices), UNCHANGED <<buffer, handled, emitted>>
    PROVE  LInv'
<1> DEFINE past == handled \o Numbers(buffer)
           now == Numbers(serial)
           rest == Numbers(After(serial, g))
<1>1. /\ past \in Seq(Nat) /\ now \in Seq(Nat) /\ Lines = past \o now
      /\ Len(now) = Len(serial) /\ \A i \in 1..Len(serial) : now[i] = serial[i].n
      /\ serial \in Seq(Line)
  BY LinesType, NumbersType DEF LInv, LineTypes, Lines
<1>2. /\ After(serial, g) \in Seq(Line)
      /\ rest \in Seq(Nat) /\ Len(rest) = Len(serial) - g
      /\ \A i \in 1..Len(rest) : rest[i] = After(serial, g)[i].n
      /\ \A i \in 1..(Len(serial) - g) : After(serial, g)[i] = serial[g + i]
  BY <1>1, SplitProperties, NumbersType
<1>3. Lines' = past \o rest
  BY DEF Lines
<1> HIDE DEF past, now, rest
<1>4. /\ Len(past) \in Nat /\ Len(now) \in Nat /\ g \in 0..Len(now)
      /\ Len(rest) = Len(now) - g
      /\ DOMAIN Lines = 1..(Len(past) + Len(now))
      /\ \A i \in 1..(Len(past) + Len(now)) :
            Lines[i] = IF i <= Len(past) THEN past[i] ELSE now[i - Len(past)]
  BY <1>1, <1>2, ConcatProperties
<1>5. /\ DOMAIN Lines' = 1..(Len(past) + (Len(now) - g))
      /\ \A i \in 1..(Len(past) + (Len(now) - g)) :
            Lines'[i] = IF i <= Len(past) THEN past[i] ELSE rest[i - Len(past)]
  <2>0. past \in Seq(Nat) /\ rest \in Seq(Nat)
    BY <1>1, <1>2
  <2>1. /\ Len(past \o rest) = Len(past) + Len(rest) /\ past \o rest \in Seq(Nat)
        /\ \A i \in 1..(Len(past) + Len(rest)) :
              (past \o rest)[i] = IF i <= Len(past) THEN past[i] ELSE rest[i - Len(past)]
    BY <2>0, ConcatProperties
  <2>2. DOMAIN (past \o rest) = 1..Len(past \o rest)
    BY <2>1
  <2> QED
    BY <1>3, <1>4, <2>1, <2>2
<1>6. ASSUME NEW i \in 1..(Len(now) - g) PROVE rest[i] = now[g + i]
  <2>1. i \in 1..Len(rest) /\ i \in 1..(Len(serial) - g) /\ g + i \in 1..Len(serial)
    BY <1>1, <1>4
  <2>2. After(serial, g)[i] = serial[g + i]
    BY <1>2, <2>1
  <2> QED
    BY <1>1, <1>2, <2>1, <2>2
\* Where a line was before.
<1> DEFINE Before(i) == IF i <= Len(past) THEN i ELSE g + i
<1>7. \A i \in DOMAIN Lines' : Before(i) \in DOMAIN Lines /\ Lines'[i] = Lines[Before(i)]
  <2> SUFFICES ASSUME NEW i \in 1..(Len(past) + (Len(now) - g))
               PROVE  Before(i) \in DOMAIN Lines /\ Lines'[i] = Lines[Before(i)]
    BY <1>5
  <2>1. CASE i <= Len(past)
    BY <1>4, <1>5, <2>1
  <2>2. CASE ~(i <= Len(past))
    <3>1. i - Len(past) \in 1..(Len(now) - g)
      BY <1>4, <2>2
    <3>2. Lines'[i] = rest[i - Len(past)]
      BY <1>5, <2>2
    <3>3. rest[i - Len(past)] = now[g + (i - Len(past))]
      BY <1>6, <3>1
    <3>4. g + i \in 1..(Len(past) + Len(now)) /\ ~(g + i <= Len(past))
      BY <1>4, <2>2
    <3>5. Lines[g + i] = now[g + i - Len(past)]
      BY <1>4, <3>4
    <3>6. g + i - Len(past) = g + (i - Len(past))
      BY <1>4
    <3> QED
      BY <1>4, <2>2, <3>2, <3>3, <3>4, <3>5, <3>6
  <2> QED
    BY <2>1, <2>2
<1>8. \A i, j \in DOMAIN Lines' : i < j => Before(i) < Before(j)
  BY <1>4, <1>5
<1>9. \A k \in DOMAIN Lines :
          \/ \E i \in DOMAIN Lines' : k = Before(i)
          \/ \E i \in 1..g : k = Len(past) + i
  <2> SUFFICES ASSUME NEW k \in 1..(Len(past) + Len(now))
               PROVE  \/ \E i \in DOMAIN Lines' : k = Before(i)
                      \/ \E i \in 1..g : k = Len(past) + i
    BY <1>4
  <2>1. CASE k <= Len(past)
    <3>1. k \in DOMAIN Lines' /\ k = Before(k)
      BY <1>4, <1>5, <2>1
    <3> QED
      BY <3>1
  <2>2. CASE Len(past) < k /\ k <= Len(past) + g
    <3>1. k - Len(past) \in 1..g /\ k = Len(past) + (k - Len(past))
      BY <1>4, <2>2
    <3> QED
      BY <3>1
  <2>3. CASE Len(past) + g < k
    <3>1. k - g \in DOMAIN Lines' /\ k = Before(k - g)
      BY <1>4, <1>5, <2>3
    <3> QED
      BY <3>1
  <2> QED
    BY <1>4, <2>1, <2>2, <2>3
<1>10. \A i \in 1..g : /\ Len(past) + i \in DOMAIN Lines
                       /\ Lines[Len(past) + i] = serial[i].n
                       /\ \A j \in DOMAIN Lines' : Before(j) # Len(past) + i
  <2> SUFFICES ASSUME NEW i \in 1..g
               PROVE  /\ Len(past) + i \in DOMAIN Lines
                      /\ Lines[Len(past) + i] = serial[i].n
                      /\ \A j \in DOMAIN Lines' : Before(j) # Len(past) + i
    OBVIOUS
  <2>1. Len(past) + i \in DOMAIN Lines /\ Lines[Len(past) + i] = now[i]
    BY <1>4
  <2>2. now[i] = serial[i].n
    BY <1>1, <1>4
  <2>3. \A j \in DOMAIN Lines' : Before(j) # Len(past) + i
    BY <1>4, <1>5
  <2> QED
    BY <2>1, <2>2, <2>3
<1> HIDE DEF Before
<1>11. /\ {Lines[i] : i \in DOMAIN Lines} = (1..emitted) \ swallowed
       /\ \A i, j \in DOMAIN Lines : i < j => Lines[i] < Lines[j]
       /\ emitted \in Nat /\ swallowed \subseteq 1..emitted
  BY DEF LInv, LineTypes, LinesStayInOrder
<1>12. \A i, j \in DOMAIN Lines : i # j => Lines[i] # Lines[j]
  <2>1. \A i \in DOMAIN Lines : Lines[i] \in Nat
    BY <1>11
  <2> QED
    BY <1>4, <1>11, <2>1
<1>13. {Lines'[i] : i \in DOMAIN Lines'} = (1..emitted) \ swallowed'
  <2>1. ASSUME NEW i \in DOMAIN Lines' PROVE Lines'[i] \in (1..emitted) \ swallowed'
    <3>1. Lines'[i] \in (1..emitted) \ swallowed
      BY <1>7, <1>11
    <3>2. ASSUME NEW j \in 1..g PROVE Lines'[i] # serial[j].n
      BY <1>7, <1>10, <1>12
    <3> QED
      BY <3>1, <3>2
  <2>2. ASSUME NEW m \in (1..emitted) \ swallowed'
        PROVE  \E i \in DOMAIN Lines' : m = Lines'[i]
    <3>1. PICK k \in DOMAIN Lines : m = Lines[k]
      BY <1>11
    <3>2. ~\E i \in 1..g : k = Len(past) + i
      BY <1>10, <3>1
    <3> QED
      BY <1>7, <1>9, <3>1, <3>2
  <2> QED
    BY <2>1, <2>2
<1>14. \A i, j \in DOMAIN Lines' : i < j => Lines'[i] < Lines'[j]
  BY <1>7, <1>8, <1>11
<1>15. LineTypes'
  <2>1. swallowed' \subseteq 1..emitted
    BY <1>10, <1>11
  <2> QED
    BY <1>2, <2>1 DEF LInv, LineTypes
<1> QED
  BY <1>13, <1>14, <1>15 DEF LInv, LinesStayInOrder

\* What is lost is what is on the serial line, the last of the lines.
LEMMA DiscardStep ==
    ASSUME LInv, Discard, UNCHANGED <<buffer, handled, emitted>> PROVE LInv'
<1>1. serial \in Seq(Line) /\ Len(serial) \in Nat /\ DOMAIN serial = 1..Len(serial)
  BY DEF LInv, LineTypes
<1>2. After(serial, Len(serial)) = <<>>
  BY <1>1, SubSeqEmpty DEF After
<1>3. replies' \in Seq(Devices)
  BY DEF Discard
<1> QED
  BY <1>1, <1>2, <1>3, SwallowStep DEF Discard

LEMMA ReadNothingStep ==
    ASSUME LInv, ReadNothing, UNCHANGED <<buffer, handled, emitted>> PROVE LInv'
<1>1. CASE Discard
  BY <1>1, DiscardStep
<1>2. CASE UNCHANGED <<serial, replies, swallowed>>
  BY <1>2, UnchangedLinesStep DEF LInv, LineTypes
<1> QED
  BY <1>1, <1>2 DEF ReadNothing, SOpen

\* What is read for a slot is lost.
LEMMA ReadSlotStep ==
    ASSUME LInv, NEW own \in Seq(Devices), ReadSlot(own),
           UNCHANGED <<buffer, handled, emitted>>
    PROVE  LInv' /\ (registered \in Seq(Devices) => registered' \in Seq(Devices))
<1> DEFINE expected == replies \o own
<1>1. expected \in Seq(Devices) /\ serial \in Seq(Line)
  BY ConcatProperties DEF LInv, LineTypes
<1>2. PICK r \in Reads(expected), l \in Reads(serial) :
          LET found == {expected[i] : i \in {1} \cap 1..r.whole}
                          \cup {serial[i].device : i \in {1} \cap 1..l.whole}
          IN  /\ \/ found = {} /\ registered' = registered
                 \/ \E d \in found : registered' = Append(registered, d)
              /\ replies' = After(expected, r.gone)
              /\ serial' = After(serial, l.gone)
              /\ swallowed' = swallowed \cup {serial[i].n : i \in 1..l.gone}
  BY DEF ReadSlot
<1> HIDE DEF expected
<1>3. /\ r.gone \in 0..Len(expected) /\ l.gone \in 0..Len(serial)
      /\ r.whole \in 0..Len(expected) /\ l.whole \in 0..Len(serial)
  BY DEF Reads
<1>4. replies' \in Seq(Devices)
  BY <1>1, <1>2, <1>3, SplitProperties
<1>5. LInv'
  BY <1>2, <1>3, <1>4, SwallowStep
<1>6. \A i \in {1} \cap 1..r.whole : expected[i] \in Devices
  BY <1>1, <1>3, ElementOfSeq
<1>7. \A i \in {1} \cap 1..l.whole : serial[i].device \in Devices
  <2>1. \A i \in {1} \cap 1..l.whole : serial[i] \in Line
    BY <1>1, <1>3, ElementOfSeq
  <2> QED
    BY <2>1 DEF Line
<1>8. registered' = registered \/ \E d \in Devices : registered' = Append(registered, d)
  BY <1>2, <1>6, <1>7
<1> QED
  BY <1>5, <1>8

LEMMA ConcatType == \A a, b \in Seq(Nat) : a \o b \in Seq(Nat)
BY ConcatProperties

LEMMA ConcatNumbers == \A a, b, c \in Seq(Nat) : (a \o b) \o c = a \o (b \o c)
BY ConcatAssociative

\* What is read goes from the serial line to m_buffer.
LEMMA ReceiveStep ==
    ASSUME LInv, Receive PROVE LInv'
<1>1. UNCHANGED <<handled, emitted>>
  BY DEF Receive
<1>2. ASSUME NEW k \in 0..Len(serial), buffer' = buffer \o SubSeq(serial, 1, k),
             serial' = After(serial, k), UNCHANGED <<replies, swallowed>>
      PROVE  LInv'
  <2> DEFINE read == SubSeq(serial, 1, k)
             rest == After(serial, k)
  <2>1. /\ serial \in Seq(Line) /\ buffer \in Seq(Line)
        /\ read \in Seq(Line) /\ rest \in Seq(Line) /\ serial = read \o rest
    BY SplitProperties DEF LInv, LineTypes
  <2>2. buffer' = buffer \o read /\ serial' = rest
    BY <1>2
  <2> HIDE DEF read, rest
  <2>3. LineTypes'
    BY <1>1, <1>2, <2>1, <2>2, ConcatProperties DEF LInv, LineTypes
  <2>4. /\ handled \in Seq(Nat) /\ Numbers(buffer) \in Seq(Nat)
        /\ Numbers(read) \in Seq(Nat) /\ Numbers(rest) \in Seq(Nat)
    BY <2>1, NumbersType DEF LInv, LineTypes
  <2>5. Numbers(buffer') = Numbers(buffer) \o Numbers(read)
    BY <2>1, <2>2, NumbersConcat
  <2>6. Numbers(serial) = Numbers(read) \o Numbers(rest)
    BY <2>1, NumbersConcat
  <2>7. Lines' = (handled \o (Numbers(buffer) \o Numbers(read))) \o Numbers(rest)
    BY <1>1, <2>2, <2>5 DEF Lines
  <2>8. Lines = (handled \o Numbers(buffer)) \o (Numbers(read) \o Numbers(rest))
    BY <2>6 DEF Lines
  <2> DEFINE old == Numbers(buffer)
             new == Numbers(read)
             left == Numbers(rest)
  <2>9. handled \in Seq(Nat) /\ old \in Seq(Nat) /\ new \in Seq(Nat) /\ left \in Seq(Nat)
    BY <2>4
  <2>10. Lines' = (handled \o (old \o new)) \o left /\ Lines = (handled \o old) \o (new \o left)
    BY <2>7, <2>8
  <2> HIDE DEF old, new, left
  <2>11. (handled \o (old \o new)) \o left = (handled \o old) \o (new \o left)
    <3>1. handled \o (old \o new) = (handled \o old) \o new
      BY <2>9, ConcatNumbers
    <3>2. handled \o old \in Seq(Nat)
      BY <2>9, ConcatType
    <3> DEFINE past == handled \o old
    <3>3. past \in Seq(Nat)
      BY <3>2
    <3> HIDE DEF past
    <3>4. (past \o new) \o left = past \o (new \o left)
      BY <2>9, <3>3, ConcatNumbers
    <3> QED
      BY <3>1, <3>4 DEF past
  <2>12. Lines' = Lines
    BY <2>10, <2>11, Zenon
  <2> QED
    BY <1>2, <1>1, <2>3, <2>12, SameLinesStep
<1>3. CASE ReadNothing /\ UNCHANGED buffer
  BY <1>1, <1>3, ReadNothingStep
<1> QED
  BY <1>2, <1>3 DEF Receive

\* The first line of m_buffer is the next that is returned.
LEMMA TakeLineStep ==
    ASSUME LInv, TakeLine PROVE LInv'
<1>1. UNCHANGED <<serial, replies, emitted, swallowed>>
  BY DEF TakeLine
<1>2. CASE buffer = <<>>
  BY <1>1, <1>2, UnchangedLinesStep DEF TakeLine, LInv, LineTypes
<1>3. CASE buffer # <<>>
  <2>1. buffer' = Tail(buffer) /\ handled' = Append(handled, buffer[1].n)
    BY <1>3 DEF TakeLine
  <2>2. /\ buffer \in Seq(Line) /\ handled \in Seq(Nat)
        /\ buffer[1] \in Line /\ Tail(buffer) \in Seq(Line)
        /\ <<buffer[1]>> \in Seq(Line) /\ buffer = <<buffer[1]>> \o Tail(buffer)
    BY <1>3 DEF LInv, LineTypes
  <2>3. buffer[1].n \in Nat /\ <<buffer[1].n>> \in Seq(Nat)
    BY <2>2 DEF Line
  <2>4. LineTypes'
    BY <1>1, <2>1, <2>2, <2>3 DEF LInv, LineTypes
  <2>5. Numbers(buffer) = <<buffer[1].n>> \o Numbers(Tail(buffer))
    <3>1. Numbers(<<buffer[1]>>) = <<buffer[1].n>>
      BY DEF Numbers
    <3> QED
      BY <2>2, <3>1, NumbersConcat
  <2>6. handled' \o Numbers(Tail(buffer))
            = handled \o (<<buffer[1].n>> \o Numbers(Tail(buffer)))
    <3>1. handled' = handled \o <<buffer[1].n>>
      <4> DEFINE m == buffer[1].n
      <4>1. m \in Nat /\ handled' = Append(handled, m)
        BY <2>1, <2>3
      <4> HIDE DEF m
      <4>2. handled' = handled \o <<m>>
        BY <2>2, <4>1
      <4> QED
        BY <4>2 DEF m
    <3>2. Numbers(Tail(buffer)) \in Seq(Nat)
      BY <2>2, NumbersType
    <3> QED
      BY <2>2, <2>3, <3>1, <3>2, ConcatAssociative
  <2>7. Lines' = Lines
    BY <1>1, <2>1, <2>5, <2>6 DEF Lines
  <2> QED
    BY <1>1, <2>4, <2>7, SameLinesStep
<1> QED
  BY <1>2, <1>3

LEMMA LinesInit == Init => LInv
<1> SUFFICES ASSUME Init PROVE LInv
  OBVIOUS
<1>1. LineTypes
  BY DEF Init, LineTypes
<1>2. Lines = <<>>
  BY NumbersEmpty DEF Init, Lines
<1> QED
  BY <1>1, <1>2 DEF Init, LInv, LinesStayInOrder

\* The slots that are read are of devices.
LEMMA LoadSlotLines ==
    ASSUME LInv, LoadSlot \/ LoadEmptySlot
    PROVE  LInv' /\ (registered \in Seq(Devices) => registered' \in Seq(Devices))
<1>1. UNCHANGED <<buffer, handled, emitted>>
  BY DEF LoadSlot, LoadEmptySlot
<1>2. CASE ReadNothing /\ UNCHANGED registered
  BY <1>1, <1>2, ReadNothingStep
<1>3. CASE ReadSlot(<<>>)
  <2>1. <<>> \in Seq(Devices)
    OBVIOUS
  <2> QED
    BY <1>1, <1>3, <2>1, ReadSlotStep
<1>4. CASE LoadSlot /\ ReadSlot(<<Slots[slot]>>)
  <2>1. Slots[slot] \in Devices
    BY <1>4 DEF LoadSlot, Devices
  <2>2. <<Slots[slot]>> \in Seq(Devices)
    BY <2>1
  <2> QED
    BY <1>1, <1>4, <2>2, ReadSlotStep
<1> QED
  BY <1>2, <1>3, <1>4 DEF LoadSlot, LoadEmptySlot

LEMMA LinesStep == LInv /\ [Next]_vars => LInv'
<1> SUFFICES ASSUME LInv, [Next]_vars PROVE LInv'
  OBVIOUS
<1>1. CASE \E d \in Devices : Emit(d)
  BY <1>1, EmitStep
<1>2. CASE Unplug
  BY <1>2, DiscardStep DEF Unplug
<1>3. CASE Open
  <2>1. UNCHANGED <<buffer, handled, emitted>>
    BY <1>3 DEF Open
  <2>2. Discard \/ UNCHANGED <<serial, replies, swallowed>>
    BY <1>3 DEF Open, SOpen
  <2> QED
    BY <2>1, <2>2, DiscardStep, UnchangedLinesStep DEF LInv, LineTypes
<1>4. CASE LoadSlot \/ LoadEmptySlot
  BY <1>4, LoadSlotLines
<1>5. CASE EndLoad
  BY <1>5, UnchangedLinesStep DEF EndLoad
<1>6. CASE \/ Start \/ FirstRequest \/ CheckQueue \/ TakeAnswer \/ EndCheck
           \/ Send
           \/ \E t \in Threads : Switch(t)
           \/ \E o \in Outlets, s \in States : SetValuesCommand(o, s)
           \/ \E d \in Devices : UnpairCommand(d)
           \/ ListenCommand \/ ListResult \/ StopListen
           \/ \E o \in Outlets : ValueResult(o)
           \/ Plug \/ UNCHANGED vars
  <2>1. UNCHANGED <<serial, replies, buffer, handled, emitted, swallowed>>
    BY <1>6 DEF Start, FirstRequest, CheckQueue, TakeAnswer, EndCheck, Send,
                Switch, Format, Transmit, EndSwitch, SetValuesCommand, UnpairCommand,
                ListenCommand, ListResult, StopListen, ValueResult, Plug, vars, lineVars
  <2> QED
    BY <2>1, UnchangedLinesStep DEF LInv, LineTypes
<1>7. CASE FailLoad
  <2>1. PICK g \in 0..Len(serial) :
            /\ serial' = After(serial, g)
            /\ swallowed' = swallowed \cup {serial[i].n : i \in 1..g}
    BY <1>7 DEF FailLoad
  <2>2. UNCHANGED <<buffer, handled, emitted>>
    BY <1>7 DEF FailLoad
  <2>3. replies' \in Seq(Devices)
    <3>1. replies' = <<>> \/ replies' = replies
      BY <1>7 DEF FailLoad
    <3>2. <<>> \in Seq(Devices)
      OBVIOUS
    <3>3. replies \in Seq(Devices)
      BY DEF LInv, LineTypes
    <3> QED
      BY <3>1, <3>2, <3>3, Zenon
  <2> QED
    BY <2>1, <2>2, <2>3, SwallowStep
<1> QED
  BY <1>1, <1>2, <1>3, <1>4, <1>5, <1>6, <1>7, ReceiveStep, TakeLineStep DEF Next, Main

LEMMA LinesInvariant == Spec => []LInv
<1> QED
  BY LinesInit, LinesStep, PTL DEF Spec

\* Every line that the dongle sends is returned once and in order, unless it is
\* one of those that are lost before (JablotronDeviceManager.cpp:302-358,
\* SerialControl.cpp:37-118).
THEOREM LinesAreInOrder == Spec => []LinesStayInOrder
<1>1. LInv => LinesStayInOrder
  BY DEF LInv
<1> QED
  BY <1>1, LinesInvariant, PTL

----------------------------------------------------------------------------
(* The outlets. *)

\* Answers with a result.
Answers ==
    [type : {"list"}, devices : Lists]
    \cup [type : {"failed"}]
    \cup [type : {"value"}, outlet : Outlets, state : States]

\* The types of the requests and their Answers.
AnswerTypes ==
    /\ asked \subseteq Outlets
    /\ answers \in Seq(Answers) /\ dirty \in Seq(Answers)

\* What a thread may be doing in setSwitch().
Jobs ==
    {NoJob, [phase |-> "format"]}
    \cup [phase : {"write"}, pair : (States \cup {0}) \X (States \cup {0}),
          written : Nat, failed : Nat]

\* The types of what setting a switch depends on.
SwitchTypes ==
    /\ slot \in Nat \ {0} /\ registered \in Seq(Devices)
    /\ job \in [Threads -> Jobs]
    /\ pgx \in States \cup {0} /\ pgy \in States \cup {0}
    /\ wanted \in [Outlets -> States \cup {None}]
    /\ mixed \subseteq Threads

\* The slots are registered in their order, however often they are read.
SlotsInOrder ==
    /\ \A i \in DOMAIN registered, k \in DOMAIN Slots :
            registered[i] = Slots[k] =>
                \A m \in 1..(k - 1) : \E j \in 1..(i - 1) : registered[j] = Slots[m]
    /\ main = "slots" =>
            \A m \in 1..(slot - 1) : m \in DOMAIN Slots =>
                \E j \in DOMAIN registered : registered[j] = Slots[m]

\* A thread that has met no other is alone.
OneJob ==
    \A t \in Threads \ mixed :
        job[t] # NoJob => \A u \in Threads : job[u] # NoJob => u = t

\* pgx is that of the first outlet, pgy that of the second.
PairIsWanted ==
    \A o \in Outlets \ misplaced :
        wanted[o] # None => wanted[o] = IF IsSecond(o) THEN pgy ELSE pgx

\* What is written is pgx and pgy, and they are the outputs at the end.
PairIsWritten ==
    /\ \A t \in Threads \ mixed : job[t].phase = "write" =>
            /\ job[t].pair = <<pgx, pgy>>
            /\ job[t].written # 0 => outputs = job[t].pair
    /\ ~stale /\ (\A t \in Threads : job[t] = NoJob) => outputs = <<pgx, pgy>>

IInv ==
    /\ SwitchTypes /\ AnswerTypes
    /\ ~misread => SlotsInOrder
    /\ OneJob /\ PairIsWanted /\ PairIsWritten

----------------------------------------------------------------------------
(* Which output an outlet has. *)

LEMMA FirstOutletIs ==
    ASSUME NEW s \in Seq(Devices), FirstOutlet(s) # None
    PROVE  \E i \in DOMAIN s :
                /\ s[i] = FirstOutlet(s) /\ s[i] \in Outlets
                /\ \A j \in 1..(i - 1) : s[j] \notin Outlets
BY DEF FirstOutlet

LEMMA OneFirst ==
    ASSUME NEW o \in Outlets, NEW p \in Outlets, ~IsSecond(o), ~IsSecond(p)
    PROVE  o = p
<1>1. PICK a \in DOMAIN Slots : Slots[a] = o
  BY SlotsAssumption DEF Devices
<1>2. PICK b \in DOMAIN Slots : Slots[b] = p
  BY SlotsAssumption DEF Devices
<1>3. ~(a < b) /\ ~(b < a)
  BY <1>1, <1>2 DEF IsSecond
<1>4. a \in Nat /\ b \in Nat
  BY SlotsAssumption
<1> QED
  BY <1>1, <1>2, <1>3, <1>4

LEMMA OneSecond ==
    ASSUME NEW o \in Outlets, NEW p \in Outlets, IsSecond(o), IsSecond(p)
    PROVE  o = p
<1>1. PICK a \in DOMAIN Slots, b \in DOMAIN Slots :
          a < b /\ Slots[a] \in Outlets /\ Slots[b] = o
  BY DEF IsSecond
<1>2. PICK c \in DOMAIN Slots, d \in DOMAIN Slots :
          c < d /\ Slots[c] \in Outlets /\ Slots[d] = p
  BY DEF IsSecond
<1>3. a \in Nat /\ b \in Nat /\ c \in Nat /\ d \in Nat
  BY SlotsAssumption
<1>4. ~(b < d)
  <2> SUFFICES ASSUME b < d PROVE FALSE
    OBVIOUS
  <2>1. ~({Slots[a], Slots[b], Slots[d]} \subseteq Outlets)
    BY <1>1, <1>2, SlotsAssumption
  <2> QED
    BY <2>1, <1>1, <1>2
<1>5. ~(d < b)
  <2> SUFFICES ASSUME d < b PROVE FALSE
    OBVIOUS
  <2>1. ~({Slots[c], Slots[d], Slots[b]} \subseteq Outlets)
    BY <1>1, <1>2, SlotsAssumption
  <2> QED
    BY <2>1, <1>1, <1>2
<1> QED
  BY <1>1, <1>2, <1>3, <1>4, <1>5

\* Without a misread slot, the first outlet is registered before the second.
LEMMA SlotsInOrderSuffices ==
    ASSUME SwitchTypes, SlotsInOrder
    PROVE  InSlotOrder
<1> SUFFICES ASSUME NEW i \in DOMAIN registered, registered[i] \in Outlets,
                    IsSecond(registered[i])
             PROVE  \E j \in 1..(i - 1) : registered[j] \in Outlets /\ ~IsSecond(registered[j])
  BY DEF InSlotOrder
<1>1. PICK a \in DOMAIN Slots, b \in DOMAIN Slots :
          a < b /\ Slots[a] \in Outlets /\ Slots[b] = registered[i]
  BY DEF IsSecond
<1>2. a \in 1..(b - 1)
  BY <1>1, SlotsAssumption
<1>3. PICK j \in 1..(i - 1) : registered[j] = Slots[a]
  BY <1>1, <1>2 DEF SlotsInOrder
<1>4. ~IsSecond(Slots[a])
  <2> SUFFICES ASSUME NEW c \in DOMAIN Slots, NEW d \in DOMAIN Slots,
                      c < d, Slots[c] \in Outlets, Slots[d] = Slots[a]
               PROVE  FALSE
    BY DEF IsSecond
  <2>1. d = a
    BY SlotsAssumption
  <2>2. ~({Slots[c], Slots[a], Slots[b]} \subseteq Outlets)
    BY <1>1, <2>1, SlotsAssumption
  <2> QED
    BY <1>1, <2>2
<1> QED
  BY <1>1, <1>3, <1>4

\* The first outlet of m_devices is the dongle's first.
LEMMA FirstIsFirst ==
    ASSUME SwitchTypes, InSlotOrder, FirstOutlet(registered) # None,
           NEW o \in Outlets
    PROVE  (FirstOutlet(registered) = o) <=> ~IsSecond(o)
<1> DEFINE p == FirstOutlet(registered)
<1>1. PICK i \in DOMAIN registered :
          /\ registered[i] = p /\ p \in Outlets
          /\ \A j \in 1..(i - 1) : registered[j] \notin Outlets
  BY FirstOutletIs DEF SwitchTypes
<1>2. ~IsSecond(p)
  BY <1>1 DEF InSlotOrder
<1> HIDE DEF p
<1>3. ~IsSecond(o) => p = o
  BY <1>1, <1>2, OneFirst
<1> QED
  BY <1>2, <1>3 DEF p

----------------------------------------------------------------------------
(* setSwitch(). *)

LEMMA InitHolds == Init => IInv
<1> SUFFICES ASSUME Init PROVE IInv
  OBVIOUS
<1>1. SwitchTypes
  BY DEF Init, SwitchTypes, Jobs
<1> AnswerTypes
  BY DEF Init, AnswerTypes
<1>2. SlotsInOrder /\ OneJob /\ PairIsWanted
  BY DEF Init, SlotsInOrder, OneJob, PairIsWanted
<1>3. PairIsWritten
  BY DEF Init, PairIsWritten, NoJob
<1> QED
  BY <1>1, <1>2, <1>3 DEF IInv

\* A step that leaves the switches alone, and registers nothing unless a slot
\* is misread.
LEMMA RegisterStep ==
    ASSUME IInv, UNCHANGED switchVars,
           misread' \/ (~misread /\ registered' = registered),
           slot' \in Nat \ {0}, registered' \in Seq(Devices), AnswerTypes',
           main' = "slots" => slot' = 1 \/ (slot' = slot /\ main = "slots")
    PROVE  IInv'
<1>1. SwitchTypes'
  BY DEF IInv, SwitchTypes, switchVars
<1>2. ASSUME ~misread' PROVE SlotsInOrder'
  <2>1. SlotsInOrder /\ registered' = registered
    BY <1>2 DEF IInv
  <2>2. ASSUME main' = "slots", NEW m \in 1..(slot' - 1), m \in DOMAIN Slots
        PROVE  \E j \in DOMAIN registered : registered[j] = Slots[m]
    BY <2>1, <2>2 DEF SlotsInOrder
  <2> QED
    BY <2>1, <2>2 DEF SlotsInOrder
<1>3. (OneJob /\ PairIsWanted /\ PairIsWritten)'
  BY DEF IInv, OneJob, PairIsWanted, PairIsWritten, IsSecond, switchVars
<1> QED
  BY <1>1, <1>2, <1>3 DEF IInv

LEMMA OtherStep ==
    ASSUME IInv, UNCHANGED <<switchVars, registered, misread>>,
           slot' \in Nat \ {0}, AnswerTypes',
           main' = "slots" => slot' = 1 \/ (slot' = slot /\ main = "slots")
    PROVE  IInv'
<1>1. registered' \in Seq(Devices)
  BY DEF IInv, SwitchTypes
<1>2. CASE misread
  <2>1. misread'
    BY <1>2
  <2> QED
    BY <1>1, <2>1, RegisterStep
<1>3. CASE ~misread
  BY <1>1, <1>3, RegisterStep
<1> QED
  BY <1>2, <1>3

\* A step of setSwitch() leaves the slots alone.
LEMMA SameSlots ==
    ASSUME ~misread => SlotsInOrder, UNCHANGED <<main, slot, registered, misread>>
    PROVE  (~misread => SlotsInOrder)'
<1>1. CASE misread
  BY <1>1
<1>2. CASE ~misread
  BY <1>2 DEF SlotsInOrder
<1> QED
  BY <1>1, <1>2

\* An outlet is set: its own half of the pair changes, and no other's.
LEMMA BeginSwitchStep ==
    ASSUME IInv, NEW t \in Threads, NEW o \in Outlets, NEW s \in States, BeginSwitch(t, o, s),
           UNCHANGED <<main, slot, registered, misread>>, AnswerTypes'
    PROVE  IInv'
<1> USE DEF Threads
<1>1. /\ job \in [Threads -> Jobs] /\ wanted \in [Outlets -> States \cup {None}]
      /\ job[t] = NoJob
      /\ job' = [job EXCEPT ![t] = [phase |-> "format"]]
      /\ wanted' = [wanted EXCEPT ![o] = s]
      /\ IF FirstOutlet(registered) = o THEN pgx' = s /\ pgy' = pgy
                                        ELSE pgy' = s /\ pgx' = pgx
  BY DEF IInv, SwitchTypes, BeginSwitch
<1>2. mixed' \subseteq Threads
  BY DEF IInv, SwitchTypes, BeginSwitch
<1>3. SwitchTypes'
  <2>1. [phase |-> "format"] \in Jobs
    BY DEF Jobs
  <2>2. job' \in [Threads -> Jobs] /\ wanted' \in [Outlets -> States \cup {None}]
    BY <1>1, <2>1
  <2>3. pgx' \in States \cup {0} /\ pgy' \in States \cup {0}
    BY <1>1 DEF IInv, SwitchTypes
  <2> QED
    BY <1>2, <2>2, <2>3 DEF IInv, SwitchTypes
<1>4. mixed' # Threads => \A u \in Threads : job[u] = NoJob
  BY DEF BeginSwitch
<1>5. (~misread => SlotsInOrder)'
  BY SameSlots DEF IInv
<1>6. OneJob'
  <2> SUFFICES ASSUME NEW v \in Threads, v \notin mixed', job'[v] # NoJob,
                      NEW u \in Threads, job'[u] # NoJob
               PROVE  u = v
    BY DEF OneJob
  <2>1. \A w \in Threads : job[w] = NoJob
    BY <1>4
  <2> QED
    BY <1>1, <2>1
<1>7. PairIsWanted'
  <2> SUFFICES ASSUME NEW p \in Outlets, p \notin misplaced', wanted'[p] # None
               PROVE  wanted'[p] = IF IsSecond(p) THEN pgy' ELSE pgx'
    BY DEF PairIsWanted, IsSecond
  <2>1. /\ FirstOutlet(registered) # None /\ (misread => InSlotOrder)
        /\ misplaced' = misplaced \ {o}
    BY DEF BeginSwitch
  <2>2. InSlotOrder
    BY <2>1, SlotsInOrderSuffices DEF IInv
  <2>3. IF IsSecond(o) THEN pgy' = s /\ pgx' = pgx ELSE pgx' = s /\ pgy' = pgy
    BY <1>1, <2>1, <2>2, FirstIsFirst DEF IInv
  <2>4. CASE p = o
    BY <1>1, <2>3, <2>4
  <2>5. CASE p # o
    <3>1. wanted'[p] = wanted[p]
      BY <1>1, <2>5
    <3>2. IsSecond(p) <=> ~IsSecond(o)
      BY <2>5, OneFirst, OneSecond
    <3>3. wanted[p] = IF IsSecond(p) THEN pgy ELSE pgx
      BY <2>1, <2>5, <3>1 DEF IInv, PairIsWanted
    <3> QED
      BY <2>3, <3>1, <3>2, <3>3
  <2> QED
    BY <2>4, <2>5
<1>8. PairIsWritten'
  <2>1. job'[t] # NoJob
    BY <1>1 DEF NoJob
  <2>2. ASSUME NEW v \in Threads, v \notin mixed' PROVE job'[v].phase # "write"
    <3>1. \A u \in Threads : job[u] = NoJob
      BY <1>4, <2>2
    <3> QED
      BY <1>1, <3>1 DEF NoJob
  <2> QED
    BY <2>1, <2>2 DEF PairIsWritten
<1> QED
  BY <1>3, <1>5, <1>6, <1>7, <1>8 DEF IInv

\* A thread goes on with its job: what it leaves alone.
LEMMA JobStep ==
    ASSUME IInv, NEW t \in Threads,
           UNCHANGED <<main, slot, registered, misread, pgx, pgy, wanted, mixed, misplaced,
                       asked, answers, dirty>>,
           NEW j \in Jobs, job[t] # NoJob, job' = [job EXCEPT ![t] = j],
           PairIsWritten'
    PROVE  IInv'
<1>1. SwitchTypes' /\ AnswerTypes'
  BY DEF IInv, SwitchTypes, AnswerTypes
<1>2. (~misread => SlotsInOrder)'
  BY SameSlots DEF IInv
<1>3. OneJob'
  BY DEF IInv, SwitchTypes, OneJob
<1>4. PairIsWanted'
  BY DEF IInv, PairIsWanted, IsSecond
<1> QED
  BY <1>1, <1>2, <1>3, <1>4 DEF IInv

\* One who has met no other is not there while another is.
LEMMA OtherIsMixed ==
    ASSUME OneJob, NEW t \in Threads, job[t] # NoJob, NEW u \in Threads, u # t, job[u] # NoJob
    PROVE  u \in mixed
BY DEF OneJob

LEMMA FormatStep ==
    ASSUME IInv, NEW t \in Threads, Format(t) PROVE IInv'
<1> DEFINE j == [phase |-> "write", pair |-> <<pgx, pgy>>, written |-> 0, failed |-> 0]
<1>1. j \in Jobs
  BY DEF IInv, SwitchTypes, Jobs
<1>2. job[t] # NoJob /\ job' = [job EXCEPT ![t] = j]
  BY DEF Format, NoJob
<1>3. UNCHANGED <<main, slot, registered, misread, pgx, pgy, wanted, mixed, misplaced,
                  asked, answers, dirty, outputs, stale>>
  BY DEF Format, loadVars, requestVars
<1>4. job \in [Threads -> Jobs] /\ job'[t] = j /\ \A u \in Threads : u # t => job'[u] = job[u]
  BY <1>2 DEF IInv, SwitchTypes
<1>5. PairIsWritten'
  <2>1. ASSUME NEW u \in Threads, u \notin mixed, job'[u].phase = "write"
        PROVE  u = t
    BY <1>2, <1>4, <2>1, OtherIsMixed DEF IInv, NoJob
  <2>2. job'[t] # NoJob
    BY <1>4 DEF NoJob
  <2> QED
    BY <1>3, <1>4, <2>1, <2>2 DEF PairIsWritten
<1> HIDE DEF j
<1> QED
  BY <1>1, <1>2, <1>3, <1>5, JobStep

LEMMA TransmitStep ==
    ASSUME IInv, NEW t \in Threads, Transmit(t) PROVE IInv'
<1> DEFINE j == job'[t]
<1>1. job[t] \in Jobs /\ job[t].phase = "write" /\ job \in [Threads -> Jobs]
  BY DEF IInv, SwitchTypes, Transmit
<1>2. job[t] \in [phase : {"write"}, pair : (States \cup {0}) \X (States \cup {0}),
                  written : Nat, failed : Nat]
  BY <1>1 DEF Jobs, NoJob
<1>3. /\ j \in Jobs /\ job' = [job EXCEPT ![t] = j] /\ job[t] # NoJob
      /\ j.phase = "write" /\ j.pair = job[t].pair
      /\ \/ outputs' = j.pair
         \/ j.written = job[t].written /\ outputs' = outputs
  BY <1>1, <1>2 DEF Transmit, Jobs, NoJob
<1>4. UNCHANGED <<main, slot, registered, misread, pgx, pgy, wanted, mixed, misplaced,
                  asked, answers, dirty, stale>>
  BY DEF Transmit, loadVars, requestVars
<1> HIDE DEF j
<1>5. job'[t] = j /\ \A u \in Threads : u # t => job'[u] = job[u]
  BY <1>1, <1>3
<1>6. PairIsWritten'
  <2>1. ASSUME NEW u \in Threads, u \notin mixed, job'[u].phase = "write"
        PROVE  u = t
    BY <1>3, <1>5, <2>1, OtherIsMixed DEF IInv, NoJob
  <2>2. job'[t] # NoJob
    BY <1>3, <1>5 DEF NoJob
  <2>3. t \notin mixed => /\ job[t].pair = <<pgx, pgy>>
                          /\ job[t].written # 0 => outputs = job[t].pair
    BY <1>1 DEF IInv, PairIsWritten
  <2>4. t \notin mixed => /\ j.pair = <<pgx, pgy>>
                          /\ j.written # 0 => outputs' = j.pair
    BY <1>3, <2>3
  <2> QED
    BY <1>4, <1>5, <2>1, <2>2, <2>4 DEF PairIsWritten
<1> QED
  BY <1>3, <1>4, <1>6, JobStep

\* With a packet written, the outputs are the pair.
LEMMA EndSwitchStep ==
    ASSUME IInv, NEW t \in Threads, EndSwitch(t) PROVE IInv'
<1>1. /\ NoJob \in Jobs /\ job[t] # NoJob /\ job' = [job EXCEPT ![t] = NoJob]
      /\ job \in [Threads -> Jobs] /\ job[t].phase = "write"
  BY DEF IInv, SwitchTypes, EndSwitch, Jobs, NoJob
<1>2. UNCHANGED <<main, slot, registered, misread, pgx, pgy, wanted, mixed, misplaced,
                  asked, answers, dirty, outputs>>
  BY DEF EndSwitch, loadVars, requestVars
<1>3. PairIsWritten'
  <2>1. ASSUME NEW u \in Threads, u \notin mixed, job'[u].phase = "write"
        PROVE  FALSE
    BY <1>1, <2>1, OtherIsMixed DEF IInv, NoJob
  <2>2. ASSUME ~stale' PROVE outputs = <<pgx, pgy>>
    <3>1. t \notin mixed /\ job[t].written # 0
      BY <2>2 DEF EndSwitch
    <3>2. /\ job[t].pair = <<pgx, pgy>>
          /\ job[t].written # 0 => outputs = job[t].pair
      BY <1>1, <3>1 DEF IInv, PairIsWritten
    <3> QED
      BY <3>1, <3>2
  <2> QED
    BY <1>2, <2>1, <2>2 DEF PairIsWritten
<1> QED
  BY <1>1, <1>2, <1>3, JobStep

----------------------------------------------------------------------------
(* The slots, and the rest. *)

\* A reply is registered, or a slot is misread.
LEMMA LoadSlotStep ==
    ASSUME IInv, LInv, LoadSlot PROVE IInv'
<1>1. SwitchTypes'
  <2>1. slot' \in Nat \ {0}
    BY DEF IInv, SwitchTypes, LoadSlot
  <2>2. registered' \in Seq(Devices)
    BY LoadSlotLines DEF IInv, SwitchTypes
  <2> QED
    BY <2>1, <2>2 DEF IInv, SwitchTypes, LoadSlot, switchVars
<1>2. AnswerTypes'
  BY DEF IInv, AnswerTypes, LoadSlot, requestVars
<1>3. ASSUME ~misread' PROVE SlotsInOrder'
  <2>0. ~misread /\ registered' = registered \o <<Slots[slot]>>
    <3>1. misread' <=> (misread \/ registered' # registered \o <<Slots[slot]>>)
      BY <1>3 DEF LoadSlot, ReadSlot
    <3> QED
      BY <1>3, <3>1
  <2>1. /\ SlotsInOrder /\ registered \in Seq(Devices) /\ slot \in Nat \ {0}
    BY <2>0 DEF IInv, SwitchTypes
  <2>2. /\ main = "slots" /\ slot \in DOMAIN Slots /\ slot' = slot + 1
        /\ registered' = Append(registered, Slots[slot])
    <3>1. main = "slots" /\ slot \in DOMAIN Slots /\ slot' = slot + 1
      BY DEF LoadSlot
    <3>2. Slots[slot] \in Devices
      BY <3>1 DEF Devices
    <3>3. registered' = Append(registered, Slots[slot])
      BY <2>0, <2>1, <3>2
    <3> QED
      BY <3>1, <3>3
  <2>3. /\ DOMAIN registered' = 1..(Len(registered) + 1)
        /\ \A i \in DOMAIN registered : registered'[i] = registered[i]
        /\ registered'[Len(registered) + 1] = Slots[slot]
        /\ DOMAIN registered = 1..Len(registered) /\ Len(registered) \in Nat
    BY <2>1, <2>2, SlotsAssumption
  <2>4. ASSUME NEW m \in 1..(slot - 1), m \in DOMAIN Slots
        PROVE  \E j \in 1..Len(registered) : registered'[j] = Slots[m]
    <3>1. PICK j \in DOMAIN registered : registered[j] = Slots[m]
      BY <2>1, <2>2, <2>4 DEF SlotsInOrder
    <3> QED
      BY <2>3, <3>1
  <2>5. ASSUME NEW i \in DOMAIN registered', NEW k \in DOMAIN Slots,
               registered'[i] = Slots[k], NEW m \in 1..(k - 1)
        PROVE  \E j \in 1..(i - 1) : registered'[j] = Slots[m]
    <3>1. CASE i \in DOMAIN registered
      <4>1. PICK j \in 1..(i - 1) : registered[j] = Slots[m]
        BY <2>1, <2>3, <2>5, <3>1 DEF SlotsInOrder
      <4> QED
        BY <2>3, <3>1, <4>1
    <3>2. CASE i = Len(registered) + 1
      <4>1. k = slot
        BY <2>2, <2>3, <2>5, <3>2, SlotsAssumption
      <4> QED
        BY <2>3, <2>4, <2>5, <3>2, <4>1, SlotsAssumption
    <3> QED
      BY <2>3, <3>1, <3>2
  <2>6. ASSUME NEW m \in 1..(slot' - 1), m \in DOMAIN Slots
        PROVE  \E j \in DOMAIN registered' : registered'[j] = Slots[m]
    <3>1. CASE m = slot
      BY <2>3, <3>1
    <3>2. CASE m \in 1..(slot - 1)
      BY <2>2, <2>3, <2>4, <2>6, <3>2
    <3> QED
      BY <2>1, <2>2, <3>1, <3>2
  <2> QED
    BY <2>5, <2>6 DEF SlotsInOrder
<1>4. (OneJob /\ PairIsWanted /\ PairIsWritten)'
  BY DEF IInv, OneJob, PairIsWanted, PairIsWritten, IsSecond, LoadSlot, switchVars
<1> QED
  BY <1>1, <1>2, <1>3, <1>4 DEF IInv

\* Nothing is registered for an empty slot, or it is misread.
LEMMA LoadEmptySlotStep ==
    ASSUME IInv, LInv, LoadEmptySlot PROVE IInv'
<1>1. registered' \in Seq(Devices)
  BY LoadSlotLines DEF IInv, SwitchTypes
<1>2. AnswerTypes' /\ UNCHANGED <<switchVars, slot, main>> /\ slot' \in Nat \ {0}
  BY DEF IInv, AnswerTypes, SwitchTypes, LoadEmptySlot, requestVars
<1>3. misread' \/ (~misread /\ registered' = registered)
  <2>1. CASE UNCHANGED <<registered, misread>>
    BY <2>1
  <2>2. CASE misread' <=> (misread \/ registered' # registered \o <<>>)
    <3>1. registered \o <<>> = registered
      BY ConcatEmptySeq DEF IInv, SwitchTypes
    <3> QED
      BY <2>2, <3>1
  <2> QED
    BY <2>1, <2>2 DEF LoadEmptySlot, ReadSlot
<1>4. main = "slots"
  BY DEF LoadEmptySlot
<1> QED
  BY <1>1, <1>2, <1>3, <1>4, RegisterStep

LEMMA TakeAnswerStep ==
    ASSUME IInv, TakeAnswer PROVE IInv'
<1>1. dirty[1] \in Answers /\ dirty' \in Seq(Answers)
  <2>1. dirty \in Seq(Answers) /\ dirty # <<>>
    BY DEF IInv, AnswerTypes, TakeAnswer
  <2>2. dirty[1] \in Answers /\ Tail(dirty) \in Seq(Answers) /\ <<>> \in Seq(Answers)
    BY <2>1
  <2>3. dirty[1].type \in {"list", "value", "failed"}
    BY <2>2 DEF Answers
  <2>4. dirty' \in {Tail(dirty), <<>>}
    BY <2>3 DEF TakeAnswer
  <2> QED
    BY <2>2, <2>4
<1>2. AnswerTypes'
  BY <1>1 DEF IInv, AnswerTypes, TakeAnswer, requestVars
<1>3. UNCHANGED <<main, slot, registered, misread>>
  BY DEF TakeAnswer, loadVars
<1>4. CASE dirty[1].type = "value"
  <2>1. dirty[1].outlet \in Outlets /\ dirty[1].state \in States
    BY <1>1, <1>4 DEF Answers
  <2>2. BeginSwitch("main", dirty[1].outlet, dirty[1].state)
    BY <1>4 DEF TakeAnswer
  <2>3. "main" \in Threads
    BY DEF Threads
  <2> QED
    BY <1>2, <1>3, <2>1, <2>2, <2>3, BeginSwitchStep
<1>5. CASE dirty[1].type # "value"
  <2>1. dirty[1].type \in {"list", "failed"}
    BY <1>1, <1>5 DEF Answers
  <2>2. UNCHANGED switchVars
    BY <2>1 DEF TakeAnswer
  <2> QED
    BY <1>2, <1>3, <2>2, OtherStep DEF IInv, SwitchTypes
<1> QED
  BY <1>4, <1>5

\* The answers that come are to what was requested.
LEMMA ValueResultStep ==
    ASSUME IInv, NEW o \in Outlets, ValueResult(o) PROVE IInv'
<1>1. PICK answer \in {[type |-> "failed"]}
                \cup {[type |-> "value", outlet |-> o, state |-> s] : s \in States} :
          answers' = Append(answers, answer)
  BY DEF ValueResult
<1>2. answer \in Answers
  BY <1>1 DEF Answers
<1>3. AnswerTypes'
  BY <1>1, <1>2 DEF IInv, AnswerTypes, ValueResult
<1> QED
  BY <1>3, OtherStep DEF IInv, SwitchTypes, ValueResult, loadVars

LEMMA ListResultStep ==
    ASSUME IInv, ListResult PROVE IInv'
<1>1. PICK list \in Lists : answers' = Append(answers, [type |-> "list", devices |-> list])
  BY DEF ListResult
<1>2. [type |-> "list", devices |-> list] \in Answers
  BY DEF Answers
<1>3. AnswerTypes'
  BY <1>1, <1>2 DEF IInv, AnswerTypes, ListResult
<1> QED
  BY <1>3, OtherStep DEF IInv, SwitchTypes, ListResult, loadVars

LEMMA SetValuesStep ==
    ASSUME IInv, NEW o \in Outlets, NEW s \in States, SetValuesCommand(o, s) PROVE IInv'
<1>1. AnswerTypes' /\ UNCHANGED <<main, slot, registered, misread>> /\ "client" \in Threads
  BY DEF IInv, AnswerTypes, SetValuesCommand, requestVars, loadVars, Threads
<1> QED
  BY <1>1, BeginSwitchStep DEF SetValuesCommand

\* The other steps of run() leave the switches alone.
LEMMA MainStep ==
    ASSUME IInv, LInv, Main PROVE IInv'
<1> USE DEF IInv, SwitchTypes, AnswerTypes, Goto, loadVars, requestVars
<1>1. CASE Start
  BY <1>1, OtherStep DEF Start
<1>2. CASE FirstRequest
  BY <1>2, OtherStep DEF FirstRequest, Request
<1>3. CASE CheckQueue
  BY <1>3, OtherStep DEF CheckQueue
<1>4. CASE EndCheck
  BY <1>4, OtherStep DEF EndCheck
<1>5. CASE Open
  <2>1. main' = "slots" => slot' = 1
    BY <1>5 DEF Open
  <2> QED
    BY <1>5, <2>1, OtherStep DEF Open
<1>6. CASE EndLoad
  BY <1>6, OtherStep DEF EndLoad
<1>7. CASE Receive
  BY <1>7, OtherStep DEF Receive
<1>8. CASE TakeLine
  BY <1>8, OtherStep DEF TakeLine
<1>9. CASE Send
  BY <1>9, OtherStep DEF Send
<1>10. CASE FailLoad
  BY <1>10, OtherStep DEF FailLoad
<1> QED
  BY <1>1, <1>2, <1>3, <1>4, <1>5, <1>6, <1>7, <1>8, <1>9, <1>10, TakeAnswerStep,
     LoadSlotStep, LoadEmptySlotStep
  DEF Main

LEMMA InductiveStep == IInv /\ LInv /\ [Next]_vars => IInv'
<1> SUFFICES ASSUME IInv, LInv, [Next]_vars PROVE IInv'
  OBVIOUS
<1>1. CASE Main
  BY <1>1, MainStep
<1>2. CASE \E t \in Threads : Switch(t)
  BY <1>2, FormatStep, TransmitStep, EndSwitchStep DEF Switch
<1>3. CASE \E o \in Outlets, s \in States : SetValuesCommand(o, s)
  BY <1>3, SetValuesStep
<1>4. CASE \E o \in Outlets : ValueResult(o)
  BY <1>4, ValueResultStep
<1>5. CASE ListResult
  BY <1>5, ListResultStep
<1>6. CASE \/ \E d \in Devices : UnpairCommand(d) \/ Emit(d)
           \/ ListenCommand \/ StopListen \/ Unplug \/ Plug
  <2>1. UNCHANGED <<main, slot, registered, misread, asked, answers, dirty, switchVars>>
    BY <1>6 DEF UnpairCommand, Emit, ListenCommand, StopListen, Request, Unplug, Plug,
                loadVars, requestVars
  <2> QED
    BY <2>1, OtherStep DEF IInv, SwitchTypes, AnswerTypes
<1>7. CASE UNCHANGED vars
  BY <1>7, OtherStep DEF vars, loadVars, requestVars, IInv, SwitchTypes, AnswerTypes
<1> QED
  BY <1>1, <1>2, <1>3, <1>4, <1>5, <1>6, <1>7 DEF Next

LEMMA Invariant == Spec => []IInv
<1> QED
  BY InitHolds, InductiveStep, LinesInvariant, PTL DEF Spec

\* After a setSwitch() that has run alone and reached the dongle, each outlet is
\* what it was last set to, but for those last set while no outlet was registered
\* or a missed or misread slot had put the second before the first
\* (JablotronDeviceManager.cpp:302-339 and 565-601).
THEOREM OutletsStaySet == Spec => []OutletsAreSet
<1>1. IInv => OutletsAreSet
  BY DEF IInv, OutletsAreSet, PairIsWanted, PairIsWritten, Output
<1> QED
  BY <1>1, Invariant, PTL
=============================================================================
