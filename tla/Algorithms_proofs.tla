--------------------------- MODULE Algorithms_proofs --------------------------
(***************************************************************************)
(* What the run of MCAlgorithms asks of the inputs it chooses, for inputs   *)
(* of any size.  What an export contains is in ExportRange_proofs; here it  *)
(* is brought to the recordings of the run.                                *)
(*                                                                         *)
(* For a week of any number of minutes and any windows, the verdict of     *)
(* recording_schedule.py is what its windows mean.                         *)
(*                                                                         *)
(* For a history of any number of minutes, the report of                   *)
(* health_reliability.py finds the gaps, blames what caused them, passes   *)
(* only who has earned it, and its headline agrees with its list.          *)
(*                                                                         *)
(* For every camera the views of its present state differ in the known     *)
(* cases only, and for any finite set of samples the timeline adds up.     *)
(***************************************************************************)
EXTENDS MCAlgorithms, ExportRange_proofs

-----------------------------------------------------------------------------
(* The weekly windows (RecordingWindows)                                   *)
\* A minute of the week is one of a day's minutes, in one way.
LEMMA DayAndMinute ==
  ASSUME NEW now \in Week
  PROVE  /\ DayOf(now) \in Days /\ MinuteOf(now) \in Minutes
         /\ now = DayOf(now) * DayLength + MinuteOf(now)
BY DayLengthAssumption, SMTT(30) DEF Week, Days, Minutes, DayOf, MinuteOf

\* The other way round: what a day and a minute make has them back.
LEMMA OneWay ==
  ASSUME NEW now \in Week, NEW day \in Days, NEW minute \in Minutes,
         now = day * DayLength + minute
  PROVE  DayOf(now) = day /\ MinuteOf(now) = minute
BY DayLengthAssumption, SMTT(30) DEF Week, Days, Minutes, DayOf, MinuteOf

\* Remainders of what is less than the divisor, or than twice it.
LEMMA Rest ==
  ASSUME NEW n \in Nat \ {0}, NEW x \in Nat
  PROVE  /\ x < n => x % n = x
         /\ n <= x /\ x < 2 * n => x % n = x - n
BY SMTT(30)

\* The day before Monday is Sunday.
LEMMA DayBeforeMonday ==
  ASSUME NEW d \in Int, d < 0, d >= -7
  PROVE  d % 7 = d + 7
BY SMTT(30)

\* How long a window lasts, without a remainder.
LEMMA LengthOf ==
  ASSUME NEW w, w.start \in Minutes, w.end \in Minutes, w.start # w.end
  PROVE  Length(w) = IF w.start < w.end THEN w.end - w.start
                                        ELSE w.end - w.start + DayLength
BY DayLengthAssumption, SMTT(30) DEF Minutes, Length

\* The k-th minute of a window that begins on a day: of that day, or, past
\* midnight, of the one that follows it in the week.
LEMMA MinuteOfWindow ==
  ASSUME NEW day \in Days, NEW start \in Minutes, NEW k \in 0..(DayLength - 1),
         NEW now, now = (day * DayLength + start + k) % (7 * DayLength)
  PROVE  /\ start + k < DayLength =>
              now \in Week /\ DayOf(now) = day /\ MinuteOf(now) = start + k
         /\ start + k >= DayLength =>
              /\ now \in Week /\ (DayOf(now) - 1) % 7 = day
              /\ MinuteOf(now) = start + k - DayLength
<1> DEFINE x == day * DayLength + start + k
           n == 7 * DayLength
<1>1. /\ DayLength \in Nat \ {0} /\ n \in Nat \ {0} /\ start \in Nat /\ k \in Nat
      /\ start < DayLength /\ k < DayLength /\ day \in 0..6
  BY DayLengthAssumption DEF Days, Minutes
<1>2. x \in Nat /\ day * DayLength \in Nat /\ day * DayLength <= 6 * DayLength
  <2>1. day \in {0, 1, 2, 3, 4, 5, 6}
    BY <1>1
  <2> QED BY <1>1, <2>1
<1>3. ASSUME start + k < DayLength
      PROVE  now \in Week /\ DayOf(now) = day /\ MinuteOf(now) = start + k
  <2>1. x < n
    BY <1>1, <1>2, <1>3
  <2>2. now = day * DayLength + (start + k)
    <3>1. x % n = x
      <4> HIDE DEF x, n
      <4> QED BY <1>1, <1>2, <2>1, Rest
    <3> QED BY <1>1, <1>2, <3>1
  <2>3. now \in Week /\ start + k \in Minutes
    BY <1>1, <1>2, <1>3, <2>1, <2>2 DEF Week, Minutes
  <2> QED BY <2>2, <2>3, OneWay
<1>4. ASSUME start + k >= DayLength
      PROVE  /\ now \in Week /\ (DayOf(now) - 1) % 7 = day
             /\ MinuteOf(now) = start + k - DayLength
  <2> DEFINE m == start + k - DayLength
  <2>1. m \in Minutes /\ x = (day + 1) * DayLength + m
    <3>1. day \in {0, 1, 2, 3, 4, 5, 6}
      BY <1>1
    <3> QED BY <1>1, <1>4, <3>1 DEF Minutes
  <2>2. CASE day = 6
    <3>1. x = n + m
      BY <1>1, <2>1, <2>2 DEF Minutes
    <3>2. now = m
      <4>1. n <= x /\ x < 2 * n /\ x - n = m
        BY <1>1, <2>1, <3>1 DEF Minutes
      <4>2. x % n = x - n
        <5> HIDE DEF x, n
        <5> QED BY <1>1, <1>2, <4>1, Rest
      <4> QED BY <4>1, <4>2
    <3>3. now \in Week /\ now = 0 * DayLength + m
      BY <1>1, <2>1, <3>2 DEF Week, Minutes
    <3>4. DayOf(now) = 0 /\ MinuteOf(now) = m
      BY <2>1, <3>3, OneWay DEF Days
    <3> QED BY <2>2, <3>3, <3>4
  <2>3. CASE day < 6
    <3>1. x < n
      <4>1. day \in {0, 1, 2, 3, 4, 5}
        BY <1>1, <2>3
      <4> QED BY <1>1, <2>1, <4>1 DEF Minutes
    <3>2. now = (day + 1) * DayLength + m
      BY <1>1, <1>2, <2>1, <3>1, Rest
    <3>3. now \in Week
      BY <1>1, <1>2, <2>1, <3>1, <3>2 DEF Week
    <3>4. DayOf(now) = day + 1 /\ MinuteOf(now) = m
      <4>1. day + 1 \in Days
        BY <1>1, <2>3 DEF Days
      <4> QED BY <2>1, <3>2, <3>3, <4>1, OneWay
    <3> QED BY <1>1, <3>3, <3>4, Rest
  <2> QED BY <1>1, <2>2, <2>3
<1> QED BY <1>3, <1>4

\* What is right of one window.
LEMMA WindowRight ==
  ASSUME NEW w, w.days \subseteq Days, w.start \in Minutes, w.end \in Minutes,
         w.start # w.end, NEW now \in Week
  PROVE  Covers(w, now) <=> Within(w, now)
<1>1. /\ DayLength \in Nat \ {0} /\ w.start \in Nat /\ w.end \in Nat
      /\ w.start < DayLength /\ w.end < DayLength
  BY DayLengthAssumption DEF Minutes
<1>2. /\ DayOf(now) \in 0..6 /\ MinuteOf(now) \in 0..(DayLength - 1)
      /\ now = DayOf(now) * DayLength + MinuteOf(now)
  BY DayAndMinute DEF Days, Minutes
<1>3. 0..(Length(w) - 1) \subseteq 0..(DayLength - 1)
  BY <1>1, LengthOf
<1>4. ASSUME Within(w, now)
      PROVE  Covers(w, now)
  <2>1. PICK day \in w.days, k \in 0..(Length(w) - 1) :
           now = (day * DayLength + w.start + k) % (7 * DayLength)
    BY <1>4 DEF Within
  <2>2. day \in Days /\ k \in 0..(DayLength - 1) /\ k < Length(w) /\ k \in Nat
    BY <1>1, <1>3, <2>1, LengthOf
  <2>3. CASE w.start + k < DayLength
    <3>1. DayOf(now) = day /\ MinuteOf(now) = w.start + k
      BY <2>1, <2>2, <2>3, MinuteOfWindow
    <3> QED BY <1>1, <2>1, <2>2, <3>1, LengthOf DEF Covers
  <2>4. CASE w.start + k >= DayLength
    <3>1. (DayOf(now) - 1) % 7 = day /\ MinuteOf(now) = w.start + k - DayLength
      BY <2>1, <2>2, <2>4, MinuteOfWindow
    <3>2. ~(w.start < w.end) /\ w.start + k - DayLength < w.end
      BY <1>1, <2>2, <2>4, LengthOf
    <3> QED BY <2>1, <3>1, <3>2 DEF Covers
  <2> QED BY <1>1, <2>2, <2>3, <2>4
<1>5. ASSUME Covers(w, now)
      PROVE  Within(w, now)
  <2>1. CASE DayOf(now) \in w.days /\ w.start <= MinuteOf(now)
               /\ (w.start < w.end => MinuteOf(now) < w.end)
    <3> DEFINE k == MinuteOf(now) - w.start
    <3>1. k \in 0..(Length(w) - 1)
      BY <1>1, <1>2, <2>1, LengthOf
    <3>2. now = DayOf(now) * DayLength + w.start + k
      <4>1. DayOf(now) \in {0, 1, 2, 3, 4, 5, 6}
        BY <1>2
      <4> QED BY <1>1, <1>2, <4>1
    <3>3. now \in Nat /\ now < 7 * DayLength /\ 7 * DayLength \in Nat \ {0}
      BY <1>1 DEF Week
    <3>4. now = now % (7 * DayLength)
      BY <3>3, Rest
    <3> HIDE DEF k
    <3> QED BY <2>1, <3>1, <3>2, <3>4 DEF Within
  <2>2. CASE /\ ~(w.start < w.end) /\ (DayOf(now) - 1) % 7 \in w.days
             /\ MinuteOf(now) < w.end
    <3> DEFINE day == (DayOf(now) - 1) % 7
               k == MinuteOf(now) + DayLength - w.start
               x == day * DayLength + w.start + k
    <3>1. k \in 0..(Length(w) - 1)
      BY <1>1, <1>2, <2>2, LengthOf
    <3>2. (DayOf(now) = 0 /\ day = 6) \/ (DayOf(now) \in 1..6 /\ day = DayOf(now) - 1)
      <4>1. CASE DayOf(now) = 0
        <5> DEFINE d == DayOf(now) - 1
        <5>1. d \in Int /\ d < 0 /\ d >= -7 /\ d + 7 = 6
          BY <4>1
        <5>2. d % 7 = d + 7
          <6> HIDE DEF d
          <6> QED BY <5>1, DayBeforeMonday
        <5> QED BY <4>1, <5>1, <5>2
      <4>2. CASE DayOf(now) \in 1..6
        BY <4>2, Rest
      <4> QED BY <1>2, <4>1, <4>2
    <3>3. x = now \/ x = now + 7 * DayLength
      <4>1. DayOf(now) \in {0, 1, 2, 3, 4, 5, 6}
        BY <1>2
      <4> QED BY <1>1, <1>2, <3>2, <4>1
    <3>4. now \in Nat /\ now < 7 * DayLength /\ 7 * DayLength \in Nat \ {0}
      BY <1>1 DEF Week
    <3>5. x % (7 * DayLength) = now
      <4>1. x \in Nat
        BY <3>3, <3>4
      <4> HIDE DEF x
      <4> QED BY <3>3, <3>4, <4>1, Rest
    <3> HIDE DEF k, day
    <3> QED BY <2>2, <3>1, <3>5 DEF Within, day
  <2> QED BY <1>1, <1>2, <1>5, <2>1, <2>2 DEF Covers
<1> QED BY <1>4, <1>5

\* Whatever the length of a day, whatever the windows, valid or not: the
\* camera may record in exactly the minutes its windows mean.
THEOREM WindowsRightAlways ==
  ASSUME NEW enabled \in BOOLEAN,
         NEW windows \in SUBSET [days : SUBSET Int, start : Int, end : Int]
  PROVE  WindowsMeant(enabled, windows)
<1>1. ASSUME NEW w \in Normalized(windows)
      PROVE  /\ w.days \subseteq Days /\ w.start \in Minutes /\ w.end \in Minutes
             /\ w.start # w.end
  BY <1>1 DEF Normalized, StartDays
<1>2. ASSUME NEW now \in Week, NEW w \in Normalized(windows)
      PROVE  Covers(w, now) <=> Within(w, now)
  BY <1>1, <1>2, WindowRight
<1> QED BY <1>2 DEF WindowsMeant, Allows

\* What the cases with windows are about: windows, of which some are invalid.
WindowsChosen ==
    Is("windows") => /\ case[2] \in BOOLEAN
                     /\ case[3] \in SUBSET [days : SUBSET Int, start : Int, end : Int]

\* Only WindowsCase chooses windows.
LEMMA OnlyWindows ==
  ASSUME Next PROVE WindowsChosen'
<1>1. CASE ExportCase BY <1>1 DEF ExportCase, WindowsChosen, Is
<1>2. CASE StoryCase BY <1>2 DEF StoryCase, WindowsChosen, Is
<1>3. CASE CameraCase BY <1>3 DEF CameraCase, WindowsChosen, Is
<1>4. CASE SamplesCase BY <1>4 DEF SamplesCase, WindowsChosen, Is
<1>5. CASE WindowsCase
  <2>1. PICK w \in Window, others \in SUBSET {Sunday}, enabled \in BOOLEAN :
            case' = <<"windows", enabled, {w} \cup others>>
    BY <1>5 DEF WindowsCase
  <2>2. /\ w \in [days : SUBSET Int, start : Int, end : Int]
        /\ Sunday \in [days : SUBSET Int, start : Int, end : Int]
    <3>1. Minutes \subseteq Int /\ Days \subseteq Int /\ Legacy \subseteq Int /\ Invalid \in Int
      BY DayLengthAssumption DEF Minutes, Days, Legacy, Invalid
    <3>2. w.days \subseteq Int /\ w.start \in Int /\ w.end \in Int
      BY <3>1 DEF Window
    <3>3. w = [days |-> w.days, start |-> w.start, end |-> w.end]
      BY DEF Window
    <3> QED BY <3>2, <3>3 DEF Sunday
  <2>3. case'[2] = enabled /\ case'[3] = {w} \cup others
    BY <2>1
  <2> QED BY <2>2, <2>3 DEF WindowsChosen
<1> QED BY <1>1, <1>2, <1>3, <1>4, <1>5 DEF Next

\* The windows a user may enter mean the minutes they say: WindowsRight, for
\* days of any length.
THEOREM WindowsAreRight == Spec => []WindowsRight
<1>1. Init => WindowsChosen BY DEF Init, WindowsChosen, Is
<1>2. WindowsChosen /\ [Next]_case => WindowsChosen'
  BY OnlyWindows DEF WindowsChosen, Is
<1>3. WindowsChosen => WindowsRight
  BY WindowsRightAlways DEF WindowsChosen, WindowsRight
<1> QED BY <1>1, <1>2, <1>3, PTL DEF Spec

-----------------------------------------------------------------------------
(* Numbers                                                                 *)
LEMMA LargestNumber ==
  ASSUME NEW n \in Nat, NEW S, S \subseteq 0..n, S # {}
  PROVE  \E m \in S : \A k \in S : k <= m
<1> DEFINE T == {n - k : k \in S}
<1>0. \A k \in S : k \in Nat /\ n - k \in Nat
  OBVIOUS
<1>1. T \subseteq Nat /\ T # {}
  BY <1>0
<1>2. PICK x \in T : \A y \in T : x <= y
  BY <1>1, LeastNumber
<1>3. PICK m \in S : x = n - m
  OBVIOUS
<1>4. \A k \in S : n - m <= n - k
  BY <1>2, <1>3
<1> QED BY <1>4

-----------------------------------------------------------------------------
(* The report of the past (HealthReliability)                              *)
\* What StoryCase chooses: before the camera is there, nothing runs for it.
IsStory(story, created) ==
  /\ story \in [Health!Minutes -> Health!Kinds] /\ created \in Health!Minutes
  /\ \A t \in 0..(created - 1) : story[t] = "off"

\* The minutes with footage, and the spans between them that have none.
Filmed(story) == {t \in Health!Minutes : story[t] \in {"ok", "damaged"}}
Hole(story, a, b) ==
  /\ a \in Nat \ {0} /\ b \in Filmed(story) /\ a - 1 \in Filmed(story) /\ a < b
  /\ \A t \in a..(b - 1) : t \notin Filmed(story)

\* A minute as a recording, and as footage.
Recorded(story, t) == [start |-> t, end |-> t + 1, whole |-> story[t] = "ok"]
MinuteClip(t) == [start |-> t, end |-> t + 1]

LEMMA MinutesAre ==
  /\ Now \in Nat \ {0} /\ Health!Minutes \subseteq Nat
  /\ \A t : t \in Health!Minutes <=> t \in Nat /\ t < Now
BY HealthAssumption DEF Health!Minutes

LEMMA HistoryFields ==
  ASSUME NEW story, NEW created
  PROVE  LET h == Health!HistoryOf(story, created) IN
         /\ h.monitored = TRUE /\ h.created = created
         /\ \A r : r \in h.recordings <=>
              \E t \in Filmed(story) : r = Recorded(story, t)
         /\ h.samples = Health!Sampled(story) /\ h.events = Health!Written(story)
         /\ h.offline = IF story[Now - 1] = "down" THEN Health!RunStart(story, Now - 1)
                        ELSE Health!Never
BY DEF Health!HistoryOf, Filmed, Recorded

LEMMA FootageIs ==
  ASSUME NEW story, NEW created, IsStory(story, created)
  PROVE  LET footage == Health!Footage(Health!HistoryOf(story, created)) IN
         /\ \A i : i \in footage <=> \E t \in Filmed(story) : i = MinuteClip(t)
         /\ \A i \in footage : \E t \in Filmed(story) : i.start = t /\ i.end = t + 1
         /\ \A t \in Filmed(story) : \E i \in footage : i.start = t /\ i.end = t + 1
<1> DEFINE h == Health!HistoryOf(story, created)
           Cut(r) == [start |-> Health!Later(r.start, created), end |-> Health!Sooner(r.end, Now)]
<1>0. /\ h.created = created
      /\ \A r : r \in h.recordings <=> \E t \in Filmed(story) : r = Recorded(story, t)
  BY HistoryFields
<1>1. Health!ObservationStart(h) = created
  <2>1. created \in Nat
    BY MinutesAre DEF IsStory
  <2> HIDE DEF h
  <2> QED BY <1>0, <2>1 DEF Health!ObservationStart, Health!Later
<1>2. ASSUME NEW t \in Filmed(story)
      PROVE  /\ t \in Nat /\ t < Now /\ created <= t
             /\ Health!Later(t, created) = t /\ Health!Sooner(t + 1, Now) = t + 1
  <2>1. t \in Nat /\ t < Now /\ story[t] # "off" /\ created \in Nat
    BY MinutesAre DEF Filmed, IsStory
  <2>2. ~(t < created)
    BY <2>1 DEF IsStory
  <2> QED BY <2>1, <2>2, MinutesAre DEF Health!Later, Health!Sooner
<1>3. \A t \in Filmed(story) : Cut(Recorded(story, t)) = MinuteClip(t) /\ t + 1 > t
  <2>1. ASSUME NEW t \in Filmed(story)
        PROVE  Cut(Recorded(story, t)) = MinuteClip(t) /\ t + 1 > t
    <3>1. Recorded(story, t).start = t /\ Recorded(story, t).end = t + 1
      BY DEF Recorded
    <3> QED BY <1>2, <3>1 DEF MinuteClip
  <2> QED BY <2>1
<1>4. \A i : i \in Health!Footage(h) <=> i.end > i.start /\ \E r \in h.recordings : i = Cut(r)
  BY <1>1 DEF Health!Footage
<1> HIDE DEF h, Cut
<1>5. \A t : MinuteClip(t).start = t /\ MinuteClip(t).end = t + 1
  BY DEF MinuteClip
<1> QED BY <1>0, <1>3, <1>4, <1>5 DEF h

LEMMA FilmedIs ==
  ASSUME NEW story, NEW created, IsStory(story, created)
  PROVE  /\ Health!Filmed(Health!HistoryOf(story, created)) = Filmed(story)
         /\ Filmed(story) \subseteq Nat
<1> DEFINE h == Health!HistoryOf(story, created)
<1>1. ASSUME NEW t \in Filmed(story)
      PROVE  t \in Nat /\ t..((t + 1) - 1) = {t}
  BY MinutesAre DEF Filmed
<1>2. \A t : t \in Health!Filmed(h) <=> \E i \in Health!Footage(h) : t \in i.start..(i.end - 1)
  BY DEF Health!Filmed
<1>3. /\ \A i \in Health!Footage(h) : \E t \in Filmed(story) : i.start = t /\ i.end = t + 1
      /\ \A t \in Filmed(story) : \E i \in Health!Footage(h) : i.start = t /\ i.end = t + 1
  BY FootageIs
<1> HIDE DEF h
<1>4. \A t : t \in Health!Filmed(h) <=> \E u \in Filmed(story) : t \in u..((u + 1) - 1)
  BY <1>2, <1>3
<1>5. Health!Filmed(h) = Filmed(story)
  BY <1>1, <1>4
<1> QED BY <1>1, <1>5 DEF h

LEMMA HolesAre ==
  ASSUME NEW story, NEW created, IsStory(story, created)
  PROVE  /\ \A h \in Health!Holes(Health!HistoryOf(story, created)) :
              h = [start |-> h.start, end |-> h.end] /\ Hole(story, h.start, h.end)
         /\ \A a, b : Hole(story, a, b) =>
              [start |-> a, end |-> b] \in Health!Holes(Health!HistoryOf(story, created))
<1> DEFINE h == Health!HistoryOf(story, created)
           ends == {i.end : i \in Health!Footage(h)}
           starts == {i.start : i \in Health!Footage(h)}
<1>1. /\ \A i \in Health!Footage(h) : \E t \in Filmed(story) : i.start = t /\ i.end = t + 1
      /\ \A t \in Filmed(story) : \E i \in Health!Footage(h) : i.start = t /\ i.end = t + 1
  BY FootageIs
<1>2. Health!Filmed(h) = Filmed(story) /\ Filmed(story) \subseteq Nat
  BY FilmedIs
<1>3. Health!Holes(h) = {g \in [start : ends, end : starts] :
          g.start < g.end /\ g.start..(g.end - 1) \cap Filmed(story) = {}}
  BY <1>2 DEF Health!Holes
<1> HIDE DEF h
<1>6. /\ \A e : e \in ends <=> \E t \in Filmed(story) : e = t + 1
      /\ \A e : e \in starts <=> e \in Filmed(story)
  BY <1>1
<1> HIDE DEF ends, starts
<1>4. ASSUME NEW g \in Health!Holes(h)
      PROVE  g = [start |-> g.start, end |-> g.end] /\ Hole(story, g.start, g.end)
  <2>1. g \in [start : ends, end : starts] /\ g.start < g.end
        /\ g.start..(g.end - 1) \cap Filmed(story) = {}
    BY <1>3
  <2>2. PICK t \in Filmed(story) : g.start = t + 1
    BY <2>1, <1>6
  <2>3. g.start - 1 = t /\ g.start \in Nat \ {0} /\ g.end \in Filmed(story)
    BY <2>1, <2>2, <1>2, <1>6
  <2> QED BY <2>1, <2>2, <2>3 DEF Hole
<1>5. ASSUME NEW a, NEW b, Hole(story, a, b)
      PROVE  [start |-> a, end |-> b] \in Health!Holes(h)
  <2>1. a = (a - 1) + 1 /\ a - 1 \in Filmed(story)
    BY <1>5 DEF Hole
  <2>2. a \in ends /\ b \in starts
    BY <2>1, <1>5, <1>6 DEF Hole
  <2> QED BY <2>2, <1>3, <1>5 DEF Hole
<1> QED BY <1>4, <1>5 DEF h

\* A minute without footage between two that have some is in a hole.
LEMMA HoleAround ==
  ASSUME NEW story, NEW created, IsStory(story, created),
         NEW t \in Health!Minutes, t \notin Filmed(story),
         NEW u \in Filmed(story), u < t, NEW v \in Filmed(story), t < v
  PROVE  \E a, b \in Nat : Hole(story, a, b) /\ t \in a..(b - 1)
<1> DEFINE before == {x \in Filmed(story) : x < t}
           after == {x \in Filmed(story) : t < x}
<1>1. Filmed(story) \subseteq Nat /\ t \in Nat
  BY FilmedIs, MinutesAre
<1>2. PICK x \in before : \A y \in before : y <= x
  <2>1. before \subseteq 0..t /\ before # {}
    BY <1>1
  <2> QED BY <2>1, <1>1, LargestNumber
<1>3. PICK z \in after : \A y \in after : z <= y
  <2>1. after \subseteq Nat /\ after # {}
    BY <1>1
  <2> QED BY <2>1, LeastNumber
<1>4. ASSUME NEW y \in (x + 1)..(z - 1)
      PROVE  y \notin Filmed(story)
  <2>1. CASE y < t BY <2>1, <1>1, <1>2, <1>4
  <2>2. CASE y = t BY <2>2
  <2>3. CASE y > t BY <2>3, <1>1, <1>3, <1>4
  <2> QED BY <2>1, <2>2, <2>3, <1>1
<1>5. Hole(story, x + 1, z)
  BY <1>1, <1>4 DEF Hole
<1> QED BY <1>5, <1>1

-----------------------------------------------------------------------------
(* What the rest of the program writes of a story.                         *)
SampleOf(story, t) ==
  [at |-> t, expected |-> story[t] # "idle", recording |-> story[t] \notin {"idle", "down"}]

LEMMA SampledAre ==
  ASSUME NEW story
  PROVE  /\ \A s : s \in Health!Sampled(story) <=>
              \E t \in Health!Minutes : story[t] # "off" /\ s = SampleOf(story, t)
         /\ \A t : /\ SampleOf(story, t).at = t
                   /\ (SampleOf(story, t).expected <=> story[t] # "idle")
                   /\ (SampleOf(story, t).recording <=> story[t] \notin {"idle", "down"})
BY DEF Health!Sampled, SampleOf

\* What was sampled in a span without footage: nothing, or only what was not
\* expected, or a minute in which a recording was missing.
LEMMA SamplesOfHole ==
  ASSUME NEW story, NEW created, IsStory(story, created), NEW g, g.start \in Nat, g.end \in Nat
  PROVE  LET within == Health!SamplesIn(g, Health!HistoryOf(story, created)) IN
         /\ \A s \in within : \E t \in Health!Minutes :
              g.start <= t /\ t < g.end /\ story[t] # "off" /\ s = SampleOf(story, t)
         /\ \A t \in Health!Minutes : g.start <= t /\ t < g.end /\ story[t] # "off" =>
              SampleOf(story, t) \in within
         /\ \A s : s \in Health!Expected(within) <=> s \in within /\ s.expected
<1> DEFINE h == Health!HistoryOf(story, created)
           within == Health!SamplesIn(g, h)
<1>1. h.samples = Health!Sampled(story)
  BY HistoryFields
<1>2. \A s : s \in within <=> s \in Health!Sampled(story) /\ g.start <= s.at /\ s.at < g.end
  BY <1>1 DEF Health!SamplesIn
<1>3. \A s : s \in Health!Expected(within) <=> s \in within /\ s.expected
  BY DEF Health!Expected
<1>4. /\ \A s : s \in Health!Sampled(story) <=>
           \E t \in Health!Minutes : story[t] # "off" /\ s = SampleOf(story, t)
      /\ \A t : SampleOf(story, t).at = t
  BY SampledAre
<1> HIDE DEF within, h
<1>5. ASSUME NEW s \in within
      PROVE  \E t \in Health!Minutes :
               g.start <= t /\ t < g.end /\ story[t] # "off" /\ s = SampleOf(story, t)
  <2>1. PICK t \in Health!Minutes : story[t] # "off" /\ s = SampleOf(story, t)
    BY <1>2, <1>4, <1>5
  <2>2. s.at = t
    BY <2>1, <1>4
  <2> QED BY <2>1, <2>2, <1>2, <1>5
<1>6. ASSUME NEW t \in Health!Minutes, g.start <= t, t < g.end, story[t] # "off"
      PROVE  SampleOf(story, t) \in within
  <2>1. SampleOf(story, t) \in Health!Sampled(story) /\ SampleOf(story, t).at = t
    BY <1>4, <1>6
  <2> QED BY <2>1, <1>2, <1>6
<1> QED BY <1>3, <1>5, <1>6 DEF within, h

\* The first minute of the run that t belongs to.
LEMMA RunStartIs ==
  ASSUME NEW story, NEW t \in Health!Minutes
  PROVE  LET s == Health!RunStart(story, t) IN
         /\ s \in 0..t /\ \A u \in s..t : story[u] = story[t]
         /\ s = 0 \/ story[s - 1] # story[t]
<1> DEFINE Same == {s \in 0..t : \A u \in s..t : story[u] = story[t]}
<1>1. t \in Nat
  BY MinutesAre
<1>2. PICK s \in Same : \A r \in Same : s <= r
  <2>1. t \in Same
    BY <1>1
  <2>2. Same \subseteq Nat
    BY <1>1
  <2> QED BY <2>1, <2>2, LeastNumber
<1>3. s = 0 \/ story[s - 1] # story[t]
  <2> SUFFICES ASSUME s # 0, story[s - 1] = story[t]
               PROVE  FALSE
    OBVIOUS
  <2>1. s - 1 \in 0..t /\ \A u \in (s - 1)..t : u = s - 1 \/ u \in s..t
    BY <1>1
  <2>2. s - 1 \in Same
    BY <2>1
  <2> QED BY <2>2, <1>2, <1>1
<1> QED BY <1>2, <1>3 DEF Health!RunStart

Happening(code, at, from, to) == [code |-> code, at |-> at, from |-> from, to |-> to]
Recovered(story, t) ==
  t > 0 /\ story[t - 1] = "down" /\ story[t] \notin {"down", "off", "idle"}
Restarted(story, t) == t > 0 /\ story[t - 1] = "off" /\ story[t] # "off"

LEMMA WrittenAre ==
  ASSUME NEW story
  PROVE  \A e : e \in Health!Written(story) <=>
           \E t \in Health!Minutes :
             \/ story[t] = "deleted" /\ e = Happening("recording.deleted", Now, t, t + 1)
             \/ story[t] = "lost"
                /\ e = Happening("recording.segment_processing_failed", t + 1, t, t + 1)
             \/ Health!Begins(story, t, "down") /\ e = Happening("camera.ffmpeg_exited", t, t, t)
             \/ /\ Recovered(story, t)
                /\ e = Happening("camera.connection_restored", t, Health!RunStart(story, t - 1), t)
             \/ Restarted(story, t) /\ e = Happening("system.backend_started", t, t, t)
<1>1. Health!Written(story) =
    {Happening("recording.deleted", Now, t, t + 1) : t \in {u \in Health!Minutes : story[u] = "deleted"}} \cup
    {Happening("recording.segment_processing_failed", t + 1, t, t + 1) :
        t \in {u \in Health!Minutes : story[u] = "lost"}} \cup
    {Happening("camera.ffmpeg_exited", t, t, t) : t \in {u \in Health!Minutes : Health!Begins(story, u, "down")}} \cup
    {Happening("camera.connection_restored", t, Health!RunStart(story, t - 1), t) :
        t \in {u \in Health!Minutes : Recovered(story, u)}} \cup
    {Happening("system.backend_started", t, t, t) :
        t \in {u \in Health!Minutes : Restarted(story, u)}}
  BY Zenon DEF Health!Written, Happening, Recovered, Restarted
<1> QED BY <1>1

LEMMA HappeningFields ==
  ASSUME NEW code, NEW at, NEW from, NEW to
  PROVE  LET e == Happening(code, at, from, to) IN
         e.code = code /\ e.at = at /\ e.from = from /\ e.to = to
BY DEF Happening

-----------------------------------------------------------------------------
(* The causes                                                              *)
LEMMA Explanations ==
  ASSUME NEW story, NEW created, IsStory(story, created),
         NEW g, g.start \in Nat, g.end \in Nat
  PROVE  LET causes == Health!Explained(g, Health!HistoryOf(story, created))
             near(t) == g.start - Padding <= t /\ t <= g.end + Padding IN
         /\ causes \subseteq {"manual_deletion", "segment_processing_failed", "camera_offline",
                              "ffmpeg_failure", "backend_restart", "recorder_unavailable"}
         /\ "manual_deletion" \in causes <=>
              \E t \in Health!Minutes : story[t] = "deleted" /\ g.start <= t /\ t < g.end
         /\ "segment_processing_failed" \in causes <=>
              \E t \in Health!Minutes : story[t] = "lost" /\ near(t)
         /\ "camera_offline" \in causes <=>
              \E t \in Health!Minutes :
                 Recovered(story, t) /\ Health!RunStart(story, t - 1) < g.end /\ t > g.start
         /\ "ffmpeg_failure" \in causes <=>
              \E t \in Health!Minutes : Health!Begins(story, t, "down") /\ near(t)
         /\ "backend_restart" \in causes <=>
              \E t \in Health!Minutes : Restarted(story, t) /\ near(t)
         /\ "recorder_unavailable" \in causes <=>
              \E t \in Health!Minutes : story[t] = "down" /\ g.start <= t /\ t < g.end
<1> DEFINE h == Health!HistoryOf(story, created)
           causes == Health!Explained(g, h)
           near(t) == g.start - Padding <= t /\ t <= g.end + Padding
           within == Health!SamplesIn(g, h)
<1>1. h.events = Health!Written(story)
  BY HistoryFields
<1>2. /\ causes \subseteq {"manual_deletion", "segment_processing_failed", "camera_offline",
                          "ffmpeg_failure", "backend_restart", "recorder_unavailable"}
      /\ "manual_deletion" \in causes <=>
           \E e \in Health!Written(story) : e.code = "recording.deleted" /\ Health!Overlapping(e, g)
      /\ "segment_processing_failed" \in causes <=>
           \E e \in Health!Written(story) :
              e.code = "recording.segment_processing_failed" /\ Health!Near(e.from, g)
      /\ "camera_offline" \in causes <=>
           \E e \in Health!Written(story) :
              e.code = "camera.connection_restored" /\ Health!Overlapping(e, g)
      /\ "ffmpeg_failure" \in causes <=>
           \E e \in Health!Written(story) : e.code = "camera.ffmpeg_exited" /\ Health!Near(e.at, g)
      /\ "backend_restart" \in causes <=>
           \E e \in Health!Written(story) :
              e.code = "system.backend_started" /\ Health!Near(e.at, g)
      /\ "recorder_unavailable" \in causes <=> \E s \in Health!Expected(within) : ~s.recording
  <2> HIDE DEF h
  <2> QED BY <1>1 DEF Health!Explained
<1>3. \A t : Health!Near(t, g) <=> near(t)
  BY DEF Health!Near
<1>4. \A e : Health!Overlapping(e, g) <=> e.from < g.end /\ e.to > g.start
  BY DEF Health!Overlapping
<1>5. /\ \A t \in Health!Minutes : story[t] = "deleted" =>
            Happening("recording.deleted", Now, t, t + 1) \in Health!Written(story)
      /\ \A t \in Health!Minutes : story[t] = "lost" =>
            Happening("recording.segment_processing_failed", t + 1, t, t + 1) \in Health!Written(story)
      /\ \A t \in Health!Minutes : Health!Begins(story, t, "down") =>
            Happening("camera.ffmpeg_exited", t, t, t) \in Health!Written(story)
      /\ \A t \in Health!Minutes : Recovered(story, t) =>
            Happening("camera.connection_restored", t, Health!RunStart(story, t - 1), t)
               \in Health!Written(story)
      /\ \A t \in Health!Minutes : Restarted(story, t) =>
            Happening("system.backend_started", t, t, t) \in Health!Written(story)
  BY WrittenAre
<1>6. \A e \in Health!Written(story) : \E t \in Health!Minutes :
        \/ story[t] = "deleted" /\ e.code = "recording.deleted" /\ e.from = t /\ e.to = t + 1
        \/ story[t] = "lost" /\ e.code = "recording.segment_processing_failed" /\ e.from = t
        \/ Health!Begins(story, t, "down") /\ e.code = "camera.ffmpeg_exited" /\ e.at = t
        \/ /\ Recovered(story, t) /\ e.code = "camera.connection_restored"
           /\ e.from = Health!RunStart(story, t - 1) /\ e.to = t
        \/ Restarted(story, t) /\ e.code = "system.backend_started" /\ e.at = t
  <2> SUFFICES ASSUME NEW e \in Health!Written(story)
      PROVE \E t \in Health!Minutes :
        \/ story[t] = "deleted" /\ e.code = "recording.deleted" /\ e.from = t /\ e.to = t + 1
        \/ story[t] = "lost" /\ e.code = "recording.segment_processing_failed" /\ e.from = t
        \/ Health!Begins(story, t, "down") /\ e.code = "camera.ffmpeg_exited" /\ e.at = t
        \/ /\ Recovered(story, t) /\ e.code = "camera.connection_restored"
           /\ e.from = Health!RunStart(story, t - 1) /\ e.to = t
        \/ Restarted(story, t) /\ e.code = "system.backend_started" /\ e.at = t
    OBVIOUS
  <2>1. PICK t \in Health!Minutes :
             \/ story[t] = "deleted" /\ e = Happening("recording.deleted", Now, t, t + 1)
             \/ story[t] = "lost"
                /\ e = Happening("recording.segment_processing_failed", t + 1, t, t + 1)
             \/ Health!Begins(story, t, "down") /\ e = Happening("camera.ffmpeg_exited", t, t, t)
             \/ /\ Recovered(story, t)
                /\ e = Happening("camera.connection_restored", t, Health!RunStart(story, t - 1), t)
             \/ Restarted(story, t) /\ e = Happening("system.backend_started", t, t, t)
    BY WrittenAre
  <2> QED BY <2>1, HappeningFields
<1>7. /\ \A s \in within : \E t \in Health!Minutes :
            g.start <= t /\ t < g.end /\ story[t] # "off" /\ s = SampleOf(story, t)
      /\ \A t \in Health!Minutes : g.start <= t /\ t < g.end /\ story[t] # "off" =>
            SampleOf(story, t) \in within
      /\ \A s : s \in Health!Expected(within) <=> s \in within /\ s.expected
  BY SamplesOfHole
<1>8. \A t : /\ (SampleOf(story, t).expected <=> story[t] # "idle")
             /\ (SampleOf(story, t).recording <=> story[t] \notin {"idle", "down"})
  BY SampledAre
<1>9. Health!Minutes \subseteq Nat
  BY MinutesAre
<1> HIDE DEF causes, within, h
<1>10. "manual_deletion" \in causes <=>
         \E t \in Health!Minutes : story[t] = "deleted" /\ g.start <= t /\ t < g.end
  <2>1. ASSUME NEW t \in Health!Minutes, story[t] = "deleted", g.start <= t, t < g.end
        PROVE  "manual_deletion" \in causes
    BY <2>1, <1>2, <1>4, <1>5, <1>9, HappeningFields
  <2>2. ASSUME NEW e \in Health!Written(story), e.code = "recording.deleted",
               Health!Overlapping(e, g)
        PROVE  \E t \in Health!Minutes : story[t] = "deleted" /\ g.start <= t /\ t < g.end
    <3>1. PICK t \in Health!Minutes : story[t] = "deleted" /\ e.from = t /\ e.to = t + 1
      BY <2>2, <1>6
    <3> QED BY <3>1, <2>2, <1>4, <1>9
  <2> QED BY <2>1, <2>2, <1>2
<1>11. "segment_processing_failed" \in causes <=>
         \E t \in Health!Minutes : story[t] = "lost" /\ near(t)
  <2> HIDE DEF near
  <2>1. ASSUME NEW t \in Health!Minutes, story[t] = "lost", near(t)
        PROVE  "segment_processing_failed" \in causes
    BY <2>1, <1>2, <1>3, <1>5, HappeningFields
  <2>2. ASSUME NEW e \in Health!Written(story), e.code = "recording.segment_processing_failed",
               Health!Near(e.from, g)
        PROVE  \E t \in Health!Minutes : story[t] = "lost" /\ near(t)
    BY <2>2, <1>3, <1>6
  <2> QED BY <2>1, <2>2, <1>2
<1>12. "camera_offline" \in causes <=>
         \E t \in Health!Minutes :
            Recovered(story, t) /\ Health!RunStart(story, t - 1) < g.end /\ t > g.start
  <2>1. ASSUME NEW t \in Health!Minutes, Recovered(story, t),
               Health!RunStart(story, t - 1) < g.end, t > g.start
        PROVE  "camera_offline" \in causes
    BY <2>1, <1>2, <1>4, <1>5, HappeningFields
  <2>2. ASSUME NEW e \in Health!Written(story), e.code = "camera.connection_restored",
               Health!Overlapping(e, g)
        PROVE  \E t \in Health!Minutes :
                 Recovered(story, t) /\ Health!RunStart(story, t - 1) < g.end /\ t > g.start
    BY <2>2, <1>4, <1>6
  <2> QED BY <2>1, <2>2, <1>2
<1>13. "ffmpeg_failure" \in causes <=>
         \E t \in Health!Minutes : Health!Begins(story, t, "down") /\ near(t)
  <2> HIDE DEF near
  <2>1. ASSUME NEW t \in Health!Minutes, Health!Begins(story, t, "down"), near(t)
        PROVE  "ffmpeg_failure" \in causes
    BY <2>1, <1>2, <1>3, <1>5, HappeningFields
  <2>2. ASSUME NEW e \in Health!Written(story), e.code = "camera.ffmpeg_exited",
               Health!Near(e.at, g)
        PROVE  \E t \in Health!Minutes : Health!Begins(story, t, "down") /\ near(t)
    BY <2>2, <1>3, <1>6
  <2> QED BY <2>1, <2>2, <1>2
<1>14. "backend_restart" \in causes <=>
         \E t \in Health!Minutes : Restarted(story, t) /\ near(t)
  <2> HIDE DEF near
  <2>1. ASSUME NEW t \in Health!Minutes, Restarted(story, t), near(t)
        PROVE  "backend_restart" \in causes
    BY <2>1, <1>2, <1>3, <1>5, HappeningFields
  <2>2. ASSUME NEW e \in Health!Written(story), e.code = "system.backend_started",
               Health!Near(e.at, g)
        PROVE  \E t \in Health!Minutes : Restarted(story, t) /\ near(t)
    BY <2>2, <1>3, <1>6
  <2> QED BY <2>1, <2>2, <1>2
<1>15. "recorder_unavailable" \in causes <=>
         \E t \in Health!Minutes : story[t] = "down" /\ g.start <= t /\ t < g.end
  <2>1. ASSUME NEW t \in Health!Minutes, story[t] = "down", g.start <= t, t < g.end
        PROVE  "recorder_unavailable" \in causes
    <3>1. SampleOf(story, t) \in within /\ SampleOf(story, t).expected
          /\ ~SampleOf(story, t).recording
      BY <2>1, <1>7, <1>8
    <3> QED BY <3>1, <1>2, <1>7
  <2>2. ASSUME NEW s \in Health!Expected(within), ~s.recording
        PROVE  \E t \in Health!Minutes : story[t] = "down" /\ g.start <= t /\ t < g.end
    <3>1. s \in within /\ s.expected
      BY <1>7
    <3>2. PICK t \in Health!Minutes : g.start <= t /\ t < g.end /\ s = SampleOf(story, t)
      BY <3>1, <1>7
    <3> QED BY <3>1, <3>2, <2>2, <1>8
  <2> QED BY <2>1, <2>2, <1>2
<1> QED BY <1>2, <1>10, <1>11, <1>12, <1>13, <1>14, <1>15 DEF causes, h

\* The first cause of the list is blamed, or none.
LEMMA Blamed ==
  ASSUME NEW g, NEW history
  PROVE  LET cause == Health!Cause(g, history)
             causes == Health!Explained(g, history)
             sampled == Health!SamplesIn(g, history) IN
         /\ cause = "none" <=> sampled # {} /\ Health!Expected(sampled) = {}
         /\ cause # "none" =>
              /\ cause \in causes \cup {"unknown"}
              /\ cause \in {"manual_deletion", "segment_processing_failed", "camera_offline",
                            "ffmpeg_failure", "backend_restart", "recorder_unavailable", "unknown"}
              /\ "manual_deletion" \in causes => cause = "manual_deletion"
              /\ cause = "unknown" =>
                   causes \cap {"manual_deletion", "segment_processing_failed", "camera_offline",
                         "ffmpeg_failure", "backend_restart", "recorder_unavailable"} = {}
<1> DEFINE causes == Health!Explained(g, history) \cup {"unknown"}
           listed == {i \in 1..7 : Health!Priority[i] \in causes}
           First(i) == Health!Priority[i] \in causes
                       /\ \A j \in 1..(i - 1) : Health!Priority[j] \notin causes
           chosen == CHOOSE i \in 1..7 : First(i)
           sampled == Health!SamplesIn(g, history)
<1>1. /\ Health!Priority[1] = "manual_deletion" /\ Health!Priority[2] = "segment_processing_failed"
      /\ Health!Priority[3] = "camera_offline" /\ Health!Priority[4] = "ffmpeg_failure"
      /\ Health!Priority[5] = "backend_restart" /\ Health!Priority[6] = "recorder_unavailable"
      /\ Health!Priority[7] = "unknown"
  BY DEF Health!Priority
<1>2. Health!Cause(g, history) =
        IF sampled # {} /\ Health!Expected(sampled) = {} THEN "none" ELSE Health!Priority[chosen]
  BY DEF Health!Cause
<1> HIDE DEF causes, sampled
<1>3. chosen \in 1..7 /\ First(chosen)
  <2>1. 7 \in listed
    BY <1>1 DEF causes
  <2>2. PICK i \in listed : \A j \in listed : i <= j
    BY <2>1, LeastNumber
  <2>3. First(i) /\ i \in 1..7
    BY <2>2
  <2> QED BY <2>3
<1> HIDE DEF chosen
<1>4. /\ Health!Priority[chosen] \in causes
      /\ Health!Priority[chosen] \in
           {"manual_deletion", "segment_processing_failed", "camera_offline",
            "ffmpeg_failure", "backend_restart", "recorder_unavailable", "unknown"}
  BY <1>1, <1>3
<1>5. "manual_deletion" \in causes => Health!Priority[chosen] = "manual_deletion"
  BY <1>1, <1>3
<1>6. Health!Priority[chosen] = "unknown" =>
        causes \cap {"manual_deletion", "segment_processing_failed", "camera_offline",
                     "ffmpeg_failure", "backend_restart", "recorder_unavailable"} = {}
  <2> SUFFICES ASSUME Health!Priority[chosen] = "unknown"
               PROVE  \A j \in 1..6 : Health!Priority[j] \notin causes
    BY <1>1
  <2>1. chosen = 7
    BY <1>1, <1>3
  <2> QED BY <1>3, <2>1
<1>7. \A c : c \in causes <=> c \in Health!Explained(g, history) \/ c = "unknown"
  BY DEF causes
<1> QED BY <1>2, <1>4, <1>5, <1>6, <1>7 DEF sampled

-----------------------------------------------------------------------------
(* The gaps                                                                *)
LEMMA GapsAre ==
  ASSUME NEW story, NEW created, IsStory(story, created)
  PROVE  LET history == Health!HistoryOf(story, created) IN
         /\ \A g \in Health!Gaps(history) :
              \E h \in Health!Holes(history) :
                 /\ g.start = h.start /\ g.end = h.end /\ Hole(story, h.start, h.end)
                 /\ g.cause = Health!Cause(h, history) /\ g.cause # "none"
         /\ \A h \in Health!Holes(history) : Health!Cause(h, history) # "none" =>
              \E g \in Health!Gaps(history) : g.start = h.start /\ g.end = h.end
<1> DEFINE history == Health!HistoryOf(story, created)
           Gap(h) == [start |-> h.start, end |-> h.end, cause |-> Health!Cause(h, history)]
<1>1. \A g : g \in Health!Gaps(history) <=>
        \E h \in Health!Holes(history) :
           /\ Health!Length(h) >= MinGap /\ Health!Cause(h, history) # "none"
           /\ g = Gap(h)
  BY DEF Health!Gaps
<1>2. \A h \in Health!Holes(history) : Hole(story, h.start, h.end)
  BY HolesAre
<1>3. ASSUME NEW h \in Health!Holes(history)
      PROVE  Health!Length(h) >= MinGap
  <2>1. h.start \in Nat /\ h.end \in Nat /\ h.start < h.end
    BY <1>2, FilmedIs DEF Hole
  <2> QED BY <2>1, HealthAssumption DEF Health!Length
<1>4. \A h : Gap(h).start = h.start /\ Gap(h).end = h.end /\ Gap(h).cause = Health!Cause(h, history)
  OBVIOUS
<1> HIDE DEF history, Gap
<1> QED BY <1>1, <1>2, <1>3, <1>4 DEF history

\* A minute of a hole is one of the window, without footage.
LEMMA HoleMinutes ==
  ASSUME NEW story, NEW a, NEW b, Hole(story, a, b)
  PROVE  /\ a \in Nat /\ b \in Nat /\ a < b /\ b \in Health!Minutes
         /\ \A t \in a..(b - 1) : t \in Health!Minutes /\ story[t] \notin {"ok", "damaged"}
BY MinutesAre DEF Hole, Filmed

\* What the cause of a hole says of its minutes: none, and nothing should have
\* been recorded in them; some, and a recording is missing in one.
LEMMA CauseOfHole ==
  ASSUME NEW story, NEW created, IsStory(story, created),
         NEW g, Hole(story, g.start, g.end)
  PROVE  LET cause == Health!Cause(g, Health!HistoryOf(story, created)) IN
         /\ cause = "none" => \A t \in g.start..(g.end - 1) : story[t] \in {"off", "idle"}
         /\ cause # "none" =>
              \/ \A t \in g.start..(g.end - 1) : story[t] = "off"
              \/ \E t \in g.start..(g.end - 1) : story[t] \in {"lost", "deleted", "down"}
<1> DEFINE h == Health!HistoryOf(story, created)
           within == Health!SamplesIn(g, h)
<1>1. /\ g.start \in Nat /\ g.end \in Nat /\ g.start < g.end /\ g.end \in Health!Minutes
      /\ \A t \in g.start..(g.end - 1) : t \in Health!Minutes /\ story[t] \notin {"ok", "damaged"}
  BY HoleMinutes
<1>2. /\ \A s \in within : \E t \in Health!Minutes :
            g.start <= t /\ t < g.end /\ story[t] # "off" /\ s = SampleOf(story, t)
      /\ \A t \in Health!Minutes : g.start <= t /\ t < g.end /\ story[t] # "off" =>
            SampleOf(story, t) \in within
      /\ \A s : s \in Health!Expected(within) <=> s \in within /\ s.expected
  BY <1>1, SamplesOfHole
<1>3. Health!Cause(g, h) = "none" <=> within # {} /\ Health!Expected(within) = {}
  BY Blamed
<1>4. \A t : SampleOf(story, t).expected <=> story[t] # "idle"
  BY SampledAre
<1>5. Health!Minutes \subseteq Nat /\ \A t \in Health!Minutes : story[t] \in Health!Kinds
  BY MinutesAre DEF IsStory
<1> HIDE DEF h, within
<1>6. ASSUME Health!Cause(g, h) = "none", NEW t \in g.start..(g.end - 1)
      PROVE  story[t] \in {"off", "idle"}
  <2> SUFFICES ASSUME story[t] \notin {"off", "idle"}
               PROVE  FALSE
    OBVIOUS
  <2>1. SampleOf(story, t) \in within /\ SampleOf(story, t).expected
    BY <1>1, <1>2, <1>4
  <2> QED BY <2>1, <1>2, <1>3, <1>6
<1>7. ASSUME Health!Cause(g, h) # "none", \E u \in g.start..(g.end - 1) : story[u] # "off"
      PROVE  \E t \in g.start..(g.end - 1) : story[t] \in {"lost", "deleted", "down"}
  <2>1. PICK u \in g.start..(g.end - 1) : story[u] # "off"
    BY <1>7
  <2>2. SampleOf(story, u) \in within
    BY <2>1, <1>1, <1>2
  <2>3. PICK s \in within : s.expected
    BY <2>2, <1>2, <1>3, <1>7
  <2>4. PICK t \in Health!Minutes :
           g.start <= t /\ t < g.end /\ story[t] # "off" /\ s = SampleOf(story, t)
    BY <1>2
  <2>5. story[t] # "idle" /\ t \in g.start..(g.end - 1)
    BY <2>3, <2>4, <1>1, <1>4, <1>5
  <2>6. story[t] \in {"lost", "deleted", "down"}
    BY <2>4, <2>5, <1>1, <1>5 DEF Health!Kinds
  <2> QED BY <2>5, <2>6
<1> QED BY <1>6, <1>7 DEF h

\* GapsFound, for stories of any length.
THEOREM GapsAreFound ==
  ASSUME NEW story, NEW created, IsStory(story, created)
  PROVE  Health!GapsFound(story, created)
<1> DEFINE history == Health!HistoryOf(story, created)
           gaps == Health!Gaps(history)
           reported == UNION {g.start..(g.end - 1) : g \in gaps}
<1>1. /\ \A g \in gaps : \E h \in Health!Holes(history) :
            /\ g.start = h.start /\ g.end = h.end /\ Hole(story, h.start, h.end)
            /\ g.cause = Health!Cause(h, history) /\ g.cause # "none"
      /\ \A h \in Health!Holes(history) : Health!Cause(h, history) # "none" =>
            \E g \in gaps : g.start = h.start /\ g.end = h.end
  BY GapsAre
<1>2. Health!Filmed(history) = Filmed(story) /\ Filmed(story) \subseteq Nat
  BY FilmedIs
<1>3. /\ \A h \in Health!Holes(history) :
            h = [start |-> h.start, end |-> h.end] /\ Hole(story, h.start, h.end)
      /\ \A a, b : Hole(story, a, b) => [start |-> a, end |-> b] \in Health!Holes(history)
  BY HolesAre
<1>4. \A h : Hole(story, h.start, h.end) =>
        /\ Health!Cause(h, history) = "none" =>
             \A t \in h.start..(h.end - 1) : story[t] \in {"off", "idle"}
        /\ Health!Cause(h, history) # "none" =>
             \/ \A t \in h.start..(h.end - 1) : story[t] = "off"
             \/ \E t \in h.start..(h.end - 1) : story[t] \in {"lost", "deleted", "down"}
  BY CauseOfHole
<1>5. \A t : t \in reported <=> \E g \in gaps : t \in g.start..(g.end - 1)
  OBVIOUS
<1>6. Health!OutsideWindows(story, history, 0) \in BOOLEAN
      /\ \A t : Health!OutsideWindows(story, history, t) <=>
           \E h \in Health!Holes(history) :
              /\ t \in h.start..(h.end - 1)
              /\ \A u \in h.start..(h.end - 1) : story[u] \in {"off", "idle"}
  BY DEF Health!OutsideWindows
<1>7. \A t : Health!Between(history, t) <=>
        (\E u \in Filmed(story) : u < t) /\ (\E u \in Filmed(story) : u > t)
  BY <1>2 DEF Health!Between
<1>8. Health!GapsFound(story, created) <=>
        /\ reported \cap Health!Filmed(history) = {}
        /\ \A g \in gaps : \E t \in g.start..(g.end - 1) : story[t] \in Health!Missing
        /\ \A t \in created..(Now - 1) :
              /\ story[t] \in Health!Missing /\ Health!Between(history, t) /\ t \notin reported
              => story[t] = "off" /\ Health!OutsideWindows(story, history, t)
  BY DEF Health!GapsFound
<1> HIDE DEF reported, gaps, history
<1>9. reported \cap Filmed(story) = {}
  BY <1>1, <1>5, HoleMinutes DEF Filmed
<1>10. ASSUME NEW g \in gaps
       PROVE  \E t \in g.start..(g.end - 1) : story[t] \in Health!Missing
  <2>1. PICK h \in Health!Holes(history) :
          /\ g.start = h.start /\ g.end = h.end /\ Hole(story, h.start, h.end)
          /\ g.cause = Health!Cause(h, history) /\ g.cause # "none"
    BY <1>1
  <2>2. g.start \in g.start..(g.end - 1)
    BY <2>1, HoleMinutes
  <2>3. \/ \A t \in g.start..(g.end - 1) : story[t] = "off"
        \/ \E t \in g.start..(g.end - 1) : story[t] \in {"lost", "deleted", "down"}
    BY <2>1, <1>4
  <2> QED BY <2>2, <2>3 DEF Health!Missing
<1>11. ASSUME NEW t \in created..(Now - 1), story[t] \in Health!Missing,
              Health!Between(history, t), t \notin reported
       PROVE  story[t] = "off" /\ Health!OutsideWindows(story, history, t)
  <2>1. t \in Health!Minutes /\ t \notin Filmed(story)
    BY <1>11, MinutesAre DEF IsStory, Filmed, Health!Missing
  <2>2. PICK a \in Nat, b \in Nat : Hole(story, a, b) /\ t \in a..(b - 1)
    BY <2>1, <1>7, <1>11, <1>2, HoleAround
  <2> DEFINE h == [start |-> a, end |-> b]
  <2>3. h \in Health!Holes(history) /\ h.start = a /\ h.end = b
    BY <2>2, <1>3
  <2> HIDE DEF h
  <2>4. Health!Cause(h, history) = "none"
    BY <2>2, <2>3, <1>1, <1>5, <1>11
  <2>5. \A u \in h.start..(h.end - 1) : story[u] \in {"off", "idle"}
    BY <2>2, <2>3, <2>4, <1>4
  <2>6. story[t] = "off"
    BY <2>2, <2>3, <2>5, <1>11 DEF Health!Missing
  <2> QED BY <2>2, <2>3, <2>5, <2>6, <1>6
<1> QED BY <1>2, <1>8, <1>9, <1>10, <1>11

\* A cause names what happened.
KindOf(cause) ==
  [manual_deletion |-> "deleted", segment_processing_failed |-> "lost",
   camera_offline |-> "down", ffmpeg_failure |-> "down",
   recorder_unavailable |-> "down", backend_restart |-> "off"][cause]

LEMMA Kinds ==
  /\ KindOf("manual_deletion") = "deleted" /\ KindOf("segment_processing_failed") = "lost"
  /\ KindOf("camera_offline") = "down" /\ KindOf("ffmpeg_failure") = "down"
  /\ KindOf("recorder_unavailable") = "down" /\ KindOf("backend_restart") = "off"
BY DEF KindOf

\* What explains a hole happened in it, or as near as the padding allows.
LEMMA ExplainedHappened ==
  ASSUME NEW story, NEW created, IsStory(story, created),
         NEW g, Hole(story, g.start, g.end),
         NEW cause \in Health!Explained(g, Health!HistoryOf(story, created))
  PROVE  \E t \in Health!Minutes :
            /\ g.start - Padding - 1 <= t /\ t <= g.end + Padding
            /\ story[t] = KindOf(cause)
<1> DEFINE causes == Health!Explained(g, Health!HistoryOf(story, created))
           near(t) == g.start - Padding <= t /\ t <= g.end + Padding
           Goal == \E t \in Health!Minutes :
                      /\ g.start - Padding - 1 <= t /\ t <= g.end + Padding
                      /\ story[t] = KindOf(cause)
<1>0. /\ g.start \in Nat /\ g.end \in Nat /\ g.start < g.end /\ Padding \in Nat
      /\ g.end \in Health!Minutes
  BY HoleMinutes, HealthAssumption
<1>1. Now \in Nat /\ \A t : t \in Health!Minutes <=> t \in Nat /\ t < Now
  BY MinutesAre
<1>2. /\ causes \subseteq {"manual_deletion", "segment_processing_failed", "camera_offline",
                          "ffmpeg_failure", "backend_restart", "recorder_unavailable"}
      /\ "manual_deletion" \in causes <=>
           \E t \in Health!Minutes : story[t] = "deleted" /\ g.start <= t /\ t < g.end
      /\ "segment_processing_failed" \in causes <=>
           \E t \in Health!Minutes : story[t] = "lost" /\ near(t)
      /\ "camera_offline" \in causes <=>
           \E t \in Health!Minutes :
              Recovered(story, t) /\ Health!RunStart(story, t - 1) < g.end /\ t > g.start
      /\ "ffmpeg_failure" \in causes <=>
           \E t \in Health!Minutes : Health!Begins(story, t, "down") /\ near(t)
      /\ "backend_restart" \in causes <=>
           \E t \in Health!Minutes : Restarted(story, t) /\ near(t)
      /\ "recorder_unavailable" \in causes <=>
           \E t \in Health!Minutes : story[t] = "down" /\ g.start <= t /\ t < g.end
  BY <1>0, Explanations
<1> HIDE DEF causes
<1>3. CASE cause = "manual_deletion"
  <2>1. PICK t \in Health!Minutes : story[t] = "deleted" /\ g.start <= t /\ t < g.end
    BY <1>2, <1>3 DEF causes
  <2> QED BY <2>1, <1>0, <1>1, <1>3, Kinds
<1>4. CASE cause = "segment_processing_failed"
  <2>1. PICK t \in Health!Minutes : story[t] = "lost" /\ near(t)
    BY <1>2, <1>4 DEF causes
  <2> QED BY <2>1, <1>0, <1>1, <1>4, Kinds
<1>5. CASE cause = "camera_offline"
  <2>1. PICK t \in Health!Minutes :
           Recovered(story, t) /\ Health!RunStart(story, t - 1) < g.end /\ t > g.start
    BY <1>2, <1>5 DEF causes
  <2> DEFINE s == Health!RunStart(story, t - 1)
  <2>2. t - 1 \in Health!Minutes /\ t \in Nat /\ story[t - 1] = "down"
    BY <2>1, <1>1 DEF Recovered
  <2>3. s \in 0..(t - 1) /\ \A u \in s..(t - 1) : story[u] = "down"
    BY <2>2, RunStartIs
  <2>4. s < g.end /\ g.start <= t - 1
    BY <2>1, <2>2, <1>0
  <2> HIDE DEF s
  <2>5. CASE t - 1 < g.end
    BY <2>2, <2>4, <2>5, <1>0, <1>5, Kinds
  <2>6. CASE g.end <= t - 1
    <3>1. g.end - 1 \in s..(t - 1) /\ g.end - 1 \in Health!Minutes
      BY <2>2, <2>3, <2>4, <2>6, <1>0, <1>1
    <3> QED BY <3>1, <2>3, <1>0, <1>5, Kinds
  <2> QED BY <2>2, <2>5, <2>6, <1>0
<1>6. CASE cause = "ffmpeg_failure"
  <2>1. PICK t \in Health!Minutes : Health!Begins(story, t, "down") /\ near(t)
    BY <1>2, <1>6 DEF causes
  <2> QED BY <2>1, <1>0, <1>1, <1>6, Kinds DEF Health!Begins
<1>7. CASE cause = "backend_restart"
  <2>1. PICK t \in Health!Minutes : Restarted(story, t) /\ near(t)
    BY <1>2, <1>7 DEF causes
  <2>2. t - 1 \in Health!Minutes /\ t \in Nat /\ story[t - 1] = "off"
    BY <2>1, <1>1 DEF Restarted
  <2>3. g.start - Padding - 1 <= t - 1 /\ t - 1 <= g.end + Padding
    BY <2>1, <2>2, <1>0
  <2> QED BY <2>2, <2>3, <1>7, Kinds
<1>8. CASE cause = "recorder_unavailable"
  <2>1. PICK t \in Health!Minutes : story[t] = "down" /\ g.start <= t /\ t < g.end
    BY <1>2, <1>8 DEF causes
  <2> QED BY <2>1, <1>0, <1>1, <1>8, Kinds
<1> QED BY <1>2, <1>3, <1>4, <1>5, <1>6, <1>7, <1>8 DEF causes

\* Something explains every hole in which a recording is missing: what was
\* lost, deleted or down left an event or a sample, and a backend that was off
\* all through it starts no later than at its end, where there is footage.
LEMMA EveryCauseKnown ==
  ASSUME NEW story, NEW created, IsStory(story, created),
         NEW g, Hole(story, g.start, g.end),
         Health!Cause(g, Health!HistoryOf(story, created)) # "none"
  PROVE  \E cause \in {"manual_deletion", "segment_processing_failed", "camera_offline",
                       "ffmpeg_failure", "backend_restart", "recorder_unavailable"} :
            cause \in Health!Explained(g, Health!HistoryOf(story, created))
<1> DEFINE causes == Health!Explained(g, Health!HistoryOf(story, created))
<1>0. /\ g.start \in Nat /\ g.end \in Nat /\ g.start < g.end /\ Padding \in Nat
      /\ g.end \in Health!Minutes /\ story[g.end] \in {"ok", "damaged"}
      /\ \A t \in g.start..(g.end - 1) : t \in Health!Minutes
  BY HoleMinutes, HealthAssumption DEF Hole, Filmed
<1>1. /\ (\E t \in Health!Minutes : story[t] = "deleted" /\ g.start <= t /\ t < g.end) =>
           "manual_deletion" \in causes
      /\ (\E t \in Health!Minutes : /\ story[t] = "lost"
                                    /\ g.start - Padding <= t /\ t <= g.end + Padding) =>
           "segment_processing_failed" \in causes
      /\ (\E t \in Health!Minutes : /\ Restarted(story, t)
                                    /\ g.start - Padding <= t /\ t <= g.end + Padding) =>
           "backend_restart" \in causes
      /\ (\E t \in Health!Minutes : story[t] = "down" /\ g.start <= t /\ t < g.end) =>
           "recorder_unavailable" \in causes
  BY <1>0, Explanations
<1>2. \/ \A t \in g.start..(g.end - 1) : story[t] = "off"
      \/ \E t \in g.start..(g.end - 1) : story[t] \in {"lost", "deleted", "down"}
  BY CauseOfHole
<1> HIDE DEF causes
<1>3. CASE \A t \in g.start..(g.end - 1) : story[t] = "off"
  <2>1. g.end - 1 \in g.start..(g.end - 1) /\ g.end > 0
    BY <1>0
  <2>2. Restarted(story, g.end)
    BY <2>1, <1>0, <1>3 DEF Restarted
  <2>3. g.start - Padding <= g.end /\ g.end <= g.end + Padding
    BY <1>0
  <2> QED BY <2>2, <2>3, <1>0, <1>1 DEF causes
<1>4. CASE \E t \in g.start..(g.end - 1) : story[t] \in {"lost", "deleted", "down"}
  <2>1. PICK t \in g.start..(g.end - 1) : story[t] \in {"lost", "deleted", "down"}
    BY <1>4
  <2>2. /\ t \in Health!Minutes /\ g.start <= t /\ t < g.end
        /\ g.start - Padding <= t /\ t <= g.end + Padding
    BY <1>0
  <2> QED BY <2>1, <2>2, <1>1 DEF causes
<1> QED BY <1>2, <1>3, <1>4

\* CausesTrue, for stories of any length.
THEOREM CausesAreTrue ==
  ASSUME NEW story, NEW created, IsStory(story, created)
  PROVE  Health!CausesTrue(story, created)
<1> DEFINE history == Health!HistoryOf(story, created)
           happened(from, to) == {story[t] : t \in from..to \cap Health!Minutes}
<1>1. SUFFICES ASSUME NEW g \in Health!Gaps(history)
      PROVE  /\ g.cause # "unknown"
             /\ KindOf(g.cause) \in happened(g.start - Padding - 1, g.end + Padding)
             /\ "deleted" \in happened(g.start, g.end - 1) => g.cause = "manual_deletion"
             /\ happened(g.start, g.end - 1) = {"off"} => Health!Confidence(g.cause) # "low"
  BY DEF Health!CausesTrue, KindOf
<1>2. PICK h \in Health!Holes(history) :
        /\ g.start = h.start /\ g.end = h.end /\ Hole(story, h.start, h.end)
        /\ g.cause = Health!Cause(h, history) /\ g.cause # "none"
  BY GapsAre
<1>3. /\ g.start \in Nat /\ g.end \in Nat /\ g.start < g.end /\ Padding \in Nat
      /\ \A t \in Health!Minutes : t \in Nat
  BY <1>2, HoleMinutes, HealthAssumption, MinutesAre
<1>4. \E c \in {"manual_deletion", "segment_processing_failed", "camera_offline",
                "ffmpeg_failure", "backend_restart", "recorder_unavailable"} :
        c \in Health!Explained(h, history)
  BY <1>2, EveryCauseKnown
<1>5. /\ g.cause \in Health!Explained(h, history) \cup {"unknown"}
      /\ "manual_deletion" \in Health!Explained(h, history) => g.cause = "manual_deletion"
      /\ g.cause = "unknown" =>
           Health!Explained(h, history) \cap
             {"manual_deletion", "segment_processing_failed", "camera_offline",
              "ffmpeg_failure", "backend_restart", "recorder_unavailable"} = {}
  BY <1>2, Blamed
<1>6. g.cause # "unknown" /\ g.cause \in Health!Explained(h, history)
  BY <1>4, <1>5
<1>7. PICK t \in Health!Minutes :
        /\ h.start - Padding - 1 <= t /\ t <= h.end + Padding
        /\ story[t] = KindOf(g.cause)
  BY <1>2, <1>6, ExplainedHappened
<1>8. KindOf(g.cause) \in happened(g.start - Padding - 1, g.end + Padding)
  <2>1. t \in (g.start - Padding - 1)..(g.end + Padding) \cap Health!Minutes
    BY <1>2, <1>3, <1>7
  <2> QED BY <2>1, <1>7
<1>9. ASSUME "deleted" \in happened(g.start, g.end - 1)
      PROVE  g.cause = "manual_deletion"
  <2>1. PICK u \in Health!Minutes : u \in g.start..(g.end - 1) /\ story[u] = "deleted"
    BY <1>9
  <2>2. u \in Nat /\ h.start <= u /\ u < h.end /\ h.start \in Nat /\ h.end \in Nat
    BY <2>1, <1>2, <1>3
  <2>3. "manual_deletion" \in Health!Explained(h, history)
    BY <2>1, <2>2, Explanations
  <2> QED BY <2>3, <1>5
<1> QED BY <1>6, <1>8, <1>9 DEF Health!Confidence

-----------------------------------------------------------------------------
(* Counting                                                                *)
LEMMA SameNumber ==
  ASSUME NEW S, IsFiniteSet(S), NEW T, NEW f \in [S -> T],
         \A a, b \in S : f[a] = f[b] => a = b, \A t \in T : \E s \in S : f[s] = t
  PROVE  IsFiniteSet(T) /\ Cardinality(T) = Cardinality(S)
<1>1. f \in Surjection(S, T)
  BY DEF Surjection
<1>2. f \in Injection(S, T)
  BY DEF Injection, IsInjective
<1> QED BY <1>1, <1>2, FS_Surjection

\* The minutes of the camera's life of which the story tells one of the kinds.
Lived(story, created, kinds) == {t \in created..(Now - 1) : story[t] \in kinds}

LEMMA LivedAre ==
  ASSUME NEW story, NEW created, IsStory(story, created), NEW kinds
  PROVE  /\ Lived(story, created, kinds) \subseteq Health!Minutes
         /\ IsFiniteSet(Lived(story, created, kinds))
         /\ Cardinality(Lived(story, created, kinds)) \in Nat
<1>1. created..(Now - 1) \subseteq Health!Minutes /\ created \in Int /\ Now - 1 \in Int
  BY MinutesAre DEF IsStory
<1>2. IsFiniteSet(created..(Now - 1))
  BY <1>1, FS_Interval
<1>3. Lived(story, created, kinds) \subseteq created..(Now - 1)
  BY DEF Lived
<1> QED BY <1>1, <1>2, <1>3, FS_Subset, FS_CardinalityType

LEMMA LivedApart ==
  ASSUME NEW story, NEW created, IsStory(story, created),
         NEW K, NEW L, K \cap L = {}
  PROVE  Cardinality(Lived(story, created, K \cup L)) =
           Cardinality(Lived(story, created, K)) + Cardinality(Lived(story, created, L))
<1>1. /\ Lived(story, created, K \cup L) = Lived(story, created, K) \cup Lived(story, created, L)
      /\ Lived(story, created, K) \cap Lived(story, created, L) = {}
  BY DEF Lived
<1>2. /\ IsFiniteSet(Lived(story, created, K)) /\ Cardinality(Lived(story, created, K)) \in Nat
      /\ IsFiniteSet(Lived(story, created, L)) /\ Cardinality(Lived(story, created, L)) \in Nat
  BY LivedAre
<1>3. Cardinality({}) = 0
  BY FS_EmptySet
<1> DEFINE A == Lived(story, created, K)
           B == Lived(story, created, L)
<1>4. Cardinality(A \cup B) = Cardinality(A) + Cardinality(B) - Cardinality(A \cap B)
  <2> HIDE DEF A, B
  <2> QED BY <1>2, FS_Union DEF A, B
<1>5. Cardinality(Lived(story, created, K \cup L)) = Cardinality(A \cup B)
  BY <1>1, Zenon
<1>6. Cardinality(A \cap B) = 0
  BY <1>1, <1>3, Zenon
<1> HIDE DEF A, B
<1> QED BY <1>2, <1>4, <1>5, <1>6 DEF A, B

\* A minute in which the backend ran is one of the camera's life.
LEMMA OnlyItsLife ==
  ASSUME NEW story, NEW created, IsStory(story, created),
         NEW t \in Health!Minutes, story[t] # "off"
  PROVE  t \in created..(Now - 1)
<1>1. t \in Nat /\ t < Now /\ Now \in Nat /\ created \in Nat
  BY MinutesAre DEF IsStory
<1>2. ~(t < created)
  BY <1>1 DEF IsStory
<1> QED BY <1>1, <1>2

\* A sample, and a recording, for each minute that had one.
LEMMA SamplesCounted ==
  ASSUME NEW story, NEW created, IsStory(story, created)
  PROVE  LET sampled == Health!Expected(Health!HistoryOf(story, created).samples) IN
         /\ Cardinality(sampled) =
              Cardinality(Lived(story, created, Health!Kinds \ {"off", "idle"}))
         /\ Cardinality({s \in sampled : s.recording}) =
              Cardinality(Lived(story, created, Health!Kinds \ {"off", "idle", "down"}))
<1> DEFINE sampled == Health!Expected(Health!HistoryOf(story, created).samples)
           online == {s \in sampled : s.recording}
           K == Health!Kinds \ {"off", "idle"}
           L == Health!Kinds \ {"off", "idle", "down"}
           S == Lived(story, created, K)
           T == Lived(story, created, L)
           f == [t \in S |-> SampleOf(story, t)]
           g == [t \in T |-> SampleOf(story, t)]
<1>1. \A s : s \in sampled <=> s \in Health!Sampled(story) /\ s.expected
  BY HistoryFields DEF Health!Expected
<1>2. /\ \A s : s \in Health!Sampled(story) <=>
           \E t \in Health!Minutes : story[t] # "off" /\ s = SampleOf(story, t)
      /\ \A t : /\ SampleOf(story, t).at = t
                /\ (SampleOf(story, t).expected <=> story[t] # "idle")
                /\ (SampleOf(story, t).recording <=> story[t] \notin {"idle", "down"})
  BY SampledAre
<1>3. /\ \A t : t \in S <=> t \in Health!Minutes /\ story[t] \notin {"off", "idle"}
      /\ \A t : t \in T <=> t \in Health!Minutes /\ story[t] \notin {"off", "idle", "down"}
  <2>1. S \subseteq Health!Minutes /\ T \subseteq Health!Minutes
    BY LivedAre
  <2>2. \A t \in Health!Minutes : story[t] \in Health!Kinds
    BY DEF IsStory
  <2>3. \A t \in Health!Minutes : story[t] # "off" => t \in created..(Now - 1)
    BY OnlyItsLife
  <2> QED BY <2>1, <2>2, <2>3 DEF Lived
<1>4. IsFiniteSet(S) /\ IsFiniteSet(T)
  BY LivedAre
<1> HIDE DEF sampled, S, T, K, L
<1>5. \A s : s \in sampled <=> \E t \in S : s = SampleOf(story, t)
  <2>1. ASSUME NEW s \in sampled
        PROVE  \E t \in S : s = SampleOf(story, t)
    <3>1. PICK t \in Health!Minutes : story[t] # "off" /\ s = SampleOf(story, t)
      BY <1>1, <1>2
    <3> QED BY <3>1, <1>1, <1>2, <1>3
  <2>2. ASSUME NEW t \in S
        PROVE  SampleOf(story, t) \in sampled
    BY <1>1, <1>2, <1>3
  <2> QED BY <2>1, <2>2
<1>6. \A s : s \in online <=> \E t \in T : s = SampleOf(story, t)
  <2>1. ASSUME NEW s \in online
        PROVE  \E t \in T : s = SampleOf(story, t)
    <3>1. PICK t \in S : s = SampleOf(story, t)
      BY <1>5
    <3> QED BY <3>1, <1>2, <1>3
  <2>2. ASSUME NEW t \in T
        PROVE  SampleOf(story, t) \in online
    <3>1. t \in S /\ SampleOf(story, t).recording
      BY <1>2, <1>3
    <3> QED BY <3>1, <1>5
  <2> QED BY <2>1, <2>2
<1> HIDE DEF online
<1>7. Cardinality(sampled) = Cardinality(S)
  <2>1. /\ f \in [S -> sampled] /\ \A t \in S : f[t].at = t
        /\ \A s \in sampled : \E t \in S : f[t] = s
    BY <1>2, <1>5
  <2> HIDE DEF f
  <2> QED BY <2>1, <1>4, SameNumber
<1>8. Cardinality(online) = Cardinality(T)
  <2>1. /\ g \in [T -> online] /\ \A t \in T : g[t].at = t
        /\ \A s \in online : \E t \in T : g[t] = s
    BY <1>2, <1>6
  <2> HIDE DEF g
  <2> QED BY <2>1, <1>4, SameNumber
<1> QED BY <1>7, <1>8 DEF sampled, online, S, T, K, L

LEMMA RecordingsCounted ==
  ASSUME NEW story, NEW created, IsStory(story, created)
  PROVE  LET history == Health!HistoryOf(story, created) IN
         /\ Cardinality({r \in history.recordings : r.start >= 0}) =
              Cardinality(Lived(story, created, {"ok", "damaged"}))
         /\ Cardinality(Health!Complete(history)) = Cardinality(Lived(story, created, {"ok"}))
<1> DEFINE recordings == Health!HistoryOf(story, created).recordings
           made == {r \in recordings : r.start >= 0}
           whole == Health!Complete(Health!HistoryOf(story, created))
           S == Lived(story, created, {"ok", "damaged"})
           T == Lived(story, created, {"ok"})
           f == [t \in S |-> Recorded(story, t)]
           g == [t \in T |-> Recorded(story, t)]
<1>1. \A r : r \in recordings <=> \E t \in Filmed(story) : r = Recorded(story, t)
  BY HistoryFields
<1>2. \A r : r \in whole <=> r \in recordings /\ r.start >= 0 /\ r.whole
  BY DEF Health!Complete
<1>3. \A t : /\ Recorded(story, t).start = t
             /\ (Recorded(story, t).whole <=> story[t] = "ok")
  BY DEF Recorded
<1>4. /\ \A t : t \in S <=> t \in Filmed(story)
      /\ \A t : t \in T <=> t \in Filmed(story) /\ story[t] = "ok"
      /\ \A t \in Filmed(story) : t \in Nat
  <2>1. S \subseteq Health!Minutes /\ T \subseteq Health!Minutes
    BY LivedAre
  <2>2. \A t \in Health!Minutes : story[t] # "off" => t \in created..(Now - 1)
    BY OnlyItsLife
  <2> QED BY <2>1, <2>2, MinutesAre DEF Lived, Filmed
<1>5. IsFiniteSet(S) /\ IsFiniteSet(T)
  BY LivedAre
<1> HIDE DEF recordings, whole, S, T
<1>6. \A r : r \in made <=> \E t \in S : r = Recorded(story, t)
  BY <1>1, <1>3, <1>4
<1>7. \A r : r \in whole <=> \E t \in T : r = Recorded(story, t)
  <2>1. ASSUME NEW r \in whole
        PROVE  \E t \in T : r = Recorded(story, t)
    <3>1. PICK t \in Filmed(story) : r = Recorded(story, t)
      BY <1>1, <1>2
    <3> QED BY <3>1, <1>2, <1>3, <1>4
  <2>2. ASSUME NEW t \in T
        PROVE  Recorded(story, t) \in whole
    BY <1>1, <1>2, <1>3, <1>4
  <2> QED BY <2>1, <2>2
<1> HIDE DEF made
<1>8. Cardinality(made) = Cardinality(S)
  <2>1. /\ f \in [S -> made] /\ \A t \in S : f[t].start = t
        /\ \A r \in made : \E t \in S : f[t] = r
    BY <1>3, <1>6
  <2> HIDE DEF f
  <2> QED BY <2>1, <1>5, SameNumber
<1>9. Cardinality(whole) = Cardinality(T)
  <2>1. /\ g \in [T -> whole] /\ \A t \in T : g[t].start = t
        /\ \A r \in whole : \E t \in T : g[t] = r
    BY <1>3, <1>7
  <2> HIDE DEF g
  <2> QED BY <2>1, <1>5, SameNumber
<1> QED BY <1>8, <1>9 DEF recordings, made, whole, S, T

\* A report has finitely many gaps.
LEMMA FinitelyManyGaps ==
  ASSUME NEW story, NEW created, IsStory(story, created)
  PROVE  LET gaps == Health!Gaps(Health!HistoryOf(story, created)) IN
         IsFiniteSet(gaps) /\ (Cardinality(gaps) > 0 <=> gaps # {})
<1> DEFINE history == Health!HistoryOf(story, created)
           gaps == Health!Gaps(history)
           P == (0..Now) \X (0..Now)
           D == {p \in P : \E g \in gaps : g.start = p[1] /\ g.end = p[2]}
           f == [p \in D |-> CHOOSE g \in gaps : g.start = p[1] /\ g.end = p[2]]
<1>1. /\ \A g \in gaps : \E h \in Health!Holes(history) :
            g.start = h.start /\ g.end = h.end /\ Hole(story, h.start, h.end)
            /\ g.cause = Health!Cause(h, history)
      /\ \A h \in Health!Holes(history) : h = [start |-> h.start, end |-> h.end]
  BY GapsAre, HolesAre
<1>2. \A g \in gaps : g = [start |-> g.start, end |-> g.end, cause |-> g.cause]
  BY DEF Health!Gaps
<1> HIDE DEF history, gaps
<1>3. \A g, k \in gaps : g.start = k.start /\ g.end = k.end => g = k
  <2>1. ASSUME NEW g \in gaps, NEW k \in gaps, g.start = k.start, g.end = k.end
        PROVE  g = k
    <3>1. PICK x \in Health!Holes(history) : g.start = x.start /\ g.end = x.end
             /\ g.cause = Health!Cause(x, history)
      BY <1>1
    <3>2. PICK y \in Health!Holes(history) : k.start = y.start /\ k.end = y.end
             /\ k.cause = Health!Cause(y, history)
      BY <1>1
    <3>3. x = [start |-> g.start, end |-> g.end] /\ y = [start |-> g.start, end |-> g.end]
      BY <3>1, <3>2, <2>1, <1>1
    <3>4. g.cause = k.cause
      BY <3>1, <3>2, <3>3
    <3> QED BY <3>4, <2>1, <1>2
  <2> QED BY <2>1
<1>4. \A g \in gaps : <<g.start, g.end>> \in D
  <2>1. ASSUME NEW g \in gaps
        PROVE  <<g.start, g.end>> \in P
    <3>1. Hole(story, g.start, g.end)
      BY <1>1
    <3>2. g.start \in Nat /\ g.end \in Nat /\ g.start < g.end /\ g.end < Now /\ Now \in Nat
      BY <3>1, HoleMinutes, MinutesAre
    <3> QED BY <3>2
  <2>2. \A g \in gaps : <<g.start, g.end>>[1] = g.start /\ <<g.start, g.end>>[2] = g.end
    OBVIOUS
  <2> HIDE DEF P
  <2> QED BY <2>1, <2>2
<1>5. IsFiniteSet(D)
  <2>1. IsFiniteSet(0..Now)
    BY MinutesAre, FS_Interval
  <2>2. IsFiniteSet(P) /\ D \subseteq P
    BY <2>1, FS_Product
  <2> HIDE DEF P, D
  <2> QED BY <2>2, FS_Subset
<1>6. /\ f \in [D -> gaps]
      /\ \A p \in D : f[p].start = p[1] /\ f[p].end = p[2]
  OBVIOUS
<1>7. ASSUME NEW g \in gaps
      PROVE  \E p \in D : f[p] = g
  <2>1. <<g.start, g.end>> \in D
    BY <1>4
  <2>2. f[<<g.start, g.end>>] \in gaps /\ f[<<g.start, g.end>>].start = g.start
        /\ f[<<g.start, g.end>>].end = g.end
    BY <2>1, <1>6
  <2> QED BY <2>1, <2>2, <1>3
<1>8. f \in Surjection(D, gaps)
  BY <1>6, <1>7 DEF Surjection
<1>9. IsFiniteSet(gaps)
  <2> HIDE DEF f, D
  <2> QED BY <1>5, <1>8, FS_Surjection
<1>10. Cardinality(gaps) \in Nat /\ (Cardinality(gaps) = 0 <=> gaps = {})
  BY <1>9, FS_CardinalityType, FS_EmptySet
<1> QED BY <1>9, <1>10 DEF gaps, history

-----------------------------------------------------------------------------
(* Who passes                                                              *)
\* A rate of at least k hundredths of a percent, undone.
LEMMA RateIs ==
  ASSUME NEW n \in Nat, NEW d \in Nat
  PROVE  /\ d = 0 => Health!Rate(n, d) = -1
         /\ d > 0 => /\ Health!Rate(n, d) \in Nat
                     /\ 2 * d * Health!Rate(n, d) <= 20000 * n + d
<1> DEFINE x == 20000 * n + d
           m == 2 * d
           q == x \div m
<1>1. x \in Nat /\ m \in Nat
  OBVIOUS
<1>2. d > 0 => m > 0
  OBVIOUS
<1>3. ASSUME m > 0
      PROVE  q \in Nat /\ m * q <= x
  <2> HIDE DEF x, m
  <2> QED BY <1>1, <1>3, SMTT(30)
<1>4. d > 0 => Health!Rate(n, d) = q
  BY DEF Health!Rate
<1>5. d = 0 => Health!Rate(n, d) = -1
  BY DEF Health!Rate
<1> QED BY <1>2, <1>3, <1>4, <1>5

\* For the criteria of 95 % and 99.5 %, with o of d.
LEMMA AtLeast ==
  ASSUME NEW n \in Nat, NEW d \in Nat, d > 0
  PROVE  /\ Health!Rate(n, d) >= 9500 => 18999 * d <= 20000 * n
         /\ Health!Rate(n, d) >= 9950 => 19899 * d <= 20000 * n
<1> DEFINE q == Health!Rate(n, d)
<1>1. q \in Nat /\ 2 * d * q <= 20000 * n + d
  BY RateIs
<1> HIDE DEF q
<1>2. ASSUME NEW k \in Nat, q >= k
      PROVE  2 * d * k <= 20000 * n + d
  <2>1. q - k \in Nat /\ 2 * d \in Nat
    BY <1>1, <1>2
  <2>2. (2 * d) * (q - k) >= 0
    <3> DEFINE a == 2 * d
               b == q - k
    <3>1. a \in Nat /\ b \in Nat
      BY <2>1
    <3> HIDE DEF a, b
    <3>2. a * b >= 0
      BY <3>1
    <3> QED BY <3>2 DEF a, b
  <2> QED BY <1>1, <2>2
<1>3. q >= 9500 => 2 * d * 9500 <= 20000 * n + d
  BY <1>2
<1>4. q >= 9950 => 2 * d * 9950 <= 20000 * n + d
  BY <1>2
<1> QED BY <1>3, <1>4 DEF q

LEMMA RateKnown ==
  ASSUME NEW n \in Nat, NEW d \in Nat
  PROVE  (d = 0 => Health!Rate(n, d) = -1) /\ (d > 0 => Health!Rate(n, d) \in Nat)
BY RateIs

LEMMA VerdictIs ==
  ASSUME NEW coverage, NEW availability, NEW completeness, NEW longest,
         NEW streaks, NEW failures, NEW maxFailures, NEW gaps
  PROVE  LET v == Health!Verdict(coverage, availability, completeness, longest,
                                 streaks, failures, maxFailures, gaps) IN
         /\ v.verdict \in {"pass", "fail", "collecting"}
         /\ v.verdict = "pass" =>
              /\ ~(coverage < 9500) /\ availability # -1 /\ completeness # -1
              /\ ~(availability < 9950) /\ ~(completeness < 9950)
              /\ ~(gaps > 0) /\ ~(longest > MaxOutage)
<1> DEFINE reasons ==
             (IF availability < 9950 THEN {"availability"} ELSE {}) \cup
             (IF completeness < 9950 THEN {"completeness"} ELSE {}) \cup
             (IF gaps > 0 THEN {"gaps"} ELSE {}) \cup
             (IF longest > MaxOutage THEN {"outage"} ELSE {}) \cup
             (IF streaks > 0 THEN {"streak"} ELSE {}) \cup
             (IF failures > maxFailures THEN {"failures"} ELSE {})
           v == Health!Verdict(coverage, availability, completeness, longest,
                               streaks, failures, maxFailures, gaps)
<1>1. v = IF coverage < 9500 THEN [verdict |-> "collecting", reasons |-> {"coverage"}]
          ELSE IF availability = -1 \/ completeness = -1
          THEN [verdict |-> "collecting", reasons |-> {"incomplete"}]
          ELSE [verdict |-> IF reasons = {} THEN "pass" ELSE "fail", reasons |-> reasons]
  BY DEF Health!Verdict
<1>2. reasons = {} =>
        ~(availability < 9950) /\ ~(completeness < 9950) /\ ~(gaps > 0) /\ ~(longest > MaxOutage)
  OBVIOUS
<1> HIDE DEF reasons, v
<1> QED BY <1>1, <1>2 DEF v

\* The two modules count in the same way.
LEMMA SameCardinality ==
  ASSUME NEW S
  PROVE  Health!Cardinality(S) = Cardinality(S)
BY Zenon DEF Health!Cardinality, Cardinality

\* The criteria, of a history and of its samples.
CriteriaMet(history, sampled) ==
  /\ Health!Gaps(history) = {}
  /\ ~(Health!LongestOutage(history) > MaxOutage)
  /\ ~(Health!Sooner(10000, Health!Rate(Cardinality(sampled),
         Health!Later(1, Now - Health!ObservationStart(history)))) < 9500)
  /\ Health!Rate(Cardinality({s \in sampled : s.recording}), Cardinality(sampled)) # -1
  /\ ~(Health!Rate(Cardinality({s \in sampled : s.recording}), Cardinality(sampled)) < 9950)
  /\ Health!Rate(Cardinality(Health!Complete(history)),
                 Cardinality({x \in history.recordings : x.start >= 0})) # -1
  /\ ~(Health!Rate(Cardinality(Health!Complete(history)),
                   Cardinality({x \in history.recordings : x.start >= 0})) < 9950)

\* The row of a monitored camera, as the properties look at it.
LEMMA RowIs ==
  ASSUME NEW story, NEW created, IsStory(story, created), NEW hours
  PROVE  LET history == Health!HistoryOf(story, created)
             row == Health!Row(history, hours) IN
         /\ row.monitored = TRUE /\ row.gaps = Health!Gaps(history)
         /\ row.verdict \in {"pass", "fail", "collecting"}
         /\ row.verdict = "pass" => CriteriaMet(history, Health!Expected(history.samples))
<1> DEFINE history == Health!HistoryOf(story, created)
           row == Health!Row(history, hours)
           sampled == Health!Expected(history.samples)
           coverage == Health!Sooner(10000, Health!Rate(Health!Cardinality(sampled),
                          Health!Later(1, Now - Health!ObservationStart(history))))
           available == Health!Rate(Health!Cardinality({s \in sampled : s.recording}),
                                    Health!Cardinality(sampled))
           complete == Health!Rate(Health!Cardinality(Health!Complete(history)),
                          Health!Cardinality({r \in history.recordings : r.start >= 0}))
           gaps == IF history.monitored THEN Health!Gaps(history) ELSE {}
           v == Health!Verdict(coverage, available, complete,
                   Health!LongestOutage(history), Health!Count(history, "camera.ffmpeg_failure_streak"),
                   Health!Count(history, "camera.ffmpeg_exited"), Health!MaxFfmpegFailures(hours),
                   Health!Cardinality(gaps))
<1>1. history.monitored = TRUE
  BY HistoryFields
<1> HIDE DEF history
<1>2. row = [monitored |-> history.monitored, gaps |-> gaps,
             longest |-> Health!LongestOutage(history), coverage |-> coverage,
             verdict |-> IF history.monitored THEN v.verdict ELSE "ignored",
             reasons |-> IF history.monitored
                         THEN v.reasons \cup {g.cause : g \in gaps} ELSE {}]
  BY DEF Health!Row
<1>3. /\ v.verdict \in {"pass", "fail", "collecting"}
      /\ v.verdict = "pass" =>
           /\ ~(coverage < 9500) /\ available # -1 /\ complete # -1
           /\ ~(available < 9950) /\ ~(complete < 9950)
           /\ ~(Health!Cardinality(gaps) > 0)
           /\ ~(Health!LongestOutage(history) > MaxOutage)
  <2> HIDE DEF coverage, available, complete, gaps
  <2> QED BY VerdictIs
<1>4. gaps = Health!Gaps(history)
  BY <1>1
<1>5. Health!Cardinality(gaps) > 0 <=> gaps # {}
  <2>1. Cardinality(Health!Gaps(history)) > 0 <=> Health!Gaps(history) # {}
    BY FinitelyManyGaps DEF history
  <2> HIDE DEF gaps
  <2>2. Health!Cardinality(gaps) = Cardinality(gaps)
    BY SameCardinality
  <2> QED BY <2>1, <2>2, <1>4
<1>6. /\ coverage = Health!Sooner(10000, Health!Rate(Cardinality(sampled),
                       Health!Later(1, Now - Health!ObservationStart(history))))
      /\ available = Health!Rate(Cardinality({s \in sampled : s.recording}), Cardinality(sampled))
      /\ complete = Health!Rate(Cardinality(Health!Complete(history)),
                       Cardinality({x \in history.recordings : x.start >= 0}))
  <2> DEFINE online == {s \in sampled : s.recording}
             whole == Health!Complete(history)
             made == {r \in history.recordings : r.start >= 0}
  <2> HIDE DEF sampled, online, whole, made
  <2>1. /\ Health!Cardinality(sampled) = Cardinality(sampled)
        /\ Health!Cardinality(online) = Cardinality(online)
        /\ Health!Cardinality(whole) = Cardinality(whole)
        /\ Health!Cardinality(made) = Cardinality(made)
    BY SameCardinality
  <2>2. Health!Rate(Health!Cardinality(online), Health!Cardinality(sampled)) =
          Health!Rate(Cardinality(online), Cardinality(sampled))
    BY <2>1
  <2>3. Health!Rate(Health!Cardinality(whole), Health!Cardinality(made)) =
          Health!Rate(Cardinality(whole), Cardinality(made))
    BY <2>1
  <2>4. coverage = Health!Sooner(10000, Health!Rate(Cardinality(sampled),
                       Health!Later(1, Now - Health!ObservationStart(history))))
    BY <2>1
  <2> QED BY <2>2, <2>3, <2>4 DEF online, whole, made
<1> HIDE DEF v, coverage, available, complete, gaps
<1>7. row.monitored = TRUE /\ row.gaps = gaps /\ row.verdict = v.verdict
  BY <1>1, <1>2
<1> HIDE DEF row
<1>8. row.verdict = "pass" => CriteriaMet(history, sampled)
  <2> HIDE DEF sampled
  <2> QED BY <1>3, <1>4, <1>5, <1>6, <1>7 DEF CriteriaMet
<1> QED BY <1>3, <1>4, <1>7, <1>8 DEF row, history

\* The camera is observed from its creation on.
LEMMA ObservedIs ==
  ASSUME NEW story, NEW created, IsStory(story, created)
  PROVE  /\ Health!ObservationStart(Health!HistoryOf(story, created)) = created
         /\ Now - created \in Nat \ {0}
         /\ Health!Later(1, Now - created) = Now - created
         /\ Cardinality(created..(Now - 1)) = Now - created
<1>1. created \in Nat /\ created < Now /\ Now \in Nat
  BY MinutesAre DEF IsStory
<1>2. Health!HistoryOf(story, created).created = created
  BY HistoryFields
<1>3. Health!ObservationStart(Health!HistoryOf(story, created)) = created
  <2> DEFINE h == Health!HistoryOf(story, created)
  <2> HIDE DEF h
  <2>1. h.created = created => Health!ObservationStart(h) = created
    BY <1>1 DEF Health!ObservationStart, Health!Later
  <2> QED BY <2>1, <1>2 DEF h
<1>4. Cardinality(created..(Now - 1)) = Now - created
  <2>1. created \in Int /\ Now - 1 \in Int
    BY <1>1
  <2>2. Cardinality(created..(Now - 1)) =
          IF created > Now - 1 THEN 0 ELSE (Now - 1) - created + 1
    BY <2>1, FS_Interval
  <2> QED BY <2>2, <1>1
<1> QED BY <1>1, <1>3, <1>4 DEF Health!Later

\* No outage is longer than the longest, where the window ends it.
LEMMA LongestIs ==
  ASSUME NEW story, NEW created, IsStory(story, created)
  PROVE  LET history == Health!HistoryOf(story, created) IN
         /\ Health!LongestOutage(history) \in 0..Now
         /\ \A o \in Health!Outages(history) :
              o.minutes \in 0..Now /\ o.minutes <= Health!LongestOutage(history)
<1> DEFINE history == Health!HistoryOf(story, created)
           M == {o.minutes : o \in Health!Outages(history)} \cup {0}
<1>1. Now \in Nat /\ \A t \in Health!Minutes : t \in Nat /\ t < Now
  BY MinutesAre
<1>2. ASSUME NEW o \in Health!Outages(history)
      PROVE  o.minutes \in 0..Now
  <2>1. \/ \E e \in Health!Written(story) : e.code = "camera.connection_restored"
             /\ o.minutes = Health!Overlap(e.from, e.to)
        \/ history.offline # Health!Never /\ o.minutes = Health!Overlap(history.offline, Now)
    <3>1. history.events = Health!Written(story)
      BY HistoryFields
    <3> HIDE DEF history
    <3> QED BY <3>1 DEF Health!Outages
  <2>2. ASSUME NEW a \in Int, NEW b \in Int
        PROVE  Health!Overlap(a, b) \in 0..Now
    BY <1>1 DEF Health!Overlap, Health!Later, Health!Sooner
  <2>3. CASE \E e \in Health!Written(story) : e.code = "camera.connection_restored"
                /\ o.minutes = Health!Overlap(e.from, e.to)
    <3>1. PICK e \in Health!Written(story) : e.code = "camera.connection_restored"
                /\ o.minutes = Health!Overlap(e.from, e.to)
      BY <2>3
    <3>2. PICK t \in Health!Minutes :
             \/ story[t] = "deleted" /\ e = Happening("recording.deleted", Now, t, t + 1)
             \/ story[t] = "lost"
                /\ e = Happening("recording.segment_processing_failed", t + 1, t, t + 1)
             \/ Health!Begins(story, t, "down") /\ e = Happening("camera.ffmpeg_exited", t, t, t)
             \/ /\ Recovered(story, t)
                /\ e = Happening("camera.connection_restored", t, Health!RunStart(story, t - 1), t)
             \/ Restarted(story, t) /\ e = Happening("system.backend_started", t, t, t)
      BY WrittenAre
    <3>3. Recovered(story, t) /\ e.from = Health!RunStart(story, t - 1) /\ e.to = t
      BY <3>1, <3>2, HappeningFields
    <3>4. t - 1 \in Health!Minutes /\ t \in Int
      BY <3>3, MinutesAre DEF Recovered
    <3>5. e.from \in Int /\ e.to \in Int
      BY <3>3, <3>4, <1>1, RunStartIs
    <3> QED BY <3>1, <3>5, <2>2
  <2>4. CASE history.offline # Health!Never /\ o.minutes = Health!Overlap(history.offline, Now)
    <3>1. Now - 1 \in Health!Minutes
      BY MinutesAre
    <3>2. history.offline = Health!RunStart(story, Now - 1)
      <4>1. history.offline = IF story[Now - 1] = "down" THEN Health!RunStart(story, Now - 1)
                              ELSE Health!Never
        BY HistoryFields
      <4> HIDE DEF history
      <4> QED BY <2>4, <4>1
    <3>3. history.offline \in Int /\ Now \in Int
      BY <3>1, <3>2, <1>1, RunStartIs
    <3> QED BY <3>3, <2>2, <2>4
  <2> QED BY <2>1, <2>3, <2>4
<1>3. M \subseteq 0..Now /\ M # {} /\ \A o \in Health!Outages(history) : o.minutes \in M
  BY <1>1, <1>2
<1>4. Health!LongestOutage(history) = CHOOSE x \in M : \A y \in M : x >= y
  BY DEF Health!LongestOutage, Health!Max
<1> HIDE DEF M, history
<1>5. PICK m \in M : \A k \in M : k <= m
  BY <1>1, <1>3, LargestNumber
<1>6. \A y \in M : m >= y
  BY <1>1, <1>3, <1>5
<1>7. Health!LongestOutage(history) \in M
      /\ \A y \in M : Health!LongestOutage(history) >= y
  BY <1>4, <1>5, <1>6
<1> QED BY <1>1, <1>2, <1>3, <1>7 DEF history

\* A stretch of outage after which the camera records, or that lasts, is in the
\* report's outages with all that went before it.
LEMMA OutageIs ==
  ASSUME NEW story, NEW created, IsStory(story, created),
         NEW s \in created..(Now - 1), NEW t \in created..(Now - 1), s <= t,
         \A u \in s..t : story[u] = "down",
         t = Now - 1 \/ story[t + 1] \notin {"down", "off", "idle"}
  PROVE  \E o \in Health!Outages(Health!HistoryOf(story, created)) : o.minutes > t - s
<1> DEFINE history == Health!HistoryOf(story, created)
           r == Health!RunStart(story, t)
           Outage(since, minutes) == [since |-> since, minutes |-> minutes]
<1>1. /\ Now \in Nat /\ created \in Nat /\ s \in Nat /\ t \in Nat /\ t < Now /\ t \in Health!Minutes
      /\ \A u : u \in Health!Minutes <=> u \in Nat /\ u < Now
  BY MinutesAre DEF IsStory
<1>2. t \in s..t /\ story[t] = "down"
  BY <1>1
<1>3. r \in 0..t /\ (r = 0 \/ story[r - 1] # "down")
  BY <1>1, <1>2, RunStartIs
<1>4. r <= s
  <2> SUFFICES ASSUME s < r
               PROVE  FALSE
    BY <1>1, <1>3
  <2>1. r - 1 \in s..t
    BY <1>1, <1>3
  <2> QED BY <2>1, <1>1, <1>3
<1>5. Health!Overlap(r, t + 1) = t + 1 - r /\ t + 1 - r > t - s /\ t + 1 - r > 0
  BY <1>1, <1>3, <1>4 DEF Health!Overlap, Health!Later, Health!Sooner
<1>6. /\ history.events = Health!Written(story)
      /\ history.offline = IF story[Now - 1] = "down" THEN Health!RunStart(story, Now - 1)
                           ELSE Health!Never
  BY HistoryFields
<1>7. /\ \A e \in history.events : \A since, minutes :
           /\ e.code = "camera.connection_restored" /\ since = e.from
           /\ minutes = Health!Overlap(e.from, e.to) /\ minutes > 0
           => Outage(since, minutes) \in Health!Outages(history)
      /\ \A minutes :
           /\ history.offline # Health!Never
           /\ minutes = Health!Overlap(history.offline, Now) /\ minutes > 0
           => Outage(history.offline, minutes) \in Health!Outages(history)
  <2> HIDE DEF history
  <2> QED BY DEF Health!Outages
<1>8. \A since, minutes : Outage(since, minutes).minutes = minutes
  OBVIOUS
<1> HIDE DEF history, r, Outage
<1>9. CASE t = Now - 1
  <2>1. history.offline = r /\ t + 1 = Now
    BY <1>1, <1>2, <1>6, <1>9 DEF r
  <2>2. r # Health!Never
    BY <1>1, <1>3 DEF Health!Never
  <2>3. Outage(r, t + 1 - r) \in Health!Outages(history)
    BY <2>1, <2>2, <1>5, <1>7
  <2> QED BY <2>3, <1>5, <1>8 DEF history
<1>10. CASE t # Now - 1
  <2>1. t + 1 \in Health!Minutes /\ (t + 1) - 1 = t /\ t + 1 > 0
    BY <1>1, <1>10
  <2>2. Recovered(story, t + 1) /\ Health!RunStart(story, (t + 1) - 1) = r
    BY <2>1, <1>2, <1>10 DEF Recovered, r
  <2> DEFINE e == Happening("camera.connection_restored", t + 1, r, t + 1)
  <2>3. e \in history.events
    <3>1. Happening("camera.connection_restored", t + 1, Health!RunStart(story, (t + 1) - 1), t + 1)
            \in Health!Written(story)
      BY <2>1, <2>2, WrittenAre
    <3> QED BY <3>1, <2>2, <1>6
  <2>4. e.code = "camera.connection_restored" /\ e.from = r /\ e.to = t + 1
    BY HappeningFields
  <2> HIDE DEF e
  <2>5. Outage(r, t + 1 - r) \in Health!Outages(history)
    BY <2>3, <2>4, <1>5, <1>7
  <2> QED BY <2>5, <1>5, <1>8 DEF history
<1> QED BY <1>9, <1>10

\* What the three rates of a passing camera count.
PassCounted(story, created) ==
  LET minutes(kinds) == Cardinality(Lived(story, created, kinds)) IN
  /\ 20000 * minutes({"off", "idle"}) <= 1001 * Cardinality(created..(Now - 1))
  /\ 20000 * minutes({"down"}) <= 101 * minutes(Health!Kinds \ {"off", "idle"})
  /\ 20000 * minutes({"damaged"}) <= 101 * minutes({"ok", "damaged"})

LEMMA PassCounts ==
  ASSUME NEW story, NEW created, IsStory(story, created), NEW hours,
         Health!Row(Health!HistoryOf(story, created), hours).verdict = "pass"
  PROVE  PassCounted(story, created)
<1> DEFINE history == Health!HistoryOf(story, created)
           sampled == Health!Expected(history.samples)
           K == Health!Kinds \ {"off", "idle"}
           L == Health!Kinds \ {"off", "idle", "down"}
           n(kinds) == Cardinality(Lived(story, created, kinds))
           life == Now - created
<1>1. \A kinds : n(kinds) \in Nat
  BY LivedAre
<1>2. n({"off", "idle"}) + n(K) = life
  <2>1. Health!Kinds = {"off", "idle"} \cup K /\ {"off", "idle"} \cap K = {}
    BY DEF Health!Kinds
  <2>2. Lived(story, created, Health!Kinds) = created..(Now - 1)
    <3>1. \A t \in created..(Now - 1) : story[t] \in Health!Kinds
      BY MinutesAre DEF IsStory
    <3> QED BY <3>1 DEF Lived
  <2>3. n({"off", "idle"} \cup K) = n({"off", "idle"}) + n(K)
    <3> HIDE DEF K
    <3> QED BY <2>1, LivedApart
  <2>4. n({"off", "idle"} \cup K) = Cardinality(created..(Now - 1))
    BY <2>1, <2>2, Zenon
  <2>5. Cardinality(created..(Now - 1)) = life
    BY ObservedIs
  <2> HIDE DEF n, K, life
  <2> QED BY <2>3, <2>4, <2>5
<1>3. n(K) = n({"down"}) + n(L)
  <2>1. K = {"down"} \cup L /\ {"down"} \cap L = {}
    BY DEF Health!Kinds
  <2>2. n({"down"} \cup L) = n({"down"}) + n(L)
    <3> HIDE DEF L
    <3> QED BY <2>1, LivedApart
  <2>3. n(K) = n({"down"} \cup L)
    BY <2>1, Zenon
  <2> HIDE DEF n, K, L
  <2> QED BY <2>2, <2>3
<1>4. n({"ok", "damaged"}) = n({"damaged"}) + n({"ok"})
  <2>1. {"ok", "damaged"} = {"damaged"} \cup {"ok"} /\ {"damaged"} \cap {"ok"} = {}
    OBVIOUS
  <2>2. n({"damaged"} \cup {"ok"}) = n({"damaged"}) + n({"ok"})
    BY <2>1, LivedApart
  <2>3. n({"ok", "damaged"}) = n({"damaged"} \cup {"ok"})
    BY <2>1, Zenon
  <2> HIDE DEF n
  <2> QED BY <2>2, <2>3
<1>5. /\ Cardinality(sampled) = n(K) /\ Cardinality({s \in sampled : s.recording}) = n(L)
      /\ Cardinality({r \in history.recordings : r.start >= 0}) = n({"ok", "damaged"})
      /\ Cardinality(Health!Complete(history)) = n({"ok"})
  BY SamplesCounted, RecordingsCounted, Zenon
<1>6. /\ life \in Nat \ {0}
      /\ Health!Later(1, Now - Health!ObservationStart(history)) = life
      /\ Cardinality(created..(Now - 1)) = life
  <2>1. /\ Health!ObservationStart(history) = created /\ life \in Nat \ {0}
        /\ Health!Later(1, life) = life /\ Cardinality(created..(Now - 1)) = life
    BY ObservedIs
  <2> HIDE DEF history
  <2> QED BY <2>1
<1>7. /\ ~(Health!Sooner(10000, Health!Rate(Cardinality(sampled),
             Health!Later(1, Now - Health!ObservationStart(history)))) < 9500)
      /\ Health!Rate(Cardinality({s \in sampled : s.recording}), Cardinality(sampled)) # -1
      /\ ~(Health!Rate(Cardinality({s \in sampled : s.recording}), Cardinality(sampled)) < 9950)
      /\ Health!Rate(Cardinality(Health!Complete(history)),
                     Cardinality({x \in history.recordings : x.start >= 0})) # -1
      /\ ~(Health!Rate(Cardinality(Health!Complete(history)),
                       Cardinality({x \in history.recordings : x.start >= 0})) < 9950)
  <2>1. CriteriaMet(history, sampled)
    BY RowIs
  <2> HIDE DEF history, sampled
  <2> QED BY <2>1 DEF CriteriaMet
<1> DEFINE k == n(K)
           l == n(L)
           ok == n({"ok"})
           made == n({"ok", "damaged"})
           off == n({"off", "idle"})
           down == n({"down"})
           damaged == n({"damaged"})
<1>8. /\ ~(Health!Sooner(10000, Health!Rate(k, life)) < 9500)
      /\ Health!Rate(l, k) # -1 /\ ~(Health!Rate(l, k) < 9950)
      /\ Health!Rate(ok, made) # -1 /\ ~(Health!Rate(ok, made) < 9950)
  <2> DEFINE r == {x \in history.recordings : x.start >= 0}
             c == Health!Complete(history)
             y == {s \in sampled : s.recording}
             later == Health!Later(1, Now - Health!ObservationStart(history))
  <2>1. /\ Cardinality(sampled) = k /\ Cardinality(y) = l /\ later = life
        /\ Cardinality(r) = made /\ Cardinality(c) = ok
    BY <1>5, <1>6
  <2>2. /\ ~(Health!Sooner(10000, Health!Rate(Cardinality(sampled), later)) < 9500)
        /\ Health!Rate(Cardinality(y), Cardinality(sampled)) # -1
        /\ ~(Health!Rate(Cardinality(y), Cardinality(sampled)) < 9950)
        /\ Health!Rate(Cardinality(c), Cardinality(r)) # -1
        /\ ~(Health!Rate(Cardinality(c), Cardinality(r)) < 9950)
    BY <1>7
  <2> HIDE DEF history, sampled, y, r, c, later, k, l, ok, made, life
  <2> QED BY <2>1, <2>2
<1>9. k \in Nat /\ l \in Nat /\ ok \in Nat /\ made \in Nat /\ off \in Nat /\ down \in Nat
      /\ damaged \in Nat /\ off + k = life /\ k = down + l /\ made = damaged + ok
  BY <1>1, <1>2, <1>3, <1>4
<1> HIDE DEF k, l, ok, made, off, down, damaged, life
<1>10. 20000 * off <= 1001 * life
  <2>0. life \in Nat /\ life > 0
    BY <1>6
  <2>1. Health!Rate(k, life) \in Nat
    BY <2>0, <1>9, RateKnown
  <2>2. Health!Rate(k, life) >= 9500
    BY <2>1, <1>8 DEF Health!Sooner
  <2>3. 18999 * life <= 20000 * k
    BY <2>0, <2>2, <1>9, AtLeast
  <2> QED BY <2>0, <2>3, <1>9
<1>11. 20000 * down <= 101 * k
  <2>1. k > 0
    BY <1>8, <1>9, RateKnown
  <2>2. Health!Rate(l, k) >= 9950
    BY <2>1, <1>8, <1>9, RateKnown
  <2>3. 19899 * k <= 20000 * l
    BY <2>1, <2>2, <1>9, AtLeast
  <2> QED BY <2>3, <1>9
<1>12. 20000 * damaged <= 101 * made
  <2>1. made > 0
    BY <1>8, <1>9, RateKnown
  <2>2. Health!Rate(ok, made) >= 9950
    BY <2>1, <1>8, <1>9, RateKnown
  <2>3. 19899 * made <= 20000 * ok
    BY <2>1, <2>2, <1>9, AtLeast
  <2> QED BY <2>3, <1>9
<1> QED BY <1>6, <1>10, <1>11, <1>12 DEF PassCounted, k, l, ok, made, off, down, damaged, life

\* PassEarned, for windows of any length.
THEOREM PassIsEarned ==
  ASSUME NEW story, NEW created, IsStory(story, created)
  PROVE  Health!PassEarned(story, created)
<1> DEFINE history == Health!HistoryOf(story, created)
           life == created..(Now - 1)
           minutes(kinds) == Health!Cardinality({t \in life : story[t] \in kinds})
<1> SUFFICES ASSUME Health!Row(history, 24).verdict = "pass"
    PROVE  /\ 20000 * minutes({"off", "idle"}) <= 1001 * Health!Cardinality(life)
           /\ 20000 * minutes({"down"}) <= 101 * minutes(Health!Kinds \ {"off", "idle"})
           /\ 20000 * minutes({"damaged"}) <= 101 * minutes({"ok", "damaged"})
           /\ \A t \in life : story[t] \in Health!Missing /\ Health!Between(history, t) =>
                 story[t] = "off" /\ Health!OutsideWindows(story, history, t)
           /\ \A s, t \in life :
                 /\ s <= t /\ \A u \in s..t : story[u] = "down"
                 /\ t = Now - 1 \/ story[t + 1] \notin {"down", "off", "idle"}
                 => t - s < MaxOutage
  BY DEF Health!PassEarned
<1>1. /\ Health!Gaps(history) = {}
      /\ ~(Health!LongestOutage(history) > MaxOutage)
  <2>1. CriteriaMet(history, Health!Expected(history.samples))
    BY RowIs
  <2> HIDE DEF history
  <2> QED BY <2>1 DEF CriteriaMet
<1>2. /\ 20000 * minutes({"off", "idle"}) <= 1001 * Health!Cardinality(life)
      /\ 20000 * minutes({"down"}) <= 101 * minutes(Health!Kinds \ {"off", "idle"})
      /\ 20000 * minutes({"damaged"}) <= 101 * minutes({"ok", "damaged"})
  <2> DEFINE n(kinds) == Cardinality(Lived(story, created, kinds))
             K == Health!Kinds \ {"off", "idle"}
  <2>1. /\ 20000 * n({"off", "idle"}) <= 1001 * Cardinality(life)
        /\ 20000 * n({"down"}) <= 101 * n(K)
        /\ 20000 * n({"damaged"}) <= 101 * n({"ok", "damaged"})
    <3>1. PassCounted(story, created)
      BY PassCounts
    <3> HIDE DEF history, life
    <3> QED BY <3>1 DEF PassCounted, life
  <2>2. ASSUME NEW kinds
        PROVE  minutes(kinds) = n(kinds)
    <3>1. Lived(story, created, kinds) = {t \in life : story[t] \in kinds}
      BY Zenon DEF Lived
    <3> QED BY <3>1, SameCardinality, Zenon
  <2>3. Health!Cardinality(life) = Cardinality(life)
    BY SameCardinality
  <2> HIDE DEF n, minutes, life, K
  <2>4. 20000 * minutes({"off", "idle"}) <= 1001 * Health!Cardinality(life)
    BY <2>1, <2>2, <2>3
  <2>5. 20000 * minutes({"down"}) <= 101 * minutes(K)
    BY <2>1, <2>2
  <2>6. 20000 * minutes({"damaged"}) <= 101 * minutes({"ok", "damaged"})
    BY <2>1, <2>2
  <2> QED BY <2>4, <2>5, <2>6 DEF K
<1>3. ASSUME NEW t \in life, story[t] \in Health!Missing, Health!Between(history, t)
      PROVE  story[t] = "off" /\ Health!OutsideWindows(story, history, t)
  <2>1. Health!GapsFound(story, created)
    BY GapsAreFound
  <2>2. t \notin UNION {g.start..(g.end - 1) : g \in Health!Gaps(history)}
    BY <1>1
  <2> HIDE DEF history
  <2> QED BY <2>1, <2>2, <1>3 DEF Health!GapsFound, history
<1>4. ASSUME NEW s \in life, NEW t \in life, s <= t, \A u \in s..t : story[u] = "down",
             t = Now - 1 \/ story[t + 1] \notin {"down", "off", "idle"}
      PROVE  t - s < MaxOutage
  <2>1. PICK o \in Health!Outages(history) : o.minutes > t - s
    BY <1>4, OutageIs
  <2>2. /\ o.minutes <= Health!LongestOutage(history)
        /\ Health!LongestOutage(history) \in 0..Now /\ o.minutes \in 0..Now
    BY LongestIs
  <2>3. s \in Nat /\ t \in Nat /\ MaxOutage \in Nat /\ Now \in Nat
    BY MinutesAre, HealthAssumption DEF IsStory
  <2> HIDE DEF history, life
  <2> QED BY <2>1, <2>2, <2>3, <1>1
<1> QED BY <1>2, <1>3, <1>4

-----------------------------------------------------------------------------
(* The page and the script                                                 *)
LEMMA IgnoredRow ==
  ASSUME NEW history, history.monitored = FALSE, NEW hours
  PROVE  LET row == Health!Row(history, hours) IN
         /\ row.monitored = FALSE /\ row.gaps = {} /\ row.verdict = "ignored"
         /\ Health!Issues(row) = {}
<1> DEFINE row == Health!Row(history, hours)
           sampled == Health!Expected(history.samples)
           coverage == Health!Sooner(10000, Health!Rate(Health!Cardinality(sampled),
                          Health!Later(1, Now - Health!ObservationStart(history))))
           available == Health!Rate(Health!Cardinality({s \in sampled : s.recording}),
                                    Health!Cardinality(sampled))
           complete == Health!Rate(Health!Cardinality(Health!Complete(history)),
                          Health!Cardinality({r \in history.recordings : r.start >= 0}))
           gaps == IF history.monitored THEN Health!Gaps(history) ELSE {}
           v == Health!Verdict(coverage, available, complete,
                   Health!LongestOutage(history), Health!Count(history, "camera.ffmpeg_failure_streak"),
                   Health!Count(history, "camera.ffmpeg_exited"), Health!MaxFfmpegFailures(hours),
                   Health!Cardinality(gaps))
<1>1. row = [monitored |-> history.monitored, gaps |-> gaps,
             longest |-> Health!LongestOutage(history), coverage |-> coverage,
             verdict |-> IF history.monitored THEN v.verdict ELSE "ignored",
             reasons |-> IF history.monitored
                         THEN v.reasons \cup {g.cause : g \in gaps} ELSE {}]
  BY DEF Health!Row
<1>2. gaps = {}
  OBVIOUS
<1> HIDE DEF row, v, coverage, gaps
<1>3. row.monitored = FALSE /\ row.gaps = {} /\ row.verdict = "ignored"
  BY <1>1, <1>2
<1>4. Health!Issues(row) = {}
  BY <1>3 DEF Health!Issues
<1> QED BY <1>3, <1>4 DEF row

\* The verdict over two cameras, of which one is not monitored.
LEMMA OverallIs ==
  ASSUME NEW row, row.monitored = TRUE, row.verdict \in {"pass", "fail", "collecting"},
         NEW idle, idle.monitored = FALSE, idle.verdict = "ignored"
  PROVE  Health!Overall({row, idle}) = row.verdict
<1>1. (\E r \in {row, idle} : r.verdict = "fail") <=> row.verdict = "fail"
  OBVIOUS
<1>2. (\E r \in {row, idle} : r.verdict = "collecting") <=> row.verdict = "collecting"
  OBVIOUS
<1>3. ~(\A r \in {row, idle} : ~r.monitored)
  BY Zenon
<1> QED BY <1>1, <1>2, <1>3 DEF Health!Overall

\* What a row's list holds.
LEMMA IssuesAre ==
  ASSUME NEW story, NEW created, IsStory(story, created)
  PROVE  LET row == Health!Row(Health!HistoryOf(story, created), 24) IN
         /\ Health!Issues(row) = {} <=> row.verdict = "pass"
         /\ row.verdict = "fail" => \E i \in Health!Issues(row) : i.severity = "error"
<1> DEFINE history == Health!HistoryOf(story, created)
           row == Health!Row(history, 24)
           Severity(g) == IF g.cause = "unknown" THEN "warning" ELSE "error"
           Issue(g) == [kind |-> "recording_gap", severity |-> Severity(g), at |-> g.start]
           camera == [kind |-> "camera_reliability",
                      severity |-> IF row.verdict = "fail" THEN "error" ELSE "warning",
                      at |-> Health!Never]
<1>1. /\ row.gaps = Health!Gaps(history)
      /\ row.verdict \in {"pass", "fail", "collecting"}
      /\ row.verdict = "pass" => CriteriaMet(history, Health!Expected(history.samples))
  BY RowIs
<1>2. row.verdict = "pass" => Health!Gaps(history) = {}
  <2> HIDE DEF history, row
  <2> QED BY <1>1 DEF CriteriaMet
<1>3. \A g \in Health!Gaps(history) : g.cause # "unknown"
  BY CausesAreTrue DEF Health!CausesTrue
<1>4. /\ row.gaps # {} => \A i : i \in Health!Issues(row) <=> \E g \in row.gaps : i = Issue(g)
      /\ row.gaps = {} /\ row.verdict \in {"fail", "collecting"} => Health!Issues(row) = {camera}
      /\ row.gaps = {} /\ row.verdict \notin {"fail", "collecting"} => Health!Issues(row) = {}
  <2> HIDE DEF row
  <2> QED BY DEF Health!Issues
<1>5. /\ \A g : Issue(g).severity = Severity(g)
      /\ row.verdict = "fail" => camera.severity = "error"
  OBVIOUS
<1> HIDE DEF row, history, Issue, camera
<1>6. ASSUME row.gaps # {}
      PROVE  row.verdict # "pass" /\ \E i \in Health!Issues(row) : i.severity = "error"
  <2>1. PICK g \in row.gaps : TRUE
    BY <1>6
  <2>2. Issue(g) \in Health!Issues(row) /\ Issue(g).severity = "error"
    BY <2>1, <1>1, <1>3, <1>4, <1>5
  <2> QED BY <2>2, <1>1, <1>2, <1>6
<1>7. ASSUME row.gaps = {}
      PROVE  /\ Health!Issues(row) = {} <=> row.verdict = "pass"
             /\ row.verdict = "fail" => \E i \in Health!Issues(row) : i.severity = "error"
  BY <1>1, <1>4, <1>5, <1>7
<1> QED BY <1>6, <1>7 DEF row, history

\* HeadlineAgrees, for stories of any length.
THEOREM HeadlinesAgree ==
  ASSUME NEW story, NEW created, IsStory(story, created)
  PROVE  Health!HeadlineAgrees(story, created)
<1> DEFINE history == Health!HistoryOf(story, created)
           idle == [history EXCEPT !.monitored = FALSE]
           row == Health!Row(history, 24)
           spare == Health!Row(idle, 24)
           report == Health!HealthReport({history, idle}, 24)
           up == \A t \in Health!Minutes : story[t] # "off"
           Code(ignore) == Health!ExitCode({history, idle}, 24, up, ignore)
<1>1. idle.monitored = FALSE
  BY DEF Health!HistoryOf
<1>2. /\ row.monitored = TRUE /\ row.verdict \in {"pass", "fail", "collecting"}
      /\ spare.monitored = FALSE /\ spare.verdict = "ignored" /\ Health!Issues(spare) = {}
  <2> HIDE DEF idle
  <2>1. row.monitored = TRUE /\ row.verdict \in {"pass", "fail", "collecting"}
    BY RowIs
  <2>2. spare.monitored = FALSE /\ spare.verdict = "ignored" /\ Health!Issues(spare) = {}
    BY <1>1, RowIs, IgnoredRow, ZenonT(60)
  <2> QED BY <2>1, <2>2
<1>3. /\ Health!Issues(row) = {} <=> row.verdict = "pass"
      /\ row.verdict = "fail" => \E i \in Health!Issues(row) : i.severity = "error"
  BY IssuesAre
<1> HIDE DEF history, idle
<1>4. {Health!Row(h, 24) : h \in {history, idle}} = {row, spare}
  OBVIOUS
<1> HIDE DEF row, spare
<1>5. Health!Overall({row, spare}) = row.verdict
  BY <1>2, OverallIs
<1>6. report.overall = row.verdict /\ report.issues = Health!Issues(row)
  <2>1. report = [overall |-> Health!Overall({row, spare}), rows |-> {row, spare},
                  issues |-> UNION {Health!Issues(r) : r \in {row, spare}}]
    BY <1>4 DEF Health!HealthReport
  <2>2. UNION {Health!Issues(r) : r \in {row, spare}} = Health!Issues(row)
    BY <1>2
  <2> HIDE DEF report
  <2> QED BY <2>1, <2>2, <1>5
<1>7. Health!Stability({history, idle}, 24).overall = row.verdict
  <2>1. Health!Stability({history, idle}, 24) =
          [overall |-> Health!Overall({row, spare}), rows |-> {row, spare}]
    BY <1>4 DEF Health!Stability
  <2> QED BY <2>1, <1>5
<1>8. ASSUME NEW ignore \in BOOLEAN
      PROVE  /\ Code(ignore) = 0 <=> row.verdict = "pass" /\ (up \/ ignore)
             /\ Code(ignore) = 1 <=> row.verdict = "fail"
  <2> HIDE DEF up
  <2>1. CASE row.verdict = "fail"
    BY <2>1, <1>7 DEF Health!ExitCode, Health!EffectiveVerdict
  <2>2. CASE row.verdict = "collecting"
    BY <2>2, <1>7 DEF Health!ExitCode, Health!EffectiveVerdict
  <2>3. CASE row.verdict = "pass" /\ (up \/ ignore)
    BY <2>3, <1>7 DEF Health!ExitCode, Health!EffectiveVerdict
  <2>4. CASE row.verdict = "pass" /\ ~(up \/ ignore)
    BY <2>4, <1>7 DEF Health!ExitCode, Health!EffectiveVerdict
  <2> QED BY <2>1, <2>2, <2>3, <2>4, <1>2
<1>9. Health!HeadlineAgrees(story, created) <=>
        /\ report.overall = row.verdict
        /\ report.issues = {} <=> report.overall = "pass"
        /\ report.overall = "fail" => \E i \in report.issues : i.severity = "error"
        /\ \A ignore \in BOOLEAN :
              /\ Code(ignore) = 0 <=> report.issues = {} /\ (up \/ ignore)
              /\ Code(ignore) = 1 <=> report.overall = "fail"
  BY DEF Health!HeadlineAgrees, history, idle, row
<1> HIDE DEF report, up, Code
<1> QED BY <1>3, <1>6, <1>8, <1>9

-----------------------------------------------------------------------------
\* A run's story is one.
StoryChosen == Is("story") => IsStory(case[2], case[3])

LEMMA OnlyStories == Spec => []StoryChosen
<1>1. Init => StoryChosen
  BY DEF Init, StoryChosen, Is
<1>2. StoryChosen /\ [Next]_case => StoryChosen'
  <2> SUFFICES ASSUME StoryChosen, [Next]_case
               PROVE  StoryChosen'
    OBVIOUS
  <2>1. CASE StoryCase
    BY <2>1 DEF StoryCase, StoryChosen, Is, IsStory
  <2>2. CASE ExportCase
    BY <2>2 DEF ExportCase, StoryChosen, Is
  <2>3. CASE CameraCase
    BY <2>3 DEF CameraCase, StoryChosen, Is
  <2>4. CASE SamplesCase
    BY <2>4 DEF SamplesCase, StoryChosen, Is
  <2>5. CASE WindowsCase
    BY <2>5 DEF WindowsCase, StoryChosen, Is
  <2>6. CASE UNCHANGED case
    BY <2>6 DEF StoryChosen, Is
  <2> QED BY <2>1, <2>2, <2>3, <2>4, <2>5, <2>6 DEF Next
<1> QED BY <1>1, <1>2, PTL DEF Spec

\* The report tells the truth about every story: it finds the gaps, blames what
\* caused them, passes only who has earned it, and its headline agrees with its
\* list.
THEOREM ReportIsTrue == Spec => []ReportTrue
<1>1. StoryChosen => ReportTrue
  BY GapsAreFound, CausesAreTrue, PassIsEarned, HeadlinesAgree DEF StoryChosen, ReportTrue
<1> QED BY <1>1, OnlyStories, PTL

-----------------------------------------------------------------------------
(* The present state of the cameras                                        *)

LEMMA ShownAre ==
  ASSUME NEW c \in Camera, Views!Plausible(c), NEW hasWorker \in BOOLEAN,
         ~hasWorker => c.worker = Views!NoWorker
  PROVE  Views!SamplesShown(c, hasWorker)
<1> DEFINE w == c.worker
           expected == c.plan \in Views!ExpectedStates
           state == Views!RealtimeState(c, hasWorker)
           link == IF Views!Healthy(w) THEN "online" ELSE c.link
           shown == Views!Realtime(c, hasWorker)
<1>1. /\ shown.link = link
      /\ shown.abnormal <=> c.enabled /\ (link = "offline" \/ (expected /\ state # "RECORDING") \/ w.alert)
  BY DEF Views!Realtime
<1>2. \A s \in Views!Sample(c) :
        /\ c.enabled
        /\ s.online = IF ~expected THEN "none" ELSE IF w.state = "RECORDING" THEN "yes" ELSE "no"
  BY DEF Views!Sample
<1>3. c.enabled \in BOOLEAN /\ w.alert \in BOOLEAN
  BY DEF Camera, Views!Worker
<1>4. hasWorker => state = w.state
  BY DEF Views!RealtimeState
<1>5. ~hasWorker => state = c.saved /\ w.state = "STOPPED"
  BY DEF Views!RealtimeState, Views!NoWorker
<1> HIDE DEF w, expected, state, link, shown
<1>6. ASSUME NEW s \in Views!Sample(c), s.online = "no"
      PROVE  shown.abnormal \/ (~hasWorker /\ c.saved = "RECORDING")
  BY <1>1, <1>2, <1>4, <1>5, <1>6
<1>7. ASSUME NEW s \in Views!Sample(c), shown.abnormal, s.online # "no"
      PROVE  shown.link = "offline" \/ w.alert
  BY <1>1, <1>2, <1>4, <1>5, <1>7
<1> QED BY <1>6, <1>7 DEF Views!SamplesShown, shown, w

LEMMA DifferencesAre ==
  ASSUME NEW c \in Camera, Views!Plausible(c), NEW hasWorker \in BOOLEAN,
         ~hasWorker => c.worker = Views!NoWorker
  PROVE  Views!SnapshotDiffers(c, hasWorker)
<1> DEFINE w == c.worker
           expected == c.plan \in Views!ExpectedStates
           state == Views!RealtimeState(c, hasWorker)
           link == IF Views!Healthy(w) THEN "online" ELSE c.link
           feed == Views!Realtime(c, hasWorker)
           old == Views!Snapshot(c)
<1>1. /\ feed.link = link
      /\ feed.abnormal = (c.enabled /\ (link = "offline" \/ (expected /\ state # "RECORDING") \/ w.alert))
  BY DEF Views!Realtime
<1>2. old.abnormal = ((c.enabled /\ c.autoRecord /\ w.state # "RECORDING") \/ w.alert)
  BY DEF Views!Snapshot
<1>3. /\ c.enabled \in BOOLEAN /\ c.autoRecord \in BOOLEAN /\ w.alert \in BOOLEAN
      /\ c.plan \in Views!Plan
  BY DEF Camera, Views!Worker
<1>4. /\ hasWorker => state = w.state
      /\ ~hasWorker => state = c.saved /\ w.state = "STOPPED"
  BY DEF Views!RealtimeState, Views!NoWorker
<1>5. /\ (c.enabled /\ c.autoRecord) \/ c.plan \in {"disabled", "manual_override", "manual_paused"}
      /\ (c.enabled /\ c.autoRecord) => c.plan # "disabled"
  BY DEF Views!Plausible
<1> HIDE DEF w, expected, state, link, feed, old
<1>6. SUFFICES ASSUME c.enabled, c.plan \notin {"scheduled", "manual_paused", "manual_override"},
                      link # "offline", hasWorker \/ c.saved = "STOPPED"
               PROVE  feed.abnormal = old.abnormal
  BY <1>1 DEF Views!SnapshotDiffers, feed, old
<1>7. CASE c.autoRecord
  <2>1. expected
    BY <1>3, <1>5, <1>6, <1>7 DEF expected, Views!ExpectedStates, Views!Plan
  <2>2. state # "RECORDING" <=> w.state # "RECORDING"
    BY <1>4, <1>6
  <2> QED BY <2>1, <2>2, <1>1, <1>2, <1>3, <1>6, <1>7
<1>8. CASE ~c.autoRecord
  <2>1. ~expected
    BY <1>5, <1>6, <1>8 DEF expected, Views!ExpectedStates
  <2> QED BY <2>1, <1>1, <1>2, <1>3, <1>6, <1>8
<1> QED BY <1>3, <1>7, <1>8

LEMMA SameCount ==
  ASSUME NEW S
  PROVE  Views!Cardinality(S) = Cardinality(S)
BY Zenon DEF Views!Cardinality, Cardinality

\* A sum over a finite set, taken element by element in any order, is what its
\* closed form says: a smallest part with another value would have an element
\* without which it has another value, too.
Folded(S, count, h) ==
  \A s \in SUBSET S :
     h[s] = IF s = {} THEN 0
            ELSE h[s \ {CHOOSE x \in s : TRUE}] + count[CHOOSE x \in s : TRUE]
Apart(S, count, g) ==
  /\ g[{}] = 0
  /\ \A s \in SUBSET S : \A x \in s : g[s] = g[s \ {x}] + count[x]

LEMMA SumIs ==
  ASSUME NEW S, IsFiniteSet(S), NEW count, NEW h, NEW g, Folded(S, count, h), Apart(S, count, g)
  PROVE  h[S] = g[S]
<1> DEFINE Wrong(n) == \E s \in SUBSET S : Cardinality(s) = n /\ h[s] # g[s]
           T == {n \in Nat : Wrong(n)}
<1>1. \A s \in SUBSET S : IsFiniteSet(s) /\ Cardinality(s) \in Nat
  BY FS_Subset, FS_CardinalityType
<1> SUFFICES ASSUME h[S] # g[S]
             PROVE  FALSE
  OBVIOUS
<1>2. T # {} /\ T \subseteq Nat
  <2>1. S \in SUBSET S /\ Cardinality(S) \in Nat
    BY <1>1
  <2>2. Cardinality(S) \in T
    BY <2>1
  <2> QED BY <2>2
<1>3. PICK n \in T : \A m \in T : n <= m
  <2> HIDE DEF T
  <2> QED BY <1>2, LeastNumber
<1>4. PICK s \in SUBSET S : Cardinality(s) = n /\ h[s] # g[s]
  BY <1>3
<1>5. s # {}
  BY <1>4 DEF Folded, Apart
<1> DEFINE x == CHOOSE y \in s : TRUE
           t == s \ {x}
<1>6. x \in s
  BY <1>5
<1>7. h[s] = h[t] + count[x] /\ g[s] = g[t] + count[x]
  BY <1>5, <1>6 DEF Folded, Apart
<1> HIDE DEF x
<1>8. t \in SUBSET S /\ Cardinality(t) = n - 1 /\ n \in Nat /\ n - 1 \in Nat
  <2>1. IsFiniteSet(s) /\ Cardinality(s) \in Nat /\ Cardinality(t) \in Nat /\ t \in SUBSET S
    BY <1>1
  <2>2. Cardinality(t) = Cardinality(s) - 1
    BY <2>1, <1>6, FS_RemoveElement
  <2> QED BY <2>1, <2>2, <1>4
<1>9. h[t] = g[t]
  <2> SUFFICES ASSUME h[t] # g[t]
               PROVE  FALSE
    OBVIOUS
  <2>1. n - 1 \in T
    BY <1>8
  <2>2. n <= n - 1
    BY <2>1, <1>3
  <2> QED BY <2>2, <1>8
<1> QED BY <1>4, <1>7, <1>9

\* A bucket of the timeline, and the samples that the buckets of s count.
Bucket(expected, width, b) ==
  [start |-> b,
   samples |-> Views!Cardinality({e \in expected : Views!BucketStart(e.at, width) = b}),
   online |-> Views!Cardinality({e \in expected : Views!BucketStart(e.at, width) = b /\ e.online})]
Counted(expected, width, s) ==
  {e \in expected : \E x \in s : x.start = Views!BucketStart(e.at, width)}

\* The counts of a set of buckets, taken out one by one.
LEMMA CountedApart ==
  ASSUME NEW expected, NEW width, NEW all, IsFiniteSet(all), all \subseteq expected,
         NEW s, NEW x \in s, \A y \in s : y.start = x.start => y = x
  PROVE  Cardinality(Counted(expected, width, s) \cap all) =
           Cardinality(Counted(expected, width, s \ {x}) \cap all)
           + Cardinality({e \in all : Views!BucketStart(e.at, width) = x.start})
<1> DEFINE A == Counted(expected, width, s \ {x}) \cap all
           B == {e \in all : Views!BucketStart(e.at, width) = x.start}
           C == Counted(expected, width, s) \cap all
<1>1. C = A \cup B
  BY DEF Counted
<1>2. A \cap B = {}
  BY DEF Counted
<1>3. IsFiniteSet(A) /\ IsFiniteSet(B) /\ A \subseteq all /\ B \subseteq all
  <2>1. A \subseteq all /\ B \subseteq all
    OBVIOUS
  <2> HIDE DEF A, B
  <2> QED BY <2>1, FS_Subset
<1> HIDE DEF A, B, C
<1>4. Cardinality(A) \in Nat /\ Cardinality(B) \in Nat
  BY <1>3, FS_CardinalityType
<1>5. Cardinality(A \cup B) = Cardinality(A) + Cardinality(B) - Cardinality(A \cap B)
  BY <1>3, FS_Union
<1>6. Cardinality(A \cap B) = 0
  BY <1>2, FS_EmptySet
<1>7. Cardinality(C) = Cardinality(A \cup B)
  BY <1>1
<1>8. Cardinality(C) = Cardinality(A) + Cardinality(B)
  BY <1>4, <1>5, <1>6, <1>7
<1> QED BY <1>8 DEF A, B, C

LEMMA TimelineIs ==
  ASSUME NEW samples, NEW monitored, NEW width
  PROVE  LET timeline == Views!Trends(samples, monitored, width).timeline
             expected == {e \in samples : e.expected} IN
         /\ \A x \in timeline : \E e \in expected :
              x = Bucket(expected, width, Views!BucketStart(e.at, width))
         /\ \A e \in expected :
              Bucket(expected, width, Views!BucketStart(e.at, width)) \in timeline
BY DEF Views!Trends, Bucket

LEMMA BucketIs ==
  ASSUME NEW expected, NEW width, NEW b
  PROVE  LET x == Bucket(expected, width, b) IN
         /\ x.start = b
         /\ x.samples = Cardinality({e \in expected : Views!BucketStart(e.at, width) = b})
         /\ x.online = Cardinality({e \in expected :
                                       Views!BucketStart(e.at, width) = b /\ e.online})
<1> DEFINE x == Bucket(expected, width, b)
           P == {e \in expected : Views!BucketStart(e.at, width) = b}
           Q == {e \in expected : Views!BucketStart(e.at, width) = b /\ e.online}
<1>1. x.start = b /\ x.samples = Views!Cardinality(P) /\ x.online = Views!Cardinality(Q)
  BY DEF Bucket
<1>2. Views!Cardinality(P) = Cardinality(P) /\ Views!Cardinality(Q) = Cardinality(Q)
  BY SameCount, Zenon
<1> HIDE DEF x, P, Q
<1>3. x.start = b /\ x.samples = Cardinality(P) /\ x.online = Cardinality(Q)
  BY <1>1, <1>2
<1> QED BY <1>3 DEF x, P, Q

\* TimelineAdds, for any finite set of samples.
THEOREM TimelinesAdd ==
  ASSUME NEW samples, IsFiniteSet(samples), NEW monitored, NEW width,
         \A e \in samples : e.online \in BOOLEAN
  PROVE  Views!TimelineAdds(samples, monitored, width)
<1> DEFINE trends == Views!Trends(samples, monitored, width)
           T == trends.timeline
           expected == {e \in samples : e.expected}
           online == {e \in expected : e.online}
           Start(e) == Views!BucketStart(e.at, width)
           IterS == CHOOSE iter :
              iter = [s \in SUBSET T |-> IF s = {} THEN 0
                        ELSE iter[s \ {CHOOSE x \in s : TRUE}] + (CHOOSE x \in s : TRUE).samples]
           IterO == CHOOSE iter :
              iter = [s \in SUBSET T |-> IF s = {} THEN 0
                        ELSE iter[s \ {CHOOSE x \in s : TRUE}] + (CHOOSE x \in s : TRUE).online]
           gS == [s \in SUBSET T |-> Cardinality(Counted(expected, width, s) \cap expected)]
           gO == [s \in SUBSET T |-> Cardinality(Counted(expected, width, s) \cap online)]
           cS == [x \in T |-> x.samples]
           cO == [x \in T |-> x.online]
<1>1. /\ IsFiniteSet(expected) /\ IsFiniteSet(online) /\ online \subseteq expected
      /\ Cardinality(online) <= Cardinality(expected)
  <2>1. expected \subseteq samples /\ online \subseteq expected
    OBVIOUS
  <2> HIDE DEF expected, online
  <2> QED BY <2>1, FS_Subset
<1>2. /\ \A x \in T : \E e \in expected : x = Bucket(expected, width, Start(e))
      /\ \A e \in expected : Bucket(expected, width, Start(e)) \in T
  BY TimelineIs
<1> HIDE DEF expected, online, T
<1>3. \A b : /\ Bucket(expected, width, b).start = b
             /\ Bucket(expected, width, b).samples = Cardinality({e \in expected : Start(e) = b})
             /\ Bucket(expected, width, b).online = Cardinality({e \in expected : Start(e) = b /\ e.online})
  BY BucketIs
<1>4. \A b : {e \in expected : Start(e) = b /\ e.online} = {e \in online : Start(e) = b}
  BY DEF online
<1>5. \A x \in T : /\ x.samples = Cardinality({e \in expected : Start(e) = x.start})
                   /\ x.online = Cardinality({e \in online : Start(e) = x.start})
                   /\ \A y \in T : y.start = x.start => y = x
  <2> HIDE DEF Start
  <2>1. ASSUME NEW x \in T
        PROVE  /\ x = Bucket(expected, width, x.start)
               /\ x.samples = Cardinality({e \in expected : Start(e) = x.start})
               /\ x.online = Cardinality({e \in online : Start(e) = x.start})
    <3>1. PICK e \in expected : x = Bucket(expected, width, Start(e))
      BY <1>2
    <3>2. x.start = Start(e)
      BY <3>1, <1>3
    <3>3. x.samples = Cardinality({d \in expected : Start(d) = x.start})
      BY <3>1, <3>2, <1>3
    <3>4. x.online = Cardinality({d \in expected : Start(d) = x.start /\ d.online})
      BY <3>1, <3>2, <1>3
    <3> QED BY <3>1, <3>2, <3>3, <3>4, <1>4
  <2> QED BY <2>1
<1>6. \A s \in SUBSET T : \A x \in s :
        /\ gS[s] = gS[s \ {x}] + cS[x]
        /\ gO[s] = gO[s \ {x}] + cO[x]
  <2>1. ASSUME NEW s \in SUBSET T, NEW x \in s
        PROVE  /\ Cardinality(Counted(expected, width, s) \cap expected) =
                    Cardinality(Counted(expected, width, s \ {x}) \cap expected) + x.samples
               /\ Cardinality(Counted(expected, width, s) \cap online) =
                    Cardinality(Counted(expected, width, s \ {x}) \cap online) + x.online
    <3>1. x \in T /\ \A y \in s : y.start = x.start => y = x
      BY <1>5
    <3>2. Cardinality(Counted(expected, width, s) \cap expected) =
            Cardinality(Counted(expected, width, s \ {x}) \cap expected)
            + Cardinality({e \in expected : Start(e) = x.start})
      BY <3>1, <1>1, CountedApart
    <3>3. Cardinality(Counted(expected, width, s) \cap online) =
            Cardinality(Counted(expected, width, s \ {x}) \cap online)
            + Cardinality({e \in online : Start(e) = x.start})
      BY <3>1, <1>1, CountedApart
    <3> QED BY <3>1, <3>2, <3>3, <1>5
  <2>2. \A s \in SUBSET T : \A x \in s : s \ {x} \in SUBSET T /\ x \in T
    OBVIOUS
  <2> QED BY <2>1, <2>2
<1>7. gS[{}] = 0 /\ gO[{}] = 0
  <2>1. Counted(expected, width, {}) \cap expected = {} /\ Counted(expected, width, {}) \cap online = {}
    BY DEF Counted
  <2> QED BY <2>1, FS_EmptySet
<1>8. IsFiniteSet(T)
  <2> DEFINE f == [e \in expected |-> Bucket(expected, width, Start(e))]
  <2>1. f \in Surjection(expected, T)
    BY <1>2 DEF Surjection
  <2> HIDE DEF f
  <2> QED BY <2>1, <1>1, FS_Surjection
<1>9. gS[T] = Cardinality(expected) /\ gO[T] = Cardinality(online)
  <2> HIDE DEF Start
  <2>1. \A e \in expected : \E x \in T : x.start = Start(e)
    BY <1>2, <1>3
  <2>2. Counted(expected, width, T) = expected
    BY <2>1 DEF Counted, Start
  <2>3. Counted(expected, width, T) \cap expected = expected
        /\ Counted(expected, width, T) \cap online = online
    BY <2>2, <1>1
  <2> QED BY <2>3
<1>10. /\ gS = [s \in SUBSET T |-> IF s = {} THEN 0
                  ELSE gS[s \ {CHOOSE x \in s : TRUE}] + (CHOOSE x \in s : TRUE).samples]
       /\ gO = [s \in SUBSET T |-> IF s = {} THEN 0
                  ELSE gO[s \ {CHOOSE x \in s : TRUE}] + (CHOOSE x \in s : TRUE).online]
  <2>1. ASSUME NEW s \in SUBSET T
        PROVE  /\ gS[s] = IF s = {} THEN 0
                          ELSE gS[s \ {CHOOSE x \in s : TRUE}] + (CHOOSE x \in s : TRUE).samples
               /\ gO[s] = IF s = {} THEN 0
                          ELSE gO[s \ {CHOOSE x \in s : TRUE}] + (CHOOSE x \in s : TRUE).online
    <3>1. CASE s = {}
      BY <3>1, <1>7
    <3>2. CASE s # {}
      <4> DEFINE x == CHOOSE y \in s : TRUE
      <4>1. x \in s /\ x \in T
        BY <3>2
      <4> HIDE DEF x
      <4>2. gS[s] = gS[s \ {x}] + cS[x] /\ gO[s] = gO[s \ {x}] + cO[x]
        BY <4>1, <1>6
      <4>3. cS[x] = x.samples /\ cO[x] = x.online
        BY <4>1
      <4> HIDE DEF gS, gO, cS, cO
      <4> QED BY <4>2, <4>3, <3>2 DEF x
    <3> QED BY <3>1, <3>2
  <2> QED BY <2>1
<1>11. /\ IterS = [s \in SUBSET T |-> IF s = {} THEN 0
                     ELSE IterS[s \ {CHOOSE x \in s : TRUE}] + (CHOOSE x \in s : TRUE).samples]
       /\ IterO = [s \in SUBSET T |-> IF s = {} THEN 0
                     ELSE IterO[s \ {CHOOSE x \in s : TRUE}] + (CHOOSE x \in s : TRUE).online]
  <2> HIDE DEF gS, gO
  <2> QED BY <1>10, Zenon
<1>12. \A s \in SUBSET T : s # {} =>
         /\ cS[CHOOSE x \in s : TRUE] = (CHOOSE x \in s : TRUE).samples
         /\ cO[CHOOSE x \in s : TRUE] = (CHOOSE x \in s : TRUE).online
  <2>1. ASSUME NEW s \in SUBSET T, s # {}
        PROVE  (CHOOSE x \in s : TRUE) \in T
    BY <2>1
  <2> QED BY <2>1
<1> HIDE DEF IterS, IterO, gS, gO, cS, cO
<1>13. IterS[T] = gS[T]
  <2>1. \A s \in SUBSET T :
           IterS[s] = IF s = {} THEN 0
                      ELSE IterS[s \ {CHOOSE x \in s : TRUE}] + cS[CHOOSE x \in s : TRUE]
    <3> SUFFICES ASSUME NEW s \in SUBSET T
                 PROVE  IterS[s] = IF s = {} THEN 0
                          ELSE IterS[s \ {CHOOSE x \in s : TRUE}] + cS[CHOOSE x \in s : TRUE]
      OBVIOUS
    <3> DEFINE x == CHOOSE y \in s : TRUE
    <3>1. IterS[s] = IF s = {} THEN 0 ELSE IterS[s \ {x}] + x.samples
      BY <1>11
    <3>2. s # {} => cS[x] = x.samples
      BY <1>12
    <3> HIDE DEF x
    <3>3. IterS[s] = IF s = {} THEN 0 ELSE IterS[s \ {x}] + cS[x]
      BY <3>1, <3>2
    <3> QED BY <3>3 DEF x
  <2>2. Folded(T, cS, IterS)
    BY <2>1, Zenon DEF Folded
  <2>3. Apart(T, cS, gS)
    BY <1>6, <1>7 DEF Apart
  <2> QED BY <1>8, <2>2, <2>3, SumIs
<1>14. IterO[T] = gO[T]
  <2>1. \A s \in SUBSET T :
           IterO[s] = IF s = {} THEN 0
                      ELSE IterO[s \ {CHOOSE x \in s : TRUE}] + cO[CHOOSE x \in s : TRUE]
    <3> SUFFICES ASSUME NEW s \in SUBSET T
                 PROVE  IterO[s] = IF s = {} THEN 0
                          ELSE IterO[s \ {CHOOSE x \in s : TRUE}] + cO[CHOOSE x \in s : TRUE]
      OBVIOUS
    <3> DEFINE x == CHOOSE y \in s : TRUE
    <3>1. IterO[s] = IF s = {} THEN 0 ELSE IterO[s \ {x}] + x.online
      BY <1>11
    <3>2. s # {} => cO[x] = x.online
      BY <1>12
    <3> HIDE DEF x
    <3>3. IterO[s] = IF s = {} THEN 0 ELSE IterO[s \ {x}] + cO[x]
      BY <3>1, <3>2
    <3> QED BY <3>3 DEF x
  <2>2. Folded(T, cO, IterO)
    BY <2>1, Zenon DEF Folded
  <2>3. Apart(T, cO, gO)
    BY <1>6, <1>7 DEF Apart
  <2> QED BY <1>8, <2>2, <2>3, SumIs
<1>15. ASSUME \A e \in samples : e.expected => e.camera \in monitored
       PROVE  trends.overall.online = Views!Cardinality(online)
  <2>1. trends.overall.online =
          Views!Cardinality({e \in expected : e.camera \in monitored /\ e.online})
    BY DEF Views!Trends, expected
  <2>2. {e \in expected : e.camera \in monitored /\ e.online} = online
    BY <1>15 DEF expected, online
  <2> QED BY <2>1, <2>2
<1>16. Views!Cardinality(expected) = Cardinality(expected)
       /\ Views!Cardinality(online) = Cardinality(online)
  BY SameCount
<1>17. Views!TimelineAdds(samples, monitored, width) <=>
         /\ IterS[T] = Views!Cardinality(expected)
         /\ IterO[T] <= IterS[T]
         /\ (\A e \in samples : e.expected => e.camera \in monitored) =>
               IterO[T] = trends.overall.online
  BY Zenon DEF Views!TimelineAdds, Views!FoldSet, Views!MapThenFoldSet, IterS, IterO, T, expected
<1> HIDE DEF trends
<1> QED BY <1>1, <1>9, <1>13, <1>14, <1>15, <1>16, <1>17

\* A run's samples are some of finitely many, and its cameras are plausible.
Sampled == [camera : {1, 2}, at : 0..2, expected : {TRUE}, online : BOOLEAN]

LEMMA SampledFinite == IsFiniteSet(Sampled)
<1> DEFINE S == ((1..2) \X (0..2)) \X BOOLEAN
           f == [p \in S |-> [camera |-> p[1][1], at |-> p[1][2], expected |-> TRUE, online |-> p[2]]]
<1>1. IsFiniteSet(S)
  <2>1. \A a, b \in Int : IsFiniteSet(a..b)
    BY FS_Interval
  <2>2. IsFiniteSet(1..2) /\ IsFiniteSet(0..2)
    <3>1. 0 \in Int /\ 1 \in Int /\ 2 \in Int
      OBVIOUS
    <3> QED BY <2>1, <3>1, Zenon
  <2>3. IsFiniteSet(BOOLEAN)
    <3>1. IsFiniteSet({})
      BY FS_EmptySet
    <3>2. IsFiniteSet({} \cup {TRUE})
      BY <3>1, FS_AddElement
    <3>3. IsFiniteSet(({} \cup {TRUE}) \cup {FALSE})
      BY <3>2, FS_AddElement
    <3>4. BOOLEAN = ({} \cup {TRUE}) \cup {FALSE}
      OBVIOUS
    <3> QED BY <3>3, <3>4
  <2>4. IsFiniteSet((1..2) \X (0..2))
    BY <2>2, FS_Product
  <2> QED BY <2>3, <2>4, FS_Product
<1>2. ASSUME NEW p \in S
      PROVE  f[p] \in Sampled
  <2>1. p[1][1] \in 1..2 /\ p[1][2] \in 0..2 /\ p[2] \in BOOLEAN
    OBVIOUS
  <2>2. p[1][1] \in {1, 2}
    BY <2>1
  <2>3. f[p] = [camera |-> p[1][1], at |-> p[1][2], expected |-> TRUE, online |-> p[2]]
    OBVIOUS
  <2> HIDE DEF f, S
  <2>4. ASSUME NEW camera \in {1, 2}, NEW at \in 0..2, NEW online \in BOOLEAN
        PROVE  [camera |-> camera, at |-> at, expected |-> TRUE, online |-> online] \in Sampled
    BY DEF Sampled
  <2>5. [camera |-> p[1][1], at |-> p[1][2], expected |-> TRUE, online |-> p[2]] \in Sampled
    BY <2>1, <2>2, <2>4, Zenon
  <2> QED BY <2>3, <2>5, Zenon
<1>3. ASSUME NEW e \in Sampled
      PROVE  \E p \in S : f[p] = e
  <2>1. /\ e.camera \in {1, 2} /\ e.at \in 0..2 /\ e.expected = TRUE /\ e.online \in BOOLEAN
        /\ e = [camera |-> e.camera, at |-> e.at, expected |-> e.expected, online |-> e.online]
    BY Zenon DEF Sampled
  <2>2. e.camera \in 1..2
    BY <2>1
  <2> DEFINE p == <<<<e.camera, e.at>>, e.online>>
  <2>3. p \in S /\ p[1][1] = e.camera /\ p[1][2] = e.at /\ p[2] = e.online
    BY <2>1, <2>2
  <2>4. f[p] = [camera |-> p[1][1], at |-> p[1][2], expected |-> TRUE, online |-> p[2]]
    BY <2>3
  <2> HIDE DEF f, S, p
  <2>5. f[p] = e
    BY <2>1, <2>3, <2>4
  <2> QED BY <2>3, <2>5
<1>4. f \in [S -> Sampled]
  BY <1>2
<1>5. f \in Surjection(S, Sampled)
  <2> HIDE DEF f, S
  <2> QED BY <1>3, <1>4 DEF Surjection
<1> HIDE DEF f, S
<1> QED BY <1>1, <1>5, FS_Surjection

ViewsChosen ==
  /\ Is("camera") => /\ case[2] \in Camera /\ Views!Plausible(case[2]) /\ case[3] \in BOOLEAN
                     /\ ~case[3] => case[2].worker = Views!NoWorker
  /\ Is("samples") => case[2] \in SUBSET Sampled

LEMMA OnlyViews == Spec => []ViewsChosen
<1>1. Init => ViewsChosen
  BY DEF Init, ViewsChosen, Is
<1>2. ViewsChosen /\ [Next]_case => ViewsChosen'
  <2> SUFFICES ASSUME ViewsChosen, [Next]_case
               PROVE  ViewsChosen'
    OBVIOUS
  <2>1. CASE CameraCase
    BY <2>1 DEF CameraCase, ViewsChosen, Is
  <2>2. CASE SamplesCase
    <3>1. PICK samples \in SUBSET Sampled : case' = <<"samples", samples>>
      BY <2>2, Zenon DEF SamplesCase, Sampled
    <3> QED BY <3>1 DEF ViewsChosen, Is
  <2>3. CASE ExportCase
    BY <2>3 DEF ExportCase, ViewsChosen, Is
  <2>4. CASE StoryCase
    BY <2>4 DEF StoryCase, ViewsChosen, Is
  <2>5. CASE WindowsCase
    BY <2>5 DEF WindowsCase, ViewsChosen, Is
  <2>6. CASE UNCHANGED case
    BY <2>6 DEF ViewsChosen, Is
  <2> QED BY <2>1, <2>2, <2>3, <2>4, <2>5, <2>6 DEF Next
<1> QED BY <1>1, <1>2, PTL DEF Spec

\* The status feed, the older snapshot and the minute samples agree on every
\* camera save the cases they are known to differ in, and the buckets of a
\* timeline add up to its samples (ViewsAgree).
THEOREM ViewsAlwaysAgree == Spec => []ViewsAgree
<1>1. ViewsChosen => ViewsAgree
  <2> SUFFICES ASSUME ViewsChosen
               PROVE  ViewsAgree
    OBVIOUS
  <2>1. ASSUME Is("camera")
        PROVE  Views!SamplesShown(case[2], case[3]) /\ Views!SnapshotDiffers(case[2], case[3])
    BY <2>1, ShownAre, DifferencesAre DEF ViewsChosen
  <2>2. ASSUME Is("samples"), NEW monitored \in {{1}, {1, 2}}
        PROVE  Views!TimelineAdds(case[2], monitored, 2)
    <3>1. case[2] \in SUBSET Sampled
      BY <2>2 DEF ViewsChosen
    <3>2. IsFiniteSet(case[2])
      BY <3>1, SampledFinite, FS_Subset
    <3>3. \A e \in case[2] : e.online \in BOOLEAN
      BY <3>1 DEF Sampled
    <3> QED BY <3>2, <3>3, TimelinesAdd
  <2> QED BY <2>1, <2>2 DEF ViewsAgree
<1> QED BY <1>1, OnlyViews, PTL

-----------------------------------------------------------------------------
(* Exports (ExportRange)                                                   *)

\* A run's recordings are rows of a camera.
RowsChosen == Is("export") => Rows(case[2])

\* Three of them, with an identity each.
LEMMA ThreeRows ==
  ASSUME NEW a \in Span, NEW b \in Span, NEW c \in Span, NEW ready \in BOOLEAN, NEW file \in BOOLEAN
  PROVE  Rows({Row(1, a, TRUE, TRUE), Row(2, b, ready, TRUE), Row(3, c, TRUE, file)})
<1> DEFINE x == Row(1, a, TRUE, TRUE)
           y == Row(2, b, ready, TRUE)
           z == Row(3, c, TRUE, file)
           rows == {x, y, z}
<1>1. \A i \in Nat, s \in Span, r, f \in BOOLEAN :
         Row(i, s, r, f) \in Recording /\ Row(i, s, r, f).id = i /\ Row(i, s, r, f).start < Row(i, s, r, f).end
  <2> TAKE i \in Nat, s \in Span, r, f \in BOOLEAN
  <2>1. s[1] \in Int /\ s[2] \in Int /\ s[1] < s[2]
    <3>1. s \in (0..6) \X (0..6) /\ s[1] < s[2]
      BY DEF Span
    <3>2. s[1] \in 0..6 /\ s[2] \in 0..6
      BY <3>1
    <3> QED BY <3>1, <3>2
  <2>2. Row(i, s, r, f) \in Recording
    <3>1. s[1] \in Int /\ s[2] \in Int
      BY <2>1
    <3> QED BY <3>1, Zenon DEF Row, Recording
  <2>3. /\ Row(i, s, r, f).id = i /\ Row(i, s, r, f).start = s[1] /\ Row(i, s, r, f).end = s[2]
    BY DEF Row
  <2> QED BY <2>1, <2>2, <2>3
<1>2. /\ 1 \in Nat /\ 2 \in Nat /\ 3 \in Nat /\ TRUE \in BOOLEAN
  OBVIOUS
<1>3. x \in Recording /\ x.id = 1 /\ x.start < x.end
  BY <1>1, <1>2, Zenon
<1>4. y \in Recording /\ y.id = 2 /\ y.start < y.end
  BY <1>1, <1>2, Zenon
<1>5. z \in Recording /\ z.id = 3 /\ z.start < z.end
  BY <1>1, <1>2, Zenon
<1> HIDE DEF x, y, z
<1>6. IsFiniteSet(rows)
  <2>1. IsFiniteSet({}) /\ rows = (({} \cup {x}) \cup {y}) \cup {z}
    BY FS_EmptySet
  <2> HIDE DEF rows
  <2>2. IsFiniteSet({} \cup {x})
    BY <2>1, FS_AddElement
  <2>3. IsFiniteSet(({} \cup {x}) \cup {y})
    BY <2>2, FS_AddElement
  <2> QED BY <2>1, <2>3, FS_AddElement
<1>7. Rows(rows)
  BY <1>3, <1>4, <1>5, <1>6 DEF Rows, Distinct
<1> QED BY <1>7 DEF x, y, z

LEMMA OnlyRows == Spec => []RowsChosen
<1>1. Init => RowsChosen
  BY DEF Init, RowsChosen, Is
<1>2. RowsChosen /\ [Next]_case => RowsChosen'
  <2> SUFFICES ASSUME RowsChosen, [Next]_case
               PROVE  RowsChosen'
    OBVIOUS
  <2>1. CASE ExportCase
    <3>1. PICK a, b, c \in Span, ready, file \in BOOLEAN :
             case' = <<"export", {Row(1, a, TRUE, TRUE), Row(2, b, ready, TRUE), Row(3, c, TRUE, file)}>>
      BY <2>1, Zenon DEF ExportCase
    <3>2. Rows({Row(1, a, TRUE, TRUE), Row(2, b, ready, TRUE), Row(3, c, TRUE, file)})
      BY ThreeRows
    <3>3. Rows(case'[2])
      BY <3>1, <3>2, Zenon
    <3> QED BY <3>3 DEF RowsChosen
  <2>2. CASE StoryCase
    BY <2>2 DEF StoryCase, RowsChosen, Is
  <2>3. CASE CameraCase
    BY <2>3 DEF CameraCase, RowsChosen, Is
  <2>4. CASE SamplesCase
    BY <2>4 DEF SamplesCase, RowsChosen, Is
  <2>5. CASE WindowsCase
    BY <2>5 DEF WindowsCase, RowsChosen, Is
  <2>6. CASE UNCHANGED case
    BY <2>6 DEF RowsChosen, Is
  <2> QED BY <2>1, <2>2, <2>3, <2>4, <2>5, <2>6 DEF Next
<1> QED BY <1>1, <1>2, PTL DEF Spec

\* The groups and the gaps of an export are the requested range, every group is
\* rendered with its footage, and what is downloaded holds every group once
\* (ExportsRight), for any tolerance.
THEOREM ExportsAreRight == Spec => []ExportsRight
<1>1. Lower \in Int /\ Upper \in Int /\ Lower < Upper
  BY DEF Lower, Upper
<1>2. RowsChosen => ExportsRight
  <2>1. ASSUME Rows(case[2])
        PROVE  /\ RangeTiled(case[2], Lower, Upper) /\ GroupsRendered(case[2], Lower, Upper)
               /\ NothingUnpacked(case[2], Lower, Upper)
    BY <1>1, <2>1, EveryRangeTiled, EveryGroupRendered, NothingLeftOut
  <2> QED BY <2>1, Zenon DEF RowsChosen, ExportsRight
<1> QED BY <1>2, OnlyRows, PTL
=============================================================================
