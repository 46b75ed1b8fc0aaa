--------------------------- MODULE RecordingWindows ---------------------------
(***************************************************************************)
(* When a camera's weekly windows have it record:                          *)
(* services/recording_schedule.py, read at every round of the schedule      *)
(* manager and wherever a recording is about to start.                     *)
(*                                                                         *)
(* A window is [days, start, end]: the days it begins on, or Legacy for one *)
(* saved before windows had days, and minutes of the day, or Invalid.       *)
(* Time is a minute of the local week, whose first is Monday's.            *)
(***************************************************************************)
EXTENDS Integers

CONSTANT DayLength   \* minutes in a day
ASSUME DayLengthAssumption == DayLength \in Nat \ {0}

Invalid == -1
Legacy == {Invalid}
Days == 0..6
Minutes == 0..(DayLength - 1)
Week == 0..(7 * DayLength - 1)

\* _days
StartDays(window) == IF window.days = Legacy THEN Days ELSE window.days \cap Days

\* normalize_windows: what is not a window is dropped, and so is a window
\* that would end when it begins.
Normalized(windows) ==
    {[w EXCEPT !.days = StartDays(w)] :
        w \in {v \in windows : /\ v.start \in Minutes /\ v.end \in Minutes
                               /\ v.start # v.end /\ StartDays(v) # {}}}

DayOf(now) == now \div DayLength
MinuteOf(now) == now % DayLength

\* mutant: past midnight the window is looked for under the present day
CoversSameDay(w, now) ==
    IF w.start < w.end
    THEN DayOf(now) \in w.days /\ w.start <= MinuteOf(now) /\ MinuteOf(now) < w.end
    ELSE DayOf(now) \in w.days /\ (MinuteOf(now) >= w.start \/ MinuteOf(now) < w.end)

\* A window that crosses midnight belongs to the day on which it begins.
Covers(w, now) ==
    IF w.start < w.end
    THEN DayOf(now) \in w.days /\ w.start <= MinuteOf(now) /\ MinuteOf(now) < w.end
    ELSE \/ DayOf(now) \in w.days /\ MinuteOf(now) >= w.start
         \/ (DayOf(now) - 1) % 7 \in w.days /\ MinuteOf(now) < w.end

\* recording_schedule_allows
Allows(enabled, windows, now) ==
    ~enabled \/ \E w \in Normalized(windows) : Covers(w, now)

-----------------------------------------------------------------------------
\* What a window means: from each of its days on, at its start, it lasts for
\* the minutes until its end comes next, into the next week if it must.
Length(w) == (w.end - w.start) % DayLength
Within(w, now) ==
    \E day \in w.days, k \in 0..(Length(w) - 1) :
        now = (day * DayLength + w.start + k) % (7 * DayLength)

(* The camera may record in exactly the minutes of its valid windows, also  *)
(* past midnight and from Sunday into Monday; a camera with a schedule but  *)
(* without a valid window never records, and one without a schedule always. *)
WindowsMeant(enabled, windows) ==
    \A now \in Week :
        Allows(enabled, windows, now) <=>
            ~enabled \/ \E w \in Normalized(windows) : Within(w, now)
=============================================================================
