----------------------------- MODULE MarketClock -----------------------------
(***************************************************************************)
(* market_state of dashboard/export_metrics.py: the state of the market and *)
(* its next opening, computed from an instant in UTC by the calendar of New *)
(* York.                                                                   *)
(*                                                                         *)
(* An instant is a number of minutes. Minute 0 is the midnight, in UTC,    *)
(* that begins a Monday. New York is behind UTC by OffsetBefore minutes up *)
(* to the instant Shift and by OffsetAfter from then on. The code knows no *)
(* holidays, and neither does this module.                                 *)
(***************************************************************************)
EXTENDS Integers

CONSTANTS Shift, OffsetBefore, OffsetAfter

ASSUME MarketClockAssumption ==
  /\ Shift \in Nat
  /\ OffsetBefore \in 0 .. 720
  /\ OffsetAfter \in 0 .. 720

DayLength == 24 * 60
PreOpen == 9 * 60 + 30
Close == 16 * 60
Settled == 17 * 60

MarketStates == {"weekend", "pre_open", "market_open", "settling", "closed"}

-----------------------------------------------------------------------------
(* NEW_YORK                                                                *)

Local(t) == t - (IF t < Shift THEN OffsetBefore ELSE OffsetAfter)

\* Of the two instants with the same local time the earlier one, as for
\* a datetime without a fold.
ToUtc(local) ==
  IF local + OffsetBefore < Shift THEN local + OffsetBefore ELSE local + OffsetAfter

Day(local) == local \div DayLength

TimeOfDay(local) == local % DayLength

Weekday(day) == day % 7

\* New York changes its clocks at two in the morning of a Sunday.
ASSUME ClockChangeAssumption ==
  /\ Weekday(Day(Shift - OffsetBefore)) = 6
  /\ Day(Shift - OffsetAfter) = Day(Shift - OffsetBefore)

-----------------------------------------------------------------------------
(* market_state                                                            *)

\* Mutant: the day after a Friday is taken as it comes.
OpeningOfAnyDay(candidate) == ToUtc(candidate * DayLength + PreOpen)

\* A Saturday or a Sunday gives way to the Monday after it.
Opening(candidate) ==
  LET weekday == IF Weekday(candidate) < 5 THEN candidate
                 ELSE candidate + 7 - Weekday(candidate)
  IN  ToUtc(weekday * DayLength + PreOpen)

MarketAt(t) ==
  LET today == Day(Local(t))
      time == TimeOfDay(Local(t))
  IN  IF Weekday(today) >= 5
      THEN [state |-> "weekend", next |-> Opening(today + 7 - Weekday(today))]
      ELSE IF time < PreOpen THEN [state |-> "pre_open", next |-> Opening(today)]
      ELSE [state |-> CASE time < Close -> "market_open"
                        [] Close <= time /\ time < Settled -> "settling"
                        [] OTHER -> "closed",
            next |-> Opening(today + 1)]

-----------------------------------------------------------------------------
(* What market_state promises.                                             *)

\* An instant at which the market opens.
Opens(t) == Weekday(Day(Local(t))) < 5 /\ TimeOfDay(Local(t)) = PreOpen

\* "the next weekday 09:30 America/New_York opening" (export_metrics.py:76): it
\* lies ahead, it is an opening, and the local day of no other opening lies
\* between; the market is open in the six and a half hours after an opening.
MarketDay(t) ==
  LET market == MarketAt(t)
      today == Day(Local(t))
      next == Day(Local(market.next))
  IN  /\ market.next > t
      /\ Opens(market.next)
      /\ \A day \in today .. next - 1 :
           Weekday(day) < 5 => ToUtc(day * DayLength + PreOpen) <= t
      /\ market.state = "market_open"
           <=> Weekday(today) < 5 /\ TimeOfDay(Local(t)) \in PreOpen .. Close - 1

\* Every minute of the days before and after a change of the hour.
EveryMinuteIsRight ==
  \A t \in Shift - 5 * DayLength .. Shift + 5 * DayLength : MarketDay(t)
=============================================================================
