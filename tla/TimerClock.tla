------------------------------ MODULE TimerClock -------------------------------
(***************************************************************************)
(* The clock of version3.0's timers (net/Timer.cpp).  A node keeps the     *)
(* time of its expiry as milliseconds of a clock that starts again every   *)
(* 10000 seconds, with the timeout added after the wrap; whether it is     *)
(* still valid is a comparison with that clock.  Times are milliseconds    *)
(* since the epoch.                                                        *)
(***************************************************************************)
EXTENDS Naturals

Period == 10000                 \* seconds

\* ((now.tv_sec % 10000) * 1000) + (now.tv_usec / 1000)
Clock(t) == ((t \div 1000) % Period) * 1000 + (t % 1000)

\* The constructor: what a node made at t with a timeout keeps.
expiredTime(t, timeout) == Clock(t) + timeout

\* isValid, asked at u.
isValid(expired, u) == Clock(u) < expired
===============================================================================
