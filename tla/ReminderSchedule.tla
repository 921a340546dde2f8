-------------------------- MODULE ReminderSchedule --------------------------
(***************************************************************************)
(* The moments at which the reminders of one deadline fall due             *)
(* (src/app/reminders/schedule.py).  Instants are whole seconds of UTC,    *)
(* counted from a UTC midnight; the chat policies are what a chat's row of *)
(* chat_settings holds.                                                    *)
(***************************************************************************)
EXTENDS Integers

CONSTANT TestMode    \* REMINDER_TEST_MODE: minutes instead of hours

ASSUME TestModeAssumption == TestMode \in BOOLEAN

Minute == 60
Hour   == 3600
Day    == 24 * Hour

Kinds == {"due_72h", "due_24h", "due_today", "overdue"}

(* How urgent a stage is; the collapse of missed stages keeps the maximum. *)
Priority == [due_72h |-> 1, due_24h |-> 2, due_today |-> 3, overdue |-> 4]

(* The reminder columns of chat_settings.  The two offsets are hours before
   the deadline, the grace is in minutes, and settings.update refuses a
   first offset that does not exceed the second. *)
ChatPolicy ==
    {p \in [enabled : SUBSET Kinds, first : 2..720, second : 1..719,
            dueHour : 0..23, grace : 0..1440] : p.first > p.second}

(* Midnight of the Asia/Shanghai day (UTC+8, no daylight saving) of d. *)
LocalMidnight(d) == d - ((d + 8 * Hour) % Day)

DueToday(d, hour) ==
    LET morning == LocalMidnight(d) + hour * Hour
    IN  IF morning > d THEN d ELSE morning

(* reminder_moments: the four stages of the deadline d under the policy p. *)
Moments(d, p) ==
    IF TestMode
    THEN [due_72h   |-> d - 6 * Minute,
          due_24h   |-> d - 4 * Minute,
          due_today |-> d - 2 * Minute,
          overdue   |-> d + Minute]
    ELSE [due_72h   |-> d - p.first * Hour,
          due_24h   |-> d - p.second * Hour,
          due_today |-> DueToday(d, p.dueHour),
          overdue   |-> d + p.grace * Minute]
=============================================================================
