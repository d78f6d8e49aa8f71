------------------------------- MODULE Stamps -------------------------------
(***************************************************************************)
(* The two timestamp texts of the chatroom and the order SQLite puts them  *)
(* in.  Threads (with their seed message) are stamped by                   *)
(* store/threads.py:_now_utc, every later message by                       *)
(* store/messages.py:_now_iso; both are stored as TEXT, so ORDER BY        *)
(* created_at compares the characters, not the instants.                   *)
(*                                                                         *)
(*   _now_utc : 2026-01-01T10:00:00.250000Z        (fraction not zero)     *)
(*              2026-01-01T10:00:00Z               (fraction zero)         *)
(*   _now_iso : 2026-01-01T10:00:00.250000+00:00   (always a fraction)     *)
(*                                                                         *)
(* An instant is a second and a microsecond in it; a stamp is an instant   *)
(* and the form it was written in.                                         *)
(***************************************************************************)
EXTENDS Integers

CONSTANT Micro      \* the microsecond readings the clock may show, six digits each

ASSUME MicroAssumption == Micro # {} /\ Micro \subseteq Nat

Instant == [sec : Nat, us : Micro]
Stamp   == [sec : Nat, us : Micro, form : {"Z", "iso"}]

\* store/threads.py: isoformat() with +00:00 replaced by Z.
now_utc(i) == [sec |-> i.sec, us |-> i.us, form |-> "Z"]

\* Mutant of now_iso: timespec='seconds'.
now_iso_Seconds(i) == [sec |-> i.sec, us |-> 0, form |-> "iso"]

\* store/messages.py: isoformat(timespec='microseconds').
now_iso(i) == [sec |-> i.sec, us |-> i.us, form |-> "iso"]

\* isoformat() leaves the fraction out when the microsecond is zero.
Bare(s) == s.form = "Z" /\ s.us = 0

(***************************************************************************)
(* Text order.  Up to the second the two forms have the same characters.   *)
(* After it comes '.' or, in a bare stamp, 'Z', and '.' < 'Z'; after six   *)
(* digits comes '+' or 'Z', and '+' < 'Z'.                                 *)
(***************************************************************************)
Before(a, b) ==
  \/ a.sec < b.sec
  \/ /\ a.sec = b.sec
     /\ ~Bare(a)
     /\ \/ Bare(b)
        \/ a.us < b.us
        \/ a.us = b.us /\ a.form = "iso" /\ b.form = "Z"

(***************************************************************************)
(* The clock's next reading: later in this second, or in the next one.     *)
(* (A gap of several seconds compares like a gap of one.)                  *)
(***************************************************************************)
Later(i) == {j \in [sec : {i.sec, i.sec + 1}, us : Micro] :
               j.sec > i.sec \/ j.us > i.us}
=============================================================================
