----------------------------- MODULE TimingCell -----------------------------
(***************************************************************************)
(* One cell of the PLC's timer arrays (tim100ms_arrys, tim1s_arrys) and    *)
(* what timing_cell_prcess does to it, as operators of the cell's enable   *)
(* bit en, its down counter cnt, its event bit ev and the number of clock  *)
(* pulses "credit" that the time-come flag had collected.  The code has    *)
(* the same loop twice, once per array.  The holding bits are left out:    *)
(* the only caller of timing_cell_start, handle_plc_out_t, passes 0.       *)
(***************************************************************************)
EXTENDS Naturals

Counting(en, ev, credit) == en = 1 /\ credit > 0 /\ ev = 0

\* The subtraction is made but not stored.
CellCounterUnsaved(en, cnt, ev, credit) == IF en = 0 THEN 0 ELSE cnt

\* ptiming->counter[i] after the pass: a saturating subtraction.
CellCounter(en, cnt, ev, credit) ==
    CASE en = 0                    -> 0
      [] Counting(en, ev, credit)  -> IF cnt > credit THEN cnt - credit ELSE 0
      [] OTHER                     -> cnt

\* Bug patterns used to show that the properties of the timers bite.
CellEventSticky(en, cnt, ev, credit) ==
    IF Counting(en, ev, credit) /\ cnt <= credit THEN 1 ELSE ev
CellEventEarly(en, cnt, ev, credit) ==
    CASE en = 0                                          -> 0
      [] Counting(en, ev, credit) /\ cnt <= credit + 1   -> 1
      [] OTHER                                           -> ev

\* The event bit after the pass: raised by the pulse that empties the counter.
CellEvent(en, cnt, ev, credit) ==
    CASE en = 0                                      -> 0
      [] Counting(en, ev, credit) /\ cnt <= credit   -> 1
      [] OTHER                                       -> ev

=============================================================================
