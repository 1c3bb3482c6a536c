---------------------------- MODULE MCAdmission ----------------------------
(***************************************************************************)
(* Four requests against a cap of one or two and a queue of one or two, so *)
(* that slots and queue both run full and newcomers race with two          *)
(* sleepers, with reloads between limits that are off, tightened and       *)
(* loosened.                                                               *)
(***************************************************************************)
EXTENDS Admission

Limits(rpm, conc, queue) ==
    [rpm |-> rpm, max_concurrent |-> conc, max_queue |-> queue]

MCConfigs ==
    { Limits(FALSE, 0, 0),  \* everything off: requests are not counted
      Limits(TRUE, 0, 0),   \* rate only: slots are counted, not capped
      Limits(FALSE, 1, 0),  \* cap without a queue
      Limits(FALSE, 1, 2),
      Limits(FALSE, 2, 1) }
=============================================================================
