-------------------------- MODULE MCSessionMonitors --------------------------
(* Cases small enough to explore: each lets some of the hard behaviours meet. *)
EXTENDS SessionMonitors

Case(inherited, records, compactions, reports, stops) ==
    [inherited |-> inherited, records |-> records, compactions |-> compactions,
     reports |-> reports, stops |-> stops]

MCCases ==
    {Case(FALSE, 4, 0, 0, 0), Case(TRUE, 1, 0, 0, 1), Case(TRUE, 1, 1, 0, 0),
     Case(FALSE, 2, 1, 0, 0), Case(FALSE, 1, 1, 1, 0)}
=============================================================================
