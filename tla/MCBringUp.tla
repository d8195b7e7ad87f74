------------------------------ MODULE MCBringUp -----------------------------
(* Adapters that differ in what bring-up looks at.                         *)
EXTENDS BringUp

Adapter(device, phy, port, c45, fast) ==
  [device |-> device, phy |-> phy, port |-> port, c45 |-> c45, fast |-> fast,
   eqos |-> TRUE, fatal |-> FALSE, ctrl |-> {"AN"}, adv |-> {"fe", "sel"},
   answers |-> {}, paged |-> {"other"}, starts |-> 1]

MCBoards ==
  {[Adapter("4b32", "88E1512", 1, FALSE, FALSE) EXCEPT !.starts = 2],
   [Adapter("4ba0", "88E1512", 0, FALSE, FALSE) EXCEPT !.ctrl = {"AN", "ISO"}, !.paged = AllOnes,
                                                         !.starts = 2],
   [Adapter("4bb0", "88E1512", 31, FALSE, FALSE) EXCEPT !.ctrl = {}],
   Adapter("43a2", "GPY", 24, FALSE, FALSE),
   [Adapter("43a2", "GPY", 24, FALSE, FALSE) EXCEPT !.answers = {<<SerdesPort, "id22">>}],
   [Adapter("4ba1", "88E2110", 30, TRUE, TRUE) EXCEPT !.answers = {<<XpcsPort, "id45">>}],
   Adapter("4ba1", "88E2110", 0, TRUE, TRUE),
   [Adapter("4bb2", "88E2110", 0, TRUE, FALSE) EXCEPT !.fatal = TRUE],
   [Adapter("4bb1", "GPY", 0, FALSE, FALSE) EXCEPT !.ctrl = {}, !.adv = {}],
   Adapter("4bb0", "GPY", 0, FALSE, FALSE),
   [Adapter("4ba2", "GPY", 1, FALSE, TRUE) EXCEPT !.eqos = FALSE],
   Adapter("43ac", "other", 0, FALSE, FALSE),
   [Adapter("a0ac", "GPY", 0, FALSE, TRUE) EXCEPT !.adv = {}]}
=============================================================================
