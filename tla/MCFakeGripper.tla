--------------------------- MODULE MCFakeGripper ----------------------------
EXTENDS FakeGripper

Command(act, go, position) ==
  [ activate |-> act, goTo |-> go, autoRelease |-> ~act, openDirection |-> FALSE,
    position |-> position, speed |-> 255, force |-> 255 ]

MCCommands == {Command(FALSE, TRUE, 7), Command(TRUE, TRUE, 0)}

(* In 0.1 mm and mm/s: k2F85 and one without a range.                      *)
MCProfiles ==
  { [minSpeed |-> 20, maxSpeed |-> 150, minOpening |-> 0, maxOpening |-> 850,
     openPosition |-> 3, closedPosition |-> 230],
    [minSpeed |-> 20, maxSpeed |-> 20, minOpening |-> 100, maxOpening |-> 100,
     openPosition |-> 3, closedPosition |-> 230] }

(* Beyond an end, and on no register of the profile.                       *)
MCOpenings == {-20, 203}
MCFrequencies == {-1, 0}
MCPaces == {<<-1, 333>>, <<150, 1000>>}
=============================================================================
