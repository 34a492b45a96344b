---------------------------- MODULE MCConfigSync ----------------------------
(***************************************************************************)
(* Instances of ConfigSync for TLC: two edits on two instances (the billing *)
(* group's on one).                                                        *)
(***************************************************************************)
EXTENDS ConfigSync, TLC

CONSTANTS e1, e2, gw1, gw2

MCStory(kind1, part1, kind2, part2, rows, faulty, bound) ==
  [kind |-> e1 :> kind1 @@ e2 :> kind2, part |-> e1 :> part1 @@ e2 :> part2,
   row |-> e1 :> rows[1] @@ e2 :> rows[2], faulty |-> faulty, restarts |-> bound]

\* Two channel edits while a reload of the other instance may fail, or two toggles of
\* one endpoint, two changes of the settings, or a membership and settings, with
\* a restart and a failed read of the keys.
MCStories ==
  {MCStory("routing", "channels", "routing", "channels", <<1, 2>>, {gw2} \X {"rules"}, 0),
   MCStory("toggle", "channels", "toggle", "channels", <<1, 1>>, Gateways \X {"keys"}, 1),
   MCStory("settings", "settings", "settings", "settings", <<1, 1>>,
           Gateways \X {"keys"}, 1),
   MCStory("member", "members", "settings", "settings", <<1, 1>>, Gateways \X {"keys"}, 1)}

\* A key edit and the deletion of a billing group.
MCGroupStories == {MCStory("auth", "keys", "group", "keys", <<1, 2>>, {}, 0)}
=============================================================================
