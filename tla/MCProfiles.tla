----------------------------- MODULE MCProfiles -----------------------------
(* Three profiles in three sets, one set with a script on a key that one of   *)
(* the profiles uses, and two packages: one with a set of its own   *)
(* that names no profile to select, one made from the same document before   *)
(* it was changed, so that identifiers are taken.                            *)
EXTENDS Profiles

Look(id, content) == [id |-> id, content |-> content]
Group(id, profiles, selected, keys) == [id |-> id, profiles |-> profiles, selected |-> selected, keys |-> keys]
Doc(profiles, sets, active) == [profiles |-> profiles, sets |-> sets, active |-> active, keys |-> <<>>]
Three == <<Look(1, "a"), Look(2, "a"), Look(3, "b")>>

MCKeysOf == [content \in Contents |-> IF content = "a" THEN <<"l">> ELSE <<"k">>]
MCKeyLists == {<<>>, <<"k">>}
MCInitial == {Doc(Three, <<Group(4, <<3, 1, 2>>, 2, <<"k">>), Group(5, <<3>>, 3, <<>>), Group(6, <<1>>, None, <<>>)>>, 4)}
MCPackages == {Doc(<<Look(7, "b")>>, <<Group(8, <<7>>, None, <<>>)>>, 8),
               Doc(<<Look(1, "a"), Look(2, "b")>>, <<Group(4, <<2, 1>>, 2, <<"l">>), Group(5, <<2>>, 2, <<>>)>>, 4)}

Move(type, next) == [type |-> type, next |-> next]
Switch(type, target) == [type |-> type, target |-> target]
MCCommands ==
  {<<Move("move_profile", FALSE)>>,
   <<Move("move_profile_set", TRUE)>>,
   <<Switch("switch_profile", 3)>>,
   <<Switch("switch_profile_set", 5), Switch("switch_profile", 3)>>,
   <<Switch("switch_profile_set", 4), Switch("switch_profile", 9)>>}
=============================================================================
