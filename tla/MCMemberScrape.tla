-------------------------- MODULE MCMemberScrape --------------------------
(***************************************************************************)
(* MemberScrape for TLC: two groups beside the empty name, three members,  *)
(* one of a group that may not be listed, and a member key without a       *)
(* group.  Limits that are met and limits that are not.                    *)
(***************************************************************************)
EXTENDS MemberScrape, TLC

CONSTANTS up, down, tagged

MCMembers == {<<0, 1>>, <<1, 1>>, <<1, 2>>, <<2, 1>>}

MCConfigs ==
  {[maxGroups |-> 2, maxMembers |-> 4], [maxGroups |-> 1, maxMembers |-> 1],
   [maxGroups |-> 2, maxMembers |-> 2]}

\* One group in both tables, one in APPL_DB only.
MCDatabases ==
  {[config |-> [g \in Groups |-> IF g = 2 THEN Absent ELSE up],
    appl   |-> [g \in Groups |-> IF g = 0 THEN Absent ELSE down],
    member |-> [m \in Members |-> IF m[1] = 0 THEN Absent ELSE tagged]]}

=============================================================================
