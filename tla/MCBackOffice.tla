---------------------------- MODULE MCBackOffice -----------------------------
(* Small instances, for TLC, of the four parts of the back office that share no state: the   *)
(* distribution settings, the team page, the invitations and the menu.  A behaviour is about *)
(* one of them.                                                                              *)
EXTENDS TenantConfig, TeamPage, Membership, MenuCard, TLC

CONSTANTS t1, d1, a, b, v1, v2, e1, e2, i1

VARIABLE topic          \* the part this behaviour is about

MCTabs == {t1}
MCDevices == {d1}
MCFields == {a, b}
MCValues == {0, 1}
MCDefaults == [f \in MCFields |-> 0]
MCMembers == {e1, e2}
MCEmployees == {i1}
MCEmails == {a, b}
MCInvitationIds == {v1, v2}
MCModals == {e1, e2}
MCPages == {t1, d1}
MCCategories == {a, b}
MCItems == {i1}
MCNames == {a, b}
MCPrices == {1, 2}
MCCosts == {0, 2}
MCEdits == [cat : MCCategories] \cup [active : BOOLEAN] \cup [price : MCPrices] \cup [cost : MCCosts]
MCStaff == {a, b}

BackOfficeInit ==
    /\ ConfigInit /\ TeamInit /\ Init /\ MenuInit
    /\ topic \in {"config", "team", "members", "menu"}

BackOfficeNext ==
    /\ \/ topic = "config" /\ ConfigNext /\ UNCHANGED <<teamVars, vars, menuVars>>
       \/ topic = "team" /\ TeamNext /\ UNCHANGED <<configVars, vars, menuVars>>
       \/ topic = "members" /\ Next /\ UNCHANGED <<configVars, teamVars, menuVars>>
       \/ topic = "menu" /\ MenuNext /\ UNCHANGED <<configVars, teamVars, vars>>
    /\ UNCHANGED topic

BackOfficeSpec ==
    BackOfficeInit /\ [][BackOfficeNext]_<<configVars, teamVars, vars, menuVars, topic>>

\* Fields, categories, names, managers and addresses are ids of one set, exchanged together; so
\* are employees of the team page and invitation dialogs.
MCSymmetry == Permutations({a, b}) \cup Permutations({v1, v2}) \cup Permutations({e1, e2})
=============================================================================
