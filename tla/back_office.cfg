\* One form and another device over two settings; a team of two; two dialogs and two invitation
\* pages over one employee, two addresses and two invitations; two managers over two categories
\* and an item.
CONSTANTS
    t1 = t1
    d1 = d1
    a = a
    b = b
    v1 = v1
    v2 = v2
    e1 = e1
    e2 = e2
    i1 = i1
    Tabs <- MCTabs
    Devices <- MCDevices
    Fields <- MCFields
    Values <- MCValues
    Defaults <- MCDefaults
    NoConfig = NoConfig
    Members <- MCMembers
    Employees <- MCEmployees
    Emails <- MCEmails
    InvitationIds <- MCInvitationIds
    Modals <- MCModals
    Pages <- MCPages
    None = None
    Nobody = Nobody
    Categories <- MCCategories
    Items <- MCItems
    Names <- MCNames
    Prices <- MCPrices
    Costs <- MCCosts
    Edits <- MCEdits
    Staff <- MCStaff
    Unborn = Unborn
SYMMETRY MCSymmetry
SPECIFICATION BackOfficeSpec
INVARIANTS
    ConfigSafe
    
    MembershipSafe
    MenuTypeOK
PROPERTIES
    EndsOnceAndLinksOnce
    SavesKeepToThemselves
    MenuChecksHold
    DeletesAreAsked
CHECK_DEADLOCK FALSE
