--------------------------- MODULE BackOfficeProofs ---------------------------
(***************************************************************************)
(* Proofs about the back office: the settings (TenantConfig), the menu     *)
(* (MenuCard), the team page (TeamPage) and the page of a shift            *)
(* (ShiftScreen), which share no state.                                    *)
(*                                                                         *)
(* Settings: SinceInv relates what a save in flight has read or written to *)
(* the settings as they are by now; FormInv does the same for a form, and  *)
(* says where the differences it shows come from.  Menu: RequestInv says   *)
(* what is left of the checks of a request once other rows were written.   *)
(* Team: the timer's employee is one the manager wants archived.  Shift:   *)
(* ShownInv follows the last refresh, ClosedInv the close.                 *)
(***************************************************************************)
EXTENDS TenantConfig, TeamPage, MenuCard, ShiftScreen, TLAPS

-----------------------------------------------------------------------------
(* The settings *)

\* A save in flight knows which fields have changed under it.
SinceInv ==
    \A t \in Tabs \cup Devices :
        /\ save[t].at = "read" => Differ(save[t].base, config) \subseteq save[t].since
        /\ save[t].at = "saved" => Differ(save[t].saved, config) \subseteq save[t].since

\* So does the form that sent it.
MineInv ==
    \A t \in Tabs : save[t].at # "idle" /\ save[t].mine =>
        /\ Filled(t)
        /\ save[t].at = "saved" => save[t].since \subseteq behind[t]

\* What a form shows as modified was set in it, or missed.
FormInv ==
    \A t \in Tabs : Filled(t) => Differ(original[t], draft[t]) \subseteq touched[t] \cup missed[t]

Inv == ConfigSafe /\ SinceInv /\ MineInv /\ FormInv

-----------------------------------------------------------------------------
(* Saves and settings *)

LEMMA SaveFacts ==
  ASSUME NEW s \in Save
  PROVE  /\ s.at \in {"idle", "sent", "read", "saved"}
         /\ s = NotSaving <=> s.at = "idle"
         /\ s.at \in {"sent", "read"} => s.fields \in Partial
         /\ s.at # "idle" => s.mine \in BOOLEAN
         /\ s.at = "read" => s.base \in Config
         /\ s.at = "saved" => s.saved \in Config
         /\ s.at \in {"read", "saved"} => s.since \subseteq Fields
  BY DEF Save, NotSaving

LEMMA NewSaves ==
  /\ NotSaving \in Save /\ NotSaving.at = "idle"
  /\ \A fields \in Partial, mine \in BOOLEAN :
        [at |-> "sent", fields |-> fields, mine |-> mine] \in Save
  /\ \A fields \in Partial, mine \in BOOLEAN, base \in Config, since \in SUBSET Fields :
        [at |-> "read", fields |-> fields, mine |-> mine, base |-> base, since |-> since] \in Save
  /\ \A mine \in BOOLEAN, saved \in Config, since \in SUBSET Fields :
        [at |-> "saved", mine |-> mine, saved |-> saved, since |-> since] \in Save
  BY DEF Save, NotSaving

LEMMA DifferFacts ==
  ASSUME NEW c \in Config, NEW d \in Config
  PROVE  /\ Differ(c, d) \subseteq Fields
         /\ \A f \in Fields : f \in Differ(c, d) <=> c[f] # d[f]
         /\ c = d <=> Differ(c, d) = {}
  BY DEF Differ, Config

\* A merge takes the fields it is given, and changes no other field of the base.
LEMMA MergeFacts ==
  ASSUME NEW base \in Config, NEW fields \in Partial
  PROVE  /\ Merge(base, fields) \in Config
         /\ \A f \in Fields : f \notin DOMAIN fields => Merge(base, fields)[f] = base[f]
<1>1. PICK S \in SUBSET Fields : fields \in [S -> Values]
  BY DEF Partial
<1> QED
  BY <1>1 DEF Merge, Config

\* The mark of a change on a save that is in flight.
LEMMA NotedFacts ==
  ASSUME NEW s \in Save, NEW changed \in SUBSET Fields
  PROVE  /\ Noted(s, changed) \in Save
         /\ Noted(s, changed).at = s.at
         /\ s.at # "idle" => Noted(s, changed).mine = s.mine
         /\ s.at \in {"sent", "read"} => Noted(s, changed).fields = s.fields
         /\ s.at = "read" => Noted(s, changed).base = s.base
         /\ s.at = "saved" => Noted(s, changed).saved = s.saved
         /\ s.at \in {"read", "saved"} => Noted(s, changed).since = s.since \cup changed
<1>1. CASE s.at \in {"idle", "sent"}
  <2>1. "since" \notin DOMAIN s
    BY <1>1 DEF Save, NotSaving
  <2> QED
    BY <1>1, <2>1 DEF Noted
<1>2. CASE s.at = "read"
  <2>1. s \in [at : {"read"}, fields : Partial, mine : BOOLEAN, base : Config, since : SUBSET Fields]
    BY <1>2 DEF Save, NotSaving
  <2>2. PICK r : r = [s EXCEPT !.since = s.since \cup changed]
    OBVIOUS
  <2>3. Noted(s, changed) = r
    BY <2>1, <2>2 DEF Noted
  <2>4. r \in [at : {"read"}, fields : Partial, mine : BOOLEAN, base : Config, since : SUBSET Fields]
    BY <2>1, <2>2
  <2> QED
    BY <1>2, <2>1, <2>2, <2>3, <2>4 DEF Save
<1>3. CASE s.at = "saved"
  <2>1. s \in [at : {"saved"}, mine : BOOLEAN, saved : Config, since : SUBSET Fields]
    BY <1>3 DEF Save, NotSaving
  <2>2. PICK r : r = [s EXCEPT !.since = s.since \cup changed]
    OBVIOUS
  <2>3. Noted(s, changed) = r
    BY <2>1, <2>2 DEF Noted
  <2>4. r \in [at : {"saved"}, mine : BOOLEAN, saved : Config, since : SUBSET Fields]
    BY <2>1, <2>2
  <2> QED
    BY <1>3, <2>1, <2>2, <2>3, <2>4 DEF Save
<1> QED
  BY <1>1, <1>2, <1>3, SaveFacts

-----------------------------------------------------------------------------
(* What a step starts from *)

LEMMA FormFacts ==
  ASSUME Inv, NEW t \in Tabs
  PROVE  /\ config \in Config /\ config # NoConfig
         /\ cache \in [Tabs -> Config \cup {NoConfig}]
         /\ original \in [Tabs -> Config \cup {NoConfig}]
         /\ draft \in [Tabs -> Config \cup {NoConfig}]
         /\ save \in [Tabs \cup Devices -> Save] /\ save[t] \in Save
         /\ touched \in [Tabs -> SUBSET Fields]
         /\ behind \in [Tabs -> SUBSET Fields] /\ missed \in [Tabs -> SUBSET Fields]
         /\ Filled(t) => original[t] \in Config /\ draft[t] \in Config
         /\ Filled(t) => Differ(original[t], config) \subseteq behind[t]
         /\ Filled(t) => Differ(original[t], draft[t]) \subseteq touched[t] \cup missed[t]
  BY ConfigAssumption DEF Inv, ConfigSafe, ConfigTypeOK, ShowsWhatIsStored, FormInv, Filled, Config

\* A form is replaced, the settings and the saves are not.
FormOf(t, o, d, th, b, m) ==
    /\ original' = [original EXCEPT ![t] = o]
    /\ draft' = [draft EXCEPT ![t] = d]
    /\ touched' = [touched EXCEPT ![t] = th]
    /\ behind' = [behind EXCEPT ![t] = b]
    /\ missed' = [missed EXCEPT ![t] = m]

LEMMA FormReplaced ==
  ASSUME Inv, NEW t \in Tabs, NEW o \in Config, NEW d \in Config, NEW th \in SUBSET Fields,
         NEW b \in SUBSET Fields, NEW m \in SUBSET Fields, FormOf(t, o, d, th, b, m),
         config' = config, cache' \in [Tabs -> Config \cup {NoConfig}],
         save' \in [Tabs \cup Devices -> Save],
         \A u \in Tabs \cup Devices : save'[u] = save[u] \/ (u = t /\ save'[u] = NotSaving),
         save'[t].at # "idle" => b = behind[t] \/ ~save'[t].mine,
         Differ(o, config) \subseteq b, Differ(o, d) \subseteq th \cup m
  PROVE  Inv'
<1>1. /\ original'[t] = o /\ draft'[t] = d /\ touched'[t] = th /\ behind'[t] = b /\ missed'[t] = m
      /\ \A u \in Tabs : u # t => /\ original'[u] = original[u] /\ draft'[u] = draft[u]
                                  /\ touched'[u] = touched[u] /\ behind'[u] = behind[u]
                                  /\ missed'[u] = missed[u]
      /\ original' \in [Tabs -> Config \cup {NoConfig}]
      /\ draft' \in [Tabs -> Config \cup {NoConfig}]
      /\ touched' \in [Tabs -> SUBSET Fields]
      /\ behind' \in [Tabs -> SUBSET Fields] /\ missed' \in [Tabs -> SUBSET Fields]
  BY FormFacts DEF FormOf
<1>2. d # NoConfig /\ o # NoConfig
  BY ConfigAssumption DEF Config
<1>3. ConfigSafe'
  <2>1. ConfigTypeOK'
    BY <1>1, <1>2, FormFacts DEF Inv, ConfigSafe, ConfigTypeOK
  <2>2. ShowsWhatIsStored'
    <3> SUFFICES ASSUME NEW u \in Tabs, Filled(u)'
                 PROVE  Differ(original'[u], config) \subseteq behind'[u]
      BY DEF ShowsWhatIsStored, Differ
    <3> QED
      BY <1>1 DEF Inv, ConfigSafe, ShowsWhatIsStored, Filled
  <2> QED
    BY <2>1, <2>2 DEF ConfigSafe
<1>4. SinceInv'
  BY NewSaves DEF Inv, SinceInv, Differ
<1>5. MineInv'
  <2> SUFFICES ASSUME NEW u \in Tabs, save'[u].at # "idle", save'[u].mine
               PROVE  Filled(u)' /\ (save'[u].at = "saved" => save'[u].since \subseteq behind'[u])
    BY DEF MineInv
  <2>1. save'[u] = save[u]
    BY NewSaves
  <2> QED
    BY <1>1, <1>2, <2>1 DEF Inv, MineInv, Filled
<1>6. FormInv'
  <2> SUFFICES ASSUME NEW u \in Tabs, Filled(u)'
               PROVE  Differ(original'[u], draft'[u]) \subseteq touched'[u] \cup missed'[u]
    BY DEF FormInv, Differ
  <2> QED
    BY <1>1 DEF Inv, FormInv, Filled
<1> QED
  BY <1>3, <1>4, <1>5, <1>6 DEF Inv

\* A save moves on; nothing else does.
LEMMA SaveMoves ==
  ASSUME Inv, NEW t \in Tabs \cup Devices, NEW s \in Save, save' = [save EXCEPT ![t] = s],
         UNCHANGED <<config, cache, original, draft, touched, behind, missed>>,
         s.at # "saved", s.at = "read" => Differ(s.base, config) \subseteq s.since,
         t \in Tabs /\ s.at # "idle" /\ s.mine => Filled(t)
  PROVE  Inv'
<1>1. /\ save' \in [Tabs \cup Devices -> Save] /\ save'[t] = s
      /\ \A u \in Tabs \cup Devices : u # t => save'[u] = save[u]
  BY DEF Inv, ConfigSafe, ConfigTypeOK
<1>2. ConfigSafe'
  BY <1>1 DEF Inv, ConfigSafe, ConfigTypeOK, ShowsWhatIsStored, Filled, Differ
<1>3. SinceInv'
  BY <1>1 DEF Inv, SinceInv, Differ
<1>4. MineInv'
  BY <1>1 DEF Inv, MineInv, Filled
<1>5. FormInv'
  BY DEF Inv, FormInv, Filled, Differ
<1> QED
  BY <1>2, <1>3, <1>4, <1>5 DEF Inv

\* The cache alone changes.
LEMMA CacheMoves ==
  ASSUME Inv, cache' \in [Tabs -> Config \cup {NoConfig}],
         UNCHANGED <<config, original, draft, save, touched, behind, missed>>
  PROVE  Inv'
<1>1. ConfigSafe'
  BY DEF Inv, ConfigSafe, ConfigTypeOK, ShowsWhatIsStored, Filled, Differ
<1>2. SinceInv' /\ MineInv' /\ FormInv'
  BY DEF Inv, SinceInv, MineInv, FormInv, Filled, Differ
<1> QED
  BY <1>1, <1>2 DEF Inv

-----------------------------------------------------------------------------
(* The form *)

LEMMA LoadKeeps ==
  ASSUME Inv, NEW t \in Tabs, Load(t)
  PROVE  Inv'
<1>1. cache' = [cache EXCEPT ![t] = config] /\ UNCHANGED <<config, save>>
  BY DEF Load
<1>2. cache' \in [Tabs -> Config \cup {NoConfig}]
  BY <1>1, FormFacts
<1>3. CASE Filled(t)
  BY <1>1, <1>2, <1>3, CacheMoves DEF Load
<1>4. CASE ~Filled(t)
  <2>1. FormOf(t, config, config, {}, {}, {})
    BY <1>4 DEF Load, FormOf
  <2>2. save[t].at # "idle" => ~save[t].mine
    BY <1>4 DEF Inv, MineInv
  <2>3. Differ(config, config) = {}
    BY DEF Differ
  <2> QED
    BY <1>1, <1>2, <2>1, <2>2, <2>3, FormFacts, FormReplaced
<1> QED
  BY <1>3, <1>4

LEMMA ReopenKeeps ==
  ASSUME Inv, NEW t \in Tabs, Reopen(t)
  PROVE  Inv'
<1>1. /\ ~Filled(t) /\ cache[t] \in Config /\ UNCHANGED <<config, cache, save>>
      /\ FormOf(t, cache[t], cache[t], {}, Differ(cache[t], config), {})
  BY FormFacts DEF Reopen, FormOf
<1>2. save[t].at # "idle" => ~save[t].mine
  BY <1>1 DEF Inv, MineInv
<1>3. Differ(cache[t], cache[t]) = {} /\ Differ(cache[t], config) \subseteq Fields
  BY DEF Differ
<1>4. PICK c \in Config : c = cache[t]
  BY <1>1
<1>5. PICK b \in SUBSET Fields : b = Differ(c, config)
  BY <1>3, <1>4
<1>6. FormOf(t, c, c, {}, b, {}) /\ Differ(c, c) = {}
  BY <1>1, <1>3, <1>4, <1>5
<1>7. /\ config' = config /\ cache' \in [Tabs -> Config \cup {NoConfig}]
      /\ save' \in [Tabs \cup Devices -> Save]
      /\ \A u \in Tabs \cup Devices : save'[u] = save[u]
  BY <1>1, FormFacts
<1>8. save'[t].at # "idle" => ~save'[t].mine
  BY <1>1, <1>2
<1>9. Differ(c, config) \subseteq b /\ Differ(c, c) \subseteq {} \cup {}
  BY <1>5, <1>6
<1>10. {} \in SUBSET Fields
  OBVIOUS
<1> QED
  BY <1>6, <1>7, <1>8, <1>9, <1>10, FormReplaced

LEMMA LeavePageKeeps ==
  ASSUME Inv, NEW t \in Tabs, LeavePage(t)
  PROVE  Inv'
<1>1. /\ original' = [original EXCEPT ![t] = NoConfig]
      /\ draft' = [draft EXCEPT ![t] = NoConfig]
      /\ touched' = [touched EXCEPT ![t] = {}]
      /\ behind' = [behind EXCEPT ![t] = {}]
      /\ missed' = [missed EXCEPT ![t] = {}]
      /\ UNCHANGED <<config, cache>>
  BY DEF LeavePage
<1>2. /\ original'[t] = NoConfig /\ draft'[t] = NoConfig
      /\ \A u \in Tabs : u # t => /\ original'[u] = original[u] /\ draft'[u] = draft[u]
                                  /\ touched'[u] = touched[u] /\ behind'[u] = behind[u]
                                  /\ missed'[u] = missed[u]
      /\ original' \in [Tabs -> Config \cup {NoConfig}]
      /\ draft' \in [Tabs -> Config \cup {NoConfig}]
      /\ touched' \in [Tabs -> SUBSET Fields]
      /\ behind' \in [Tabs -> SUBSET Fields] /\ missed' \in [Tabs -> SUBSET Fields]
  BY <1>1, FormFacts
<1>3. PICK s \in Save : /\ save' = [save EXCEPT ![t] = s]
                        /\ s.at = save[t].at /\ (s.at # "idle" => ~s.mine)
                        /\ s.at = "read" => s.base = save[t].base /\ s.since = save[t].since
                        /\ s.at = "saved" => s.saved = save[t].saved /\ s.since = save[t].since
  <2>1. CASE save[t] = NotSaving
    BY <2>1, FormFacts, NewSaves DEF LeavePage
  <2>2. CASE save[t] # NotSaving
    <3>1. PICK r : r = [save[t] EXCEPT !.mine = FALSE]
      OBVIOUS
    <3>2. save' = [save EXCEPT ![t] = r]
      BY <2>2, <3>1 DEF LeavePage
    <3>3. \/ save[t] \in [at : {"sent"}, fields : Partial, mine : BOOLEAN]
          \/ save[t] \in [at : {"read"}, fields : Partial, mine : BOOLEAN, base : Config,
                          since : SUBSET Fields]
          \/ save[t] \in [at : {"saved"}, mine : BOOLEAN, saved : Config, since : SUBSET Fields]
      BY <2>2, FormFacts DEF Save
    <3>4. CASE save[t] \in [at : {"sent"}, fields : Partial, mine : BOOLEAN]
      <4>1. r \in [at : {"sent"}, fields : Partial, mine : BOOLEAN] /\ ~r.mine
        BY <3>1, <3>4
      <4> QED
        BY <3>2, <3>4, <4>1 DEF Save
    <3>5. CASE save[t] \in [at : {"read"}, fields : Partial, mine : BOOLEAN, base : Config,
                            since : SUBSET Fields]
      <4>1. /\ r \in [at : {"read"}, fields : Partial, mine : BOOLEAN, base : Config,
                      since : SUBSET Fields]
            /\ ~r.mine /\ r.base = save[t].base /\ r.since = save[t].since
        BY <3>1, <3>5
      <4> QED
        BY <3>2, <3>5, <4>1 DEF Save
    <3>6. CASE save[t] \in [at : {"saved"}, mine : BOOLEAN, saved : Config, since : SUBSET Fields]
      <4>1. /\ r \in [at : {"saved"}, mine : BOOLEAN, saved : Config, since : SUBSET Fields]
            /\ ~r.mine /\ r.saved = save[t].saved /\ r.since = save[t].since
        BY <3>1, <3>6
      <4> QED
        BY <3>2, <3>6, <4>1 DEF Save
    <3> QED
      BY <3>3, <3>4, <3>5, <3>6
  <2> QED
    BY <2>1, <2>2
<1>4. /\ save' \in [Tabs \cup Devices -> Save] /\ save'[t] = s
      /\ \A u \in Tabs \cup Devices : u # t => save'[u] = save[u]
  BY <1>3, FormFacts
<1>5. ConfigSafe'
  <2>1. ConfigTypeOK'
    BY <1>1, <1>2, <1>4 DEF Inv, ConfigSafe, ConfigTypeOK
  <2>2. ShowsWhatIsStored'
    BY <1>1, <1>2 DEF Inv, ConfigSafe, ShowsWhatIsStored, Filled, Differ
  <2> QED
    BY <2>1, <2>2 DEF ConfigSafe
<1>6. SinceInv'
  BY <1>1, <1>3, <1>4 DEF Inv, SinceInv, Differ
<1>7. MineInv'
  BY <1>2, <1>3, <1>4 DEF Inv, MineInv, Filled
<1>8. FormInv'
  BY <1>1, <1>2 DEF Inv, FormInv, Filled, Differ
<1> QED
  BY <1>5, <1>6, <1>7, <1>8 DEF Inv

LEMMA CollectKeeps ==
  ASSUME Inv, NEW t \in Tabs, Collect(t)
  PROVE  Inv'
<1>1. /\ cache' = [cache EXCEPT ![t] = NoConfig]
      /\ UNCHANGED <<config, original, draft, save, touched, behind, missed>>
  BY DEF Collect
<1> QED
  BY <1>1, FormFacts, CacheMoves

LEMMA DraftChanges ==
  ASSUME Inv, NEW t \in Tabs, Filled(t), NEW d \in Config, draft' = [draft EXCEPT ![t] = d],
         NEW th \in SUBSET Fields, touched' = [touched EXCEPT ![t] = th],
         NEW m \in SUBSET Fields, missed' = [missed EXCEPT ![t] = m],
         UNCHANGED <<config, cache, original, save, behind>>,
         Differ(original[t], d) \subseteq th \cup m
  PROVE  Inv'
<1>1. PICK o \in Config, b \in SUBSET Fields : o = original[t] /\ b = behind[t]
  BY FormFacts
<1>2. FormOf(t, o, d, th, b, m)
  BY <1>1, FormFacts DEF FormOf
<1>3. Differ(o, config) \subseteq b /\ Differ(o, d) \subseteq th \cup m
  BY <1>1, FormFacts
<1>4. /\ config' = config /\ cache' \in [Tabs -> Config \cup {NoConfig}]
      /\ save' \in [Tabs \cup Devices -> Save]
      /\ \A u \in Tabs \cup Devices : save'[u] = save[u]
  BY FormFacts
<1>5. save'[t].at # "idle" => b = behind[t] \/ ~save'[t].mine
  BY <1>1
<1> QED
  BY <1>2, <1>3, <1>4, <1>5, FormReplaced

LEMMA SetFieldKeeps ==
  ASSUME Inv, NEW t \in Tabs, NEW f \in Fields, NEW v \in Values, SetField(t, f, v)
  PROVE  Inv'
<1>0. Filled(t) /\ draft[t] \in Config
  BY FormFacts DEF SetField
<1>1. PICK d : d = [draft[t] EXCEPT ![f] = v]
  OBVIOUS
<1>2. d \in Config /\ \A g \in Fields : g # f => d[g] = draft[t][g]
  BY <1>0, <1>1 DEF Config
<1>3. draft' = [draft EXCEPT ![t] = d] /\ draft'[t] = d
  BY <1>1, FormFacts DEF SetField
<1>4. /\ touched' = [touched EXCEPT ![t] = (touched[t] \cup {f}) \cap Differ(original[t], d)]
      /\ missed' = [missed EXCEPT ![t] = missed[t] \ {f}]
      /\ UNCHANGED <<config, cache, original, save, behind>>
  BY <1>3 DEF SetField
<1>5. PICK th \in SUBSET Fields, m \in SUBSET Fields :
         /\ th = (touched[t] \cup {f}) \cap Differ(original[t], d)
         /\ m = missed[t] \ {f}
  BY FormFacts DEF Differ
<1>6. Differ(original[t], d) \subseteq th \cup m
  BY <1>0, <1>2, <1>5, FormFacts DEF Differ
<1>7. touched' = [touched EXCEPT ![t] = th] /\ missed' = [missed EXCEPT ![t] = m]
  BY <1>4, <1>5
<1> QED
  BY <1>0, <1>2, <1>3, <1>4, <1>6, <1>7, DraftChanges

LEMMA DiscardKeeps ==
  ASSUME Inv, NEW t \in Tabs, Discard(t) \/ ResetForm(t)
  PROVE  Inv'
<1>1. Filled(t) /\ original[t] \in Config /\ UNCHANGED <<config, cache, original, save, behind>>
  BY FormFacts DEF Discard, ResetForm, Dirty
<1>2. CASE Discard(t)
  <2>1. Differ(original[t], original[t]) = {}
    BY DEF Differ
  <2>2. /\ draft' = [draft EXCEPT ![t] = original[t]]
        /\ touched' = [touched EXCEPT ![t] = {}] /\ missed' = [missed EXCEPT ![t] = {}]
    BY <1>2 DEF Discard
  <2> QED
    BY <1>1, <2>1, <2>2, DraftChanges
<1>3. CASE ResetForm(t)
  <2>1. Defaults \in Config /\ Differ(original[t], Defaults) \in SUBSET Fields
    BY ConfigAssumption DEF Config, Differ
  <2>2. /\ draft' = [draft EXCEPT ![t] = Defaults]
        /\ touched' = [touched EXCEPT ![t] = Differ(original[t], Defaults)]
        /\ missed' = [missed EXCEPT ![t] = {}]
    BY <1>3 DEF ResetForm
  <2> QED
    BY <1>1, <2>1, <2>2, DraftChanges
<1> QED
  BY <1>2, <1>3

LEMMA SendKeeps ==
  ASSUME Inv, \/ \E t \in Tabs : SendSave(t)
              \/ \E d \in Devices, f \in Fields, v \in Values : SendElsewhere(d, f, v)
  PROVE  Inv'
<1>1. ASSUME NEW t \in Tabs, SendSave(t)
      PROVE  Inv'
  <2>1. Filled(t) /\ draft[t] \in Config
    BY <1>1, FormFacts DEF SendSave, Dirty
  <2>2. BuildPayload(t) \in Partial
    <3>1. Differ(original[t], draft[t]) \in SUBSET Fields
      BY DEF Differ
    <3>2. BuildPayload(t) \in [Differ(original[t], draft[t]) -> Values]
      BY <2>1, <3>1 DEF BuildPayload, Config
    <3> QED
      BY <3>1, <3>2 DEF Partial
  <2>3. PICK s \in Save : s = [at |-> "sent", fields |-> BuildPayload(t), mine |-> TRUE]
    BY <2>2, NewSaves
  <2>4. save' = [save EXCEPT ![t] = s] /\ UNCHANGED <<config, cache, original, draft, touched, behind, missed>>
    BY <1>1, <2>3 DEF SendSave
  <2> QED
    BY <2>1, <2>3, <2>4, SaveMoves
<1>2. ASSUME NEW d \in Devices, NEW f \in Fields, NEW v \in Values, SendElsewhere(d, f, v)
      PROVE  Inv'
  <2>1. [g \in {f} |-> v] \in Partial
    <3>1. {f} \in SUBSET Fields /\ [g \in {f} |-> v] \in [{f} -> Values]
      OBVIOUS
    <3> QED
      BY <3>1 DEF Partial
  <2>2. PICK s \in Save : s = [at |-> "sent", fields |-> [g \in {f} |-> v], mine |-> FALSE]
    BY <2>1, NewSaves
  <2>3. save' = [save EXCEPT ![d] = s] /\ UNCHANGED <<config, cache, original, draft, touched, behind, missed>>
    BY <1>2, <2>2 DEF SendElsewhere
  <2> QED
    BY <2>2, <2>3, SaveMoves
<1> QED
  BY <1>1, <1>2

-----------------------------------------------------------------------------
(* The service *)

LEMMA ServiceFacts ==
  ASSUME Inv, NEW t \in Tabs \cup Devices
  PROVE  config \in Config /\ save \in [Tabs \cup Devices -> Save] /\ save[t] \in Save
  BY DEF Inv, ConfigSafe, ConfigTypeOK

LEMMA BeginUpsertKeeps ==
  ASSUME Inv, NEW t \in Tabs \cup Devices, BeginUpsert(t)
  PROVE  Inv'
<1>1. /\ save[t].at = "sent"
      /\ save' = [save EXCEPT ![t] = [at |-> "read", fields |-> save[t].fields,
                                      mine |-> save[t].mine, base |-> config, since |-> {}]]
      /\ UNCHANGED <<config, cache, original, draft, touched, behind, missed>>
  BY ServiceFacts DEF BeginUpsert
<1>2. save[t].fields \in Partial /\ save[t].mine \in BOOLEAN
  BY <1>1, ServiceFacts, SaveFacts
<1>3. PICK s \in Save : s = [at |-> "read", fields |-> save[t].fields, mine |-> save[t].mine,
                             base |-> config, since |-> {}]
  BY <1>2, ServiceFacts, NewSaves
<1>4. Differ(config, config) = {}
  BY DEF Differ
<1>5. t \in Tabs /\ s.mine => Filled(t)
  BY <1>1, <1>3 DEF Inv, MineInv
<1> QED
  BY <1>1, <1>3, <1>4, <1>5, SaveMoves

LEMMA SaveFailedKeeps ==
  ASSUME Inv, NEW t \in Tabs \cup Devices, SaveFailed(t)
  PROVE  Inv'
  BY NewSaves, SaveMoves DEF SaveFailed

\* What a commit changes: of the fields it was not sent, only those changed since it read them.
LEMMA CommitFacts ==
  ASSUME Inv, NEW t \in Tabs \cup Devices, CommitUpsert(t)
  PROVE  /\ save[t].at = "read" /\ config' \in Config /\ save[t].mine \in BOOLEAN
         /\ Differ(config, config') \subseteq Fields
         /\ Differ(config, config') \subseteq DOMAIN save[t].fields \cup save[t].since
<1>1. save[t].at = "read" /\ config' = Merge(save[t].base, save[t].fields)
  BY DEF CommitUpsert
<1>2. /\ save[t].base \in Config /\ save[t].fields \in Partial /\ save[t].mine \in BOOLEAN
      /\ config \in Config
  BY <1>1, ServiceFacts, SaveFacts
<1>3. config' \in Config /\ \A f \in Fields : f \notin DOMAIN save[t].fields => config'[f] = save[t].base[f]
  BY <1>1, <1>2, MergeFacts
<1>4. Differ(save[t].base, config) \subseteq save[t].since
  BY <1>1 DEF Inv, SinceInv
<1> QED
  BY <1>1, <1>2, <1>3, <1>4 DEF Differ

LEMMA CommitKeeps ==
  ASSUME Inv, NEW t \in Tabs \cup Devices, CommitUpsert(t)
  PROVE  Inv'
<1> DEFINE changed == Differ(config, config')
<1>1. /\ save[t].at = "read" /\ config \in Config /\ config' \in Config /\ changed \in SUBSET Fields
      /\ save \in [Tabs \cup Devices -> Save]
  BY CommitFacts, ServiceFacts
<1>2. /\ save' = [u \in Tabs \cup Devices |->
                    IF u # t THEN Noted(save[u], changed)
                    ELSE IF t \in Devices THEN NotSaving
                    ELSE [at |-> "saved", mine |-> save[t].mine,
                          saved |-> config', since |-> {}]]
      /\ behind' = [u \in Tabs |-> IF Filled(u) THEN behind[u] \cup changed ELSE {}]
      /\ UNCHANGED <<cache, original, draft, touched, missed>>
  BY DEF CommitUpsert
<1> HIDE DEF changed
<1>3. /\ save'[t] \in Save /\ save'[t].at \in {"idle", "saved"}
      /\ save'[t].at = "saved" => /\ t \notin Devices /\ save'[t].mine = save[t].mine
                                  /\ save'[t].saved = config' /\ save'[t].since = {}
  <2>1. save'[t] = IF t \in Devices THEN NotSaving
                   ELSE [at |-> "saved", mine |-> save[t].mine, saved |-> config', since |-> {}]
    BY <1>2
  <2> QED
    BY <2>1, CommitFacts, NewSaves
<1>4. \A u \in Tabs \cup Devices : u # t => save'[u] = Noted(save[u], changed)
  BY <1>2
<1>5. ASSUME NEW u \in Tabs \cup Devices, u # t
      PROVE  /\ save'[u] \in Save /\ save'[u].at = save[u].at
             /\ save[u].at # "idle" => save'[u].mine = save[u].mine
             /\ save[u].at = "read" => save'[u].base = save[u].base
             /\ save[u].at = "saved" => save'[u].saved = save[u].saved
             /\ save[u].at \in {"read", "saved"} => save'[u].since = save[u].since \cup changed
  BY <1>1, <1>4, <1>5, NotedFacts
<1>6. save' \in [Tabs \cup Devices -> Save]
  BY <1>2, <1>3, <1>5
<1>7. \A c \in Config : Differ(c, config') \subseteq Differ(c, config) \cup changed
  BY <1>1 DEF Differ, changed
<1>8. /\ behind' \in [Tabs -> SUBSET Fields]
      /\ \A u \in Tabs : Filled(u) => behind'[u] = behind[u] \cup changed
  <2>1. behind \in [Tabs -> SUBSET Fields]
    BY DEF Inv, ConfigSafe, ConfigTypeOK
  <2> QED
    BY <1>1, <1>2, <2>1
<1>9. ConfigSafe'
  <2>1. ConfigTypeOK'
    BY <1>1, <1>2, <1>6, <1>8 DEF Inv, ConfigSafe, ConfigTypeOK
  <2>2. ShowsWhatIsStored'
    <3> SUFFICES ASSUME NEW u \in Tabs, Filled(u)
                 PROVE  Differ(original[u], config') \subseteq behind'[u]
      BY <1>2 DEF ShowsWhatIsStored, Filled, Differ
    <3>1. original[u] \in Config /\ Differ(original[u], config) \subseteq behind[u]
      BY FormFacts
    <3> QED
      BY <1>7, <1>8, <3>1
  <2> QED
    BY <2>1, <2>2 DEF ConfigSafe
<1>10. SinceInv'
  <2> SUFFICES ASSUME NEW u \in Tabs \cup Devices
               PROVE  /\ save'[u].at = "read" => Differ(save'[u].base, config') \subseteq save'[u].since
                      /\ save'[u].at = "saved" => Differ(save'[u].saved, config') \subseteq save'[u].since
    BY DEF SinceInv, Differ
  <2>1. CASE u = t
    <3>1. Differ(config', config') = {}
      BY DEF Differ
    <3> QED
      BY <1>3, <2>1, <3>1
  <2>2. CASE u # t
    <3>1. /\ save[u].at = "read" => Differ(save[u].base, config) \subseteq save[u].since
                                    /\ save[u].base \in Config
          /\ save[u].at = "saved" => Differ(save[u].saved, config) \subseteq save[u].since
                                     /\ save[u].saved \in Config
      BY ServiceFacts, SaveFacts DEF Inv, SinceInv
    <3> QED
      BY <1>5, <1>7, <2>2, <3>1
  <2> QED
    BY <2>1, <2>2
<1>11. MineInv'
  <2> SUFFICES ASSUME NEW u \in Tabs, save'[u].at # "idle", save'[u].mine
               PROVE  Filled(u) /\ (save'[u].at = "saved" => save'[u].since \subseteq behind'[u])
    BY <1>2 DEF MineInv, Filled
  <2>1. CASE u = t
    BY <1>1, <1>3, <2>1 DEF Inv, MineInv
  <2>2. CASE u # t
    BY <1>5, <1>8, <2>2 DEF Inv, MineInv
  <2> QED
    BY <2>1, <2>2
<1>12. FormInv'
  BY <1>2 DEF Inv, FormInv, Filled, Differ
<1> QED
  BY <1>9, <1>10, <1>11, <1>12 DEF Inv

\* Where the answer of a save differs from the form that sent it, the form set the field, or
\* missed a change.
LEMMA SaveAnsweredKeeps ==
  ASSUME Inv, NEW t \in Tabs, SaveAnswered(t)
  PROVE  Inv'
<1>1. /\ save[t].at = "saved" /\ save[t].saved \in Config /\ save[t].since \subseteq Fields
      /\ save[t].mine \in BOOLEAN
      /\ Differ(save[t].saved, config) \subseteq save[t].since
      /\ cache' = [cache EXCEPT ![t] = save[t].saved]
      /\ save' = [save EXCEPT ![t] = NotSaving] /\ UNCHANGED <<config, draft>>
  BY FormFacts, SaveFacts DEF SaveAnswered, Heard, Inv, SinceInv
<1>2. PICK s \in Config : s = save[t].saved
  BY <1>1
<1>3. cache' \in [Tabs -> Config \cup {NoConfig}]
  BY <1>1, FormFacts
<1>4. /\ save' \in [Tabs \cup Devices -> Save] /\ save'[t] = NotSaving
      /\ \A u \in Tabs \cup Devices : u # t => save'[u] = save[u]
  BY <1>1, FormFacts, NewSaves
<1>5. CASE save[t].mine
  <2>1. Filled(t) /\ save[t].since \subseteq behind[t]
    BY <1>1, <1>5 DEF Inv, MineInv
  <2>2. PICK th \in SUBSET Fields : th = touched[t] \cap Differ(s, draft[t])
    BY DEF Differ
  <2>3. PICK m \in SUBSET Fields :
          m = ((missed[t] \cup behind[t]) \ touched[t]) \cap Differ(s, draft[t])
    BY DEF Differ
  <2>4. FormOf(t, s, draft[t], th, save[t].since, m)
    BY <1>1, <1>2, <1>5, <2>2, <2>3, FormFacts DEF SaveAnswered, Heard, FormOf
  <2>5. Differ(s, draft[t]) \subseteq th \cup m
    <3> SUFFICES ASSUME NEW f \in Fields, s[f] # draft[t][f], f \notin touched[t]
                 PROVE  f \in missed[t] \cup behind[t]
      BY <2>2, <2>3 DEF Differ
    <3> SUFFICES ASSUME f \notin missed[t], f \notin behind[t]
                 PROVE  FALSE
      OBVIOUS
    <3>1. original[t][f] = draft[t][f]
      BY <2>1, FormFacts DEF Differ
    <3>2. original[t][f] = config[f]
      BY <2>1, FormFacts DEF Differ
    <3>3. s[f] = config[f]
      BY <1>1, <1>2, <2>1 DEF Differ
    <3> QED
      BY <3>1, <3>2, <3>3
  <2>6. draft[t] \in Config /\ save[t].since \in SUBSET Fields
    BY <1>1, <2>1, FormFacts
  <2> QED
    BY <1>1, <1>2, <1>3, <1>4, <2>4, <2>5, <2>6, NewSaves, FormReplaced
<1>6. CASE ~save[t].mine
  <2>1. UNCHANGED <<original, touched, behind, missed>>
    BY <1>6 DEF SaveAnswered
  <2>2. ConfigSafe'
    BY <1>1, <1>3, <1>4, <2>1 DEF Inv, ConfigSafe, ConfigTypeOK, ShowsWhatIsStored, Filled, Differ
  <2>3. SinceInv'
    BY <1>1, <1>4, NewSaves DEF Inv, SinceInv, Differ
  <2>4. MineInv'
    BY <1>1, <1>4, <2>1, NewSaves DEF Inv, MineInv, Filled
  <2>5. FormInv'
    BY <1>1, <2>1 DEF Inv, FormInv, Filled, Differ
  <2> QED
    BY <2>2, <2>3, <2>4, <2>5 DEF Inv
<1> QED
  BY <1>1, <1>5, <1>6

-----------------------------------------------------------------------------
(* The theorems *)

LEMMA ConfigInitInv == ConfigInit => Inv
<1> SUFFICES ASSUME ConfigInit
             PROVE  Inv
  OBVIOUS
<1>1. ConfigSafe
  BY ConfigAssumption, NewSaves DEF ConfigInit, ConfigSafe, ConfigTypeOK, ShowsWhatIsStored, Filled, Config
<1>2. SinceInv /\ MineInv /\ FormInv
  BY NewSaves DEF ConfigInit, SinceInv, MineInv, FormInv, Filled
<1> QED
  BY <1>1, <1>2 DEF Inv

LEMMA ConfigNextInv == Inv /\ [ConfigNext]_configVars => Inv'
<1> SUFFICES ASSUME Inv, [ConfigNext]_configVars
             PROVE  Inv'
  OBVIOUS
<1>1. ASSUME NEW t \in Tabs, \/ Load(t) \/ Reopen(t) \/ LeavePage(t) \/ Collect(t)
                             \/ Discard(t) \/ ResetForm(t) \/ SendSave(t) \/ SaveAnswered(t)
      PROVE  Inv'
  BY <1>1, LoadKeeps, ReopenKeeps, LeavePageKeeps, CollectKeeps, DiscardKeeps, SendKeeps,
     SaveAnsweredKeeps
<1>2. ASSUME NEW t \in Tabs, NEW f \in Fields, NEW v \in Values, SetField(t, f, v)
      PROVE  Inv'
  BY <1>2, SetFieldKeeps
<1>3. ASSUME NEW d \in Devices, NEW f \in Fields, NEW v \in Values, SendElsewhere(d, f, v)
      PROVE  Inv'
  BY <1>3, SendKeeps
<1>4. ASSUME NEW t \in Tabs \cup Devices, BeginUpsert(t) \/ CommitUpsert(t) \/ SaveFailed(t)
      PROVE  Inv'
  BY <1>4, BeginUpsertKeeps, CommitKeeps, SaveFailedKeeps
<1>5. CASE UNCHANGED configVars
  BY <1>5 DEF configVars, Inv, ConfigSafe, ConfigTypeOK, ShowsWhatIsStored, SinceInv, MineInv,
     FormInv, Filled, Differ
<1> QED
  BY <1>1, <1>2, <1>3, <1>4, <1>5 DEF ConfigNext

LEMMA ConfigInv == ConfigSpec => []Inv
  BY ConfigInitInv, ConfigNextInv, PTL DEF ConfigSpec

\* The settings stay well formed, and a form shows as saved what is stored, but for what others
\* saved since (DistributionConfigForm.tsx:103-115, 145-153).
THEOREM ConfigStaysSafe == ConfigSpec => []ConfigSafe
<1>1. Inv => ConfigSafe
  BY DEF Inv
<1> QED
  BY <1>1, ConfigInv, PTL

\* A save takes back no field of others but by racing with them, and sends no field that was
\* not set in its form but one the form has missed (tenant-config.service.ts:81-120,
\* DistributionConfigForm.tsx:41-68).
THEOREM SavesStayApart == ConfigSpec => SavesKeepToThemselves
<1>1. ASSUME Inv, ConfigNext, NEW t \in Tabs \cup Devices, save[t].at = "read", save'[t].at # "read"
      PROVE  Differ(config, config') \subseteq DOMAIN save[t].fields \cup save[t].since
  <2>1. CASE CommitUpsert(t)
    BY <1>1, <2>1, CommitFacts
  <2>2. CASE config' = config
    BY <2>2 DEF Differ
  <2>3. ASSUME NEW u \in Tabs \cup Devices, u # t, CommitUpsert(u)
        PROVE  FALSE
    <3>1. save'[t] = Noted(save[t], Differ(config, config'))
      BY <2>3 DEF CommitUpsert
    <3>2. Differ(config, config') \in SUBSET Fields /\ save[t] \in Save
      BY <1>1, <2>3, CommitFacts, ServiceFacts
    <3> QED
      BY <1>1, <3>1, <3>2, NotedFacts
  <2> QED
    BY <1>1, <2>1, <2>2, <2>3 DEF ConfigNext, Load, Reopen, LeavePage, Collect, SetField, Discard,
       ResetForm, SendSave, SaveAnswered, SendElsewhere, BeginUpsert, SaveFailed
<1>2. ASSUME Inv, ConfigNext, NEW t \in Tabs, save[t].at = "idle", save'[t].at = "sent"
      PROVE  DOMAIN save'[t].fields \subseteq touched[t] \cup missed[t]
  <2>1. save[t] = NotSaving /\ save[t] \in Save /\ save \in [Tabs \cup Devices -> Save]
    BY <1>2, FormFacts, SaveFacts
  <2>2. save'[t] # save[t]
    BY <1>2
  <2>3. ASSUME NEW u \in Tabs \cup Devices
        PROVE  ~BeginUpsert(u) /\ ~SaveFailed(u)
    <3>1. BeginUpsert(u) => save[u].at = "sent" /\ (u # t => save'[t] = save[t])
      BY <2>1 DEF BeginUpsert
    <3>2. SaveFailed(u) => save[u] # NotSaving /\ (u # t => save'[t] = save[t])
      BY <2>1 DEF SaveFailed
    <3> QED
      BY <1>2, <2>1, <2>2, <3>1, <3>2
  <2>4. ASSUME NEW u \in Tabs \cup Devices
        PROVE  ~CommitUpsert(u)
    <3> SUFFICES ASSUME CommitUpsert(u)
                 PROVE  FALSE
      OBVIOUS
    <3>1. u # t /\ save'[t] = Noted(save[t], Differ(config, config'))
      BY <1>2 DEF CommitUpsert
    <3>2. Differ(config, config') \in SUBSET Fields
      BY <1>2, CommitFacts
    <3> QED
      BY <1>2, <2>1, <3>1, <3>2, NotedFacts
  <2>5. ASSUME NEW d \in Devices, NEW f \in Fields, NEW v \in Values
        PROVE  ~SendElsewhere(d, f, v)
    <3>1. d # t
      BY ConfigAssumption
    <3> QED
      BY <2>1, <2>2, <3>1 DEF SendElsewhere
  <2>6. ASSUME NEW u \in Tabs
        PROVE  ~LeavePage(u) /\ ~SaveAnswered(u)
    <3>1. LeavePage(u) /\ u = t => save' = save
      BY <2>1 DEF LeavePage
    <3>2. LeavePage(u) /\ u # t => save'[t] = save[t]
      BY <2>1 DEF LeavePage
    <3>3. SaveAnswered(u) => save[u].at = "saved" /\ (u # t => save'[t] = save[t])
      BY <2>1 DEF SaveAnswered
    <3> QED
      BY <1>2, <2>2, <3>1, <3>2, <3>3
  <2>7. PICK u \in Tabs : SendSave(u)
    BY <1>2, <2>2, <2>3, <2>4, <2>5, <2>6
       DEF ConfigNext, Load, Reopen, Collect, SetField, Discard, ResetForm
  <2>8. u = t
    BY <2>1, <2>2, <2>7 DEF SendSave
  <2>9. save'[t].fields = BuildPayload(t) /\ Filled(t)
    BY <2>1, <2>7, <2>8 DEF SendSave, Dirty
  <2> QED
    BY <1>2, <2>9, FormFacts DEF BuildPayload
<1>3. Inv /\ [ConfigNext]_configVars =>
        [\A t \in Tabs \cup Devices :
            save[t].at = "read" /\ save'[t].at # "read" =>
                Differ(config, config') \subseteq DOMAIN save[t].fields \cup save[t].since]_configVars
  BY <1>1
<1>4. Inv /\ [ConfigNext]_configVars =>
        [\A t \in Tabs :
            save[t].at = "idle" /\ save'[t].at = "sent" =>
                DOMAIN save'[t].fields \subseteq touched[t] \cup missed[t]]_configVars
  BY <1>2
<1>5. ConfigSpec => FieldsSurvive
  BY <1>3, ConfigInv, PTL DEF ConfigSpec, FieldsSurvive
<1>6. ConfigSpec => SendsOwnChanges
  BY <1>4, ConfigInv, PTL DEF ConfigSpec, SendsOwnChanges
<1> QED
  BY <1>5, <1>6 DEF SavesKeepToThemselves

-----------------------------------------------------------------------------
(* The menu *)

\* A category that already has the name a request is about to write was not there to be found.
ClashInv(m) ==
    request[m].kind = "name" =>
        \A d \in Categories \ {request[m].of} :
            Live(category, d) /\ category[d].name = request[m].name =>
                \/ request[m].since \cap {request[m].of, d} # {}
                \/ /\ category[request[m].of] # Unborn
                   /\ category[request[m].of].name = request[m].name

\* A removal has counted all active items but those written since.
RemovalInv(m) ==
    request[m].kind = "remove" =>
        /\ category[request[m].of] # Unborn
        /\ ActiveItems(request[m].of) \subseteq request[m].since

\* The row a request writes.
Target(m) == IF item[request[m].of] = Unborn THEN request[m].with ELSE item[request[m].of]

\* A write of an item makes sense of the row as it is, or has missed a write of it.
WriteInv(m) ==
    request[m].kind = "write" =>
        /\ item[request[m].of] = Unborn =>
              /\ request[m].with \in Item
              /\ Live(category, request[m].with.cat) \/ request[m].with.cat \in request[m].since
        /\ "cat" \in DOMAIN request[m].with => category[request[m].with.cat] # Unborn
        /\ \/ request[m].of \in request[m].since
           \/ item[request[m].of] # Unborn /\ item[request[m].of].cost > item[request[m].of].price
           \/ Written(Target(m), request[m].with).cost <= Written(Target(m), request[m].with).price

RequestInv == \A m \in Staff : ClashInv(m) /\ RemovalInv(m) /\ WriteInv(m)

MenuInv == MenuTypeOK /\ RequestInv

-----------------------------------------------------------------------------
\* What an item is made of, and what a request may name of it.
ItemFields == {"cat", "active", "price", "cost", "deleted"}

Withs == Item \cup Edits \cup {[deleted |-> TRUE]}

LEMMA ItemIs ==
    ASSUME NEW row
    PROVE  row \in Item <=> /\ row = [f \in ItemFields |-> row[f]]
                            /\ row.cat \in Categories /\ row.active \in BOOLEAN
                            /\ row.price \in Prices /\ row.cost \in Costs /\ row.deleted \in BOOLEAN
BY DEF Item, ItemFields

LEMMA WithIs ==
    ASSUME NEW with \in Withs
    PROVE  /\ DOMAIN with \subseteq ItemFields
           /\ "cat" \in DOMAIN with => with.cat \in Categories
           /\ "active" \in DOMAIN with => with.active \in BOOLEAN
           /\ "price" \in DOMAIN with => with.price \in Prices
           /\ "cost" \in DOMAIN with => with.cost \in Costs
           /\ "deleted" \in DOMAIN with => with.deleted \in BOOLEAN
<1>1. CASE with \in Item
  BY <1>1 DEF Item, ItemFields
<1>2. CASE with \in Edits
  <2>1. PICK row \in [cat : Categories, active : BOOLEAN, price : Prices, cost : Costs] :
           \A f \in DOMAIN with : f \in DOMAIN row /\ with[f] = row[f]
    BY <1>2, MenuAssumption
  <2>2. DOMAIN row = {"cat", "active", "price", "cost"}
    OBVIOUS
  <2> QED
    BY <2>1, <2>2 DEF ItemFields
<1>3. CASE with = [deleted |-> TRUE]
  BY <1>3 DEF ItemFields
<1> QED
  BY <1>1, <1>2, <1>3 DEF Withs

LEMMA WrittenIs ==
    ASSUME NEW row \in Item, NEW with \in Withs
    PROVE  /\ Written(row, with) \in Item
           /\ Written(row, with).cat = IF "cat" \in DOMAIN with THEN with.cat ELSE row.cat
           /\ Written(row, with).price = IF "price" \in DOMAIN with THEN with.price ELSE row.price
           /\ Written(row, with).cost = IF "cost" \in DOMAIN with THEN with.cost ELSE row.cost
<1>1. DOMAIN row = ItemFields
  BY DEF Item, ItemFields
<1>2. Written(row, with) = [f \in ItemFields |-> IF f \in DOMAIN with THEN with[f] ELSE row[f]]
  BY <1>1 DEF Written
<1>3. /\ row.cat \in Categories /\ row.active \in BOOLEAN
      /\ row.price \in Prices /\ row.cost \in Costs /\ row.deleted \in BOOLEAN
  BY DEF Item
<1> DEFINE w == Written(row, with)
<1>4. /\ w.cat = IF "cat" \in DOMAIN with THEN with.cat ELSE row.cat
      /\ w.active = IF "active" \in DOMAIN with THEN with.active ELSE row.active
      /\ w.price = IF "price" \in DOMAIN with THEN with.price ELSE row.price
      /\ w.cost = IF "cost" \in DOMAIN with THEN with.cost ELSE row.cost
      /\ w.deleted = IF "deleted" \in DOMAIN with THEN with.deleted ELSE row.deleted
  BY <1>2 DEF ItemFields
<1>5. w = [f \in ItemFields |-> w[f]]
  BY <1>2
<1>6. /\ w.cat \in Categories /\ w.active \in BOOLEAN /\ w.price \in Prices
      /\ w.cost \in Costs /\ w.deleted \in BOOLEAN
  BY <1>3, <1>4, WithIs
<1>7. w \in Item
  <2> HIDE DEF w
  <2> QED
    BY <1>5, <1>6, ItemIs
<1> QED
  BY <1>4, <1>7

\* What is in flight.
LEMMA RequestIs ==
    ASSUME NEW r \in CategoryRequest \cup ItemRequest
    PROVE  /\ r # NoRequest
           /\ r.kind \in {"name", "remove", "write"}
           /\ r.since \in SUBSET (Categories \cup Items)
           /\ r.kind \in {"name", "remove"} => r.of \in Categories
           /\ r.kind = "name" => r.name \in Names
           /\ r.kind = "write" => r.of \in Items /\ r.with \in Withs
BY DEF CategoryRequest, ItemRequest, NoRequest, Withs

LEMMA MissedIs ==
    ASSUME NEW r \in CategoryRequest \cup ItemRequest, NEW x \in Categories \cup Items
    PROVE  LET s == [r EXCEPT !.since = @ \cup {x}]
           IN  /\ s \in CategoryRequest \cup ItemRequest
               /\ s.kind = r.kind /\ s.of = r.of /\ s.since = r.since \cup {x}
               /\ r.kind = "name" => s.name = r.name
               /\ r.kind = "write" => s.with = r.with
BY DEF CategoryRequest, ItemRequest, Withs

-----------------------------------------------------------------------------
\* A row of a category.
LEMMA CategoryIs ==
    ASSUME MenuTypeOK, NEW c \in Categories, category[c] # Unborn
    PROVE  category[c] \in Category /\ category[c].name \in Names /\ category[c].deleted \in BOOLEAN
BY DEF MenuTypeOK, Category

\* Requests that pass their checks, or end.
LEMMA HeldKeeps ==
    ASSUME MenuInv, NEW m \in Staff, NEW r \in CategoryRequest \cup ItemRequest, Hold(m, r),
           ClashInv(m)', RemovalInv(m)', WriteInv(m)'
    PROVE  MenuInv'
<1>1. category' = category /\ item' = item /\ request' = [request EXCEPT ![m] = r]
  BY DEF Hold
<1>2. MenuTypeOK'
  BY <1>1 DEF MenuInv, MenuTypeOK
<1>3. ASSUME NEW n \in Staff, n # m
      PROVE  ClashInv(n)' /\ RemovalInv(n)' /\ WriteInv(n)'
  <2>1. request'[n] = request[n]
    BY <1>1, <1>3 DEF MenuInv, MenuTypeOK
  <2>2. ClashInv(n) /\ RemovalInv(n) /\ WriteInv(n)
    BY DEF MenuInv, RequestInv
  <2> QED
    BY <1>1, <2>1, <2>2 DEF ClashInv, RemovalInv, WriteInv, Target, Live, ActiveItems
<1> QED
  BY <1>2, <1>3 DEF MenuInv, RequestInv

LEMMA RefusedKeeps ==
    ASSUME MenuInv, NEW m \in Staff, Refuse(m), category' = category, item' = item
    PROVE  MenuInv'
<1>1. request' = [request EXCEPT ![m] = NoRequest]
  BY DEF Refuse
<1>2. MenuTypeOK'
  BY <1>1 DEF MenuInv, MenuTypeOK
<1>3. ASSUME NEW n \in Staff
      PROVE  ClashInv(n)' /\ RemovalInv(n)' /\ WriteInv(n)'
  <2>1. request'[n] \in {request[n], NoRequest}
    BY <1>1 DEF MenuInv, MenuTypeOK
  <2>2. ClashInv(n) /\ RemovalInv(n) /\ WriteInv(n)
    BY DEF MenuInv, RequestInv
  <2>3. CASE request'[n] = NoRequest
    BY <2>3 DEF ClashInv, RemovalInv, WriteInv, NoRequest
  <2>4. CASE request'[n] = request[n]
    BY <2>2, <2>4 DEF ClashInv, RemovalInv, WriteInv, Target, Live, ActiveItems
  <2> QED
    BY <2>1, <2>3, <2>4
<1> QED
  BY <1>2, <1>3 DEF MenuInv, RequestInv

\* What a write leaves of the requests in flight.
LEMMA WroteShows ==
    ASSUME MenuInv, NEW m \in Staff, NEW x \in Categories \cup Items, Wrote(m, x)
    PROVE  /\ request' \in [Staff -> CategoryRequest \cup ItemRequest \cup {NoRequest}]
           /\ \A n \in Staff :
                 \/ request'[n] = NoRequest
                 \/ /\ request[n] \in CategoryRequest \cup ItemRequest
                    /\ request'[n].kind = request[n].kind
                    /\ request'[n].of = request[n].of
                    /\ request'[n].since = request[n].since \cup {x}
                    /\ request[n].kind = "name" => request'[n].name = request[n].name
                    /\ request[n].kind = "write" => request'[n].with = request[n].with
<1>1. request \in [Staff -> CategoryRequest \cup ItemRequest \cup {NoRequest}]
  BY DEF MenuInv, MenuTypeOK
<1>2. ASSUME NEW n \in Staff
      PROVE  \/ request'[n] = NoRequest
             \/ /\ request[n] \in CategoryRequest \cup ItemRequest
                /\ request'[n] = [request[n] EXCEPT !.since = @ \cup {x}]
  BY <1>1 DEF Wrote
<1>3. ASSUME NEW n \in Staff, request'[n] # NoRequest
      PROVE  /\ request[n] \in CategoryRequest \cup ItemRequest
             /\ request'[n] \in CategoryRequest \cup ItemRequest
             /\ request'[n].kind = request[n].kind
             /\ request'[n].of = request[n].of
             /\ request'[n].since = request[n].since \cup {x}
             /\ request[n].kind = "name" => request'[n].name = request[n].name
             /\ request[n].kind = "write" => request'[n].with = request[n].with
  <2> DEFINE r == request[n]
             s == [r EXCEPT !.since = @ \cup {x}]
  <2>1. r \in CategoryRequest \cup ItemRequest /\ request'[n] = s
    BY <1>2, <1>3
  <2>2. /\ s \in CategoryRequest \cup ItemRequest
        /\ s.kind = r.kind /\ s.of = r.of /\ s.since = r.since \cup {x}
        /\ r.kind = "name" => s.name = r.name
        /\ r.kind = "write" => s.with = r.with
    <3> HIDE DEF r
    <3> QED
      BY <2>1, MissedIs
  <2> QED
    BY <2>1, <2>2
<1>4. \A n \in Staff : request'[n] \in CategoryRequest \cup ItemRequest \cup {NoRequest}
  BY <1>3
<1>5. DOMAIN request' = Staff /\ request' = [n \in Staff |-> request'[n]]
  BY DEF Wrote
<1>6. request' \in [Staff -> CategoryRequest \cup ItemRequest \cup {NoRequest}]
  BY <1>4, <1>5
<1> QED
  BY <1>3, <1>6

\* Writes, which the other requests miss.
LEMMA CategoryWritten ==
    ASSUME MenuInv, NEW m \in Staff, NEW c \in Categories, NEW row \in Category,
           category' = [category EXCEPT ![c] = row], item' = item, Wrote(m, c)
    PROVE  MenuInv'
<1>1. row # Unborn
  BY UnbornAssumption
<1>2. category \in [Categories -> Category \cup {Unborn}] /\ item \in [Items -> Item \cup {Unborn}]
  BY DEF MenuInv, MenuTypeOK
<1>3. category'[c] = row /\ \A d \in Categories \ {c} : category'[d] = category[d]
  BY <1>2
<1>4. MenuTypeOK'
  <2>1. \A i \in Items : item[i] # Unborn => item[i].cat \in Categories
    BY <1>2 DEF Item
  <2> QED
    BY <1>1, <1>2, <1>3, <2>1, WroteShows DEF MenuInv, MenuTypeOK
<1>5. ASSUME NEW n \in Staff
      PROVE  ClashInv(n)' /\ RemovalInv(n)' /\ WriteInv(n)'
  <2>1. ClashInv(n) /\ RemovalInv(n) /\ WriteInv(n)
    BY DEF MenuInv, RequestInv
  <2>2. CASE request'[n] = NoRequest
    BY <2>2 DEF ClashInv, RemovalInv, WriteInv, NoRequest
  <2>3. CASE request'[n] # NoRequest
    <3>1. /\ request[n] \in CategoryRequest \cup ItemRequest
          /\ request'[n].kind = request[n].kind /\ request'[n].of = request[n].of
          /\ request'[n].since = request[n].since \cup {c}
          /\ request[n].kind = "name" => request'[n].name = request[n].name
          /\ request[n].kind = "write" => request'[n].with = request[n].with
      BY <2>3, WroteShows
    <3>2. ClashInv(n)'
      BY <1>3, <2>1, <3>1, RequestIs DEF ClashInv, Live
    <3>3. RemovalInv(n)'
      BY <1>1, <1>3, <2>1, <3>1, RequestIs DEF RemovalInv, ActiveItems, Live
    <3>4. WriteInv(n)'
      <4>1. request[n].kind = "write" => Target(n)' = Target(n)
        BY <3>1 DEF Target
      <4>2. request[n].kind = "write" /\ "cat" \in DOMAIN request[n].with =>
                request[n].with.cat \in Categories
        BY <3>1, RequestIs, WithIs
      <4>3. request[n].kind = "write" /\ request[n].with \in Item => request[n].with.cat \in Categories
        BY DEF Item
      <4> QED
        BY <1>1, <1>3, <2>1, <3>1, <4>1, <4>2, <4>3 DEF WriteInv, Live
    <3> QED
      BY <3>2, <3>3, <3>4
  <2> QED
    BY <2>2, <2>3
<1> QED
  BY <1>4, <1>5 DEF MenuInv, RequestInv

LEMMA ItemWritten ==
    ASSUME MenuInv, NEW m \in Staff, NEW i \in Items, NEW row \in Item,
           category[row.cat] # Unborn,
           item' = [item EXCEPT ![i] = row], category' = category, Wrote(m, i)
    PROVE  MenuInv'
<1>1. row # Unborn
  BY UnbornAssumption
<1>2. category \in [Categories -> Category \cup {Unborn}] /\ item \in [Items -> Item \cup {Unborn}]
  BY DEF MenuInv, MenuTypeOK
<1>3. item'[i] = row /\ \A j \in Items \ {i} : item'[j] = item[j]
  BY <1>2
<1>4. MenuTypeOK'
  BY <1>2, <1>3, WroteShows DEF MenuInv, MenuTypeOK
<1>5. ASSUME NEW n \in Staff
      PROVE  ClashInv(n)' /\ RemovalInv(n)' /\ WriteInv(n)'
  <2>1. ClashInv(n) /\ RemovalInv(n) /\ WriteInv(n)
    BY DEF MenuInv, RequestInv
  <2>2. CASE request'[n] = NoRequest
    BY <2>2 DEF ClashInv, RemovalInv, WriteInv, NoRequest
  <2>3. CASE request'[n] # NoRequest
    <3>1. /\ request[n] \in CategoryRequest \cup ItemRequest
          /\ request'[n].kind = request[n].kind /\ request'[n].of = request[n].of
          /\ request'[n].since = request[n].since \cup {i}
          /\ request[n].kind = "name" => request'[n].name = request[n].name
          /\ request[n].kind = "write" => request'[n].with = request[n].with
      BY <2>3, WroteShows
    <3>2. ClashInv(n)'
      BY <2>1, <3>1 DEF ClashInv, Live
    <3>3. RemovalInv(n)'
      <4>1. \A c \in Categories : ActiveItems(c)' \subseteq ActiveItems(c) \cup {i}
        BY <1>3 DEF ActiveItems, Live
      <4> QED
        BY <2>1, <3>1, <4>1, RequestIs DEF RemovalInv
    <3>4. WriteInv(n)'
      <4>1. CASE request[n].of = i
        BY <1>1, <1>3, <2>1, <3>1, <4>1 DEF WriteInv, Live
      <4>2. CASE request[n].of # i /\ request[n].kind = "write"
        <5>1. item'[request[n].of] = item[request[n].of]
          BY <1>3, <3>1, <4>2, RequestIs
        <5>2. Target(n)' = Target(n)
          BY <3>1, <4>2, <5>1 DEF Target
        <5> QED
          BY <2>1, <3>1, <4>2, <5>1, <5>2 DEF WriteInv, Live
      <4>3. CASE request[n].kind # "write"
        BY <3>1, <4>3 DEF WriteInv
      <4> QED
        BY <4>1, <4>2, <4>3
    <3> QED
      BY <3>2, <3>3, <3>4
  <2> QED
    BY <2>2, <2>3
<1> QED
  BY <1>4, <1>5 DEF MenuInv, RequestInv

LEMMA MenuInitInv == MenuInit => MenuInv
BY DEF MenuInit, MenuInv, MenuTypeOK, RequestInv, ClashInv, RemovalInv, WriteInv, NoRequest

LEMMA HeldIs ==
    ASSUME MenuInv, NEW m \in Staff, NEW r, Hold(m, r)
    PROVE  category' = category /\ item' = item /\ request'[m] = r
BY DEF MenuInv, MenuTypeOK, Hold

\* Of the requests on categories.
LEMMA CategoryKeeps ==
    ASSUME MenuInv, NEW m \in Staff,
           \/ CommitName(m) \/ CommitRemoveCategory(m)
           \/ \E c \in Categories :
                 \/ BeginRemoveCategory(m, c)
                 \/ \E n \in Names : BeginCreateCategory(m, c, n) \/ BeginRename(m, c, n)
    PROVE  MenuInv'
<1>1. request[m] \in CategoryRequest \cup ItemRequest \cup {NoRequest}
  BY DEF MenuInv, MenuTypeOK
<1>2. CASE CommitName(m)
  <2>1. request[m] \in CategoryRequest \cup ItemRequest
    BY <1>1, <1>2 DEF CommitName, NoRequest
  <2>2. request[m].of \in Categories /\ request[m].name \in Names
    BY <1>2, <2>1, RequestIs DEF CommitName
  <2>3. [name |-> request[m].name, deleted |-> FALSE] \in Category
    BY <2>2 DEF Category
  <2> QED
    BY <1>2, <2>2, <2>3, CategoryWritten, RefusedKeeps DEF CommitName
<1>3. CASE CommitRemoveCategory(m)
  <2>1. request[m] \in CategoryRequest \cup ItemRequest
    BY <1>1, <1>3 DEF CommitRemoveCategory, NoRequest
  <2> DEFINE c == request[m].of
  <2>2. c \in Categories
    BY <1>3, <2>1, RequestIs DEF CommitRemoveCategory
  <2>3. category[c] # Unborn
    BY <1>3 DEF MenuInv, RequestInv, RemovalInv, CommitRemoveCategory
  <2>4. category[c] \in Category
    BY <2>2, <2>3, CategoryIs DEF MenuInv
  <2>5. [category[c] EXCEPT !.deleted = TRUE] \in Category
    BY <2>4 DEF Category
  <2> QED
    BY <1>3, <2>2, <2>5, CategoryWritten, RefusedKeeps DEF CommitRemoveCategory
<1>4. ASSUME NEW c \in Categories, BeginRemoveCategory(m, c)
      PROVE  MenuInv'
  <2> DEFINE r == [kind |-> "remove", of |-> c, since |-> {}]
  <2>1. r \in CategoryRequest \cup ItemRequest
    BY DEF CategoryRequest
  <2>2. Hold(m, r) /\ category' = category /\ item' = item /\ request'[m] = r
    BY <1>4, HeldIs DEF BeginRemoveCategory
  <2>3. ClashInv(m)' /\ RemovalInv(m)' /\ WriteInv(m)'
    BY <1>4, <2>2 DEF BeginRemoveCategory, ClashInv, RemovalInv, WriteInv, Removable, ActiveItems,
       Live
  <2> QED
    BY <2>1, <2>2, <2>3, HeldKeeps
<1>5. ASSUME NEW c \in Categories, NEW n \in Names,
             BeginCreateCategory(m, c, n) \/ BeginRename(m, c, n)
      PROVE  MenuInv'
  <2> DEFINE r == [kind |-> "name", of |-> c, name |-> n, since |-> {}]
  <2>1. r \in CategoryRequest \cup ItemRequest
    BY DEF CategoryRequest
  <2>2. Hold(m, r) /\ category' = category /\ item' = item /\ request'[m] = r
    BY <1>5, HeldIs DEF BeginCreateCategory, BeginRename
  <2>3. ClashInv(m)' /\ RemovalInv(m)' /\ WriteInv(m)'
    BY <1>5, <2>2 DEF BeginCreateCategory, BeginRename, ClashInv, RemovalInv, WriteInv,
       NameAvailable, Live
  <2> QED
    BY <2>1, <2>2, <2>3, HeldKeeps
<1> QED
  BY <1>2, <1>3, <1>4, <1>5

\* What a request that writes an item writes.
LEMMA ItemRequestIs ==
    ASSUME MenuInv, NEW m \in Staff, request[m].kind = "write"
    PROVE  /\ request[m].of \in Items /\ request[m].with \in Withs /\ Target(m) \in Item
           /\ category[Written(Target(m), request[m].with).cat] # Unborn
<1>1. request[m] \in CategoryRequest \cup ItemRequest
  BY DEF MenuInv, MenuTypeOK, NoRequest
<1>2. request[m].of \in Items /\ request[m].with \in Withs
  BY <1>1, RequestIs
<1>3. Target(m) \in Item
  BY <1>2 DEF MenuInv, MenuTypeOK, RequestInv, WriteInv, Target
<1>4. category[Target(m).cat] # Unborn \/ "cat" \in DOMAIN request[m].with
  <2>1. CASE item[request[m].of] # Unborn
    BY <1>2, <2>1 DEF MenuInv, MenuTypeOK, Target
  <2>2. CASE item[request[m].of] = Unborn
    BY <2>2 DEF MenuInv, RequestInv, WriteInv, Item
  <2> QED
    BY <2>1, <2>2
<1>5. "cat" \in DOMAIN request[m].with => category[request[m].with.cat] # Unborn
  BY DEF MenuInv, RequestInv, WriteInv
<1> QED
  BY <1>2, <1>3, <1>4, <1>5, WrittenIs

\* Of the requests on items.
LEMMA ItemKeeps ==
    ASSUME MenuInv, NEW m \in Staff,
           \/ CommitItem(m)
           \/ \E i \in Items :
                 \/ BeginRemoveItem(m, i)
                 \/ \E row \in Item : BeginCreateItem(m, i, row)
                 \/ \E with \in Edits : BeginUpdateItem(m, i, with)
    PROVE  MenuInv'
<1>1. CASE CommitItem(m)
  <2>1. request[m].kind = "write"
    BY <1>1 DEF CommitItem
  <2> DEFINE i == request[m].of
             row == Written(Target(m), request[m].with)
  <2>2. i \in Items /\ row \in Item /\ category[row.cat] # Unborn
    BY <2>1, ItemRequestIs, WrittenIs
  <2>3. item' = [item EXCEPT ![i] = row] /\ category' = category /\ Wrote(m, i)
    BY <1>1 DEF CommitItem, Target
  <2> HIDE DEF i, row
  <2> QED
    BY <2>2, <2>3, ItemWritten
<1>2. ASSUME NEW i \in Items, NEW with \in Withs,
             Hold(m, [kind |-> "write", of |-> i, with |-> with, since |-> {}]),
             item[i] = Unborn => with \in Item /\ Live(category, with.cat),
             "cat" \in DOMAIN with => category[with.cat] # Unborn,
             LET row == IF item[i] = Unborn THEN with ELSE item[i]
             IN  \/ item[i] # Unborn /\ item[i].cost > item[i].price
                 \/ Written(row, with).cost <= Written(row, with).price
      PROVE  MenuInv'
  <2> DEFINE r == [kind |-> "write", of |-> i, with |-> with, since |-> {}]
  <2>1. r \in CategoryRequest \cup ItemRequest
    BY DEF ItemRequest, Withs
  <2>2. category' = category /\ item' = item /\ request'[m] = r
    BY <1>2, HeldIs
  <2>3. ClashInv(m)' /\ RemovalInv(m)'
    BY <2>2 DEF ClashInv, RemovalInv
  <2>4. /\ request'[m].with = with /\ request'[m].of = i
        /\ Target(m)' = IF item[i] = Unborn THEN with ELSE item[i]
    BY <2>2 DEF Target
  <2>5. WriteInv(m)'
    BY <1>2, <2>2, <2>4 DEF WriteInv, Live
  <2> QED
    BY <1>2, <2>1, <2>3, <2>5, HeldKeeps
<1>3. ASSUME NEW i \in Items, NEW row \in Item, BeginCreateItem(m, i, row)
      PROVE  MenuInv'
  <2>1. item[i] = Unborn /\ Live(category, row.cat) /\ Written(row, row).cost <= Written(row, row).price
    BY <1>3 DEF BeginCreateItem, CategoryOwned, Sound
  <2>2. row \in Withs /\ Hold(m, [kind |-> "write", of |-> i, with |-> row, since |-> {}])
    BY <1>3 DEF BeginCreateItem, Withs
  <2> QED
    BY <1>2, <2>1, <2>2 DEF Live
<1>4. ASSUME NEW i \in Items, NEW with \in Edits, BeginUpdateItem(m, i, with)
      PROVE  MenuInv'
  <2>1. item[i] # Unborn /\ Written(item[i], with).cost <= Written(item[i], with).price
    BY <1>4 DEF BeginUpdateItem, Live, Sound
  <2>2. /\ "cat" \in DOMAIN with => category[with.cat] # Unborn
        /\ with \in Withs
        /\ Hold(m, [kind |-> "write", of |-> i, with |-> with, since |-> {}])
    BY <1>4 DEF BeginUpdateItem, Withs
  <2> QED
    BY <1>2, <2>1, <2>2
<1>5. ASSUME NEW i \in Items, BeginRemoveItem(m, i)
      PROVE  MenuInv'
  <2> DEFINE with == [deleted |-> TRUE]
  <2>1. item[i] # Unborn /\ item[i] \in Item
    BY <1>5 DEF BeginRemoveItem, Live, MenuInv, MenuTypeOK
  <2>2. with \in Withs /\ "cat" \notin DOMAIN with
    BY DEF Withs
  <2>3. Written(item[i], with).cost = item[i].cost /\ Written(item[i], with).price = item[i].price
    <3>1. "cost" \notin DOMAIN with /\ "price" \notin DOMAIN with
      OBVIOUS
    <3> HIDE DEF with
    <3> QED
      BY <2>1, <2>2, <3>1, WrittenIs
  <2>4. item[i].cost > item[i].price \/ item[i].cost <= item[i].price
    <3>1. Prices \subseteq Nat /\ Costs \subseteq Nat
      BY MenuAssumption
    <3>2. item[i].cost \in Costs /\ item[i].price \in Prices
      BY <2>1 DEF Item
    <3>3. item[i].cost \in Nat /\ item[i].price \in Nat
      BY <3>1, <3>2
    <3> QED
      BY <3>3
  <2>5. Hold(m, [kind |-> "write", of |-> i, with |-> with, since |-> {}])
    BY <1>5 DEF BeginRemoveItem
  <2> HIDE DEF with
  <2> QED
    BY <1>2, <2>1, <2>2, <2>3, <2>4, <2>5
<1> QED
  BY <1>1, <1>3, <1>4, <1>5

LEMMA MenuNextInv == MenuInv /\ [MenuNext]_menuVars => MenuInv'
<1> SUFFICES ASSUME MenuInv, [MenuNext]_menuVars
             PROVE  MenuInv'
  OBVIOUS
<1>1. ASSUME NEW m \in Staff, AbandonRequest(m)
      PROVE  MenuInv'
  BY <1>1, RefusedKeeps DEF AbandonRequest
<1>2. CASE UNCHANGED menuVars
  BY <1>2 DEF menuVars, MenuInv, MenuTypeOK, RequestInv, ClashInv, RemovalInv, WriteInv, Target, Live,
     ActiveItems
<1> QED
  BY <1>1, <1>2, CategoryKeeps, ItemKeeps DEF MenuNext

LEMMA MenuInvariant == MenuSpec => []MenuInv
BY MenuInitInv, MenuNextInv, PTL DEF MenuSpec

\* MenuTypeOK: categories, items and requests keep their types, and an item keeps a category that
\* exists, deleted or not (menu-items.service.ts:50-108).
THEOREM MenuStaysTyped == MenuSpec => []MenuTypeOK
<1>1. MenuInv => MenuTypeOK
  BY DEF MenuInv
<1> QED
  BY <1>1, MenuInvariant, PTL

\* Who writes a row.
LEMMA WriterIs ==
    ASSUME MenuInv, MenuNext, NEW m \in Staff, NEW x \in Categories \cup Items, Writes(m, x)
    PROVE  /\ request[m] \in CategoryRequest \cup ItemRequest
           /\ CommitName(m) \/ CommitRemoveCategory(m) \/ CommitItem(m)
<1>1. request[m] \in CategoryRequest \cup ItemRequest /\ request'[m] = NoRequest
  BY DEF Writes, MenuInv, MenuTypeOK
<1>2. category' # category \/ item' # item
  BY DEF Writes
<1>3. PICK n \in Staff : CommitName(n) \/ CommitRemoveCategory(n) \/ CommitItem(n)
  BY <1>2 DEF MenuNext, AbandonRequest, BeginRemoveCategory, BeginCreateCategory, BeginRename,
     BeginRemoveItem, BeginCreateItem, BeginUpdateItem, Hold
<1>4. PICK y : Wrote(n, y)
  BY <1>2, <1>3 DEF CommitName, CommitRemoveCategory, CommitItem
<1>5. n # m => request'[m] = [request[m] EXCEPT !.since = @ \cup {y}]
  BY <1>1, <1>4, RequestIs DEF Wrote
<1>6. [request[m] EXCEPT !.since = @ \cup {y}] # NoRequest
  <2>1. "of" \in DOMAIN request[m]
    BY <1>1 DEF CategoryRequest, ItemRequest
  <2>2. "of" \in DOMAIN [request[m] EXCEPT !.since = @ \cup {y}]
    BY <2>1
  <2> QED
    BY <2>2 DEF NoRequest
<1> QED
  BY <1>1, <1>3, <1>5, <1>6

\* What the checks of the menu are good for: a name clashes, a removed category keeps an active
\* item, a new item joins a removed category and an item is sold below its cost only by an overlap
\* (menu-categories.service.ts:63-195, menu-items.service.ts:50-108).
THEOREM MenuChecksAreGood == MenuSpec => MenuChecksHold
<1>1. ASSUME MenuInv, MenuNext, NEW m \in Staff, NEW c \in Categories,
             Writes(m, c), request[m].kind = "name",
             NEW d \in Categories \ {c}, Live(category, d), category[d].name = category'[c].name,
             category[c] = Unborn \/ category[c].name # category'[c].name
      PROVE  request[m].since \cap {c, d} # {}
  <2>1. CommitName(m) /\ request[m].of = c /\ category'[c] # category[c]
    BY <1>1, WriterIs DEF CommitRemoveCategory, CommitItem, Writes
  <2>2. category'[c].name = request[m].name
    BY <1>1, <2>1 DEF CommitName, MenuInv, MenuTypeOK
  <2> QED
    BY <1>1, <2>1, <2>2 DEF MenuInv, RequestInv, ClashInv
<1>2. ASSUME MenuInv, MenuNext, NEW m \in Staff, NEW c \in Categories,
             Writes(m, c), request[m].kind = "remove"
      PROVE  ActiveItems(c) \subseteq request[m].since
  BY <1>2 DEF MenuInv, RequestInv, RemovalInv, Writes
<1>3. ASSUME MenuInv, MenuNext, NEW m \in Staff, NEW i \in Items, Writes(m, i)
      PROVE  /\ request[m].kind = "write" /\ request[m].of = i /\ WriteInv(m)
             /\ item'[i] = Written(Target(m), request[m].with)
             /\ request[m].with \in Withs /\ Target(m) \in Item
  <2>1. item'[i] # item[i] /\ request[m].of = i
    BY <1>3, MenuAssumption DEF Writes
  <2>2. CommitItem(m)
    BY <1>3, <2>1, WriterIs DEF CommitName, CommitRemoveCategory
  <2>3. request[m].kind = "write"
    BY <2>2 DEF CommitItem
  <2> QED
    BY <1>3, <2>1, <2>2, <2>3, ItemRequestIs
       DEF CommitItem, Target, MenuInv, MenuTypeOK, RequestInv
<1>4. ASSUME MenuInv, MenuNext, NEW m \in Staff, NEW i \in Items, Writes(m, i), item[i] = Unborn
      PROVE  Live(category, item'[i].cat) \/ item'[i].cat \in request[m].since
  <2>1. request[m].with \in Item /\ Target(m) = request[m].with
    BY <1>3, <1>4 DEF WriteInv, Target
  <2>2. Written(request[m].with, request[m].with).cat = request[m].with.cat
    BY <2>1, WrittenIs DEF Withs, Item
  <2> QED
    BY <1>3, <1>4, <2>1, <2>2 DEF WriteInv
<1>5. ASSUME MenuInv, MenuNext, NEW m \in Staff, NEW i \in Items, Writes(m, i)
      PROVE  item'[i].cost <= item'[i].price \/ i \in request[m].since
             \/ (item[i] # Unborn /\ item[i].cost > item[i].price)
  BY <1>3, <1>5 DEF WriteInv
<1>6. MenuSpec => NamesClashOnlyByRace
  <2>1. MenuInv /\ [MenuNext]_menuVars =>
          [\A m \in Staff, c \in Categories :
              Writes(m, c) /\ request[m].kind = "name" =>
                  \A d \in Categories \ {c} :
                      Live(category, d) /\ category[d].name = category'[c].name
                          /\ (category[c] = Unborn \/ category[c].name # category'[c].name)
                      => request[m].since \cap {c, d} # {}]_menuVars
    BY <1>1
  <2> QED
    BY <2>1, MenuInvariant, PTL DEF MenuSpec, NamesClashOnlyByRace
<1>7. MenuSpec => RemovedIsEmpty
  <2>1. MenuInv /\ [MenuNext]_menuVars =>
          [\A m \in Staff, c \in Categories :
              Writes(m, c) /\ request[m].kind = "remove" =>
                  ActiveItems(c) \subseteq request[m].since]_menuVars
    BY <1>2
  <2> QED
    BY <2>1, MenuInvariant, PTL DEF MenuSpec, RemovedIsEmpty
<1>8. MenuSpec => NewItemsHaveACategory
  <2>1. MenuInv /\ [MenuNext]_menuVars =>
          [\A m \in Staff, i \in Items :
              Writes(m, i) /\ item[i] = Unborn =>
                  Live(category, item'[i].cat) \/ item'[i].cat \in request[m].since]_menuVars
    BY <1>4
  <2> QED
    BY <2>1, MenuInvariant, PTL DEF MenuSpec, NewItemsHaveACategory
<1>9. MenuSpec => SoldAboveCost
  <2>1. MenuInv /\ [MenuNext]_menuVars =>
          [\A m \in Staff, i \in Items :
              Writes(m, i) => item'[i].cost <= item'[i].price \/ i \in request[m].since
                              \/ (item[i] # Unborn /\ item[i].cost > item[i].price)]_menuVars
    BY <1>5
  <2> QED
    BY <2>1, MenuInvariant, PTL DEF MenuSpec, SoldAboveCost
<1> QED
  BY <1>6, <1>7, <1>8, <1>9 DEF MenuChecksHold

-----------------------------------------------------------------------------
(* The team page *)

\* The employee of the timer is one the manager wants archived; a delete that is answered has
\* left nobody to delete.
TeamInv ==
    /\ TeamSafe
    /\ timer # Nobody => wish[timer] = "archive"
    /\ \A e \in Members : deletes[e] \in {"removed", "refused"} => e \notin staff

LEMMA TeamInitInv == TeamInit => TeamInv
BY TeamAssumption DEF TeamInit, TeamInv, TeamSafe, TeamTypeOK, ArchivesGoThrough, ToastIsTrue, Underway,
   Delete

LEMMA GivenUpIs ==
    ASSUME NEW w \in [Members -> {"keep", "archive", "dropped"}], NEW gone
    PROVE  /\ GivenUp(w, gone) \in [Members -> {"keep", "archive", "dropped"}]
           /\ \A e \in Members :
                 /\ GivenUp(w, gone)[e] = "archive" => w[e] = "archive"
                 /\ GivenUp(w, gone)[e] = "archive" => e \notin gone \/ e \in bulk \/ Underway(e)
                 /\ e \notin gone => GivenUp(w, gone)[e] = w[e]
BY DEF GivenUp

\* Clicks that send nothing.
LEMMA ClickKeeps ==
    ASSUME TeamInv,
           Dismiss \/ Cool \/ Undo \/ LeaveTeam \/ RefreshTeam \/ (\E e \in Members : Check(e))
    PROVE  TeamInv'
<1> USE TeamAssumption DEF TeamInv, TeamSafe, TeamTypeOK, ArchivesGoThrough, ToastIsTrue, Underway
<1>1. CASE Dismiss
  BY <1>1 DEF Dismiss
<1>2. CASE Cool
  BY <1>2 DEF Cool
<1>3. CASE Undo
  BY <1>3 DEF Undo, UndoTimer
<1>4. CASE LeaveTeam
  BY <1>4 DEF LeaveTeam
<1>5. CASE RefreshTeam
  BY <1>5 DEF RefreshTeam
<1>6. ASSUME NEW e \in Members, Check(e)
      PROVE  TeamInv'
  BY <1>6 DEF Check
<1> QED
  BY <1>1, <1>2, <1>3, <1>4, <1>5, <1>6

LEMMA ArchiveKeeps ==
    ASSUME TeamInv, NEW e \in Members, ArchiveOne(e)
    PROVE  TeamInv'
<1> DEFINE w == GivenUp(wish, {timer})
<1>1. w \in [Members -> {"keep", "archive", "dropped"}]
  BY GivenUpIs DEF TeamInv, TeamSafe, TeamTypeOK
<1>2. \A f \in Members : w[f] = "archive" => wish[f] = "archive" /\ (f # timer \/ f \in bulk \/ Underway(f))
  BY GivenUpIs DEF TeamInv, TeamSafe, TeamTypeOK
<1>3. /\ wish' = [w EXCEPT ![e] = "archive"]
      /\ pending' = e /\ timer' = e /\ recent' = TRUE
      /\ UNCHANGED <<staff, list, selected, bulk, deletes, previous, heard>>
  BY DEF ArchiveOne, TimerFor
<1> HIDE DEF w
<1>4. TeamTypeOK'
  BY <1>1, <1>3 DEF TeamInv, TeamSafe, TeamTypeOK
<1>5. ArchivesGoThrough'
  BY <1>1, <1>2, <1>3 DEF TeamInv, TeamSafe, ArchivesGoThrough, Underway
<1> QED
  BY <1>1, <1>3, <1>4, <1>5 DEF TeamInv, TeamSafe, ToastIsTrue

LEMMA BulkKeeps ==
    ASSUME TeamInv, NEW first \in Members, BulkArchive(first)
    PROVE  /\ TeamInv'
           /\ \A e \in Members : ~Underway(e) /\ deletes'[e] = "sent" => wish'[e] = "archive"
<1> DEFINE starts == first \in list /\ ~recent
           rest == selected \ {first}
           asked == [e \in Members |-> IF e \in selected THEN "archive" ELSE wish[e]]
           gone == (({timer} \ {pending}) \cup {first}) \ (rest \cup {Flushed, timer'})
<1>1. /\ TeamTypeOK /\ first \in selected
      /\ wish' = GivenUp(asked, gone)
      /\ bulk' = bulk \cup rest
      /\ selected' = {} /\ staff' = staff
  BY DEF TeamInv, TeamSafe, BulkArchive
<1>2. Flushed \in Members \cup {Nobody}
  BY <1>1 DEF Flushed, TeamTypeOK
<1>3. /\ Flushed # Nobody => Flushed = timer /\ Flushed = pending /\ wish[Flushed] = "archive"
      /\ Flushed = Nobody => timer = Nobody \/ pending = Nobody
  BY <1>1 DEF Flushed, TeamTypeOK, TeamInv
<1>4. /\ \/ starts /\ pending' = first /\ timer' = first /\ recent' = TRUE
         \/ ~starts /\ timer' = Nobody /\ recent' = recent
                    /\ pending' = IF Flushed # Nobody THEN Nobody ELSE pending
      /\ Flushed # Nobody => /\ ~Underway(Flushed)
                             /\ deletes' = [deletes EXCEPT ![Flushed] = "sent"]
                             /\ previous' = [previous EXCEPT ![Flushed] = list]
                             /\ list' = list \ {Flushed} /\ heard' = Nobody
      /\ Flushed = Nobody => /\ deletes' = deletes /\ previous' = previous
                             /\ list' = list /\ heard' = heard
  BY DEF BulkArchive, SendDelete
<1>5. asked \in [Members -> {"keep", "archive", "dropped"}]
  BY <1>1 DEF TeamTypeOK
<1>6. /\ wish' \in [Members -> {"keep", "archive", "dropped"}]
      /\ \A e \in Members :
            /\ wish'[e] = "archive" => e \in selected \/ wish[e] = "archive"
            /\ wish'[e] = "archive" => e \notin gone \/ e \in bulk \/ Underway(e)
            /\ e \notin gone /\ (e \in selected \/ wish[e] = "archive") => wish'[e] = "archive"
  <2> HIDE DEF asked, gone
  <2>1. /\ GivenUp(asked, gone) \in [Members -> {"keep", "archive", "dropped"}]
        /\ \A e \in Members :
              /\ GivenUp(asked, gone)[e] = "archive" => asked[e] = "archive"
              /\ GivenUp(asked, gone)[e] = "archive" => e \notin gone \/ e \in bulk \/ Underway(e)
              /\ e \notin gone => GivenUp(asked, gone)[e] = asked[e]
    BY <1>5, GivenUpIs
  <2>2. \A e \in Members : asked[e] = "archive" <=> e \in selected \/ wish[e] = "archive"
    BY DEF asked
  <2> QED
    BY <1>1, <2>1, <2>2
<1>7. \A e \in Members : Underway(e) => Underway(e)' /\ deletes'[e] = deletes[e]
  BY <1>1, <1>2, <1>4 DEF Underway, TeamTypeOK
<1>8. \A e \in Members : ~Underway(e) /\ Underway(e)' => e = Flushed /\ deletes'[e] = "sent"
  BY <1>1, <1>2, <1>4 DEF Underway, TeamTypeOK
<1>9. \A e \in Members : e = Flushed => Underway(e)'
  BY <1>1, <1>2, <1>4, TeamAssumption DEF Underway, TeamTypeOK
<1>10. TeamTypeOK'
  <2>1. deletes' \in [Members -> Delete] /\ previous' \in [Members -> SUBSET Members]
    BY <1>1, <1>2, <1>4 DEF TeamTypeOK, Delete
  <2>2. pending' # Nobody /\ timer' # Nobody => pending' = timer'
    BY <1>1, <1>2, <1>4 DEF TeamTypeOK
  <2> QED
    <3>1. /\ staff' \subseteq Members /\ list' \subseteq Members
          /\ selected' \subseteq Members /\ bulk' \subseteq Members
      BY <1>1, <1>2, <1>4 DEF TeamTypeOK
    <3>2. /\ pending' \in Members \cup {Nobody} /\ timer' \in Members \cup {Nobody}
          /\ heard' \in Members \cup {Nobody} /\ recent' \in BOOLEAN
      BY <1>1, <1>4 DEF TeamTypeOK
    <3> QED
      BY <1>6, <2>1, <2>2, <3>1, <3>2 DEF TeamTypeOK
<1>11. ArchivesGoThrough'
  <2> SUFFICES ASSUME NEW e \in Members, wish'[e] = "archive", e \in staff
               PROVE  timer' = e \/ e \in bulk' \/ Underway(e)'
    BY <1>1 DEF ArchivesGoThrough
  <2>1. CASE e \in selected
    BY <1>1, <1>6, <1>7, <1>9, <2>1
  <2>2. CASE wish[e] = "archive"
    <3>1. timer = e \/ e \in bulk \/ Underway(e)
      BY <2>2 DEF TeamInv, TeamSafe, ArchivesGoThrough
    <3>2. CASE timer = e
      BY <1>1, <1>3, <1>6, <1>7, <1>9, <3>2, TeamAssumption
    <3> QED
      BY <1>1, <1>7, <3>1, <3>2
  <2> QED
    BY <1>6, <2>1, <2>2
<1>12. ToastIsTrue'
  <2>1. CASE Flushed # Nobody
    BY <1>4, <2>1 DEF ToastIsTrue
  <2>2. CASE Flushed = Nobody /\ timer' = Nobody
    BY <1>1, <1>3, <1>4, <2>2, TeamAssumption DEF ToastIsTrue, TeamInv, TeamSafe, Underway
  <2> QED
    BY <1>4, <2>1, <2>2 DEF ToastIsTrue
<1>13. timer' # Nobody => wish'[timer'] = "archive"
  BY <1>1, <1>4, <1>6
<1>14. \A e \in Members : deletes'[e] \in {"removed", "refused"} => e \notin staff'
  BY <1>1, <1>7, <1>8 DEF TeamInv, Underway
<1>15. ASSUME NEW e \in Members, ~Underway(e), deletes'[e] = "sent"
       PROVE  wish'[e] = "archive"
  <2>1. e = Flushed
    BY <1>8, <1>15 DEF Underway
  <2> QED
    BY <1>3, <1>6, <2>1, TeamAssumption
<1> QED
  BY <1>10, <1>11, <1>12, <1>13, <1>14, <1>15 DEF TeamInv, TeamSafe

\* Steps of the timers and of the deletes.
LEMMA DeleteKeeps ==
    ASSUME TeamInv,
           \/ TimerFires
           \/ \E e \in Members : BulkTimerFires(e) \/ RemoveOne(e) \/ Deleted(e) \/ DeleteFailed(e)
    PROVE  TeamInv'
<1> USE TeamAssumption DEF TeamInv, TeamSafe, TeamTypeOK, ArchivesGoThrough, ToastIsTrue, Underway, Delete
<1>1. CASE TimerFires
  BY <1>1 DEF TimerFires, SendDelete
<1>2. ASSUME NEW e \in Members, BulkTimerFires(e)
      PROVE  TeamInv'
  BY <1>2 DEF BulkTimerFires, SendDelete
<1>3. ASSUME NEW e \in Members, RemoveOne(e)
      PROVE  TeamInv'
  BY <1>3 DEF RemoveOne
<1>4. ASSUME NEW e \in Members, Deleted(e)
      PROVE  TeamInv'
  BY <1>4 DEF Deleted, Settle, ToastEnds
<1>5. ASSUME NEW e \in Members, DeleteFailed(e)
      PROVE  TeamInv'
  BY <1>5 DEF DeleteFailed, Settle, ToastEnds
<1> QED
  BY <1>1, <1>2, <1>3, <1>4, <1>5

LEMMA TeamNextInv == TeamInv /\ [TeamNext]_teamVars => TeamInv'
<1> SUFFICES ASSUME TeamInv, [TeamNext]_teamVars
             PROVE  TeamInv'
  OBVIOUS
<1>1. CASE UNCHANGED teamVars
  BY <1>1 DEF teamVars, TeamInv, TeamSafe, TeamTypeOK, ArchivesGoThrough, ToastIsTrue, Underway
<1> QED
  BY <1>1, ClickKeeps, ArchiveKeeps, BulkKeeps, DeleteKeeps DEF TeamNext

LEMMA TeamInvariant == TeamSpec => []TeamInv
BY TeamInitInv, TeamNextInv, PTL DEF TeamSpec

\* The page gives archives up: one whose timer the next archive takes, which is lost although it
\* was announced, one that comes too soon, those of a page that is left, and those whose request
\* failed.  No other is lost: it has a timer or a delete until the employee is off the staff, the
\* one a bulk archive finds behind the toast included.  The toast is about a delete scheduled or
\* in flight, unless a later delete took the call-back that ends it
\* (employees/page.tsx:174-226, undo-toast.tsx:11-34).
THEOREM ArchivesArrive == TeamSpec => []TeamSafe
<1>1. TeamInv => TeamSafe
  BY DEF TeamInv
<1> QED
  BY <1>1, TeamInvariant, PTL

\* A delete is sent only for an employee the manager wants archived, or by a bulk timer that no
\* undo reaches (employees/page.tsx:76-83, 183-200).
THEOREM DeletesWereAsked == TeamSpec => DeletesAreAsked
<1>1. ASSUME TeamInv, TeamNext, NEW e \in Members, ~Underway(e), deletes'[e] = "sent"
      PROVE  wish'[e] = "archive" \/ e \in bulk
  <2>1. deletes'[e] # deletes[e]
    BY <1>1 DEF Underway
  <2>2. CASE TimerFires
    BY <1>1, <2>1, <2>2 DEF TimerFires, SendDelete, TeamInv, TeamSafe, TeamTypeOK
  <2>3. ASSUME NEW f \in Members, BulkTimerFires(f)
        PROVE  e \in bulk
    BY <2>1, <2>3 DEF BulkTimerFires, SendDelete, TeamInv, TeamSafe, TeamTypeOK
  <2>4. ASSUME NEW f \in Members, BulkArchive(f)
        PROVE  wish'[e] = "archive"
    BY <1>1, <2>4, BulkKeeps
  <2>5. ASSUME NEW f \in Members, RemoveOne(f)
        PROVE  FALSE
    BY <1>1, <2>1, <2>5 DEF RemoveOne, TeamInv, TeamSafe, TeamTypeOK
  <2>6. ASSUME NEW f \in Members, Deleted(f) \/ DeleteFailed(f)
        PROVE  FALSE
    BY <1>1, <2>1, <2>6 DEF Deleted, DeleteFailed, Settle, TeamInv, TeamSafe, TeamTypeOK
  <2> QED
    BY <1>1, <2>1, <2>2, <2>3, <2>4, <2>5, <2>6
       DEF TeamNext, Dismiss, Cool, Undo, LeaveTeam, RefreshTeam, Check, ArchiveOne
<1>2. TeamInv /\ [TeamNext]_teamVars =>
        [\A e \in Members :
            ~Underway(e) /\ deletes'[e] = "sent" => wish'[e] = "archive" \/ e \in bulk]_teamVars
  BY <1>1
<1> QED
  BY <1>2, TeamInvariant, PTL DEF TeamSpec, DeletesAreAsked

-----------------------------------------------------------------------------
(* The page of a shift *)

Quiet == dialog.at \in {"closed", "open", "error"}

\* A page that waits for nothing shows what the server holds, or is about to be told.
ShownInv ==
    InFlight = {} /\ Quiet /\ ~outdated =>
        /\ fetch = NoFetch => view = server
        /\ fetch.at = "read" => fetch.shift = server

\* The page that owes the declaration is there to make it.
OwedInv == SealedIsDeclared /\ (owes /\ dialog.at = "sealed" => dialog.heard)

\* A shift that is closed, or counted for it, has an assignment, and what was checked before
\* the close is written.
ClosedInv ==
    ~overlap =>
        /\ server.closed \/ dialog.at = "counted" => Assigned(server) # {}
        /\ server.closed => \A k \in Slots : edit[k].at # "checked"

ScreenInv == ScreenTypeOK /\ ShownInv /\ OwedInv /\ ClosedInv

LEMMA EditFacts ==
  ASSUME NEW e \in Edit \cup {Free, Settled}
  PROVE  /\ e.at \in {"free", "settled", "sent", "checked", "void", "done", "refused"}
         /\ e.at \in {"sent", "checked", "void"} =>
               /\ e.kind \in {"update", "remove", "add"} /\ e.row \in Rows /\ e.hours \in Hours
               /\ e.was \in Shift \cup {None}
               /\ \A a \in {"checked", "void"} :
                     [e EXCEPT !.at = a] \in Edit /\ [e EXCEPT !.at = a].at = a
               /\ Done(e) \in Edit /\ Refused(e) \in Edit
         /\ e.at = "refused" => e.was \in Shift \cup {None}
         /\ e.at \notin {"free", "settled"} => e \notin {Free, Settled}
<1> DEFINE Flying == [at : {"sent", "checked", "void"}, kind : {"update", "remove", "add"},
                      row : Rows, hours : Hours, was : Shift \cup {None}]
<1>1. CASE e \in Flying
  <2> HIDE DEF Shift
  <2>1. \A a \in {"checked", "void"} :
           [e EXCEPT !.at = a] \in Flying /\ [e EXCEPT !.at = a].at = a
    BY <1>1
  <2>2. Done(e) \in Edit /\ Refused(e) \in Edit
    BY <1>1 DEF Done, Refused, Edit
  <2> QED BY <1>1, <2>1, <2>2 DEF Edit, Free, Settled
<1>2. CASE e \in [at : {"done"}, row : Rows]
  BY <1>2 DEF Free, Settled
<1>3. CASE e \in [at : {"refused"}, row : Rows, was : Shift \cup {None}]
  BY <1>3 DEF Free, Settled
<1>4. CASE e \in {Free, Settled}
  BY <1>4 DEF Free, Settled
<1> QED
  BY <1>1, <1>2, <1>3, <1>4 DEF Edit

LEMMA DialogFacts ==
  ASSUME NEW d \in Dialog
  PROVE  /\ d.at \in {"closed", "open", "error", "closing", "counted", "unclosed", "declaring",
                      "declared", "conflict", "failed", "sealed"}
         /\ d.at \notin {"closed", "open", "error"} => d.heard \in BOOLEAN
         /\ d.at = "sealed" => d.shift \in Shift
<1>1. CASE d \in [at : {"closed", "open", "error"}]
  BY <1>1
<1>2. CASE d \in [at : {"closing", "counted", "unclosed", "declaring", "declared", "conflict",
                        "failed"}, heard : BOOLEAN]
  BY <1>2
<1>3. CASE d \in [at : {"sealed"}, heard : BOOLEAN, shift : Shift]
  BY <1>3
<1> QED
  BY <1>1, <1>2, <1>3 DEF Dialog

\* A request of the dialog comes to its next step.
LEMMA DialogGoesOn ==
  ASSUME NEW d \in Dialog, d.at \notin {"closed", "open", "error", "sealed"},
         NEW a \in {"counted", "unclosed", "declared", "conflict", "failed"}
  PROVE  [d EXCEPT !.at = a] \in Dialog /\ [d EXCEPT !.at = a].at = a
<1>1. d \in [at : {"closing", "counted", "unclosed", "declaring", "declared", "conflict", "failed"},
             heard : BOOLEAN]
  BY DEF Dialog
<1> QED
  BY <1>1 DEF Dialog

\* The page that sent it goes.
LEMMA DialogUnheard ==
  ASSUME NEW d \in Dialog, d.at \notin {"closed", "open", "error"}
  PROVE  [d EXCEPT !.heard = FALSE] \in Dialog /\ [d EXCEPT !.heard = FALSE].at = d.at
<1>1. CASE d \in [at : {"closing", "counted", "unclosed", "declaring", "declared", "conflict",
                        "failed"}, heard : BOOLEAN]
  BY <1>1 DEF Dialog
<1>2. CASE d \in [at : {"sealed"}, heard : BOOLEAN, shift : Shift]
  BY <1>2 DEF Dialog
<1> QED
  BY <1>1, <1>2 DEF Dialog

LEMMA ShiftFacts ==
  ASSUME NEW s \in Shift
  PROVE  /\ s.closed \in BOOLEAN /\ s.hours \in [Rows -> Hours \cup {Absent}]
         /\ [s EXCEPT !.closed = TRUE] \in Shift
         /\ [s EXCEPT !.closed = TRUE].closed
         /\ [s EXCEPT !.closed = TRUE].hours = s.hours
BY DEF Shift

LEMMA HoursFacts ==
  ASSUME NEW s \in Shift, NEW r \in Rows, NEW h \in Hours \cup {Absent}
  PROVE  /\ [s EXCEPT !.hours[r] = h] \in Shift
         /\ [s EXCEPT !.hours[r] = h].closed = s.closed
BY DEF Shift

LEMMA OrphanedFacts ==
  ASSUME ScreenTypeOK, NEW r \in Rows, NEW h \in Hours \cup {Absent}
  PROVE  /\ Orphaned(r, h) \in [Slots -> Edit \cup {Free, Settled}]
         /\ \A k \in Slots :
               /\ Orphaned(r, h)[k].at = "checked" => edit[k].at = "checked"
               /\ Orphaned(r, h)[k] \in {Free, Settled} <=> edit[k] \in {Free, Settled}
<1> SUFFICES ASSUME NEW k \in Slots
             PROVE  /\ Orphaned(r, h)[k] \in Edit \cup {Free, Settled}
                    /\ Orphaned(r, h)[k].at = "checked" => edit[k].at = "checked"
                    /\ Orphaned(r, h)[k] \in {Free, Settled} <=> edit[k] \in {Free, Settled}
  BY DEF Orphaned
<1>1. edit[k] \in Edit \cup {Free, Settled}
  BY DEF ScreenTypeOK
<1>2. CASE Orphaned(r, h)[k] = edit[k]
  BY <1>1, <1>2
<1>3. CASE edit[k].at = "checked" /\ Orphaned(r, h)[k] = [edit[k] EXCEPT !.at = "void"]
  <2>1. [edit[k] EXCEPT !.at = "void"] \in Edit /\ [edit[k] EXCEPT !.at = "void"].at = "void"
    BY <1>1, <1>3, EditFacts
  <2>2. Orphaned(r, h)[k] \notin {Free, Settled} /\ edit[k] \notin {Free, Settled}
    BY <1>1, <1>3, <2>1, EditFacts
  <2> QED BY <1>3, <2>1, <2>2
<1> QED
  BY <1>2, <1>3 DEF Orphaned

-----------------------------------------------------------------------------
LEMMA ScreenInitInv == Init => ScreenInv
<1> SUFFICES ASSUME Init PROVE ScreenInv
  OBVIOUS
<1>1. server \in Shift /\ ~server.closed /\ server.hours = [r \in Rows |-> IF r \in Team THEN 0 ELSE Absent]
  BY ScreenAssumption DEF Init, Shift
<1>2. ScreenTypeOK
  <2>1. edit \in [Slots -> Edit \cup {Free, Settled}]
    BY DEF Init
  <2>2. fetch \in Fetch /\ typed \in Draft /\ dialog \in Dialog
    BY DEF Init, Fetch, NoFetch, Draft, Dialog
  <2>3. others \in 0..MaxOther
    BY ScreenAssumption DEF Init
  <2> QED BY <1>1, <2>1, <2>2, <2>3 DEF Init, ScreenTypeOK
<1>3. ShownInv /\ OwedInv
  BY DEF Init, ShownInv, NoFetch, OwedInv, SealedIsDeclared
<1>4. ClosedInv
  BY <1>1 DEF Init, ClosedInv
<1> QED
  BY <1>2, <1>3, <1>4 DEF ScreenInv

\* What a page shows, and what is typed in it, is of their types.
LEMMA ShowTyped ==
  ASSUME ScreenTypeOK, NEW v \in Shift, Show(v)
  PROVE  view' \in Shift /\ typed' \in Draft
BY DEF ScreenTypeOK, Show, Synced, Draft

LEMMA FetchTyped ==
  /\ NoFetch \in Fetch /\ Asked \in Fetch
  /\ \A s \in Shift : [at |-> "read", shift |-> s] \in Fetch
  /\ \A f \in Fetch : f.at = "read" => f.shift \in Shift
BY DEF Fetch, NoFetch, Asked

LEMMA FetchStepsTyped ==
  ASSUME ScreenTypeOK, Focus \/ ReadShift \/ Deliver \/ LoseFetch
  PROVE  ScreenTypeOK'
<1>1. CASE Focus
  BY <1>1, FetchTyped DEF Focus, ScreenTypeOK
<1>2. CASE ReadShift
  BY <1>2, FetchTyped DEF ReadShift, ScreenTypeOK
<1>3. CASE Deliver
  <2>1. fetch.shift \in Shift
    BY <1>3, FetchTyped DEF Deliver, ScreenTypeOK
  <2> QED BY <1>3, <2>1, FetchTyped, ShowTyped DEF Deliver, ScreenTypeOK
<1>4. CASE LoseFetch
  BY <1>4, FetchTyped DEF LoseFetch, ScreenTypeOK
<1> QED BY <1>1, <1>2, <1>3, <1>4

LEMMA RowStepsTyped ==
  ASSUME ScreenTypeOK, NEW k \in Slots, RowNext(k)
  PROVE  ScreenTypeOK'
<1>1. CASE SaveHours(k)
  <2>1. typed.row \in Rows /\ typed.hours \in Hours
    BY <1>1 DEF SaveHours, ScreenTypeOK, Draft
  <2>2. view' \in Shift
    BY <1>1, <2>1, HoursFacts DEF SaveHours, ScreenTypeOK
  <2>3. [at |-> "sent", kind |-> "update", row |-> typed.row, hours |-> typed.hours, was |-> view] \in Edit
    BY <2>1 DEF ScreenTypeOK, Edit
  <2>4. edit' \in [Slots -> Edit \cup {Free, Settled}]
    BY <1>1, <2>3 DEF SaveHours, Send, ScreenTypeOK
  <2> QED BY <1>1, <2>2, <2>4, FetchTyped DEF SaveHours, ScreenTypeOK, Draft
<1>2. CASE \E r \in Rows : RemoveRow(k, r)
  <2> PICK r \in Rows : RemoveRow(k, r)
    BY <1>2
  <2>1. [view EXCEPT !.hours[r] = Absent] \in Shift
    BY HoursFacts DEF ScreenTypeOK
  <2>2. [at |-> "sent", kind |-> "remove", row |-> r, hours |-> 0, was |-> view] \in Edit
    BY ScreenAssumption DEF ScreenTypeOK, Edit
  <2>3. edit' \in [Slots -> Edit \cup {Free, Settled}]
    BY <2>2 DEF RemoveRow, Send, ScreenTypeOK
  <2>4. view' \in Shift /\ typed' \in Draft
    BY <2>1, ShowTyped DEF RemoveRow
  <2> QED BY <2>3, <2>4, FetchTyped DEF RemoveRow, ScreenTypeOK
<1>3. CASE \E r \in Rows : AddRow(k, r)
  <2> PICK r \in Rows : AddRow(k, r)
    BY <1>3
  <2>2. [at |-> "sent", kind |-> "add", row |-> r, hours |-> 0, was |-> None] \in Edit
    BY ScreenAssumption DEF ScreenTypeOK, Edit
  <2> QED BY <2>2 DEF AddRow, Send, ScreenTypeOK
<1>4. CASE CheckEdit(k)
  <2>1. edit[k].at = "sent" /\ edit[k] \in Edit \cup {Free, Settled}
    BY <1>4 DEF CheckEdit, ScreenTypeOK
  <2>2. [edit[k] EXCEPT !.at = "checked"] \in Edit /\ Refused(edit[k]) \in Edit
    BY <2>1, EditFacts
  <2>3. edit' \in [Slots -> Edit \cup {Free, Settled}]
    BY <1>4, <2>2 DEF CheckEdit, ScreenTypeOK
  <2> QED BY <1>4, <2>3 DEF CheckEdit, ScreenTypeOK
<1>5. CASE WriteEdit(k)
  <2> DEFINE e == edit[k]
             hours == IF e.kind = "remove" THEN Absent ELSE e.hours
  <2>1. e.at \in {"checked", "void"} /\ e \in Edit \cup {Free, Settled}
    BY <1>5 DEF WriteEdit, ScreenTypeOK
  <2>2. e.row \in Rows /\ hours \in Hours \cup {Absent} /\ Done(e) \in Edit /\ Refused(e) \in Edit
    BY <2>1, EditFacts
  <2>3. Orphaned(e.row, hours) \in [Slots -> Edit \cup {Free, Settled}]
    BY <2>2, OrphanedFacts
  <2>4. edit' \in [Slots -> Edit \cup {Free, Settled}]
    BY <1>5, <2>2, <2>3 DEF WriteEdit, ScreenTypeOK
  <2>5. server' \in Shift
    <3>1. server' = server \/ server' = [server EXCEPT !.hours[e.row] = hours]
      BY <1>5 DEF WriteEdit
    <3> HIDE DEF hours
    <3> QED BY <3>1, <2>2, HoursFacts DEF ScreenTypeOK
  <2>6. overlap' \in BOOLEAN
    BY <1>5 DEF WriteEdit, ScreenTypeOK
  <2> QED BY <1>5, <2>4, <2>5, <2>6 DEF WriteEdit, ScreenTypeOK
<1>6. CASE SettleEdit(k)
  <2>1. edit[k] \in Edit \cup {Free, Settled}
    BY DEF ScreenTypeOK
  <2>2. edit' \in [Slots -> Edit \cup {Free, Settled}] /\ latest' \in Slots \cup {None}
    BY <1>6 DEF SettleEdit, ScreenTypeOK
  <2>3. view' \in Shift /\ typed' \in Draft
    <3>1. CASE edit[k].at = "refused"
      <4>1. Restored(edit[k]) \in Shift
        BY <2>1, <3>1, EditFacts DEF Restored, ScreenTypeOK
      <4> QED BY <1>6, <3>1, <4>1, ShowTyped DEF SettleEdit
    <3>2. CASE edit[k].at = "done"
      BY <1>6, <3>2 DEF SettleEdit, ScreenTypeOK
    <3> QED BY <1>6, <3>1, <3>2 DEF SettleEdit
  <2>4. fetch' \in Fetch
    BY <1>6, FetchTyped DEF SettleEdit, Refreshed
  <2> QED BY <1>6, <2>2, <2>3, <2>4 DEF SettleEdit, ScreenTypeOK
<1> QED
  BY <1>1, <1>2, <1>3, <1>4, <1>5, <1>6 DEF RowNext

\* From where to where the steps of the dialog go.
LEMMA DialogMoves ==
  ASSUME ScreenTypeOK
  PROVE  /\ OpenDialog \/ CloseDialog \/ Seal =>
               /\ dialog.at \in {"closed", "open", "error"}
               /\ dialog' \in Dialog /\ dialog'.at \in {"closed", "open", "closing"}
         /\ CountAssignments =>
               /\ dialog.at = "closing"
               /\ dialog' \in Dialog /\ dialog'.at \in {"counted", "unclosed"}
               /\ dialog'.at = "counted" => Closable
         /\ CommitClose =>
               /\ dialog.at = "counted" /\ server' \in Shift
               /\ dialog' \in Dialog /\ dialog'.at \in {"unclosed", "sealed"}
               /\ dialog'.at = "sealed" => owes' = dialog'.heard
               /\ dialog'.at = "unclosed" => (owes' => owes)
         /\ CloseAnswered =>
               /\ dialog.at \in {"sealed", "unclosed"}
               /\ dialog' \in Dialog /\ dialog'.at \in {"declaring", "open", "closed"}
         /\ Declare =>
               /\ dialog.at = "declaring"
               /\ dialog' \in Dialog /\ dialog'.at \in {"declared", "conflict", "failed"}
         /\ DeclareAnswered =>
               /\ dialog.at \in {"declared", "conflict", "failed"}
               /\ dialog' \in Dialog /\ dialog'.at \in {"error", "closed"}
         /\ Leave =>
               /\ dialog' \in Dialog
               /\ \/ dialog.at \in {"closed", "open", "error"} /\ dialog'.at = "closed"
                  \/ dialog.at \notin {"closed", "open", "error"} /\ dialog'.at = dialog.at
<1>0. dialog \in Dialog
  BY DEF ScreenTypeOK
<1>1. /\ \A a \in {"closed", "open", "error"} : [at |-> a] \in Dialog
      /\ \A a \in {"closing", "declaring"} : [at |-> a, heard |-> TRUE] \in Dialog
      /\ \A h \in BOOLEAN, s \in Shift : [at |-> "sealed", heard |-> h, shift |-> s] \in Dialog
  BY DEF Dialog
<1>2. ASSUME OpenDialog \/ CloseDialog \/ Seal
      PROVE  /\ dialog.at \in {"closed", "open", "error"}
             /\ dialog' \in Dialog /\ dialog'.at \in {"closed", "open", "closing"}
  <2>1. dialog' \in {[at |-> "open"], [at |-> "closed"], [at |-> "closing", heard |-> TRUE]}
    BY <1>2 DEF OpenDialog, CloseDialog, Seal
  <2>2. dialog.at \in {"closed", "open", "error"}
    BY <1>2 DEF OpenDialog, CloseDialog, Seal
  <2>3. dialog' \in Dialog
    BY <1>1, <2>1
  <2> QED BY <2>1, <2>2, <2>3
<1>3. ASSUME CountAssignments
      PROVE  /\ dialog.at = "closing"
             /\ dialog' \in Dialog /\ dialog'.at \in {"counted", "unclosed"}
             /\ dialog'.at = "counted" => Closable
  <2>1. dialog.at = "closing"
    BY <1>3 DEF CountAssignments
  <2>2. \A a \in {"counted", "unclosed"} :
           [dialog EXCEPT !.at = a] \in Dialog /\ [dialog EXCEPT !.at = a].at = a
    BY <1>0, <2>1, DialogGoesOn
  <2> QED BY <1>3, <2>1, <2>2 DEF CountAssignments
<1>4. ASSUME CommitClose
      PROVE  /\ dialog.at = "counted" /\ server' \in Shift
             /\ dialog' \in Dialog /\ dialog'.at \in {"unclosed", "sealed"}
             /\ dialog'.at = "sealed" => owes' = dialog'.heard
             /\ dialog'.at = "unclosed" => (owes' => owes)
  <2> DEFINE unclosed == [dialog EXCEPT !.at = "unclosed"]
             sealed == [at |-> "sealed", heard |-> dialog.heard, shift |-> server']
  <2>1. dialog.at = "counted"
    BY <1>4 DEF CommitClose
  <2>2. unclosed \in Dialog /\ unclosed.at = "unclosed"
    BY <1>0, <2>1, DialogGoesOn
  <2>3. server' \in Shift
    BY <1>4, ShiftFacts DEF CommitClose, ScreenTypeOK
  <2>4. sealed \in Dialog
    BY <1>0, <1>1, <2>1, <2>3, DialogFacts
  <2>5. sealed.at = "sealed" /\ sealed.heard = dialog.heard
    OBVIOUS
  <2>6. \/ dialog' = unclosed /\ (owes' => owes)
        \/ dialog' = sealed /\ owes' = dialog.heard
    BY <1>4 DEF CommitClose
  <2> HIDE DEF unclosed, sealed
  <2> QED BY <2>1, <2>2, <2>3, <2>4, <2>5, <2>6
<1>5. ASSUME CloseAnswered
      PROVE  /\ dialog.at \in {"sealed", "unclosed"}
             /\ dialog' \in Dialog /\ dialog'.at \in {"declaring", "open", "closed"}
  <2>1. dialog' \in {[at |-> "declaring", heard |-> TRUE], [at |-> "open"], [at |-> "closed"]}
    BY <1>5 DEF CloseAnswered
  <2>2. dialog' \in Dialog
    BY <1>1, <2>1
  <2> QED BY <1>5, <2>1, <2>2 DEF CloseAnswered
<1>6. ASSUME Declare
      PROVE  /\ dialog.at = "declaring"
             /\ dialog' \in Dialog /\ dialog'.at \in {"declared", "conflict", "failed"}
  <2>1. dialog.at = "declaring"
    BY <1>6 DEF Declare
  <2>2. \A a \in {"declared", "conflict", "failed"} :
           [dialog EXCEPT !.at = a] \in Dialog /\ [dialog EXCEPT !.at = a].at = a
    BY <1>0, <2>1, DialogGoesOn
  <2>3. \E a \in {"declared", "conflict", "failed"} : dialog' = [dialog EXCEPT !.at = a]
    BY <1>6 DEF Declare
  <2> QED BY <2>1, <2>2, <2>3
<1>7. ASSUME DeclareAnswered
      PROVE  /\ dialog.at \in {"declared", "conflict", "failed"}
             /\ dialog' \in Dialog /\ dialog'.at \in {"error", "closed"}
  <2>1. dialog' \in {[at |-> "error"], [at |-> "closed"]}
    BY <1>7 DEF DeclareAnswered
  <2>2. dialog' \in Dialog
    BY <1>1, <2>1
  <2> QED BY <1>7, <2>1, <2>2 DEF DeclareAnswered
<1>8. ASSUME Leave
      PROVE  /\ dialog' \in Dialog
             /\ \/ dialog.at \in {"closed", "open", "error"} /\ dialog'.at = "closed"
                \/ dialog.at \notin {"closed", "open", "error"} /\ dialog'.at = dialog.at
  <2>1. CASE dialog.at \in {"closed", "open", "error"}
    <3>1. dialog' = [at |-> "closed"]
      BY <1>8, <2>1 DEF Leave
    <3>2. dialog' \in Dialog
      BY <1>1, <3>1
    <3> QED BY <2>1, <3>1, <3>2
  <2>2. CASE dialog.at \notin {"closed", "open", "error"}
    <3>1. dialog' = [dialog EXCEPT !.heard = FALSE]
      BY <1>8, <2>2 DEF Leave
    <3>2. dialog' \in Dialog /\ dialog'.at = dialog.at
      BY <1>0, <2>2, <3>1, DialogUnheard
    <3> QED BY <2>2, <3>2
  <2> QED BY <2>1, <2>2
<1> QED
  BY <1>2, <1>3, <1>4, <1>5, <1>6, <1>7, <1>8

LEMMA DialogStepsTyped ==
  ASSUME ScreenTypeOK, DialogNext \/ Leave
  PROVE  ScreenTypeOK'
<1>0. dialog' \in Dialog
  BY DialogMoves DEF DialogNext
<1>1. CASE OpenDialog \/ CloseDialog \/ Seal
  BY <1>0, <1>1 DEF OpenDialog, CloseDialog, Seal, ScreenTypeOK
<1>2. CASE CountAssignments
  BY <1>0, <1>2 DEF CountAssignments, ScreenTypeOK
<1>3. CASE CommitClose
  <2>1. overlap' \in BOOLEAN /\ owes' \in BOOLEAN
    <3>1. dialog.heard \in BOOLEAN
      BY <1>3, DialogFacts, DialogMoves DEF ScreenTypeOK
    <3> QED BY <1>3, <3>1 DEF CommitClose, ScreenTypeOK
  <2>2. server' \in Shift
    BY <1>3, DialogMoves
  <2> QED BY <1>0, <1>3, <2>1, <2>2 DEF CommitClose, ScreenTypeOK
<1>4. CASE CloseAnswered
  <2>1. view' \in Shift /\ typed' \in Draft
    <3>1. CASE dialog.at = "sealed"
      <4>1. dialog.shift \in Shift
        BY <3>1, DialogFacts DEF ScreenTypeOK
      <4>2. Show(dialog.shift)
        BY <1>4, <3>1 DEF CloseAnswered
      <4> QED BY <4>1, <4>2, ShowTyped
    <3>2. CASE dialog.at = "unclosed"
      BY <1>4, <3>2 DEF CloseAnswered, ScreenTypeOK
    <3> QED BY <1>4, <3>1, <3>2 DEF CloseAnswered
  <2>2. fetch' \in Fetch
    BY <1>4, FetchTyped DEF CloseAnswered, Refreshed
  <2> QED BY <1>0, <1>4, <2>1, <2>2 DEF CloseAnswered, ScreenTypeOK
<1>5. CASE Declare
  <2>1. pool' \in BOOLEAN /\ owes' \in BOOLEAN
    BY <1>5 DEF Declare, ScreenTypeOK
  <2> QED BY <1>0, <1>5, <2>1 DEF Declare, ScreenTypeOK
<1>6. CASE DeclareAnswered
  BY <1>0, <1>6, FetchTyped DEF DeclareAnswered, Refreshed, ScreenTypeOK
<1>7. CASE Leave
  <2>1. owes' \in BOOLEAN
    BY <1>7 DEF Leave, ScreenTypeOK
  <2> QED BY <1>0, <1>7, <2>1 DEF Leave, ScreenTypeOK, Draft
<1> QED
  BY <1>1, <1>2, <1>3, <1>4, <1>5, <1>6, <1>7 DEF DialogNext

LEMMA OthersTyped ==
  ASSUME ScreenTypeOK, (\E r \in Rows, h \in Hours : Type(r, h)) \/ Other
  PROVE  ScreenTypeOK'
<1>1. CASE \E r \in Rows, h \in Hours : Type(r, h)
  BY <1>1 DEF Type, ScreenTypeOK, Draft
<1>2. CASE Other
  <2>1. server' \in Shift
    <3>1. \/ server' = server
          \/ server' = [server EXCEPT !.closed = TRUE]
          \/ \E r \in Rows, h \in Hours \cup {Absent} : server' = [server EXCEPT !.hours[r] = h]
      BY <1>2 DEF Other
    <3> QED BY <3>1, ShiftFacts, HoursFacts DEF ScreenTypeOK
  <2>2. edit' \in [Slots -> Edit \cup {Free, Settled}]
    BY <1>2, OrphanedFacts DEF Other, ScreenTypeOK
  <2>3. pool' \in BOOLEAN /\ overlap' \in BOOLEAN
    BY <1>2 DEF Other, ScreenTypeOK
  <2>4. others' \in 0..MaxOther
    BY <1>2, ScreenAssumption DEF Other, ScreenTypeOK
  <2> QED BY <1>2, <2>1, <2>2, <2>3, <2>4 DEF Other, ScreenTypeOK
<1> QED BY <1>1, <1>2

LEMMA ScreenTyped == ASSUME ScreenTypeOK, Next PROVE ScreenTypeOK'
BY FetchStepsTyped, RowStepsTyped, DialogStepsTyped, OthersTyped DEF Next

-----------------------------------------------------------------------------
\* A step that leaves the database, the view and the refresh alone, and makes nothing quiet.
LEMMA ShownKept ==
  ASSUME ShownInv, UNCHANGED <<server, view, fetch, outdated>>, InFlight' = {} => InFlight = {},
         Quiet' => Quiet
  PROVE  ShownInv'
BY DEF ShownInv

\* What one slot holds, another request being in the other ones.
LEMMA Flies ==
  ASSUME ScreenTypeOK, NEW k \in Slots, edit[k].at \notin {"free", "settled"}
  PROVE  k \in InFlight
BY EditFacts DEF InFlight, ScreenTypeOK

LEMMA FliesNext ==
  ASSUME ScreenTypeOK', NEW k \in Slots, edit'[k].at \notin {"free", "settled"}
  PROVE  InFlight' # {}
BY EditFacts DEF InFlight, ScreenTypeOK

LEMMA ShownNext == ASSUME ScreenInv, Next PROVE ShownInv'
<1> USE DEF ScreenInv
<1>0. ScreenTypeOK'
  BY ScreenTyped
<1>1. CASE Focus
  BY <1>1 DEF Focus, ShownInv, Quiet, InFlight, Asked, NoFetch
<1>2. CASE ReadShift
  BY <1>2 DEF ReadShift, ShownInv, Quiet, InFlight, NoFetch
<1>3. CASE Deliver
  BY <1>3 DEF Deliver, Show, ShownInv, Quiet, InFlight, NoFetch
<1>4. CASE LoseFetch
  BY <1>4 DEF LoseFetch, ShownInv
<1>5. CASE \E r \in Rows, h \in Hours : Type(r, h)
  BY <1>5 DEF Type, ShownInv, Quiet, InFlight
<1>6. CASE \E k \in Slots : RowNext(k)
  <2> PICK k \in Slots : RowNext(k)
    BY <1>6
  <2>1. CASE SaveHours(k) \/ \E r \in Rows : RemoveRow(k, r) \/ AddRow(k, r)
    <3>1. PICK kind, r, h, was : Send(k, kind, r, h, was)
      BY <2>1 DEF SaveHours, RemoveRow, AddRow
    <3>2. edit'[k].at = "sent"
      BY <3>1 DEF Send, ScreenTypeOK
    <3> QED BY <1>0, <3>2, FliesNext DEF ShownInv
  <2>2. CASE CheckEdit(k)
    <3>1. edit'[k] \in {[edit[k] EXCEPT !.at = "checked"], Refused(edit[k])} /\ edit[k].at = "sent"
      BY <2>2 DEF CheckEdit, ScreenTypeOK
    <3>2. edit'[k].at \notin {"free", "settled"}
      <4>1. [edit[k] EXCEPT !.at = "checked"].at = "checked"
        BY <3>1, EditFacts DEF ScreenTypeOK
      <4>2. Refused(edit[k]).at = "refused"
        BY DEF Refused
      <4>3. edit'[k].at \in {"checked", "refused"}
        BY <3>1, <4>1, <4>2
      <4> QED BY <4>3
    <3> QED BY <1>0, <3>2, FliesNext DEF ShownInv
  <2>3. CASE WriteEdit(k)
    <3>1. edit'[k] \in {Done(edit[k]), Refused(edit[k])}
      BY <2>3 DEF WriteEdit, Orphaned, ScreenTypeOK
    <3>2. edit'[k].at \notin {"free", "settled"}
      BY <3>1 DEF Done, Refused
    <3> QED BY <1>0, <3>2, FliesNext DEF ShownInv
  <2>4. CASE SettleEdit(k)
    <3>1. fetch' = Asked
      BY <2>4 DEF SettleEdit, Refreshed
    <3> QED BY <3>1 DEF ShownInv, Asked, NoFetch
  <2> QED BY <2>1, <2>2, <2>3, <2>4 DEF RowNext
<1>7. CASE DialogNext
  <2>1. CASE OpenDialog \/ CloseDialog \/ Seal
    <3>1. UNCHANGED <<server, view, fetch, outdated, edit>> /\ Quiet
      BY <2>1, DialogMoves DEF OpenDialog, CloseDialog, Seal, Quiet
    <3> QED BY <3>1, ShownKept DEF InFlight
  <2>2. CASE CountAssignments \/ CommitClose \/ Declare
    BY <2>2, DialogMoves DEF ShownInv, Quiet
  <2>3. CASE CloseAnswered \/ DeclareAnswered
    BY <2>3 DEF CloseAnswered, DeclareAnswered, Refreshed, ShownInv, Asked, NoFetch
  <2> QED BY <1>7, <2>1, <2>2, <2>3 DEF DialogNext
<1>8. CASE Leave
  <2>1. Quiet' => Quiet
    BY <1>8, DialogMoves DEF Quiet
  <2> QED BY <1>8, <2>1, ShownKept DEF Leave, InFlight
<1>9. CASE Other
  BY <1>9 DEF Other, ShownInv
<1> QED
  BY <1>1, <1>2, <1>3, <1>4, <1>5, <1>6, <1>7, <1>8, <1>9 DEF Next

LEMMA OwedNext == ASSUME ScreenInv, Next PROVE OwedInv'
<1> USE DEF ScreenInv
<1>1. CASE UNCHANGED <<dialog, owes>> /\ (pool => pool')
  BY <1>1 DEF OwedInv, SealedIsDeclared
<1>2. CASE OpenDialog \/ CloseDialog \/ Seal \/ CountAssignments \/ DeclareAnswered
  <2>1. UNCHANGED <<owes, pool>>
    BY <1>2 DEF OpenDialog, CloseDialog, Seal, CountAssignments, DeclareAnswered
  <2>2. dialog.at \notin {"sealed", "declaring"} /\ dialog'.at # "sealed"
    BY <1>2, DialogMoves
  <2> QED BY <2>1, <2>2 DEF OwedInv, SealedIsDeclared
<1>3. CASE CommitClose
  <2>1. pool' = pool
    BY <1>3 DEF CommitClose
  <2> QED BY <1>3, <2>1, DialogMoves DEF OwedInv, SealedIsDeclared
<1>4. CASE CloseAnswered
  BY <1>4 DEF CloseAnswered, Declares, OwedInv, SealedIsDeclared
<1>5. CASE Declare
  <2>1. owes' => pool'
    <3>1. pool' = TRUE \/ (pool /\ pool' = pool) \/ owes' = FALSE
      BY <1>5 DEF Declare
    <3> QED BY <3>1
  <2> QED BY <1>5, <2>1, DialogMoves DEF OwedInv, SealedIsDeclared
<1>6. CASE Leave
  <2>1. pool' = pool /\ (owes' => owes /\ dialog.at # "sealed")
    BY <1>6 DEF Leave
  <2> QED BY <1>6, <2>1, DialogMoves DEF OwedInv, SealedIsDeclared
<1>7. Next => \/ UNCHANGED <<dialog, owes>> /\ (pool => pool')
              \/ OpenDialog \/ CloseDialog \/ Seal \/ CountAssignments \/ DeclareAnswered
              \/ CommitClose \/ CloseAnswered \/ Declare \/ Leave
  <2>1. Focus \/ ReadShift \/ Deliver \/ LoseFetch => UNCHANGED <<dialog, owes, pool>>
    BY DEF Focus, ReadShift, Deliver, LoseFetch
  <2>2. \A r \in Rows, h \in Hours : Type(r, h) => UNCHANGED <<dialog, owes, pool>>
    BY DEF Type
  <2>3. \A k \in Slots : RowNext(k) => UNCHANGED <<dialog, owes, pool>>
    BY DEF RowNext, SaveHours, RemoveRow, AddRow, CheckEdit, WriteEdit, SettleEdit
  <2>4. Other => UNCHANGED <<dialog, owes>> /\ (pool => pool')
    BY DEF Other
  <2> QED BY <2>1, <2>2, <2>3, <2>4 DEF Next, DialogNext
<1> QED
  BY <1>1, <1>2, <1>3, <1>4, <1>5, <1>6, <1>7

LEMMA ClosedNext == ASSUME ScreenInv, Next PROVE ClosedInv'
<1> USE DEF ScreenInv
<1>1. CASE UNCHANGED <<server, edit, overlap>> /\ (dialog'.at = "counted" => dialog.at = "counted")
  BY <1>1 DEF ClosedInv, Assigned
<1>2. CASE \E k \in Slots : RowNext(k)
  <2> PICK k \in Slots : RowNext(k)
    BY <1>2
  <2>1. CASE SaveHours(k) \/ (\E r \in Rows : RemoveRow(k, r) \/ AddRow(k, r)) \/ SettleEdit(k)
    <3>1. UNCHANGED <<server, overlap, dialog>>
      BY <2>1 DEF SaveHours, RemoveRow, AddRow, SettleEdit
    <3>2. \A j \in Slots : edit'[j].at = "checked" => edit[j].at = "checked"
      <4>1. (\E kind, r, h, was : Send(k, kind, r, h, was)) \/ edit' = [edit EXCEPT ![k] = Settled]
        BY <2>1 DEF SaveHours, RemoveRow, AddRow, SettleEdit
      <4> QED BY <4>1 DEF Send, Settled, ScreenTypeOK
    <3> QED BY <3>1, <3>2 DEF ClosedInv, Assigned
  <2>2. CASE CheckEdit(k)
    <3>1. UNCHANGED <<server, overlap, dialog>>
      BY <2>2 DEF CheckEdit
    <3>2. server.closed => \A j \in Slots : edit'[j].at = "checked" => edit[j].at = "checked"
      BY <2>2 DEF CheckEdit, Allowed, Refused, ScreenTypeOK
    <3> QED BY <3>1, <3>2 DEF ClosedInv, Assigned
  <2>3. CASE WriteEdit(k)
    <3> DEFINE e == edit[k]
               hours == IF e.kind = "remove" THEN Absent ELSE e.hours
    <3>1. e.at \in {"checked", "void"} /\ e \in Edit \cup {Free, Settled}
      BY <2>3 DEF WriteEdit, ScreenTypeOK
    <3>2. e.row \in Rows /\ hours \in Hours \cup {Absent}
      BY <3>1, EditFacts
    <3>3. dialog' = dialog /\ (~overlap' => ~overlap /\ dialog.at # "counted")
      BY <2>3 DEF WriteEdit
    <3>4. \A j \in Slots : edit'[j].at = "checked" => edit[j].at = "checked"
      BY <2>3, <3>2, OrphanedFacts DEF WriteEdit, ScreenTypeOK, Done, Refused
    <3>5. CASE server' = server
      BY <3>3, <3>4, <3>5 DEF ClosedInv, Assigned
    <3>6. CASE e.at = "checked" /\ server' = [server EXCEPT !.hours[e.row] = hours]
      <4>1. server'.closed = server.closed
        <5> HIDE DEF hours
        <5> QED BY <3>2, <3>6, HoursFacts DEF ScreenTypeOK
      <4> QED BY <3>3, <3>6, <4>1 DEF ClosedInv
    <3> QED BY <2>3, <3>5, <3>6 DEF WriteEdit
  <2> QED BY <2>1, <2>2, <2>3 DEF RowNext
<1>3. CASE CountAssignments
  <2>1. UNCHANGED <<server, edit, overlap>>
    BY <1>3 DEF CountAssignments
  <2>2. dialog'.at = "counted" => Closable
    BY <1>3, DialogMoves
  <2> QED BY <2>1, <2>2 DEF ClosedInv, Closable, Assigned
<1>4. CASE CommitClose
  <2>1. edit' = edit /\ dialog.at = "counted" /\ dialog'.at # "counted"
    BY <1>4, DialogMoves DEF CommitClose
  <2>2. CASE server.closed
    <3>1. UNCHANGED <<server, overlap>>
      BY <1>4, <2>2 DEF CommitClose
    <3> QED BY <1>1, <2>1, <3>1
  <2>3. CASE ~server.closed
    <3>1. server' = [server EXCEPT !.closed = TRUE] /\ server'.hours = server.hours
      BY <1>4, <2>3, ShiftFacts DEF CommitClose, ScreenTypeOK
    <3>2. overlap' = (overlap \/ \E k \in InFlight : edit[k].at = "checked")
      BY <1>4, <2>3 DEF CommitClose
    <3>3. ~overlap' => ~overlap /\ \A k \in Slots : edit[k].at # "checked"
      BY <3>2, Flies
    <3> QED BY <2>1, <3>1, <3>3 DEF ClosedInv, Assigned
  <2> QED BY <2>2, <2>3
<1>5. CASE Other
  <2>1. dialog' = dialog
    BY <1>5 DEF Other
  <2>2. CASE \E r \in Rows, h \in Hours \cup {Absent} :
                /\ ~server.closed
                /\ server' = [server EXCEPT !.hours[r] = h]
                /\ overlap' = (overlap \/ dialog.at = "counted")
    <3>1. ~server'.closed
      BY <2>2, HoursFacts DEF ScreenTypeOK
    <3> QED BY <2>1, <2>2, <3>1 DEF ClosedInv
  <2>3. CASE /\ Closable /\ server' = [server EXCEPT !.closed = TRUE] /\ edit' = edit
             /\ overlap' = (overlap \/ \E k \in InFlight : edit[k].at = "checked")
    <3>1. server'.hours = server.hours
      BY <2>3, ShiftFacts DEF ScreenTypeOK
    <3>2. ~overlap' => ~overlap /\ \A k \in Slots : edit[k].at # "checked"
      BY <2>3, Flies
    <3> QED BY <2>3, <3>1, <3>2 DEF ClosedInv, Closable, Assigned
  <2>4. CASE UNCHANGED <<server, overlap, edit>>
    BY <2>1, <2>4 DEF ClosedInv, Assigned
  <2> QED BY <1>5, <2>2, <2>3, <2>4 DEF Other
<1>6. CASE CloseAnswered \/ Declare \/ DeclareAnswered \/ OpenDialog \/ CloseDialog \/ Seal \/ Leave
  <2>1. UNCHANGED <<server, edit, overlap>>
    BY <1>6 DEF CloseAnswered, Declare, DeclareAnswered, OpenDialog, CloseDialog, Seal, Leave
  <2>2. dialog'.at = "counted" => dialog.at = "counted"
    BY <1>6, DialogMoves
  <2> QED BY <1>1, <2>1, <2>2
<1>7. CASE Focus \/ ReadShift \/ Deliver \/ LoseFetch \/ \E r \in Rows, h \in Hours : Type(r, h)
  BY <1>1, <1>7 DEF Focus, ReadShift, Deliver, LoseFetch, Type
<1> QED
  BY <1>2, <1>3, <1>4, <1>5, <1>6, <1>7 DEF Next, DialogNext

LEMMA ScreenInvariant == Spec => []ScreenInv
<1>1. ASSUME ScreenInv, UNCHANGED vars PROVE ScreenInv'
  <2>1. ScreenTypeOK'
    BY <1>1 DEF ScreenInv, ScreenTypeOK, vars
  <2>2. ShownInv' /\ OwedInv' /\ ClosedInv'
    BY <1>1 DEF ScreenInv, ShownInv, OwedInv, SealedIsDeclared, ClosedInv, Quiet, InFlight, Assigned, vars
  <2> QED BY <2>1, <2>2 DEF ScreenInv
<1>2. ASSUME ScreenInv, Next PROVE ScreenInv'
  <2>1. ScreenTypeOK'
    BY <1>2, ScreenTyped DEF ScreenInv
  <2> QED BY <1>2, <2>1, ShownNext, OwedNext, ClosedNext DEF ScreenInv
<1>3. ScreenInv /\ [Next]_vars => ScreenInv'
  BY <1>1, <1>2
<1> QED
  BY <1>3, ScreenInitInv, PTL DEF Spec

\* The page's state is well formed, and a shift is closed with an assignment but for a removal
\* that overlaps the close (shifts.service.ts:310).
THEOREM ScreenStaysSafe == Spec => []ScreenSafe
<1>1. ScreenInv => ScreenSafe
  BY DEF ScreenInv, ClosedInv, ScreenSafe, StaffedWhenClosed
<1> QED
  BY <1>1, ScreenInvariant, PTL

\* Optimistic edits, refusals and refreshes in any number and order leave the page with what the
\* server holds, unless another manager changed it since or the last refresh failed
\* (use-shifts.ts:105-176).
THEOREM PageConverges == Spec => []Converges
<1>1. ScreenInv => Converges
  BY DEF ScreenInv, ShownInv, Converges, Quiet
<1> QED
  BY <1>1, ScreenInvariant, PTL

\* A page that closed the shift goes on to declare its tips, unless an answer is lost, the page is
\* left or both amounts are 0 (close-shift-dialog.tsx:127-170).
THEOREM SealsAreDeclared == Spec => []SealedIsDeclared
<1>1. ScreenInv => SealedIsDeclared
  BY DEF ScreenInv, OwedInv
<1> QED
  BY <1>1, ScreenInvariant, PTL

\* The assignments of a closed shift are changed only by what was checked before the close
\* (shifts.service.ts:192-296).
THEOREM ClosedStaysFrozen == Spec => FrozenWhenClosed
<1>1. ASSUME ScreenInv, Next, server.closed, ~overlap PROVE server'.hours = server.hours
  <2>1. CASE \E k \in Slots : WriteEdit(k)
    <3> PICK k \in Slots : WriteEdit(k)
      BY <2>1
    <3>1. edit[k].at # "checked"
      BY <1>1 DEF ScreenInv, ClosedInv
    <3> QED BY <3>1 DEF WriteEdit
  <2>2. CASE CommitClose
    BY <1>1, <2>2 DEF CommitClose
  <2>3. CASE Other
    BY <1>1, <2>3 DEF Other, Closable
  <2>4. CASE server' = server
    BY <2>4
  <2> QED
    <3>1. Focus \/ ReadShift \/ Deliver \/ LoseFetch => server' = server
      BY DEF Focus, ReadShift, Deliver, LoseFetch
    <3>2. \A r \in Rows, h \in Hours : Type(r, h) => server' = server
      BY DEF Type
    <3>3. \A k \in Slots : RowNext(k) => WriteEdit(k) \/ server' = server
      BY DEF RowNext, SaveHours, RemoveRow, AddRow, CheckEdit, SettleEdit
    <3>4. DialogNext \/ Leave => CommitClose \/ server' = server
      BY DEF DialogNext, OpenDialog, CloseDialog, Seal, CountAssignments, CloseAnswered, Declare,
             DeclareAnswered, Leave
    <3> QED BY <1>1, <2>1, <2>2, <2>3, <3>1, <3>2, <3>3, <3>4 DEF Next
<1>2. ScreenInv /\ [Next]_vars => [server.closed /\ ~overlap => server'.hours = server.hours]_vars
  BY <1>1
<1> QED
  BY <1>2, ScreenInvariant, PTL DEF Spec, FrozenWhenClosed
=============================================================================
