---------------------------- MODULE TenantConfig ----------------------------
(***************************************************************************)
(* The distribution settings of a tenant: the row that                     *)
(* apps/api/src/tenant-config/tenant-config.service.ts merges each save    *)
(* into, read in one step of a transaction and written in a later one, and *)
(* the form of apps/web/src/features/tenant-config that its owner has open *)
(* in a tab, while other tabs and devices save too.  A form is filled      *)
(* once, from the tab's cached query; it sends the fields in which its     *)
(* draft differs from the last saved settings it has heard of.             *)
(*                                                                         *)
(* A field is one role coefficient, guard rail or option: the form and the *)
(* service treat them alike.  A tenant without a row has the defaults, and *)
(* a save then starts from these (baseConfig).  The mode is not a field:   *)
(* the form neither shows the stored one nor sends it.                     *)
(***************************************************************************)
EXTENDS FiniteSets

CONSTANTS
    Tabs,           \* tabs with the form
    Devices,        \* where else the owner saves; only their requests are modelled
    Fields,         \* role coefficients, guard rails, options
    Values,         \* values of a field, within the bounds that the inputs clamp to
    Defaults,       \* buildDefaultConfigForMerge, DEFAULT_DISTRIBUTION_CONFIG
    NoConfig        \* nothing loaded

ASSUME ConfigAssumption ==
    /\ Tabs \cap Devices = {}
    /\ Defaults \in [Fields -> Values]
    /\ NoConfig \notin [Fields -> Values]

VARIABLES
    config,         \* the settings in the database
    cache,          \* of a tab: the cached query
    original,       \* of a form: the last saved settings it has heard of
    draft,          \* of a form: what it shows
    save,           \* of a tab or a device: its save in flight
    touched,        \* history: fields in which the draft differs, because they were set in it
    behind,         \* history: fields that changed since the settings in original
    missed          \* history: ... because original has followed a change of the settings

configVars == <<config, cache, original, draft, save, touched, behind, missed>>

-----------------------------------------------------------------------------
Config == [Fields -> Values]

Partial == UNION {[S -> Values] : S \in SUBSET Fields}

NotSaving == [at |-> "idle"]

\* mine: the form that sent the save is still there.  since: fields another save changed since
\* this one read the row, or since it wrote it.
Save == {NotSaving}
        \cup [at : {"sent"}, fields : Partial, mine : BOOLEAN]
        \cup [at : {"read"}, fields : Partial, mine : BOOLEAN, base : Config, since : SUBSET Fields]
        \cup [at : {"saved"}, mine : BOOLEAN, saved : Config, since : SUBSET Fields]

ConfigTypeOK ==
    /\ config \in Config
    /\ cache \in [Tabs -> Config \cup {NoConfig}]
    /\ original \in [Tabs -> Config \cup {NoConfig}]
    /\ draft \in [Tabs -> Config \cup {NoConfig}]
    /\ save \in [Tabs \cup Devices -> Save]
    /\ touched \in [Tabs -> SUBSET Fields]
    /\ behind \in [Tabs -> SUBSET Fields] /\ missed \in [Tabs -> SUBSET Fields]
    /\ \A t \in Tabs : original[t] = NoConfig <=> draft[t] = NoConfig

ConfigInit ==
    /\ config = Defaults
    /\ cache = [t \in Tabs |-> NoConfig]
    /\ original = cache /\ draft = cache
    /\ save = [t \in Tabs \cup Devices |-> NotSaving]
    /\ touched = [t \in Tabs |-> {}]
    /\ behind = touched /\ missed = touched

-----------------------------------------------------------------------------
(* The form *)

Differ(c, d) == {f \in Fields : c[f] # d[f]}

Filled(t) == draft[t] # NoConfig

\* The save bar is there.
Dirty(t) == Filled(t) /\ draft[t] # original[t]

\* The cached query is loaded, or refreshed when the window gets the focus; it fills a form that
\* is not filled.
Load(t) ==
    /\ cache' = [cache EXCEPT ![t] = config]
    /\ IF Filled(t) THEN UNCHANGED <<original, draft, touched, behind, missed>>
       ELSE /\ original' = [original EXCEPT ![t] = config]
            /\ draft' = [draft EXCEPT ![t] = config]
            /\ touched' = [touched EXCEPT ![t] = {}]
            /\ behind' = [behind EXCEPT ![t] = {}]
            /\ missed' = [missed EXCEPT ![t] = {}]
    /\ UNCHANGED <<config, save>>

\* The page is opened again before the query is collected: the form takes the cached settings,
\* however old; the refresh of a stale query comes after.
Reopen(t) ==
    /\ ~Filled(t) /\ cache[t] # NoConfig
    /\ original' = [original EXCEPT ![t] = cache[t]]
    /\ draft' = [draft EXCEPT ![t] = cache[t]]
    /\ touched' = [touched EXCEPT ![t] = {}]
    /\ behind' = [behind EXCEPT ![t] = Differ(cache[t], config)]
    /\ missed' = [missed EXCEPT ![t] = {}]
    /\ UNCHANGED <<config, cache, save>>

\* The save in flight goes on and still sets the cache.
LeavePage(t) ==
    /\ Filled(t)
    /\ original' = [original EXCEPT ![t] = NoConfig]
    /\ draft' = [draft EXCEPT ![t] = NoConfig]
    /\ touched' = [touched EXCEPT ![t] = {}]
    /\ behind' = [behind EXCEPT ![t] = {}]
    /\ missed' = [missed EXCEPT ![t] = {}]
    /\ save' = IF save[t] = NotSaving THEN save ELSE [save EXCEPT ![t].mine = FALSE]
    /\ UNCHANGED <<config, cache>>

\* Nobody is on the page for gcTime.
Collect(t) ==
    /\ ~Filled(t) /\ cache[t] # NoConfig
    /\ cache' = [cache EXCEPT ![t] = NoConfig]
    /\ UNCHANGED <<config, original, draft, save, touched, behind, missed>>

\* The inputs stay enabled while a save is in flight.
SetField(t, f, v) ==
    /\ Filled(t) /\ draft[t][f] # v
    /\ draft' = [draft EXCEPT ![t][f] = v]
    /\ touched' = [touched EXCEPT ![t] = (@ \cup {f}) \cap Differ(original[t], draft'[t])]
    /\ missed' = [missed EXCEPT ![t] = @ \ {f}]
    /\ UNCHANGED <<config, cache, original, save, behind>>

Discard(t) ==
    /\ Dirty(t) /\ save[t] = NotSaving
    /\ draft' = [draft EXCEPT ![t] = original[t]]
    /\ touched' = [touched EXCEPT ![t] = {}]
    /\ missed' = [missed EXCEPT ![t] = {}]
    /\ UNCHANGED <<config, cache, original, save, behind>>

ResetForm(t) ==
    /\ Dirty(t) /\ save[t] = NotSaving
    /\ draft' = [draft EXCEPT ![t] = Defaults]
    /\ touched' = [touched EXCEPT ![t] = Differ(original[t], Defaults)]
    /\ missed' = [missed EXCEPT ![t] = {}]
    /\ UNCHANGED <<config, cache, original, save, behind>>

BuildPayload(t) == [f \in Differ(original[t], draft[t]) |-> draft[t][f]]

SendSave(t) ==
    /\ Dirty(t) /\ save[t] = NotSaving
    /\ save' = [save EXCEPT ![t] = [at |-> "sent", fields |-> BuildPayload(t), mine |-> TRUE]]
    /\ UNCHANGED <<config, cache, original, draft, touched, behind, missed>>

\* Another form, or a client of the API, that saves one field.
SendElsewhere(d, f, v) ==
    /\ save[d] = NotSaving
    /\ save' = [save EXCEPT ![d] = [at |-> "sent", fields |-> [g \in {f} |-> v], mine |-> FALSE]]
    /\ UNCHANGED <<config, cache, original, draft, touched, behind, missed>>

-----------------------------------------------------------------------------
(* The service *)

BeginUpsert(t) ==
    /\ save[t].at = "sent"
    /\ save' = [save EXCEPT ![t] = [at |-> "read", fields |-> @.fields, mine |-> @.mine,
                                    base |-> config, since |-> {}]]
    /\ UNCHANGED <<config, cache, original, draft, touched, behind, missed>>

MutMerge(base, fields) ==
    [f \in Fields |-> IF f \in DOMAIN fields THEN fields[f] ELSE Defaults[f]]

Merge(base, fields) ==
    [f \in Fields |-> IF f \in DOMAIN fields THEN fields[f] ELSE base[f]]

\* History: the saves in flight that a change of some fields concerns.
Noted(s, changed) == IF "since" \in DOMAIN s THEN [s EXCEPT !.since = @ \cup changed] ELSE s

\* What a device makes of the answer is of no concern here.
CommitUpsert(t) ==
    /\ save[t].at = "read"
    /\ config' = Merge(save[t].base, save[t].fields)
    /\ LET changed == Differ(config, config')
       IN  /\ save' = [u \in Tabs \cup Devices |->
                         IF u # t THEN Noted(save[u], changed)
                         ELSE IF t \in Devices THEN NotSaving
                         ELSE [at |-> "saved", mine |-> save[t].mine,
                               saved |-> config', since |-> {}]]
           /\ behind' = [u \in Tabs |-> IF Filled(u) THEN behind[u] \cup changed ELSE {}]
    /\ UNCHANGED <<cache, original, draft, touched, missed>>

MutHeard(t) == IF save[t].mine THEN draft[t] ELSE save[t].saved

\* What the form takes from the answer: it becomes original, and the draft stays.
Heard(t) == save[t].saved

\* onSuccess sets the cache, and handleSave sets original, of the form that sent the save.
SaveAnswered(t) ==
    /\ save[t].at = "saved"
    /\ cache' = [cache EXCEPT ![t] = Heard(t)]
    /\ IF save[t].mine
       THEN /\ original' = [original EXCEPT ![t] = Heard(t)]
            /\ touched' = [touched EXCEPT ![t] = @ \cap Differ(Heard(t), draft[t])]
            /\ missed' = [missed EXCEPT ![t] =
                              ((@ \cup behind[t]) \ touched[t]) \cap Differ(Heard(t), draft[t])]
            /\ behind' = [behind EXCEPT ![t] = save[t].since]
       ELSE UNCHANGED <<original, touched, behind, missed>>
    /\ save' = [save EXCEPT ![t] = NotSaving]
    /\ UNCHANGED <<config, draft>>

\* The request, or its answer, is lost, or the transaction fails: the form stays as it is.
SaveFailed(t) ==
    /\ save[t] # NotSaving
    /\ save' = [save EXCEPT ![t] = NotSaving]
    /\ UNCHANGED <<config, cache, original, draft, touched, behind, missed>>

ConfigNext ==
    \/ \E t \in Tabs :
          \/ Load(t) \/ Reopen(t) \/ LeavePage(t) \/ Collect(t)
          \/ \E f \in Fields, v \in Values : SetField(t, f, v)
          \/ Discard(t) \/ ResetForm(t) \/ SendSave(t) \/ SaveAnswered(t)
    \/ \E d \in Devices, f \in Fields, v \in Values : SendElsewhere(d, f, v)
    \/ \E t \in Tabs \cup Devices : BeginUpsert(t) \/ CommitUpsert(t) \/ SaveFailed(t)

ConfigSpec == ConfigInit /\ [][ConfigNext]_configVars

-----------------------------------------------------------------------------
(* Correctness *)

\* tenant-config.service.ts:81-120: the row is read, merged and written whole, with no version
\* and no lock.  A save changes a field it was not sent only by undoing a save that changed the
\* field after the row was read.
FieldsSurvive ==
    [][\A t \in Tabs \cup Devices :
          save[t].at = "read" /\ save'[t].at # "read" =>
              Differ(config, config') \subseteq DOMAIN save[t].fields \cup save[t].since]_configVars

\* DistributionConfigForm.tsx:41-68, 136-139: "Payload ... only changed fields"
\* (tenant-config.types.ts:53).  What a form sends is what was set in it; or a field another tab
\* saved since, which came with the answer to this tab's last save and which the draft, that
\* handleSave leaves alone, now turns back.
SendsOwnChanges ==
    [][\A t \in Tabs :
          save[t].at = "idle" /\ save'[t].at = "sent" =>
              DOMAIN save'[t].fields \subseteq touched[t] \cup missed[t]]_configVars

\* DistributionConfigForm.tsx:103-115, 145-153: what a form shows without the mark of a
\* modification, or goes back to ("Retour à la dernière configuration sauvegardée."), is stored,
\* unless another save, or one whose answer was lost, changed it since: no refresh of the query
\* reaches a form that is filled.
ShowsWhatIsStored ==
    \A t \in Tabs :
        Filled(t) => Differ(original[t], config) \subseteq behind[t]

\* The settings are well formed and the form is honest about them.
ConfigSafe == ConfigTypeOK /\ ShowsWhatIsStored

\* A save takes from others, and sends, no more than the two above allow.
SavesKeepToThemselves == FieldsSurvive /\ SendsOwnChanges
=============================================================================
