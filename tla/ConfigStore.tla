---------------------------- MODULE ConfigStore ----------------------------
(***************************************************************************)
(* Settings and model exclusions that live twice: in the app_config table  *)
(* (core/config_manager.py) and in the process (the settings object the    *)
(* provider chain reads, ModelCatalog._exclusions).  The admin endpoints   *)
(* of routers/admin.py write both, the LLM gates write one, and a restart  *)
(* rebuilds the process from what main.py loads.                           *)
(***************************************************************************)
EXTENDS Naturals, FiniteSets

CONSTANTS Models,      \* (provider, model) pairs
          ConfigKeys,  \* keys of _HOT_RELOAD_KEYS
          Values,      \* values an administrator saves
          Admins       \* bound: admin requests that may be under way at a time

VARIABLES inMemory,    \* ModelCatalog._exclusions
          saved,       \* rows llm_excluded:... of app_config
          overrides,   \* the other rows of app_config
          settings,    \* the settings object
          requests,    \* per admin the request between its memory and its table half
          acked,       \* history: models whose adding was answered persisted=True and
                       \* whose removal was not asked for since
          passedBy     \* history: those of acked that were answered so while a removal
                       \* asked for before still waited for the table

configVars == <<inMemory, saved, overrides, settings, requests, acked, passedBy>>

Env == "env"           \* the value of .env
NoRow == "none"
NoRequest == [op |-> "none"]
Adding(m) == [op |-> "add", model |-> m]
Removing(m) == [op |-> "remove", model |-> m]
AdminIdle == [a \in Admins |-> NoRequest]

ConfigInit ==
    /\ inMemory = {} /\ saved = {} /\ acked = {} /\ passedBy = {}
    /\ overrides = [k \in ConfigKeys |-> NoRow]
    /\ settings = [k \in ConfigKeys |-> Env]
    /\ requests = AdminIdle

Asks(a, request) == requests[a] = NoRequest /\ requests' = [requests EXCEPT ![a] = request]
Leaves(a) == requests' = [requests EXCEPT ![a] = NoRequest]

\* POST /llm-excluded: the memory at once; a model that is there already is
\* answered "already_excluded" and the table is left alone.
AddExclusion(a, m) ==
    /\ m \notin inMemory /\ Asks(a, Adding(m))
    /\ inMemory' = inMemory \cup {m}
    /\ UNCHANGED <<saved, overrides, settings, acked, passedBy>>

\* The answer persisted=True, whatever else is on its way to the table; a removal that
\* was asked for after the adding has taken the model out of the memory again.
Confirms(m) ==
    IF m \notin inMemory THEN UNCHANGED <<acked, passedBy>>
    ELSE /\ acked' = acked \cup {m}
         /\ passedBy' = IF \E b \in Admins : requests[b] = Removing(m) THEN passedBy \cup {m}
                        ELSE passedBy \ {m}

\* Mutant: the answer is persisted=True whatever set_kv says.
FinishAddUnchecked(a, m) ==
    /\ requests[a] = Adding(m) /\ Leaves(a)
    /\ saved' \in {saved \cup {m}, saved} /\ Confirms(m)
    /\ UNCHANGED <<inMemory, overrides, settings>>

\* set_kv, which answers False when the write fails.
FinishAdd(a, m) ==
    /\ requests[a] = Adding(m) /\ Leaves(a)
    /\ \/ saved' = saved \cup {m} /\ Confirms(m)
       \/ UNCHANGED <<saved, acked, passedBy>>
    /\ UNCHANGED <<inMemory, overrides, settings>>

\* DELETE /llm-excluded: the memory at once, then delete_kv.
RemoveExclusion(a, m) ==
    /\ Asks(a, Removing(m))
    /\ inMemory' = inMemory \ {m} /\ acked' = acked \ {m} /\ passedBy' = passedBy \ {m}
    /\ UNCHANGED <<saved, overrides, settings>>

FinishRemove(a, m) ==
    /\ requests[a] = Removing(m) /\ Leaves(a)
    /\ saved' \in {saved \ {m}, saved}
    /\ UNCHANGED <<inMemory, overrides, settings, acked, passedBy>>

\* mark_excluded by the circuit breaker after a permanent refusal.
mark_excluded(m) ==
    /\ inMemory' = inMemory \cup {m}
    /\ UNCHANGED <<saved, overrides, settings, requests, acked, passedBy>>

\* PUT /config: set_override (a failing write is logged only), then
\* refresh_provider_chain: it is called on the running loop, where
\* run_until_complete raises for every key, so no setting changes.
update_config(k, v) ==
    /\ overrides' \in {[overrides EXCEPT ![k] = v], overrides}
    /\ UNCHANGED <<inMemory, saved, settings, requests, acked, passedBy>>

\* DELETE /config/{key}.
delete_override(k) ==
    /\ overrides' \in {[overrides EXCEPT ![k] = NoRow], overrides}
    /\ UNCHANGED <<inMemory, saved, settings, requests, acked, passedBy>>

\* What ConfigManager.get returns: the override before .env.
ShownValue(k) == IF overrides[k] = NoRow THEN Env ELSE overrides[k]

\* The process goes away and comes back: settings are read from .env, the
\* exclusions from the table (none when the query fails); requests are lost.
Restart ==
    /\ inMemory' \in {saved, {}}
    /\ settings' = [k \in ConfigKeys |-> Env]
    /\ requests' = AdminIdle
    /\ UNCHANGED <<saved, overrides, acked, passedBy>>

ConfigNext ==
    \/ \E a \in Admins, m \in Models :
          \/ AddExclusion(a, m) \/ FinishAdd(a, m)
          \/ RemoveExclusion(a, m) \/ FinishRemove(a, m)
    \/ \E m \in Models : mark_excluded(m)
    \/ \E k \in ConfigKeys : delete_override(k) \/ \E v \in Values : update_config(k, v)
    \/ Restart

ConfigSpec == ConfigInit /\ [][ConfigNext]_configVars
-----------------------------------------------------------------------------
ConfigTypeOK ==
    /\ inMemory \subseteq Models /\ saved \subseteq Models /\ acked \subseteq Models
    /\ overrides \in [ConfigKeys -> Values \cup {NoRow}]
    /\ settings \in [ConfigKeys -> {Env} \cup Values]
    /\ requests \in [Admins -> {NoRequest} \cup [op: {"add", "remove"}, model: Models]]
    /\ passedBy \subseteq acked

\* An exclusion that was answered as persisted is in the table until its removal is
\* asked for, across restarts and next to requests that fail or are lost on the way;
\* all but one whose adding was confirmed while a removal asked for before was still
\* on its way, which may reach the table after it.
AckedExclusionStays == acked \ passedBy \subseteq saved

\* Claims false of the code.  Without the exception: DELETE takes the model out of the
\* memory, POST puts it back and answers persisted=True, and the delete_kv that was
\* asked for first deletes the row ("persisted across restarts", admin.py 383).
AckedIsSaved == acked \subseteq saved

\* Whatever the exclusion list shows while no request is under way is in the
\* table ("all exclusions, persisted across restarts", list_llm_excluded).
ListedIsPersisted == requests = AdminIdle => inMemory \subseteq saved

\* A key that was saved is the key in use ("the next get_configured_providers()
\* takes the new value", the comment on refresh_provider_chain).
SavedKeyInUse == \A k \in ConfigKeys : overrides[k] # NoRow => settings[k] = overrides[k]
=============================================================================
