--------------------------- MODULE PolicySettings ---------------------------
(***************************************************************************)
(* Settings read from the environment: the profile's defaults, a redaction *)
(* preset, and the variables themselves; OpenTelemetry's switch, protocols *)
(* and trace exclusions.  An environment gives every variable a raw text,  *)
(* Unset for none; "" is the empty text, "none" one of _NULLISH_VALUES.    *)
(***************************************************************************)
EXTENDS Naturals

CONSTANTS Unset, NoList  \* a variable without a value, and no list at all

-----------------------------------------------------------------------------
(* apply_profile_context(): the profile's defaults, while settings are read. *)
Profiles == [development |-> [level |-> "debug"],
             production  |-> [level |-> "info", preset |-> "strict"]]

Added(env) ==
  LET profile == IF env.profile \in DOMAIN Profiles THEN Profiles[env.profile] ELSE <<>>
  IN  [v \in {v \in DOMAIN profile : env[v] = Unset} |-> profile[v]]
Enter(env) ==
  [v \in DOMAIN env |-> IF v \in DOMAIN Added(env) THEN Added(env)[v] ELSE env[v]]

\* Only the variables added are removed.
Exit(env, added) == [v \in DOMAIN env |-> IF v \in DOMAIN added THEN Unset ELSE env[v]]

-----------------------------------------------------------------------------
(* SecurityPolicy.from_env().                                               *)
ParseCsv(raw, default, optional) ==
  CASE raw = Unset              -> IF optional THEN NoList ELSE default
    [] raw = "none" /\ optional -> NoList
    [] raw = "" /\ ~optional    -> default
    [] OTHER                    -> raw

Fields   == {"fields", "headers", "mode"}  \* redacted_fields, header_allowlist, redaction_mode
Optional == {"headers"}
Default  == [fields |-> "default fields", headers |-> NoList, mode |-> "mask"]
Presets  == [strict |-> [mode |-> "drop", headers |-> "strict headers"],
             pci    |-> [mode |-> "mask", fields |-> "pci fields"],
             gdpr   |-> [mode |-> "hash", fields |-> "gdpr fields"]]
Refused  == [f \in Fields |-> "refused"]

FromPreset(name) ==
  IF name \notin DOMAIN Presets THEN Refused
  ELSE [f \in Fields |-> IF f \in DOMAIN Presets[name] THEN Presets[name][f] ELSE Default[f]]

\* The variables as the settings class reads them, Unset for None.
EnvValue(env, f) ==
  CASE f = "fields"  -> ParseCsv(env.fields, Default.fields, FALSE)
    [] f = "headers" -> ParseCsv(env.headers, NoList, TRUE)
    [] f = "mode"    -> env.mode

\* Mutation of FromEnv: None never overrides, not even a list that may be none.
FromEnvWithoutNone(env) ==
  LET base == IF env.preset \in {Unset, ""} THEN Default ELSE FromPreset(env.preset)
  IN  IF base = Refused THEN Refused
      ELSE [f \in Fields |-> IF env[f] = Unset \/ EnvValue(env, f) = NoList
                             THEN base[f] ELSE EnvValue(env, f)]

FromEnv(env) ==
  LET base == IF env.preset \in {Unset, ""} THEN Default ELSE FromPreset(env.preset)
      Overrides(f) == env[f] # Unset /\ (EnvValue(env, f) # NoList \/ f \in Optional)
  IN  IF base = Refused THEN Refused
      ELSE [f \in Fields |-> IF Overrides(f) THEN EnvValue(env, f) ELSE base[f]]

-----------------------------------------------------------------------------
(* OpenTelemetry.                                                           *)
\* An unknown protocol is grpc.
NormalizeProtocol(raw) == IF raw \in {"grpc", "http/protobuf"} THEN raw ELSE "grpc"

\* The signal's own variable, then the shared one.
Protocol(env) ==
  NormalizeProtocol(IF env.ownProtocol # Unset THEN env.ownProtocol ELSE env.protocol)

SignalEnabled(env) == env.otel = "true" /\ env.sdkDisabled # "true"

\* An empty list of exclusions is a list; "none" is a path like any other.
ParseExcluded(raw) == IF raw = Unset THEN NoList ELSE raw
UsesDefaultExclusions(env) == ParseExcluded(env.excluded) = NoList /\ env.otelExcluded = Unset
BuildExcluded(env) ==
  IF ParseExcluded(env.excluded) # NoList THEN env.excluded
  ELSE IF UsesDefaultExclusions(env) THEN "default paths" ELSE "left to OpenTelemetry"

\* What the app's start makes of them: discovered routes extend the defaults only.
Excluded(env) ==
  IF UsesDefaultExclusions(env) THEN <<BuildExcluded(env), "discovered">>
  ELSE <<BuildExcluded(env)>>

-----------------------------------------------------------------------------
Policy(env) == FromEnv(Enter(env))

\* "Variables already set win" (profiles.py:25) and "it overrides every enable flag"
\* (otel/settings.py:139).  Among all environments: a variable that is set decides its
\* setting whatever the profile, the preset and the others say, "none" and the empty
\* list included; one that is not leaves it to profile and preset; the environment is
\* afterwards what it was, with what another thread set meanwhile.
SettingsStand(env, envs) ==
  /\ \A other \in envs, f \in Fields :
       /\ env[f] # Unset /\ env[f] = other[f] /\ Refused \notin {Policy(env), Policy(other)} =>
            Policy(env)[f] = Policy(other)[f]
       /\ (/\ env[f] = Unset /\ other[f] = Unset
           /\ env.profile = other.profile /\ env.preset = other.preset) =>
            Policy(env)[f] = Policy(other)[f]
  /\ env.headers = "none" /\ Policy(env) # Refused => Policy(env).headers = NoList
  /\ \A v \in DOMAIN env \ DOMAIN Added(env) :
       Exit([Enter(env) EXCEPT ![v] = "other"], Added(env)) = [env EXCEPT ![v] = "other"]
  /\ env.sdkDisabled = "true" => ~SignalEnabled(env)
  /\ \A other \in envs :
       /\ env.ownProtocol # Unset /\ env.ownProtocol = other.ownProtocol =>
            Protocol(env) = Protocol(other)
       /\ env.excluded # Unset /\ env.excluded = other.excluded =>
            Excluded(env) = Excluded(other) /\ Excluded(env) = <<env.excluded>>

=============================================================================
