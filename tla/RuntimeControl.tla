--------------------------- MODULE RuntimeControl ---------------------------
(***************************************************************************)
(* The control plane: a request asks for a log level and a sampling ratio, *)
(* which the whole process shares.  Its checks precede its record, and the *)
(* record its changes.  The handler never awaits, but the application's    *)
(* threads set the level and install tracing between any two of its steps. *)
(***************************************************************************)
EXTENDS Naturals

CONSTANTS
  Levels,   \* the levels, as numbers
  Warning,  \* the level of the control plane's own record
  Ratios,
  Tokens,
  Absent,   \* no token, no setting asked for
  Invalid   \* what the payload's checks refuse

ASSUME RuntimeControlAssumption == Levels \subseteq Nat /\ Warning \in Levels

Payloads == [trusted : BOOLEAN, token : Tokens \cup {Absent},
             level : Levels \cup {Absent, Invalid}, ratio : Ratios \cup {Absent, Invalid}]

VARIABLES
  level,    \* of the root logger
  ratio,    \* _RUNTIME_TRACE_SAMPLING_RATIO
  sampler,  \* _RUNTIME_SAMPLER_INSTALLED
  token,    \* in the environment
  managed,  \* the app was installed with configure_logging
  stage,    \* of the request: "idle", "record", "level", "ratio"
  asked,    \* the last request
  answer,   \* its status, 0 before the first
  before,   \* history: the settings it met
  told,     \* history: its record was written
  meddled   \* history: a thread changed a setting since it came

controlVars == <<level, ratio, sampler, token, managed, stage, asked, answer, before,
                 told, meddled>>

ControlInit ==
  /\ level \in Levels /\ ratio \in Ratios /\ sampler \in BOOLEAN
  /\ token \in Tokens /\ managed \in BOOLEAN
  /\ stage = "idle" /\ answer = 0 /\ told = FALSE /\ meddled = FALSE
  /\ asked = [trusted |-> FALSE, token |-> Absent, level |-> Absent, ratio |-> Absent]
  /\ before = [level |-> level, ratio |-> ratio]

\* The network is checked before the token, the token at every call.
Authorize(q) ==
  IF ~q.trusted THEN 403
  ELSE IF token = Absent \/ q.token # token THEN 401 ELSE 200

\* The application keeps its levels, and its provider's sampler its ratio.
Status(q) ==
  IF Authorize(q) # 200 THEN Authorize(q)
  ELSE IF Invalid \in {q.level, q.ratio} THEN 422
  ELSE IF q.level # Absent /\ ~managed THEN 409
  ELSE IF q.ratio # Absent /\ ~sampler THEN 409 ELSE 200

Come(q) ==
  /\ stage = "idle"
  /\ asked' = q /\ answer' = Status(q)
  /\ before' = [level |-> level, ratio |-> ratio]
  /\ told' = FALSE /\ meddled' = FALSE
  /\ stage' = IF Status(q) = 200 THEN "record" ELSE "idle"
  /\ UNCHANGED <<level, ratio, sampler, token, managed>>

\* Mutation of Record: the record comes after the new level.
RecordLate ==
  /\ stage = "record"
  /\ told' = ((IF asked.level # Absent THEN asked.level ELSE level) <= Warning)
  /\ stage' = "level"
  /\ UNCHANGED <<level, ratio, sampler, token, managed, asked, answer, before, meddled>>

\* control_plane.settings_changed is written if the level lets a warning through.
Record ==
  /\ stage = "record"
  /\ told' = (level <= Warning)
  /\ stage' = "level"
  /\ UNCHANGED <<level, ratio, sampler, token, managed, asked, answer, before, meddled>>

ChangeLevel ==
  /\ stage = "level"
  /\ level' = IF asked.level # Absent THEN asked.level ELSE level
  /\ stage' = "ratio"
  /\ UNCHANGED <<ratio, sampler, token, managed, asked, answer, before, told, meddled>>

ChangeRatio ==
  /\ stage = "ratio"
  /\ ratio' = IF asked.ratio # Absent THEN asked.ratio ELSE ratio
  /\ stage' = "idle"
  /\ UNCHANGED <<level, sampler, token, managed, asked, answer, before, told, meddled>>

\* set_log_level() or setup_logging() on another thread.
SetLevel ==
  /\ level' \in Levels /\ meddled' = TRUE
  /\ UNCHANGED <<ratio, sampler, token, managed, stage, asked, answer, before, told>>

\* install_otel() sets the ratio of its settings, whoever owns the provider.
InstallTracing ==
  /\ ratio' \in Ratios /\ sampler' \in {sampler, TRUE} /\ meddled' = TRUE
  /\ UNCHANGED <<level, token, managed, stage, asked, answer, before, told>>

Rotate ==
  /\ token' \in Tokens \cup {Absent}
  /\ UNCHANGED <<level, ratio, sampler, managed, stage, asked, answer, before, told, meddled>>

ControlNext ==
  \/ \E q \in Payloads : Come(q)
  \/ Record \/ ChangeLevel \/ ChangeRatio \/ SetLevel \/ InstallTracing \/ Rotate

ControlSpec == ControlInit /\ [][ControlNext]_controlVars

-----------------------------------------------------------------------------
After(setting, was) == IF setting = Absent THEN was ELSE setting

\* "so a higher new level can't drop the record" (control_plane.py:136), and the checks
\* come before both changes: a request that is refused changes nothing, one that is
\* served makes every change it asked for and no other, and a change made while warnings
\* were written is on record, unless a thread meddled.
AppliedAsAWhole ==
  stage = "idle" /\ answer # 0 /\ ~meddled =>
    IF answer = 200
    THEN /\ level = After(asked.level, before.level)
         /\ ratio = After(asked.ratio, before.ratio)
         /\ before.level <= Warning => told
    ELSE level = before.level /\ ratio = before.ratio

=============================================================================
