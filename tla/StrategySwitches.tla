--------------------------- MODULE StrategySwitches ---------------------------
(***************************************************************************)
(* Which strategies are enabled, and the limits of the risk manager: what  *)
(* the engine uses (registry, RiskManager), what the settings in memory    *)
(* say, and what settings.toml says.  The dashboard changes the first two  *)
(* by several requests and copies them to the third; a mode switches one   *)
(* kind of strategies off without touching the settings.                   *)
(*                                                                         *)
(* Strategies come in two kinds, scalping and quant.  All limits of the    *)
(* risk manager go the same way and are one value.                         *)
(***************************************************************************)
EXTENDS Naturals, FiniteSets

CONSTANTS
  Scalping, Quant,  \* _SCALPING_STRATEGIES and _QUANT_STRATEGIES
  Limits            \* values of the risk limits

VARIABLES
  file,      \* settings.toml: [scalping, quant, limit]
  settings,  \* the settings in memory, of the same shape
  enabled,   \* strategies whose flag is set
  limit,     \* the risk manager's
  started,   \* _trading_started
  chosen,    \* history: the strategies switched on by hand, or in the file at first
  applied,   \* history: limits given to the risk manager, or in the file at first
  hidden,    \* history: kinds of which strategies were listed but off when the lists
             \* were rewritten
  filed      \* history: chosen and hidden, when the file was last written

vars == <<file, settings, enabled, limit, started, chosen, applied, hidden, filed>>

Strategies == Scalping \cup Quant
Kinds == {"scalping", "quant"}
OfKind(k) == IF k = "scalping" THEN Scalping ELSE Quant
Listed(s) == s.scalping \cup s.quant
Modes == {"scalping", "quant", "both"}

\* build_registry and build_engine
Loaded(f) == /\ settings' = f
             /\ enabled' = Listed(f)
             /\ limit' = f.limit
             /\ started' = FALSE

InitWith(f) ==
  /\ file = f /\ settings = f
  /\ enabled = Listed(f)
  /\ limit = f.limit
  /\ started = FALSE
  /\ chosen = Listed(f) /\ applied = {f.limit}
  /\ hidden = {}
  /\ filed = [chosen |-> Listed(f), hidden |-> {}]

Init == \E f \in [scalping : SUBSET Scalping, quant : SUBSET Quant, limit : Limits] : InitWith(f)

-----------------------------------------------------------------------------
\* _apply_mode, of main and of the dashboard
ModeStrategies(mode) ==
  (IF mode = "quant" THEN {} ELSE settings.scalping)
  \cup (IF mode = "scalping" THEN {} ELSE settings.quant)

Start(mode) ==
  /\ ~started
  /\ started' = TRUE
  /\ enabled' = ModeStrategies(mode)
  /\ UNCHANGED <<file, settings, limit, chosen, applied, hidden, filed>>

Stop ==
  /\ started
  /\ started' = FALSE
  /\ UNCHANGED <<file, settings, enabled, limit, chosen, applied, hidden, filed>>

-----------------------------------------------------------------------------
\* both lists become what is enabled now, whatever the mode
RewriteLists(on) ==
  /\ settings' = [settings EXCEPT !.scalping = on \cap Scalping, !.quant = on \cap Quant]
  /\ hidden' = hidden \cup {k \in Kinds : ~(settings[k] \subseteq enabled)}

\* the page of one kind refuses strategies of the other; a request without mode
\* does not
Toggle(name, mode) ==
  /\ mode \in Kinds => name \in OfKind(mode)
  /\ LET on == IF name \in enabled THEN enabled \ {name} ELSE enabled \cup {name}
     IN /\ enabled' = on
        /\ RewriteLists(on)
        /\ chosen' = IF name \in on THEN chosen \cup {name} ELSE chosen \ {name}
  /\ UNCHANGED <<file, limit, started, applied, filed>>

\* update_settings, its strategies part: the flags named in the request
SetStrategies(on, off) ==
  /\ on \cap off = {}
  /\ enabled' = (enabled \cup on) \ off
  /\ RewriteLists((enabled \cup on) \ off)
  /\ chosen' = (chosen \cup on) \ off
  /\ UNCHANGED <<file, limit, started, applied, filed>>

\* its trading part changes the settings, its risk part the risk manager
SetTrading(v) ==
  /\ settings' = [settings EXCEPT !.limit = v]
  /\ UNCHANGED <<file, enabled, limit, started, chosen, applied, hidden, filed>>

SetRisk(v) ==
  /\ limit' = v /\ applied' = applied \cup {v}
  /\ UNCHANGED <<file, settings, enabled, started, chosen, hidden, filed>>

\* the histories of a file that is written
Filed ==
  /\ hidden' = hidden \cup {k \in Kinds : ~(settings[k] \subseteq enabled)}
  /\ filed' = [chosen |-> chosen, hidden |-> hidden']

(***************************************************************************)
(* persist_settings: the lists are what is enabled, the limits the risk    *)
(* manager's, which overwrite those of the settings.  A file that cannot   *)
(* be read or written changes nothing.                                     *)
(***************************************************************************)
\* mutant: the limits of the settings are written
PersistSettings ==
  /\ file' = [scalping |-> enabled \cap Scalping, quant |-> enabled \cap Quant,
              limit |-> settings.limit]
  /\ Filed
  /\ UNCHANGED <<settings, enabled, limit, started, chosen, applied>>

\* mutant: the list of the other kind stays as it was in the file
PersistScalping ==
  /\ file' = [file EXCEPT !.scalping = enabled \cap Scalping, !.limit = limit]
  /\ Filed
  /\ UNCHANGED <<settings, enabled, limit, started, chosen, applied>>

Persist ==
  /\ file' = [scalping |-> enabled \cap Scalping, quant |-> enabled \cap Quant,
              limit |-> limit]
  /\ Filed
  /\ UNCHANGED <<settings, enabled, limit, started, chosen, applied>>

\* what was not persisted is forgotten
Restart ==
  /\ Loaded(file)
  /\ chosen' = filed.chosen /\ hidden' = filed.hidden
  /\ UNCHANGED <<file, applied, filed>>

Next ==
  \/ \E mode \in Modes : Start(mode)
  \/ Stop
  \/ \E name \in Strategies, mode \in Kinds \cup {""} : Toggle(name, mode)
  \/ \E on, off \in SUBSET Strategies : SetStrategies(on, off)
  \/ \E v \in Limits : SetTrading(v) \/ SetRisk(v)
  \/ Persist
  \/ Restart

Spec == Init /\ [][Next]_vars

-----------------------------------------------------------------------------
Values == [scalping : SUBSET Scalping, quant : SUBSET Quant, limit : Limits]

TypeOK ==
  /\ file \in Values /\ settings \in Values
  /\ enabled \subseteq Strategies /\ chosen \subseteq Strategies
  /\ limit \in Limits /\ started \in BOOLEAN
  /\ applied \subseteq Limits /\ hidden \subseteq Kinds
  /\ filed \in [chosen : SUBSET Strategies, hidden : SUBSET Kinds]

(***************************************************************************)
(* The list of a kind is what was chosen by hand, and after a restart what *)
(* was chosen when the settings were last persisted, and no strategy is    *)
(* enabled that is not listed, over any sequence of modes, toggles,        *)
(* settings, persists and restarts: but for a kind whose lists were        *)
(* rewritten (routes.py:683-686, 892-895, 954-957) while a mode had it     *)
(* switched off, which empties it.                                         *)
(***************************************************************************)
ChoiceKept ==
  /\ \A k \in Kinds \ hidden : settings[k] = chosen \cap OfKind(k)
  /\ enabled \subseteq Listed(settings)

(***************************************************************************)
(* The limits in force were once given to the risk manager, or are those   *)
(* the file had at first: what the trading part of the settings page sets  *)
(* (routes.py:849-853), which never reaches the risk manager, does not     *)
(* come into force behind the user's back with a persist and a restart.    *)
(***************************************************************************)
LimitsWereApplied == limit \in applied /\ file.limit \in applied
=============================================================================
