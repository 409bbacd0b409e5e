-------------------------- MODULE MCEngineLifecycle --------------------------
(***************************************************************************)
(* What the dashboard's plan and the README say of one client's requests.  *)
(***************************************************************************)
EXTENDS EngineLifecycle

(***************************************************************************)
(* The dashboard can stop and restart the engine: a start that is answered *)
(* with success leaves it running (docs/01-plan/features/dashboard.plan.md *)
(* lines 39 and 80; routes.py:573-574).                                    *)
(***************************************************************************)
RestartWorks ==
  [][\A c \in Clients :
        req[c] \in {"start", "open"} /\ answer[c] # "success" /\ answer'[c] = "success"
          => running']_vars

(***************************************************************************)
(* In quant mode, too, the symbols are replaced periodically while trading *)
(* is started (README.md line 18; routes.py:494-513).                      *)
(***************************************************************************)
RescansWhileStarted ==
  tradingStarted /\ ~Starting => rescan # "none"
=============================================================================
