----------------------------- MODULE BacktestJobs -----------------------------
(***************************************************************************)
(* The jobs of a backtest page: backtest/routes.py for scalping strategies *)
(* (fetch, run, optimize) and backtest/quant_routes.py for quant ones (run *)
(* and optimize; its fetch is not a job).  Each page lets one job run at a *)
(* time, by the flag _running, and tells how far it is in _progress.       *)
(*                                                                         *)
(* A job may end in an exception.  Where it is raised before the job's try *)
(* statement the flag stays set: nothing on this page runs until the       *)
(* program is restarted.                                                   *)
(***************************************************************************)
EXTENDS Naturals, FiniteSets

CONSTANTS
  Requests,  \* requests that may be under way at once
  Pages,     \* "scalping", "quant"
  MaxCombos  \* bound: combinations an optimization tries

VARIABLES
  running,   \* _running of each page
  progress,  \* _progress: [status, current, total]
  job,       \* what a request's job is doing
  stuck      \* history: what left a page's flag set

vars == <<running, progress, job, stuck>>

Combos == 0 .. MaxCombos
None == [page |-> "none", kind |-> "none", at |-> "none", current |-> 0, total |-> 0]
Shown(status) == [status |-> status, current |-> 0, total |-> 0]

Statuses == [fetch |-> "fetching", run |-> "running", optimize |-> "optimizing"]

Init ==
  /\ running = [p \in Pages |-> FALSE]
  /\ progress = [p \in Pages |-> Shown("idle")]
  /\ job = [r \in Requests |-> None]
  /\ stuck = [p \in Pages |-> {}]

-----------------------------------------------------------------------------
KindsOf(p) == IF p = "scalping" THEN {"fetch", "run", "optimize"} ELSE {"run", "optimize"}

\* what may be raised after the flag is set and before the try statement: a date
\* that strptime refuses, the download of the candles, build_registry
Raised(p, kind) ==
  CASE kind = "fetch" -> {}
    [] kind = "run" -> IF p = "scalping" THEN {"date"} ELSE {"date", "candles"}
    [] kind = "optimize" -> IF p = "scalping" THEN {"date"} ELSE {}

Free(p, kind) == ~running[p]

(***************************************************************************)
(* The check of the flag and its setting have no await between them.       *)
(***************************************************************************)
Request(r, p, kind, total) ==
  /\ job[r] = None
  /\ kind \in KindsOf(p)
  /\ kind # "optimize" => total = 0
  /\ Free(p, kind)
  /\ running' = [running EXCEPT ![p] = TRUE]
  /\ progress' = [progress EXCEPT ![p] =
                    [status |-> Statuses[kind], current |-> 0, total |-> total]]
  /\ \/ job' = [job EXCEPT ![r] =
                  [page |-> p, kind |-> kind, current |-> 0, total |-> total,
                   at |-> IF kind = "optimize" THEN "created" ELSE "working"]]
        /\ UNCHANGED stuck
     \/ \E why \in Raised(p, kind) : stuck' = [stuck EXCEPT ![p] = @ \cup {why}]
        /\ UNCHANGED job

\* the optimization's task begins: the strategies' defaults, before its try
Begin(r) ==
  /\ job[r].at = "created"
  /\ \/ job' = [job EXCEPT ![r].at = "working"] /\ UNCHANGED stuck
     \/ job' = [job EXCEPT ![r] = None]
        /\ stuck' = [stuck EXCEPT ![job[r].page] = @ \cup {"defaults"}]
  /\ UNCHANGED <<running, progress>>

\* mutant: the counter is shown after the backtest
ComboShownLate(r) ==
  /\ job[r].at = "working" /\ job[r].current < job[r].total
  /\ job' = [job EXCEPT ![r].current = @ + 1]
  /\ UNCHANGED <<running, progress, stuck>>

\* a combination: the counter is shown, then its backtest awaited
Combo(r) ==
  /\ job[r].at = "working" /\ job[r].current < job[r].total
  /\ job' = [job EXCEPT ![r].current = @ + 1]
  /\ progress' = [progress EXCEPT ![job[r].page].current = job[r].current + 1]
  /\ UNCHANGED <<running, stuck>>

\* mutant: the flag is reset only after success
EndKeepingFlag(r) ==
  /\ job[r].at = "working"
  /\ LET p == job[r].page
     IN \/ /\ job[r].current = job[r].total
           /\ progress' = [progress EXCEPT ![p] = [Shown("done") EXCEPT !.total = job[r].total]]
           /\ running' = [running EXCEPT ![p] = FALSE]
        \/ progress' = [progress EXCEPT ![p] = Shown("error")] /\ UNCHANGED running
  /\ job' = [job EXCEPT ![r] = None]
  /\ UNCHANGED stuck

\* the job is done, or ends in an exception of its try statement; finally
End(r) ==
  /\ job[r].at = "working"
  /\ LET p == job[r].page
     IN /\ \/ /\ job[r].current = job[r].total
              /\ progress' = [progress EXCEPT ![p] = [Shown("done") EXCEPT !.total = job[r].total]]
           \/ progress' = [progress EXCEPT ![p] = Shown("error")]
        /\ running' = [running EXCEPT ![p] = FALSE]
  /\ job' = [job EXCEPT ![r] = None]
  /\ UNCHANGED stuck

Next ==
  \/ \E r \in Requests, p \in Pages, kind \in DOMAIN Statuses, total \in Combos :
       Request(r, p, kind, total)
  \/ \E r \in Requests : Begin(r) \/ Combo(r) \/ End(r)

\* a task that was created runs, and a backtest ends
Fairness == \A r \in Requests : WF_vars(Begin(r)) /\ WF_vars(Combo(r) \/ End(r))

Spec == Init /\ [][Next]_vars /\ Fairness

-----------------------------------------------------------------------------
JobsOf(p) == {r \in Requests : job[r].page = p}

TypeOK ==
  /\ running \in [Pages -> BOOLEAN]
  /\ \A p \in Pages :
       /\ progress[p].status \in {"idle", "fetching", "running", "optimizing", "done", "error"}
       /\ progress[p].current \in Combos /\ progress[p].total \in Combos
  /\ \A r \in Requests :
       job[r] # None => /\ job[r].page \in Pages /\ job[r].kind \in KindsOf(job[r].page)
                        /\ job[r].at \in {"created", "working"}
                        /\ job[r].current \in 0 .. job[r].total
  /\ stuck \in [Pages -> SUBSET {"date", "candles", "defaults"}]

(***************************************************************************)
(* A page's flag is set exactly while its one job lives, or after an       *)
(* exception that no try statement catches (routes.py:127, 233, 305,       *)
(* quant_routes.py:154, 166, 237); while it is set by a job, the progress  *)
(* shown is that job's, and otherwise it is a result.                      *)
(***************************************************************************)
FlagMeansJob ==
  \A p \in Pages :
    /\ Cardinality(JobsOf(p)) <= 1
    /\ running[p] <=> (JobsOf(p) # {} \/ stuck[p] # {})
    /\ \A r \in JobsOf(p) :
         progress[p] = [status |-> Statuses[job[r].kind], current |-> job[r].current,
                        total |-> job[r].total]
    /\ ~running[p] => progress[p].status \in {"idle", "done", "error"}

(***************************************************************************)
(* Whatever a job meets, its page takes jobs again: unless an exception    *)
(* was raised outside the try statement.                                   *)
(***************************************************************************)
Released == \A p \in Pages : running[p] ~> (~running[p] \/ stuck[p] # {})
=============================================================================
