--------------------------- MODULE MCRunsAndShell ----------------------------
(* Instances for TLC of the runs of a MySQL connection and of the shell of a MongoDB one. *)
(* They share no state, so each behaviour is of one.                                      *)
EXTENDS MySqlRuns, TLC

CONSTANTS s1, s2, Sessions, Patient, Servers, Doc, MaxSubmissions, MaxCalls

VARIABLES part, saved, edits, data, tab, engine, worker

shellVars == <<saved, edits, data, tab, engine, worker>>

\* The second tab's server may never answer.
Submissions == (s1 :> 2) @@ (s2 :> 1)

S == INSTANCE Shell

\* The tabs of the runs are alike, and the first of them to run is given.
OfFirstTab(t, r) == r = 1 => t = CHOOSE first \in Tab : TRUE

OfRuns(A)  == part = "runs" /\ A /\ UNCHANGED <<part, shellVars>>
OfShell(A) == part = "shell" /\ A /\ UNCHANGED <<part, vars>>

InitPart ==
    /\ part \in {"runs", "shell"} /\ Init /\ S!Init
    /\ part = "runs" => saved.readOnly

NextPart ==
    \/ \E t \in Tab :
        \/ OfRuns(BeginTransaction(t)) \/ OfRuns(EndTransaction(t)) \/ OfRuns(Finish(t))
        \/ \E r \in Run : OfRuns(OfFirstTab(t, r) /\ StartRun(t, r))
    \/ \E r \in Run :
        \/ OfRuns(ScriptRefused(r)) \/ OfRuns(Register(r)) \/ OfRuns(AcquireFails(r))
        \/ OfRuns(Acquire(r)) \/ OfRuns(UnlessStopped(r)) \/ OfRuns(Lock(r)) \/ OfRuns(RunOn(r))
        \/ OfRuns(NextStatement(r)) \/ OfRuns(Arrive(r)) \/ OfRuns(Execute(r))
        \/ OfRuns(EndStatement(r)) \/ OfRuns(Cancel(r)) \/ OfRuns(TimeLimit(r))
        \/ OfRuns(StopLocks(r)) \/ OfRuns(Kill(r)) \/ OfRuns(KillFails(r))
    \/ OfShell(S!EditConnection)
    \/ \E s \in Sessions :
        \/ OfShell(S!Run(s)) \/ OfShell(S!ConnectFails(s)) \/ OfShell(S!SubmitEval(s))
        \/ OfShell(S!Close(s)) \/ OfShell(S!SessionLoop(s)) \/ OfShell(S!MakeCursor(s))
        \/ OfShell(S!MongoCall(s)) \/ OfShell(S!Return(s))

SpecPart ==
    /\ InitPart /\ [][NextPart]_<<part, vars, shellVars>>
    /\ \A s \in Sessions :
        /\ WF_shellVars(OfShell(S!SessionLoop(s)))
        /\ WF_shellVars(OfShell(S!Return(s)) /\ (s \in Patient \/ S!Capped(worker[s].call)))

\* A server's data change only while code runs that was submitted for it without the
\* read-only flag (shell/engine.rs:139-145), as Shell states it.
WritesAreAllowed == S!WritesAreAllowed

\* A slow session holds no other up (shell/engine.rs:5-6), as Shell states it.
SlowTabsHoldNobodyUp == S!SlowTabsHoldNobodyUp
=============================================================================
