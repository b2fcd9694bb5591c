------------------------------- MODULE Records --------------------------------
(***************************************************************************)
(* Preview, History and Programs side by side.  The components share       *)
(* nothing here: a behaviour is one of the component in focus, while the   *)
(* others stay in an initial state.                                        *)
(***************************************************************************)
EXTENDS Preview, Sequences

CONSTANTS Nobody,
          Procs, Stopped, Lines, Modes, Nothing, HistSize, InitialFiles, Missing, Typed,
          MaxAppends, MaxLives,
          Kids, Background, Jobs, Pipe, MaxInput, Says

VARIABLES focus,
          file, lock, pc, list, cur, out, appends, lives,
          kids, main

H == INSTANCE History
P == INSTANCE Programs

historyVars == <<file, lock, pc, list, cur, out, appends, lives>>
programVars == <<kids, main>>
allVars == <<focus, vars, historyVars, programVars>>

InitAll ==
  /\ focus \in {"previews", "history", "programs"}
  /\ Init /\ H!Init /\ P!Init
  /\ focus # "previews" => ~lua /\ rows = 1
  /\ focus # "history" => file = Missing

NextAll ==
  /\ UNCHANGED focus
  /\ \/ focus = "previews" /\ Next /\ UNCHANGED <<historyVars, programVars>>
     \/ focus = "history" /\ H!Next /\ UNCHANGED <<vars, programVars>>
     \/ focus = "programs" /\ P!Next /\ UNCHANGED <<vars, historyVars>>

\* The fairness of the component in focus, as stated in its module.
FairnessAll ==
  /\ WF_vars(focus = "previews" /\ Killed)
  /\ WF_vars(focus = "previews" /\ Work)
  /\ WF_vars(focus = "previews" /\ Drain)
  /\ \A p \in Procs \ Stopped : /\ WF_historyVars(focus = "history" /\ H!Loading(p))
                               /\ WF_historyVars(focus = "history" /\ H!Writing(p))
  /\ WF_programVars(focus = "programs" /\ P!Lfm)
  /\ \A k \in Kids :
       /\ \A s \in {"out", "err"} : WF_programVars(focus = "programs" /\ P!ChildOutput(k, s))
       /\ WF_programVars(focus = "programs" /\ P!Reap(k))
       /\ WF_programVars(focus = "programs" /\ P!ChildExit(k))
       /\ WF_programVars(focus = "programs" /\ P!Program(k))

SpecAll == InitAll /\ [][NextAll]_allVars /\ FairnessAll

\* The properties of History and Programs, stated there; those of Preview are checked by
\* their own names.  The history has its lines once, and recalls them; the output of
\* programs is delivered in full, in order and before their end.
RecordsConsistent == /\ H!TypeOK /\ H!LinesAreUnique /\ H!RecallWalksTheList
                     /\ P!TypeOK /\ P!OutputBeforeExit /\ P!ResultIsOutput
\* The worker of every preview and every instance's access to the history end.
InstancesEnd == QuitCompletes /\ (focus = "history" => H!EndsAndStarts)
NoUpdateLost == H!NoUpdateLost
\* lfm.spawn and lfm.execute come back, and the end of programs is told.
CallsReturn == P!ExitIsReported /\ P!SpawnReturns /\ P!ExecuteReturns
=============================================================================
