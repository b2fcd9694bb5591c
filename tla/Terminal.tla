------------------------------ MODULE Terminal -------------------------------
(***************************************************************************)
(* KeyInput and CmdLine side by side: what comes in from the terminal and  *)
(* the line at its bottom.  The two components share nothing here: a       *)
(* behaviour is one of the component in focus, while the other stays in    *)
(* its initial state.                                                      *)
(***************************************************************************)
EXTENDS Integers, Sequences

CONSTANTS Keys, Digits, Esc, Enter, Printable, Modes, NewModes, Normal, Input, Visual,
          IsInput, Callbacks, Code, OnEsc, OnReturn, OnChange, InitialMaps, NewMaps, Scripts,
          Macros, SuggestionDelay, ClearDelay, Fold, Rank, MaxKeys, MaxCalls, MaxNesting, None,
          Chars, Spaces, Puncts, Prompts, MaxLen, Settable, Widths

VARIABLES focus,
          maps, lfm, keys, calls, typed, start, disturbed, interrupted, last,
          prefix, left, right, overwrite

K == INSTANCE KeyInput
C == INSTANCE CmdLine

keyVars == <<maps, lfm, keys, calls, typed, start, disturbed, interrupted, last>>
lineVars == <<prefix, left, right, overwrite>>
vars == <<focus, keyVars, lineVars>>

Init == focus \in {"keys", "line"} /\ K!Init /\ C!Init
Next == /\ UNCHANGED focus
        /\ \/ focus = "keys" /\ K!Next /\ UNCHANGED lineVars
           \/ focus = "line" /\ C!Next /\ UNCHANGED keyVars
Fairness == /\ WF_keyVars(focus = "keys" /\ K!ClearTimer)
            /\ WF_keyVars(focus = "keys" /\ K!SuggestionTimer)
            /\ WF_keyVars(focus = "keys" /\ K!FeedKey)
            /\ WF_keyVars(focus = "keys" /\ K!BufferKey)
            /\ WF_keyVars(focus = "keys" /\ K!EndFeed)
Spec == Init /\ [][Next]_vars /\ Fairness

\* The properties of KeyInput and CmdLine, stated there.  What is shown and kept of the
\* keys typed agrees with them, and of a command line the cursor.
InputConsistent == /\ K!TypeOK /\ K!ShownIsTyped /\ K!MenuOfSequence /\ K!PlayingIsUnderway
                   /\ C!TypeOK /\ C!CursorVisible
KeysDoWhatTheyAsk == K!KeysDoWhatTheyAsk
MenuIsComplete == K!MenuIsComplete
RecordsWhatIsTyped == K!RecordsWhatIsTyped
SequenceEnds == K!SequenceEnds
\* Each kind of key on a command line changes it around the cursor only, by whole words.
LineKeepsText == C!MovesKeepText /\ C!EditsStayAtCursor /\ C!WordsStayWhole
=============================================================================
