------------------------------- MODULE MCInput -------------------------------
(***************************************************************************)
(* Model-checking instance of Terminal: KeyInput and CmdLine.              *)
(***************************************************************************)
EXTENDS Terminal, TLC

CONSTANTS a, b, w, cmd, f1, f2, f3, stop, rec, feed, leave, q

ASSUME K!ModesAssumption /\ K!KeysAssumption /\ K!DelaysAssumption
ASSUME K!MapsAssumption /\ K!CodeAssumption /\ K!NoneAssumption
ASSUME C!CharsAssumption /\ C!SettableAssumption /\ C!LengthsAssumption
       /\ C!WidthsAssumption

MCKeys == {a, b, w, 2, 0, Esc, Enter}
MCModes == {Normal, Input, Visual, "prompt", "mine", "late"}
MCCode ==
  f1 :> <<[do |-> "mode", mode |-> "late"]>> @@ f2 :> <<[do |-> "mode", mode |-> "mine"]>>
  @@ f3 :> <<[do |-> "play", id |-> q]>>
  @@ stop :> <<[do |-> "stop"]>>
  @@ rec :> <<[do |-> "mode", mode |-> Normal], [do |-> "record", id |-> q]>>
  @@ feed :> <<[do |-> "input", keys |-> <<2>>], [do |-> "feed", keys |-> <<a, b>>]>>
  @@ leave :> <<[do |-> "mode", mode |-> Normal]>>
  @@ cmd :> <<[do |-> "mode", mode |-> "prompt"]>>
MCMaps ==
  [t \in MCModes \ {Visual, "late"} |->
     CASE t = Normal -> <<a, b>> :> f2 @@ <<b>> :> cmd @@ <<a, a>> :> f3 @@ <<w>> :> stop
                         @@ <<a, w>> :> stop
       [] t = "mine" -> <<a, b>> :> feed @@ <<b, a>> :> f1 @@ <<0>> :> f1
                        @@ <<a, a, b>> :> f1
       [] t = Input -> <<b, a>> :> f1
       [] t = "prompt" -> <<b, b>> :> f1]
MCNewMaps == {<<"mine", <<a>>, leave>>, <<"prompt", <<a, b>>, leave>>}
MCScripts == {<<[do |-> "mode", mode |-> "mine"]>>, <<[do |-> "execute"]>>}
MCOnEsc == [m \in MCModes |-> None]
MCOnReturn == [m \in MCModes |-> IF m = "prompt" THEN leave ELSE None]
MCOnChange == [m \in MCModes |-> IF m = "prompt" THEN rec ELSE None]
MCRank == w :> 1 @@ a :> 2 @@ b :> 3 @@ 0 :> 4 @@ 2 :> 5 @@ Esc :> 6 @@ Enter :> 7
MCFold == [k \in MCKeys |-> IF k = w THEN b ELSE k]

MCPrompts == {<<"p">>, <<"p", "p">>}
MCSettable == {<< <<"x">>, <<>> >>, << <<>>, <<"x", " ">> >>}
===============================================================================
