-------------------------------- MODULE Hooks --------------------------------
(***************************************************************************)
(* Hooks of hooks.c, as used through lfm.api.add_hook and del_hook, with   *)
(* the references to their callbacks in the Lua registry.                  *)
(*                                                                         *)
(* Everything runs on the event loop thread, but the callbacks of a hook   *)
(* add and remove hooks and run other hooks, so that runs nest.            *)
(***************************************************************************)
EXTENDS Naturals, Sequences, SequencesExt

CONSTANTS Hooks,        \* lfm_hook_id
          Callbacks,    \* Lua functions, each added as a hook at most once
          MaxDepth,     \* bound: nested runs
          MaxOps,       \* bound: calls and runs
          RemoveTwice,  \* TRUE: Lua may remove with an id it has used before
          None          \* "no function at this reference"

ASSUME NoneAssumption == None \notin Callbacks
ASSUME BoundsAssumption == MaxDepth \in Nat /\ MaxOps \in Nat

VARIABLES hook_refs,    \* lfm.hook_refs: references per hook
          hook_changes, \* lfm.hook_changes
          stack,        \* runs of hooks, the innermost last
          fn, link, size, \* the Lua registry: functions, free list, length
          id,           \* the id add_hook returned for a callback
          removed,      \* callbacks that del_hook removed
          live,         \* ghost: hooks as Lua asked for them, in order
          base,         \* ghost: live when the outermost run began
          ops           \* calls so far, for the bound only

vars == <<hook_refs, hook_changes, stack, fn, link, size, id, removed, live, base,
          ops>>
registry == <<fn, link, size>>

NoId == [hook |-> None, ref |-> 0]
depth == Len(stack)
Refs == 1..MaxOps

Init == /\ hook_refs = [h \in Hooks |-> <<>>]
        /\ hook_changes = <<>> /\ stack = <<>>
        /\ fn = [r \in Refs |-> None]
        /\ link = [r \in 0..MaxOps |-> 0] /\ size = 0
        /\ id = [c \in Callbacks |-> NoId]
        /\ removed = {}
        /\ live = [h \in Hooks |-> <<>>] /\ base = live
        /\ ops = 0

Op == ops < MaxOps /\ ops' = ops + 1

-----------------------------------------------------------------------------
(* The Lua registry *)

\* The reference luaL_ref returns: the head of the free list, if there is one.
FreeRef == IF link[0] # 0 THEN link[0] ELSE size + 1

\* luaL_ref
Ref(c) ==
  /\ fn' = [fn EXCEPT ![FreeRef] = c]
  /\ IF link[0] = 0
     THEN size' = size + 1 /\ UNCHANGED link
     ELSE /\ link' = [link EXCEPT ![0] = IF fn[@] = None THEN link[@] ELSE 0]
          /\ UNCHANGED size

\* luaL_unref
Unref(r) == /\ fn' = [fn EXCEPT ![r] = None]
            /\ link' = [link EXCEPT ![r] = link[0], ![0] = r]
            /\ UNCHANGED size

-----------------------------------------------------------------------------
(* Adding and removing *)

\* l_add_hook, lfm_add_hook
AddHook(h, c) ==
  /\ Op
  /\ id[c] = NoId
  /\ Ref(c)
  /\ id' = [id EXCEPT ![c] = [hook |-> h, ref |-> FreeRef]]
  /\ IF depth > 0
     THEN /\ hook_changes' = Append(hook_changes,
                [hook |-> h, ref |-> FreeRef, remove |-> FALSE])
          /\ UNCHANGED hook_refs
     ELSE /\ hook_refs' = [hook_refs EXCEPT ![h] = Append(@, FreeRef)]
          /\ UNCHANGED hook_changes
  /\ live' = [live EXCEPT ![h] = Append(@, c)]
  /\ UNCHANGED <<stack, removed, base>>

\* where lfm_remove_hook finds the hook among the changes, if anywhere
Pending(i) == {k \in DOMAIN hook_changes :
                 /\ ~hook_changes[k].remove
                 /\ hook_changes[k].hook = i.hook /\ hook_changes[k].ref = i.ref}

First(S) == CHOOSE k \in S : \A m \in S : k <= m

\* mutant: hooks are erased although they are being run
RemoveHookAtOnce(i) ==
  /\ Contains(hook_refs[i.hook], i.ref)
  /\ hook_refs' = [hook_refs EXCEPT ![i.hook] = RemoveFirst(@, i.ref)]
  /\ UNCHANGED hook_changes

\* lfm_remove_hook, where it finds the hook; otherwise del_hook raises an error
RemoveHook(i) ==
  \/ /\ Contains(hook_refs[i.hook], i.ref)
     /\ IF depth = 0
        THEN /\ hook_refs' = [hook_refs EXCEPT ![i.hook] = RemoveFirst(@, i.ref)]
             /\ UNCHANGED hook_changes
        ELSE /\ hook_changes' = Append(hook_changes,
                   [hook |-> i.hook, ref |-> i.ref, remove |-> TRUE])
             /\ UNCHANGED hook_refs
  \/ /\ ~Contains(hook_refs[i.hook], i.ref)
     /\ Pending(i) # {}
     /\ hook_changes' = [hook_changes EXCEPT ![First(Pending(i))].ref = 0]
     /\ UNCHANGED hook_refs

\* l_del_hook with the id that was returned for c
DelHook(c) ==
  /\ Op
  /\ id[c] # NoId
  /\ c \in removed => RemoveTwice
  /\ RemoveHook(id[c])
  /\ Unref(id[c].ref)
  /\ removed' = removed \cup {c}
  /\ live' = [live EXCEPT ![id[c].hook] = RemoveFirst(@, c)]
  /\ UNCHANGED <<stack, id, base>>

-----------------------------------------------------------------------------
(* Running *)

\* one turn of the loop of lfm_apply_hook_changes
ApplyOne(refs, change) ==
  IF change.ref = 0 THEN refs
  ELSE [refs EXCEPT ![change.hook] = IF change.remove
                                     THEN RemoveFirst(@, change.ref)
                                     ELSE Append(@, change.ref)]

\* refs after all turns of the loop
Applied(refs, changes) ==
  LET after[k \in 0..Len(changes)] ==
        IF k = 0 THEN refs ELSE ApplyOne(after[k - 1], changes[k])
  IN  after[Len(changes)]

\* mutant: removals are applied before additions
ApplyRemovalsFirst ==
  /\ LET removals == SelectSeq(hook_changes, LAMBDA k : k.remove)
         additions == SelectSeq(hook_changes, LAMBDA k : ~k.remove)
     IN  hook_refs' = Applied(hook_refs, removals \o additions)
  /\ hook_changes' = <<>>

\* lfm_apply_hook_changes, when the outermost run is over
ApplyHookChanges == /\ hook_refs' = Applied(hook_refs, hook_changes)
                    /\ hook_changes' = <<>>

\* LFM_RUN_HOOK: begins with the first callback.  due are the callbacks that
\* were there when the outermost run began, ran those that have been called.
RunHook(h) ==
  /\ Op
  /\ hook_refs[h] # <<>>
  /\ depth < MaxDepth
  /\ base' = IF depth = 0 THEN live ELSE base
  /\ stack' = Append(stack,
       [hook |-> h, pos |-> 1, ran |-> <<fn[hook_refs[h][1]]>>, due |-> base'[h]])
  /\ UNCHANGED <<hook_refs, hook_changes, registry, id, removed, live>>

\* The callback of the innermost run returns, and the next one is called.
NextCallback ==
  /\ stack # <<>>
  /\ LET f == Last(stack)
     IN  /\ f.pos < Len(hook_refs[f.hook])
         /\ stack' = [stack EXCEPT ![depth] =
              [f EXCEPT !.pos = @ + 1,
                        !.ran = Append(@, fn[hook_refs[f.hook][f.pos + 1]])]]
  /\ UNCHANGED <<hook_refs, hook_changes, registry, id, removed, live, base, ops>>

\* The last callback of the innermost run returns.
EndRun ==
  /\ stack # <<>>
  /\ Last(stack).pos >= Len(hook_refs[Last(stack).hook])
  /\ stack' = Front(stack)
  /\ IF depth = 1 THEN ApplyHookChanges ELSE UNCHANGED <<hook_refs, hook_changes>>
  /\ UNCHANGED <<registry, id, removed, live, base, ops>>

\* No call is left.
Idle == ops = MaxOps /\ stack = <<>> /\ UNCHANGED vars

Next == \/ \E h \in Hooks : RunHook(h) \/ \E c \in Callbacks : AddHook(h, c)
        \/ \E c \in Callbacks : DelHook(c)
        \/ NextCallback \/ EndRun \/ Idle

Spec == Init /\ [][Next]_vars

\* Callbacks return.
FairSpec == Spec /\ WF_vars(NextCallback) /\ WF_vars(EndRun)

-----------------------------------------------------------------------------
(* Properties *)

TypeOK ==
  /\ \A h \in Hooks : \A k \in DOMAIN hook_refs[h] : hook_refs[h][k] \in Refs
  /\ \A k \in DOMAIN hook_changes : /\ hook_changes[k].hook \in Hooks
                                    /\ hook_changes[k].ref \in Refs \cup {0}
                                    /\ hook_changes[k].remove \in BOOLEAN
  /\ \A k \in DOMAIN stack : /\ stack[k].hook \in Hooks
                             /\ stack[k].pos \in 1..Len(hook_refs[stack[k].hook])
  /\ fn \in [Refs -> Callbacks \cup {None}]
  /\ link \in [0..MaxOps -> 0..MaxOps] /\ size \in 0..MaxOps
  /\ removed \subseteq Callbacks

\* the callbacks behind the references of a hook
Installed(h) == [k \in DOMAIN hook_refs[h] |-> fn[hook_refs[h][k]]]

\* Outside of runs, what was added and removed, also by callbacks while their
\* hooks were being run, is in effect in the order in which Lua asked for it.
ChangesInOrder == depth = 0 => /\ hook_changes = <<>>
                               /\ \A h \in Hooks : Installed(h) = live[h]

\* The run called what was due and not removed meanwhile, once and in order.
CalledOnce(f) ==
  LET due == {k \in DOMAIN f.due : f.due[k] \notin removed}
      calls(k) == {m \in DOMAIN f.ran : f.ran[m] = f.due[k]}
  IN  /\ \A k \in due : \E m \in DOMAIN f.ran : calls(k) = {m}
      /\ \A k, l \in due : k < l => \A m \in calls(k), n \in calls(l) : m < n

\* A run calls each callback that was installed when the outermost run began,
\* and that is not removed meanwhile, once and in order, whatever the callbacks
\* add, remove and run.
EachCalledOnce == [][depth' < depth => CalledOnce(Last(stack))]_vars

\* Each hook that is not removed has a reference of its own, which still leads
\* to its callback.
ReferencesOwned == \A c \in Callbacks : id[c] # NoId /\ c \notin removed
                                        => fn[id[c].ref] = c

\* Changes made by callbacks take effect.
ChangesTakeEffect == hook_changes # <<>> ~> hook_changes = <<>>

\* A hook calls only callbacks that were added to it and are not removed.
CallsOnlyItsOwn ==
  \A k \in DOMAIN stack : LET c == Last(stack[k].ran)
                          IN  c # None /\ (id[c].hook = stack[k].hook)

\* Every hook that was added and not removed is there, in the order of adding, with a
\* reference of its own.
HooksAreThoseAdded == TypeOK /\ ChangesInOrder /\ ReferencesOwned

\* A run calls what it should and no change asked for meanwhile is forgotten.
RunsAreExact == EachCalledOnce /\ ChangesTakeEffect
=============================================================================
