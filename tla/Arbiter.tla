-------------------------------- MODULE Arbiter --------------------------------
(* class ContextArbiter (src/context.cpp): which published context fills each     *)
(* slot of the island.  A pure data structure: every operation is an operator on  *)
(* an arbiter, and the modules that hold one make the steps.                      *)
(*                                                                                *)
(* Deadlines are kept as the time that is left; the code compares them with `now` *)
(* only when it is asked something, and so does Expire here: a context with       *)
(* nothing left stays until the next question.                                    *)

EXTENDS Integers, FiniteSets

CONSTANTS
  Keys,             \* the context keys <<instance id, context id>> in use
  MaxLifetime       \* the longest expires_in, activation duration or presentation

Instances == {key[1] : key \in Keys}
Slots == {"compact", "expanded"}

Forever == -1       \* no expires_at, no deadline
Lifetimes == {Forever} \cup 0..MaxLifetime

NoView == "no view"

ASSUME ArbiterAssumption == MaxLifetime \in Nat

\* Whether a context passes the layout is not the arbiter's business: a view is any value.
NoContext == [instance |-> "none"]
NoActivation == [left |-> 0]

InstanceOf(context) == context.key[1]

Elapse(left) == IF left > 0 THEN left - 1 ELSE left

EmptyArbiter(compact_default, expanded_default) ==
  [contexts         |-> << >>,        \* contexts_, a map from keys to publications
   activation       |-> NoActivation, \* activation_
   held             |-> FALSE,        \* activation_held_
   compact_default  |-> compact_default,
   expanded_default |-> expanded_default]

Published(arbiter) == DOMAIN arbiter.contexts
Activated(arbiter) == arbiter.activation # NoActivation

Erase_KeepsActivation(arbiter, keys) ==   \* mutant
  [arbiter EXCEPT !.contexts = [key \in DOMAIN @ \ keys |-> @[key]]]

\* Erase some keys, and the activation if it pins one of them.
Erase(arbiter, keys) ==
  [arbiter EXCEPT
     !.contexts = [key \in DOMAIN @ \ keys |-> @[key]],
     !.activation = IF Activated(arbiter) /\ @.key \in keys THEN NoActivation ELSE @]

Dismiss(arbiter, key) == Erase(arbiter, {key})

DismissInstance(arbiter, instance) == Erase(arbiter, {key \in Keys : key[1] = instance})

\* sequence_ only ever orders the publications that are present.
Newest(arbiter) ==
  CHOOSE n \in {0} \cup {arbiter.contexts[key].sequence : key \in Published(arbiter)} :
    \A key \in Published(arbiter) : arbiter.contexts[key].sequence <= n

\* A publication that has expired already removes the one it replaces.
Publish(arbiter, context) ==
  IF context.left = 0
  THEN Dismiss(arbiter, context.key)
  ELSE [arbiter EXCEPT
          !.contexts = [key \in DOMAIN @ \cup {context.key} |->
                          IF key = context.key
                          THEN [context EXCEPT !.sequence = Newest(arbiter) + 1]
                          ELSE @[key]]]

\* Every question expires first: contexts, then an activation that is not held or that
\* pins nothing any more.
Expire(arbiter) ==
  LET alive == Erase(arbiter, {key \in Published(arbiter) : arbiter.contexts[key].left = 0})
  IN  IF Activated(alive) /\ ~alive.held /\ alive.activation.left = 0
      THEN [alive EXCEPT !.activation = NoActivation]
      ELSE alive

\* Higher priority first, then the newer publication.
Outranks(a, b) ==
  a.priority > b.priority \/ (a.priority = b.priority /\ a.sequence > b.sequence)

Best(contexts) ==
  IF contexts = {} THEN NoContext
  ELSE CHOOSE best \in contexts : \A other \in contexts \ {best} : Outranks(best, other)

ContextsOf(arbiter) == {arbiter.contexts[key] : key \in Published(arbiter)}
Contributes(context, slot) == context[slot] # NoView
Available(arbiter, instance) == \E context \in ContextsOf(arbiter) : InstanceOf(context) = instance

DefaultOf(arbiter, slot) ==
  IF slot = "compact" THEN arbiter.compact_default ELSE arbiter.expanded_default

\* active(): the pinned context, else the best that is not a mere fallback, else the
\* best of the slot's default instance.  The arbiter has just expired.
Active(arbiter, slot) ==
  LET contributing == {context \in ContextsOf(arbiter) : Contributes(context, slot)}
      fallback == {context \in contributing : InstanceOf(context) = DefaultOf(arbiter, slot)}
      temporary == {context \in contributing \ fallback : ~context.fallback_only}
      pinned == {context \in contributing :
                   Activated(arbiter) /\ context.key = arbiter.activation.key}
  IN  CASE pinned # {} -> Best(pinned)
        [] pinned = {} /\ temporary # {} -> Best(temporary)
        [] OTHER -> Best(fallback)

\* activate() for an instance that has a context.
Activate(arbiter, instance, left) ==
  [arbiter EXCEPT !.activation =
     [key  |-> Best({context \in ContextsOf(arbiter) : InstanceOf(context) = instance}).key,
      left |-> left]]

\* clear_activation(): the hold is released, and the activation if it pins one of `keys`.
ClearActivation(arbiter, keys) ==
  [arbiter EXCEPT
     !.held = FALSE,
     !.activation = IF Activated(arbiter) /\ @.key \in keys THEN NoActivation ELSE @]

\* A unit of time goes by, for a context or an activation and for them all.
Older(lasting) == [lasting EXCEPT !.left = Elapse(@)]

Aged(arbiter) ==
  [arbiter EXCEPT
     !.contexts = [key \in DOMAIN @ |-> Older(@[key])],
     !.activation = IF Activated(arbiter) THEN Older(@) ELSE @]
================================================================================
