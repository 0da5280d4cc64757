----------------------------- MODULE MCScenarioRun -----------------------------
(***************************************************************************)
(* Scenarios for TLC: two users with overlapping expectations, captures    *)
(* that later steps refer to, users declared or not, logins by recipe and  *)
(* by steps; each for the command line and for the builder.                *)
(***************************************************************************)
EXTENDS ScenarioRun

CONSTANTS ann, bob, x

Anything == [tag |-> None, ref |-> None]
Is(tag) == [tag |-> tag, ref |-> None]
Of(tag, name) == [tag |-> tag, ref |-> name]

Invoke(u, m) ==
    [is |-> "invoke", as |-> u, blocks |-> TRUE, match |-> m, wantError |-> FALSE, capture |-> None]
Fails(u) == [Invoke(u, Anything) EXCEPT !.wantError = TRUE]
Arm(u, m) == [Invoke(u, m) EXCEPT !.is = "expectUpdate", !.blocks = FALSE]
Wait(u, m) == [Arm(u, m) EXCEPT !.blocks = TRUE]
Macro(u, name) == [Invoke(u, Anything) EXCEPT !.is = "recipe", !.capture = name]
Empty(u) == [Invoke(u, Anything) EXCEPT !.is = "nothing"]
Keep(step, name) == [step EXCEPT !.capture = name]

Anonymous(u) == [name |-> u, recipe |-> None, steps |-> <<>>]
ByRecipe(u) == [Anonymous(u) EXCEPT !.recipe = x]
BySteps(u) == [Anonymous(u) EXCEPT !.steps = <<Empty(u), Keep(Invoke(u, Is("auth")), x)>>]

Both(users, steps) ==
    {[studio |-> studio, users |-> users, steps |-> steps] : studio \in BOOLEAN}

MCScenarios ==
    Both(<<ByRecipe(ann), BySteps(bob)>>,
         <<Arm(ann, Of("message", <<ann, x>>)), Invoke(bob, Anything), Wait(ann, Is("message"))>>)
    \cup Both(<<Anonymous(ann)>>,
              <<Arm(ann, Anything), Arm(ann, Of("message", x)), Keep(Invoke(ann, Is("auth")), x),
                Fails(bob), Macro(bob, None), Empty(ann)>>)
    \cup Both(<<BySteps(bob), Anonymous(ann)>>,
              <<Arm(bob, Is("message")), Macro(ann, x), Wait(bob, Of("message", <<ann, x>>))>>)
    \cup {[studio |-> FALSE, users |-> <<Anonymous(ann), Anonymous(bob)>>,
           steps |-> <<Arm(None, Anything), Fails(ann), Wait(bob, Anything)>>],
          [studio |-> FALSE, users |-> <<Anonymous(ann)>>,
           steps |-> <<Arm(None, Anything), Fails(None), Wait(bob, Anything)>>],
          [studio |-> FALSE, users |-> <<>>, steps |-> <<Arm(None, Anything), Empty(bob), Fails(None)>>]}
=============================================================================
