----------------------------- MODULE MCPrograms -----------------------------
(* Programs for TLC to run on the schedulers.  Tasks are named by strings;  *)
(* By fills a map of what only some of the tasks have.                      *)
EXTENDS AsyncTask, TLC

By(special, default) ==
    [t \in Task |-> IF t \in DOMAIN special THEN special[t] ELSE default]

None == [op |-> "none", on |-> NoTask]
Stop == [op |-> "stop", on |-> NoTask]
Do(verb, t) == [op |-> verb, on |-> t]

Unwrapped == [t \in Task |-> t]

\* Mix: a generator yields a SomeTask over a promise, a recurring task and a
\* callable, and then that callable; deeds cancel, settle and schedule again.
MixKind == [p |-> "promise", c |-> "callable", r |-> "recurring",
            g |-> "generator", s |-> "some"]
MixTask == DOMAIN MixKind
MixSubs == By([s |-> <<"p", "r", "c">>], <<>>)
MixHowMany == By([s |-> 2], 0)
MixTimes == By([r |-> 2], 0)
MixYields == By([g |-> <<"s", "c">>], <<>>)
MixDeeds == By([c |-> {None, Do("resolve", "p"), Do("cancel", "p")},
                r |-> {None, Do("cancel", "r"), Do("cancel", "s"), Do("schedule", "c")},
                g |-> {None, Do("reject", "p"), Do("cancel", "r")}], {None})
MixClient == {Do("schedule", "g"), Do("schedule", "s"), Do("schedule", "r"),
              Do("cancel", "p"), Do("resolve", "p")}

\* Rough: f recurs for ever and may stop the scheduler, h throws before its first
\* yield, w needs a timer, p may stay unsettled; a generator and a SomeTask wait
\* for the others.
RoughKind == [f |-> "recurring", c |-> "callable", p |-> "promise",
              h |-> "generator", g |-> "generator", s |-> "some",
              d |-> "delayed", w |-> "throttled"]
RoughTask == DOMAIN RoughKind
RoughSubs == By([s |-> <<"c", "h", "p">>], <<>>)
RoughHowMany == By([s |-> 2], 0)
RoughTimes == By([f |-> -1], 0)
RoughYields == By([g |-> <<"c", "s">>, h |-> <<"c">>], <<>>)
RoughWrapped == By([d |-> "g", w |-> "h"], "c")
RoughCore == [d |-> "g", w |-> "h"] @@ Unwrapped
RoughDeeds == By([f |-> {None, Stop}, c |-> {None, Do("reject", "p")},
                  g |-> {None, Do("cancel", "p")}], {None})
RoughBasicClient == {Do("schedule", t) : t \in {"d", "f", "g", "s"}}
                        \cup {Do("resolve", "p")}
RoughReactClient == {Do("schedule", t) : t \in {"d", "f", "g", "w"}}
                        \cup {Do("resolve", "p")}
=============================================================================
