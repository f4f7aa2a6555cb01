------------------------ MODULE MCRateLimitEngine ---------------------------
EXTENDS RateLimitEngine, TLC

OneEach == <<1, 1>>
ShortAndLong == <<1, 3>>

Layout(slots, shield, draft, strategy) ==
    [slots |-> slots, shield |-> shield, draft |-> draft, strategy |-> strategy,
     threshold |-> slots]

\* A plain store, a shielded one with and without blockDurationMs, and grouped windows,
\* with draft mode over each.  violationsThreshold is 2 with grouped windows, else 1.
AllLayouts ==
    {Layout(1, "none", FALSE, "bucket"), Layout(1, "none", TRUE, "bucket"),
     Layout(1, "reset", FALSE, "window"), Layout(1, "reset", TRUE, "window"),
     Layout(1, "duration", FALSE, "window"),
     Layout(2, "none", FALSE, "window"), Layout(2, "none", TRUE, "window")}

\* Grouped windows in draft mode alone.
GroupedDraft == {Layout(2, "none", TRUE, "window")}

\* Keys meet only in the cache of the shield.
OneKeyUnlessShielded ==
    layout.shield = "none" =>
        \A q, r \in Requests : req[q].pc # "idle" /\ req[r].pc # "idle" =>
                                req[q].key = req[r].key

\* A taken hit excuses both counting properties: nothing is left to see behind it.
BeforeTheFirstTaken == faults \cap {"tookOther", "undoLost"} = {}

Symmetric == Permutations(Requests) \union Permutations(Keys)

=============================================================================
