----------------------------- MODULE MCKitchen -----------------------------
EXTENDS Menu

Line(name, section, cost) == [name |-> name, section |-> section, price |-> cost]

\* A dish without a category, and a sheet with a dish twice, a dish without a
\* name, one without a price and a free one.
MenuSheets ==
    {[rows |-> <<Line("dal", Blank, "charged")>>],
     [rows |-> <<Line("dal", "soups", "charged"), Line("dal", "soups", "charged"),
                 Line(Blank, "soups", "charged"), Line("dal", "mains", "missing"),
                 Line("dal", "mains", "free")>>]}

Alike == Permutations(Sessions)

\* Checked side by side: what the owner does to the dishes, to the spelling of
\* the categories, and to the suggestions.  One of them moves in a behaviour.
VARIABLE theme

vars == <<menuVars, theme>>

Init == MenuInit /\ theme \in {"dishes", "spelling", "suggestions"}

PlainlySpelled ==
    /\ \A c \in Categories : ~menu.categories[c].odd
    /\ \A s \in Sessions : ~menuTxn[s].changes.odd

SpellingStep(s) ==
    \/ Seed(s)
    \/ CreateCategory(s)
    \/ ApplyScan(s)
    \/ Commit(s)
    \/ Abort(s)
    \/ EditCategory(s)

Next ==
    /\ \/ /\ theme = "dishes"
          /\ \E s \in Sessions : CardStep(s) \/ ImportSheet(s)
          /\ PlainlySpelled'
       \/ theme = "spelling" /\ \E s \in Sessions : SpellingStep(s)
       \/ theme = "suggestions" /\ \E s \in Sessions : PairStep(s)
       \/ LoseTransactions
    /\ UNCHANGED theme

Spec == Init /\ [][Next]_vars
=============================================================================
