----------------------------- MODULE MCRunFigures -----------------------------
EXTENDS RunFigures, TLC

Kind(mode, provider, family, origin, source) ==
    [mode |-> mode, provider |-> provider, model |-> provider, family |-> family,
     origin |-> origin, source |-> source]

MCSubmission == {
    Kind("live", "openai", NoFamily, "unverified", "custom"),
    Kind("live", "anthropic", "supplier_invoice", "server_original", "synthetic"),
    Kind("recorded", "openai", "supplier_invoice", "server_original", "synthetic") }

\* Two outcomes with a usage that is trusted, and so priced, and two without.
Stored(outcome, tokens, cost) == [outcome |-> outcome, tokens |-> tokens, cost |-> cost]
MCResult ==
    {Stored("evidence_consistent", 3, 2), Stored("clear", 2, 1),
     Stored("not_found", 0, 0), Stored("needs_review", 0, 0)}

RunSymmetry == Permutations(Run)
=============================================================================
