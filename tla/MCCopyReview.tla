--------------------------- MODULE MCCopyReview ---------------------------
(* TLC instances of the artifact store with a copy review among its writers. *)
EXTENDS CopyReview, TLC

PathSymmetry == Permutations(Paths)

Canon == {"brand-design-law", "tone-language-law"}

\* One input for each way through the gates, and one for two at a time.
SomeInputs ==
    {[text |-> {}, canon |-> Canon],
     [text |-> {"healthcare"}, canon |-> Canon],
     [text |-> {"healthcare"}, canon |-> Authorities],
     [text |-> {"obvious", "healthcare"}, canon |-> Canon],
     [text |-> {"em-dash"}, canon |-> Canon],
     [text |-> {}, canon |-> {"brand-design-law"}]}

============================================================================
